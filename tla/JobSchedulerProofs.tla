------------------------- MODULE JobSchedulerProofs -------------------------
(***************************************************************************)
(* What FiberJobSystem does for its callers, for any number of threads,    *)
(* fibers, jobs and counters, if it is destroyed only when it is idle: its *)
(* counters count, no waiter and no fiber is lost, and it implements       *)
(* JobScheduler.  All of it rests on IInv, which says where each fiber and *)
(* each waiting job can be.                                                *)
(***************************************************************************)
EXTENDS FiberJobSystemProofs, FiniteSetTheorems

(***************************************************************************)
(* Counters                                                                *)
(***************************************************************************)
(* A job inside its callback, or past it, is live.                          *)
LEMMA JobInFiber ==
  ASSUME IInv, NEW f \in Fibers, InJob(f) \/ pc[f] = "resumed"
  PROVE  /\ fiberData[f] \in Jobs /\ jobFiber[fiberData[f]] = f
         /\ pc[f] # "wake" => phase[fiberData[f]] = "live"
<1>1. fiberData[f] \in Jobs /\ jobFiber[fiberData[f]] = f
  BY DEF IInv, TypeOK, OwnDataInv
<1>2. f # NoFiber
  BY ConstantFacts
<1> QED
  BY <1>1, <1>2 DEF IInv, JobInv

(* Three actions change what a counter counts.                             *)
LEMMA CounterSteps ==
  ASSUME IInv, Next
  PROVE  \/ UNCHANGED <<counter, phase, runCounter>>
         \/ \E x \in Callers, j \in Jobs, c \in Counters \cup {NoCounter} :
              CreateJob(x, j, c)
         \/ \E t \in Threads : TakeJob(t) \/ CountDown(t)
<1>1. CASE \E j \in Jobs, c \in Counters \cup {NoCounter} : MainRun(j, c)
  BY <1>1 DEF MainRun, Callers, Main
<1>2. CASE MainEnqueue \/ Destroy
  BY <1>2 DEF MainEnqueue, EnqueueJob, Destroy, counterVars, jobVars
<1>3. ASSUME NEW t \in Threads, ThreadStep(t)
      PROVE  \/ UNCHANGED <<counter, phase, runCounter>>
             \/ \E x \in Callers, j \in Jobs, c \in Counters \cup {NoCounter} :
                  CreateJob(x, j, c)
             \/ TakeJob(t) \/ CountDown(t)
  <2>1. CASE \/ Poll(t) \/ LeaveJobMain(t) \/ TakeFiber(t) \/ JobEnqueue(t)
             \/ FinishJob(t) \/ WakeOne(t) \/ DeleteJob(t) \/ Attach(t)
             \/ Detach(t) \/ Switch(t) \/ CompleteWait(t) \/ WaitReturn(t)
             \/ EndThread(t)
    BY <2>1 DEF Poll, LeaveJobMain, TakeFiber, JobEnqueue, EnqueueJob,
       FinishJob, WakeOne, DeleteJob, Attach, Detach, Switch, CompleteWait,
       AddWaiter, WaitReturn, EndThread, counterVars, jobVars
  <2>2. ASSUME NEW c \in Counters, Wait(t, c)
        PROVE  UNCHANGED <<counter, phase, runCounter>>
    BY <2>2 DEF Wait, RegisterWait, counterVars
  <2>3. ASSUME NEW j \in Jobs, NEW c \in Counters \cup {NoCounter},
               JobRun(t, j, c)
        PROVE  \E x \in Callers : CreateJob(x, j, c)
    BY <2>3, AtFiber DEF JobRun, Callers, IInv
  <2> QED
    BY <1>3, <2>1, <2>2, <2>3 DEF ThreadStep
<1> QED
  BY <1>1, <1>2, <1>3 DEF Next

(* A counter counts its unfinished jobs.                                   *)
LEMMA CountKeeps ==
  ASSUME IInv, CountInv, Next
  PROVE  CountInv'
<1>1. CASE UNCHANGED <<counter, phase, runCounter>>
  BY <1>1 DEF CountInv, Unfinished
<1>2. ASSUME NEW x \in Callers, NEW j \in Jobs,
             NEW c \in Counters \cup {NoCounter}, CreateJob(x, j, c)
      PROVE  CountInv'
  <2> SUFFICES ASSUME NEW d \in Counters
               PROVE  /\ IsFiniteSet(Unfinished(d)')
                      /\ counter'[d] = Cardinality(Unfinished(d)')
    BY DEF CountInv
  <2>1. /\ phase[j] = "new" /\ phase' = [phase EXCEPT ![j] = "created"]
        /\ runCounter' = [runCounter EXCEPT ![j] = c]
        /\ counter' = IF c = NoCounter THEN counter
                      ELSE [counter EXCEPT ![c] = @ + 1]
    BY <1>2 DEF CreateJob, counterVars, Increment
  <2>2. /\ phase \in [Jobs -> {"new", "created", "live", "done"}]
        /\ runCounter \in [Jobs -> Counters \cup {NoCounter}]
        /\ counter \in [Counters -> Int]
    BY DEF IInv, TypeOK, CounterTypeOK
  <2>3. IsFiniteSet(Unfinished(d)) /\ counter[d] = Cardinality(Unfinished(d))
    BY DEF CountInv
  <2>4. CASE c = d
    <3>1. Unfinished(d)' = Unfinished(d) \cup {j} /\ j \notin Unfinished(d)
      BY <2>1, <2>2, <2>4 DEF Unfinished
    <3>2. counter'[d] = counter[d] + 1
      BY <2>1, <2>2, <2>4, ConstantFacts
    <3> QED
      BY <2>3, <3>1, <3>2, FS_AddElement
  <2>5. CASE c # d
    <3>1. Unfinished(d)' = Unfinished(d) /\ counter'[d] = counter[d]
      BY <2>1, <2>2, <2>5 DEF Unfinished
    <3> QED
      BY <2>3, <3>1
  <2> QED
    BY <2>4, <2>5
<1>3. ASSUME NEW t \in Threads, TakeJob(t)
      PROVE  CountInv'
  <2>1. PICK j \in Jobs : Holds(pendingJobs, j) /\ phase' = [phase EXCEPT ![j] = "live"]
    BY <1>3 DEF TakeJob
  <2>2. phase[j] = "created"
    BY <2>1 DEF IInv, TypeOK, PendingJobInv, Holds
  <2>3. UNCHANGED <<counter, runCounter>>
    BY <1>3 DEF TakeJob, counterVars
  <2>4. \A c \in Counters : Unfinished(c)' = Unfinished(c)
    BY <2>1, <2>2, <2>3 DEF Unfinished, IInv, TypeOK
  <2> QED
    BY <2>3, <2>4 DEF CountInv
<1>4. ASSUME NEW t \in Threads, CountDown(t)
      PROVE  CountInv'
  <2> DEFINE j == fiberData[This(t)]
             c == runCounter[j]
  <2>1. This(t) \in Fibers /\ pc[This(t)] = "finish"
    BY <1>4, AtFiber DEF CountDown, IInv
  <2>2. j \in Jobs /\ phase[j] = "live"
    BY <2>1, JobInFiber DEF InJob
  <2>3. /\ phase' = [phase EXCEPT ![j] = "done"]
        /\ UNCHANGED runCounter
        /\ counter' = IF c = NoCounter THEN counter
                      ELSE [counter EXCEPT ![c] = @ - 1]
    BY <1>4 DEF CountDown, counterVars, Decrement
  <2>4. /\ phase \in [Jobs -> {"new", "created", "live", "done"}]
        /\ counter \in [Counters -> Int]
    BY DEF IInv, TypeOK, CounterTypeOK
  <2> SUFFICES ASSUME NEW d \in Counters
               PROVE  /\ IsFiniteSet(Unfinished(d)')
                      /\ counter'[d] = Cardinality(Unfinished(d)')
    BY DEF CountInv
  <2>5. IsFiniteSet(Unfinished(d)) /\ counter[d] = Cardinality(Unfinished(d))
    BY DEF CountInv
  <2>6. CASE c = d
    <3>1. Unfinished(d)' = Unfinished(d) \ {j} /\ j \in Unfinished(d)
      BY <2>2, <2>3, <2>4, <2>6 DEF Unfinished
    <3>2. counter'[d] = counter[d] - 1
      BY <2>3, <2>4, <2>6, ConstantFacts
    <3> QED
      BY <2>5, <3>1, <3>2, FS_RemoveElement
  <2>7. CASE c # d
    <3>1. Unfinished(d)' = Unfinished(d) /\ counter'[d] = counter[d]
      BY <2>2, <2>3, <2>4, <2>7 DEF Unfinished
    <3> QED
      BY <2>5, <3>1
  <2> QED
    BY <2>6, <2>7
<1> QED
  BY <1>1, <1>2, <1>3, <1>4, CounterSteps

(* A count is a natural number.                                            *)
LEMMA CountNat ==
  ASSUME CountInv, NEW c \in Counters
  PROVE  counter[c] \in Nat
BY FS_CardinalityType DEF CountInv

(* Waiters are added and handed out by two actions.                        *)
LEMMA WaiterSteps ==
  ASSUME IInv, Next
  PROVE  \/ UNCHANGED waiters
         \/ \E t \in Threads : CountDown(t) \/ CompleteWait(t)
<1>1. CASE \E j \in Jobs, c \in Counters \cup {NoCounter} : MainRun(j, c)
  BY <1>1 DEF MainRun, CreateJob, Increment, counterVars
<1>2. CASE MainEnqueue \/ Destroy
  BY <1>2 DEF MainEnqueue, EnqueueJob, Destroy, counterVars
<1>3. ASSUME NEW t \in Threads, ThreadStep(t)
      PROVE  UNCHANGED waiters \/ CountDown(t) \/ CompleteWait(t)
  <2>1. CASE \/ Poll(t) \/ LeaveJobMain(t) \/ TakeFiber(t) \/ JobEnqueue(t)
             \/ FinishJob(t) \/ WakeOne(t) \/ DeleteJob(t) \/ Attach(t)
             \/ Detach(t) \/ Switch(t) \/ TakeJob(t) \/ WaitReturn(t)
             \/ EndThread(t)
    BY <2>1 DEF Poll, LeaveJobMain, TakeFiber, JobEnqueue, EnqueueJob,
       FinishJob, WakeOne, DeleteJob, Attach, Detach, Switch, TakeJob,
       WaitReturn, EndThread, counterVars
  <2>2. ASSUME NEW c \in Counters, Wait(t, c)
        PROVE  UNCHANGED waiters
    BY <2>2 DEF Wait, RegisterWait, counterVars
  <2>3. ASSUME NEW j \in Jobs, NEW c \in Counters \cup {NoCounter},
               JobRun(t, j, c)
        PROVE  UNCHANGED waiters
    BY <2>3 DEF JobRun, CreateJob, Increment, counterVars
  <2> QED
    BY <1>3, <2>1, <2>2, <2>3 DEF ThreadStep
<1> QED
  BY <1>1, <1>2, <1>3 DEF Next

(* AddWaiter tests the count, and Decrement hands the waiters out at zero,  *)
(* under one lock: whoever waits, waits for a positive count.              *)
LEMMA BlockedKeeps ==
  ASSUME IInv, CountInv, BlockedInv, Next
  PROVE  BlockedInv'
<1>1. /\ counter \in [Counters -> Int] /\ waiters \in [Counters -> SUBSET Jobs]
      /\ \A c \in Counters : counter[c] \in Nat
  BY CountNat DEF IInv, TypeOK, CounterTypeOK
<1>2. ASSUME NEW t \in Threads, CountDown(t)
      PROVE  BlockedInv'
  <2>1. \/ UNCHANGED counterVars
        \/ \E c \in Counters : Decrement(c)
    <3>1. This(t) \in Fibers /\ fiberData[This(t)] \in Jobs
      BY <1>2, AtFiber, JobInFiber DEF CountDown, IInv, InJob
    <3>2. runCounter[fiberData[This(t)]] \in Counters \cup {NoCounter}
      BY <3>1 DEF IInv, TypeOK
    <3> QED
      BY <1>2, <3>2 DEF CountDown
  <2>2. ASSUME NEW c \in Counters, Decrement(c)
        PROVE  BlockedInv'
    BY <1>1, <2>2 DEF BlockedInv, Decrement, Unblocked
  <2> QED
    BY <2>1, <2>2 DEF BlockedInv, counterVars
<1>3. ASSUME NEW t \in Threads, CompleteWait(t)
      PROVE  BlockedInv'
  <2>1. UNCHANGED counterVars \/ \E c, j : c \in Counters /\ AddWaiter(c, j)
    <3>1. This(t) \in Fibers
      BY <1>3, AtFiber DEF CompleteWait, IInv
    <3>2. waitCounter[fiberData[This(t)]] \in Counters
      BY <1>3, <3>1 DEF CompleteWait, IInv, TypeOK
    <3> QED
      BY <1>3, <3>2 DEF CompleteWait
  <2>2. ASSUME NEW c \in Counters, NEW j, AddWaiter(c, j)
        PROVE  BlockedInv'
    BY <1>1, <2>2 DEF BlockedInv, AddWaiter, Complete
  <2> QED
    BY <2>1, <2>2 DEF BlockedInv, counterVars
<1>4. CASE UNCHANGED waiters /\ UNCHANGED <<counter, phase, runCounter>>
  BY <1>4 DEF BlockedInv
<1>5. ASSUME NEW x \in Callers, NEW j \in Jobs,
             NEW c \in Counters \cup {NoCounter}, CreateJob(x, j, c)
      PROVE  BlockedInv'
  BY <1>1, <1>5 DEF BlockedInv, CreateJob, Increment, counterVars
<1>6. ASSUME NEW t \in Threads, TakeJob(t)
      PROVE  BlockedInv'
  BY <1>6 DEF BlockedInv, TakeJob, counterVars
<1> QED
  BY <1>2, <1>3, <1>4, <1>5, <1>6, CounterSteps, WaiterSteps

(***************************************************************************)
(* Fibers                                                                  *)
(***************************************************************************)
(* The target of a switch takes it, so Attach never fails.                  *)
LEMMA AttachSucceeds ==
  ASSUME IInv, NEW t \in Threads, Attach(t)
  PROVE  SwitchAttach(t, target[This(t)]) /\ Goto(This(t), "detach")
<1>1. At(t, "attach") /\ InSwitch(t)
  BY DEF Attach, At, InSwitch, Switching
<1>2. Switchable(target[This(t)])
  BY <1>1 DEF IInv, SwitchInv, Owns, Switchable, At
<1> QED
  BY <1>2 DEF Attach

(* A fiber that leaves by a switch of Wait comes back from it.              *)
LEMMA AfterKeeps ==
  ASSUME IInv, AfterInv, Next
  PROVE  AfterInv'
<1>1. /\ pc \in [Fibers -> Labels] /\ after \in [Fibers -> {"complete", "resumed"}]
      /\ \A t \in Threads : This(t) \in Fibers \cup {NoFiber}
  BY DEF IInv, TypeOK, FiberTypeOK, This
<1> USE <1>1, ConstantFacts DEF AfterInv, Labels
<1>2. CASE \E j \in Jobs, c \in Counters \cup {NoCounter} : MainRun(j, c)
  BY <1>2 DEF MainRun, CreateJob
<1>3. CASE MainEnqueue \/ Destroy
  BY <1>3 DEF MainEnqueue, EnqueueJob, Destroy, flowVars
<1>4. ASSUME NEW t \in Threads, ThreadStep(t)
      PROVE  AfterInv'
  <2>1. CASE Poll(t) \/ LeaveJobMain(t)
    BY <2>1 DEF Poll, LeaveJobMain, Goto
  <2>2. CASE TakeJob(t) \/ FinishJob(t) \/ CountDown(t)
    BY <2>2 DEF TakeJob, FinishJob, CountDown, Goto
  <2>3. CASE WakeOne(t) \/ DeleteJob(t) \/ JobEnqueue(t)
    BY <2>3 DEF WakeOne, DeleteJob, JobEnqueue, EnqueueJob, Goto
  <2>4. CASE Attach(t) \/ Detach(t) \/ Switch(t)
    BY <2>4 DEF Attach, Detach, Switch, Goto, At
  <2>5. CASE WaitReturn(t) \/ EndThread(t)
    BY <2>5 DEF WaitReturn, EndThread, Goto
  <2>6. CASE TakeFiber(t)
    BY <2>6 DEF TakeFiber, ResumeJobFiber, BeginSwitch, Goto
  <2>7. CASE CompleteWait(t)
    BY <2>7 DEF CompleteWait, ResumeJobFiber, BeginSwitch, Goto
  <2>8. ASSUME NEW c \in Counters, Wait(t, c) PROVE AfterInv'
    BY <2>8 DEF Wait, BeginSwitch, Goto
  <2>9. ASSUME NEW j \in Jobs, NEW c \in Counters \cup {NoCounter},
               JobRun(t, j, c)
        PROVE  AfterInv'
    BY <2>9 DEF JobRun, CreateJob, Goto
  <2> QED
    BY <1>4, <2>1, <2>2, <2>3, <2>4, <2>5, <2>6, <2>7, <2>8, <2>9 DEF ThreadStep
<1> QED
  BY <1>2, <1>3, <1>4 DEF Next

(* A step that changes neither what the threads execute nor where fibers    *)
(* are kept.                                                               *)
LEMMA PlaceUnmoved ==
  ASSUME PlaceInv,
         UNCHANGED <<current, target, unusedFibers, totalFibers, jobFiber, prevFiber>>,
         \A f \in Fibers : Switching(f) => Switching(f)',
         \A f \in Fibers : pc'[f] \in {"exit", "exited"} => pc[f] \in {"exit", "exited"},
         \A j \in Jobs : phase[j] = "live" => phase'[j] = "live",
         \A t \in Threads : This(t) \in Fibers \cup {NoFiber}
  PROVE  PlaceInv'
BY ConstantFacts DEF PlaceInv, Executed, Targeted, Suspended, Remembered, This, Switching

Registers(t) == AddWaiter(waitCounter[fiberData[This(t)]], fiberData[This(t)])

LEMMA PlaceKeepsUnmoved ==
  ASSUME IInv, PlaceInv,
         \/ \E j \in Jobs, c \in Counters \cup {NoCounter} : MainRun(j, c)
         \/ MainEnqueue
         \/ Destroy
         \/ \E t \in Threads :
              \/ Poll(t) \/ JobEnqueue(t) \/ FinishJob(t) \/ WakeOne(t)
              \/ Attach(t) \/ Detach(t)
              \/ \E j \in Jobs, c \in Counters \cup {NoCounter} : JobRun(t, j, c)
              \/ CompleteWait(t) /\ Registers(t)
  PROVE  PlaceInv'
<1>1. /\ pc \in [Fibers -> Labels]
      /\ phase \in [Jobs -> {"new", "created", "live", "done"}]
      /\ \A t \in Threads : This(t) \in Fibers \cup {NoFiber}
  BY DEF IInv, TypeOK, FiberTypeOK, This
<1> USE <1>1, ConstantFacts
<1>2. CASE \E j \in Jobs, c \in Counters \cup {NoCounter} : MainRun(j, c)
  BY <1>2, PlaceUnmoved DEF MainRun, CreateJob, fiberVars, stateVars, queueVars, Switching
<1>3. CASE MainEnqueue \/ Destroy
  BY <1>3, PlaceUnmoved DEF MainEnqueue, EnqueueJob, Destroy, fiberVars, stateVars,
     queueVars, flowVars, jobVars, Switching
<1>4. ASSUME NEW t \in Threads, Poll(t) \/ FinishJob(t) \/ WakeOne(t) \/ Detach(t)
      PROVE  PlaceInv'
  BY <1>4, PlaceUnmoved DEF Poll, FinishJob, WakeOne, Detach, SwitchDetach, At,
     Goto, fiberVars, stateVars, queueVars, jobVars, Switching
<1>5. ASSUME NEW t \in Threads, JobEnqueue(t)
      PROVE  PlaceInv'
  BY <1>5, PlaceUnmoved DEF JobEnqueue, EnqueueJob, At,
     Goto, fiberVars, stateVars, queueVars, jobVars, Switching
<1>6. ASSUME NEW t \in Threads, Attach(t)
      PROVE  PlaceInv'
  BY <1>6, AttachSucceeds, PlaceUnmoved DEF Attach, SwitchAttach, At,
     Goto, fiberVars, stateVars, queueVars, jobVars, Switching
<1>7. ASSUME NEW t \in Threads, NEW j \in Jobs,
             NEW c \in Counters \cup {NoCounter}, JobRun(t, j, c)
      PROVE  PlaceInv'
  BY <1>7, PlaceUnmoved DEF JobRun, CreateJob, At,
     Goto, fiberVars, stateVars, queueVars, jobVars, Switching
<1>8. ASSUME NEW t \in Threads, CompleteWait(t), Registers(t)
      PROVE  PlaceInv'
  BY <1>8, PlaceUnmoved DEF CompleteWait, Registers, AddWaiter, Complete, At,
     Goto, fiberVars, stateVars, queueVars, jobVars, Switching
<1> QED
  BY <1>2, <1>3, <1>4, <1>5, <1>6, <1>7, <1>8

(* The other steps, each with the fiber f that its thread executes.         *)
LEMMA PlaceTypes ==
  ASSUME IInv
  PROVE  /\ pc \in [Fibers -> Labels] /\ target \in [Fibers -> Fibers \cup {NoFiber}]
         /\ current \in [Threads -> Fibers \cup {NoFiber}]
         /\ unusedFibers \in [Fibers -> Nat]
         /\ phase \in [Jobs -> {"new", "created", "live", "done"}]
         /\ jobFiber \in [Jobs -> Fibers \cup {NoFiber}]
         /\ prevFiber \in [Jobs -> Fibers \cup {NoFiber}]
         /\ totalFibers \in NumThreads .. MaxFibers
         /\ \A f \in Fibers : unusedFibers[f] \in {0, 1}
<1>1. \A f \in Fibers : unusedFibers[f] \in {0, 1}
  BY Unused0 DEF IInv
<1> QED
  BY <1>1 DEF IInv, TypeOK, FiberTypeOK

LEMMA PlaceLeaveJobMain ==
  ASSUME IInv, PlaceInv, NEW t \in Threads, LeaveJobMain(t)
  PROVE  PlaceInv'
<1> USE PlaceTypes, ConstantFacts
<1>1. PICK f \in Fibers : f = This(t) /\ pc[f] \in {"loop", "poll"}
  BY DEF LeaveJobMain, At, This
<1>2. unusedFibers[f] = 0
  BY <1>1 DEF IInv, ExecutedInv
<1>3. /\ unusedFibers' = [unusedFibers EXCEPT ![f] = 1]
      /\ pc' = [pc EXCEPT ![f] = "exit"]
      /\ UNCHANGED <<current, target, totalFibers, jobFiber, prevFiber, phase>>
  BY <1>1, <1>2 DEF LeaveJobMain, Enqueue, Goto, fiberVars, stateVars, jobVars
<1> QED
  BY <1>1, <1>3 DEF PlaceInv, Executed, Targeted, Suspended, Remembered, This

LEMMA PlaceTakeFiber ==
  ASSUME IInv, PlaceInv, NEW t \in Threads, TakeFiber(t)
  PROVE  PlaceInv'
<1> USE PlaceTypes, ConstantFacts
<1>1. PICK f \in Fibers : f = This(t) /\ pc[f] = "poll"
  BY DEF TakeFiber, At, This
<1>2. PICK j \in Jobs : /\ Holds(pendingFibers, j)
                       /\ ResumeJobFiber(f, j)
  BY <1>1 DEF TakeFiber
<1>3. prevFiber[j] = NoFiber /\ jobFiber[j] # NoFiber
  BY <1>2 DEF IInv, RegisteredInv, Registered, Parked, Holds
<1>4. /\ prevFiber' = [prevFiber EXCEPT ![j] = f]
      /\ target' = [target EXCEPT ![f] = jobFiber[j]]
      /\ pc' = [pc EXCEPT ![f] = "attach"]
      /\ UNCHANGED <<current, totalFibers, unusedFibers, jobFiber, phase>>
  BY <1>2 DEF TakeFiber, ResumeJobFiber, BeginSwitch, Goto, fiberVars, jobVars
<1>5. \A g \in Fibers : Executed(g)' <=> Executed(g)
  BY <1>4 DEF Executed, This
<1>6. \A g \in Fibers : Suspended(g)' <=> Suspended(g)
  BY <1>4 DEF Suspended
<1>7. \A g \in Fibers : Remembered(g) => Remembered(g)'
  BY <1>3, <1>4 DEF Remembered
<1>8. \A g \in Fibers : Targeted(g) => Targeted(g)'
  BY <1>1, <1>4 DEF Targeted, This
<1> QED
  BY <1>4, <1>5, <1>6, <1>7, <1>8 DEF PlaceInv

LEMMA PlaceTakeJob ==
  ASSUME IInv, PlaceInv, NEW t \in Threads, TakeJob(t)
  PROVE  PlaceInv'
<1> USE PlaceTypes, ConstantFacts
<1>1. PICK f \in Fibers : f = This(t) /\ pc[f] = "poll"
  BY DEF TakeJob, At, This
<1>2. PICK j \in Jobs : /\ Holds(pendingJobs, j)
                       /\ phase' = [phase EXCEPT ![j] = "live"]
                       /\ jobFiber' = [jobFiber EXCEPT ![j] = f]
  BY <1>1 DEF TakeJob
<1>3. phase[j] = "created"
  BY <1>2 DEF IInv, TypeOK, PendingJobInv, Holds
<1>4. /\ pc' = [pc EXCEPT ![f] = "job"]
      /\ UNCHANGED <<current, target, totalFibers, unusedFibers, prevFiber>>
  BY <1>1 DEF TakeJob, Goto, fiberVars
<1>5. \A g \in Fibers : Executed(g)' <=> Executed(g)
  BY <1>4 DEF Executed, This
<1>6. \A g \in Fibers : Suspended(g) => Suspended(g)'
  BY <1>2, <1>3 DEF Suspended
<1>7. \A g \in Fibers : Targeted(g) => Targeted(g)'
  BY <1>1, <1>4 DEF Targeted, This
<1>8. \A g \in Fibers : Remembered(g) => Remembered(g)'
  BY <1>4 DEF Remembered
<1> QED
  BY <1>4, <1>5, <1>6, <1>7, <1>8 DEF PlaceInv

(* The fiber of the job that ends is executed.                             *)
LEMMA PlaceJobEnds ==
  ASSUME IInv, PlaceInv, NEW t \in Threads, CountDown(t) \/ DeleteJob(t)
  PROVE  PlaceInv'
<1> USE PlaceTypes, ConstantFacts
<1>1. PICK f \in Fibers : f = This(t) /\ pc[f] \in {"finish", "wake"}
  BY DEF CountDown, DeleteJob, At, This
<1>2. fiberData[f] \in Jobs /\ jobFiber[fiberData[f]] = f
  BY <1>1, JobInFiber DEF InJob
<1>3. /\ phase' = phase \/ phase' = [phase EXCEPT ![fiberData[f]] = "done"]
      /\ jobFiber' = jobFiber \/ jobFiber' = [jobFiber EXCEPT ![fiberData[f]] = NoFiber]
      /\ pc' = [pc EXCEPT ![f] = "wake"] \/ pc' = [pc EXCEPT ![f] = "loop"]
      /\ UNCHANGED <<current, target, totalFibers, unusedFibers, prevFiber>>
  BY <1>1 DEF CountDown, DeleteJob, Goto, fiberVars, stateVars, jobVars, queueVars
<1>4. \A g \in Fibers : Executed(g)' <=> Executed(g)
  BY <1>3 DEF Executed, This
<1>5. \A g \in Fibers : Suspended(g) => Suspended(g)' \/ g = f
  BY <1>2, <1>3 DEF Suspended
<1>6. Executed(f)
  BY <1>1 DEF Executed
<1>7. \A g \in Fibers : Targeted(g) => Targeted(g)'
  BY <1>1, <1>3 DEF Targeted, This
<1>8. \A g \in Fibers : Remembered(g) => Remembered(g)'
  BY <1>3 DEF Remembered
<1> QED
  BY <1>1, <1>3, <1>4, <1>5, <1>6, <1>7, <1>8 DEF PlaceInv

(* Wait takes an unused fiber, or makes one, and switches to it.           *)
LEMMA PlaceWait ==
  ASSUME IInv, PlaceInv, NEW t \in Threads, NEW c \in Counters, Wait(t, c)
  PROVE  PlaceInv'
<1> USE PlaceTypes, ConstantFacts
<1>1. PICK f \in Fibers : f = This(t) /\ pc[f] = "job"
  BY DEF Wait, At, This
<1>2. running
  <2>1. phase[fiberData[f]] = "live" /\ fiberData[f] \in Jobs
    BY <1>1, JobInFiber DEF InJob
  <2> QED
    BY <2>1 DEF IInv, StoppedInv, Idle
<1>3. PICK g \in Fibers :
        /\ \/ /\ Holds(unusedFibers, g)
              /\ unusedFibers' = Dequeue(unusedFibers, g)
              /\ UNCHANGED totalFibers
           \/ /\ g = totalFibers + 1
              /\ totalFibers' = g
              /\ UNCHANGED unusedFibers
        /\ BeginSwitch(f, g, "resumed")
  BY <1>1 DEF Wait
<1>4. /\ target' = [target EXCEPT ![f] = g]
      /\ pc' = [pc EXCEPT ![f] = "attach"]
      /\ UNCHANGED <<current, jobFiber, prevFiber, phase>>
  BY <1>3 DEF Wait, BeginSwitch, Goto, fiberVars
<1>5. Targeted(g)'
  BY <1>1, <1>4 DEF Targeted, This
<1>6. \A h \in Fibers : h # g /\ h <= totalFibers' =>
        h <= totalFibers /\ unusedFibers'[h] = unusedFibers[h]
  <2>1. CASE unusedFibers' = Dequeue(unusedFibers, g) /\ UNCHANGED totalFibers
    BY <2>1 DEF Dequeue
  <2>2. CASE totalFibers' = totalFibers + 1 /\ g = totalFibers' /\ UNCHANGED unusedFibers
    BY <2>2 DEF Fibers
  <2> QED
    BY <1>3, <2>1, <2>2
<1>7. /\ \A h \in Fibers : Executed(h)' <=> Executed(h)
      /\ \A h \in Fibers : Suspended(h)' <=> Suspended(h)
      /\ \A h \in Fibers : Remembered(h)' <=> Remembered(h)
  BY <1>4 DEF Executed, This, Suspended, Remembered
<1>8. \A h \in Fibers : Targeted(h) => Targeted(h)'
  BY <1>1, <1>4 DEF Targeted, This
<1>9. \A h \in Fibers : pc'[h] \notin {"exit", "exited"}
  BY <1>2, <1>4 DEF IInv, StoppedInv
<1> QED
  BY <1>5, <1>6, <1>7, <1>8, <1>9 DEF PlaceInv

(* A fiber that is left is its job's, or remembered by the one entered.     *)
LEMMA PlaceSwitch ==
  ASSUME IInv, PlaceInv, NEW t \in Threads, Switch(t)
  PROVE  PlaceInv'
<1> USE PlaceTypes, ConstantFacts
<1>1. PICK f \in Fibers : f = This(t) /\ pc[f] = "switch"
  BY DEF Switch, At, This
<1>2. InSwitch(t) /\ Switching(f)
  BY <1>1 DEF InSwitch, Switching
<1>3. /\ current' = [current EXCEPT ![t] = target[f]]
      /\ pc' = [pc EXCEPT ![f] = after[f]]
      /\ after[f] \in {"complete", "resumed"}
      /\ UNCHANGED <<target, totalFibers, unusedFibers, jobFiber, prevFiber, phase>>
  BY <1>1 DEF Switch, SwitchContext, Goto, IInv, TypeOK, stateVars, jobVars, queueVars
<1>4. Suspended(f) \/ Remembered(f)
  <2>1. CASE after[f] = "resumed"
    <3>1. fiberData[f] \in Jobs /\ jobFiber[fiberData[f]] = f
      BY <1>1, <1>2, <2>1 DEF IInv, TypeOK, LeaveInv, Leaves
    <3>2. phase[fiberData[f]] = "live"
      BY <1>1, <3>1 DEF IInv, JobInv
    <3> QED
      BY <3>1, <3>2 DEF Suspended
  <2>2. CASE after[f] = "complete"
    <3>1. target[f] \in Fibers /\ Resumes(f, target[f])
      BY <1>1, <1>2, <2>2 DEF IInv, ResumeInv, SwitchInv, Owns
    <3>2. fiberData[target[f]] \in Jobs
      BY <3>1 DEF Resumes, IInv, TypeOK
    <3> QED
      BY <3>1, <3>2 DEF Resumes, Remembered
  <2> QED
    BY <1>3, <2>1, <2>2
<1>5. \A g \in Fibers : Executed(g) => g = f \/ Executed(g)'
  BY <1>1, <1>3 DEF Executed, This
<1>6. \A g \in Fibers : Targeted(g) => g = target[f] \/ Targeted(g)'
  <2> SUFFICES ASSUME NEW g \in Fibers, g # target[f],
                      NEW u \in Threads, This(u) # NoFiber, target[This(u)] = g,
                      pc[This(u)] \in {"attach", "detach", "switch"}
               PROVE  Targeted(g)'
    BY DEF Targeted
  <2>1. This(u) # f /\ u # t
    BY <1>1
  <2>2. This(u)' = This(u) /\ pc'[This(u)] = pc[This(u)]
    BY <1>3, <2>1 DEF This
  <2> QED
    BY <1>3, <2>2 DEF Targeted
<1>7. Executed(target[f])'
  BY <1>3 DEF Executed, This
<1>8. \A g \in Fibers : /\ Suspended(g)' <=> Suspended(g)
                        /\ Remembered(g)' <=> Remembered(g)
  BY <1>3 DEF Suspended, Remembered
<1> QED
  BY <1>3, <1>4, <1>5, <1>6, <1>7, <1>8 DEF PlaceInv

(* A waiter that need not wait is resumed by the fiber that has just been   *)
(* entered, which it remembers.                                            *)
LEMMA PlaceCompleteWait ==
  ASSUME IInv, PlaceInv, NEW t \in Threads, CompleteWait(t), ~Registers(t)
  PROVE  PlaceInv'
<1> USE PlaceTypes, ConstantFacts
<1>1. PICK f \in Fibers : f = This(t) /\ pc[f] = "complete"
  BY DEF CompleteWait, At, This
<1>2. PICK j \in Jobs : j = fiberData[f]
  BY <1>1 DEF CompleteWait, IInv, TypeOK
<1>3. jobFiber[j] # NoFiber /\ prevFiber[j] = NoFiber
  BY <1>1, <1>2 DEF IInv, DataInv, Completes, PrevInv, JobInv, InJob, Switching, CompleteWait
<1>4. /\ prevFiber' = [prevFiber EXCEPT ![j] = f]
      /\ target' = [target EXCEPT ![f] = jobFiber[j]]
      /\ pc' = [pc EXCEPT ![f] = "attach"]
      /\ UNCHANGED <<current, totalFibers, unusedFibers, jobFiber, phase>>
  BY <1>1, <1>2 DEF CompleteWait, Registers, ResumeJobFiber, BeginSwitch, Goto, fiberVars,
     jobVars, queueVars
<1>5. \A g \in Fibers : Executed(g)' <=> Executed(g)
  BY <1>4 DEF Executed, This
<1>6. \A g \in Fibers : Suspended(g)' <=> Suspended(g)
  BY <1>4 DEF Suspended
<1>7. \A g \in Fibers : Remembered(g) => Remembered(g)'
  BY <1>3, <1>4 DEF Remembered
<1>8. \A g \in Fibers : Targeted(g) => Targeted(g)'
  BY <1>1, <1>4 DEF Targeted, This
<1> QED
  BY <1>4, <1>5, <1>6, <1>7, <1>8 DEF PlaceInv

(* The fiber that a job remembered becomes unused.                         *)
LEMMA PlaceWaitReturn ==
  ASSUME IInv, PlaceInv, NEW t \in Threads, WaitReturn(t)
  PROVE  PlaceInv'
<1> USE PlaceTypes, ConstantFacts
<1>1. PICK f \in Fibers : f = This(t) /\ pc[f] = "resumed"
  BY DEF WaitReturn, At, This
<1>2. PICK j \in Jobs : j = fiberData[f] /\ jobFiber[j] = f
  BY <1>1, JobInFiber
<1>3. PICK p \in Fibers : p = prevFiber[j]
  BY <1>1, <1>2 DEF IInv, ExecutedInv
<1>4. unusedFibers[p] = 0
  BY <1>3 DEF IInv, UnusedInv
<1>5. /\ unusedFibers' = [unusedFibers EXCEPT ![p] = 1]
      /\ prevFiber' = [prevFiber EXCEPT ![j] = NoFiber]
      /\ pc' = [pc EXCEPT ![f] = "job"]
      /\ UNCHANGED <<current, target, totalFibers, jobFiber, phase>>
  BY <1>1, <1>2, <1>3, <1>4 DEF WaitReturn, UnusedReturning, Enqueue, Goto, fiberVars,
     jobVars
<1>6. \A g \in Fibers : Remembered(g) => g = p \/ Remembered(g)'
  BY <1>3, <1>5 DEF Remembered
<1>7. /\ \A g \in Fibers : Executed(g)' <=> Executed(g)
      /\ \A g \in Fibers : Suspended(g)' <=> Suspended(g)
  BY <1>5 DEF Executed, This, Suspended
<1>8. \A g \in Fibers : Targeted(g) => Targeted(g)'
  BY <1>1, <1>5 DEF Targeted, This
<1> QED
  BY <1>5, <1>6, <1>7, <1>8 DEF PlaceInv

(* The fiber of a thread that ends is unused already.                      *)
LEMMA PlaceEndThread ==
  ASSUME IInv, PlaceInv, NEW t \in Threads, EndThread(t)
  PROVE  PlaceInv'
<1> USE PlaceTypes, ConstantFacts
<1>1. PICK f \in Fibers : f = This(t) /\ pc[f] = "exit"
  BY DEF EndThread, At, This
<1>2. /\ current' = [current EXCEPT ![t] = NoFiber]
      /\ pc' = [pc EXCEPT ![f] = "exited"]
      /\ UNCHANGED <<target, totalFibers, unusedFibers, jobFiber, prevFiber, phase>>
  BY <1>1 DEF EndThread, ExitFiber, Goto, stateVars, jobVars, queueVars
<1>3. unusedFibers[f] = 1
  BY <1>1 DEF PlaceInv
<1>4. \A g \in Fibers : Executed(g) => g = f \/ Executed(g)'
  BY <1>1, <1>2 DEF Executed, This
<1>5. \A g \in Fibers : Targeted(g) => Targeted(g)'
  <2> SUFFICES ASSUME NEW g \in Fibers,
                      NEW u \in Threads, This(u) # NoFiber, target[This(u)] = g,
                      pc[This(u)] \in {"attach", "detach", "switch"}
               PROVE  Targeted(g)'
    BY DEF Targeted
  <2>1. This(u) # f /\ u # t
    BY <1>1
  <2>2. This(u)' = This(u) /\ pc'[This(u)] = pc[This(u)]
    BY <1>2, <2>1 DEF This
  <2> QED
    BY <1>2, <2>2 DEF Targeted
<1>6. \A g \in Fibers : /\ Suspended(g)' <=> Suspended(g)
                        /\ Remembered(g)' <=> Remembered(g)
  BY <1>2 DEF Suspended, Remembered
<1> QED
  BY <1>2, <1>3, <1>4, <1>5, <1>6 DEF PlaceInv

LEMMA PlaceKeeps ==
  ASSUME IInv, PlaceInv, Next
  PROVE  PlaceInv'
<1>1. ASSUME NEW t \in Threads, ThreadStep(t)
      PROVE  PlaceInv'
  BY <1>1, PlaceKeepsUnmoved, PlaceLeaveJobMain, PlaceTakeFiber, PlaceTakeJob,
     PlaceJobEnds, PlaceWait, PlaceSwitch, PlaceCompleteWait, PlaceWaitReturn,
     PlaceEndThread DEF ThreadStep
<1> QED
  BY <1>1, PlaceKeepsUnmoved DEF Next

(* running_count_ counts the threads that have not ended.                  *)
LEMMA RunningKeeps ==
  ASSUME IInv, RunningInv, Next
  PROVE  RunningInv'
<1> DEFINE Live == {t \in Threads : This(t) # NoFiber}
<1>1. IsFiniteSet(Live)
  BY FS_Interval, FS_Subset, ConstantFacts DEF Threads
<1>2. ASSUME NEW t \in Threads, EndThread(t)
      PROVE  RunningInv'
  <2>1. t \in Live /\ Live' = Live \ {t}
    BY <1>2, ConstantFacts DEF EndThread, ExitFiber, At, This, IInv, TypeOK, FiberTypeOK
  <2>2. runningCount' = runningCount - 1
    BY <1>2 DEF EndThread, ExitFiber
  <2> QED
    BY <1>1, <2>1, <2>2, FS_RemoveElement DEF RunningInv
<1>3. ASSUME NEW t \in Threads, Switch(t)
      PROVE  RunningInv'
  <2>1. This(t) # NoFiber /\ target[This(t)] # NoFiber
    BY <1>3, ConstantFacts DEF Switch, At, IInv, SwitchInv, InSwitch, Switching, Owns
  <2>2. Live' = Live /\ runningCount' = runningCount
    BY <1>3, <2>1 DEF Switch, SwitchContext, This, IInv, TypeOK, FiberTypeOK
  <2> QED
    BY <2>2 DEF RunningInv
<1>4. CASE UNCHANGED <<current, runningCount>>
  BY <1>4 DEF RunningInv, This
<1>5. CASE \E j \in Jobs, c \in Counters \cup {NoCounter} : MainRun(j, c)
  BY <1>4, <1>5 DEF MainRun, CreateJob, fiberVars
<1>6. CASE MainEnqueue \/ Destroy
  BY <1>4, <1>6 DEF MainEnqueue, EnqueueJob, Destroy, fiberVars
<1>7. ASSUME NEW t \in Threads, ThreadStep(t)
      PROVE  \/ UNCHANGED <<current, runningCount>> \/ EndThread(t) \/ Switch(t)
  BY <1>7 DEF ThreadStep, Poll, LeaveJobMain, TakeFiber, TakeJob, JobRun, CreateJob,
     JobEnqueue, EnqueueJob, FinishJob, CountDown, WakeOne, DeleteJob, Wait, Attach,
     SwitchAttach, Detach, SwitchDetach, CompleteWait, WaitReturn, fiberVars
<1> QED
  BY <1>2, <1>3, <1>4, <1>5, <1>6, <1>7 DEF Next

(***************************************************************************)
(* The invariant                                                           *)
(***************************************************************************)
LEMMA AccountInit == Init => AccountInv
<1> SUFFICES ASSUME Init PROVE AccountInv
  OBVIOUS
<1>1. CountInv
  <2>1. \A c \in Counters : Unfinished(c) = {} /\ counter[c] = 0
    BY DEF Init, CounterInit, Unfinished
  <2> QED
    BY <2>1, FS_EmptySet DEF CountInv
<1>2. BlockedInv /\ AfterInv
  BY DEF Init, CounterInit, BlockedInv, AfterInv
<1>3. PlaceInv
  <2>1. \A f \in Fibers : f <= totalFibers => This(f) = f /\ f \in Threads
    BY ConstantFacts DEF Init, FiberInit, Fibers, Threads, This
  <2> QED
    BY <2>1 DEF PlaceInv, Executed, Init
<1>4. RunningInv
  <2>1. {t \in Threads : This(t) # NoFiber} = 1 .. NumThreads
    BY ConstantFacts DEF Init, FiberInit, This, Threads
  <2>2. Cardinality(1 .. NumThreads) = NumThreads
    <3>1. 1 \in Int /\ NumThreads \in Int /\ ~(1 > NumThreads)
      BY ConstantFacts
    <3>2. Cardinality(1 .. NumThreads) = NumThreads - 1 + 1
      BY <3>1, FS_Interval
    <3> QED
      BY <3>1, <3>2
  <2>3. runningCount = NumThreads
    BY DEF Init, FiberInit
  <2> QED
    BY <2>1, <2>2, <2>3 DEF RunningInv
<1> QED
  BY <1>1, <1>2, <1>3, <1>4 DEF AccountInv

LEMMA AccountNext == IInv /\ AccountInv /\ [Next]_vars => AccountInv'
<1>1. CASE UNCHANGED vars
  BY <1>1 DEF vars, fiberVars, counterVars, queueVars, stateVars, jobVars,
     flowVars, AccountInv, CountInv, Unfinished, BlockedInv, AfterInv, PlaceInv,
     Executed, Targeted, Suspended, Remembered, RunningInv, This
<1>2. ASSUME IInv, AccountInv, Next PROVE AccountInv'
  BY <1>2, CountKeeps, BlockedKeeps, AfterKeeps, PlaceKeeps, RunningKeeps DEF AccountInv
<1> QED
  BY <1>1, <1>2

(* The whole invariant of a system that is destroyed only when idle.        *)
THEOREM Accounting == DestroyWhenIdle => (Spec => []JobSystemInv)
<1> SUFFICES ASSUME DestroyWhenIdle PROVE Spec => []JobSystemInv
  OBVIOUS
<1>1. Init => JobSystemInv
  BY InvInit, AccountInit DEF JobSystemInv
<1>2. JobSystemInv /\ [Next]_vars => JobSystemInv'
  BY InvNext, AccountNext DEF JobSystemInv
<1> QED
  BY <1>1, <1>2, PTL DEF Spec

(* No waiter is left behind: a job is among a counter's waiters only while  *)
(* the count is positive, and while it waits for that counter.             *)
THEOREM NoLostWaiter == DestroyWhenIdle => (Spec => []NoStrandedWaiter)
<1>1. ASSUME JobSystemInv PROVE NoStrandedWaiter
  <2> SUFFICES ASSUME NEW c \in Counters, NEW j \in waiters[c]
               PROVE  Waiting(j) /\ waitCounter[j] = c
    BY <1>1, CountNat DEF NoStrandedWaiter, JobSystemInv, AccountInv, BlockedInv
  <2>1. j \in Jobs /\ waitCounter[j] = c
    BY <1>1 DEF JobSystemInv, IInv, TypeOK, CounterTypeOK, WaitersInv
  <2>2. jobFiber[j] \in Fibers /\ pc[jobFiber[j]] = "resumed"
    BY <1>1, <2>1 DEF JobSystemInv, IInv, TypeOK, RegisteredInv, Registered, Parked
  <2>3. phase[j] = "live"
    BY <1>1, <2>1, <2>2, ConstantFacts DEF JobSystemInv, IInv, JobInv
  <2>4. after[jobFiber[j]] = "resumed"
    BY <1>1, <2>2 DEF JobSystemInv, AccountInv, AfterInv
  <2> QED
    BY <2>1, <2>2, <2>3, <2>4 DEF Waiting
<1> QED
  BY <1>1, Accounting, PTL

(* While the system runs a fiber is unused exactly if it is nowhere else;   *)
(* once the threads are joined what the destructor asserts holds.          *)
THEOREM NoLostFiber == DestroyWhenIdle => (Spec => []FiberAccounting)
<1>1. ASSUME JobSystemInv, running, NEW f \in Fibers
      PROVE  /\ unusedFibers[f] <= 1
             /\ f <= totalFibers =>
                  (unusedFibers[f] = 1) =
                    ~(Executed(f) \/ Targeted(f) \/ Suspended(f) \/ Remembered(f))
             /\ Remembered(f) =>
                  ~Suspended(f) /\ \A i, j \in Jobs :
                    prevFiber[i] = f /\ prevFiber[j] = f => i = j
  <2> USE ConstantFacts
  <2>1. unusedFibers[f] <= 1
    BY <1>1 DEF JobSystemInv, IInv, UnusedInv
  <2>2. ASSUME unusedFibers[f] = 1
        PROVE  ~(Executed(f) \/ Targeted(f) \/ Suspended(f) \/ Remembered(f))
    <3>1. ~Executed(f) /\ \A j \in Jobs : prevFiber[j] # f /\ jobFiber[j] # f
      BY <1>1, <2>2 DEF JobSystemInv, IInv, UnusedInv, StoppedInv
    <3>2. ~Targeted(f)
      BY <1>1, <2>2 DEF JobSystemInv, IInv, SwitchInv, Owns, Targeted, InSwitch, Switching
    <3> QED
      BY <3>1, <3>2 DEF Suspended, Remembered
  <2>3. f <= totalFibers =>
          unusedFibers[f] = 1 \/ Executed(f) \/ Targeted(f) \/ Suspended(f) \/ Remembered(f)
    BY <1>1 DEF JobSystemInv, AccountInv, PlaceInv
  <2>4. ASSUME NEW j \in Jobs, prevFiber[j] = f
        PROVE  ~Suspended(f) /\ \A i \in Jobs : prevFiber[i] = f => i = j
    <3>1. Returnable(f, jobFiber[j]) /\ \A i \in Jobs : prevFiber[i] = f => i = j
      BY <1>1, <2>4 DEF JobSystemInv, IInv, PrevInv
    <3>2. ASSUME NEW i \in Jobs, jobFiber[i] = f PROVE FALSE
      <4>1. fiberData[f] = i /\ (Switching(f) => after[f] = "resumed")
        BY <1>1, <3>2 DEF JobSystemInv, IInv, JobInv
      <4> QED
        BY <3>1, <4>1 DEF Returnable
    <3> QED
      BY <3>1, <3>2 DEF Suspended
  <2> QED
    BY <2>1, <2>2, <2>3, <2>4 DEF Remembered
<1>2. ASSUME JobSystemInv, Joined
      PROVE  /\ \A f \in 1 .. totalFibers :
                  unusedFibers[f] = 1 /\ fiberData[f] = NoJob /\ attached[f] = NoThread
             /\ \A j \in Jobs : pendingFibers[j] = 0
             /\ runningCount = 0
  <2> USE ConstantFacts
  <2>1. /\ \A t \in Threads : This(t) = NoFiber
        /\ \A j \in Jobs : phase[j] \in {"new", "done"}
        /\ \A f \in Fibers : ~Executed(f)
    BY <1>2 DEF Joined, JobSystemInv, IInv, StoppedInv, Idle, Executed
  <2>2. \A f \in Fibers : pc[f] \in {"complete", "resumed", "exited"}
    BY <1>2, <2>1 DEF JobSystemInv, IInv, SuspendedInv
  <2>3. \A j \in Jobs : jobFiber[j] = NoFiber
    <3> SUFFICES ASSUME NEW j \in Jobs, jobFiber[j] # NoFiber PROVE FALSE
      OBVIOUS
    <3>1. jobFiber[j] \in Fibers
      BY <1>2 DEF JobSystemInv, IInv, TypeOK
    <3> QED
      BY <1>2, <2>1, <2>2, <3>1 DEF JobSystemInv, IInv, JobInv
  <2>4. \A j \in Jobs : prevFiber[j] = NoFiber
    BY <1>2, <2>3 DEF JobSystemInv, IInv, JobInv
  <2>5. \A f \in 1 .. totalFibers : f \in Fibers /\ f <= totalFibers
    BY <1>2 DEF JobSystemInv, IInv, TypeOK, Fibers
  <2>6. \A f \in 1 .. totalFibers : unusedFibers[f] = 1
    BY <1>2, <2>1, <2>3, <2>4, <2>5 DEF JobSystemInv, AccountInv, PlaceInv, Executed,
       Targeted, Suspended, Remembered
  <2>7. \A f \in Fibers : fiberData[f] = NoJob
    BY <1>2, <2>3 DEF JobSystemInv, IInv, TypeOK, DataInv
  <2>8. \A f \in Fibers : attached[f] = NoThread
    BY <1>2, <2>1 DEF JobSystemInv, IInv, TypeOK, FiberTypeOK, AttachedInv, AttachedTo
  <2>9. \A j \in Jobs : pendingFibers[j] = 0
    BY <1>2, <2>3 DEF JobSystemInv, IInv, TypeOK, RegisteredInv, Registered, Parked
  <2>10. runningCount = 0
    <3>1. {t \in Threads : This(t) # NoFiber} = {}
      BY <2>1
    <3> QED
      BY <1>2, <3>1, FS_EmptySet DEF JobSystemInv, AccountInv, RunningInv
  <2> QED
    BY <2>5, <2>6, <2>7, <2>8, <2>9, <2>10
<1>3. JobSystemInv => FiberAccounting
  BY <1>1, <1>2 DEF FiberAccounting
<1> QED
  BY <1>3, Accounting, PTL
(***************************************************************************)
(* The abstract scheduler                                                  *)
(***************************************************************************)
(* Where a live job is, told by its fiber: in its callback, or in a wait.   *)
Stage(j) ==
  IF phase[j] = "live"
  THEN IF InJob(jobFiber[j]) THEN "running"
       ELSE IF Released(j) THEN "ready" ELSE "waiting"
  ELSE IF phase[j] = "new" THEN "new"
  ELSE IF phase[j] = "created" THEN "queued" ELSE "done"
BlockedOn(j) == IF Stage(j) = "waiting" THEN waitCounter[j] ELSE NoCounter

LEMMA StatusIsStage == JobSystemInv => \A j \in Jobs : Status(j) = Stage(j)
<1> SUFFICES ASSUME JobSystemInv, NEW j \in Jobs PROVE Status(j) = Stage(j)
  OBVIOUS
<1>1. phase[j] \in {"new", "created", "live", "done"}
  BY DEF JobSystemInv, IInv, TypeOK
<1>2. ASSUME phase[j] = "live"
      PROVE  Waiting(j) <=> ~InJob(jobFiber[j])
  <2>1. jobFiber[j] \in Fibers
    BY <1>2 DEF JobSystemInv, IInv, TypeOK, JobInv
  <2>2. /\ InJob(jobFiber[j]) \/ Switching(jobFiber[j]) \/ pc[jobFiber[j]] = "resumed"
        /\ Switching(jobFiber[j]) => after[jobFiber[j]] = "resumed"
    BY <2>1, ConstantFacts DEF JobSystemInv, IInv, JobInv
  <2>3. pc[jobFiber[j]] = "resumed" => after[jobFiber[j]] = "resumed"
    BY <2>1 DEF JobSystemInv, AccountInv, AfterInv
  <2> QED
    BY <1>2, <2>2, <2>3 DEF Waiting, InJob, Switching
<1> QED
  BY <1>1, <1>2 DEF Status, Stage

LEMMA StatusIsStageNext == (JobSystemInv => \A j \in Jobs : Status(j) = Stage(j))'
BY StatusIsStage, PTL

(* A job whose fiber stays where it is stays what it is.                    *)
Same(j) == Stage(j)' = Stage(j) /\ BlockedOn(j)' = BlockedOn(j)

LEMMA SameStage ==
  ASSUME NEW j \in Jobs, phase'[j] = phase[j],
         phase[j] = "live" => (InJob(jobFiber[j])' <=> InJob(jobFiber[j])),
         Released(j)' <=> Released(j),
         waitCounter'[j] = waitCounter[j]
  PROVE  Same(j)
BY DEF Same, Stage, BlockedOn

(* The abstract steps, in terms of Stage.                                   *)
LEMMA SchedulerStutter ==
  ASSUME JobSystemInv, JobSystemInv', UNCHANGED runCounter, \A j \in Jobs : Same(j)
  PROVE  UNCHANGED Scheduler!vars
<1>1. \A j \in Jobs : Status(j)' = Status(j) /\ Status(j) = Stage(j)
  BY StatusIsStage, StatusIsStageNext DEF Same
<1>2. \A j \in Jobs : Status(j)' = Stage(j)'
  BY StatusIsStageNext
<1> QED
  BY <1>1, <1>2 DEF Scheduler!vars, Same, BlockedOn

(* A step that moves job j on.                                              *)
LEMMA SchedulerMove ==
  ASSUME JobSystemInv, JobSystemInv', NEW j \in Jobs, NEW l,
         Stage(j)' = l,
         \A k \in Jobs \ {j} : Same(k)
  PROVE  /\ [k \in Jobs |-> Status(k)]' = [[k \in Jobs |-> Status(k)] EXCEPT ![j] = l]
         /\ l # "waiting" /\ Status(j) # "waiting" =>
              UNCHANGED [k \in Jobs |-> IF Status(k) = "waiting" THEN waitCounter[k]
                                                                 ELSE NoCounter]
         /\ l # "waiting" =>
              [k \in Jobs |-> IF Status(k) = "waiting" THEN waitCounter[k]
                                                       ELSE NoCounter]'
              = [[k \in Jobs |-> IF Status(k) = "waiting" THEN waitCounter[k]
                                                          ELSE NoCounter]
                   EXCEPT ![j] = NoCounter]
         /\ l = "waiting" =>
              [k \in Jobs |-> IF Status(k) = "waiting" THEN waitCounter[k]
                                                       ELSE NoCounter]'
              = [[k \in Jobs |-> IF Status(k) = "waiting" THEN waitCounter[k]
                                                          ELSE NoCounter]
                   EXCEPT ![j] = waitCounter'[j]]
<1>1. \A k \in Jobs : Status(k) = Stage(k) /\ Status(k)' = Stage(k)'
  BY StatusIsStage, StatusIsStageNext
<1> QED
  BY <1>1 DEF Same, BlockedOn

LEMMA StageTypes ==
  ASSUME JobSystemInv
  PROVE  /\ phase \in [Jobs -> {"new", "created", "live", "done"}]
         /\ pc \in [Fibers -> Labels]
         /\ waitCounter \in [Jobs -> Counters \cup {NoCounter}]
         /\ runCounter \in [Jobs -> Counters \cup {NoCounter}]
         /\ jobFiber \in [Jobs -> Fibers \cup {NoFiber}]
         /\ fiberData \in [Fibers -> Jobs \cup {NoJob}]
         /\ wake \in [Fibers -> SUBSET Jobs]
         /\ waiters \in [Counters -> SUBSET Jobs]
         /\ \A t \in Threads : This(t) \in Fibers \cup {NoFiber}
         /\ \A j \in Jobs : phase[j] = "live" =>
              jobFiber[j] \in Fibers /\ fiberData[jobFiber[j]] = j
BY ConstantFacts DEF JobSystemInv, IInv, TypeOK, FiberTypeOK, CounterTypeOK, This, JobInv

(* A step that takes no fiber into a callback or out of one.                *)
LEMMA SameStages ==
  ASSUME UNCHANGED <<phase, waitCounter, wake>>,
         \A j \in Jobs : phase[j] = "live" =>
           (InJob(jobFiber[j])' <=> InJob(jobFiber[j]))
  PROVE  \A j \in Jobs : Same(j)
BY SameStage DEF Released

LEMMA ScheduleQuiet ==
  ASSUME JobSystemInv,
         \/ MainEnqueue
         \/ Destroy
         \/ \E t \in Threads :
              \/ Poll(t) \/ LeaveJobMain(t) \/ TakeFiber(t) \/ JobEnqueue(t)
              \/ FinishJob(t) \/ DeleteJob(t) \/ Attach(t) \/ Detach(t)
              \/ Switch(t) \/ EndThread(t)
              \/ CompleteWait(t) /\ Registers(t)
  PROVE  UNCHANGED runCounter /\ \A j \in Jobs : Same(j)
<1> USE StageTypes, ConstantFacts DEF Labels
<1>1. CASE MainEnqueue \/ Destroy
  BY <1>1, SameStages DEF MainEnqueue, EnqueueJob, Destroy, jobVars, stateVars,
     flowVars, InJob
<1>2. ASSUME NEW t \in Threads,
             \/ Poll(t) \/ LeaveJobMain(t) \/ JobEnqueue(t) \/ FinishJob(t)
             \/ Detach(t) \/ EndThread(t)
      PROVE  UNCHANGED runCounter /\ \A j \in Jobs : Same(j)
  BY <1>2, SameStages DEF Poll, LeaveJobMain, JobEnqueue, EnqueueJob, FinishJob,
     Detach, EndThread, At, Goto, jobVars, stateVars, InJob
<1>3. ASSUME NEW t \in Threads, Attach(t)
      PROVE  UNCHANGED runCounter /\ \A j \in Jobs : Same(j)
  BY <1>3, SameStages, AttachSucceeds DEF Attach, At, Goto, jobVars, stateVars,
     InJob, JobSystemInv
<1>4. ASSUME NEW t \in Threads, Switch(t)
      PROVE  UNCHANGED runCounter /\ \A j \in Jobs : Same(j)
  <2>1. after \in [Fibers -> {"complete", "resumed"}]
    BY DEF JobSystemInv, IInv, TypeOK
  <2> QED
    BY <1>4, <2>1, SameStages DEF Switch, At, Goto, jobVars, stateVars, InJob
<1>5. ASSUME NEW t \in Threads, TakeFiber(t)
      PROVE  UNCHANGED runCounter /\ \A j \in Jobs : Same(j)
  BY <1>5, SameStages DEF TakeFiber, ResumeJobFiber, BeginSwitch, At, Goto, jobVars,
     InJob
<1>6. ASSUME NEW t \in Threads, CompleteWait(t), Registers(t)
      PROVE  UNCHANGED runCounter /\ \A j \in Jobs : Same(j)
  <2>1. ~Complete(waitCounter[fiberData[This(t)]])
    BY <1>6 DEF Registers, AddWaiter
  <2> QED
    BY <1>6, <2>1, SameStages DEF CompleteWait, At, Goto, jobVars, InJob
<1>7. ASSUME NEW t \in Threads, DeleteJob(t)
      PROVE  UNCHANGED runCounter /\ \A j \in Jobs : Same(j)
  <2> DEFINE f == This(t)
  <2>1. f \in Fibers /\ pc[f] = "wake"
    BY <1>7 DEF DeleteJob, At
  <2>2. /\ UNCHANGED <<runCounter, phase, waitCounter, wake>>
        /\ pc' = [pc EXCEPT ![f] = "loop"]
        /\ jobFiber' = [jobFiber EXCEPT ![fiberData[f]] = NoFiber]
    BY <1>7 DEF DeleteJob, Goto, jobVars
  <2>3. fiberData[f] \in Jobs /\ phase[fiberData[f]] = "done"
    BY <2>1, JobInFiber DEF InJob, JobSystemInv, IInv, JobInv
  <2>4. ASSUME NEW j \in Jobs, phase[j] = "live"
        PROVE  InJob(jobFiber[j])' <=> InJob(jobFiber[j])
    BY <2>1, <2>2, <2>3, <2>4 DEF InJob
  <2> QED
    BY <2>2, <2>4, SameStages
<1> QED
  BY <1>1, <1>2, <1>3, <1>4, <1>5, <1>6, <1>7

(* A waiter that is woken was released already.                             *)
LEMMA ScheduleWake ==
  ASSUME JobSystemInv, NEW t \in Threads, WakeOne(t)
  PROVE  UNCHANGED runCounter /\ \A j \in Jobs : Same(j)
<1> USE StageTypes, ConstantFacts
<1> DEFINE f == This(t)
<1>1. f \in Fibers
  BY DEF WakeOne, At
<1>2. PICK j \in wake[f] : /\ waitCounter' = [waitCounter EXCEPT ![j] = NoCounter]
                           /\ wake' = [wake EXCEPT ![f] = @ \ {j}]
  BY DEF WakeOne
<1>3. j \in Jobs
  BY <1>1
<1>4. UNCHANGED <<phase, runCounter, jobFiber, pc>>
  BY DEF WakeOne, jobVars
<1>5. ASSUME NEW k \in Jobs, k # j PROVE Same(k)
  <2>1. Released(k)' <=> Released(k)
    BY <1>1, <1>2, <1>5 DEF Released
  <2>2. waitCounter'[k] = waitCounter[k]
    BY <1>2, <1>5
  <2> QED
    BY <1>4, <2>1, <2>2, SameStage DEF InJob
<1>6. Same(j)
  <2>1. Released(j) /\ Released(j)'
    BY <1>1, <1>2, <1>3 DEF Released
  <2> QED
    BY <1>4, <2>1 DEF Same, Stage, BlockedOn, InJob
<1> QED
  BY <1>4, <1>5, <1>6
(* Run submits a job.                                                      *)
LEMMA ScheduleSubmit ==
  ASSUME JobSystemInv, JobSystemInv',
         NEW x \in Callers, NEW j \in Jobs, NEW c \in Counters \cup {NoCounter},
         CreateJob(x, j, c),
         \A f \in Fibers : InJob(f)' <=> InJob(f)
  PROVE  Scheduler!Submit(j, c)
<1> USE StageTypes, ConstantFacts
<1>1. /\ phase[j] = "new" /\ phase' = [phase EXCEPT ![j] = "created"]
      /\ runCounter' = [runCounter EXCEPT ![j] = c]
      /\ UNCHANGED <<jobFiber, waitCounter, wake>>
  BY DEF CreateJob, stateVars
<1>2. \A k \in Jobs \ {j} : Same(k)
  <2> SUFFICES ASSUME NEW k \in Jobs \ {j} PROVE Same(k)
    OBVIOUS
  <2>1. phase[k] = "live" => (InJob(jobFiber[k])' <=> InJob(jobFiber[k]))
    BY <1>1 DEF InJob
  <2> QED
    BY <1>1, <2>1, SameStage DEF Released
<1>3. Stage(j) = "new" /\ Stage(j)' = "queued"
  BY <1>1 DEF Stage
<1>4. Status(j) = "new"
  BY <1>3, StatusIsStage
<1> QED
  BY <1>1, <1>2, <1>3, <1>4, SchedulerMove DEF Scheduler!Submit

(* A thread starts a job.                                                  *)
LEMMA ScheduleStart ==
  ASSUME JobSystemInv, JobSystemInv', NEW t \in Threads, TakeJob(t)
  PROVE  \E j \in Jobs : Scheduler!Start(j)
<1> USE StageTypes, ConstantFacts
<1> DEFINE f == This(t)
<1>1. PICK j \in Jobs : /\ Holds(pendingJobs, j)
                        /\ phase' = [phase EXCEPT ![j] = "live"]
                        /\ jobFiber' = [jobFiber EXCEPT ![j] = f]
  BY DEF TakeJob
<1>2. /\ f \in Fibers /\ pc[f] = "poll" /\ pc' = [pc EXCEPT ![f] = "job"]
      /\ UNCHANGED <<runCounter, waitCounter, wake>>
  BY DEF TakeJob, At, Goto
<1>3. phase[j] = "created"
  BY <1>1 DEF JobSystemInv, IInv, TypeOK, PendingJobInv, Holds
<1>4. \A k \in Jobs \ {j} : Same(k)
  <2> SUFFICES ASSUME NEW k \in Jobs \ {j} PROVE Same(k)
    OBVIOUS
  <2>1. ASSUME phase[k] = "live" PROVE InJob(jobFiber[k])' <=> InJob(jobFiber[k])
    <3>1. jobFiber[k] # f
      BY <1>2, <2>1 DEF JobSystemInv, IInv, JobInv, InJob, Switching
    <3> QED
      BY <1>1, <1>2, <2>1, <3>1 DEF InJob
  <2> QED
    BY <1>1, <1>2, <2>1, SameStage DEF Released
<1>5. Stage(j) = "queued" /\ Stage(j)' = "running"
  BY <1>1, <1>2, <1>3 DEF Stage, InJob
<1>6. Status(j) = "queued"
  BY <1>5, StatusIsStage
<1> QED
  BY <1>2, <1>4, <1>5, <1>6, SchedulerMove DEF Scheduler!Start

(* A job begins to wait when it leaves its callback's fiber.                *)
LEMMA ScheduleWait ==
  ASSUME JobSystemInv, JobSystemInv', NEW t \in Threads, NEW c \in Counters, Wait(t, c)
  PROVE  \E j \in Jobs : Scheduler!BeginWait(j, c)
<1> USE StageTypes, ConstantFacts
<1>0. PICK f \in Fibers : f = This(t) /\ pc[f] = "job"
  BY DEF Wait, At
<1>2. PICK j \in Jobs : j = fiberData[f] /\ jobFiber[j] = f /\ phase[j] = "live"
  BY <1>0, JobInFiber DEF InJob, JobSystemInv
<1>1. /\ pc' = [pc EXCEPT ![f] = "attach"]
      /\ waitCounter' = [waitCounter EXCEPT ![j] = c]
      /\ UNCHANGED <<phase, runCounter, jobFiber, wake>>
  BY <1>0, <1>2 DEF Wait, Goto, BeginSwitch, RegisterWait
<1>3. \A g \in Fibers : j \notin wake[g]
  BY <1>0, <1>2 DEF JobSystemInv, IInv, WakeInv, JobInv, InJob
<1>4. \A k \in Jobs \ {j} : Same(k)
  <2> SUFFICES ASSUME NEW k \in Jobs \ {j} PROVE Same(k)
    OBVIOUS
  <2>1. ASSUME phase[k] = "live" PROVE InJob(jobFiber[k])' <=> InJob(jobFiber[k])
    BY <1>0, <1>1, <1>2, <2>1 DEF InJob
  <2> QED
    BY <1>1, <2>1, SameStage DEF Released
<1>5. Stage(j) = "running" /\ Stage(j)' = "waiting"
  BY <1>0, <1>1, <1>2, <1>3 DEF Stage, InJob, Released
<1>6. Status(j) = "running" /\ waitCounter'[j] = c
  BY <1>1, <1>2, <1>5, StatusIsStage
<1> QED
  BY <1>1, <1>2, <1>4, <1>5, <1>6, SchedulerMove DEF Scheduler!BeginWait

(* What a counter has yet to count down, to the scheduler.                  *)
LEMMA SchedulerUnfinished ==
  ASSUME JobSystemInv, NEW c \in Counters
  PROVE  Scheduler!Unfinished(c) = Unfinished(c)
<1>1. \A j \in Jobs : Stage(j) \in {"new", "done"} <=> phase[j] \in {"new", "done"}
  BY StageTypes DEF Stage
<1> QED
  BY <1>1, StatusIsStage, StageTypes DEF Scheduler!Unfinished, Unfinished

(* Nothing to wait for: the fiber that was to register the job goes back.   *)
LEMMA ScheduleRelease ==
  ASSUME JobSystemInv, JobSystemInv', NEW t \in Threads, CompleteWait(t), ~Registers(t)
  PROVE  \E j \in Jobs : Scheduler!Release(j)
<1> USE StageTypes, ConstantFacts
<1>a. PICK f \in Fibers : f = This(t) /\ pc[f] = "complete"
  BY DEF CompleteWait, At
<1>b. PICK j \in Jobs : j = fiberData[f]
  BY <1>a DEF CompleteWait
<1>c. PICK c \in Counters : c = waitCounter[j]
  BY <1>a, <1>b DEF CompleteWait
<1>1. /\ f = This(t) /\ pc[f] = "complete" /\ j = fiberData[f] /\ c = waitCounter[j]
      /\ pc' = [pc EXCEPT ![f] = "attach"]
      /\ Complete(c)
      /\ waitCounter' = [waitCounter EXCEPT ![j] = NoCounter]
      /\ UNCHANGED <<phase, runCounter, jobFiber, wake>>
  BY <1>a, <1>b, <1>c DEF CompleteWait, Registers, At, Goto, ResumeJobFiber, BeginSwitch, jobVars
<1>2. /\ jobFiber[j] \in Fibers /\ jobFiber[j] # f /\ phase[j] = "live"
      /\ ~InJob(jobFiber[j])
  <2>1. jobFiber[j] \in Fibers
    BY <1>1 DEF JobSystemInv, IInv, DataInv
  <2>2. jobFiber[j] # f
    BY <1>1, <2>1 DEF JobSystemInv, IInv, JobInv, InJob, Switching
  <2>3. ~InJob(jobFiber[j])
    BY <1>1, <2>1 DEF JobSystemInv, IInv, JobInv
  <2> QED
    BY <2>1, <2>2, <2>3 DEF JobSystemInv, IInv, JobInv, InJob
<1>3. \A g \in Fibers : j \notin wake[g]
  BY <1>1, <1>2 DEF JobSystemInv, IInv, RegisteredInv, Registered, Parked
<1>4. Unfinished(c) = {}
  <2>1. IsFiniteSet(Unfinished(c)) /\ Cardinality(Unfinished(c)) = 0
    BY <1>1 DEF JobSystemInv, AccountInv, CountInv, Complete
  <2> QED
    BY <2>1, FS_EmptySet
<1>5. \A k \in Jobs \ {j} : Same(k)
  <2> SUFFICES ASSUME NEW k \in Jobs \ {j} PROVE Same(k)
    OBVIOUS
  <2>1. ASSUME phase[k] = "live" PROVE InJob(jobFiber[k])' <=> InJob(jobFiber[k])
    BY <1>1, <2>1 DEF InJob
  <2> QED
    BY <1>1, <2>1, SameStage DEF Released
<1>6. Stage(j) = "waiting" /\ Stage(j)' = "ready"
  <2>1. ~Released(j) /\ Released(j)'
    BY <1>1, <1>3 DEF Released
  <2> QED
    BY <1>1, <1>2, <2>1 DEF Stage, InJob
<1>7. Status(j) = "waiting"
  BY <1>1, <1>6, StatusIsStage
<1>8. Scheduler!Unfinished(c) = {}
  BY <1>1, <1>4, SchedulerUnfinished
<1>9. UNCHANGED runCounter /\ c = waitCounter[j]
  BY <1>1
<1> QED
  BY <1>5, <1>6, <1>7, <1>8, <1>9, SchedulerMove DEF Scheduler!Release

(* A job that was released goes on.                                        *)
LEMMA ScheduleResume ==
  ASSUME JobSystemInv, JobSystemInv', NEW t \in Threads, WaitReturn(t)
  PROVE  \E j \in Jobs : Scheduler!Resume(j)
<1> USE StageTypes, ConstantFacts
<1>0. PICK f \in Fibers : f = This(t) /\ pc[f] = "resumed"
  BY DEF WaitReturn, At
<1>2. PICK j \in Jobs : j = fiberData[f] /\ jobFiber[j] = f /\ phase[j] = "live"
  BY <1>0, JobInFiber DEF JobSystemInv
<1>1. /\ f = This(t) /\ pc[f] = "resumed" /\ pc' = [pc EXCEPT ![f] = "job"]
      /\ UNCHANGED <<phase, runCounter, jobFiber, waitCounter, wake>>
  BY <1>0 DEF WaitReturn, Goto, jobVars
<1>3. waitCounter[j] = NoCounter
  BY <1>1, <1>2 DEF JobSystemInv, IInv, ExecutedInv, PrevInv, WaitReturn, At
<1>4. \A k \in Jobs \ {j} : Same(k)
  <2> SUFFICES ASSUME NEW k \in Jobs \ {j} PROVE Same(k)
    OBVIOUS
  <2>1. ASSUME phase[k] = "live" PROVE InJob(jobFiber[k])' <=> InJob(jobFiber[k])
    BY <1>1, <1>2, <2>1 DEF InJob
  <2> QED
    BY <1>1, <2>1, SameStage DEF Released
<1>5. Stage(j) = "ready" /\ Stage(j)' = "running"
  BY <1>1, <1>2, <1>3 DEF Stage, InJob, Released
<1>6. Status(j) = "ready"
  BY <1>2, <1>5, StatusIsStage
<1>7. UNCHANGED runCounter
  BY <1>1
<1> QED
  BY <1>7, <1>4, <1>5, <1>6, SchedulerMove DEF Scheduler!Resume
(* The waiters that Decrement hands out wait for the job that ends, and     *)
(* for no other.                                                           *)
LEMMA UnblockedWait ==
  ASSUME JobSystemInv, NEW c \in Counters, NEW k \in Unblocked(c)
  PROVE  /\ k \in Jobs /\ phase[k] = "live" /\ waitCounter[k] = c
         /\ jobFiber[k] \in Fibers /\ pc[jobFiber[k]] = "resumed"
         /\ \A g \in Fibers : k \notin wake[g]
         /\ counter[c] = 1
<1> USE StageTypes, ConstantFacts
<1>1. k \in Jobs /\ k \in waiters[c] /\ ~(counter[c] - 1 > 0)
  BY DEF Unblocked
<1>2. /\ jobFiber[k] \in Fibers /\ pc[jobFiber[k]] = "resumed"
      /\ waitCounter[k] = c
  BY <1>1 DEF JobSystemInv, IInv, RegisteredInv, Registered, Parked, WaitersInv
<1>3. phase[k] = "live"
  BY <1>1, <1>2 DEF JobSystemInv, IInv, JobInv
<1>4. \A g \in Fibers : k \notin wake[g]
  BY <1>1 DEF JobSystemInv, IInv, WakeInv
<1>5. counter[c] \in Nat /\ counter[c] > 0
  BY <1>1, CountNat DEF JobSystemInv, AccountInv, BlockedInv
<1> QED
  BY <1>1, <1>2, <1>3, <1>4, <1>5

(* A job ends, and with it the waits for it.                                *)
LEMMA ScheduleFinish ==
  ASSUME JobSystemInv, JobSystemInv', NEW t \in Threads, CountDown(t)
  PROVE  \E j \in Jobs : \E released \in SUBSET Jobs : Scheduler!Finish(j, released)
<1> USE StageTypes, ConstantFacts
<1>1. PICK f \in Fibers : f = This(t) /\ pc[f] = "finish"
  BY DEF CountDown, At
<1>2. PICK j \in Jobs : j = fiberData[f] /\ jobFiber[j] = f /\ phase[j] = "live"
  BY <1>1, JobInFiber DEF InJob, JobSystemInv
<1>3. PICK c \in Counters \cup {NoCounter} : c = runCounter[j]
  OBVIOUS
<1>4. PICK released \in SUBSET Jobs :
        released = IF c = NoCounter THEN {} ELSE Unblocked(c)
  BY DEF Unblocked
<1>5. /\ pc' = [pc EXCEPT ![f] = "wake"]
      /\ phase' = [phase EXCEPT ![j] = "done"]
      /\ wake' = IF c = NoCounter THEN wake ELSE [wake EXCEPT ![f] = released]
      /\ UNCHANGED <<runCounter, jobFiber, waitCounter>>
  BY <1>1, <1>2, <1>3, <1>4 DEF CountDown, Goto, stateVars
<1>6. wake[f] = {}
  BY <1>1 DEF JobSystemInv, IInv, WakeInv
<1>7. \A g \in Fibers : InJob(g)' <=> InJob(g)
  BY <1>1, <1>5 DEF InJob
<1>8. Stage(j) = "running" /\ Stage(j)' = "done"
  BY <1>1, <1>2, <1>5 DEF Stage, InJob
<1>9. ASSUME NEW k \in released
      PROVE  /\ k \in Jobs \ {j} /\ c \in Counters
             /\ Stage(k) = "waiting" /\ waitCounter[k] = c /\ Stage(k)' = "ready"
  <2>1. c \in Counters /\ k \in Unblocked(c)
    BY <1>4, <1>9
  <2>2. /\ k \in Jobs /\ phase[k] = "live" /\ waitCounter[k] = c
        /\ jobFiber[k] \in Fibers /\ pc[jobFiber[k]] = "resumed"
        /\ \A g \in Fibers : k \notin wake[g]
    BY <2>1, UnblockedWait
  <2>3. k # j /\ jobFiber[k] # f
    BY <1>1, <1>2, <2>2
  <2>4. Stage(k) = "waiting"
    BY <2>1, <2>2 DEF Stage, InJob, Released
  <2>5. k \in wake'[f]
    BY <1>5, <1>9, <2>1
  <2>6. Stage(k)' = "ready"
    BY <1>5, <1>7, <2>2, <2>3, <2>5 DEF Stage, InJob, Released
  <2> QED
    BY <2>1, <2>2, <2>3, <2>4, <2>6
<1>10. ASSUME NEW k \in Jobs, k # j, k \notin released
       PROVE  Same(k)
  <2>1. Released(k)' <=> Released(k)
    BY <1>5, <1>6, <1>10 DEF Released
  <2>2. phase[k] = "live" => (InJob(jobFiber[k])' <=> InJob(jobFiber[k]))
    BY <1>5, <1>7 DEF InJob
  <2> QED
    BY <1>5, <1>10, <2>1, <2>2, SameStage
<1>11. ASSUME released # {}
       PROVE  \E d \in Counters : /\ Scheduler!Unfinished(d) = {j}
                                  /\ released \subseteq Scheduler!WaitingOn(d)
  <2>1. PICK k \in released : TRUE
    BY <1>11
  <2>2. c \in Counters /\ counter[c] = 1
    BY <1>4, <2>1, <1>9, UnblockedWait
  <2>3. IsFiniteSet(Unfinished(c)) /\ Cardinality(Unfinished(c)) = 1
    BY <2>2 DEF JobSystemInv, AccountInv, CountInv
  <2>4. j \in Unfinished(c)
    BY <1>2, <1>3 DEF Unfinished
  <2>5. Unfinished(c) = {j}
    BY <2>3, <2>4, FS_Singleton
  <2>6. \A i \in released : i \in Jobs /\ Status(i) = "waiting" /\ waitCounter[i] = c
    BY <1>9, StatusIsStage
  <2> QED
    BY <2>2, <2>5, <2>6, SchedulerUnfinished DEF Scheduler!WaitingOn
<1>12. \A k \in Jobs : Status(k) = Stage(k) /\ Status(k)' = Stage(k)'
  BY StatusIsStage, StatusIsStageNext
<1>13. [k \in Jobs |-> Status(k)]'
         = [k \in Jobs |-> IF k = j THEN "done"
                           ELSE IF k \in released THEN "ready"
                           ELSE [i \in Jobs |-> Status(i)][k]]
  BY <1>8, <1>9, <1>10, <1>12 DEF Same
<1>14. \A k \in Jobs :
         (IF Status(k) = "waiting" THEN waitCounter[k] ELSE NoCounter)'
         = IF k \in released THEN NoCounter
           ELSE IF Status(k) = "waiting" THEN waitCounter[k] ELSE NoCounter
  <2> SUFFICES ASSUME NEW k \in Jobs
               PROVE  BlockedOn(k)' = IF k \in released THEN NoCounter ELSE BlockedOn(k)
    BY <1>12 DEF BlockedOn
  <2>1. CASE k = j
    BY <1>8, <1>9, <2>1 DEF BlockedOn
  <2>2. CASE k \in released
    BY <1>9, <2>2 DEF BlockedOn
  <2>3. CASE k # j /\ k \notin released
    BY <1>10, <2>3 DEF Same
  <2> QED
    BY <2>1, <2>2, <2>3
<1>15. [k \in Jobs |-> IF Status(k) = "waiting" THEN waitCounter[k] ELSE NoCounter]'
         = [k \in Jobs |->
              IF k \in released THEN NoCounter
              ELSE [i \in Jobs |-> IF Status(i) = "waiting" THEN waitCounter[i]
                                                            ELSE NoCounter][k]]
  BY <1>14
<1>16. [k \in Jobs |-> Status(k)][j] = "running" /\ UNCHANGED runCounter
  BY <1>5, <1>8, <1>12
<1> HIDE StageTypes, ConstantFacts
<1> QED
  BY <1>11, <1>13, <1>15, <1>16 DEF Scheduler!Finish

(* Every step of the job system is one of the scheduler, or none.           *)
LEMMA ScheduleStep ==
  ASSUME JobSystemInv, JobSystemInv', Next
  PROVE  Scheduler!Next \/ UNCHANGED Scheduler!vars
<1>1. ASSUME NEW j \in Jobs, NEW c \in Counters \cup {NoCounter}, MainRun(j, c)
      PROVE  Scheduler!Next
  <2>1. CreateJob(Main, j, c) /\ Main \in Callers
    BY <1>1 DEF MainRun, Callers
  <2>2. \A f \in Fibers : InJob(f)' <=> InJob(f)
    BY <1>1 DEF MainRun, InJob
  <2>3. Scheduler!Submit(j, c)
    BY <2>1, <2>2, ScheduleSubmit
  <2> QED
    BY <2>3 DEF Scheduler!Next
<1>2. CASE MainEnqueue \/ Destroy
  BY <1>2, ScheduleQuiet, SchedulerStutter
<1>3. ASSUME NEW t \in Threads, ThreadStep(t)
      PROVE  Scheduler!Next \/ UNCHANGED Scheduler!vars
  <2>1. CASE \/ Poll(t) \/ LeaveJobMain(t) \/ TakeFiber(t) \/ JobEnqueue(t)
             \/ FinishJob(t) \/ DeleteJob(t) \/ Attach(t) \/ Detach(t)
             \/ Switch(t) \/ EndThread(t)
             \/ CompleteWait(t) /\ Registers(t)
    BY <2>1, ScheduleQuiet, SchedulerStutter
  <2>2. CASE WakeOne(t)
    BY <2>2, ScheduleWake, SchedulerStutter
  <2>3. CASE TakeJob(t)
    BY <2>3, ScheduleStart DEF Scheduler!Next
  <2>4. CASE CountDown(t)
    BY <2>4, ScheduleFinish DEF Scheduler!Next
  <2>5. CASE CompleteWait(t) /\ ~Registers(t)
    BY <2>5, ScheduleRelease DEF Scheduler!Next
  <2>6. CASE WaitReturn(t)
    BY <2>6, ScheduleResume DEF Scheduler!Next
  <2>7. ASSUME NEW c \in Counters, Wait(t, c) PROVE Scheduler!Next
    BY <2>7, ScheduleWait DEF Scheduler!Next
  <2>8. ASSUME NEW j \in Jobs, NEW c \in Counters \cup {NoCounter}, JobRun(t, j, c)
        PROVE  Scheduler!Next
    <3>1. /\ CreateJob(This(t), j, c) /\ This(t) \in Fibers /\ pc[This(t)] = "job"
          /\ pc' = [pc EXCEPT ![This(t)] = "enqueue"]
      BY <2>8, StageTypes DEF JobRun, At, Goto
    <3>2. \A f \in Fibers : InJob(f)' <=> InJob(f)
      BY <3>1, StageTypes DEF InJob
    <3>3. PICK x \in Callers : CreateJob(x, j, c)
      BY <3>1 DEF Callers
    <3>4. Scheduler!Submit(j, c)
      BY <3>2, <3>3, ScheduleSubmit
    <3> QED
      BY <3>4 DEF Scheduler!Next
  <2> QED
    BY <1>3, <2>1, <2>2, <2>3, <2>4, <2>5, <2>6, <2>7, <2>8 DEF ThreadStep
<1> QED
  BY <1>1, <1>2, <1>3 DEF Next

(* The job system implements the abstract scheduler: each job runs once,    *)
(* and a wait ends only when the jobs of its counter have finished.         *)
THEOREM Implements == DestroyWhenIdle => (Spec => ImplementsScheduler)
<1>1. Init => Scheduler!Init
  <2> SUFFICES ASSUME Init PROVE Scheduler!Init
    OBVIOUS
  <2>1. \A j \in Jobs : phase[j] = "new" /\ waitCounter[j] = NoCounter
    BY DEF Init
  <2>2. \A j \in Jobs : Status(j) = "new"
    BY <2>1 DEF Status
  <2>3. runCounter = [j \in Jobs |-> NoCounter]
    BY DEF Init
  <2> QED
    BY <2>2, <2>3 DEF Scheduler!Init
<1>2. JobSystemInv /\ JobSystemInv' /\ [Next]_vars => [Scheduler!Next]_(Scheduler!vars)
  <2>1. CASE UNCHANGED vars
    <3>1. UNCHANGED <<phase, runCounter, waitCounter, jobFiber, pc, after, wake>>
      BY <2>1 DEF vars, stateVars, jobVars, flowVars
    <3>2. \A j \in Jobs : Status(j)' = Status(j)
      BY <3>1 DEF Status, Waiting, Released
    <3> QED
      BY <3>1, <3>2 DEF Scheduler!vars
  <2>2. ASSUME JobSystemInv, JobSystemInv', Next
        PROVE  Scheduler!Next \/ UNCHANGED Scheduler!vars
    BY <2>2, ScheduleStep
  <2> QED
    BY <2>1, <2>2
<1> QED
  BY <1>1, <1>2, Accounting, PTL DEF Spec, ImplementsScheduler, Scheduler!Spec
=============================================================================
