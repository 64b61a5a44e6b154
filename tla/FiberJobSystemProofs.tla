------------------------ MODULE FiberJobSystemProofs ------------------------
(***************************************************************************)
(* What holds of FiberJobSystem for any number of threads, fibers, jobs    *)
(* and counters: type correctness, whoever destroys the system and when;   *)
(* and, provided it is destroyed only when it is idle, the inductive       *)
(* invariant IInv and what follows from it.                                *)
(*                                                                         *)
(* It says where every fiber and every waiting job can be.  A fiber that a *)
(* thread has left, or is leaving, is reachable by others only once no     *)
(* thread executes it; a waiting job is registered in one place at a time: *)
(* handed to the fiber its thread switches to, in a counter's waiters,     *)
(* about to be woken, pending, or being resumed.                           *)
(*                                                                         *)
(* Every step preserves IInv, one lemma per action.  A lemma first names   *)
(* the fibers and jobs its step works on and collects what the invariant   *)
(* says of them, then shows the parts of the invariant: those that follow  *)
(* from themselves together, the others one by one.                        *)
(***************************************************************************)
EXTENDS FiberJobSystem, FiniteSets, TLAPS

(***************************************************************************)
(* The inductive invariant                                                 *)
(***************************************************************************)
Switching(f) == pc[f] \in {"attach", "detach", "switch"}
InJob(f)     == pc[f] \in {"job", "enqueue", "finish", "wake"}
InSwitch(t)  == This(t) # NoFiber /\ Switching(This(t))

(* The fibers threads execute.                                             *)
ExecutedInv ==
  \A t \in Threads : This(t) # NoFiber =>
    LET f == This(t) IN
    /\ f <= totalFibers
    /\ ~exited[f]
    /\ attached[f] = IF pc[f] = "switch" THEN NoThread ELSE t
    /\ pc[f] # "exited"
    /\ pc[f] # "exit" => unusedFibers[f] = 0
    /\ pc[f] \in {"loop", "poll", "exit"} => fiberData[f] = NoJob
    /\ pc[f] = "complete" => fiberData[f] # NoJob
    /\ pc[f] = "resumed" => prevFiber[fiberData[f]] # NoFiber

(* The fibers no thread executes, and among them those not yet created.     *)
SuspendedInv ==
  \A f \in Fibers :
    ~Executed(f) => /\ pc[f] \in {"complete", "resumed", "exited"}
                    /\ exited[f] <=> pc[f] = "exited"

UncreatedInv ==
  \A f \in Fibers : f > totalFibers =>
    /\ pc[f] = "complete"
    /\ unusedFibers[f] = 0
    /\ fiberData[f] = NoJob

(* The thread a fiber is attached to executes it or is about to.            *)
AttachedTo(f, g) ==
  \/ g = f
  \/ g # NoFiber /\ target[g] = f /\ pc[g] \in {"detach", "switch"}
AttachedInv ==
  \A f \in Fibers : attached[f] # NoThread => AttachedTo(f, This(attached[f]))

(* A switch in progress owns its target.                                   *)
Owns(t, g) ==
  /\ g \in Fibers /\ g <= totalFibers
  /\ ~Executed(g)
  /\ ~exited[g]
  /\ unusedFibers[g] = 0
  /\ attached[g] = IF pc[This(t)] = "attach" THEN NoThread ELSE t
SwitchInv == \A t \in Threads : InSwitch(t) => Owns(t, target[This(t)])

SwitchApartInv ==
  \A t, u \in Threads : t # u /\ InSwitch(t) /\ InSwitch(u) =>
    target[This(t)] # target[This(u)]

(* A job that waits hands its state to its target, which will register it;  *)
Leaves(f, g) ==
  LET j == fiberData[f] IN
  /\ j # NoJob
  /\ jobFiber[j] = f
  /\ fiberData[g] = j
  /\ waitCounter[j] # NoCounter
  /\ pc[g] = "complete"
LeaveInv ==
  \A t \in Threads : InSwitch(t) /\ after[This(t)] = "resumed" =>
    Leaves(This(t), target[This(t)])

(* a fiber that resumes a job will be returned by it.                       *)
Resumes(f, g) ==
  LET j == fiberData[g] IN
  /\ fiberData[f] = NoJob
  /\ j # NoJob
  /\ jobFiber[j] = g
  /\ prevFiber[j] = f
  /\ pc[g] = "resumed"
ResumeInv ==
  \A t \in Threads : InSwitch(t) /\ after[This(t)] = "complete" =>
    Resumes(This(t), target[This(t)])

(* An unused fiber is referred to from nowhere else, unless its thread ends. *)
UnusedInv ==
  \A f \in Fibers :
    /\ unusedFibers[f] <= 1
    /\ unusedFibers[f] = 1 =>
         /\ \/ pc[f] \in {"exit", "exited"}
            \/ pc[f] = "complete" /\ ~Executed(f) /\ fiberData[f] = NoJob
         /\ \A j \in Jobs : prevFiber[j] # f /\ jobFiber[j] # f

(* A job and its fiber belong to each other from TakeJob to DeleteJob.      *)
JobInv ==
  \A j \in Jobs :
    /\ phase[j] = "live" => jobFiber[j] # NoFiber
    /\ jobFiber[j] = NoFiber =>
         prevFiber[j] = NoFiber /\ waitCounter[j] = NoCounter
    /\ jobFiber[j] # NoFiber =>
         LET f == jobFiber[j] IN
         /\ fiberData[f] = j
         /\ phase[j] = IF pc[f] = "wake" THEN "done" ELSE "live"
         /\ InJob(f) \/ Switching(f) \/ pc[f] = "resumed"
         /\ InJob(f) => prevFiber[j] = NoFiber /\ waitCounter[j] = NoCounter
         /\ Switching(f) => after[f] = "resumed"

(* A fiber inside a job carries that job's state; any other fiber carries    *)
(* one only to complete the wait of its job.                               *)
OwnDataInv ==
  \A f \in Fibers : InJob(f) \/ pc[f] = "resumed" =>
    fiberData[f] # NoJob /\ jobFiber[fiberData[f]] = f

Completes(g, j) ==
  LET f == jobFiber[j] IN
  /\ pc[g] = "complete"
  /\ waitCounter[j] # NoCounter
  /\ prevFiber[j] = NoFiber
  /\ \A h \in Fibers : fiberData[h] = j => h \in {f, g}
  /\ \/ Executed(g) /\ ~Executed(f) /\ pc[f] = "resumed"
     \/ Executed(f) /\ Switching(f) /\ target[f] = g
DataInv ==
  \A g \in Fibers : fiberData[g] # NoJob =>
    /\ jobFiber[fiberData[g]] # NoFiber
    /\ jobFiber[fiberData[g]] # g => Completes(g, fiberData[g])

(* The previous fiber of a job that is being resumed.                       *)
Returnable(p, f) ==
  \/ /\ Executed(p) /\ ~Executed(f)
     /\ Switching(p) /\ after[p] = "complete" /\ target[p] = f
  \/ /\ Executed(f) /\ ~Executed(p)
     /\ pc[p] = "complete" /\ fiberData[p] = NoJob /\ attached[p] = NoThread
PrevInv ==
  \A j \in Jobs : prevFiber[j] # NoFiber =>
    /\ jobFiber[j] # NoFiber
    /\ waitCounter[j] = NoCounter
    /\ pc[jobFiber[j]] = "resumed"
    /\ prevFiber[j] <= totalFibers
    /\ \A i \in Jobs : prevFiber[i] = prevFiber[j] => i = j
    /\ Returnable(prevFiber[j], jobFiber[j])

(* A waiting job is registered once, and only while its fiber is suspended. *)
Registered(j) ==
  \/ \E c \in Counters : j \in waiters[c]
  \/ \E f \in Fibers : j \in wake[f]
  \/ pendingFibers[j] > 0
Parked(j) ==
  /\ jobFiber[j] # NoFiber
  /\ pc[jobFiber[j]] = "resumed"
  /\ ~Executed(jobFiber[j])
  /\ prevFiber[j] = NoFiber
  /\ \A f \in Fibers : fiberData[f] = j => f = jobFiber[j]
RegisteredInv == \A j \in Jobs : Registered(j) => Parked(j)

PendingFiberInv ==
  \A j \in Jobs : pendingFibers[j] > 0 =>
    pendingFibers[j] = 1 /\ waitCounter[j] = NoCounter

WaitersInv == \A c \in Counters : \A j \in waiters[c] : waitCounter[j] = c

WakeInv ==
  \A f \in Fibers :
    /\ wake[f] # {} => pc[f] = "wake"
    /\ \A j \in wake[f] :
         /\ waitCounter[j] # NoCounter
         /\ \A c \in Counters : j \notin waiters[c]
         /\ \A g \in Fibers : j \in wake[g] => f = g

(* Jobs on their way to a thread.                                          *)
PendingJobInv ==
  \A j \in Jobs : /\ pendingJobs[j] <= 1
                  /\ pendingJobs[j] = 1 => phase[j] = "created"

EnqueuingInv ==
  /\ \A x \in Callers : enqueuing[x] # NoJob =>
       /\ phase[enqueuing[x]] = "created"
       /\ pendingJobs[enqueuing[x]] = 0
       /\ \A y \in Callers : enqueuing[y] = enqueuing[x] => x = y
  /\ \A f \in Fibers : pc[f] = "enqueue" <=> enqueuing[f] # NoJob

(* Once the system stops there is no job, so nobody takes a fiber from the   *)
(* unused ones, where the fibers of ending threads are.                    *)
StoppedInv ==
  /\ ~running => Idle
  /\ \A f \in Fibers : pc[f] \in {"exit", "exited"} => ~running

IInv ==
  /\ TypeOK
  /\ FiberExclusive
  /\ ExecutedInv
  /\ SuspendedInv
  /\ UncreatedInv
  /\ AttachedInv
  /\ SwitchInv
  /\ SwitchApartInv
  /\ LeaveInv
  /\ ResumeInv
  /\ UnusedInv
  /\ JobInv
  /\ OwnDataInv
  /\ DataInv
  /\ PrevInv
  /\ RegisteredInv
  /\ PendingFiberInv
  /\ WaitersInv
  /\ WakeInv
  /\ PendingJobInv
  /\ EnqueuingInv
  /\ StoppedInv

-----------------------------------------------------------------------------
(* What IInv does not say: how many jobs a counter counts, and that nothing *)
(* is lost.                                                                *)
Unfinished(c) ==
  {j \in Jobs : runCounter[j] = c /\ phase[j] \in {"created", "live"}}
CountInv ==
  \A c \in Counters :
    /\ IsFiniteSet(Unfinished(c))
    /\ counter[c] = Cardinality(Unfinished(c))

(* A counter at zero has handed its waiters out.                           *)
BlockedInv == \A c \in Counters : waiters[c] # {} => counter[c] > 0

(* A fiber that is to return from Wait left it by a switch of Wait.         *)
AfterInv == \A f \in Fibers : pc[f] = "resumed" => after[f] = "resumed"

(* A fiber that was created is somewhere; one that ended is unused.         *)
PlaceInv ==
  \A f \in Fibers :
    /\ f <= totalFibers =>
         unusedFibers[f] = 1 \/ Executed(f) \/ Targeted(f) \/ Suspended(f)
           \/ Remembered(f)
    /\ pc[f] \in {"exit", "exited"} => unusedFibers[f] = 1

RunningInv ==
  runningCount = Cardinality({t \in Threads : This(t) # NoFiber})

AccountInv ==
  CountInv /\ BlockedInv /\ AfterInv /\ PlaceInv /\ RunningInv

JobSystemInv == IInv /\ AccountInv

-----------------------------------------------------------------------------
(***************************************************************************)
(* Types                                                                   *)
(***************************************************************************)
(* TypeOK alone is not inductive: CountDown applies runCounter to the job a *)
(* fiber carries, so a fiber inside a job has to carry one.                *)
CarriesJob(f) ==
  \/ pc[f] \in {"job", "enqueue", "finish", "wake", "resumed"}
  \/ pc[f] \in {"attach", "detach", "switch"} /\ after[f] = "resumed"

CarryInv == \A f \in Fibers : CarriesJob(f) => fiberData[f] # NoJob

TypeInv == TypeOK /\ CarryInv

LEMMA ConstantFacts ==
  /\ NumThreads \in Nat \ {0} /\ MaxFibers \in Nat /\ NumThreads <= MaxFibers
  /\ Threads \subseteq Fibers
  /\ NoFiber \notin Fibers /\ NoThread \notin Threads
  /\ NoJob \notin Jobs /\ NoCounter \notin Counters
  /\ MaxWaits \in Nat
BY FiberAssumption, JobAssumption DEF Threads, Fibers, NoFiber, NoThread

(* The fiber a thread executes at any label is a fiber.                     *)
LEMMA AtFiber ==
  ASSUME TypeOK, NEW t \in Threads, NEW l, At(t, l)
  PROVE  This(t) \in Fibers /\ pc[This(t)] = l
BY DEF TypeOK, FiberTypeOK, At, This

(* What the queues hold stays a bag over the same elements.                 *)
LEMMA EnqueueType ==
  ASSUME NEW S, NEW q \in [S -> Nat], NEW x
  PROVE  Enqueue(q, x) \in [S -> Nat]
<1>1. CASE x \in S
  <2>1. q[x] + 1 \in Nat
    BY <1>1
  <2> QED
    BY <1>1, <2>1 DEF Enqueue
<1>2. CASE x \notin S
  BY <1>2 DEF Enqueue
<1> QED
  BY <1>1, <1>2

LEMMA DequeueType ==
  ASSUME NEW S, NEW q \in [S -> Nat], NEW x \in S, Holds(q, x)
  PROVE  Dequeue(q, x) \in [S -> Nat]
BY DEF Dequeue, Holds

LEMMA TypeInit == Init => TypeInv
<1> SUFFICES ASSUME Init PROVE TypeInv
  OBVIOUS
<1>1. FiberTypeOK
  BY ConstantFacts DEF Init, FiberInit, FiberTypeOK, Threads, Fibers
<1>2. CounterTypeOK
  BY DEF Init, CounterInit, CounterTypeOK
<1>3. TypeOK
  BY <1>1, <1>2, ConstantFacts DEF Init, TypeOK, Callers, Labels, Threads, Fibers
<1>4. CarryInv
  BY ConstantFacts DEF Init, CarryInv, CarriesJob
<1> QED
  BY <1>3, <1>4 DEF TypeInv

LEMMA TypeThreadStep ==
  ASSUME TypeInv, NEW t \in Threads, ThreadStep(t)
  PROVE  TypeInv'
<1> USE ConstantFacts
<1> USE DEF TypeInv, TypeOK, FiberTypeOK, CounterTypeOK, CarryInv, CarriesJob,
     Labels, Callers, At, This, Goto, vars, fiberVars, counterVars, queueVars,
     stateVars, jobVars, flowVars
<1>1. CASE Poll(t)
  BY <1>1 DEF Poll
<1>2. CASE LeaveJobMain(t)
  BY <1>2 DEF LeaveJobMain, Enqueue
<1>3. CASE TakeFiber(t)
  BY <1>3 DEF TakeFiber, Dequeue, Holds, ResumeJobFiber, BeginSwitch
<1>4. CASE TakeJob(t)
  BY <1>4 DEF TakeJob, Dequeue, Holds
<1>5. ASSUME NEW j \in Jobs, NEW c \in Counters \cup {NoCounter}, JobRun(t, j, c) PROVE TypeInv'
  BY <1>5 DEF JobRun, CreateJob, Increment
<1>6. CASE JobEnqueue(t)
  <2>1. pendingJobs' \in [Jobs -> Nat]
    BY <1>6, EnqueueType DEF JobEnqueue, EnqueueJob
  <2> QED
    BY <1>6, <2>1 DEF JobEnqueue, EnqueueJob
<1>7. CASE FinishJob(t)
  BY <1>7 DEF FinishJob
<1>8. CASE CountDown(t)
  <2>1. /\ counter' \in [Counters -> Int] /\ waiters' \in [Counters -> SUBSET Jobs]
        /\ wake' \in [Fibers -> SUBSET Jobs]
    <3>1. This(t) \in Fibers /\ runCounter[fiberData[This(t)]] \in Counters \cup {NoCounter}
      BY <1>8 DEF CountDown
    <3>2. CASE runCounter[fiberData[This(t)]] = NoCounter
      BY <1>8, <3>2 DEF CountDown
    <3>3. CASE runCounter[fiberData[This(t)]] # NoCounter
      <4> DEFINE c == runCounter[fiberData[This(t)]]
      <4>1. c \in Counters /\ Unblocked(c) \in SUBSET Jobs
        BY <3>1, <3>3 DEF Unblocked
      <4>2. /\ counter' = [counter EXCEPT ![c] = @ - 1]
            /\ waiters' = [waiters EXCEPT ![c] = @ \ Unblocked(c)]
            /\ wake' = [wake EXCEPT ![This(t)] = Unblocked(c)]
        BY <1>8, <3>3 DEF CountDown, Decrement
      <4> QED
        BY <3>1, <4>1, <4>2
    <3> QED
      BY <3>2, <3>3
  <2>2. phase' \in [Jobs -> {"new", "created", "live", "done"}]
    BY <1>8 DEF CountDown
  <2>3. /\ pc' = [pc EXCEPT ![This(t)] = "wake"] /\ pc[This(t)] = "finish"
        /\ UNCHANGED <<fiberVars, queueVars, stateVars, running, totalFibers,
                       fiberData, runCounter, waits, enqueuing, target, after>>
    BY <1>8 DEF CountDown
  <2>4. TypeOK'
    BY <2>1, <2>2, <2>3
  <2>5. CarryInv'
    BY <2>3
  <2> QED
    BY <2>4, <2>5
<1>9. CASE WakeOne(t)
  BY <1>9 DEF WakeOne, Enqueue
<1>10. CASE DeleteJob(t)
  BY <1>10 DEF DeleteJob
<1>11. ASSUME NEW c \in Counters, Wait(t, c) PROVE TypeInv'
  <2>1. This(t) \in Fibers /\ fiberData[This(t)] \in Jobs
    BY <1>11 DEF Wait
  <2>2. PICK g \in Fibers :
          /\ \/ /\ Holds(unusedFibers, g)
                /\ unusedFibers' = Dequeue(unusedFibers, g)
                /\ UNCHANGED totalFibers
             \/ /\ g = totalFibers + 1
                /\ totalFibers' = g
                /\ UNCHANGED unusedFibers
          /\ fiberData' = [fiberData EXCEPT ![g] = fiberData[This(t)]]
          /\ BeginSwitch(This(t), g, "resumed")
    BY <1>11 DEF Wait
  <2>3. unusedFibers' \in [Fibers -> Nat] /\ totalFibers' \in NumThreads .. MaxFibers
    <3>1. CASE /\ Holds(unusedFibers, g)
               /\ unusedFibers' = Dequeue(unusedFibers, g)
               /\ UNCHANGED totalFibers
      BY <3>1, DequeueType
    <3>2. CASE /\ g = totalFibers + 1
               /\ totalFibers' = g
               /\ UNCHANGED unusedFibers
      BY <3>2 DEF Fibers
    <3> QED
      BY <2>2, <3>1, <3>2
  <2>6. /\ fiberData' \in [Fibers -> Jobs \cup {NoJob}]
        /\ pc' \in [Fibers -> Labels]
        /\ target' \in [Fibers -> Fibers \cup {NoFiber}]
        /\ after' \in [Fibers -> {"complete", "resumed"}]
    BY <2>1, <2>2 DEF BeginSwitch
  <2>7. /\ waits' \in [Jobs -> 0 .. MaxWaits]
        /\ waitCounter' \in [Jobs -> Counters \cup {NoCounter}]
    BY <1>11, <2>1 DEF Wait, RegisterWait
  <2>4. TypeOK'
    BY <1>11, <2>3, <2>6, <2>7 DEF Wait, RegisterWait
  <2>5. CarryInv'
    BY <1>11, <2>1, <2>2 DEF Wait, BeginSwitch
  <2> QED
    BY <2>4, <2>5
<1>12. CASE Attach(t)
  BY SMTT(60), <1>12 DEF Attach, SwitchAttach, Switchable
<1>13. CASE Detach(t)
  BY <1>13 DEF Detach, SwitchDetach
<1>14. CASE Switch(t)
  BY <1>14 DEF Switch, SwitchContext
<1>15. CASE CompleteWait(t)
  <2> DEFINE f == This(t)
             j == fiberData[f]
             c == waitCounter[j]
  <2>1. f \in Fibers /\ j \in Jobs /\ c \in Counters
    BY <1>15 DEF CompleteWait
  <2>2. CASE AddWaiter(c, j)
    BY SMTT(60), <1>15, <2>1, <2>2 DEF CompleteWait, AddWaiter, Complete
  <2>3. CASE Complete(c)
    <3>1. /\ waitCounter' = [waitCounter EXCEPT ![j] = NoCounter]
          /\ ResumeJobFiber(f, j)
          /\ UNCHANGED counterVars
      BY <1>15, <2>3 DEF CompleteWait, AddWaiter
    <3>2. /\ target' \in [Fibers -> Fibers \cup {NoFiber}]
          /\ after' \in [Fibers -> {"complete", "resumed"}]
          /\ pc' \in [Fibers -> Labels]
          /\ prevFiber' \in [Jobs -> Fibers \cup {NoFiber}]
      BY <2>1, <3>1 DEF ResumeJobFiber, BeginSwitch
    <3>3. TypeOK'
      BY <1>15, <2>1, <3>1, <3>2 DEF CompleteWait
    <3>4. CarryInv'
      BY <1>15, <2>1, <3>1 DEF CompleteWait, ResumeJobFiber, BeginSwitch
    <3> QED
      BY <3>3, <3>4
  <2> QED
    BY <1>15, <2>2, <2>3 DEF CompleteWait
<1>16. CASE WaitReturn(t)
  BY <1>16 DEF WaitReturn, UnusedReturning, Enqueue
<1>17. CASE EndThread(t)
  BY <1>17 DEF EndThread, ExitFiber
<1> QED
  BY <1>1, <1>2, <1>3, <1>4, <1>5, <1>6, <1>7, <1>8, <1>9, <1>10, <1>11, <1>12, <1>13, <1>14, <1>15, <1>16, <1>17 DEF ThreadStep

LEMMA TypeNext == TypeInv /\ [Next]_vars => TypeInv'
<1> SUFFICES ASSUME TypeInv, [Next]_vars PROVE TypeInv'
  OBVIOUS
<1>1. CASE \E t \in Threads : ThreadStep(t)
  BY <1>1, TypeThreadStep
<1> USE ConstantFacts
<1> USE DEF TypeInv, TypeOK, FiberTypeOK, CounterTypeOK, CarryInv, CarriesJob,
     Labels, Callers, vars, fiberVars, counterVars, queueVars, stateVars,
     jobVars, flowVars
<1>2. ASSUME NEW j \in Jobs, NEW c \in Counters \cup {NoCounter}, MainRun(j, c)
      PROVE  TypeInv'
  BY <1>2 DEF MainRun, CreateJob, Increment
<1>3. CASE MainEnqueue
  BY <1>3 DEF MainEnqueue, EnqueueJob, Enqueue
<1>4. CASE Destroy
  BY <1>4 DEF Destroy
<1>5. CASE UNCHANGED vars
  BY <1>5
<1> QED
  BY <1>1, <1>2, <1>3, <1>4, <1>5 DEF Next

(* Every variable keeps its type in every behaviour: in particular no queue  *)
(* is taken from when it is empty, and every fiber inside a job carries the *)
(* state of one (JobMain and DoWait dereference it unchecked).             *)
THEOREM TypeCorrect == Spec => []TypeInv
<1> QED
  BY TypeInit, TypeNext, PTL DEF Spec

(* So every variable always has its type.                                  *)
THEOREM TypeSafety == Spec => []TypeOK
<1>1. TypeInv => TypeOK
  BY DEF TypeInv
<1> QED
  BY <1>1, TypeCorrect, PTL

(***************************************************************************)
(* Steps                                                                   *)
(***************************************************************************)
(* What the parts of the invariant say of one fiber or one job, for the     *)
(* proofs of the steps.                                                    *)
LEMMA Unused0 ==
  ASSUME TypeOK, UnusedInv, NEW f \in Fibers, unusedFibers[f] # 1
  PROVE  unusedFibers[f] = 0
<1>1. unusedFibers[f] \in Nat
  BY DEF TypeOK
<1>2. unusedFibers[f] <= 1
  BY DEF UnusedInv
<1> QED
  BY <1>1, <1>2

LEMMA UncreatedFiber ==
  ASSUME TypeOK, ExecutedInv, UncreatedInv, PrevInv, NEW f \in Fibers,
         f > totalFibers
  PROVE  /\ pc[f] = "complete" /\ fiberData[f] = NoJob /\ unusedFibers[f] = 0
         /\ ~Executed(f)
         /\ \A j \in Jobs : prevFiber[j] # f
<1>1. f \in Int /\ totalFibers \in Int /\ ~(f <= totalFibers)
  BY ConstantFacts DEF TypeOK, Fibers
<1>2. pc[f] = "complete" /\ fiberData[f] = NoJob /\ unusedFibers[f] = 0
  BY DEF UncreatedInv
<1>3. ~Executed(f)
  BY <1>1, ConstantFacts DEF Executed, ExecutedInv
<1>4. ASSUME NEW j \in Jobs PROVE prevFiber[j] # f
  BY <1>1, ConstantFacts DEF PrevInv
<1> QED
  BY <1>2, <1>3, <1>4

LEMMA UnusedFiber ==
  ASSUME TypeOK, UncreatedInv, UnusedInv, StoppedInv, running,
         NEW f \in Fibers, Holds(unusedFibers, f)
  PROVE  /\ pc[f] = "complete" /\ fiberData[f] = NoJob /\ unusedFibers[f] = 1
         /\ ~Executed(f)
         /\ f <= totalFibers
         /\ Dequeue(unusedFibers, f) = [unusedFibers EXCEPT ![f] = 0]
         /\ \A j \in Jobs : prevFiber[j] # f
<1>1. unusedFibers[f] = 1
  BY DEF TypeOK, UnusedInv, Holds
<1>2. /\ pc[f] = "complete" /\ fiberData[f] = NoJob /\ ~Executed(f)
      /\ \A j \in Jobs : prevFiber[j] # f
  BY <1>1 DEF UnusedInv, StoppedInv
<1>3. ~(f > totalFibers)
  BY <1>1 DEF UncreatedInv
<1>4. f <= totalFibers
  BY <1>3, ConstantFacts DEF TypeOK, Fibers
<1>5. Dequeue(unusedFibers, f) = [unusedFibers EXCEPT ![f] = 0]
  BY <1>1 DEF Dequeue
<1> QED
  BY <1>1, <1>2, <1>4, <1>5

(* Either way, DoWait gets a fiber that nobody refers to.                   *)
LEMMA FreeFiber ==
  ASSUME TypeOK, ExecutedInv, UncreatedInv, UnusedInv, PrevInv, StoppedInv, running,
         NEW f \in Fibers,
         \/ /\ Holds(unusedFibers, f)
            /\ unusedFibers' = Dequeue(unusedFibers, f)
            /\ UNCHANGED totalFibers
         \/ /\ f = totalFibers + 1
            /\ totalFibers' = f
            /\ UNCHANGED unusedFibers
  PROVE  /\ pc[f] = "complete" /\ fiberData[f] = NoJob /\ ~Executed(f)
         /\ \A j \in Jobs : prevFiber[j] # f
         /\ unusedFibers' = [unusedFibers EXCEPT ![f] = 0]
         /\ f <= totalFibers'
         /\ \A x \in Fibers : /\ x <= totalFibers => x <= totalFibers'
                              /\ x > totalFibers' => x > totalFibers /\ x # f
         /\ unusedFibers[f] = 1 \/ (f > totalFibers /\ totalFibers' = f)
<1>0. totalFibers \in Int /\ f \in Int /\ unusedFibers \in [Fibers -> Nat]
  BY ConstantFacts DEF TypeOK, Fibers
<1>1. CASE /\ Holds(unusedFibers, f)
           /\ unusedFibers' = Dequeue(unusedFibers, f)
           /\ UNCHANGED totalFibers
  <2>1. /\ pc[f] = "complete" /\ fiberData[f] = NoJob /\ unusedFibers[f] = 1
        /\ ~Executed(f) /\ f <= totalFibers
        /\ Dequeue(unusedFibers, f) = [unusedFibers EXCEPT ![f] = 0]
        /\ \A j \in Jobs : prevFiber[j] # f
    BY <1>1, UnusedFiber
  <2>2. f <= totalFibers'
    BY <1>1, <2>1
  <2>4. ASSUME NEW x \in Fibers
        PROVE  /\ x <= totalFibers => x <= totalFibers'
               /\ x > totalFibers' => x > totalFibers /\ x # f
    BY <1>0, <1>1, <2>1
  <2>3. unusedFibers' = [unusedFibers EXCEPT ![f] = 0]
    BY <1>1, <2>1
  <2> QED
    BY <2>1, <2>2, <2>3, <2>4
<1>2. CASE /\ f = totalFibers + 1
           /\ totalFibers' = f
           /\ UNCHANGED unusedFibers
  <2>1. f > totalFibers /\ f <= totalFibers'
    BY <1>0, <1>2
  <2>3. ASSUME NEW x \in Fibers
        PROVE  /\ x <= totalFibers => x <= totalFibers'
               /\ x > totalFibers' => x > totalFibers /\ x # f
    BY <1>0, <1>2 DEF Fibers
  <2>2. unusedFibers' = [unusedFibers EXCEPT ![f] = 0]
    BY <1>0, <1>2, <2>1, UncreatedFiber
  <2> QED
    BY <1>2, <2>1, <2>2, <2>3, UncreatedFiber
<1> QED
  BY <1>1, <1>2

LEMMA CreatedFiber ==
  ASSUME TypeOK, NEW f \in Fibers
  PROVE  f <= totalFibers <=> ~(f > totalFibers)
BY ConstantFacts DEF TypeOK, Fibers

LEMMA JobOfFiber ==
  ASSUME JobInv, NEW j \in Jobs, NEW f \in Fibers, jobFiber[j] = f
  PROVE  /\ fiberData[f] = j
         /\ phase[j] = IF pc[f] = "wake" THEN "done" ELSE "live"
         /\ InJob(f) \/ Switching(f) \/ pc[f] = "resumed"
         /\ InJob(f) => prevFiber[j] = NoFiber /\ waitCounter[j] = NoCounter
         /\ Switching(f) => after[f] = "resumed"
BY ConstantFacts DEF JobInv

LEMMA FiberOfNobody ==
  ASSUME TypeOK, JobInv, NEW f \in Fibers, fiberData[f] = NoJob
  PROVE  \A j \in Jobs : jobFiber[j] # f
BY ConstantFacts, JobOfFiber

LEMMA NotAttached ==
  ASSUME TypeOK, AttachedInv, NEW f \in Fibers, ~Executed(f),
         \A u \in Threads : InSwitch(u) => target[This(u)] # f
  PROVE  attached[f] = NoThread
<1> SUFFICES ASSUME attached[f] # NoThread PROVE FALSE
  OBVIOUS
<1>1. attached[f] \in Threads
  BY DEF TypeOK, FiberTypeOK
<1>2. AttachedTo(f, This(attached[f]))
  BY DEF AttachedInv
<1> QED
  BY <1>1, <1>2 DEF AttachedTo, Executed, InSwitch, Switching

(* A job that was never created is nowhere.                                *)
LEMMA NewJobIsNowhere ==
  ASSUME TypeOK, PendingJobInv, EnqueuingInv, NEW k \in Jobs, phase[k] = "new"
  PROVE  pendingJobs[k] = 0 /\ \A x \in Callers : enqueuing[x] # k
<1>1. pendingJobs[k] \in Nat /\ pendingJobs[k] <= 1 /\ pendingJobs[k] # 1
  BY DEF TypeOK, PendingJobInv
<1>2. \A x \in Callers : enqueuing[x] # k
  BY ConstantFacts DEF EnqueuingInv
<1> QED
  BY <1>1, <1>2

-----------------------------------------------------------------------------
(* A thread about to poll is still a thread in JobMain.                    *)
LEMMA PollKeeps ==
  ASSUME DestroyWhenIdle, IInv, TypeOK', NEW t \in Threads, Poll(t)
  PROVE  IInv'
<1> USE ConstantFacts
<1> USE DEF IInv, TypeOK, FiberTypeOK, CounterTypeOK, Labels, Callers, Main,
        At, This, Goto, vars, fiberVars, counterVars, queueVars, stateVars,
        jobVars, flowVars, Switching, InJob, InSwitch, Executed, Poll
<1>1. FiberExclusive' /\ ExecutedInv' /\ SuspendedInv' /\ UncreatedInv'
      /\ AttachedInv'
  BY SMT DEF FiberExclusive, ExecutedInv, SuspendedInv, UncreatedInv,
     AttachedInv, AttachedTo
<1>2. SwitchInv' /\ SwitchApartInv' /\ LeaveInv' /\ ResumeInv' /\ UnusedInv'
  BY SMT DEF SwitchInv, Owns, SwitchApartInv, LeaveInv, Leaves, ResumeInv,
     Resumes, UnusedInv
<1>3. JobInv' /\ OwnDataInv' /\ DataInv' /\ PrevInv' /\ RegisteredInv'
  BY SMT DEF JobInv, OwnDataInv, DataInv, Completes, PrevInv, Returnable,
     RegisteredInv, Registered, Parked
<1>4. PendingFiberInv' /\ WaitersInv' /\ WakeInv' /\ PendingJobInv'
      /\ EnqueuingInv'
  BY SMT DEF PendingFiberInv, WaitersInv, WakeInv, PendingJobInv, EnqueuingInv
<1>5. StoppedInv'
  BY SMT DEF StoppedInv, Idle
<1> QED
  BY <1>1, <1>2, <1>3, <1>4, <1>5

(* A thread that leaves JobMain hands its own, still executed, fiber to the*)
(* unused ones; the system has stopped, so nobody takes it from there.     *)
LEMMA LeaveJobMainKeeps ==
  ASSUME DestroyWhenIdle, IInv, TypeOK', NEW t \in Threads, LeaveJobMain(t)
  PROVE  IInv'
<1> USE ConstantFacts
<1> USE DEF IInv, TypeOK, FiberTypeOK, CounterTypeOK, Labels, Callers, Main,
        At, This, Goto, vars, fiberVars, counterVars, queueVars, stateVars,
        jobVars, flowVars, Switching, InJob, InSwitch, Executed, LeaveJobMain,
        Enqueue
<1>1. FiberExclusive' /\ ExecutedInv' /\ SuspendedInv' /\ UncreatedInv'
      /\ AttachedInv'
  BY SMT DEF FiberExclusive, ExecutedInv, SuspendedInv, UncreatedInv,
     AttachedInv, AttachedTo
<1>2. SwitchInv' /\ SwitchApartInv' /\ LeaveInv' /\ ResumeInv' /\ JobInv'
  BY SMT DEF SwitchInv, Owns, SwitchApartInv, LeaveInv, Leaves, ResumeInv,
     Resumes, JobInv
<1>3. OwnDataInv' /\ DataInv' /\ PrevInv' /\ RegisteredInv'
      /\ PendingFiberInv'
  BY SMT DEF OwnDataInv, DataInv, Completes, PrevInv, Returnable,
     RegisteredInv, Registered, Parked, PendingFiberInv
<1>4. WaitersInv' /\ WakeInv' /\ PendingJobInv' /\ EnqueuingInv'
      /\ StoppedInv'
  BY SMT DEF WaitersInv, WakeInv, PendingJobInv, EnqueuingInv, StoppedInv,
     Idle
<1>5. PICK f \in Fibers : f = This(t) /\ pc[f] \in {"loop", "poll"}
  BY SMT
<1>6. unusedFibers[f] = 0
  BY <1>5, SMT DEF ExecutedInv
<1>7. \A j \in Jobs : prevFiber[j] # f
  <2> SUFFICES ASSUME NEW j \in Jobs, prevFiber[j] = f PROVE FALSE
    OBVIOUS
  <2>1. Returnable(f, jobFiber[j])
    BY <1>5, SMT DEF PrevInv
  <2> QED
    BY <1>5, <2>1, SMT DEF Returnable
<1>8. \A j \in Jobs : jobFiber[j] # f
  BY <1>5, SMTT(30) DEF JobInv
<1>9. unusedFibers' = [unusedFibers EXCEPT ![f] = 1] /\ pc' = [pc EXCEPT ![f] = "exit"]
  BY <1>5, <1>6, SMT
<1>10. UnusedInv'
  <2> SUFFICES ASSUME NEW g \in Fibers
               PROVE  /\ unusedFibers'[g] <= 1
                      /\ unusedFibers'[g] = 1 =>
                           /\ \/ pc'[g] \in {"exit", "exited"}
                              \/ /\ pc'[g] = "complete" /\ ~Executed(g)'
                                 /\ fiberData'[g] = NoJob
                           /\ \A j \in Jobs : prevFiber'[j] # g /\ jobFiber'[j] # g
    BY DEF UnusedInv
  <2>1. CASE g = f
    BY <1>7, <1>8, <1>9, <2>1, SMT
  <2>2. CASE g # f
    BY <1>9, <2>2, SMT DEF UnusedInv
  <2> QED
    BY <2>1, <2>2
<1> QED
  BY <1>1, <1>2, <1>3, <1>4, <1>10

(* The state taken from pending_fibers_ belongs to a suspended fiber that  *)
(* nobody else switches to.                                                *)
LEMMA TakeFiberKeeps ==
  ASSUME DestroyWhenIdle, IInv, TypeOK', NEW t \in Threads, TakeFiber(t)
  PROVE  IInv'
<1> USE ConstantFacts
<1> USE DEF IInv, TypeOK, FiberTypeOK, CounterTypeOK, Labels, Callers, Main,
        At, This, Goto, vars, fiberVars, counterVars, queueVars, stateVars,
        jobVars, flowVars, Switching, InJob, InSwitch, Executed
<1>0. PICK f \in Fibers : f = This(t) /\ pc[f] = "poll"
  BY DEF TakeFiber
<1>1. /\ Executed(f) /\ fiberData[f] = NoJob
      /\ f <= totalFibers /\ ~exited[f] /\ attached[f] = t
  BY <1>0 DEF ExecutedInv
<1>2. PICK j \in Jobs : /\ Holds(pendingFibers, j)
                        /\ pendingFibers' = Dequeue(pendingFibers, j)
                        /\ ResumeJobFiber(f, j)
  BY <1>0 DEF TakeFiber
<1>3. pendingFibers[j] = 1 /\ waitCounter[j] = NoCounter
  BY <1>2 DEF PendingFiberInv, Holds
<1>4. Parked(j)
  BY <1>3 DEF RegisteredInv, Registered
<1>5. PICK g \in Fibers : g = jobFiber[j]
  BY <1>4 DEF Parked
<1>6. /\ pendingFibers' = [pendingFibers EXCEPT ![j] = 0]
      /\ prevFiber' = [prevFiber EXCEPT ![j] = f]
      /\ target' = [target EXCEPT ![f] = g]
      /\ after' = [after EXCEPT ![f] = "complete"]
      /\ pc' = [pc EXCEPT ![f] = "attach"]
      /\ UNCHANGED <<fiberVars, counterVars, jobVars, running, totalFibers,
                     pendingJobs, unusedFibers, fiberData, jobFiber,
                     waitCounter, wake>>
  <2>1. pendingFibers' = [pendingFibers EXCEPT ![j] = 0]
    BY <1>2, <1>3 DEF Dequeue
  <2>2. /\ prevFiber' = [prevFiber EXCEPT ![j] = f]
        /\ target' = [target EXCEPT ![f] = g]
        /\ after' = [after EXCEPT ![f] = "complete"]
        /\ pc' = [pc EXCEPT ![f] = "attach"]
    BY <1>2, <1>5 DEF ResumeJobFiber, BeginSwitch
  <2>3. UNCHANGED <<fiberVars, counterVars, jobVars, running, totalFibers,
                    pendingJobs, unusedFibers, fiberData, jobFiber,
                    waitCounter, wake>>
    BY DEF TakeFiber
  <2> QED
    BY <2>1, <2>2, <2>3
<1>7. /\ ~Executed(g) /\ pc[g] = "resumed" /\ g # f
      /\ prevFiber[j] = NoFiber /\ fiberData[g] = j
      /\ \A h \in Fibers : fiberData[h] = j => h = g
  BY <1>0, <1>4, <1>5 DEF Parked, JobInv
<1>8. ~exited[g] /\ g <= totalFibers
  <2>1. ~exited[g]
    BY <1>7 DEF SuspendedInv
  <2>2. ~(g > totalFibers)
    BY <1>7 DEF UncreatedInv
  <2> QED
    BY <2>1, <2>2 DEF Fibers
<1>9. ASSUME NEW u \in Threads, InSwitch(u) PROVE target[This(u)] # g
  <2>1. CASE after[This(u)] = "resumed"
    BY <1>7, <1>9, <2>1 DEF LeaveInv, Leaves
  <2>2. CASE after[This(u)] = "complete"
    BY <1>7, <1>9, <2>2 DEF ResumeInv, Resumes
  <2> QED
    BY <1>9, <2>1, <2>2
<1>10. attached[g] = NoThread
  BY <1>7, <1>9, NotAttached
<1>11. unusedFibers[g] = 0
  BY <1>7, Unused0 DEF UnusedInv
<1>12. ASSUME NEW i \in Jobs PROVE prevFiber[i] # f
  <2>1. prevFiber[i] = f => Returnable(f, jobFiber[i])
    BY DEF PrevInv
  <2> QED
    BY <1>0, <1>1, <2>1 DEF Returnable
<1>13. \A c \in Counters : j \notin waiters[c]
  BY <1>3 DEF WaitersInv
<1>14. \A x \in Fibers : j \notin wake[x]
  BY <1>3 DEF WakeInv
<1>15. \A i \in Jobs : Registered(i)' => Registered(i) /\ i # j
  BY <1>6, <1>13, <1>14 DEF Registered
<1>16. FiberExclusive' /\ ExecutedInv' /\ SuspendedInv' /\ UncreatedInv'
      /\ AttachedInv'
  BY <1>0, <1>1, <1>3, <1>5, <1>6, <1>7, <1>8, <1>9, <1>10, <1>11, <1>12,
     <1>15, SMT DEF FiberExclusive, ExecutedInv, SuspendedInv, UncreatedInv,
     AttachedInv, AttachedTo
<1>17. SwitchInv' /\ LeaveInv' /\ ResumeInv' /\ UnusedInv' /\ JobInv'
  <2>1. SwitchInv'
    BY <1>0, <1>1, <1>3, <1>5, <1>6, <1>7, <1>8, <1>9, <1>10, <1>11, <1>12,
       <1>15, SMT DEF SwitchInv, Owns
  <2>2. LeaveInv'
    BY <1>0, <1>1, <1>3, <1>5, <1>6, <1>7, <1>8, <1>9, <1>10, <1>11, <1>12,
       <1>15, SMT DEF LeaveInv, Leaves
  <2>3. ResumeInv'
    BY <1>0, <1>1, <1>3, <1>5, <1>6, <1>7, <1>8, <1>9, <1>10, <1>11, <1>12,
       <1>15, SMT DEF ResumeInv, Resumes
  <2>4. UnusedInv'
    BY <1>0, <1>1, <1>3, <1>5, <1>6, <1>7, <1>8, <1>9, <1>10, <1>11, <1>12,
       <1>15, SMT DEF UnusedInv
  <2>5. JobInv'
    BY <1>0, <1>1, <1>3, <1>5, <1>6, <1>7, <1>8, <1>9, <1>10, <1>11, <1>12,
       <1>15, SMT DEF JobInv
  <2> QED
    BY <2>1, <2>2, <2>3, <2>4, <2>5
<1>18. OwnDataInv' /\ DataInv' /\ PrevInv' /\ RegisteredInv'
      /\ PendingFiberInv'
  BY <1>0, <1>1, <1>3, <1>5, <1>6, <1>7, <1>8, <1>9, <1>10, <1>11, <1>12,
     <1>15, SMTT(30) DEF OwnDataInv, DataInv, Completes, PrevInv, Returnable,
     RegisteredInv, Registered, Parked, PendingFiberInv
<1>19. WaitersInv' /\ WakeInv' /\ PendingJobInv' /\ EnqueuingInv'
      /\ StoppedInv'
  BY <1>0, <1>1, <1>3, <1>5, <1>6, <1>7, <1>8, <1>9, <1>10, <1>11, <1>12,
     <1>15, SMT DEF WaitersInv, WakeInv, PendingJobInv, EnqueuingInv,
     StoppedInv, Idle
<1>20. SwitchApartInv'
  BY <1>0, <1>1, <1>3, <1>5, <1>6, <1>7, <1>8, <1>9, <1>10, <1>11, <1>12,
     <1>15, SMT DEF ExecutedInv, SwitchApartInv
<1> QED
  BY <1>16, <1>17, <1>18, <1>19, <1>20

(* A pending job starts on a fiber that no job refers to.                  *)
LEMMA TakeJobKeeps ==
  ASSUME DestroyWhenIdle, IInv, TypeOK', NEW t \in Threads, TakeJob(t)
  PROVE  IInv'
<1> USE ConstantFacts
<1> USE DEF IInv, TypeOK, FiberTypeOK, CounterTypeOK, Labels, Callers, Main,
        At, This, Goto, vars, fiberVars, counterVars, queueVars, stateVars,
        jobVars, flowVars, Switching, InJob, InSwitch, Executed, TakeJob,
        Dequeue, Holds
<1>1. FiberExclusive' /\ ExecutedInv' /\ SuspendedInv' /\ UncreatedInv'
      /\ AttachedInv'
  BY SMT DEF FiberExclusive, ExecutedInv, SuspendedInv, UncreatedInv,
     AttachedInv, AttachedTo
<1>2. SwitchInv' /\ SwitchApartInv' /\ UnusedInv' /\ PendingFiberInv'
      /\ WaitersInv'
  BY SMT DEF SwitchInv, Owns, SwitchApartInv, UnusedInv, PendingFiberInv,
     WaitersInv
<1>3. WakeInv' /\ PendingJobInv' /\ EnqueuingInv'
  BY SMT DEF WakeInv, PendingJobInv, EnqueuingInv
<1>4. LeaveInv'
  BY SMT DEF LeaveInv, Leaves, JobInv, PendingJobInv
<1>5. ResumeInv'
  BY SMT DEF ResumeInv, Resumes, JobInv, PendingJobInv
<1>6. JobInv'
  BY SMT DEF JobInv, PendingJobInv
<1>7. OwnDataInv'
  BY SMT DEF JobInv, OwnDataInv, PendingJobInv
<1>8. DataInv'
  BY SMT DEF ExecutedInv, UnusedInv, JobInv, DataInv, Completes,
     RegisteredInv, Registered, Parked, PendingJobInv
<1>9. PrevInv'
  BY SMT DEF JobInv, PrevInv, Returnable, PendingJobInv
<1>10. RegisteredInv'
  BY SMT DEF UnusedInv, JobInv, RegisteredInv, Registered, Parked,
     PendingJobInv
<1>11. StoppedInv'
  BY SMT DEF PendingJobInv, StoppedInv, Idle
<1> QED
  BY <1>1, <1>2, <1>3, <1>4, <1>5, <1>6, <1>7, <1>8, <1>9, <1>10, <1>11

(* A job callback creates a job that was nowhere before.                   *)
LEMMA JobRunKeeps ==
  ASSUME DestroyWhenIdle, IInv, TypeOK', NEW t \in Threads, NEW k \in Jobs,
         NEW d \in Counters \cup {NoCounter}, JobRun(t, k, d)
  PROVE  IInv'
<1> USE ConstantFacts
<1> USE DEF IInv, TypeOK, FiberTypeOK, CounterTypeOK, Labels, Callers, Main,
        At, This, Goto, vars, fiberVars, counterVars, queueVars, stateVars,
        jobVars, flowVars, Switching, InJob, InSwitch, Executed
<1>0. PICK f \in Fibers : f = This(t) /\ pc[f] = "job"
  BY DEF JobRun
<1>1. Executed(f) /\ enqueuing[f] = NoJob /\ f \in Callers
  BY <1>0 DEF EnqueuingInv
<1>2. /\ phase[k] = "new"
      /\ phase' = [phase EXCEPT ![k] = "created"]
      /\ enqueuing' = [enqueuing EXCEPT ![f] = k]
      /\ pc' = [pc EXCEPT ![f] = "enqueue"]
      /\ UNCHANGED <<fiberVars, waiters, stateVars, queueVars, running,
                     totalFibers, fiberData, waits, target, after, wake>>
  BY <1>0 DEF JobRun, CreateJob, Increment
<1>3. pendingJobs[k] = 0 /\ \A x \in Callers : enqueuing[x] # k
  BY <1>2, NewJobIsNowhere
<1>4. running
  <2>1. PICK j \in Jobs : jobFiber[j] = f
    BY <1>0 DEF OwnDataInv
  <2>2. phase[j] = "live"
    BY <1>0, <2>1, JobOfFiber
  <2> QED
    BY <2>2 DEF StoppedInv, Idle
<1>5. FiberExclusive' /\ ExecutedInv' /\ SuspendedInv' /\ UncreatedInv'
      /\ AttachedInv'
  BY <1>0, <1>1, <1>2, <1>3, <1>4, SMT DEF FiberExclusive, ExecutedInv,
     SuspendedInv, UncreatedInv, AttachedInv, AttachedTo
<1>6. SwitchInv' /\ SwitchApartInv' /\ LeaveInv' /\ ResumeInv' /\ UnusedInv'
  <2>1. SwitchInv' /\ SwitchApartInv' /\ LeaveInv'
    BY <1>0, <1>1, <1>2, <1>3, <1>4, SMT DEF SwitchInv, Owns,
       SwitchApartInv, LeaveInv, Leaves
  <2>2. ResumeInv' /\ UnusedInv'
    BY <1>0, <1>1, <1>2, <1>3, <1>4, SMT DEF ResumeInv, Resumes, UnusedInv
  <2> QED
    BY <2>1, <2>2
<1>7. JobInv' /\ OwnDataInv' /\ DataInv' /\ PrevInv' /\ RegisteredInv'
  <2>1. JobInv' /\ OwnDataInv' /\ DataInv'
    BY <1>0, <1>1, <1>2, <1>3, <1>4, SMT DEF JobInv, OwnDataInv, DataInv,
       Completes
  <2>2. PrevInv' /\ RegisteredInv'
    BY <1>0, <1>1, <1>2, <1>3, <1>4, SMT DEF PrevInv, Returnable,
       RegisteredInv, Registered, Parked
  <2> QED
    BY <2>1, <2>2
<1>8. PendingFiberInv' /\ WaitersInv' /\ WakeInv' /\ PendingJobInv'
      /\ EnqueuingInv'
  BY <1>0, <1>1, <1>2, <1>3, <1>4, SMT DEF PendingFiberInv, WaitersInv,
     WakeInv, PendingJobInv, EnqueuingInv
<1>9. StoppedInv'
  BY <1>0, <1>1, <1>2, <1>3, <1>4, SMT DEF StoppedInv, Idle
<1> QED
  BY <1>5, <1>6, <1>7, <1>8, <1>9

(* The job DoRun enqueues was not pending yet.                             *)
LEMMA JobEnqueueKeeps ==
  ASSUME DestroyWhenIdle, IInv, TypeOK', NEW t \in Threads, JobEnqueue(t)
  PROVE  IInv'
<1> USE ConstantFacts
<1> USE DEF IInv, TypeOK, FiberTypeOK, CounterTypeOK, Labels, Callers, Main,
        At, This, Goto, vars, fiberVars, counterVars, queueVars, stateVars,
        jobVars, flowVars, Switching, InJob, InSwitch, Executed, JobEnqueue,
        EnqueueJob, Enqueue
<1>1. FiberExclusive' /\ ExecutedInv' /\ SuspendedInv' /\ UncreatedInv'
      /\ AttachedInv'
  BY SMT DEF FiberExclusive, ExecutedInv, SuspendedInv, UncreatedInv,
     AttachedInv, AttachedTo
<1>2. SwitchInv' /\ SwitchApartInv' /\ LeaveInv' /\ ResumeInv' /\ UnusedInv'
  BY SMT DEF SwitchInv, Owns, SwitchApartInv, LeaveInv, Leaves, ResumeInv,
     Resumes, UnusedInv
<1>3. PendingFiberInv' /\ WaitersInv' /\ WakeInv' /\ EnqueuingInv'
      /\ StoppedInv'
  BY SMT DEF PendingFiberInv, WaitersInv, WakeInv, EnqueuingInv, StoppedInv,
     Idle
<1>4. JobInv'
  BY SMT DEF JobInv
<1>5. OwnDataInv'
  BY SMT DEF OwnDataInv
<1>6. DataInv'
  BY SMT DEF DataInv, Completes
<1>7. PrevInv'
  BY SMT DEF PrevInv, Returnable
<1>8. RegisteredInv'
  BY SMT DEF RegisteredInv, Registered, Parked
<1>9. PendingJobInv'
  BY SMT DEF PendingJobInv, EnqueuingInv
<1> QED
  BY <1>1, <1>2, <1>3, <1>4, <1>5, <1>6, <1>7, <1>8, <1>9

(* The end of a callback moves no fiber.                                   *)
LEMMA FinishJobKeeps ==
  ASSUME DestroyWhenIdle, IInv, TypeOK', NEW t \in Threads, FinishJob(t)
  PROVE  IInv'
<1> USE ConstantFacts
<1> USE DEF IInv, TypeOK, FiberTypeOK, CounterTypeOK, Labels, Callers, Main,
        At, This, Goto, vars, fiberVars, counterVars, queueVars, stateVars,
        jobVars, flowVars, Switching, InJob, InSwitch, Executed, FinishJob
<1>1. FiberExclusive' /\ ExecutedInv' /\ SuspendedInv' /\ UncreatedInv'
      /\ AttachedInv'
  BY SMT DEF FiberExclusive, ExecutedInv, SuspendedInv, UncreatedInv,
     AttachedInv, AttachedTo
<1>2. SwitchInv' /\ SwitchApartInv' /\ LeaveInv' /\ ResumeInv' /\ UnusedInv'
  BY SMT DEF SwitchInv, Owns, SwitchApartInv, LeaveInv, Leaves, ResumeInv,
     Resumes, UnusedInv
<1>3. JobInv' /\ OwnDataInv' /\ DataInv' /\ PrevInv' /\ RegisteredInv'
  BY SMT DEF JobInv, OwnDataInv, DataInv, Completes, PrevInv, Returnable,
     RegisteredInv, Registered, Parked
<1>4. PendingFiberInv' /\ WaitersInv' /\ WakeInv' /\ PendingJobInv'
      /\ EnqueuingInv'
  BY SMT DEF PendingFiberInv, WaitersInv, WakeInv, PendingJobInv, EnqueuingInv
<1>5. StoppedInv'
  BY SMT DEF StoppedInv, Idle
<1> QED
  BY <1>1, <1>2, <1>3, <1>4, <1>5

(* The states Decrement hands out leave the counter's waiters together.    *)
LEMMA CountDownKeeps ==
  ASSUME DestroyWhenIdle, IInv, TypeOK', NEW t \in Threads, CountDown(t)
  PROVE  IInv'
<1> USE ConstantFacts
<1> USE DEF IInv, TypeOK, FiberTypeOK, CounterTypeOK, Labels, Callers, Main,
        At, This, Goto, vars, fiberVars, counterVars, queueVars, stateVars,
        jobVars, flowVars, Switching, InJob, InSwitch, Executed
<1>0. PICK f \in Fibers : f = This(t) /\ pc[f] = "finish"
  BY DEF CountDown
<1>1. Executed(f)
  BY <1>0
<1>2. PICK j \in Jobs : j = fiberData[f] /\ jobFiber[j] = f
  BY <1>0 DEF OwnDataInv
<1>3. /\ phase' = [phase EXCEPT ![j] = "done"]
      /\ pc' = [pc EXCEPT ![f] = "wake"]
      /\ UNCHANGED <<fiberVars, queueVars, stateVars, running, totalFibers,
                     fiberData, runCounter, waits, enqueuing, target, after>>
  BY <1>0, <1>2 DEF CountDown
<1>4. PICK W \in SUBSET Jobs :
        /\ wake' = [wake EXCEPT ![f] = W]
        /\ \A c \in Counters : waiters'[c] \subseteq waiters[c]
        /\ \A i \in W : /\ \E c \in Counters : i \in waiters[c]
                        /\ \A c \in Counters : i \notin waiters'[c]
  <2>1. CASE runCounter[j] = NoCounter
    <3>1. UNCHANGED <<waiters, wake>>
      BY <1>0, <1>2, <2>1 DEF CountDown
    <3>2. wake[f] = {}
      BY <1>0 DEF WakeInv
    <3> QED
      BY <3>1, <3>2
  <2>2. CASE runCounter[j] # NoCounter
    <3>1. PICK c \in Counters : c = runCounter[j]
      BY <2>2
    <3>2. /\ waiters' = [waiters EXCEPT ![c] = @ \ Unblocked(c)]
          /\ wake' = [wake EXCEPT ![f] = Unblocked(c)]
      BY <1>0, <1>2, <2>2, <3>1 DEF CountDown, Decrement
    <3>3. Unblocked(c) \subseteq waiters[c]
      BY DEF Unblocked
    <3>4. \A i \in Unblocked(c), d \in Counters : i \in waiters[d] => d = c
      BY <3>3 DEF WaitersInv
    <3>5. \A e \in Counters : waiters'[e] \subseteq waiters[e]
      BY <3>2
    <3>6. ASSUME NEW i \in Unblocked(c), NEW e \in Counters
          PROVE  i \in waiters[c] /\ i \notin waiters'[e]
      BY <3>2, <3>3, <3>4
    <3>7. Unblocked(c) \in SUBSET Jobs
      BY <3>3
    <3>8. /\ wake' = [wake EXCEPT ![f] = Unblocked(c)]
          /\ \A e \in Counters : waiters'[e] \subseteq waiters[e]
          /\ \A i \in Unblocked(c) :
               /\ \E e \in Counters : i \in waiters[e]
               /\ \A e \in Counters : i \notin waiters'[e]
      BY <3>2, <3>5, <3>6
    <3> QED
      BY <3>7, <3>8
  <2> QED
    BY <2>1, <2>2
<1>5. \A i \in Jobs : Registered(i)' => Registered(i)
  BY <1>3, <1>4 DEF Registered
<1>6. ~Registered(j)
  BY <1>0, <1>2 DEF RegisteredInv, Parked
<1>7. FiberExclusive' /\ ExecutedInv' /\ SuspendedInv' /\ UncreatedInv'
      /\ AttachedInv'
  BY <1>0, <1>1, <1>2, <1>3, <1>4, <1>5, <1>6, SMT DEF FiberExclusive,
     ExecutedInv, SuspendedInv, UncreatedInv, AttachedInv, AttachedTo
<1>8. SwitchInv' /\ SwitchApartInv' /\ LeaveInv' /\ ResumeInv' /\ UnusedInv'
  BY <1>0, <1>1, <1>2, <1>3, <1>4, <1>5, <1>6, SMT DEF SwitchInv, Owns,
     SwitchApartInv, LeaveInv, Leaves, ResumeInv, Resumes, UnusedInv
<1>9. PendingFiberInv' /\ WaitersInv' /\ StoppedInv'
  BY <1>0, <1>1, <1>2, <1>3, <1>4, <1>5, <1>6, SMT DEF PendingFiberInv,
     WaitersInv, StoppedInv, Idle
<1>10. JobInv'
  BY <1>0, <1>1, <1>2, <1>3, <1>4, <1>5, <1>6, SMT DEF JobInv
<1>11. OwnDataInv'
  BY <1>0, <1>1, <1>2, <1>3, <1>4, <1>5, <1>6, SMT DEF OwnDataInv
<1>12. DataInv'
  BY <1>0, <1>1, <1>2, <1>3, <1>4, <1>5, <1>6, SMT DEF DataInv, Completes
<1>13. PrevInv'
  BY <1>0, <1>1, <1>2, <1>3, <1>4, <1>5, <1>6, SMT DEF PrevInv, Returnable
<1>14. RegisteredInv'
  BY <1>0, <1>1, <1>2, <1>3, <1>4, <1>5, <1>6, SMT DEF RegisteredInv,
     Registered, Parked
<1>15. WakeInv'
  BY <1>0, <1>1, <1>2, <1>3, <1>4, <1>5, <1>6, SMT DEF WaitersInv, WakeInv
<1>16. PendingJobInv'
  BY <1>0, <1>1, <1>2, <1>3, <1>4, <1>5, <1>6, SMT DEF JobInv, PendingJobInv
<1>17. EnqueuingInv'
  BY <1>0, <1>1, <1>2, <1>3, <1>4, <1>5, <1>6, SMT DEF UnusedInv, JobInv,
     EnqueuingInv
<1> QED
  BY <1>7, <1>8, <1>9, <1>10, <1>11, <1>12, <1>13, <1>14, <1>15, <1>16, <1>17

(* A woken state moves from the local list to pending_fibers_.             *)
LEMMA WakeOneKeeps ==
  ASSUME DestroyWhenIdle, IInv, TypeOK', NEW t \in Threads, WakeOne(t)
  PROVE  IInv'
<1> USE ConstantFacts
<1> USE DEF IInv, TypeOK, FiberTypeOK, CounterTypeOK, Labels, Callers, Main,
        At, This, Goto, vars, fiberVars, counterVars, queueVars, stateVars,
        jobVars, flowVars, Switching, InJob, InSwitch, Executed, WakeOne,
        Enqueue
<1>1. FiberExclusive' /\ ExecutedInv' /\ SuspendedInv' /\ UncreatedInv'
      /\ AttachedInv'
  BY SMT DEF FiberExclusive, ExecutedInv, SuspendedInv, UncreatedInv,
     AttachedInv, AttachedTo
<1>2. SwitchInv' /\ SwitchApartInv' /\ ResumeInv' /\ UnusedInv' /\ JobInv'
  BY SMT DEF SwitchInv, Owns, SwitchApartInv, ResumeInv, Resumes, UnusedInv,
     JobInv
<1>3. OwnDataInv' /\ PrevInv' /\ RegisteredInv' /\ WakeInv' /\ PendingJobInv'
  BY SMT DEF OwnDataInv, PrevInv, Returnable, RegisteredInv, Registered,
     Parked, WakeInv, PendingJobInv
<1>4. EnqueuingInv' /\ StoppedInv'
  BY SMT DEF EnqueuingInv, StoppedInv, Idle
<1>5. LeaveInv'
  BY SMT DEF LeaveInv, Leaves, RegisteredInv, Registered, Parked
<1>6. DataInv'
  BY SMT DEF DataInv, Completes, RegisteredInv, Registered, Parked
<1>7. PendingFiberInv'
  BY SMT DEF PendingFiberInv, WakeInv
<1>8. WaitersInv'
  BY SMT DEF WaitersInv, WakeInv
<1> QED
  BY <1>1, <1>2, <1>3, <1>4, <1>5, <1>6, <1>7, <1>8

(* A finished job leaves its fiber free.                                   *)
LEMMA DeleteJobKeeps ==
  ASSUME DestroyWhenIdle, IInv, TypeOK', NEW t \in Threads, DeleteJob(t)
  PROVE  IInv'
<1> USE ConstantFacts
<1> USE DEF IInv, TypeOK, FiberTypeOK, CounterTypeOK, Labels, Callers, Main,
        At, This, Goto, vars, fiberVars, counterVars, queueVars, stateVars,
        jobVars, flowVars, Switching, InJob, InSwitch, Executed, DeleteJob
<1>1. FiberExclusive' /\ ExecutedInv' /\ SuspendedInv' /\ UncreatedInv'
      /\ AttachedInv'
  BY SMT DEF FiberExclusive, ExecutedInv, SuspendedInv, UncreatedInv,
     AttachedInv, AttachedTo
<1>2. SwitchInv' /\ SwitchApartInv' /\ UnusedInv' /\ OwnDataInv' /\ DataInv'
  BY SMT DEF SwitchInv, Owns, SwitchApartInv, UnusedInv, OwnDataInv, DataInv,
     Completes
<1>3. RegisteredInv' /\ PendingFiberInv' /\ WaitersInv' /\ WakeInv'
      /\ PendingJobInv'
  BY SMT DEF RegisteredInv, Registered, Parked, PendingFiberInv, WaitersInv,
     WakeInv, PendingJobInv
<1>4. EnqueuingInv' /\ StoppedInv'
  BY SMT DEF EnqueuingInv, StoppedInv, Idle
<1>5. LeaveInv'
  BY SMT DEF LeaveInv, Leaves, DataInv, Completes
<1>6. ResumeInv'
  BY SMT DEF ResumeInv, Resumes, DataInv, Completes
<1>7. JobInv'
  BY SMT DEF JobInv, DataInv, Completes
<1>8. PrevInv'
  BY SMT DEF DataInv, Completes, PrevInv, Returnable
<1> QED
  BY <1>1, <1>2, <1>3, <1>4, <1>5, <1>6, <1>7, <1>8

(* DoWait hands the job to a fiber nobody refers to, and switches to it.   *)
LEMMA WaitKeeps ==
  ASSUME DestroyWhenIdle, IInv, TypeOK', NEW t \in Threads,
         NEW d \in Counters, Wait(t, d)
  PROVE  IInv'
<1> USE ConstantFacts
<1> USE DEF IInv, TypeOK, FiberTypeOK, CounterTypeOK, Labels, Callers, Main,
        At, This, Goto, vars, fiberVars, counterVars, queueVars, stateVars,
        jobVars, flowVars, Switching, InJob, InSwitch, Executed
<1>0. PICK f \in Fibers : f = This(t) /\ pc[f] = "job"
  BY DEF Wait
<1>1. Executed(f) /\ f <= totalFibers /\ ~exited[f] /\ attached[f] = t
  BY <1>0 DEF ExecutedInv
<1>2. PICK j \in Jobs : j = fiberData[f] /\ jobFiber[j] = f
  BY <1>0 DEF OwnDataInv
<1>3. prevFiber[j] = NoFiber /\ waitCounter[j] = NoCounter /\ phase[j] = "live"
  <2>1. InJob(f) /\ pc[f] # "wake"
    BY <1>0
  <2> QED
    BY <1>2, <2>1, JobOfFiber
<1>4. PICK g \in Fibers :
        /\ \/ /\ Holds(unusedFibers, g)
              /\ unusedFibers' = Dequeue(unusedFibers, g)
              /\ UNCHANGED totalFibers
           \/ /\ g = totalFibers + 1
              /\ totalFibers' = g
              /\ UNCHANGED unusedFibers
        /\ fiberData' = [fiberData EXCEPT ![g] = j]
        /\ BeginSwitch(f, g, "resumed")
  BY <1>0, <1>2 DEF Wait
<1>5. /\ waitCounter' = [waitCounter EXCEPT ![j] = d]
      /\ fiberData' = [fiberData EXCEPT ![g] = j]
      /\ target' = [target EXCEPT ![f] = g]
      /\ after' = [after EXCEPT ![f] = "resumed"]
      /\ pc' = [pc EXCEPT ![f] = "attach"]
      /\ UNCHANGED <<fiberVars, counterVars, running, pendingJobs, pendingFibers,
                     jobFiber, prevFiber, phase, runCounter, enqueuing, wake>>
  BY <1>0, <1>2, <1>4 DEF Wait, RegisterWait, BeginSwitch
<1>6. running
  BY <1>2, <1>3 DEF StoppedInv, Idle
<1>7. /\ pc[g] = "complete" /\ fiberData[g] = NoJob /\ ~Executed(g)
      /\ \A i \in Jobs : prevFiber[i] # g
      /\ unusedFibers' = [unusedFibers EXCEPT ![g] = 0]
      /\ unusedFibers[g] = 1 \/ g > totalFibers
  BY <1>4, <1>6, FreeFiber
<1>15. /\ g <= totalFibers'
       /\ \A x \in Fibers : x <= totalFibers => x <= totalFibers'
       /\ \A x \in Fibers : x > totalFibers' => x > totalFibers /\ x # g
  BY <1>4, <1>6, FreeFiber
<1>8. ~exited[g] /\ g # f
  BY <1>0, <1>7 DEF SuspendedInv
<1>9. \A i \in Jobs : jobFiber[i] # g
  BY <1>7, FiberOfNobody
<1>10. ASSUME NEW u \in Threads, InSwitch(u) PROVE target[This(u)] # g
  <2>1. unusedFibers[target[This(u)]] = 0 /\ target[This(u)] <= totalFibers
        /\ target[This(u)] \in Fibers
    BY <1>10 DEF SwitchInv, Owns
  <2>2. ~(target[This(u)] > totalFibers)
    BY <2>1, CreatedFiber
  <2> QED
    BY <1>7, <2>1, <2>2
<1>11. attached[g] = NoThread
  BY <1>7, <1>10, NotAttached
<1>12. \A h \in Fibers : fiberData[h] = j => h = f
  BY <1>0, <1>2, <1>3 DEF DataInv, Completes
<1>13. ~Registered(j)
  BY <1>0, <1>2 DEF RegisteredInv, Parked
<1>16. FiberExclusive' /\ ExecutedInv' /\ SuspendedInv' /\ UncreatedInv'
      /\ AttachedInv'
  <2>1. FiberExclusive' /\ ExecutedInv' /\ SuspendedInv'
    BY <1>0, <1>1, <1>2, <1>3, <1>5, <1>6, <1>7, <1>8, <1>9, <1>10, <1>11,
       <1>12, <1>13, <1>15, SMT DEF FiberExclusive, ExecutedInv,
       SuspendedInv
  <2>2. UncreatedInv' /\ AttachedInv'
    BY <1>0, <1>1, <1>2, <1>3, <1>5, <1>6, <1>7, <1>8, <1>9, <1>10, <1>11,
       <1>12, <1>13, <1>15, SMT DEF UncreatedInv, AttachedInv, AttachedTo
  <2> QED
    BY <2>1, <2>2
<1>17. SwitchInv' /\ LeaveInv' /\ ResumeInv' /\ UnusedInv' /\ JobInv'
  <2>1. SwitchInv'
    BY <1>0, <1>1, <1>2, <1>3, <1>5, <1>6, <1>7, <1>8, <1>9, <1>10, <1>11,
       <1>12, <1>13, <1>15, SMT DEF SwitchInv, Owns
  <2>2. LeaveInv'
    BY <1>0, <1>1, <1>2, <1>3, <1>5, <1>6, <1>7, <1>8, <1>9, <1>10, <1>11,
       <1>12, <1>13, <1>15, SMT DEF LeaveInv, Leaves
  <2>3. ResumeInv'
    BY <1>0, <1>1, <1>2, <1>3, <1>5, <1>6, <1>7, <1>8, <1>9, <1>10, <1>11,
       <1>12, <1>13, <1>15, SMT DEF ResumeInv, Resumes
  <2>4. UnusedInv'
    BY <1>0, <1>1, <1>2, <1>3, <1>5, <1>6, <1>7, <1>8, <1>9, <1>10, <1>11,
       <1>12, <1>13, <1>15, SMT DEF UnusedInv
  <2>5. JobInv'
    BY <1>0, <1>1, <1>2, <1>3, <1>5, <1>6, <1>7, <1>8, <1>9, <1>10, <1>11,
       <1>12, <1>13, <1>15, SMT DEF JobInv
  <2> QED
    BY <2>1, <2>2, <2>3, <2>4, <2>5
<1>18. OwnDataInv' /\ DataInv' /\ PrevInv' /\ RegisteredInv' /\ WaitersInv'
  <2>1. OwnDataInv'
    BY <1>0, <1>1, <1>2, <1>3, <1>5, <1>6, <1>7, <1>8, <1>9, <1>10, <1>11,
       <1>12, <1>13, <1>15, SMT DEF OwnDataInv
  <2>2. DataInv'
    BY <1>0, <1>1, <1>2, <1>3, <1>5, <1>6, <1>7, <1>8, <1>9, <1>10, <1>11,
       <1>12, <1>13, <1>15, SMT DEF DataInv, Completes
  <2>3. PrevInv'
    BY <1>0, <1>1, <1>2, <1>3, <1>5, <1>6, <1>7, <1>8, <1>9, <1>10, <1>11,
       <1>12, <1>13, <1>15, SMT DEF PrevInv, Returnable
  <2>4. RegisteredInv'
    BY <1>0, <1>1, <1>2, <1>3, <1>5, <1>6, <1>7, <1>8, <1>9, <1>10, <1>11,
       <1>12, <1>13, <1>15, SMT DEF RegisteredInv, Registered, Parked
  <2>5. WaitersInv'
    BY <1>0, <1>1, <1>2, <1>3, <1>5, <1>6, <1>7, <1>8, <1>9, <1>10, <1>11,
       <1>12, <1>13, <1>15, SMT DEF WaitersInv
  <2> QED
    BY <2>1, <2>2, <2>3, <2>4, <2>5
<1>19. WakeInv' /\ PendingJobInv' /\ EnqueuingInv' /\ StoppedInv'
  BY <1>0, <1>1, <1>2, <1>3, <1>5, <1>6, <1>7, <1>8, <1>9, <1>10, <1>11,
     <1>12, <1>13, <1>15, SMT DEF WakeInv, PendingJobInv, EnqueuingInv,
     StoppedInv, Idle
<1>20. SwitchApartInv'
  BY <1>0, <1>1, <1>2, <1>3, <1>5, <1>6, <1>7, <1>8, <1>9, <1>10, <1>11,
     <1>12, <1>13, <1>15, SMT DEF ExecutedInv, SwitchApartInv
<1>21. PendingFiberInv'
  BY <1>0, <1>1, <1>2, <1>3, <1>5, <1>6, <1>7, <1>8, <1>9, <1>10, <1>11,
     <1>12, <1>13, <1>15, SMT DEF RegisteredInv, Registered, Parked,
     PendingFiberInv
<1> QED
  BY <1>16, <1>17, <1>18, <1>19, <1>20, <1>21

(* A switch claims its target, which was not attached.                     *)
LEMMA AttachKeeps ==
  ASSUME DestroyWhenIdle, IInv, TypeOK', NEW t \in Threads, Attach(t)
  PROVE  IInv'
<1> USE ConstantFacts
<1> USE DEF IInv, TypeOK, FiberTypeOK, CounterTypeOK, Labels, Callers, Main,
        At, This, Goto, vars, fiberVars, counterVars, queueVars, stateVars,
        jobVars, flowVars, Switching, InJob, InSwitch, Executed
<1>0. PICK f \in Fibers : f = This(t) /\ pc[f] = "attach"
  BY DEF Attach
<1>1. InSwitch(t) /\ Executed(f)
  BY <1>0
<1>2. PICK g \in Fibers : g = target[f]
  BY <1>0, <1>1 DEF SwitchInv, Owns
<1>3. Owns(t, g)
  BY <1>0, <1>1, <1>2 DEF SwitchInv
<1>4. /\ g \in Fibers /\ ~Executed(g) /\ ~exited[g] /\ unusedFibers[g] = 0
      /\ attached[g] = NoThread /\ g # f
  BY <1>0, <1>1, <1>3 DEF Owns
<1>5. /\ attached' = [attached EXCEPT ![g] = t]
      /\ pc' = [pc EXCEPT ![f] = "detach"]
      /\ UNCHANGED <<current, exited, runningCount, counterVars, queueVars,
                     stateVars, jobVars, running, totalFibers, fiberData,
                     target, after, wake>>
  BY <1>0, <1>2, <1>4 DEF Attach, SwitchAttach, Switchable
<1>6. FiberExclusive' /\ ExecutedInv' /\ SuspendedInv' /\ UncreatedInv'
      /\ AttachedInv'
  BY <1>0, <1>1, <1>2, <1>4, <1>5, SMT DEF FiberExclusive, ExecutedInv,
     SuspendedInv, UncreatedInv, AttachedInv, AttachedTo
<1>7. SwitchApartInv' /\ LeaveInv' /\ ResumeInv' /\ UnusedInv' /\ JobInv'
  BY <1>0, <1>1, <1>2, <1>4, <1>5, SMT DEF SwitchApartInv, LeaveInv, Leaves,
     ResumeInv, Resumes, UnusedInv, JobInv
<1>8. OwnDataInv' /\ DataInv' /\ RegisteredInv' /\ PendingFiberInv'
      /\ WaitersInv'
  BY <1>0, <1>1, <1>2, <1>4, <1>5, SMT DEF OwnDataInv, DataInv, Completes,
     RegisteredInv, Registered, Parked, PendingFiberInv, WaitersInv
<1>9. WakeInv' /\ PendingJobInv' /\ EnqueuingInv' /\ StoppedInv'
  BY <1>0, <1>1, <1>2, <1>4, <1>5, SMT DEF WakeInv, PendingJobInv,
     EnqueuingInv, StoppedInv, Idle
<1>10. SwitchInv'
  BY <1>0, <1>1, <1>2, <1>4, <1>5, SMT DEF SwitchInv, Owns, SwitchApartInv
<1>11. PrevInv'
  BY <1>0, <1>1, <1>2, <1>4, <1>5, SMT DEF LeaveInv, Leaves, ResumeInv,
     Resumes, PrevInv, Returnable
<1> QED
  BY <1>6, <1>7, <1>8, <1>9, <1>10, <1>11

(* The fiber being left is detached, but still reachable by nobody.        *)
LEMMA DetachKeeps ==
  ASSUME DestroyWhenIdle, IInv, TypeOK', NEW t \in Threads, Detach(t)
  PROVE  IInv'
<1> USE ConstantFacts
<1> USE DEF IInv, TypeOK, FiberTypeOK, CounterTypeOK, Labels, Callers, Main,
        At, This, Goto, vars, fiberVars, counterVars, queueVars, stateVars,
        jobVars, flowVars, Switching, InJob, InSwitch, Executed
<1>0. PICK f \in Fibers : f = This(t) /\ pc[f] = "detach"
  BY DEF Detach
<1>1. InSwitch(t) /\ Executed(f)
  BY <1>0
<1>2. PICK g \in Fibers : g = target[f]
  BY <1>0, <1>1 DEF SwitchInv, Owns
<1>3. Owns(t, g)
  BY <1>0, <1>1, <1>2 DEF SwitchInv
<1>4. /\ g \in Fibers /\ ~Executed(g) /\ ~exited[g] /\ unusedFibers[g] = 0
      /\ attached[g] = t /\ g # f
  BY <1>0, <1>1, <1>3 DEF Owns
<1>5. /\ attached' = [attached EXCEPT ![f] = NoThread]
      /\ pc' = [pc EXCEPT ![f] = "switch"]
      /\ UNCHANGED <<current, exited, runningCount, counterVars, queueVars,
                     stateVars, jobVars, running, totalFibers, fiberData,
                     target, after, wake>>
  BY <1>0, <1>2, <1>4 DEF Detach, SwitchDetach
<1>6. FiberExclusive' /\ ExecutedInv' /\ SuspendedInv' /\ UncreatedInv'
      /\ AttachedInv'
  BY <1>0, <1>1, <1>2, <1>4, <1>5, SMT DEF FiberExclusive, ExecutedInv,
     SuspendedInv, UncreatedInv, AttachedInv, AttachedTo
<1>7. SwitchInv' /\ SwitchApartInv' /\ LeaveInv' /\ ResumeInv' /\ UnusedInv'
  <2>1. SwitchInv' /\ SwitchApartInv' /\ LeaveInv'
    BY <1>0, <1>1, <1>2, <1>4, <1>5, SMT DEF SwitchInv, Owns,
       SwitchApartInv, LeaveInv, Leaves
  <2>2. ResumeInv' /\ UnusedInv'
    BY <1>0, <1>1, <1>2, <1>4, <1>5, SMT DEF ResumeInv, Resumes, UnusedInv
  <2> QED
    BY <2>1, <2>2
<1>8. JobInv' /\ OwnDataInv' /\ DataInv' /\ PrevInv' /\ RegisteredInv'
  BY <1>0, <1>1, <1>2, <1>4, <1>5, SMT DEF JobInv, OwnDataInv, DataInv,
     Completes, PrevInv, Returnable, RegisteredInv, Registered, Parked
<1>9. PendingFiberInv' /\ WaitersInv' /\ WakeInv' /\ PendingJobInv'
      /\ EnqueuingInv'
  BY <1>0, <1>1, <1>2, <1>4, <1>5, SMT DEF PendingFiberInv, WaitersInv,
     WakeInv, PendingJobInv, EnqueuingInv
<1>10. StoppedInv'
  BY <1>0, <1>1, <1>2, <1>4, <1>5, SMT DEF StoppedInv, Idle
<1> QED
  BY <1>6, <1>7, <1>8, <1>9, <1>10

(* The switch: the fiber left becomes suspended, its target executed.      *)
LEMMA SwitchKeeps ==
  ASSUME DestroyWhenIdle, IInv, TypeOK', NEW t \in Threads, Switch(t)
  PROVE  IInv'
<1> USE ConstantFacts
<1> USE DEF IInv, TypeOK, FiberTypeOK, CounterTypeOK, Labels, Callers, Main,
        At, This, Goto, vars, fiberVars, counterVars, queueVars, stateVars,
        jobVars, flowVars, Switching, InJob, InSwitch, Executed
<1>0. PICK f \in Fibers : f = This(t) /\ pc[f] = "switch"
  BY DEF Switch
<1>1. InSwitch(t) /\ Executed(f)
  BY <1>0
<1>2. PICK g \in Fibers : g = target[f]
  BY <1>0, <1>1 DEF SwitchInv, Owns
<1>3. Owns(t, g)
  BY <1>0, <1>1, <1>2 DEF SwitchInv
<1>4. /\ g \in Fibers /\ ~Executed(g) /\ ~exited[g] /\ unusedFibers[g] = 0
      /\ attached[g] = t /\ g # f
  BY <1>0, <1>1, <1>3 DEF Owns
<1>5. /\ current' = [current EXCEPT ![t] = g]
      /\ pc' = [pc EXCEPT ![f] = after[f]]
      /\ UNCHANGED <<attached, exited, runningCount, counterVars, queueVars,
                     stateVars, jobVars, running, totalFibers, fiberData,
                     target, after, wake>>
  BY <1>0, <1>2, <1>4 DEF Switch, SwitchContext
<1>6. \A x \in Fibers : Executed(x)' <=> (x = g \/ (Executed(x) /\ x # f))
  <2>1. \A u \in Threads : This(u)' = IF u = t THEN g ELSE This(u)
    BY <1>5
  <2>2. \A u \in Threads : u # t => This(u) # f
    BY <1>0 DEF FiberExclusive
  <2> QED
    BY <1>0, <1>4, <2>1, <2>2
<1>7. /\ after[f] \in {"complete", "resumed"}
      /\ after[f] = "resumed" => Leaves(f, g)
      /\ after[f] = "complete" => Resumes(f, g)
  BY <1>0, <1>1, <1>2 DEF LeaveInv, ResumeInv
<1>8. pc[g] \in {"complete", "resumed"} /\ pc'[g] = pc[g]
  BY <1>0, <1>4, <1>5, <1>7 DEF Leaves, Resumes
<1>9. FiberExclusive' /\ UncreatedInv' /\ SwitchInv' /\ SwitchApartInv'
      /\ LeaveInv'
  <2>1. FiberExclusive'
    BY <1>0, <1>1, <1>2, <1>4, <1>5, <1>6, <1>7, <1>8, SMT DEF
       FiberExclusive
  <2>2. UncreatedInv'
    BY <1>0, <1>1, <1>2, <1>4, <1>5, <1>6, <1>7, <1>8, SMT DEF UncreatedInv
  <2>3. SwitchInv'
    BY <1>0, <1>1, <1>2, <1>4, <1>5, <1>6, <1>7, <1>8, SMT DEF SwitchInv,
       Owns
  <2>4. SwitchApartInv'
    BY <1>0, <1>1, <1>2, <1>4, <1>5, <1>6, <1>7, <1>8, SMT DEF
       SwitchApartInv
  <2>5. LeaveInv'
    BY <1>0, <1>1, <1>2, <1>4, <1>5, <1>6, <1>7, <1>8, SMT DEF LeaveInv,
       Leaves
  <2> QED
    BY <2>1, <2>2, <2>3, <2>4, <2>5
<1>10. UnusedInv' /\ JobInv' /\ PendingFiberInv' /\ WaitersInv' /\ WakeInv'
  BY <1>0, <1>1, <1>2, <1>4, <1>5, <1>6, <1>7, <1>8, SMT DEF UnusedInv,
     JobInv, PendingFiberInv, WaitersInv, WakeInv
<1>11. PendingJobInv' /\ EnqueuingInv' /\ StoppedInv'
  BY <1>0, <1>1, <1>2, <1>4, <1>5, <1>6, <1>7, <1>8, SMT DEF PendingJobInv,
     EnqueuingInv, StoppedInv, Idle
<1>12. ExecutedInv'
  BY <1>0, <1>1, <1>2, <1>4, <1>5, <1>6, <1>7, <1>8, SMT DEF ExecutedInv,
     SwitchInv, Owns, LeaveInv, Leaves, ResumeInv, Resumes
<1>13. SuspendedInv'
  BY <1>0, <1>1, <1>2, <1>4, <1>5, <1>6, <1>7, <1>8, SMT DEF ExecutedInv,
     SuspendedInv
<1>14. AttachedInv'
  BY <1>0, <1>1, <1>2, <1>4, <1>5, <1>6, <1>7, <1>8, SMT DEF ExecutedInv,
     AttachedInv, AttachedTo
<1>15. ResumeInv'
  <2> SUFFICES ASSUME NEW u \in Threads, InSwitch(u)', after[current'[u]] = "complete"
               PROVE  Resumes(This(u), target[This(u)])'
    BY <1>5 DEF ResumeInv
  <2>1. u # t
    BY <1>5, <1>8
  <2>2. PICK x \in Fibers : x = current[u] /\ x # f /\ current'[u] = x
    BY <1>0, <1>5, <2>1 DEF FiberExclusive
  <2>3. InSwitch(u) /\ after[x] = "complete"
    BY <1>5, <2>2
  <2>4. PICK h \in Fibers : h = target[x] /\ h # f
    BY <1>1, <2>2, <2>3 DEF SwitchInv, Owns
  <2>5. Resumes(x, h)
    BY <2>2, <2>3, <2>4 DEF ResumeInv
  <2>6. Resumes(x, h)'
    BY <1>5, <2>4, <2>5 DEF Resumes
  <2> QED
    BY <1>5, <2>2, <2>4, <2>6
<1>16. OwnDataInv'
  BY <1>0, <1>1, <1>2, <1>4, <1>5, <1>6, <1>7, <1>8, SMT DEF LeaveInv, Leaves,
     OwnDataInv
<1>17. DataInv'
  BY <1>0, <1>1, <1>2, <1>4, <1>5, <1>6, <1>7, <1>8, SMT DEF LeaveInv, Leaves,
     ResumeInv, Resumes, JobInv, DataInv, Completes
<1>18. PrevInv'
  BY <1>0, <1>1, <1>2, <1>4, <1>5, <1>6, <1>7, <1>8, SMT DEF ExecutedInv,
     LeaveInv, Leaves, ResumeInv, Resumes, PrevInv, Returnable
<1>19. RegisteredInv'
  BY <1>0, <1>1, <1>2, <1>4, <1>5, <1>6, <1>7, <1>8, SMT DEF LeaveInv, Leaves,
     ResumeInv, Resumes, JobInv, RegisteredInv, Registered, Parked
<1> QED
  BY <1>9, <1>10, <1>11, <1>12, <1>13, <1>14, <1>15, <1>16, <1>17, <1>18,
     <1>19

(* CompleteWait registers a waiter whose fiber is suspended by now.        *)
LEMMA CompleteWaitRegisterKeeps ==
  ASSUME DestroyWhenIdle, IInv, TypeOK', NEW t \in Threads, CompleteWait(t),
         AddWaiter(waitCounter[fiberData[This(t)]], fiberData[This(t)])
  PROVE  IInv'
<1> USE ConstantFacts
<1> USE DEF IInv, TypeOK, FiberTypeOK, CounterTypeOK, Labels, Callers, Main,
        At, This, Goto, vars, fiberVars, counterVars, queueVars, stateVars,
        jobVars, flowVars, Switching, InJob, InSwitch, Executed
<1>0. PICK f \in Fibers : f = This(t) /\ pc[f] = "complete"
  BY DEF CompleteWait
<1>1. PICK j \in Jobs : j = fiberData[f]
  BY <1>0 DEF CompleteWait
<1>2. PICK c \in Counters : c = waitCounter[j]
  BY <1>0, <1>1 DEF CompleteWait
<1>3. PICK r \in Fibers : r = jobFiber[j]
  BY <1>1 DEF DataInv
<1>4. /\ r # f /\ pc[r] = "resumed" /\ ~Executed(r) /\ Executed(f)
      /\ fiberData[r] = j /\ phase[j] = "live" /\ prevFiber[j] = NoFiber
      /\ \A h \in Fibers : fiberData[h] = j => h \in {f, r}
  <2>1. Executed(f) /\ fiberData[f] # NoJob
    BY <1>0, <1>1
  <2>2. r # f
    BY <1>0, <1>1, <1>3, JobOfFiber
  <2>3. Completes(f, j)
    BY <1>1, <1>3, <2>2 DEF DataInv
  <2>5. ASSUME NEW u \in Threads, This(u) = r, Switching(r) PROVE target[r] # f
    BY <2>1, <2>5 DEF SwitchInv, Owns
  <2>4. pc[r] = "resumed" /\ ~Executed(r)
    BY <1>0, <1>3, <2>1, <2>3, <2>5 DEF Completes
  <2> QED
    BY <1>0, <1>1, <1>3, <2>1, <2>2, <2>3, <2>4, JobOfFiber DEF Completes
<1>5. /\ attached[f] = t /\ ~exited[f] /\ f <= totalFibers
  BY <1>0 DEF ExecutedInv
<1>6. ~Registered(j)
  <2>1. ~Parked(j)
    BY <1>1, <1>3, <1>4 DEF Parked
  <2> QED
    BY <2>1 DEF RegisteredInv
<1>7. /\ waiters' = [waiters EXCEPT ![c] = @ \cup {j}]
      /\ fiberData' = [fiberData EXCEPT ![f] = NoJob]
      /\ pc' = [pc EXCEPT ![f] = "loop"]
      /\ UNCHANGED <<fiberVars, counter, queueVars, stateVars, jobVars, running,
                     totalFibers, target, after, wake>>
  <2>1. counter[c] # 0
    BY <1>0, <1>1, <1>2 DEF AddWaiter, Complete
  <2> QED
    BY <1>0, <1>1, <1>2, <2>1 DEF CompleteWait, AddWaiter, Complete
<1>8. \A i \in Jobs : Registered(i)' => i = j \/ Registered(i)
  BY <1>7 DEF Registered
<1>9. /\ \A x \in Fibers : j \notin wake[x]
      /\ pendingFibers[j] = 0
  BY <1>6 DEF Registered
<1>10. FiberExclusive' /\ ExecutedInv' /\ SuspendedInv' /\ UncreatedInv'
      /\ AttachedInv'
  <2>1. FiberExclusive' /\ ExecutedInv' /\ SuspendedInv'
    BY <1>0, <1>1, <1>2, <1>3, <1>4, <1>5, <1>6, <1>7, <1>8, <1>9, SMT DEF
       FiberExclusive, ExecutedInv, SuspendedInv
  <2>2. UncreatedInv' /\ AttachedInv'
    BY <1>0, <1>1, <1>2, <1>3, <1>4, <1>5, <1>6, <1>7, <1>8, <1>9, SMT DEF
       UncreatedInv, AttachedInv, AttachedTo
  <2> QED
    BY <2>1, <2>2
<1>11. SwitchInv' /\ SwitchApartInv' /\ LeaveInv' /\ ResumeInv' /\ UnusedInv'
  <2>1. SwitchInv'
    BY <1>0, <1>1, <1>2, <1>3, <1>4, <1>5, <1>6, <1>7, <1>8, <1>9, SMT DEF
       SwitchInv, Owns
  <2>2. SwitchApartInv'
    BY <1>0, <1>1, <1>2, <1>3, <1>4, <1>5, <1>6, <1>7, <1>8, <1>9, SMT DEF
       SwitchApartInv
  <2>3. LeaveInv'
    BY <1>0, <1>1, <1>2, <1>3, <1>4, <1>5, <1>6, <1>7, <1>8, <1>9, SMT DEF
       LeaveInv, Leaves
  <2>4. ResumeInv'
    BY <1>0, <1>1, <1>2, <1>3, <1>4, <1>5, <1>6, <1>7, <1>8, <1>9, SMT DEF
       ResumeInv, Resumes
  <2>5. UnusedInv'
    BY <1>0, <1>1, <1>2, <1>3, <1>4, <1>5, <1>6, <1>7, <1>8, <1>9, SMT DEF
       UnusedInv
  <2> QED
    BY <2>1, <2>2, <2>3, <2>4, <2>5
<1>12. PendingFiberInv' /\ WaitersInv' /\ WakeInv' /\ PendingJobInv'
      /\ EnqueuingInv'
  <2>1. PendingFiberInv' /\ WaitersInv' /\ WakeInv'
    BY <1>0, <1>1, <1>2, <1>3, <1>4, <1>5, <1>6, <1>7, <1>8, <1>9, SMT DEF
       PendingFiberInv, WaitersInv, WakeInv
  <2>2. PendingJobInv' /\ EnqueuingInv'
    BY <1>0, <1>1, <1>2, <1>3, <1>4, <1>5, <1>6, <1>7, <1>8, <1>9, SMT DEF
       PendingJobInv, EnqueuingInv
  <2> QED
    BY <2>1, <2>2
<1>13. StoppedInv'
  BY <1>0, <1>1, <1>2, <1>3, <1>4, <1>5, <1>6, <1>7, <1>8, <1>9,
     SMT DEF StoppedInv, Idle
<1>14. JobInv'
  BY <1>0, <1>1, <1>2, <1>3, <1>4, <1>5, <1>6, <1>7, <1>8, <1>9,
     SMT DEF JobInv
<1>15. OwnDataInv'
  BY <1>0, <1>1, <1>2, <1>3, <1>4, <1>5, <1>6, <1>7, <1>8, <1>9,
     SMT DEF OwnDataInv
<1>16. DataInv'
  BY <1>0, <1>1, <1>2, <1>3, <1>4, <1>5, <1>6, <1>7, <1>8, <1>9,
     SMT DEF DataInv, Completes
<1>17. PrevInv'
  BY <1>0, <1>1, <1>2, <1>3, <1>4, <1>5, <1>6, <1>7, <1>8, <1>9,
     SMT DEF PrevInv, Returnable
<1>18. RegisteredInv'
  BY <1>0, <1>1, <1>2, <1>3, <1>4, <1>5, <1>6, <1>7, <1>8, <1>9,
     SMT DEF RegisteredInv, Registered, Parked
<1> QED
  BY <1>10, <1>11, <1>12, <1>13, <1>14, <1>15, <1>16, <1>17, <1>18

(* CompleteWait switches back at once when the counter is at zero.         *)
LEMMA CompleteWaitReturnKeeps ==
  ASSUME DestroyWhenIdle, IInv, TypeOK', NEW t \in Threads, CompleteWait(t),
         Complete(waitCounter[fiberData[This(t)]])
  PROVE  IInv'
<1> USE ConstantFacts
<1> USE DEF IInv, TypeOK, FiberTypeOK, CounterTypeOK, Labels, Callers, Main,
        At, This, Goto, vars, fiberVars, counterVars, queueVars, stateVars,
        jobVars, flowVars, Switching, InJob, InSwitch, Executed
<1>0. PICK f \in Fibers : f = This(t) /\ pc[f] = "complete"
  BY DEF CompleteWait
<1>1. PICK j \in Jobs : j = fiberData[f]
  BY <1>0 DEF CompleteWait
<1>2. PICK c \in Counters : c = waitCounter[j]
  BY <1>0, <1>1 DEF CompleteWait
<1>3. PICK r \in Fibers : r = jobFiber[j]
  BY <1>1 DEF DataInv
<1>4. /\ r # f /\ pc[r] = "resumed" /\ ~Executed(r) /\ Executed(f)
      /\ fiberData[r] = j /\ phase[j] = "live" /\ prevFiber[j] = NoFiber
      /\ \A h \in Fibers : fiberData[h] = j => h \in {f, r}
  <2>1. Executed(f) /\ fiberData[f] # NoJob
    BY <1>0, <1>1
  <2>2. r # f
    BY <1>0, <1>1, <1>3, JobOfFiber
  <2>3. Completes(f, j)
    BY <1>1, <1>3, <2>2 DEF DataInv
  <2>5. ASSUME NEW u \in Threads, This(u) = r, Switching(r) PROVE target[r] # f
    BY <2>1, <2>5 DEF SwitchInv, Owns
  <2>4. pc[r] = "resumed" /\ ~Executed(r)
    BY <1>0, <1>3, <2>1, <2>3, <2>5 DEF Completes
  <2> QED
    BY <1>0, <1>1, <1>3, <2>1, <2>2, <2>3, <2>4, JobOfFiber DEF Completes
<1>5. /\ attached[f] = t /\ ~exited[f] /\ f <= totalFibers
  BY <1>0 DEF ExecutedInv
<1>6. ~Registered(j)
  <2>1. ~Parked(j)
    BY <1>1, <1>3, <1>4 DEF Parked
  <2> QED
    BY <2>1 DEF RegisteredInv
<1>7. /\ waitCounter' = [waitCounter EXCEPT ![j] = NoCounter]
      /\ prevFiber' = [prevFiber EXCEPT ![j] = f]
      /\ fiberData' = [fiberData EXCEPT ![f] = NoJob]
      /\ target' = [target EXCEPT ![f] = r]
      /\ after' = [after EXCEPT ![f] = "complete"]
      /\ pc' = [pc EXCEPT ![f] = "attach"]
      /\ UNCHANGED <<fiberVars, counterVars, queueVars, jobVars, running,
                     totalFibers, jobFiber, wake>>
  BY <1>0, <1>1, <1>2, <1>3
     DEF CompleteWait, AddWaiter, Complete, ResumeJobFiber, BeginSwitch
<1>8. \A i \in Jobs : Registered(i)' => i # j /\ Registered(i)
  BY <1>6, <1>7 DEF Registered
<1>9. /\ \A e \in Counters : j \notin waiters[e]
      /\ \A x \in Fibers : j \notin wake[x]
      /\ pendingFibers[j] = 0
  BY <1>6 DEF Registered
<1>10. ~exited[r] /\ r <= totalFibers
  <2>1. ~(r > totalFibers)
    BY <1>4 DEF UncreatedInv
  <2> QED
    BY <1>4, <2>1, CreatedFiber DEF SuspendedInv
<1>11. ASSUME NEW u \in Threads, InSwitch(u) PROVE target[This(u)] # r
  <2>1. CASE after[This(u)] = "resumed"
    BY <1>4, <1>11, <2>1 DEF LeaveInv, Leaves
  <2>2. CASE after[This(u)] = "complete"
    BY <1>4, <1>11, <2>2 DEF ResumeInv, Resumes
  <2> QED
    BY <1>11, <2>1, <2>2
<1>12. attached[r] = NoThread
  BY <1>4, <1>11, NotAttached
<1>13. unusedFibers[r] = 0 /\ unusedFibers[f] = 0
  BY <1>0, <1>1, <1>4, Unused0 DEF UnusedInv
<1>14. \A i \in Jobs : prevFiber[i] # f
  <2>1. \A i \in Jobs : prevFiber[i] = f => Returnable(f, jobFiber[i])
    BY DEF PrevInv
  <2> QED
    BY <1>0, <1>1, <1>4, <2>1 DEF Returnable
<1>15. \A i \in Jobs : jobFiber[i] # f
  BY <1>1, <1>3, <1>4, JobOfFiber
<1>16. \A u \in Threads : InSwitch(u) => target[This(u)] # f
  BY <1>4 DEF SwitchInv, Owns
<1>17. FiberExclusive' /\ ExecutedInv' /\ SuspendedInv' /\ UncreatedInv'
      /\ AttachedInv'
  <2>1. FiberExclusive' /\ ExecutedInv' /\ SuspendedInv'
    BY <1>0, <1>1, <1>2, <1>3, <1>4, <1>5, <1>6, <1>7, <1>8, <1>9, <1>10,
       <1>11, <1>12, <1>13, <1>14, <1>15, <1>16, SMT DEF FiberExclusive,
       ExecutedInv, SuspendedInv
  <2>2. UncreatedInv' /\ AttachedInv'
    BY <1>0, <1>1, <1>2, <1>3, <1>4, <1>5, <1>6, <1>7, <1>8, <1>9, <1>10,
       <1>11, <1>12, <1>13, <1>14, <1>15, <1>16, SMT DEF UncreatedInv,
       AttachedInv, AttachedTo
  <2> QED
    BY <2>1, <2>2
<1>18. SwitchInv' /\ LeaveInv' /\ UnusedInv' /\ JobInv' /\ OwnDataInv'
  <2>1. SwitchInv'
    BY <1>0, <1>1, <1>2, <1>3, <1>4, <1>5, <1>6, <1>7, <1>8, <1>9, <1>10,
       <1>11, <1>12, <1>13, <1>14, <1>15, <1>16, SMT DEF SwitchInv, Owns
  <2>2. LeaveInv'
    BY <1>0, <1>1, <1>2, <1>3, <1>4, <1>5, <1>6, <1>7, <1>8, <1>9, <1>10,
       <1>11, <1>12, <1>13, <1>14, <1>15, <1>16, SMT DEF LeaveInv, Leaves
  <2>3. UnusedInv'
    BY <1>0, <1>1, <1>2, <1>3, <1>4, <1>5, <1>6, <1>7, <1>8, <1>9, <1>10,
       <1>11, <1>12, <1>13, <1>14, <1>15, <1>16, SMT DEF UnusedInv
  <2>4. JobInv'
    BY <1>0, <1>1, <1>2, <1>3, <1>4, <1>5, <1>6, <1>7, <1>8, <1>9, <1>10,
       <1>11, <1>12, <1>13, <1>14, <1>15, <1>16, SMT DEF JobInv
  <2>5. OwnDataInv'
    BY <1>0, <1>1, <1>2, <1>3, <1>4, <1>5, <1>6, <1>7, <1>8, <1>9, <1>10,
       <1>11, <1>12, <1>13, <1>14, <1>15, <1>16, SMT DEF OwnDataInv
  <2> QED
    BY <2>1, <2>2, <2>3, <2>4, <2>5
<1>19. WakeInv' /\ PendingJobInv' /\ EnqueuingInv' /\ StoppedInv'
  BY <1>0, <1>1, <1>2, <1>3, <1>4, <1>5, <1>6, <1>7, <1>8, <1>9, <1>10, <1>11,
     <1>12, <1>13, <1>14, <1>15, <1>16, SMT DEF WakeInv, PendingJobInv,
     EnqueuingInv, StoppedInv, Idle
<1>20. DataInv'
  BY <1>0, <1>1, <1>2, <1>3, <1>4, <1>5, <1>6, <1>7, <1>8, <1>9, <1>10, <1>11,
     <1>12, <1>13, <1>14, <1>15, <1>16, SMT DEF DataInv, Completes
<1>21. PrevInv'
  BY <1>0, <1>1, <1>2, <1>3, <1>4, <1>5, <1>6, <1>7, <1>8, <1>9, <1>10, <1>11,
     <1>12, <1>13, <1>14, <1>15, <1>16, SMT DEF PrevInv, Returnable
<1>22. RegisteredInv'
  BY <1>0, <1>1, <1>2, <1>3, <1>4, <1>5, <1>6, <1>7, <1>8, <1>9, <1>10, <1>11,
     <1>12, <1>13, <1>14, <1>15, <1>16, SMT DEF RegisteredInv, Registered,
     Parked
<1>23. PendingFiberInv'
  BY <1>0, <1>1, <1>2, <1>3, <1>4, <1>5, <1>6, <1>7, <1>8, <1>9, <1>10, <1>11,
     <1>12, <1>13, <1>14, <1>15, <1>16, SMT DEF PendingFiberInv
<1>24. WaitersInv'
  BY <1>0, <1>1, <1>2, <1>3, <1>4, <1>5, <1>6, <1>7, <1>8, <1>9, <1>10, <1>11,
     <1>12, <1>13, <1>14, <1>15, <1>16, SMT DEF WaitersInv
<1>25. SwitchApartInv'
  BY <1>0, <1>1, <1>2, <1>3, <1>4, <1>5, <1>6, <1>7, <1>8, <1>9, <1>10, <1>11,
     <1>12, <1>13, <1>14, <1>15, <1>16, SMT DEF ExecutedInv, SwitchApartInv
<1>26. ResumeInv'
  <2> SUFFICES ASSUME NEW u \in Threads, InSwitch(u)', after'[current[u]] = "complete"
               PROVE  Resumes(This(u), target[This(u)])'
    BY <1>7 DEF ResumeInv
  <2>1. CASE u = t
    BY <1>0, <1>3, <1>4, <1>7, <2>1 DEF Resumes
  <2>2. CASE u # t
    <3>1. PICK x \in Fibers : x = current[u] /\ x # f
      BY <1>0, <1>7, <2>2 DEF FiberExclusive
    <3>2. InSwitch(u) /\ after[x] = "complete" /\ target'[x] = target[x]
      BY <1>7, <3>1
    <3>3. PICK g \in Fibers : g = target[x] /\ g # f /\ g # r
      BY <1>11, <1>16, <3>1, <3>2 DEF SwitchInv, Owns
    <3>4. Resumes(x, g)
      BY <3>1, <3>2, <3>3 DEF ResumeInv
    <3>5. fiberData[g] # j
      BY <1>4, <3>3
    <3>6. Resumes(x, g)'
      BY <1>7, <3>1, <3>3, <3>4, <3>5 DEF Resumes
    <3> QED
      BY <1>7, <3>1, <3>2, <3>3, <3>6
  <2> QED
    BY <2>1, <2>2
<1> QED
  BY <1>17, <1>18, <1>19, <1>20, <1>21, <1>22, <1>23, <1>24, <1>25, <1>26

(* The previous fiber is returned once it is suspended and unreferenced.   *)
LEMMA WaitReturnKeeps ==
  ASSUME DestroyWhenIdle, IInv, TypeOK', NEW t \in Threads, WaitReturn(t)
  PROVE  IInv'
<1> USE ConstantFacts
<1> USE DEF IInv, TypeOK, FiberTypeOK, CounterTypeOK, Labels, Callers, Main,
        At, This, Goto, vars, fiberVars, counterVars, queueVars, stateVars,
        jobVars, flowVars, Switching, InJob, InSwitch, Executed
<1>0. PICK f \in Fibers : f = This(t) /\ pc[f] = "resumed"
  BY DEF WaitReturn
<1>1. PICK j \in Jobs : j = fiberData[f] /\ jobFiber[j] = f
  BY <1>0 DEF OwnDataInv
<1>2. PICK p \in Fibers : p = prevFiber[j]
  BY <1>0, <1>1 DEF ExecutedInv
<1>3. /\ Executed(f) /\ Returnable(p, f) /\ waitCounter[j] = NoCounter
      /\ p <= totalFibers /\ \A i \in Jobs : prevFiber[i] = p => i = j
  BY <1>0, <1>1, <1>2 DEF PrevInv
<1>4. /\ ~Executed(p) /\ pc[p] = "complete" /\ fiberData[p] = NoJob
      /\ attached[p] = NoThread /\ p # f
  BY <1>0, <1>3 DEF Returnable
<1>5. \A i \in Jobs : jobFiber[i] # p
  BY <1>4, FiberOfNobody
<1>6. unusedFibers[p] = 0
  BY <1>2, Unused0 DEF UnusedInv
<1>7. /\ unusedFibers' = [unusedFibers EXCEPT ![p] = 1]
      /\ prevFiber' = [prevFiber EXCEPT ![j] = NoFiber]
      /\ pc' = [pc EXCEPT ![f] = "job"]
      /\ UNCHANGED <<fiberVars, counterVars, jobVars, running, totalFibers,
                     pendingJobs, pendingFibers, jobFiber, waitCounter,
                     fiberData, target, after, wake>>
  BY <1>0, <1>1, <1>2, <1>6 DEF WaitReturn, UnusedReturning, Enqueue
<1>8. ~(f > totalFibers) /\ ~(p > totalFibers)
  BY <1>0, <1>2, <1>3, UncreatedFiber
<1>9. FiberExclusive' /\ SuspendedInv' /\ UncreatedInv' /\ AttachedInv'
      /\ SwitchApartInv'
  BY <1>0, <1>1, <1>2, <1>3, <1>4, <1>5, <1>6, <1>7, <1>8,
     SMT DEF FiberExclusive, SuspendedInv, UncreatedInv, AttachedInv,
     AttachedTo, SwitchApartInv
<1>10. LeaveInv' /\ ResumeInv' /\ UnusedInv' /\ JobInv' /\ OwnDataInv'
  <2>1. LeaveInv'
    BY <1>0, <1>1, <1>2, <1>3, <1>4, <1>5, <1>6, <1>7, <1>8, SMT DEF
       LeaveInv, Leaves
  <2>2. ResumeInv'
    BY <1>0, <1>1, <1>2, <1>3, <1>4, <1>5, <1>6, <1>7, <1>8, SMT DEF
       ResumeInv, Resumes
  <2>3. UnusedInv'
    BY <1>0, <1>1, <1>2, <1>3, <1>4, <1>5, <1>6, <1>7, <1>8, SMT DEF
       UnusedInv
  <2>4. JobInv'
    BY <1>0, <1>1, <1>2, <1>3, <1>4, <1>5, <1>6, <1>7, <1>8, SMT DEF JobInv
  <2>5. OwnDataInv'
    BY <1>0, <1>1, <1>2, <1>3, <1>4, <1>5, <1>6, <1>7, <1>8, SMT DEF
       OwnDataInv
  <2> QED
    BY <2>1, <2>2, <2>3, <2>4, <2>5
<1>11. DataInv' /\ RegisteredInv' /\ PendingFiberInv' /\ WaitersInv'
      /\ WakeInv'
  BY <1>0, <1>1, <1>2, <1>3, <1>4, <1>5, <1>6, <1>7, <1>8, SMT DEF DataInv,
     Completes, RegisteredInv, Registered, Parked, PendingFiberInv,
     WaitersInv, WakeInv
<1>12. PendingJobInv' /\ EnqueuingInv' /\ StoppedInv'
  BY <1>0, <1>1, <1>2, <1>3, <1>4, <1>5, <1>6, <1>7, <1>8,
     SMT DEF PendingJobInv, EnqueuingInv, StoppedInv, Idle
<1>13. ExecutedInv'
  BY <1>0, <1>1, <1>2, <1>3, <1>4, <1>5, <1>6, <1>7, <1>8,
     SMT DEF ExecutedInv, DataInv, Completes
<1>14. SwitchInv'
  BY <1>0, <1>1, <1>2, <1>3, <1>4, <1>5, <1>6, <1>7, <1>8, SMT DEF SwitchInv,
     Owns, LeaveInv, Leaves, ResumeInv, Resumes
<1>15. PrevInv'
  BY <1>0, <1>1, <1>2, <1>3, <1>4, <1>5, <1>6, <1>7, <1>8, SMT DEF JobInv,
     PrevInv, Returnable
<1> QED
  BY <1>9, <1>10, <1>11, <1>12, <1>13, <1>14, <1>15

(* A fiber that exits is never switched to.                                *)
LEMMA EndThreadKeeps ==
  ASSUME DestroyWhenIdle, IInv, TypeOK', NEW t \in Threads, EndThread(t)
  PROVE  IInv'
<1> USE ConstantFacts
<1> USE DEF IInv, TypeOK, FiberTypeOK, CounterTypeOK, Labels, Callers, Main,
        At, This, Goto, vars, fiberVars, counterVars, queueVars, stateVars,
        jobVars, flowVars, Switching, InJob, InSwitch, Executed
<1>0. PICK f \in Fibers : f = This(t) /\ pc[f] = "exit"
  BY DEF EndThread
<1>1. /\ Executed(f) /\ attached[f] = t /\ f <= totalFibers /\ ~exited[f]
      /\ fiberData[f] = NoJob
  BY <1>0 DEF ExecutedInv
<1>2. /\ current' = [current EXCEPT ![t] = NoFiber]
      /\ attached' = [attached EXCEPT ![f] = NoThread]
      /\ exited' = [exited EXCEPT ![f] = TRUE]
      /\ pc' = [pc EXCEPT ![f] = "exited"]
      /\ UNCHANGED <<counterVars, queueVars, stateVars, jobVars, running,
                     totalFibers, fiberData, target, after, wake>>
  BY <1>0, <1>1 DEF EndThread, ExitFiber
<1>3. \A x \in Fibers : Executed(x)' <=> Executed(x) /\ x # f
  BY <1>0, <1>1, <1>2 DEF FiberExclusive
<1>4. ~running /\ \A j \in Jobs : phase[j] # "live"
  BY <1>0 DEF StoppedInv, Idle
<1>5. ASSUME NEW u \in Threads, InSwitch(u) PROVE FALSE
  <2>0. PICK h \in Fibers : h = This(u) /\ Switching(h)
    BY <1>5
  <2>1. PICK g \in Fibers : g = target[h]
    BY <1>5, <2>0 DEF SwitchInv, Owns
  <2>2. CASE after[h] = "resumed"
    BY <1>4, <1>5, <2>0, <2>1, <2>2 DEF LeaveInv, Leaves, JobInv
  <2>3. CASE after[h] = "complete"
    BY <1>4, <1>5, <2>0, <2>1, <2>3 DEF ResumeInv, Resumes, JobInv
  <2> QED
    BY <2>0, <2>2, <2>3
<1>6. FiberExclusive' /\ ExecutedInv' /\ SuspendedInv' /\ UncreatedInv'
      /\ AttachedInv'
  BY <1>0, <1>1, <1>2, <1>3, <1>4, <1>5, SMT DEF FiberExclusive, ExecutedInv,
     SuspendedInv, UncreatedInv, AttachedInv, AttachedTo
<1>7. SwitchInv' /\ SwitchApartInv' /\ LeaveInv' /\ ResumeInv' /\ UnusedInv'
  <2>1. SwitchInv' /\ SwitchApartInv' /\ LeaveInv'
    BY <1>0, <1>1, <1>2, <1>3, <1>4, <1>5, SMT DEF SwitchInv, Owns,
       SwitchApartInv, LeaveInv, Leaves
  <2>2. ResumeInv' /\ UnusedInv'
    BY <1>0, <1>1, <1>2, <1>3, <1>4, <1>5, SMT DEF ResumeInv, Resumes,
       UnusedInv
  <2> QED
    BY <2>1, <2>2
<1>8. JobInv' /\ OwnDataInv' /\ DataInv' /\ PrevInv' /\ RegisteredInv'
  BY <1>0, <1>1, <1>2, <1>3, <1>4, <1>5, SMT DEF JobInv, OwnDataInv, DataInv,
     Completes, PrevInv, Returnable, RegisteredInv, Registered, Parked
<1>9. PendingFiberInv' /\ WaitersInv' /\ WakeInv' /\ PendingJobInv'
      /\ EnqueuingInv'
  BY <1>0, <1>1, <1>2, <1>3, <1>4, <1>5, SMT DEF PendingFiberInv, WaitersInv,
     WakeInv, PendingJobInv, EnqueuingInv
<1>10. StoppedInv'
  BY <1>0, <1>1, <1>2, <1>3, <1>4, <1>5, SMT DEF StoppedInv, Idle
<1> QED
  BY <1>6, <1>7, <1>8, <1>9, <1>10

(* The outside thread creates a job that was nowhere before.               *)
LEMMA MainRunKeeps ==
  ASSUME DestroyWhenIdle, IInv, TypeOK', NEW k \in Jobs,
         NEW d \in Counters \cup {NoCounter}, MainRun(k, d)
  PROVE  IInv'
<1> USE ConstantFacts
<1> USE DEF IInv, TypeOK, FiberTypeOK, CounterTypeOK, Labels, Callers, Main,
        At, This, Goto, vars, fiberVars, counterVars, queueVars, stateVars,
        jobVars, flowVars, Switching, InJob, InSwitch, Executed
<1>1. Main \in Callers /\ Main \notin Fibers /\ enqueuing[Main] = NoJob /\ running
  BY DEF MainRun
<1>2. /\ phase[k] = "new"
      /\ phase' = [phase EXCEPT ![k] = "created"]
      /\ enqueuing' = [enqueuing EXCEPT ![Main] = k]
      /\ UNCHANGED <<fiberVars, waiters, stateVars, queueVars, running,
                     totalFibers, fiberData, waits, pc, target, after, wake>>
  BY DEF MainRun, CreateJob, Increment
<1>3. pendingJobs[k] = 0 /\ \A x \in Callers : enqueuing[x] # k
  BY <1>2, NewJobIsNowhere
<1>4. FiberExclusive' /\ ExecutedInv' /\ SuspendedInv' /\ UncreatedInv'
      /\ AttachedInv'
  BY <1>1, <1>2, <1>3, SMT DEF FiberExclusive, ExecutedInv, SuspendedInv,
     UncreatedInv, AttachedInv, AttachedTo
<1>5. SwitchInv' /\ SwitchApartInv' /\ LeaveInv' /\ ResumeInv' /\ UnusedInv'
  BY <1>1, <1>2, <1>3, SMT DEF SwitchInv, Owns, SwitchApartInv, LeaveInv,
     Leaves, ResumeInv, Resumes, UnusedInv
<1>6. JobInv' /\ OwnDataInv' /\ DataInv' /\ PrevInv' /\ RegisteredInv'
  BY <1>1, <1>2, <1>3, SMT DEF JobInv, OwnDataInv, DataInv, Completes,
     PrevInv, Returnable, RegisteredInv, Registered, Parked
<1>7. PendingFiberInv' /\ WaitersInv' /\ WakeInv' /\ PendingJobInv'
      /\ EnqueuingInv'
  BY <1>1, <1>2, <1>3, SMT DEF PendingFiberInv, WaitersInv, WakeInv,
     PendingJobInv, EnqueuingInv
<1>8. StoppedInv'
  BY <1>1, <1>2, <1>3, SMT DEF StoppedInv, Idle
<1> QED
  BY <1>4, <1>5, <1>6, <1>7, <1>8

(* The job the outside thread enqueues was not pending yet.                *)
LEMMA MainEnqueueKeeps ==
  ASSUME DestroyWhenIdle, IInv, TypeOK', MainEnqueue
  PROVE  IInv'
<1> USE ConstantFacts
<1> USE DEF IInv, TypeOK, FiberTypeOK, CounterTypeOK, Labels, Callers, Main,
        At, This, Goto, vars, fiberVars, counterVars, queueVars, stateVars,
        jobVars, flowVars, Switching, InJob, InSwitch, Executed
<1>1. Main \in Callers /\ Main \notin Fibers
  OBVIOUS
<1>2. PICK k \in Jobs : k = enqueuing[Main]
  BY <1>1 DEF MainEnqueue
<1>3. /\ phase[k] = "created" /\ pendingJobs[k] = 0
      /\ \A x \in Callers : enqueuing[x] = k => x = Main
  BY <1>1, <1>2 DEF EnqueuingInv
<1>4. /\ pendingJobs' = [pendingJobs EXCEPT ![k] = 1]
      /\ enqueuing' = [enqueuing EXCEPT ![Main] = NoJob]
      /\ UNCHANGED <<fiberVars, counterVars, stateVars, running, totalFibers,
                     pendingFibers, unusedFibers, fiberData, phase, waits, pc,
                     target, after, wake>>
  BY <1>1, <1>2, <1>3 DEF MainEnqueue, EnqueueJob, Enqueue
<1>5. FiberExclusive' /\ ExecutedInv' /\ SuspendedInv' /\ UncreatedInv'
      /\ AttachedInv'
  BY <1>1, <1>2, <1>3, <1>4, SMT DEF FiberExclusive, ExecutedInv,
     SuspendedInv, UncreatedInv, AttachedInv, AttachedTo
<1>6. SwitchInv' /\ SwitchApartInv' /\ LeaveInv' /\ ResumeInv' /\ UnusedInv'
  BY <1>1, <1>2, <1>3, <1>4, SMT DEF SwitchInv, Owns, SwitchApartInv,
     LeaveInv, Leaves, ResumeInv, Resumes, UnusedInv
<1>7. JobInv' /\ OwnDataInv' /\ DataInv' /\ PrevInv' /\ RegisteredInv'
  BY <1>1, <1>2, <1>3, <1>4, SMT DEF JobInv, OwnDataInv, DataInv, Completes,
     PrevInv, Returnable, RegisteredInv, Registered, Parked
<1>8. PendingFiberInv' /\ WaitersInv' /\ WakeInv' /\ PendingJobInv'
      /\ EnqueuingInv'
  BY <1>1, <1>2, <1>3, <1>4, SMT DEF PendingFiberInv, WaitersInv, WakeInv,
     PendingJobInv, EnqueuingInv
<1>9. StoppedInv'
  BY <1>1, <1>2, <1>3, <1>4, SMT DEF StoppedInv, Idle
<1> QED
  BY <1>5, <1>6, <1>7, <1>8, <1>9

(* An idle system stops.                                                   *)
LEMMA DestroyKeeps ==
  ASSUME DestroyWhenIdle, IInv, TypeOK', Destroy
  PROVE  IInv'
<1> USE ConstantFacts
<1> USE DEF IInv, TypeOK, FiberTypeOK, CounterTypeOK, Labels, Callers, Main,
        At, This, Goto, vars, fiberVars, counterVars, queueVars, stateVars,
        jobVars, flowVars, Switching, InJob, InSwitch, Executed
<1>1. /\ running' = FALSE /\ Idle
      /\ UNCHANGED <<fiberVars, counterVars, queueVars, stateVars, jobVars,
                     flowVars, totalFibers, fiberData>>
  BY DEF Destroy
<1>2. FiberExclusive' /\ ExecutedInv' /\ SuspendedInv' /\ UncreatedInv'
      /\ AttachedInv'
  BY <1>1, SMT DEF FiberExclusive, ExecutedInv, SuspendedInv, UncreatedInv,
     AttachedInv, AttachedTo
<1>3. SwitchInv' /\ SwitchApartInv' /\ LeaveInv' /\ ResumeInv' /\ UnusedInv'
  BY <1>1, SMT DEF SwitchInv, Owns, SwitchApartInv, LeaveInv, Leaves,
     ResumeInv, Resumes, UnusedInv
<1>4. JobInv' /\ OwnDataInv' /\ DataInv' /\ PrevInv' /\ RegisteredInv'
  BY <1>1, SMT DEF JobInv, OwnDataInv, DataInv, Completes, PrevInv,
     Returnable, RegisteredInv, Registered, Parked
<1>5. PendingFiberInv' /\ WaitersInv' /\ WakeInv' /\ PendingJobInv'
      /\ EnqueuingInv'
  BY <1>1, SMT DEF PendingFiberInv, WaitersInv, WakeInv, PendingJobInv,
     EnqueuingInv
<1>6. StoppedInv'
  BY <1>1, SMT DEF StoppedInv, Idle
<1> QED
  BY <1>2, <1>3, <1>4, <1>5, <1>6

(***************************************************************************)
(* The theorems.                                                           *)
(***************************************************************************)
(* The invariant holds once Create has returned: every thread executes its  *)
(* own fiber in JobMain, and there is no job.                              *)
LEMMA InvInit == Init => IInv
<1> SUFFICES ASSUME Init PROVE IInv
  OBVIOUS
<1> USE ConstantFacts
<1> USE DEF Init, FiberInit, CounterInit, This, Switching, InJob, InSwitch,
        Executed, Callers
<1>1. TypeOK
  BY TypeInit DEF TypeInv
<1>2. /\ \A t \in Threads : This(t) = t /\ This(t) # NoFiber
      /\ \A f \in Fibers : Executed(f) <=> f \in Threads
  OBVIOUS
<1>3. /\ \A t \in Threads : t <= NumThreads
      /\ \A f \in Fibers : f > NumThreads => f \notin Threads
  BY DEF Threads, Fibers
<1>4. FiberExclusive
  BY <1>2 DEF FiberExclusive
<1>5. ExecutedInv
  BY <1>2, <1>3 DEF ExecutedInv
<1>6. SuspendedInv
  BY <1>2 DEF SuspendedInv
<1>7. UncreatedInv /\ AttachedInv
  BY <1>2, <1>3 DEF UncreatedInv, AttachedInv, AttachedTo
<1>8. SwitchInv /\ SwitchApartInv /\ LeaveInv /\ ResumeInv
  BY DEF SwitchInv, SwitchApartInv, LeaveInv, ResumeInv
<1>9. UnusedInv /\ JobInv /\ OwnDataInv /\ DataInv /\ PrevInv
  BY DEF UnusedInv, JobInv, OwnDataInv, DataInv, PrevInv
<1>10. RegisteredInv /\ PendingFiberInv /\ WaitersInv /\ WakeInv
  BY DEF RegisteredInv, Registered, PendingFiberInv, WaitersInv, WakeInv
<1>11. PendingJobInv /\ EnqueuingInv /\ StoppedInv
  BY DEF PendingJobInv, EnqueuingInv, StoppedInv, Main
<1> QED
  BY <1>1, <1>4, <1>5, <1>6, <1>7, <1>8, <1>9, <1>10, <1>11 DEF IInv

(* The invariant implies that a fiber inside a job carries one, which the   *)
(* preservation of the types needs.                                        *)
LEMMA InvTypes == IInv => TypeInv
<1> SUFFICES ASSUME IInv, NEW f \in Fibers, CarriesJob(f)
             PROVE  fiberData[f] # NoJob
  BY DEF TypeInv, CarryInv, IInv
<1>1. CASE InJob(f) \/ pc[f] = "resumed"
  BY <1>1 DEF IInv, OwnDataInv
<1>2. CASE Switching(f) /\ after[f] = "resumed"
  <2>1. PICK t \in Threads : This(t) = f
    BY <1>2 DEF IInv, SuspendedInv, Executed, Switching
  <2> QED
    BY <1>2, <2>1, ConstantFacts DEF IInv, LeaveInv, Leaves, InSwitch
<1> QED
  BY <1>1, <1>2 DEF CarriesJob, InJob, Switching

(* A step of a thread preserves the invariant.                             *)
LEMMA InvThreadStep ==
  ASSUME DestroyWhenIdle, IInv, TypeOK', NEW t \in Threads, ThreadStep(t)
  PROVE  IInv'
<1>1. CASE CompleteWait(t)
  <2>1. CASE Complete(waitCounter[fiberData[This(t)]])
    BY <1>1, <2>1, CompleteWaitReturnKeeps
  <2>2. CASE ~Complete(waitCounter[fiberData[This(t)]])
    <3>1. AddWaiter(waitCounter[fiberData[This(t)]], fiberData[This(t)])
      BY <1>1, <2>2 DEF CompleteWait
    <3> QED
      BY <1>1, <3>1, CompleteWaitRegisterKeeps
  <2> QED
    BY <2>1, <2>2
<1>2. CASE \/ Poll(t) \/ LeaveJobMain(t) \/ TakeFiber(t) \/ TakeJob(t)
           \/ JobEnqueue(t) \/ FinishJob(t) \/ CountDown(t) \/ WakeOne(t)
           \/ DeleteJob(t) \/ Attach(t) \/ Detach(t) \/ Switch(t)
           \/ WaitReturn(t) \/ EndThread(t)
  BY <1>2, PollKeeps, LeaveJobMainKeeps, TakeFiberKeeps, TakeJobKeeps,
     JobEnqueueKeeps, FinishJobKeeps, CountDownKeeps, WakeOneKeeps,
     DeleteJobKeeps, AttachKeeps, DetachKeeps, SwitchKeeps, WaitReturnKeeps,
     EndThreadKeeps
<1>3. ASSUME NEW j \in Jobs, NEW c \in Counters \cup {NoCounter},
             JobRun(t, j, c)
      PROVE  IInv'
  BY <1>3, JobRunKeeps
<1>4. ASSUME NEW c \in Counters, Wait(t, c) PROVE IInv'
  BY <1>4, WaitKeeps
<1> QED
  BY <1>1, <1>2, <1>3, <1>4 DEF ThreadStep

(* A step that changes nothing preserves it.                               *)
LEMMA InvStutter == IInv /\ UNCHANGED vars => IInv'
<1> SUFFICES ASSUME IInv, UNCHANGED vars PROVE IInv'
  OBVIOUS
<1> USE DEF vars, fiberVars, counterVars, queueVars, stateVars, jobVars,
        flowVars, IInv, This, Switching, InJob, InSwitch, Executed
<1>1. TypeOK' /\ FiberExclusive' /\ ExecutedInv' /\ SuspendedInv'
  BY DEF TypeOK, FiberTypeOK, CounterTypeOK, FiberExclusive, ExecutedInv,
     SuspendedInv
<1>2. UncreatedInv' /\ AttachedInv' /\ SwitchInv' /\ SwitchApartInv'
  BY DEF UncreatedInv, AttachedInv, AttachedTo, SwitchInv, Owns, SwitchApartInv
<1>3. LeaveInv' /\ ResumeInv' /\ UnusedInv' /\ JobInv' /\ OwnDataInv'
  BY DEF LeaveInv, Leaves, ResumeInv, Resumes, UnusedInv, JobInv, OwnDataInv
<1>4. DataInv' /\ PrevInv' /\ RegisteredInv'
  BY DEF DataInv, Completes, PrevInv, Returnable, RegisteredInv, Registered,
     Parked
<1>5. PendingFiberInv' /\ WaitersInv' /\ WakeInv' /\ PendingJobInv'
  BY DEF PendingFiberInv, WaitersInv, WakeInv, PendingJobInv
<1>6. EnqueuingInv' /\ StoppedInv'
  BY DEF EnqueuingInv, StoppedInv, Idle
<1> QED
  BY <1>1, <1>2, <1>3, <1>4, <1>5, <1>6

(* So does every step of the system.                                       *)
LEMMA InvNext == DestroyWhenIdle /\ IInv /\ [Next]_vars => IInv'
<1> SUFFICES ASSUME DestroyWhenIdle, IInv, [Next]_vars PROVE IInv'
  OBVIOUS
<1>1. TypeOK'
  BY InvTypes, TypeNext DEF TypeInv
<1>2. CASE \E t \in Threads : ThreadStep(t)
  BY <1>1, <1>2, InvThreadStep
<1>3. CASE \E j \in Jobs, c \in Counters \cup {NoCounter} : MainRun(j, c)
  BY <1>1, <1>3, MainRunKeeps
<1>4. CASE MainEnqueue
  BY <1>1, <1>4, MainEnqueueKeeps
<1>5. CASE Destroy
  BY <1>1, <1>5, DestroyKeeps
<1>6. CASE UNCHANGED vars
  BY <1>6, InvStutter
<1> QED
  BY <1>2, <1>3, <1>4, <1>5, <1>6 DEF Next

(* IInv is an invariant of a system that is destroyed only when idle.       *)
THEOREM Invariance == DestroyWhenIdle => (Spec => []IInv)
<1> SUFFICES ASSUME DestroyWhenIdle PROVE Spec => []IInv
  OBVIOUS
<1>1. IInv /\ [Next]_vars => IInv'
  BY InvNext
<1> QED
  BY <1>1, InvInit, PTL DEF Spec

(* No two threads ever execute the same fiber: DoWait, CompleteWait and     *)
(* WaitReturn keep a fiber out of every queue and waiter list until the    *)
(* thread that left it has switched.                                       *)
THEOREM FiberExclusion == DestroyWhenIdle => (Spec => []FiberExclusive)
<1>1. IInv => FiberExclusive
  BY DEF IInv
<1> QED
  BY <1>1, Invariance, PTL

(* SwitchToFiber never fails and never loads a context that has yet to be   *)
(* saved, so DoWait and ResumeJobFiber may ignore its result.              *)
THEOREM SwitchSafety == DestroyWhenIdle => (Spec => []SwitchesSucceed)
<1>1. IInv => SwitchesSucceed
  BY ConstantFacts DEF IInv, SwitchInv, Owns, SwitchesSucceed, Switchable, At,
     InSwitch, Switching, Executed
<1> QED
  BY <1>1, Invariance, PTL
=============================================================================
