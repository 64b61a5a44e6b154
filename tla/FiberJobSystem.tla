--------------------------- MODULE FiberJobSystem ---------------------------
(***************************************************************************)
(* gb::FiberJobSystem: jobs run by threads that execute fibers.            *)
(*                                                                         *)
(* A thread executes one fiber at a time and every step below is a step of *)
(* thread t in the fiber it executes, This(t); pc is therefore indexed by  *)
(* fibers and survives a switch away and back.  The FiberState of a job is *)
(* named by the job.                                                       *)
(*                                                                         *)
(* The point of the design is Wait: the job's own fiber must not become    *)
(* reachable (through the counter's waiters) before its context is saved,  *)
(* so the fiber it switches to registers the waiter on its behalf          *)
(* (CompleteWait), and the fiber that resumes it is returned to the unused *)
(* fibers only from the far side of the switch (WaitReturn).               *)
(*                                                                         *)
(* pending_jobs_, pending_fibers_ and unused_fibers_ are                   *)
(* moodycamel::ConcurrentQueues, which order only the elements of one      *)
(* producer: each is a bag, given by how often it holds an element.        *)
(* try_dequeue may fail although the queue is not empty, so a thread may   *)
(* take a job when a fiber is pending, and may create a fiber when one is  *)
(* unused.  A thread that finds no work spins, which is stuttering.        *)
(***************************************************************************)
EXTENDS Fiber, TLC

CONSTANTS
  Counters,          (* The JobCounter objects.                                 *)
  Jobs,              (* The jobs, each with the FiberState it runs in.          *)
  NoJob, NoCounter,
  MaxWaits,          (* Bound: calls of Wait by one job.                        *)
  DestroyWhenIdle    (* Whether the owner destroys the system only when every   *)
                     (* job it ran has completed (FALSE: at any time).          *)

ASSUME JobAssumption ==
  /\ NoJob \notin Jobs
  /\ NoCounter \notin Counters
  /\ MaxWaits \in Nat
  /\ DestroyWhenIdle \in BOOLEAN

-----------------------------------------------------------------------------
(* gb::JobCounter: the number of unfinished jobs that were run with the    *)
(* counter, and the jobs blocked until it reaches zero.  Every method      *)
(* holds the counter's own mutex from end to end, so each is part of one   *)
(* step.  A waiter is the FiberState of a job, and is named by its job.    *)
VARIABLES
  counter,        (* counter_: unfinished jobs of each counter.                 *)
  waiters         (* waiters_: the states blocked on each counter.              *)

counterVars == <<counter, waiters>>

CounterTypeOK ==
  /\ counter \in [Counters -> Int]
  /\ waiters \in [Counters -> SUBSET Jobs]

CounterInit ==
  /\ counter = [c \in Counters |-> 0]
  /\ waiters = [c \in Counters |-> {}]

Increment(c) ==
  /\ counter' = [counter EXCEPT ![c] = @ + 1]
  /\ UNCHANGED waiters

(* Mutant: Decrement hands the waiters out whatever the count is.          *)
UnblockedEarly(c) == waiters[c]

(* The states Decrement(c) hands back to be resumed: all that wait, once   *)
(* the count is no longer positive.                                        *)
Unblocked(c) == IF counter[c] - 1 > 0 THEN {} ELSE waiters[c]

Decrement(c) ==
  /\ counter' = [counter EXCEPT ![c] = @ - 1]
  /\ waiters' = [waiters EXCEPT ![c] = @ \ Unblocked(c)]

(* Mutant: AddWaiter does not look at the count.                           *)
CompleteNever(c) == FALSE

(* AddWaiter refuses (returns false) when the counter is already at zero.  *)
Complete(c) == counter[c] = 0

AddWaiter(c, j) ==
  /\ ~Complete(c)
  /\ waiters' = [waiters EXCEPT ![c] = @ \cup {j}]
  /\ UNCHANGED counter

-----------------------------------------------------------------------------
(* The thread outside the job system that runs jobs and owns the system: it *)
(* is no fiber.                                                            *)
Main == NoFiber
Callers == Fibers \cup {Main}

VARIABLES
  running,        (* running_.                                                *)
  totalFibers,    (* total_fiber_count_; the fibers created are 1..totalFibers. *)
  pendingJobs,    (* Occurrences of each job in pending_jobs_.                *)
  pendingFibers,  (* Occurrences of each state in pending_fibers_.            *)
  unusedFibers,   (* Occurrences of each fiber in unused_fibers_.             *)
  fiberData,      (* The FiberState each fiber carries as its custom data.    *)
  phase,          (* Life of a job: "new", "created", "live", "done".         *)
  runCounter,     (* Job::run_counter.                                        *)
  jobFiber,       (* FiberState::fiber.                                       *)
  prevFiber,      (* FiberState::prev_fiber.                                  *)
  waitCounter,    (* FiberState::wait_counter.                                *)
  waits,          (* Calls of Wait so far, for the bound.                     *)
  enqueuing,      (* Each caller's job between Increment and enqueue in DoRun. *)
  pc,             (* Where each fiber is.                                     *)
  target,         (* The fiber a SwitchToFiber call switches to.              *)
  after,          (* Where a fiber continues once SwitchToFiber returns.      *)
  wake            (* JobMain's local `waiters`.                               *)

queueVars == <<pendingJobs, pendingFibers, unusedFibers>>
stateVars == <<jobFiber, prevFiber, waitCounter>>
jobVars   == <<phase, runCounter, waits, enqueuing>>
flowVars  == <<pc, target, after, wake>>
vars == <<fiberVars, counterVars, queueVars, stateVars, jobVars, flowVars,
          running, totalFibers, fiberData>>

This(t) == current[t]
At(t, l) == This(t) # NoFiber /\ pc[This(t)] = l
Goto(f, l) == pc' = [pc EXCEPT ![f] = l]

Enqueue(q, x) == [q EXCEPT ![x] = @ + 1]
Dequeue(q, x) == [q EXCEPT ![x] = @ - 1]

Holds(q, x) == q[x] > 0

Labels == {"loop", "poll", "job", "enqueue", "finish", "wake", "attach",
           "detach", "switch", "complete", "resumed", "exit", "exited"}

TypeOK ==
  /\ FiberTypeOK
  /\ CounterTypeOK
  /\ running \in BOOLEAN
  /\ totalFibers \in NumThreads .. MaxFibers
  /\ pendingJobs \in [Jobs -> Nat]
  /\ pendingFibers \in [Jobs -> Nat]
  /\ unusedFibers \in [Fibers -> Nat]
  /\ fiberData \in [Fibers -> Jobs \cup {NoJob}]
  /\ phase \in [Jobs -> {"new", "created", "live", "done"}]
  /\ runCounter \in [Jobs -> Counters \cup {NoCounter}]
  /\ jobFiber \in [Jobs -> Fibers \cup {NoFiber}]
  /\ prevFiber \in [Jobs -> Fibers \cup {NoFiber}]
  /\ waitCounter \in [Jobs -> Counters \cup {NoCounter}]
  /\ waits \in [Jobs -> 0 .. MaxWaits]
  /\ enqueuing \in [Callers -> Jobs \cup {NoJob}]
  /\ pc \in [Fibers -> Labels]
  /\ target \in [Fibers -> Fibers \cup {NoFiber}]
  /\ after \in [Fibers -> {"complete", "resumed"}]
  /\ wake \in [Fibers -> SUBSET Jobs]

(* Create and Init: the threads start in JobMain; a fiber created by Wait   *)
(* starts in CompleteWait.                                                 *)
Init ==
  /\ FiberInit
  /\ CounterInit
  /\ running = TRUE
  /\ totalFibers = NumThreads
  /\ pendingJobs = [j \in Jobs |-> 0]
  /\ pendingFibers = [j \in Jobs |-> 0]
  /\ unusedFibers = [f \in Fibers |-> 0]
  /\ fiberData = [f \in Fibers |-> NoJob]
  /\ phase = [j \in Jobs |-> "new"]
  /\ runCounter = [j \in Jobs |-> NoCounter]
  /\ jobFiber = [j \in Jobs |-> NoFiber]
  /\ prevFiber = [j \in Jobs |-> NoFiber]
  /\ waitCounter = [j \in Jobs |-> NoCounter]
  /\ waits = [j \in Jobs |-> 0]
  /\ enqueuing = [f \in Callers |-> NoJob]
  /\ pc = [f \in Fibers |-> IF f \in Threads THEN "loop" ELSE "complete"]
  /\ target = [f \in Fibers |-> NoFiber]
  /\ after = [f \in Fibers |-> "complete"]
  /\ wake = [f \in Fibers |-> {}]

-----------------------------------------------------------------------------
(* DoRun, for a job callback or the thread outside: count the job, then     *)
(* make it available.                                                      *)

CreateJob(caller, j, c) ==
  /\ phase[j] = "new"
  /\ phase' = [phase EXCEPT ![j] = "created"]
  /\ runCounter' = [runCounter EXCEPT ![j] = c]
  /\ enqueuing' = [enqueuing EXCEPT ![caller] = j]
  /\ IF c = NoCounter THEN UNCHANGED counterVars ELSE Increment(c)
  /\ UNCHANGED <<fiberVars, stateVars, queueVars, running, totalFibers,
                 fiberData, waits, target, after, wake>>

(* Mutant: DoRun returns before it enqueues the job.                       *)
EnqueueJobLost(caller) ==
  /\ enqueuing' = [enqueuing EXCEPT ![caller] = NoJob]
  /\ UNCHANGED <<fiberVars, counterVars, stateVars, queueVars, running,
                 totalFibers, fiberData, phase, runCounter, waits, target,
                 after, wake>>

EnqueueJob(caller) ==
  /\ pendingJobs' = Enqueue(pendingJobs, enqueuing[caller])
  /\ enqueuing' = [enqueuing EXCEPT ![caller] = NoJob]
  /\ UNCHANGED <<fiberVars, counterVars, stateVars, running, totalFibers,
                 pendingFibers, unusedFibers, fiberData, phase, runCounter,
                 waits, target, after, wake>>

MainRun(j, c) ==
  /\ running
  /\ enqueuing[Main] = NoJob
  /\ CreateJob(Main, j, c)
  /\ UNCHANGED pc

MainEnqueue ==
  /\ enqueuing[Main] # NoJob
  /\ EnqueueJob(Main)
  /\ UNCHANGED pc

JobRun(t, j, c) ==
  /\ At(t, "job")
  /\ CreateJob(This(t), j, c)
  /\ Goto(This(t), "enqueue")

JobEnqueue(t) ==
  /\ At(t, "enqueue")
  /\ EnqueueJob(This(t))
  /\ Goto(This(t), "job")

-----------------------------------------------------------------------------
(* SwitchToFiber as the job system calls it: fiber f switches to g and, when *)
(* it is switched back to (or when the switch fails, which a release build  *)
(* ignores), continues at label l.                                         *)

BeginSwitch(f, g, l) ==
  /\ target' = [target EXCEPT ![f] = g]
  /\ after' = [after EXCEPT ![f] = l]
  /\ Goto(f, "attach")

Attach(t) ==
  LET f == This(t) IN
  /\ At(t, "attach")
  /\ \/ /\ SwitchAttach(t, target[f])
        /\ Goto(f, "detach")
     \/ /\ ~Switchable(target[f])
        /\ UNCHANGED fiberVars
        /\ Goto(f, after[f])
  /\ UNCHANGED <<counterVars, queueVars, stateVars, jobVars, running,
                 totalFibers, fiberData, target, after, wake>>

Detach(t) ==
  /\ At(t, "detach")
  /\ SwitchDetach(t)
  /\ Goto(This(t), "switch")
  /\ UNCHANGED <<counterVars, queueVars, stateVars, jobVars, running,
                 totalFibers, fiberData, target, after, wake>>

Switch(t) ==
  LET f == This(t) IN
  /\ At(t, "switch")
  /\ SwitchContext(t, target[f])
  /\ Goto(f, after[f])
  /\ UNCHANGED <<counterVars, queueVars, stateVars, jobVars, running,
                 totalFibers, fiberData, target, after, wake>>

(* Mutant: prev_fiber is not set, so nobody returns f to the unused fibers. *)
ResumeForgetting(f, j) ==
  /\ UNCHANGED prevFiber
  /\ BeginSwitch(f, jobFiber[j], "complete")

(* ResumeJobFiber(f, j): f itself is unused from now on, which the resumed  *)
(* job records once f is no longer executed.                               *)
ResumeJobFiber(f, j) ==
  /\ prevFiber' = [prevFiber EXCEPT ![j] = f]
  /\ BeginSwitch(f, jobFiber[j], "complete")

-----------------------------------------------------------------------------
(* JobMain                                                                 *)

Poll(t) ==
  /\ At(t, "loop")
  /\ running
  /\ Goto(This(t), "poll")
  /\ UNCHANGED <<fiberVars, counterVars, queueVars, stateVars, jobVars,
                 running, totalFibers, fiberData, target, after, wake>>

(* A poll that began while the system was running may find no work and see  *)
(* on its next pass that it no longer is.                                  *)
LeaveJobMain(t) ==
  /\ At(t, "loop") \/ At(t, "poll")
  /\ ~running
  /\ unusedFibers' = Enqueue(unusedFibers, This(t))
  /\ Goto(This(t), "exit")
  /\ UNCHANGED <<fiberVars, counterVars, stateVars, jobVars, running,
                 totalFibers, pendingJobs, pendingFibers, fiberData, target,
                 after, wake>>

TakeFiber(t) ==
  /\ At(t, "poll")
  /\ \E j \in Jobs :
       /\ Holds(pendingFibers, j)
       /\ pendingFibers' = Dequeue(pendingFibers, j)
       /\ ResumeJobFiber(This(t), j)
  /\ UNCHANGED <<fiberVars, counterVars, jobVars, running, totalFibers,
                 pendingJobs, unusedFibers, fiberData, jobFiber, waitCounter,
                 wake>>

TakeJob(t) ==
  LET f == This(t) IN
  /\ At(t, "poll")
  /\ \E j \in Jobs :
       /\ Holds(pendingJobs, j)
       /\ pendingJobs' = Dequeue(pendingJobs, j)
       /\ phase' = [phase EXCEPT ![j] = "live"]
       /\ jobFiber' = [jobFiber EXCEPT ![j] = f]
       /\ fiberData' = [fiberData EXCEPT ![f] = j]
  /\ Goto(f, "job")
  /\ UNCHANGED <<fiberVars, counterVars, running, totalFibers, pendingFibers,
                 unusedFibers, prevFiber, waitCounter, runCounter, waits,
                 enqueuing, target, after, wake>>

(* The callback returned; the job's data and context are destroyed.        *)
FinishJob(t) ==
  /\ At(t, "job")
  /\ Goto(This(t), "finish")
  /\ UNCHANGED <<fiberVars, counterVars, queueVars, stateVars, jobVars,
                 running, totalFibers, fiberData, target, after, wake>>

CountDown(t) ==
  LET f == This(t)
      j == fiberData[f]
      c == runCounter[j]
  IN
  /\ At(t, "finish")
  /\ IF c = NoCounter
     THEN UNCHANGED <<counterVars, wake>>
     ELSE /\ Decrement(c)
          /\ wake' = [wake EXCEPT ![f] = Unblocked(c)]
  /\ phase' = [phase EXCEPT ![j] = "done"]
  /\ Goto(f, "wake")
  /\ UNCHANGED <<fiberVars, queueVars, stateVars, running, totalFibers,
                 fiberData, runCounter, waits, enqueuing, target, after>>

WakeOne(t) ==
  LET f == This(t) IN
  /\ At(t, "wake")
  /\ \E j \in wake[f] :
       /\ waitCounter' = [waitCounter EXCEPT ![j] = NoCounter]
       /\ pendingFibers' = Enqueue(pendingFibers, j)
       /\ wake' = [wake EXCEPT ![f] = @ \ {j}]
  /\ UNCHANGED <<fiberVars, counterVars, jobVars, running, totalFibers,
                 pendingJobs, unusedFibers, jobFiber, prevFiber, fiberData,
                 pc, target, after>>

DeleteJob(t) ==
  LET f == This(t) IN
  /\ At(t, "wake")
  /\ wake[f] = {}
  /\ fiberData' = [fiberData EXCEPT ![f] = NoJob]
  /\ jobFiber' = [jobFiber EXCEPT ![fiberData[f]] = NoFiber]
  /\ Goto(f, "loop")
  /\ UNCHANGED <<fiberVars, counterVars, queueVars, jobVars, running,
                 totalFibers, prevFiber, waitCounter, target, after, wake>>

-----------------------------------------------------------------------------
(* Mutant: the job registers itself with the counter while it still        *)
(* executes its fiber.                                                     *)
RegisterEagerly(j, c) ==
  /\ waitCounter' = [waitCounter EXCEPT ![j] = c]
  /\ waiters' = [waiters EXCEPT ![c] = @ \cup {j}]
  /\ UNCHANGED counter

(* The state only notes what it will wait for.                             *)
RegisterWait(j, c) ==
  /\ waitCounter' = [waitCounter EXCEPT ![j] = c]
  /\ UNCHANGED counterVars

(* DoWait, up to its SwitchToFiber: hand this job's state to another fiber,  *)
(* one that is unused or a new one.                                        *)
Wait(t, c) ==
  LET f == This(t)
      j == fiberData[f]
  IN
  /\ At(t, "job")
  /\ waits[j] < MaxWaits
  /\ waits' = [waits EXCEPT ![j] = @ + 1]
  /\ RegisterWait(j, c)
  /\ \E g \in Fibers :
       /\ \/ /\ Holds(unusedFibers, g)
             /\ unusedFibers' = Dequeue(unusedFibers, g)
             /\ UNCHANGED totalFibers
          \/ /\ g = totalFibers + 1
             /\ totalFibers' = g
             /\ UNCHANGED unusedFibers
       /\ fiberData' = [fiberData EXCEPT ![g] = j]
       /\ BeginSwitch(f, g, "resumed")
  /\ UNCHANGED <<fiberVars, running, pendingJobs, pendingFibers, jobFiber,
                 prevFiber, phase, runCounter, enqueuing, wake>>

(* CompleteWait, on the fiber that was switched to: register the waiter, or  *)
(* switch straight back when the counter is already at zero.  Without a    *)
(* state that waits the code dereferences a null pointer and ends.         *)
CompleteWait(t) ==
  LET f == This(t)
      j == fiberData[f]
      c == waitCounter[j]
  IN
  /\ At(t, "complete")
  /\ j # NoJob /\ c # NoCounter
  /\ fiberData' = [fiberData EXCEPT ![f] = NoJob]
  /\ \/ /\ AddWaiter(c, j)
        /\ Goto(f, "loop")
        /\ UNCHANGED <<waitCounter, prevFiber, target, after>>
     \/ /\ Complete(c)
        /\ waitCounter' = [waitCounter EXCEPT ![j] = NoCounter]
        /\ ResumeJobFiber(f, j)
        /\ UNCHANGED counterVars
  /\ UNCHANGED <<fiberVars, queueVars, jobVars, running, totalFibers, jobFiber,
                 wake>>

(* Mutant: the fiber that resumed the job is never returned.               *)
UnusedDropping(p) == unusedFibers

(* A failed switch leaves no previous fiber to return.                     *)
UnusedReturning(p) ==
  IF p = NoFiber THEN unusedFibers ELSE Enqueue(unusedFibers, p)

(* The rest of DoWait, back on the job's own fiber.                        *)
WaitReturn(t) ==
  LET f == This(t)
      j == fiberData[f]
  IN
  /\ At(t, "resumed")
  /\ unusedFibers' = UnusedReturning(prevFiber[j])
  /\ prevFiber' = [prevFiber EXCEPT ![j] = NoFiber]
  /\ Goto(f, "job")
  /\ UNCHANGED <<fiberVars, counterVars, jobVars, running, totalFibers,
                 pendingJobs, pendingFibers, jobFiber, waitCounter, fiberData,
                 target, after, wake>>

-----------------------------------------------------------------------------
(* The end of the system.  The destructor clears running_ and joins the     *)
(* threads; each leaves JobMain when it next looks, and its fiber's main    *)
(* function returns.                                                       *)

EndThread(t) ==
  /\ At(t, "exit")
  /\ ExitFiber(t)
  /\ Goto(This(t), "exited")
  /\ UNCHANGED <<counterVars, queueVars, stateVars, jobVars, running,
                 totalFibers, fiberData, target, after, wake>>

Idle == \A j \in Jobs : phase[j] \in {"new", "done"}

Destroy ==
  /\ running
  /\ enqueuing[Main] = NoJob
  /\ DestroyWhenIdle => Idle
  /\ running' = FALSE
  /\ UNCHANGED <<fiberVars, counterVars, queueVars, stateVars, jobVars,
                 flowVars, totalFibers, fiberData>>

Joined == ~running /\ \A t \in Threads : This(t) = NoFiber

-----------------------------------------------------------------------------
ThreadStep(t) ==
  \/ Poll(t)
  \/ LeaveJobMain(t)
  \/ TakeFiber(t)
  \/ TakeJob(t)
  \/ \E j \in Jobs, c \in Counters \cup {NoCounter} : JobRun(t, j, c)
  \/ JobEnqueue(t)
  \/ FinishJob(t)
  \/ CountDown(t)
  \/ WakeOne(t)
  \/ DeleteJob(t)
  \/ \E c \in Counters : Wait(t, c)
  \/ Attach(t)
  \/ Detach(t)
  \/ Switch(t)
  \/ CompleteWait(t)
  \/ WaitReturn(t)
  \/ EndThread(t)

Next ==
  \/ \E t \in Threads : ThreadStep(t)
  \/ \E j \in Jobs, c \in Counters \cup {NoCounter} : MainRun(j, c)
  \/ MainEnqueue
  \/ Destroy

(* Every thread of the pool keeps running, and so does the outside thread   *)
(* in the middle of a call.  Nothing makes the outside thread call Run or   *)
(* the destructor.                                                         *)
Fairness ==
  /\ \A t \in Threads : WF_vars(ThreadStep(t))
  /\ WF_vars(MainEnqueue)

Spec == Init /\ [][Next]_vars
FairSpec == Spec /\ Fairness

-----------------------------------------------------------------------------
(* Properties                                                              *)

Waiting(j) ==
  LET f == jobFiber[j] IN
  /\ phase[j] = "live"
  /\ after[f] = "resumed"
  /\ pc[f] \in {"attach", "detach", "switch", "resumed"}

Released(j) == waitCounter[j] = NoCounter \/ \E f \in Fibers : j \in wake[f]

(* No two threads ever execute the same fiber, that is, one stack.  The      *)
(* library's own test cannot ensure it, since a fiber looks suspended       *)
(* before its context is saved: it is DoWait, CompleteWait and WaitReturn   *)
(* that keep a fiber out of every queue and waiter list until the thread    *)
(* that left it has switched.                                              *)
FiberExclusive ==
  \A t, u \in Threads : t # u /\ This(t) # NoFiber => This(t) # This(u)

(* SwitchToFiber never fails, and never loads a context that another thread *)
(* has yet to save: the results DoWait and ResumeJobFiber ignore in release *)
(* builds are always "true".                                               *)
SwitchesSucceed ==
  \A t \in Threads :
    /\ At(t, "attach") => Switchable(target[This(t)])
    /\ At(t, "switch") => \A u \in Threads : This(u) # target[This(t)]

(* A state is in a counter's waiters only while the counter is above zero,   *)
(* so no waiter is left behind by the Decrement that hands the waiters out: *)
(* AddWaiter tests the counter and appends under one lock.                 *)
NoStrandedWaiter ==
  \A c \in Counters :
    /\ counter[c] >= 0
    /\ waiters[c] # {} => counter[c] > 0
    /\ \A j \in waiters[c] : Waiting(j) /\ waitCounter[j] = c

(* Every fiber that was created is in exactly one place: executed by a       *)
(* thread, unused, suspended in a waiting job, or remembered as the         *)
(* previous fiber of a job that is being resumed.  (During a switch both    *)
(* the fiber left and the fiber entered are accounted for.)  So when the   *)
(* threads are joined the assertions of the destructor hold: every fiber   *)
(* is unused once, none is pending or carries a state, none is running.    *)
Executed(f) == \E t \in Threads : This(t) = f
Targeted(f) == \E t \in Threads :
                 This(t) # NoFiber /\ target[This(t)] = f
                   /\ pc[This(t)] \in {"attach", "detach", "switch"}
Suspended(f) == \E j \in Jobs : phase[j] = "live" /\ jobFiber[j] = f
Remembered(f) == \E j \in Jobs : prevFiber[j] = f
FiberAccounting ==
  /\ running =>
    \A f \in Fibers :
      /\ unusedFibers[f] <= 1
      /\ f <= totalFibers =>
           (unusedFibers[f] = 1) =
             ~(Executed(f) \/ Targeted(f) \/ Suspended(f) \/ Remembered(f))
      /\ Remembered(f) =>
           ~Suspended(f) /\ \A i, j \in Jobs :
             prevFiber[i] = f /\ prevFiber[j] = f => i = j
  /\ Joined =>
    /\ \A f \in 1 .. totalFibers :
         unusedFibers[f] = 1 /\ fiberData[f] = NoJob /\ attached[f] = NoThread
    /\ \A j \in Jobs : pendingFibers[j] = 0
    /\ runningCount = 0

(* The job system implements the abstract scheduler: jobs run once each and *)
(* a wait ends only when the counter's jobs have all finished.             *)
Status(j) ==
  CASE phase[j] = "new" -> "new"
    [] phase[j] = "created" -> "queued"
    [] phase[j] = "done" -> "done"
    [] phase[j] = "live" /\ ~Waiting(j) -> "running"
    [] phase[j] = "live" /\ Waiting(j) /\ Released(j) -> "ready"
    [] OTHER -> "waiting"

Scheduler == INSTANCE JobScheduler WITH
  status  <- [j \in Jobs |-> Status(j)],
  ranWith <- runCounter,
  waitsOn <- [j \in Jobs |-> IF Status(j) = "waiting" THEN waitCounter[j]
                                                      ELSE NoCounter]
ImplementsScheduler == Scheduler!Spec

(* Wait blocks until the counter reached zero: it never returns with the    *)
(* state still registered for waiting.                                     *)
WaitBlocks ==
  [][\A t \in Threads : WaitReturn(t) => waitCounter[fiberData[This(t)]] = NoCounter]_vars

(* A job that is run is started, whatever the other jobs wait for: a wait    *)
(* gives its thread to other jobs.                                         *)
JobsStart ==
  \A j \in Jobs : (phase[j] = "created") ~> (phase[j] # "created" \/ ~running)

(* No wait stays blocked while there is nothing to wait for.               *)
WaitsEnd ==
  \A j \in Jobs :
    []<>~(/\ Waiting(j)
          /\ Released(j) \/ counter[waitCounter[j]] = 0)

(* For TLC: jobs and counters are interchangeable, as Init and Next mention *)
(* none of them.                                                           *)
JobSymmetry == Permutations(Jobs) \cup Permutations(Counters)
=============================================================================
