------------------------------- MODULE Fiber -------------------------------
(***************************************************************************)
(* The fiber layer of gb/thread (win_fiber.cc): fibers, the threads that   *)
(* execute them, and SwitchToFiber in the three steps other threads can    *)
(* observe.                                                                *)
(*                                                                         *)
(* A fiber is `attached` to a thread while its thread_win_fiber is set;    *)
(* the library refuses to switch to an attached fiber.  That is not the    *)
(* same as being executed: SwitchToFiber detaches the fiber it leaves      *)
(* before the operating system has saved that fiber's context, so between  *)
(* SwitchDetach and SwitchContext a fiber is executed by a thread and yet  *)
(* looks suspended.                                                        *)
(*                                                                         *)
(* CreateFiber is assumed to succeed.  Fiber and thread names are left     *)
(* out: no control depends on them.                                        *)
(***************************************************************************)
EXTENDS Integers

CONSTANTS
  NumThreads,   (* Threads made by CreateFiberThreads.                 *)
  MaxFibers     (* Bound: fibers that can ever be created.             *)

ASSUME FiberAssumption ==
  /\ NumThreads \in Nat \ {0}
  /\ MaxFibers \in Nat
  /\ NumThreads <= MaxFibers

NoThread == 0
NoFiber  == 0
Threads  == 1 .. NumThreads
Fibers   == 1 .. MaxFibers

VARIABLES
  current,      (* The fiber each thread executes, NoFiber once it ended. *)
  attached,     (* thread_win_fiber: the thread a fiber claims to run on. *)
  exited,       (* The fiber's main function returned.                    *)
  runningCount  (* g_running_count.                                       *)

fiberVars == <<current, attached, exited, runningCount>>

FiberTypeOK ==
  /\ current \in [Threads -> Fibers \cup {NoFiber}]
  /\ attached \in [Fibers -> Threads \cup {NoThread}]
  /\ exited \in [Fibers -> BOOLEAN]
  /\ runningCount \in Int

(* CreateFiberThreads: the i-th thread starts on the i-th fiber.           *)
FiberInit ==
  /\ current = [t \in Threads |-> t]
  /\ attached = [f \in Fibers |-> IF f \in Threads THEN f ELSE NoThread]
  /\ exited = [f \in Fibers |-> FALSE]
  /\ runningCount = NumThreads

(* What SwitchToFiber tests, under the target's mutex, before it commits.  *)
Switchable(f) == ~exited[f] /\ attached[f] = NoThread

(* First half of SwitchToFiber: claim the target for this thread.          *)
SwitchAttach(t, f) ==
  /\ Switchable(f)
  /\ attached' = [attached EXCEPT ![f] = t]
  /\ UNCHANGED <<current, exited, runningCount>>

(* Second half: the fiber being left is marked suspended ...               *)
SwitchDetach(t) ==
  /\ attached' = [attached EXCEPT ![current[t]] = NoThread]
  /\ UNCHANGED <<current, exited, runningCount>>

(* ... and only then does the operating system save its context and load   *)
(* the target's.                                                           *)
SwitchContext(t, f) ==
  /\ current' = [current EXCEPT ![t] = f]
  /\ UNCHANGED <<attached, exited, runningCount>>

(* RunFiberMain after fiber_main returned: the thread goes back to the     *)
(* fiber it was converted to, and ends.                                    *)
ExitFiber(t) ==
  /\ exited' = [exited EXCEPT ![current[t]] = TRUE]
  /\ attached' = [attached EXCEPT ![current[t]] = NoThread]
  /\ runningCount' = runningCount - 1
  /\ current' = [current EXCEPT ![t] = NoFiber]
=============================================================================
