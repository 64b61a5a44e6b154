---------------------------- MODULE JobScheduler ----------------------------
(***************************************************************************)
(* What gb::JobSystem promises its callers (job_system.h), with no word    *)
(* about threads, fibers or queues: each job that is run executes once;    *)
(* a job that waits on a counter continues only from a moment at which no  *)
(* job run with that counter was unfinished.                               *)
(***************************************************************************)
CONSTANTS Jobs, Counters, NoCounter

VARIABLES
  status,     (* "new", "queued", "running", "waiting", "ready" or "done". *)
  ranWith,    (* The counter each job was run with.                      *)
  waitsOn     (* The counter each waiting job waits on.                  *)

vars == <<status, ranWith, waitsOn>>

Init ==
  /\ status = [j \in Jobs |-> "new"]
  /\ ranWith = [j \in Jobs |-> NoCounter]
  /\ waitsOn = [j \in Jobs |-> NoCounter]

Unfinished(c) ==
  {j \in Jobs : ranWith[j] = c /\ status[j] \notin {"new", "done"}}

WaitingOn(c) == {j \in Jobs : status[j] = "waiting" /\ waitsOn[j] = c}

(* Run *)
Submit(j, c) ==
  /\ status[j] = "new"
  /\ status' = [status EXCEPT ![j] = "queued"]
  /\ ranWith' = [ranWith EXCEPT ![j] = c]
  /\ UNCHANGED waitsOn

Start(j) ==
  /\ status[j] = "queued"
  /\ status' = [status EXCEPT ![j] = "running"]
  /\ UNCHANGED <<ranWith, waitsOn>>

BeginWait(j, c) ==
  /\ status[j] = "running"
  /\ status' = [status EXCEPT ![j] = "waiting"]
  /\ waitsOn' = [waitsOn EXCEPT ![j] = c]
  /\ UNCHANGED ranWith

(* A job ends, and with it the wait of any of the jobs that waited for it   *)
(* last.                                                                   *)
Finish(j, released) ==
  /\ status[j] = "running"
  /\ released # {} =>
       \E c \in Counters : /\ Unfinished(c) = {j}
                           /\ released \subseteq WaitingOn(c)
  /\ status' = [k \in Jobs |-> IF k = j THEN "done"
                               ELSE IF k \in released THEN "ready"
                               ELSE status[k]]
  /\ waitsOn' = [k \in Jobs |-> IF k \in released THEN NoCounter
                                ELSE waitsOn[k]]
  /\ UNCHANGED ranWith

(* A wait ends because there is nothing (left) to wait for.                 *)
Release(j) ==
  /\ status[j] = "waiting"
  /\ Unfinished(waitsOn[j]) = {}
  /\ status' = [status EXCEPT ![j] = "ready"]
  /\ waitsOn' = [waitsOn EXCEPT ![j] = NoCounter]
  /\ UNCHANGED ranWith

Resume(j) ==
  /\ status[j] = "ready"
  /\ status' = [status EXCEPT ![j] = "running"]
  /\ UNCHANGED <<ranWith, waitsOn>>

Next ==
  \E j \in Jobs :
    \/ \E c \in Counters \cup {NoCounter} : Submit(j, c)
    \/ Start(j)
    \/ \E c \in Counters : BeginWait(j, c)
    \/ \E released \in SUBSET Jobs : Finish(j, released)
    \/ Release(j)
    \/ Resume(j)

Spec == Init /\ [][Next]_vars
=============================================================================
