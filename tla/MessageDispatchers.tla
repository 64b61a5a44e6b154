------------------------- MODULE MessageDispatchers -------------------------
(***************************************************************************)
(* gb::PollingMessageDispatcher and gb::ThreadMessageDispatcher: messages  *)
(* are added from any thread, handlers included, and dispatched in batches *)
(* by the thread that calls Update, by the dispatcher's own thread, and by *)
(* the one that cancels it.  The system may be destroyed meanwhile.        *)
(*                                                                         *)
(* One thread updates, and one cancels.  An action is one section under    *)
(* the dispatcher's mutex, or one Dispatch, which is where a handler runs. *)
(***************************************************************************)
EXTENDS Naturals, Sequences, SequencesExt

CONSTANTS
  MaxMessages      (* Bound: the messages of a dispatcher.                 *)

Dispatchers == {"polling", "thread"}

VARIABLES
  system,          (* The MessageSystem has not been destroyed.            *)
  added,           (* The number of messages added.                        *)
  messages,        (* messages_                                            *)
  exit,            (* exit_thread_                                         *)
  batch,           (* What the loop of Update, ProcessMessages or Cancel   *)
                   (* has swapped out and is dispatching.                  *)
  at,              (* Where that loop is: "out", "locked" or "dispatching" *)
                   (* for the loops, then "joined" and "cancelled".        *)
  cancel,          (* Cancel: "no", "joining", "draining" or "done".       *)
  dispatched,      (* The messages that were dispatched to the system.     *)
  destroyed        (* Those deleted instead.                               *)

vars == <<system, added, messages, exit, batch, at, cancel, dispatched, destroyed>>

Init ==
  /\ system = TRUE /\ exit = FALSE /\ cancel = "no"
  /\ added = [d \in Dispatchers |-> 0]
  /\ messages = [d \in Dispatchers |-> <<>>]
  /\ batch = [d \in Dispatchers |-> <<>>]
  /\ at = [d \in Dispatchers |-> IF d = "thread" THEN "locked" ELSE "out"]
  /\ dispatched = [d \in Dispatchers |-> <<>>]
  /\ destroyed = [d \in Dispatchers |-> {}]

(* AddMessage.                                                             *)
AddMessage(d) ==
  /\ added[d] < MaxMessages
  /\ added' = [added EXCEPT ![d] = @ + 1]
  /\ IF d = "thread" /\ exit
     THEN /\ destroyed' = [destroyed EXCEPT ![d] = @ \cup {added[d] + 1}]
          /\ UNCHANGED messages
     ELSE /\ messages' = [messages EXCEPT ![d] = Append(@, added[d] + 1)]
          /\ UNCHANGED destroyed
  /\ UNCHANGED <<system, exit, batch, at, cancel, dispatched>>

(* The swap, under the mutex.                                              *)
Swap(d) ==
  /\ messages' = [messages EXCEPT ![d] = <<>>]
  /\ batch' = [batch EXCEPT ![d] = messages[d]]
  /\ UNCHANGED <<system, added, exit, cancel, dispatched, destroyed>>

(* Mutant: the last message is dispatched each time.                       *)
TakesLast(d) == Last(batch[d])

Following(d) == Head(batch[d])

(* MessageDispatcher::Dispatch of the next message of the batch.           *)
Dispatch(d) ==
  /\ batch[d] # <<>>
  /\ LET m == Following(d)
     IN /\ batch' = [batch EXCEPT ![d] = Tail(@)]
        /\ IF system THEN dispatched' = [dispatched EXCEPT ![d] = Append(@, m)]
                          /\ UNCHANGED destroyed
           ELSE destroyed' = [destroyed EXCEPT ![d] = @ \cup {m}] /\ UNCHANGED dispatched
  /\ UNCHANGED <<system, added, messages, exit, at, cancel>>

Go(d, where) == at' = [at EXCEPT ![d] = where]

(* PollingMessageDispatcher::Update.                                       *)
Update ==
  /\ at["polling"] = "out" \/ (at["polling"] = "dispatching" /\ batch["polling"] = <<>>)
  /\ messages["polling"] # <<>>
  /\ Go("polling", "dispatching") /\ Swap("polling")

UpdateReturns ==
  /\ at["polling"] = "dispatching" /\ batch["polling"] = <<>> /\ messages["polling"] = <<>>
  /\ Go("polling", "out")
  /\ UNCHANGED <<system, added, messages, exit, batch, cancel, dispatched, destroyed>>

(* Mutant: the thread waits for messages alone.                            *)
WaitsForMessages == messages["thread"] # <<>>

ProcessMessagesReady == exit \/ messages["thread"] # <<>>

(* ProcessMessages: the thread waits for messages or for its end.          *)
Process ==
  /\ at["thread"] = "locked" \/ (at["thread"] = "dispatching" /\ batch["thread"] = <<>> /\ ~exit)
  /\ ProcessMessagesReady
  /\ Go("thread", "dispatching") /\ Swap("thread")

ProcessEnds ==
  /\ at["thread"] = "dispatching" /\ batch["thread"] = <<>> /\ exit
  /\ Go("thread", "joined")
  /\ UNCHANGED <<system, added, messages, exit, batch, cancel, dispatched, destroyed>>

(* Cancel: joins the thread and dispatches what it has left.               *)
Cancel ==
  /\ cancel = "no"
  /\ cancel' = "joining" /\ exit' = TRUE
  /\ UNCHANGED <<system, added, messages, batch, at, dispatched, destroyed>>

(* Mutant: the thread is not waited for.                                   *)
ThreadIsDone == batch["thread"] = <<>>

Joined == at["thread"] = "joined"

Drain ==
  /\ cancel = "joining" /\ Joined
  /\ cancel' = "draining"
  /\ messages' = [messages EXCEPT !["thread"] = <<>>]
  /\ batch' = [batch EXCEPT !["thread"] = messages["thread"]]
  /\ UNCHANGED <<system, added, exit, at, dispatched, destroyed>>

CancelReturns ==
  /\ cancel = "draining" /\ batch["thread"] = <<>>
  /\ cancel' = "done"
  /\ UNCHANGED <<system, added, messages, exit, batch, at, dispatched, destroyed>>

(* The system is destroyed, which waits for the dispatch that has begun.   *)
DestroySystem ==
  /\ system
  /\ system' = FALSE
  /\ UNCHANGED <<added, messages, exit, batch, at, cancel, dispatched, destroyed>>

(* The destructor of the polling dispatcher.                               *)
DestroyPolling ==
  /\ ~system /\ at["polling"] = "out" /\ messages["polling"] # <<>>
  /\ destroyed' = [destroyed EXCEPT !["polling"] = @ \cup ToSet(messages["polling"])]
  /\ messages' = [messages EXCEPT !["polling"] = <<>>]
  /\ Go("polling", "gone")
  /\ UNCHANGED <<system, added, exit, batch, cancel, dispatched>>

Next ==
  \/ \E d \in Dispatchers : (at[d] # "gone" /\ AddMessage(d)) \/ Dispatch(d)
  \/ Update \/ UpdateReturns
  \/ Process \/ ProcessEnds
  \/ Cancel \/ Drain \/ CancelReturns
  \/ DestroySystem \/ DestroyPolling

Spec == Init /\ [][Next]_vars

(* The program calls Update again and again and cancels in the end; every  *)
(* thread runs.                                                            *)
Fairness ==
  /\ \A d \in Dispatchers : WF_vars(Dispatch(d))
  /\ WF_vars(Update) /\ WF_vars(UpdateReturns) /\ WF_vars(Process) /\ WF_vars(ProcessEnds)
  /\ WF_vars(Drain) /\ WF_vars(CancelReturns)

FairSpec == Spec /\ Fairness

-----------------------------------------------------------------------------
(* Whatever thread dispatches, and whatever is added meanwhile: messages   *)
(* of a dispatcher are dispatched in the order they were added, each once, *)
(* and each that was added is in one place.                                *)
DispatchedInOrder ==
  \A d \in Dispatchers :
    LET there == dispatched[d] \o batch[d] \o messages[d]
    IN /\ \A i, j \in DOMAIN there : i < j => there[i] < there[j]
       /\ ToSet(there) \cap destroyed[d] = {}
       /\ ToSet(there) \cup destroyed[d] = 1 .. added[d]

(* When Cancel has returned, no message is left to dispatch, and none will *)
(* be.                                                                     *)
CancelledIsQuiet ==
  cancel = "done" => batch["thread"] = <<>> /\ messages["thread"] = <<>> /\ at["thread"] = "joined"

(* Every message is dispatched or deleted, and Cancel returns.             *)
DispatchersDeliver ==
  /\ \A d \in Dispatchers : <>[](batch[d] = <<>> /\ messages[d] = <<>>)
  /\ exit ~> cancel = "done"
=============================================================================
