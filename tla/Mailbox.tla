------------------------------ MODULE Mailbox ------------------------------
(***************************************************************************)
(* What a gb::MessageEndpoint promises (message_endpoint.h) while it has a *)
(* handler for every message it is sent: messages are handled one at a     *)
(* time, in the order they are received, each of them once.  A message     *)
(* received after the endpoint is destroyed is dropped.                    *)
(***************************************************************************)
EXTENDS Sequences

CONSTANTS Messages, NoMessage

VARIABLES
  inbox,      (* Received and not yet handled.        *)
  handling,   (* The message being handled, if any.   *)
  handled,    (* The messages handled, in order.      *)
  closed      (* The endpoint is destroyed.           *)

vars == <<inbox, handling, handled, closed>>

Init ==
  /\ inbox = <<>>
  /\ handling = NoMessage
  /\ handled = <<>>
  /\ closed = FALSE

Begin(m) ==
  /\ handling' = m
  /\ handled' = Append(handled, m)

Receive(m) ==
  /\ ~closed
  /\ \/ handling = NoMessage /\ Begin(m) /\ UNCHANGED inbox
     \/ /\ handling # NoMessage
        /\ inbox' = Append(inbox, m)
        /\ UNCHANGED <<handling, handled>>
  /\ UNCHANGED closed

Finish ==
  /\ handling # NoMessage
  /\ \/ inbox = <<>> /\ handling' = NoMessage /\ UNCHANGED <<inbox, handled>>
     \/ inbox # <<>> /\ Begin(Head(inbox)) /\ inbox' = Tail(inbox)
  /\ UNCHANGED closed

Close ==
  /\ handling = NoMessage
  /\ closed' = TRUE
  /\ UNCHANGED <<inbox, handling, handled>>

Next == Finish \/ Close \/ \E m \in Messages : Receive(m)

Spec == Init /\ [][Next]_vars
=============================================================================
