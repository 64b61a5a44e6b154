-------------------------- MODULE MessageEndpoint ---------------------------
(***************************************************************************)
(* gb::MessageEndpoint: how one endpoint handles the messages that several *)
(* dispatching threads deliver to it, while handlers are set and cleared   *)
(* and until it is destroyed.                                              *)
(*                                                                         *)
(* handler_mutex_ is released only around the call of a handler, so        *)
(* Receive is two steps: up to the call (Receive) and from its return,     *)
(* through the lookup of the next queued message, to the next call         *)
(* (HandlerReturns).  During the call the handler is moved out of the map. *)
(* A handler may send to its own endpoint; that delivery, like those of    *)
(* other threads, finds calling_handler_ set and is queued.                *)
(*                                                                         *)
(* Each message is delivered to the endpoint once: a second delivery is    *)
(* the message system's concern.  Subscribe, Unsubscribe, IsSubscribed and *)
(* Send only forward to the message system.                                *)
(***************************************************************************)
EXTENDS Naturals, Sequences

CONSTANTS
  Threads,        (* The threads that dispatch messages.                   *)
  Types,          (* Message types.                                        *)
  Copies,         (* Bound: the messages of each type.                     *)
  Handlers,       (* Handler callbacks.                                    *)
  HandledTypes,   (* The types with a handler from the start.              *)
  Changing,       (* The types whose handler may be set and cleared later. *)
  AlwaysHandled,  (* Whether a message is delivered only while its type    *)
                  (* has a handler, and a handler cleared only when no     *)
                  (* message of its type is queued (FALSE: at any time).   *)
  NoHandler, Moved, NoFrame

ASSUME EndpointAssumption ==
  /\ HandledTypes \subseteq Types /\ Changing \subseteq Types
  /\ AlwaysHandled \in BOOLEAN
  /\ NoHandler \notin Handlers /\ Moved \notin Handlers /\ Moved # NoHandler
  /\ NoFrame \notin [message : Types \X Copies, next : Nat, handler : Handlers]
  /\ NoFrame \notin Types \X Copies

Messages == Types \X Copies
Type(m)  == m[1]

VARIABLES
  handlers,       (* handlers_: a callback, or the shell of a moved one.   *)
  calling,        (* calling_handler_                                      *)
  queued,         (* queued_messages_                                      *)
  frame,          (* Each thread's call of Receive, while in a handler.    *)
  destructor,     (* "no", "waiting" for the handler, or "past" that.      *)
  arrived,        (* The messages delivered so far.                        *)
  handled,        (* The messages handlers were called with, in order.     *)
  asked           (* History: the handler of each type as last set or      *)
                  (* cleared; Moved if it was set while one of that type   *)
                  (* ran, whose return undoes that.                        *)

vars == <<handlers, calling, queued, frame, destructor, arrived, handled, asked>>

Frames == [message : Messages, next : 1 .. Len(queued) + 1, handler : Handlers]

TypeOK ==
  /\ handlers \in [Types -> Handlers \cup {NoHandler, Moved}]
  /\ calling \in BOOLEAN
  /\ queued \in Seq(Messages)
  /\ \A t \in Threads : frame[t] = NoFrame \/ frame[t] \in Frames
  /\ destructor \in {"no", "waiting", "past"}
  /\ arrived \subseteq Messages
  /\ handled \in Seq(Messages)
  /\ asked \in [Types -> Handlers \cup {NoHandler, Moved}]

Init ==
  /\ handlers \in [Types -> Handlers \cup {NoHandler}]
  /\ \A y \in Types : handlers[y] = NoHandler <=> y \notin HandledTypes
  /\ calling = FALSE
  /\ queued = <<>>
  /\ frame = [t \in Threads |-> NoFrame]
  /\ destructor = "no"
  /\ arrived = {}
  /\ handled = <<>>
  /\ asked = handlers

(* Mutant: calling_handler_ is not set around the call.                    *)
CallUnmarked(t, m, i, h) ==
  /\ calling' = FALSE
  /\ frame' = [frame EXCEPT ![t] = [message |-> m, next |-> i, handler |-> h]]
  /\ handled' = Append(handled, m)

(* Mutant: queue_index starts past the first queued message.               *)
CallSkipping(t, m, i, h) ==
  /\ calling' = TRUE
  /\ frame' = [frame EXCEPT ![t] = [message |-> m, next |-> i + 1, handler |-> h]]
  /\ handled' = Append(handled, m)

Call(t, m, i, h) ==
  /\ calling' = TRUE
  /\ frame' = [frame EXCEPT ![t] = [message |-> m, next |-> i, handler |-> h]]
  /\ handled' = Append(handled, m)

(* Mutant: calling_handler_ is left set.                                   *)
ReturnMarked(t) ==
  /\ frame' = [frame EXCEPT ![t] = NoFrame]
  /\ UNCHANGED <<calling, handled>>

Return(t) ==
  /\ calling' = FALSE
  /\ frame' = [frame EXCEPT ![t] = NoFrame]
  /\ UNCHANGED handled

(* One turn of Receive's loop with handlers hs, for message m; i is the     *)
(* value of queue_index.  Without a handler Receive returns at once.       *)
Turn(t, m, i, hs) ==
  LET h == hs[Type(m)] IN
  \/ /\ h # NoHandler
     /\ handlers' = [hs EXCEPT ![Type(m)] = Moved]
     /\ Call(t, m, i, h)
  \/ /\ h = NoHandler
     /\ handlers' = hs
     /\ Return(t)

Receive(t, m) ==
  /\ m \notin arrived
  /\ AlwaysHandled => handlers[Type(m)] # NoHandler \/ destructor = "past"
  /\ arrived' = arrived \cup {m}
  /\ \/ /\ calling
        /\ queued' = Append(queued, m)
        /\ UNCHANGED <<handlers, calling, frame, handled>>
     \/ /\ ~calling
        /\ frame[t] = NoFrame
        /\ Turn(t, m, 1, handlers)
        /\ UNCHANGED queued
  /\ UNCHANGED <<destructor, asked>>

(* Mutant: the handler goes back although it was cleared during the call.  *)
RestoreAlways(f) == [handlers EXCEPT ![Type(f.message)] = f.handler]

(* The handler goes back into the map, unless there is none: if it was      *)
(* cleared meanwhile and none set.  One that was set meanwhile is replaced. *)
Restore(f) ==
  IF handlers[Type(f.message)] = NoHandler THEN handlers
  ELSE [handlers EXCEPT ![Type(f.message)] = f.handler]

(* Mutant: messages queued during the last call are forgotten.             *)
LastCallEager(f) == TRUE

LastCall(f) == f.next > Len(queued)

HandlerReturns(t) ==
  LET f == frame[t] IN
  /\ f # NoFrame
  /\ \/ /\ LastCall(f)
        /\ handlers' = Restore(f)
        /\ queued' = <<>>
        /\ Return(t)
     \/ /\ ~LastCall(f)
        /\ Turn(t, queued[f.next], f.next + 1, Restore(f))
        /\ UNCHANGED queued
  /\ UNCHANGED <<destructor, arrived, asked>>

Running(y) == \E t \in Threads : frame[t] # NoFrame /\ Type(frame[t].message) = y

SetHandler(y, h) ==
  /\ destructor = "no"
  /\ handlers' = [handlers EXCEPT ![y] = h]
  /\ asked' = [asked EXCEPT ![y] = IF Running(y) THEN Moved ELSE h]
  /\ UNCHANGED <<calling, queued, frame, destructor, arrived, handled>>

ClearHandler(y) ==
  /\ destructor = "no"
  /\ AlwaysHandled => \A i \in DOMAIN queued : Type(queued[i]) # y
  /\ handlers' = [handlers EXCEPT ![y] = NoHandler]
  /\ asked' = [asked EXCEPT ![y] = NoHandler]
  /\ UNCHANGED <<calling, queued, frame, destructor, arrived, handled>>

(* The destructor, called by a thread that is in none of the handlers: it   *)
(* awaits the end of the handler being called and drops them all.  The     *)
(* endpoint is freed once the message system has no delivery under way.    *)
BeginDestroy ==
  /\ destructor = "no"
  /\ destructor' = "waiting"
  /\ UNCHANGED <<handlers, calling, queued, frame, arrived, handled, asked>>

(* Mutant: the destructor does not wait.                                   *)
IdleUnchecked == calling \in BOOLEAN

Idle == ~calling

DropHandlers ==
  /\ destructor = "waiting"
  /\ Idle
  /\ destructor' = "past"
  /\ handlers' = [y \in Types |-> NoHandler]
  /\ UNCHANGED <<calling, queued, frame, arrived, handled, asked>>

Next ==
  \/ \E t \in Threads, m \in Messages : Receive(t, m)
  \/ \E t \in Threads : HandlerReturns(t)
  \/ \E y \in Changing, h \in Handlers : SetHandler(y, h)
  \/ \E y \in Changing : ClearHandler(y)
  \/ BeginDestroy
  \/ DropHandlers

(* Handlers return, and the destructor's Await ends once its condition stays *)
(* true (deliveries are finitely many).                                    *)
Fairness ==
  /\ \A t \in Threads : WF_vars(HandlerReturns(t))
  /\ WF_vars(DropHandlers)

Spec == Init /\ [][Next]_vars
FairSpec == Spec /\ Fairness

-----------------------------------------------------------------------------
(* Properties                                                              *)

(* The endpoint implements a mailbox: whatever the threads that deliver, the *)
(* handler a message is sent from and the handlers that are set, messages   *)
(* are handled one at a time, in the order received, none twice or never.   *)
Frame == CHOOSE t \in Threads : frame[t] # NoFrame
Busy  == \E t \in Threads : frame[t] # NoFrame
Box == INSTANCE Mailbox WITH
  NoMessage <- NoFrame,
  inbox     <- IF Busy THEN SubSeq(queued, frame[Frame].next, Len(queued)) ELSE queued,
  handling  <- IF Busy THEN frame[Frame].message ELSE NoFrame,
  handled   <- handled,
  closed    <- destructor = "past"
ImplementsMailbox == Box!Spec

(* No handler runs, and none starts, once the destructor is past its wait:  *)
(* what a handler captured may be gone.                                    *)
DestroyedIsQuiet ==
  destructor = "past" => ~Busy /\ \A y \in Types : handlers[y] = NoHandler

(* A delivered message is handled, unless the endpoint is destroyed first;  *)
(* the destructor itself does not wait for ever.                           *)
Handled(m) == \E i \in DOMAIN handled : handled[i] = m
MessagesHandled ==
  \A m \in Messages : m \in arrived ~> Handled(m) \/ destructor # "no"
DestructorReturns == destructor = "waiting" ~> destructor = "past"

(* Until the endpoint is destroyed a type has a handler as long as the last *)
(* call for it set one: what was cleared, during its own call too, does    *)
(* not come back.  And it is the handler that was set which is called and  *)
(* kept, if none of its type ran when it was set.                          *)
KeepsWhatWasAsked ==
  destructor # "past" =>
    /\ \A y \in Types : handlers[y] = NoHandler <=> asked[y] = NoHandler
    /\ \A y \in Types : asked[y] \in Handlers => handlers[y] \in {asked[y], Moved}
    /\ \A t \in Threads :
         /\ frame[t] # NoFrame
         /\ asked[Type(frame[t].message)] \in Handlers
         => frame[t].handler = asked[Type(frame[t].message)]

(* "Each endpoint will only receive a message once": no message is handled  *)
(* twice.                                                                  *)
HandledOnce ==
  \A i, j \in DOMAIN handled : handled[i] = handled[j] => i = j
=============================================================================
