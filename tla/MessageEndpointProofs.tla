----------------------- MODULE MessageEndpointProofs ------------------------
(***************************************************************************)
(* gb::MessageEndpoint for any number of threads, types, messages and      *)
(* handlers.  While calling_handler_ is set exactly one thread is in a     *)
(* handler; that is what makes the endpoint a mailbox, whatever is         *)
(* delivered and whatever handlers are set or cleared meanwhile, and what  *)
(* lets its destructor go on.                                              *)
(***************************************************************************)
EXTENDS MCMessageEndpoint, SequencesExt, SequenceTheorems, FiniteSetTheorems, TLAPS

AllFrames == [message : Messages, next : Nat, handler : Handlers]

(* calling_handler_ is set exactly while one thread is in a handler.        *)
CallingInv ==
  /\ calling <=> Busy
  /\ \A t, u \in Threads : frame[t] # NoFrame /\ frame[u] # NoFrame => t = u

(* The handler that is moved out of the map is the one being called.        *)
MovedInv ==
  \A y \in Types : handlers[y] = Moved =>
    \E t \in Threads : frame[t] # NoFrame /\ Type(frame[t].message) = y

(* What is queued is to be handled after the handler being called, and can *)
(* be, if every message finds a handler.                                    *)
QueuedInv ==
  AlwaysHandled =>
    /\ ~calling => queued = <<>>
    /\ \A i \in DOMAIN queued : handlers[Type(queued[i])] # NoHandler

IInv ==
  /\ TypeOK
  /\ frame \in [Threads -> AllFrames \cup {NoFrame}]
  /\ CallingInv
  /\ MovedInv
  /\ DestroyedIsQuiet
  /\ QueuedInv
(***************************************************************************)
(* Facts                                                                   *)
(***************************************************************************)
LEMMA ConstantFacts ==
  /\ HandledTypes \subseteq Types /\ Changing \subseteq Types
  /\ NoHandler \notin Handlers /\ Moved \notin Handlers /\ Moved # NoHandler
  /\ NoFrame \notin AllFrames /\ NoFrame \notin Messages
  /\ \A m \in Messages : Type(m) \in Types
BY EndpointAssumption DEF Messages, AllFrames, Type

(* What a turn of the loop of Receive leaves.                              *)
LEMMA TurnTypes ==
  ASSUME IInv, NEW t \in Threads, NEW m \in Messages, NEW i \in Nat \ {0},
         NEW hs \in [Types -> Handlers \cup {NoHandler}],
         \A u \in Threads \ {t} : frame[u] = NoFrame,
         Turn(t, m, i, hs)
  PROVE  /\ handlers' \in [Types -> Handlers \cup {NoHandler, Moved}]
         /\ calling' \in BOOLEAN
         /\ handled' \in Seq(Messages)
         /\ frame' \in [Threads -> AllFrames \cup {NoFrame}]
         /\ CallingInv'
         /\ \A y \in Types : handlers'[y] = Moved =>
              frame'[t] # NoFrame /\ Type(frame'[t].message) = y
         /\ \A u \in Threads : frame'[u] # NoFrame => frame'[u].next = i
         /\ \A y \in Types : handlers'[y] = NoHandler <=> hs[y] = NoHandler
         /\ ~calling' => hs[Type(m)] = NoHandler
         /\ calling' <=> frame'[t] # NoFrame
<1> USE ConstantFacts
<1>1. /\ frame \in [Threads -> AllFrames \cup {NoFrame}]
      /\ handled \in Seq(Messages)
      /\ Type(m) \in Types
  BY DEF IInv, TypeOK
<1>2. CASE hs[Type(m)] # NoHandler
  <2> DEFINE g == [message |-> m, next |-> i, handler |-> hs[Type(m)]]
  <2>1. /\ handlers' = [hs EXCEPT ![Type(m)] = Moved]
        /\ calling' = TRUE
        /\ frame' = [frame EXCEPT ![t] = g]
        /\ handled' = Append(handled, m)
    BY <1>2 DEF Turn, Call
  <2>2. g \in AllFrames /\ g # NoFrame /\ g.message = m /\ g.next = i
    BY <1>1, <1>2 DEF AllFrames
  <2>3. handled' \in Seq(Messages)
    BY <1>1, <2>1, AppendProperties
  <2>4. frame' \in [Threads -> AllFrames \cup {NoFrame}] /\ frame'[t] = g
        /\ \A u \in Threads \ {t} : frame'[u] = NoFrame
    BY <1>1, <2>1, <2>2
  <2>5. CallingInv'
    BY <2>1, <2>2, <2>4 DEF CallingInv, Busy
  <2> QED
    BY <1>1, <1>2, <2>1, <2>2, <2>3, <2>4, <2>5
<1>3. CASE hs[Type(m)] = NoHandler
  <2>1. /\ handlers' = hs
        /\ calling' = FALSE
        /\ frame' = [frame EXCEPT ![t] = NoFrame]
        /\ handled' = handled
    BY <1>3 DEF Turn, Return
  <2>2. frame' \in [Threads -> AllFrames \cup {NoFrame}]
        /\ \A u \in Threads : frame'[u] = NoFrame
    BY <1>1, <2>1
  <2>3. CallingInv'
    BY <2>1, <2>2 DEF CallingInv, Busy
  <2> QED
    BY <1>1, <1>3, <2>1, <2>2, <2>3
<1> QED
  BY <1>2, <1>3

(* When its handler returns, no handler is left moved.                      *)
LEMMA RestoreTypes ==
  ASSUME IInv, NEW t \in Threads, frame[t] # NoFrame
  PROVE  /\ frame[t].message \in Messages /\ frame[t].next \in 1 .. Len(queued) + 1
         /\ frame[t].handler \in Handlers
         /\ Restore(frame[t]) \in [Types -> Handlers \cup {NoHandler}]
         /\ \A y \in Types : Restore(frame[t])[y] = NoHandler <=> handlers[y] = NoHandler
         /\ \A u \in Threads \ {t} : frame[u] = NoFrame
         /\ calling
<1> USE ConstantFacts
<1>1. frame[t] \in Frames
  BY DEF IInv, TypeOK
<1>2. /\ frame[t].message \in Messages /\ frame[t].next \in 1 .. Len(queued) + 1
      /\ frame[t].handler \in Handlers
  BY <1>1 DEF Frames
<1>3. (\A u \in Threads \ {t} : frame[u] = NoFrame) /\ calling
  BY DEF IInv, CallingInv, Busy
<1>4. \A y \in Types : handlers[y] = Moved => y = Type(frame[t].message)
  BY <1>3 DEF IInv, MovedInv
<1>5. handlers \in [Types -> Handlers \cup {NoHandler, Moved}]
  BY DEF IInv, TypeOK
<1>6. Type(frame[t].message) \in Types
  BY <1>2
<1> QED
  BY <1>2, <1>3, <1>4, <1>5, <1>6 DEF Restore
(***************************************************************************)
(* The invariant                                                           *)
(***************************************************************************)
LEMMA InvInit == Init => IInv
<1> SUFFICES ASSUME Init PROVE IInv
  OBVIOUS
<1> USE ConstantFacts DEF Init
<1>1. frame \in [Threads -> AllFrames \cup {NoFrame}]
      /\ \A t \in Threads : frame[t] = NoFrame
  OBVIOUS
<1>2. queued = <<>> /\ handled = <<>> /\ Len(queued) = 0
  BY EmptySeq
<1>3. queued \in Seq(Messages) /\ handled \in Seq(Messages) /\ DOMAIN queued = {}
  BY <1>2, EmptySeq
<1>4. TypeOK
  BY <1>1, <1>3 DEF TypeOK
<1>5. CallingInv /\ MovedInv /\ DestroyedIsQuiet
  BY <1>1 DEF CallingInv, MovedInv, DestroyedIsQuiet, Busy
<1>6. QueuedInv
  BY <1>3 DEF QueuedInv
<1> QED
  BY <1>1, <1>4, <1>5, <1>6 DEF IInv

LEMMA KeptFrames ==
  ASSUME IInv, frame' \in [Threads -> AllFrames \cup {NoFrame}],
         queued' \in Seq(Messages),
         \A t \in Threads : frame'[t] # NoFrame => frame'[t].next \in 1 .. Len(queued)' + 1
  PROVE  \A t \in Threads : frame'[t] = NoFrame \/ frame'[t] \in Frames'
<1> SUFFICES ASSUME NEW t \in Threads, frame'[t] # NoFrame
             PROVE  frame'[t] \in [message : Messages, next : 1 .. Len(queued)' + 1,
                                   handler : Handlers]
  BY DEF Frames
<1>1. frame'[t] \in AllFrames /\ frame'[t].next \in 1 .. Len(queued)' + 1
  OBVIOUS
<1> QED
  BY <1>1 DEF AllFrames

LEMMA InvReceive ==
  ASSUME IInv, NEW t \in Threads, NEW m \in Messages, Receive(t, m)
  PROVE  IInv'
<1> USE ConstantFacts
<1>1. /\ handlers \in [Types -> Handlers \cup {NoHandler, Moved}]
      /\ queued \in Seq(Messages) /\ handled \in Seq(Messages)
      /\ frame \in [Threads -> AllFrames \cup {NoFrame}]
      /\ arrived' \subseteq Messages /\ destructor' = destructor
      /\ asked' = asked /\ asked \in [Types -> Handlers \cup {NoHandler, Moved}]
      /\ destructor \in {"no", "waiting", "past"}
      /\ Len(queued) \in Nat /\ DOMAIN queued = 1 .. Len(queued)
  BY LenProperties DEF IInv, TypeOK, Receive
<1>2. CASE calling
  <2>1. /\ queued' = Append(queued, m)
        /\ UNCHANGED <<handlers, calling, frame, handled>>
    BY <1>2 DEF Receive
  <2>2. /\ queued' \in Seq(Messages) /\ Len(queued') = Len(queued) + 1
        /\ DOMAIN queued' = 1 .. Len(queued) + 1
        /\ \A i \in 1 .. Len(queued) : queued'[i] = queued[i]
        /\ queued'[Len(queued) + 1] = m
    BY <1>1, <2>1, AppendProperties, LenProperties
  <2>3. \A u \in Threads : frame'[u] # NoFrame => frame'[u].next \in 1 .. Len(queued)' + 1
    BY <1>1, <2>1, <2>2, RestoreTypes
  <2>4. \A u \in Threads : frame'[u] = NoFrame \/ frame'[u] \in Frames'
    BY <1>1, <2>1, <2>2, <2>3, KeptFrames
  <2>5. TypeOK'
    BY <1>1, <1>2, <2>1, <2>2, <2>4 DEF TypeOK
  <2>6. CallingInv' /\ MovedInv'
    BY <2>1 DEF IInv, CallingInv, MovedInv, Busy
  <2>7. DestroyedIsQuiet'
    BY <1>1, <2>1 DEF IInv, DestroyedIsQuiet, Busy
  <2>8. QueuedInv'
    <3> SUFFICES ASSUME AlwaysHandled
                 PROVE  \A i \in 1 .. Len(queued) + 1 : handlers[Type(queued'[i])] # NoHandler
      BY <1>2, <2>1, <2>2 DEF QueuedInv
    <3>1. \A i \in 1 .. Len(queued) : handlers[Type(queued[i])] # NoHandler
      BY <1>1 DEF IInv, QueuedInv
    <3>2. handlers[Type(m)] # NoHandler
      BY <1>2 DEF Receive, IInv, DestroyedIsQuiet, CallingInv
    <3> QED
      BY <1>1, <2>2, <3>1, <3>2, SMTT(30)
  <2> QED
    BY <1>1, <2>1, <2>5, <2>6, <2>7, <2>8 DEF IInv
<1>3. CASE ~calling
  <2>1. Turn(t, m, 1, handlers) /\ queued' = queued /\ frame[t] = NoFrame
    BY <1>3 DEF Receive
  <2>2. \A u \in Threads : frame[u] = NoFrame
    BY <1>3 DEF IInv, CallingInv, Busy
  <2>3. handlers \in [Types -> Handlers \cup {NoHandler}]
    BY <1>1, <2>2 DEF IInv, MovedInv
  <2>4. /\ handlers' \in [Types -> Handlers \cup {NoHandler, Moved}]
        /\ calling' \in BOOLEAN
        /\ handled' \in Seq(Messages)
        /\ frame' \in [Threads -> AllFrames \cup {NoFrame}]
        /\ CallingInv'
        /\ \A y \in Types : handlers'[y] = Moved =>
              frame'[t] # NoFrame /\ Type(frame'[t].message) = y
        /\ \A u \in Threads : frame'[u] # NoFrame => frame'[u].next = 1
        /\ \A y \in Types : handlers'[y] = NoHandler <=> handlers[y] = NoHandler
        /\ ~calling' => handlers[Type(m)] = NoHandler
        /\ calling' <=> frame'[t] # NoFrame
    BY <2>1, <2>2, <2>3, TurnTypes
  <2>5. \A u \in Threads : frame'[u] = NoFrame \/ frame'[u] \in Frames'
    BY <1>1, <2>1, <2>4, KeptFrames
  <2>6. TypeOK'
    BY <1>1, <2>1, <2>4, <2>5 DEF TypeOK
  <2>7. MovedInv'
    BY <2>4 DEF MovedInv
  <2>8. DestroyedIsQuiet'
    <3> SUFFICES ASSUME destructor = "past"
                 PROVE  ~Busy' /\ \A y \in Types : handlers'[y] = NoHandler
      BY <1>1 DEF DestroyedIsQuiet
    <3>1. \A y \in Types : handlers[y] = NoHandler /\ handlers'[y] = NoHandler
      BY <2>4 DEF IInv, DestroyedIsQuiet
    <3>2. Turn(t, m, 1, handlers) => calling' = FALSE
      BY <3>1 DEF Turn, Return
    <3> QED
      BY <2>1, <2>4, <3>1, <3>2 DEF CallingInv
  <2>9. QueuedInv'
    BY <1>3, <2>1, <2>4 DEF IInv, QueuedInv
  <2> QED
    BY <2>4, <2>6, <2>7, <2>8, <2>9 DEF IInv
<1> QED
  BY <1>2, <1>3

LEMMA InvHandlerReturns ==
  ASSUME IInv, NEW t \in Threads, HandlerReturns(t)
  PROVE  IInv'
<1> USE ConstantFacts
<1>1. /\ queued \in Seq(Messages) /\ handled \in Seq(Messages)
      /\ frame \in [Threads -> AllFrames \cup {NoFrame}]
      /\ arrived' = arrived /\ destructor' = destructor /\ arrived \subseteq Messages
      /\ asked' = asked /\ asked \in [Types -> Handlers \cup {NoHandler, Moved}]
      /\ destructor \in {"no", "waiting", "past"}
      /\ Len(queued) \in Nat /\ DOMAIN queued = 1 .. Len(queued)
  BY LenProperties DEF IInv, TypeOK, HandlerReturns
<1>2. frame[t] # NoFrame
  BY DEF HandlerReturns
<1> DEFINE f == frame[t]
           hs == Restore(f)
<1>3. /\ f.message \in Messages /\ f.next \in 1 .. Len(queued) + 1
      /\ hs \in [Types -> Handlers \cup {NoHandler}]
      /\ \A y \in Types : hs[y] = NoHandler <=> handlers[y] = NoHandler
      /\ \A u \in Threads \ {t} : frame[u] = NoFrame
      /\ calling
  BY <1>2, RestoreTypes
<1>4. destructor # "past"
  BY <1>2 DEF IInv, DestroyedIsQuiet, Busy
<1>5. CASE LastCall(f)
  <2>1. /\ handlers' = hs /\ queued' = <<>> /\ calling' = FALSE
        /\ frame' = [frame EXCEPT ![t] = NoFrame] /\ handled' = handled
    BY <1>5 DEF HandlerReturns, Return
  <2>2. \A u \in Threads : frame'[u] = NoFrame
    BY <1>1, <1>3, <2>1
  <2>3. TypeOK' /\ frame' \in [Threads -> AllFrames \cup {NoFrame}]
    BY <1>1, <1>3, <2>1, <2>2, EmptySeq DEF TypeOK
  <2>4. CallingInv' /\ DestroyedIsQuiet'
    BY <1>1, <1>4, <2>1, <2>2 DEF CallingInv, DestroyedIsQuiet, Busy
  <2>5. MovedInv'
    BY <1>3, <2>1 DEF MovedInv
  <2>6. QueuedInv'
    BY <2>1 DEF QueuedInv
  <2> QED
    BY <2>3, <2>4, <2>5, <2>6 DEF IInv
<1>6. CASE ~LastCall(f)
  <2>1. f.next \in 1 .. Len(queued) /\ queued[f.next] \in Messages
    BY <1>1, <1>3, <1>6, ElementOfSeq DEF LastCall
  <2>2. Turn(t, queued[f.next], f.next + 1, hs) /\ queued' = queued
    BY <1>6 DEF HandlerReturns
  <2>3. f.next + 1 \in Nat \ {0} /\ f.next + 1 \in 1 .. Len(queued) + 1
    BY <1>1, <2>1
  <2>4. /\ handlers' \in [Types -> Handlers \cup {NoHandler, Moved}]
        /\ calling' \in BOOLEAN
        /\ handled' \in Seq(Messages)
        /\ frame' \in [Threads -> AllFrames \cup {NoFrame}]
        /\ CallingInv'
        /\ \A y \in Types : handlers'[y] = Moved =>
              frame'[t] # NoFrame /\ Type(frame'[t].message) = y
        /\ \A u \in Threads : frame'[u] # NoFrame => frame'[u].next = f.next + 1
        /\ \A y \in Types : handlers'[y] = NoHandler <=> hs[y] = NoHandler
        /\ ~calling' => hs[Type(queued[f.next])] = NoHandler
    BY <1>3, <2>1, <2>2, <2>3, TurnTypes
  <2>5. \A u \in Threads : frame'[u] = NoFrame \/ frame'[u] \in Frames'
    BY <1>1, <2>2, <2>3, <2>4, KeptFrames
  <2>6. TypeOK'
    BY <1>1, <2>2, <2>4, <2>5 DEF TypeOK
  <2>7. MovedInv' /\ DestroyedIsQuiet'
    BY <1>1, <1>4, <2>4 DEF MovedInv, DestroyedIsQuiet
  <2>8. QueuedInv'
    <3> SUFFICES ASSUME AlwaysHandled
                 PROVE  calling' /\ \A i \in DOMAIN queued : handlers'[Type(queued[i])] # NoHandler
      BY <2>2 DEF QueuedInv
    <3>1. \A i \in DOMAIN queued : queued[i] \in Messages /\ handlers[Type(queued[i])] # NoHandler
      BY <1>1, ElementOfSeq DEF IInv, QueuedInv
    <3> QED
      BY <1>1, <1>3, <2>1, <2>4, <3>1
  <2> QED
    BY <2>4, <2>6, <2>7, <2>8 DEF IInv
<1> QED
  BY <1>5, <1>6

(* Setting and clearing handlers, and the destructor.                       *)
LEMMA InvHandlers ==
  ASSUME IInv,
         \/ \E y \in Changing, h \in Handlers : SetHandler(y, h)
         \/ \E y \in Changing : ClearHandler(y)
         \/ BeginDestroy
         \/ DropHandlers
  PROVE  IInv'
<1> USE ConstantFacts
<1>1. /\ handlers \in [Types -> Handlers \cup {NoHandler, Moved}]
      /\ queued \in Seq(Messages) /\ handled \in Seq(Messages)
      /\ frame \in [Threads -> AllFrames \cup {NoFrame}]
      /\ Len(queued) \in Nat /\ DOMAIN queued = 1 .. Len(queued)
      /\ \A i \in DOMAIN queued : queued[i] \in Messages
  BY LenProperties, ElementOfSeq DEF IInv, TypeOK
<1>2. UNCHANGED <<calling, queued, frame, arrived, handled>>
  BY DEF SetHandler, ClearHandler, BeginDestroy, DropHandlers
<1>2a. asked' \in [Types -> Handlers \cup {NoHandler, Moved}]
  BY <1>1 DEF SetHandler, ClearHandler, BeginDestroy, DropHandlers, IInv, TypeOK
<1>3. handlers' \in [Types -> Handlers \cup {NoHandler, Moved}]
  BY <1>1 DEF SetHandler, ClearHandler, BeginDestroy, DropHandlers
<1>3a. \A y \in Types : handlers'[y] = Moved => handlers[y] = Moved
  BY <1>1 DEF SetHandler, ClearHandler, BeginDestroy, DropHandlers
<1>3b. destructor' \in {"no", "waiting", "past"}
  BY DEF SetHandler, ClearHandler, BeginDestroy, DropHandlers, IInv, TypeOK
<1>4. TypeOK' /\ CallingInv' /\ MovedInv'
  BY <1>2, <1>2a, <1>3, <1>3a, <1>3b DEF IInv, TypeOK, CallingInv, MovedInv, Busy, Frames
<1>5. DestroyedIsQuiet'
  <2>1. CASE DropHandlers
    BY <1>2, <2>1 DEF DropHandlers, Idle, IInv, CallingInv, DestroyedIsQuiet, Busy
  <2>2. CASE ~DropHandlers
    BY <2>2 DEF SetHandler, ClearHandler, BeginDestroy, DestroyedIsQuiet
  <2> QED
    BY <2>1, <2>2
<1>6. QueuedInv'
  <2> SUFFICES ASSUME AlwaysHandled, NEW i \in DOMAIN queued
               PROVE  handlers'[Type(queued[i])] # NoHandler
    BY <1>2 DEF IInv, QueuedInv
  <2>1. handlers[Type(queued[i])] # NoHandler /\ calling
    BY <1>1 DEF IInv, QueuedInv
  <2>2. Type(queued[i]) \in Types
    BY <1>1
  <2> QED
    BY <1>1, <2>1, <2>2 DEF SetHandler, ClearHandler, BeginDestroy, DropHandlers, Idle
<1> QED
  BY <1>1, <1>2, <1>4, <1>5, <1>6 DEF IInv

LEMMA InvNext == IInv /\ [Next]_vars => IInv'
<1>1. ASSUME IInv, UNCHANGED vars PROVE IInv'
  BY <1>1 DEF vars, IInv, TypeOK, Frames, CallingInv, MovedInv, DestroyedIsQuiet, QueuedInv, Busy
<1>2. ASSUME IInv, Next PROVE IInv'
  BY <1>2, InvReceive, InvHandlerReturns, InvHandlers DEF Next
<1> QED
  BY <1>1, <1>2

(* The state of an endpoint is what its members are declared to hold, and   *)
(* one thread at most is in a handler, as calling_handler_ says.            *)
THEOREM Invariance == Spec => []IInv
BY InvInit, InvNext, PTL DEF Spec

(* No handler runs, and none starts, once the destructor is past its wait.  *)
THEOREM Quiet == Spec => []DestroyedIsQuiet
<1>1. IInv => DestroyedIsQuiet
  BY DEF IInv
<1> QED
  BY <1>1, Invariance, PTL

(* A turn of the loop of Receive calls what the map has, and keeps what it  *)
(* has of the other types.                                                 *)
LEMMA AskedTurn ==
  ASSUME IInv, NEW t \in Threads, NEW m \in Messages, NEW i \in Nat \ {0},
         NEW hs \in [Types -> Handlers \cup {NoHandler}],
         \A u \in Threads \ {t} : frame[u] = NoFrame,
         Turn(t, m, i, hs), UNCHANGED <<destructor, asked>>,
         \A y \in Types : hs[y] = NoHandler <=> asked[y] = NoHandler,
         \A y \in Types : asked[y] \in Handlers => hs[y] = asked[y]
  PROVE  KeepsWhatWasAsked'
<1> USE ConstantFacts
<1>1. frame \in [Threads -> AllFrames \cup {NoFrame}] /\ Type(m) \in Types
  BY DEF IInv
<1>2. CASE hs[Type(m)] # NoHandler
  <2>1. /\ handlers' = [hs EXCEPT ![Type(m)] = Moved]
        /\ frame' = [frame EXCEPT ![t] = [message |-> m, next |-> i, handler |-> hs[Type(m)]]]
    BY <1>2 DEF Turn, Call
  <2>2. \A u \in Threads : frame'[u] # NoFrame =>
          frame'[u].message = m /\ frame'[u].handler = hs[Type(m)]
    BY <1>1, <2>1
  <2> QED
    BY <1>1, <1>2, <2>1, <2>2 DEF KeepsWhatWasAsked
<1>3. CASE hs[Type(m)] = NoHandler
  <2>1. handlers' = hs /\ \A u \in Threads : frame'[u] = NoFrame
    BY <1>1, <1>3 DEF Turn, Return
  <2> QED
    BY <2>1 DEF KeepsWhatWasAsked
<1> QED
  BY <1>2, <1>3

(* What goes back when a handler returns is what was asked for.             *)
LEMMA AskedRestore ==
  ASSUME IInv, KeepsWhatWasAsked, destructor # "past", NEW t \in Threads, frame[t] # NoFrame,
         NEW y \in Types
  PROVE  /\ Restore(frame[t])[y] = NoHandler <=> asked[y] = NoHandler
         /\ asked[y] \in Handlers => Restore(frame[t])[y] = asked[y]
<1> DEFINE hs == Restore(frame[t])
<1> USE ConstantFacts
<1>1. /\ frame[t].message \in Messages /\ frame[t].handler \in Handlers
      /\ hs \in [Types -> Handlers \cup {NoHandler}]
      /\ hs[y] = NoHandler <=> handlers[y] = NoHandler
      /\ handlers \in [Types -> Handlers \cup {NoHandler, Moved}]
  BY RestoreTypes DEF IInv, TypeOK
<1>2. hs[y] = NoHandler <=> asked[y] = NoHandler
  BY <1>1 DEF KeepsWhatWasAsked
<1>3. ASSUME asked[y] \in Handlers PROVE hs[y] = asked[y]
  <2>1. handlers[y] \in {asked[y], Moved}
    BY <1>3 DEF KeepsWhatWasAsked
  <2>2. CASE y = Type(frame[t].message)
    BY <1>1, <1>3, <2>1, <2>2 DEF KeepsWhatWasAsked, Restore
  <2>3. CASE y # Type(frame[t].message)
    <3>1. hs[y] = handlers[y]
      BY <1>1, <2>3 DEF Restore
    <3> QED
      BY <1>1, <2>1, <3>1
  <2> QED
    BY <2>2, <2>3
<1> QED
  BY <1>2, <1>3

LEMMA AskedNext == IInv /\ KeepsWhatWasAsked /\ [Next]_vars => KeepsWhatWasAsked'
<1> USE ConstantFacts
<1>1. ASSUME IInv, KeepsWhatWasAsked, UNCHANGED vars PROVE KeepsWhatWasAsked'
  BY <1>1 DEF vars, KeepsWhatWasAsked
<1>2. ASSUME IInv, KeepsWhatWasAsked, Next, destructor' # "past" PROVE KeepsWhatWasAsked'
  <2>1. /\ handlers \in [Types -> Handlers \cup {NoHandler, Moved}]
        /\ frame \in [Threads -> AllFrames \cup {NoFrame}]
        /\ asked \in [Types -> Handlers \cup {NoHandler, Moved}]
        /\ queued \in Seq(Messages)
    BY <1>2 DEF IInv, TypeOK
  <2>2. destructor # "past"
    BY <1>2 DEF Next, Receive, HandlerReturns, SetHandler, ClearHandler, BeginDestroy, DropHandlers
  <2>3. ASSUME NEW t \in Threads, NEW m \in Messages, Receive(t, m) PROVE KeepsWhatWasAsked'
    <3>1. CASE calling
      BY <1>2, <2>3, <3>1 DEF Receive, KeepsWhatWasAsked
    <3>2. CASE ~calling
      <4>1. Turn(t, m, 1, handlers) /\ UNCHANGED <<destructor, asked>>
        BY <2>3, <3>2 DEF Receive
      <4>2. \A u \in Threads : frame[u] = NoFrame
        BY <1>2, <3>2 DEF IInv, CallingInv, Busy
      <4>3. handlers \in [Types -> Handlers \cup {NoHandler}]
        BY <1>2, <2>1, <4>2 DEF IInv, MovedInv
      <4>4. \A y \in Types : /\ handlers[y] = NoHandler <=> asked[y] = NoHandler
                             /\ asked[y] \in Handlers => handlers[y] = asked[y]
        BY <1>2, <2>2, <4>3 DEF KeepsWhatWasAsked
      <4> QED
        BY <1>2, <4>1, <4>2, <4>3, <4>4, AskedTurn
    <3> QED
      BY <3>1, <3>2
  <2>4. ASSUME NEW t \in Threads, HandlerReturns(t) PROVE KeepsWhatWasAsked'
    <3>1. frame[t] # NoFrame /\ UNCHANGED <<destructor, asked>>
      BY <2>4 DEF HandlerReturns
    <3> DEFINE hs == Restore(frame[t])
    <3>2. /\ hs \in [Types -> Handlers \cup {NoHandler}]
          /\ \A u \in Threads \ {t} : frame[u] = NoFrame
          /\ frame[t].next \in 1 .. Len(queued) + 1
      BY <1>2, <3>1, RestoreTypes
    <3>3. \A y \in Types : /\ hs[y] = NoHandler <=> asked[y] = NoHandler
                           /\ asked[y] \in Handlers => hs[y] = asked[y]
      BY <1>2, <2>2, <3>1, AskedRestore
    <3>4. CASE LastCall(frame[t])
      <4>1. handlers' = hs /\ \A u \in Threads : frame'[u] = NoFrame
        BY <2>1, <2>4, <3>2, <3>4 DEF HandlerReturns, Return
      <4> QED
        BY <3>1, <3>3, <4>1 DEF KeepsWhatWasAsked
    <3>5. CASE ~LastCall(frame[t])
      <4>1. /\ Turn(t, queued[frame[t].next], frame[t].next + 1, hs)
            /\ frame[t].next + 1 \in Nat \ {0}
            /\ queued[frame[t].next] \in Messages
        BY <2>1, <2>4, <3>2, <3>5, ElementOfSeq, LenProperties DEF HandlerReturns, LastCall
      <4> HIDE DEF hs
      <4> QED
        BY <1>2, <3>1, <3>2, <3>3, <4>1, AskedTurn
    <3> QED
      BY <3>4, <3>5
  <2>5. ASSUME NEW y \in Changing, NEW h \in Handlers, SetHandler(y, h)
        PROVE  KeepsWhatWasAsked'
    <3>1. /\ handlers' = [handlers EXCEPT ![y] = h] /\ frame' = frame
          /\ asked' = [asked EXCEPT ![y] = IF Running(y) THEN Moved ELSE h]
      BY <2>5 DEF SetHandler
    <3>2. ASSUME NEW t \in Threads, frame[t] # NoFrame, asked'[Type(frame[t].message)] \in Handlers
          PROVE  frame[t].handler = asked'[Type(frame[t].message)]
      <4>1. Type(frame[t].message) \in Types
        BY <1>2, <3>2, RestoreTypes
      <4>2. CASE Type(frame[t].message) = y
        <5>1. Running(y)
          BY <3>2, <4>2 DEF Running
        <5> QED
          BY <2>1, <3>1, <3>2, <4>2, <5>1
      <4>3. CASE Type(frame[t].message) # y
        BY <1>2, <2>1, <2>2, <3>1, <3>2, <4>1, <4>3 DEF KeepsWhatWasAsked
      <4> QED
        BY <4>2, <4>3
    <3>3. \A z \in Types :
            /\ handlers'[z] = NoHandler <=> asked'[z] = NoHandler
            /\ asked'[z] \in Handlers => handlers'[z] \in {asked'[z], Moved}
      BY <1>2, <2>1, <2>2, <3>1 DEF KeepsWhatWasAsked
    <3> QED
      BY <3>1, <3>2, <3>3 DEF KeepsWhatWasAsked
  <2>6. ASSUME NEW y \in Changing, ClearHandler(y) PROVE KeepsWhatWasAsked'
    <3>1. /\ handlers' = [handlers EXCEPT ![y] = NoHandler] /\ frame' = frame
          /\ asked' = [asked EXCEPT ![y] = NoHandler]
      BY <2>6 DEF ClearHandler
    <3>2. \A t \in Threads : frame[t] # NoFrame => Type(frame[t].message) \in Types
      BY <1>2, RestoreTypes
    <3> QED
      BY <1>2, <2>1, <2>2, <3>1, <3>2 DEF KeepsWhatWasAsked
  <2>7. CASE BeginDestroy
    BY <1>2, <2>2, <2>7 DEF BeginDestroy, KeepsWhatWasAsked
  <2>8. CASE DropHandlers
    BY <1>2, <2>8 DEF DropHandlers
  <2> QED
    BY <1>2, <2>3, <2>4, <2>5, <2>6, <2>7, <2>8 DEF Next
<1>3. ASSUME destructor' = "past" PROVE KeepsWhatWasAsked'
  BY <1>3 DEF KeepsWhatWasAsked
<1> QED
  BY <1>1, <1>2, <1>3

(* A handler that was cleared, during its own call too, does not come back  *)
(* until one is set; and what was set while none of its type ran is what   *)
(* is called and kept, whatever is delivered, queued and returns meanwhile. *)
(* (One set while a handler of its type runs is lost when that returns.)   *)
THEOREM Kept == Spec => []KeepsWhatWasAsked
<1>1. Init => KeepsWhatWasAsked
  BY DEF Init, KeepsWhatWasAsked
<1> QED
  BY <1>1, AskedNext, Invariance, PTL DEF Spec
(***************************************************************************)
(* The refinement: the frame of the handler being called says how much of  *)
(* the queue is still to be handled.                                       *)
(***************************************************************************)
Inbox    == IF Busy THEN SubSeq(queued, frame[Frame].next, Len(queued)) ELSE queued
Handling == IF Busy THEN frame[Frame].message ELSE NoFrame

(* What the mailbox holds while a handler is called, and while none is.     *)
LEMMA BoxState ==
  IInv =>
    /\ \A t \in Threads : frame[t] # NoFrame =>
         /\ Inbox = SubSeq(queued, frame[t].next, Len(queued))
         /\ Handling = frame[t].message /\ Handling # NoFrame
    /\ ~Busy /\ AlwaysHandled => Inbox = <<>> /\ Handling = NoFrame
<1> SUFFICES ASSUME IInv
             PROVE  /\ \A t \in Threads : frame[t] # NoFrame =>
                         /\ Inbox = SubSeq(queued, frame[t].next, Len(queued))
                         /\ Handling = frame[t].message /\ Handling # NoFrame
                    /\ ~Busy /\ AlwaysHandled => Inbox = <<>> /\ Handling = NoFrame
  OBVIOUS
<1>1. ASSUME NEW t \in Threads, frame[t] # NoFrame
      PROVE  /\ Inbox = SubSeq(queued, frame[t].next, Len(queued))
             /\ Handling = frame[t].message /\ Handling # NoFrame
  <2>1. \A u \in Threads : frame[u] # NoFrame => u = t
    BY <1>1 DEF IInv, CallingInv
  <2>2. Frame = t
    BY <1>1, <2>1 DEF Frame
  <2>3. Busy
    BY <1>1 DEF Busy
  <2>4. frame[t].message \in Messages
    BY <1>1, RestoreTypes
  <2> QED
    BY <2>2, <2>3, <2>4, ConstantFacts DEF Inbox, Handling
<1>2. ASSUME ~Busy, AlwaysHandled PROVE Inbox = <<>> /\ Handling = NoFrame
  BY <1>2 DEF Inbox, Handling, IInv, CallingInv, QueuedInv
<1> QED
  BY <1>1, <1>2

LEMMA BoxStateNext ==
  IInv' =>
    /\ \A t \in Threads : frame'[t] # NoFrame =>
         /\ Inbox' = SubSeq(queued', frame'[t].next, Len(queued'))
         /\ Handling' = frame'[t].message /\ Handling' # NoFrame
    /\ ~Busy' /\ AlwaysHandled => Inbox' = <<>> /\ Handling' = NoFrame
<1>1. (IInv =>
    /\ \A t \in Threads : frame[t] # NoFrame =>
         /\ Inbox = SubSeq(queued, frame[t].next, Len(queued))
         /\ Handling = frame[t].message /\ Handling # NoFrame
    /\ ~Busy /\ AlwaysHandled => Inbox = <<>> /\ Handling = NoFrame)'
  BY BoxState, PTL
<1> QED
  BY <1>1

(* What is appended to a queue is appended to what is left of it.           *)
LEMMA AppendRest ==
  ASSUME NEW S, NEW s \in Seq(S), NEW e \in S, NEW i \in 1 .. Len(s) + 1
  PROVE  SubSeq(Append(s, e), i, Len(Append(s, e))) = Append(SubSeq(s, i, Len(s)), e)
<1> DEFINE a == Append(s, e)
           l == SubSeq(a, i, Len(a))
           r == SubSeq(s, i, Len(s))
<1>1. /\ a \in Seq(S) /\ Len(s) \in Nat /\ Len(a) = Len(s) + 1
      /\ \A k \in 1 .. Len(s) : a[k] = s[k] /\ s[k] \in S
      /\ a[Len(s) + 1] = e
  BY AppendProperties, LenProperties, ElementOfSeq
<1>2. \A k \in i .. Len(a) : a[k] \in S
  BY <1>1
<1>3. \A k \in i .. Len(s) : s[k] \in S
  BY <1>1
<1>4. /\ l \in Seq(S) /\ Len(l) = Len(a) - i + 1
      /\ \A k \in 1 .. Len(a) - i + 1 : l[k] = a[i + k - 1]
  <2> HIDE DEF a
  <2>1. i \in Int /\ Len(a) \in Int /\ i <= Len(a)
    BY <1>1
  <2> QED
    BY <1>2, <2>1, SubSeqProperties
<1>5. /\ r \in Seq(S) /\ Len(r) = Len(s) - i + 1
      /\ \A k \in 1 .. Len(s) - i + 1 : r[k] = s[i + k - 1]
  <2>1. /\ r \in Seq(S) /\ Len(r) = IF i <= Len(s) THEN Len(s) - i + 1 ELSE 0
        /\ \A k \in 1 .. Len(s) - i + 1 : r[k] = s[i + k - 1]
    BY <1>1, <1>3, SubSeqProperties
  <2> QED
    BY <1>1, <2>1
<1>6. /\ Append(r, e) \in Seq(S) /\ Len(Append(r, e)) = Len(r) + 1
      /\ \A k \in 1 .. Len(r) : Append(r, e)[k] = r[k]
      /\ Append(r, e)[Len(r) + 1] = e
  BY <1>5, AppendProperties
<1> HIDE DEF a, l, r
<1>7. \A k \in 1 .. Len(l) : l[k] = Append(r, e)[k]
  <2> SUFFICES ASSUME NEW k \in 1 .. Len(l) PROVE l[k] = Append(r, e)[k]
    OBVIOUS
  <2>1. l[k] = a[i + k - 1]
    BY <1>1, <1>4
  <2>2. CASE k = Len(l)
    BY <1>1, <1>4, <1>5, <1>6, <2>1, <2>2
  <2>3. CASE k # Len(l)
    <3>1. Len(l) = Len(r) + 1 /\ k \in 1 .. Len(r)
      <4>1. /\ i \in 1 .. Len(s) + 1 /\ Len(s) \in Nat /\ k \in 1 .. Len(l)
            /\ Len(l) = Len(s) + 1 - i + 1 /\ Len(r) = Len(s) - i + 1
        BY <1>1, <1>4, <1>5
      <4> QED
        BY <2>3, <4>1
    <3>2. i + k - 1 \in 1 .. Len(s)
      BY <1>1, <1>5, <3>1
    <3>3. k \in 1 .. Len(s) - i + 1
      BY <1>5, <3>1
    <3>4. Append(r, e)[k] = r[k]
      BY <1>6, <3>1
    <3>5. r[k] = s[i + k - 1]
      BY <1>5, <3>3
    <3>6. a[i + k - 1] = s[i + k - 1]
      BY <1>1, <3>2
    <3> QED
      BY <2>1, <3>4, <3>5, <3>6
  <2> QED
    BY <2>2, <2>3
<1>8. l = Append(r, e)
  <2>1. Len(l) = Len(Append(r, e))
    BY <1>1, <1>4, <1>5, <1>6
  <2>2. l \in Seq(S) /\ Append(r, e) \in Seq(S)
    BY <1>4, <1>6
  <2> HIDE DEF a, l, r
  <2> QED
    BY <1>7, <2>1, <2>2, SeqEqual
<1> QED
  BY <1>8 DEF a, l, r

(* A message that is delivered is handled at once or put into the mailbox,  *)
(* and dropped once the endpoint is destroyed.                             *)
LEMMA BoxReceive ==
  ASSUME AlwaysHandled, IInv, IInv', NEW t \in Threads, NEW m \in Messages, Receive(t, m)
  PROVE  Box!Receive(m) \/ UNCHANGED Box!vars
<1> USE ConstantFacts
<1>1. destructor' = destructor /\ queued \in Seq(Messages)
  BY DEF Receive, IInv, TypeOK
<1>2. CASE calling
  <2>1. queued' = Append(queued, m) /\ UNCHANGED <<handlers, calling, frame, handled>>
    BY <1>2 DEF Receive
  <2>2. PICK u \in Threads : frame[u] # NoFrame
    BY <1>2 DEF IInv, CallingInv, Busy
  <2>3. /\ Inbox = SubSeq(queued, frame[u].next, Len(queued))
        /\ Inbox' = SubSeq(queued', frame[u].next, Len(queued'))
        /\ Handling # NoFrame /\ Handling' = Handling
    BY <2>1, <2>2, BoxState, BoxStateNext
  <2>4. frame[u].next \in 1 .. Len(queued) + 1
    BY <2>2, RestoreTypes
  <2>5. Inbox' = Append(Inbox, m)
    BY <1>1, <2>1, <2>3, <2>4, AppendRest
  <2>6. destructor # "past"
    BY <2>2 DEF IInv, DestroyedIsQuiet, Busy
  <2> QED
    BY <1>1, <2>1, <2>3, <2>5, <2>6 DEF Box!Receive, Inbox, Handling
<1>3. CASE ~calling /\ destructor # "past"
  <2>1. /\ Turn(t, m, 1, handlers) /\ queued' = queued /\ frame[t] = NoFrame
        /\ handlers[Type(m)] # NoHandler
    BY <1>3 DEF Receive
  <2>2. /\ handled' = Append(handled, m) /\ calling' = TRUE
        /\ frame' = [frame EXCEPT ![t] = [message |-> m, next |-> 1,
                                          handler |-> handlers[Type(m)]]]
    BY <2>1 DEF Turn, Call
  <2>3. frame'[t].message = m /\ frame'[t].next = 1 /\ frame'[t] # NoFrame
    <3>1. frame'[t] = [message |-> m, next |-> 1, handler |-> handlers[Type(m)]]
      BY <2>2 DEF IInv
    <3>2. handlers[Type(m)] \in Handlers
      <4>1. ~Busy
        BY <1>3 DEF IInv, CallingInv
      <4> QED
        BY <2>1, <4>1 DEF IInv, TypeOK, MovedInv, Busy
    <3> QED
      BY <3>1, <3>2 DEF AllFrames
  <2>4. ~Busy /\ Inbox = <<>> /\ Handling = NoFrame /\ queued = <<>>
    BY <1>3, BoxState DEF IInv, CallingInv, QueuedInv
  <2>5. Handling' = m /\ Inbox' = SubSeq(<<>>, 1, Len(<<>>))
    BY <2>1, <2>3, <2>4, BoxStateNext
  <2>6. Inbox' = <<>>
    BY <2>5, SubSeqEmpty, EmptySeq
  <2> QED
    BY <1>1, <1>3, <2>2, <2>4, <2>5, <2>6 DEF Box!Receive, Box!Begin, Inbox, Handling
<1>4. CASE ~calling /\ destructor = "past"
  <2>1. Turn(t, m, 1, handlers) /\ queued' = queued /\ frame[t] = NoFrame
    BY <1>4 DEF Receive
  <2>2. handlers[Type(m)] = NoHandler
    BY <1>4 DEF IInv, DestroyedIsQuiet
  <2>3. handled' = handled /\ frame' = [frame EXCEPT ![t] = NoFrame]
    BY <2>1, <2>2 DEF Turn, Return
  <2>4. frame' = frame
    BY <2>1, <2>3 DEF IInv
  <2> QED
    BY <1>1, <2>1, <2>3, <2>4 DEF Box!vars, Busy, Frame
<1> QED
  BY <1>2, <1>3, <1>4

(* When a handler returns, the next message of the mailbox is handled.      *)
LEMMA BoxHandlerReturns ==
  ASSUME AlwaysHandled, IInv, IInv', NEW t \in Threads, HandlerReturns(t)
  PROVE  Box!Finish
<1> USE ConstantFacts
<1>1. /\ frame[t] # NoFrame /\ destructor' = destructor
      /\ queued \in Seq(Messages) /\ Len(queued) \in Nat /\ DOMAIN queued = 1 .. Len(queued)
      /\ frame \in [Threads -> AllFrames \cup {NoFrame}]
  BY LenProperties DEF HandlerReturns, IInv, TypeOK
<1>2. PICK f \in AllFrames : f = frame[t]
  BY <1>1
<1>3. /\ f.next \in 1 .. Len(queued) + 1 /\ f.message \in Messages
      /\ Restore(f) \in [Types -> Handlers \cup {NoHandler}]
      /\ \A y \in Types : Restore(f)[y] = NoHandler <=> handlers[y] = NoHandler
      /\ \A u \in Threads \ {t} : frame[u] = NoFrame
  BY <1>1, <1>2, RestoreTypes
<1>4. Inbox = SubSeq(queued, f.next, Len(queued)) /\ Handling # NoFrame
  BY <1>1, <1>2, BoxState
<1>5. CASE LastCall(f)
  <2>1. Inbox = <<>>
    BY <1>1, <1>3, <1>4, <1>5, SubSeqEmpty DEF LastCall
  <2>2. frame' = [frame EXCEPT ![t] = NoFrame] /\ handled' = handled
    BY <1>2, <1>5 DEF HandlerReturns, Return
  <2>3. ~Busy'
    BY <1>1, <1>3, <2>2 DEF Busy
  <2>4. Inbox' = <<>> /\ Handling' = NoFrame
    BY <2>3, BoxStateNext
  <2> QED
    BY <1>1, <1>4, <2>1, <2>2, <2>4 DEF Box!Finish, Inbox, Handling
<1>6. CASE ~LastCall(f)
  <2>1. PICK m \in Messages : m = queued[f.next]
    BY <1>1, <1>3, <1>6, ElementOfSeq DEF LastCall
  <2>2. f.next \in 1 .. Len(queued)
    BY <1>1, <1>3, <1>6 DEF LastCall
  <2>3. Turn(t, m, f.next + 1, Restore(f)) /\ queued' = queued
    BY <1>2, <1>6, <2>1 DEF HandlerReturns
  <2>4. handlers[Type(m)] # NoHandler
    BY <1>1, <2>1, <2>2 DEF IInv, QueuedInv
  <2>5. PICK h \in Handlers : h = Restore(f)[Type(m)] /\ h # NoHandler
    BY <1>3, <2>4
  <2>6. /\ handled' = Append(handled, m)
        /\ frame' = [frame EXCEPT ![t] = [message |-> m, next |-> f.next + 1, handler |-> h]]
    BY <2>3, <2>5 DEF Turn, Call
  <2>7. /\ frame'[t] = [message |-> m, next |-> f.next + 1, handler |-> h]
        /\ frame'[t] # NoFrame
    BY <1>1, <1>2, <2>6 DEF AllFrames
  <2>8. Inbox' = SubSeq(queued, f.next + 1, Len(queued)) /\ Handling' = m
    BY <2>3, <2>7, BoxStateNext
  <2>9. /\ Head(Inbox) = m /\ Tail(Inbox) = SubSeq(queued, f.next + 1, Len(queued))
    <3>1. Len(queued) \in f.next .. Len(queued)
      BY <1>1, <2>2
    <3>2. /\ Head(SubSeq(queued, f.next, Len(queued))) = queued[f.next]
          /\ Tail(SubSeq(queued, f.next, Len(queued))) = SubSeq(queued, f.next + 1, Len(queued))
      BY <1>1, <2>2, <3>1, HeadTailOfSubSeq
    <3> QED
      BY <1>4, <2>1, <3>2
  <2>10. Inbox # <<>>
    <3>1. \A i \in f.next .. Len(queued) : queued[i] \in Messages
      BY <1>1, <2>2, ElementOfSeq
    <3>2. Len(Inbox) = Len(queued) - f.next + 1
      BY <1>1, <1>4, <2>2, <3>1, SubSeqProperties
    <3> QED
      BY <1>1, <2>2, <3>2, EmptySeq
  <2> QED
    BY <1>1, <1>4, <2>6, <2>8, <2>9, <2>10 DEF Box!Finish, Box!Begin, Inbox, Handling
<1> QED
  BY <1>5, <1>6

(* The endpoint implements the mailbox: every message it has a handler for  *)
(* is handled once, in the order received, one at a time.                  *)
THEOREM Implements == AlwaysHandled => (Spec => ImplementsMailbox)
<1> SUFFICES ASSUME AlwaysHandled PROVE Spec => ImplementsMailbox
  OBVIOUS
<1>1. Init => Box!Init
  BY DEF Init, Box!Init, Busy
<1>2. IInv /\ IInv' /\ [Next]_vars => [Box!Next]_(Box!vars)
  <2> SUFFICES ASSUME IInv, IInv', [Next]_vars
               PROVE  Box!Next \/ UNCHANGED Box!vars
    OBVIOUS
  <2>1. ASSUME NEW t \in Threads, NEW m \in Messages, Receive(t, m)
        PROVE  Box!Next \/ UNCHANGED Box!vars
    BY <2>1, BoxReceive DEF Box!Next
  <2>2. ASSUME NEW t \in Threads, HandlerReturns(t) PROVE Box!Next
    BY <2>2, BoxHandlerReturns DEF Box!Next
  <2>3. CASE \/ \E y \in Changing, h \in Handlers : SetHandler(y, h)
             \/ \E y \in Changing : ClearHandler(y)
             \/ BeginDestroy
    <3>1. /\ UNCHANGED <<queued, frame, handled>>
          /\ destructor = "past" <=> destructor' = "past"
      BY <2>3 DEF SetHandler, ClearHandler, BeginDestroy
    <3> QED
      BY <3>1 DEF Box!vars, Busy, Frame
  <2>4. CASE DropHandlers
    <3>1. UNCHANGED <<queued, frame, handled>> /\ destructor' = "past" /\ ~calling
      BY <2>4 DEF DropHandlers, Idle
    <3>2. Handling = NoFrame
      BY <3>1, BoxState DEF IInv, CallingInv
    <3> QED
      BY <3>1, <3>2 DEF Box!Next, Box!Close, Busy, Frame, Handling
  <2>5. CASE UNCHANGED vars
    BY <2>5 DEF vars, Box!vars, Busy, Frame
  <2> QED
    BY <2>1, <2>2, <2>3, <2>4, <2>5 DEF Next
<1> QED
  BY <1>1, <1>2, Invariance, PTL DEF Spec, ImplementsMailbox, Box!Spec
-----------------------------------------------------------------------------
(* Dispatchers.                                                            *)

Dispatchers == Dispatcher!Dispatchers

DispatcherTypes ==
  /\ system \in BOOLEAN /\ exit \in BOOLEAN
  /\ added \in [Dispatchers -> Nat]
  /\ messages \in [Dispatchers -> Seq(Nat)]
  /\ batch \in [Dispatchers -> Seq(Nat)]
  /\ dispatched \in [Dispatchers -> Seq(Nat)]
  /\ destroyed \in [Dispatchers -> SUBSET Nat]
  /\ at \in [Dispatchers -> {"out", "locked", "dispatching", "joined", "gone"}]
  /\ cancel \in {"no", "joining", "draining", "done"}

(* A batch is swapped in only when the one before is dispatched, and the   *)
(* thread has left its loop before what it has left is drained.            *)
LoopInv ==
  /\ at["polling"] \in {"out", "gone"} => batch["polling"] = <<>>
  /\ at["thread"] = "locked" => batch["thread"] = <<>>
  /\ exit <=> cancel # "no"
  /\ at["thread"] = "joined" => exit
  /\ at["thread"] = "joined" /\ cancel \in {"joining", "done"} => batch["thread"] = <<>>
  /\ cancel \in {"draining", "done"} => at["thread"] = "joined" /\ messages["thread"] = <<>>

Increasing(s) == \A i, j \in DOMAIN s : i < j => s[i] < s[j]
Before(s, u)  == \A x \in ToSet(s), y \in ToSet(u) : x < y

(* DispatchedInOrder in terms of what is where, without a concatenation.   *)
Placed(s, b, m, gone, n) ==
  /\ Increasing(s) /\ Increasing(b) /\ Increasing(m)
  /\ Before(s, b) /\ Before(s, m) /\ Before(b, m)
  /\ (ToSet(s) \cup ToSet(b) \cup ToSet(m)) \cap gone = {}
  /\ ToSet(s) \cup ToSet(b) \cup ToSet(m) \cup gone = 1 .. n

PlacesInv ==
  \A d \in Dispatchers : Placed(dispatched[d], batch[d], messages[d], destroyed[d], added[d])

DispatcherInv == DispatcherTypes /\ LoopInv /\ PlacesInv

(* What a sequence contains, and whether it increases, after a message is  *)
(* added to its end or taken from its front.                               *)
LEMMA EmptyContains == ToSet(<<>>) = {} /\ Increasing(<<>>)
  BY DEF ToSet, Increasing

LEMMA AppendContains ==
  ASSUME NEW s \in Seq(Nat), NEW e \in Nat
  PROVE  /\ ToSet(Append(s, e)) = ToSet(s) \cup {e}
         /\ Increasing(s) /\ (\A x \in ToSet(s) : x < e) => Increasing(Append(s, e))
<1> DEFINE a == Append(s, e)
<1>1. /\ a \in Seq(Nat) /\ Len(a) = Len(s) + 1 /\ Len(s) \in Nat
      /\ \A i \in 1 .. Len(s) : a[i] = s[i]
      /\ a[Len(s) + 1] = e
  BY AppendProperties
<1>2. DOMAIN a = 1 .. Len(s) + 1 /\ DOMAIN s = 1 .. Len(s)
  BY <1>1
<1> HIDE DEF a
<1>3. ToSet(a) = ToSet(s) \cup {e}
  BY <1>1, <1>2 DEF ToSet
<1>4. ASSUME Increasing(s), \A x \in ToSet(s) : x < e PROVE Increasing(a)
  <2>1. \A i \in DOMAIN s : s[i] < e /\ s[i] \in Nat
    BY <1>2, <1>4 DEF ToSet
  <2> SUFFICES ASSUME NEW i \in DOMAIN a, NEW j \in DOMAIN a, i < j PROVE a[i] < a[j]
    BY DEF Increasing
  <2>2. i \in 1 .. Len(s)
    BY <1>1, <1>2
  <2>3. CASE j = Len(s) + 1
    BY <1>1, <1>2, <2>1, <2>2, <2>3
  <2>4. CASE j # Len(s) + 1
    <3>1. j \in 1 .. Len(s)
      BY <1>1, <1>2, <2>4
    <3> QED
      BY <1>1, <1>2, <1>4, <2>2, <3>1 DEF Increasing
  <2> QED
    BY <2>3, <2>4
<1> QED
  BY <1>3, <1>4 DEF a

LEMMA TailContains ==
  ASSUME NEW s \in Seq(Nat), s # <<>>
  PROVE  /\ Head(s) \in Nat /\ Tail(s) \in Seq(Nat)
         /\ ToSet(s) = {Head(s)} \cup ToSet(Tail(s))
         /\ Increasing(s) => Increasing(Tail(s)) /\ \A x \in ToSet(Tail(s)) : Head(s) < x
<1> DEFINE r == Tail(s)
<1>1. /\ Head(s) \in Nat /\ r \in Seq(Nat) /\ Len(r) = Len(s) - 1 /\ Len(s) \in Nat \ {0}
      /\ \A i \in 1 .. Len(r) : r[i] = s[i + 1]
      /\ Head(s) = s[1]
  BY HeadTailProperties, EmptySeq
<1>2. DOMAIN r = 1 .. Len(s) - 1 /\ DOMAIN s = 1 .. Len(s)
  BY <1>1
<1> HIDE DEF r
<1>3. ToSet(s) = {Head(s)} \cup ToSet(r)
  <2>1. ASSUME NEW x \in ToSet(s) PROVE x = Head(s) \/ x \in ToSet(r)
    <3>1. PICK i \in 1 .. Len(s) : x = s[i]
      BY <1>2, <2>1 DEF ToSet
    <3>2. CASE i = 1
      BY <1>1, <3>1, <3>2
    <3>3. CASE i # 1
      <4>1. i - 1 \in 1 .. Len(r) /\ r[i - 1] = s[i]
        BY <1>1, <3>1, <3>3
      <4> QED
        BY <1>1, <1>2, <3>1, <4>1 DEF ToSet
    <3> QED
      BY <3>2, <3>3
  <2>2. Head(s) \in ToSet(s)
    <3>1. 1 \in DOMAIN s
      BY <1>1, <1>2
    <3> QED
      BY <1>1, <3>1 DEF ToSet
  <2>3. ASSUME NEW x \in ToSet(r) PROVE x \in ToSet(s)
    <3>1. PICK i \in 1 .. Len(r) : x = r[i]
      BY <1>1, <1>2, <2>3 DEF ToSet
    <3>2. i + 1 \in 1 .. Len(s) /\ x = s[i + 1]
      BY <1>1, <3>1
    <3> QED
      BY <1>2, <3>2 DEF ToSet
  <2> QED
    BY <2>1, <2>2, <2>3
<1>4. ASSUME Increasing(s) PROVE Increasing(r) /\ \A x \in ToSet(r) : Head(s) < x
  <2>1. ASSUME NEW i \in DOMAIN r, NEW j \in DOMAIN r, i < j PROVE r[i] < r[j]
    <3>1. i \in 1 .. Len(s) - 1 /\ j \in 1 .. Len(s) - 1
      BY <1>2
    <3>2. i + 1 \in DOMAIN s /\ j + 1 \in DOMAIN s /\ i + 1 < j + 1
      <4> HIDE DEF r
      <4>1. PICK k \in Nat : k = Len(s)
        BY <1>1
      <4>2. i \in 1 .. k - 1 /\ j \in 1 .. k - 1
        BY <3>1, <4>1
      <4>3. i + 1 \in 1 .. k /\ j + 1 \in 1 .. k /\ i + 1 < j + 1
        BY <2>1, <4>2
      <4> QED
        BY <1>2, <4>1, <4>3
    <3>3. r[i] = s[i + 1] /\ r[j] = s[j + 1]
      BY <1>1, <3>1
    <3> QED
      BY <1>4, <3>2, <3>3 DEF Increasing
  <2>2. ASSUME NEW x \in ToSet(r) PROVE Head(s) < x
    <3>1. PICK i \in 1 .. Len(r) : x = r[i]
      BY <1>1, <1>2, <2>2 DEF ToSet
    <3>2. 1 \in DOMAIN s /\ i + 1 \in DOMAIN s /\ 1 < i + 1 /\ x = s[i + 1]
      <4> HIDE DEF r
      <4>1. PICK k \in Nat \ {0} : k = Len(s)
        BY <1>1
      <4>2. i \in 1 .. k - 1
        BY <1>1, <4>1
      <4>3. 1 \in 1 .. k /\ i + 1 \in 1 .. k /\ 1 < i + 1
        BY <4>2
      <4> QED
        BY <1>1, <1>2, <3>1, <4>1, <4>3
    <3> QED
      BY <1>1, <1>4, <3>2 DEF Increasing
  <2> QED
    BY <2>1, <2>2 DEF Increasing
<1> QED
  BY <1>1, <1>3, <1>4 DEF r

LEMMA ConcatContains ==
  ASSUME NEW s \in Seq(Nat), NEW u \in Seq(Nat)
  PROVE  /\ s \o u \in Seq(Nat)
         /\ ToSet(s \o u) = ToSet(s) \cup ToSet(u)
         /\ Increasing(s \o u) <=> Increasing(s) /\ Increasing(u) /\ Before(s, u)
<1> DEFINE c == s \o u
<1>1. /\ c \in Seq(Nat) /\ Len(c) = Len(s) + Len(u) /\ Len(s) \in Nat /\ Len(u) \in Nat
      /\ \A i \in 1 .. Len(s) + Len(u) : c[i] = IF i <= Len(s) THEN s[i] ELSE u[i - Len(s)]
  BY ConcatProperties
<1>2. DOMAIN c = 1 .. Len(s) + Len(u) /\ DOMAIN s = 1 .. Len(s) /\ DOMAIN u = 1 .. Len(u)
  BY <1>1
<1> HIDE DEF c
<1>3. \A i \in DOMAIN s : i \in DOMAIN c /\ c[i] = s[i]
  BY <1>1, <1>2
<1>4. ASSUME NEW i \in DOMAIN u PROVE i + Len(s) \in DOMAIN c /\ c[i + Len(s)] = u[i]
  <2>1. i \in 1 .. Len(u)
    BY <1>2
  <2>2. /\ i + Len(s) \in 1 .. Len(s) + Len(u) /\ ~(i + Len(s) <= Len(s))
        /\ (i + Len(s)) - Len(s) = i
    BY <1>1, <2>1
  <2> QED
    BY <1>1, <1>2, <2>2
<1>5. \A i \in DOMAIN c : \/ i \in DOMAIN s /\ c[i] = s[i]
                          \/ i - Len(s) \in DOMAIN u /\ c[i] = u[i - Len(s)] /\ i > Len(s)
  BY <1>1, <1>2
<1>6. ToSet(c) = ToSet(s) \cup ToSet(u)
  BY <1>3, <1>4, <1>5 DEF ToSet
<1>7. ASSUME Increasing(c) PROVE Increasing(s) /\ Increasing(u) /\ Before(s, u)
  <2>1. Increasing(s)
    BY <1>3, <1>7 DEF Increasing
  <2>2. ASSUME NEW i \in DOMAIN u, NEW j \in DOMAIN u, i < j PROVE u[i] < u[j]
    <3>1. i + Len(s) < j + Len(s)
      BY <1>1, <1>2, <2>2
    <3> QED
      BY <1>4, <1>7, <3>1 DEF Increasing
  <2>3. ASSUME NEW i \in DOMAIN s, NEW j \in DOMAIN u PROVE s[i] < u[j]
    <3>1. i < j + Len(s)
      BY <1>1, <1>2
    <3> QED
      BY <1>3, <1>4, <1>7, <3>1 DEF Increasing
  <2> QED
    BY <2>1, <2>2, <2>3 DEF Increasing, Before, ToSet
<1>8. ASSUME Increasing(s), Increasing(u), Before(s, u) PROVE Increasing(c)
  <2> SUFFICES ASSUME NEW i \in DOMAIN c, NEW j \in DOMAIN c, i < j PROVE c[i] < c[j]
    BY DEF Increasing
  <2>1. CASE i \in DOMAIN s /\ c[i] = s[i] /\ j \in DOMAIN s /\ c[j] = s[j]
    BY <1>8, <2>1 DEF Increasing
  <2>2. CASE i \in DOMAIN s /\ c[i] = s[i] /\ j - Len(s) \in DOMAIN u /\ c[j] = u[j - Len(s)]
    BY <1>8, <2>2 DEF Before, ToSet
  <2>3. CASE i - Len(s) \in DOMAIN u /\ c[i] = u[i - Len(s)] /\ j - Len(s) \in DOMAIN u /\ c[j] = u[j - Len(s)]
    <3>1. i - Len(s) < j - Len(s)
      BY <1>1, <1>2
    <3> QED
      BY <1>8, <2>3, <3>1 DEF Increasing
  <2>4. i > Len(s) => j > Len(s)
    BY <1>1, <1>2
  <2> QED
    BY <1>1, <1>2, <1>5, <2>1, <2>2, <2>3, <2>4
<1> QED
  BY <1>1, <1>6, <1>7, <1>8 DEF c

LEMMA PlacedInOrder ==
  ASSUME NEW s \in Seq(Nat), NEW b \in Seq(Nat), NEW m \in Seq(Nat), NEW gone, NEW n,
         Placed(s, b, m, gone, n)
  PROVE  LET there == s \o b \o m
         IN /\ \A i, j \in DOMAIN there : i < j => there[i] < there[j]
            /\ ToSet(there) \cap gone = {}
            /\ ToSet(there) \cup gone = 1 .. n
<1> DEFINE c == s \o b
<1>1. c \in Seq(Nat) /\ ToSet(c) = ToSet(s) \cup ToSet(b) /\ Increasing(c)
  BY ConcatContains DEF Placed
<1>2. Before(c, m)
  BY <1>1 DEF Placed, Before
<1> HIDE DEF c
<1>3. Increasing(c \o m) /\ ToSet(c \o m) = ToSet(c) \cup ToSet(m)
  BY <1>1, <1>2, ConcatContains DEF Placed
<1> QED
  BY <1>1, <1>3 DEF c, Placed, Increasing

(* What each step does to the places.                                      *)
LEMMA PlacedAdd ==
  ASSUME NEW s \in Seq(Nat), NEW b \in Seq(Nat), NEW m \in Seq(Nat), NEW gone, NEW n \in Nat,
         Placed(s, b, m, gone, n)
  PROVE  Placed(s, b, Append(m, n + 1), gone, n + 1) /\ Placed(s, b, m, gone \cup {n + 1}, n + 1)
<1>1. ToSet(s) \cup ToSet(b) \cup ToSet(m) \cup gone = 1 .. n
  BY DEF Placed
<1>2. 1 .. n + 1 = (1 .. n) \cup {n + 1} /\ n + 1 \notin 1 .. n /\ \A x \in 1 .. n : x < n + 1
  OBVIOUS
<1>3. \A x \in ToSet(m) : x < n + 1
  BY <1>1, <1>2
<1>4. ToSet(Append(m, n + 1)) = ToSet(m) \cup {n + 1} /\ Increasing(Append(m, n + 1))
  BY <1>3, AppendContains DEF Placed
<1>5. Before(s, Append(m, n + 1)) /\ Before(b, Append(m, n + 1))
  BY <1>1, <1>2, <1>4 DEF Placed, Before
<1>6. /\ (ToSet(s) \cup ToSet(b) \cup ToSet(Append(m, n + 1))) \cap gone = {}
      /\ ToSet(s) \cup ToSet(b) \cup ToSet(Append(m, n + 1)) \cup gone = 1 .. n + 1
      /\ (ToSet(s) \cup ToSet(b) \cup ToSet(m)) \cap (gone \cup {n + 1}) = {}
      /\ ToSet(s) \cup ToSet(b) \cup ToSet(m) \cup (gone \cup {n + 1}) = 1 .. n + 1
  BY <1>1, <1>2, <1>4 DEF Placed
<1> QED
  BY <1>4, <1>5, <1>6 DEF Placed

LEMMA PlacedSwap ==
  ASSUME NEW s, NEW m, NEW gone, NEW n, Placed(s, <<>>, m, gone, n)
  PROVE  Placed(s, m, <<>>, gone, n) /\ Placed(s, <<>>, <<>>, gone \cup ToSet(m), n)
BY EmptyContains DEF Placed, Before

LEMMA PlacedDispatch ==
  ASSUME NEW s \in Seq(Nat), NEW b \in Seq(Nat), NEW m \in Seq(Nat), NEW gone, NEW n,
         Placed(s, b, m, gone, n), b # <<>>
  PROVE  /\ Placed(Append(s, Head(b)), Tail(b), m, gone, n)
         /\ Placed(s, Tail(b), m, gone \cup {Head(b)}, n)
<1>1. /\ Head(b) \in Nat /\ Tail(b) \in Seq(Nat)
      /\ ToSet(b) = {Head(b)} \cup ToSet(Tail(b))
      /\ Increasing(Tail(b)) /\ \A x \in ToSet(Tail(b)) : Head(b) < x
  BY TailContains DEF Placed
<1>2. \A x \in ToSet(s) : x < Head(b)
  BY <1>1 DEF Placed, Before
<1>3. ToSet(Append(s, Head(b))) = ToSet(s) \cup {Head(b)} /\ Increasing(Append(s, Head(b)))
  BY <1>1, <1>2, AppendContains DEF Placed
<1>4. Head(b) \notin ToSet(s) /\ Head(b) \notin ToSet(Tail(b)) /\ Head(b) \notin ToSet(m)
  <2>1. \A x \in ToSet(m) : Head(b) < x
    BY <1>1 DEF Placed, Before
  <2> QED
    BY <1>1, <1>2, <2>1
<1>5. /\ Before(Append(s, Head(b)), Tail(b)) /\ Before(Append(s, Head(b)), m)
      /\ Before(s, Tail(b)) /\ Before(Tail(b), m)
  BY <1>1, <1>3 DEF Placed, Before
<1> HIDE DEF Increasing, Before
<1> QED
  BY <1>1, <1>3, <1>4, <1>5 DEF Placed

LEMMA DispatcherInit == Dispatcher!Init => DispatcherInv
<1> SUFFICES ASSUME Dispatcher!Init PROVE DispatcherInv
  OBVIOUS
<1>1. <<>> \in Seq(Nat) /\ {} \in SUBSET Nat
  BY EmptySeq
<1>2. DispatcherTypes
  BY <1>1 DEF Dispatcher!Init, DispatcherTypes, Dispatchers, Dispatcher!Dispatchers
<1>3. LoopInv
  BY DEF Dispatcher!Init, LoopInv, Dispatcher!Dispatchers
<1>4. PlacesInv
  <2>1. 1 .. 0 = {}
    OBVIOUS
  <2>2. Placed(<<>>, <<>>, <<>>, {}, 0)
    BY <2>1, EmptyContains DEF Placed, Before
  <2> QED
    BY <2>2 DEF PlacesInv, Dispatcher!Init, Dispatchers, Dispatcher!Dispatchers
<1> QED
  BY <1>2, <1>3, <1>4 DEF DispatcherInv

LEMMA DispatcherAdds ==
  ASSUME DispatcherInv, NEW d \in Dispatchers, at[d] # "gone", Dispatcher!AddMessage(d)
  PROVE  DispatcherInv'
<1>1. /\ added' = [added EXCEPT ![d] = added[d] + 1]
      /\ UNCHANGED <<system, exit, batch, at, cancel, dispatched>>
  BY DEF Dispatcher!AddMessage
<1>2. CASE d = "thread" /\ exit
  <2>1. UNCHANGED messages /\ destroyed' = [destroyed EXCEPT ![d] = destroyed[d] \cup {added[d] + 1}]
    BY <1>2 DEF Dispatcher!AddMessage
  <2>2. DispatcherTypes'
    BY <1>1, <2>1 DEF DispatcherInv, DispatcherTypes
  <2>3. LoopInv'
    BY <1>1, <2>1 DEF DispatcherInv, LoopInv
  <2>4. PlacesInv'
    BY <1>1, <2>1, PlacedAdd DEF DispatcherInv, DispatcherTypes, PlacesInv
  <2> QED
    BY <2>2, <2>3, <2>4 DEF DispatcherInv
<1>3. CASE ~(d = "thread" /\ exit)
  <2>1. messages' = [messages EXCEPT ![d] = Append(messages[d], added[d] + 1)] /\ UNCHANGED destroyed
    BY <1>3 DEF Dispatcher!AddMessage
  <2>2. Append(messages[d], added[d] + 1) \in Seq(Nat)
    BY AppendProperties DEF DispatcherInv, DispatcherTypes
  <2>3. DispatcherTypes'
    BY <1>1, <2>1, <2>2 DEF DispatcherInv, DispatcherTypes
  <2>4. LoopInv'
    BY <1>1, <1>3, <2>1 DEF DispatcherInv, LoopInv, DispatcherTypes
  <2>5. PlacesInv'
    BY <1>1, <2>1, PlacedAdd DEF DispatcherInv, DispatcherTypes, PlacesInv
  <2> QED
    BY <2>3, <2>4, <2>5 DEF DispatcherInv
<1> QED
  BY <1>2, <1>3

LEMMA DispatcherDispatches ==
  ASSUME DispatcherInv, NEW d \in Dispatchers, Dispatcher!Dispatch(d)
  PROVE  DispatcherInv'
<1> DEFINE m == Head(batch[d])
<1>1. /\ batch[d] # <<>> /\ batch' = [batch EXCEPT ![d] = Tail(batch[d])]
      /\ UNCHANGED <<system, added, messages, exit, at, cancel>>
  BY DEF Dispatcher!Dispatch
<1>2. m \in Nat /\ Tail(batch[d]) \in Seq(Nat)
  BY <1>1, TailContains DEF DispatcherInv, DispatcherTypes
<1>3. \/ dispatched' = [dispatched EXCEPT ![d] = Append(dispatched[d], m)] /\ UNCHANGED destroyed
      \/ destroyed' = [destroyed EXCEPT ![d] = destroyed[d] \cup {m}] /\ UNCHANGED dispatched
  BY DEF Dispatcher!Dispatch, Dispatcher!Following
<1>4. Append(dispatched[d], m) \in Seq(Nat)
  BY <1>2, AppendProperties DEF DispatcherInv, DispatcherTypes
<1>5. /\ Placed(Append(dispatched[d], m), Tail(batch[d]), messages[d], destroyed[d], added[d])
      /\ Placed(dispatched[d], Tail(batch[d]), messages[d], destroyed[d] \cup {m}, added[d])
  BY <1>1, PlacedDispatch DEF DispatcherInv, DispatcherTypes, PlacesInv
<1> HIDE DEF m
<1>6. DispatcherTypes'
  BY <1>1, <1>2, <1>3, <1>4 DEF DispatcherInv, DispatcherTypes
<1>7. LoopInv'
  BY <1>1 DEF DispatcherInv, LoopInv, DispatcherTypes, Dispatchers, Dispatcher!Dispatchers
<1>8. PlacesInv'
  BY <1>1, <1>3, <1>5 DEF DispatcherInv, DispatcherTypes, PlacesInv
<1> QED
  BY <1>6, <1>7, <1>8 DEF DispatcherInv

(* A swap, by whatever loop, when the batch before is dispatched.          *)
LEMMA SwapPlaces ==
  ASSUME DispatcherInv, NEW d \in Dispatchers, batch[d] = <<>>,
         messages' = [messages EXCEPT ![d] = <<>>],
         batch' = [batch EXCEPT ![d] = messages[d]],
         UNCHANGED <<added, dispatched, destroyed>>
  PROVE  PlacesInv'
BY PlacedSwap DEF DispatcherInv, DispatcherTypes, PlacesInv

LEMMA DispatcherLoops ==
  ASSUME DispatcherInv,
         \/ Dispatcher!Update \/ Dispatcher!UpdateReturns \/ Dispatcher!Process
         \/ Dispatcher!ProcessEnds \/ Dispatcher!Cancel \/ Dispatcher!Drain
         \/ Dispatcher!CancelReturns \/ Dispatcher!DestroySystem \/ Dispatcher!DestroyPolling
  PROVE  DispatcherInv'
<1>1. "polling" \in Dispatchers /\ "thread" \in Dispatchers /\ <<>> \in Seq(Nat)
  BY EmptySeq DEF Dispatchers, Dispatcher!Dispatchers
<1>2. ASSUME \/ Dispatcher!UpdateReturns \/ Dispatcher!ProcessEnds \/ Dispatcher!Cancel
             \/ Dispatcher!CancelReturns \/ Dispatcher!DestroySystem
      PROVE  DispatcherInv'
  <2>1. UNCHANGED <<added, messages, batch, dispatched, destroyed>>
    BY <1>2 DEF Dispatcher!UpdateReturns, Dispatcher!ProcessEnds, Dispatcher!Cancel,
         Dispatcher!CancelReturns, Dispatcher!DestroySystem
  <2>2. PlacesInv'
    BY <2>1 DEF DispatcherInv, PlacesInv
  <2>3. DispatcherTypes'
    BY <1>1, <1>2, <2>1 DEF DispatcherInv, DispatcherTypes, Dispatcher!Go,
         Dispatcher!UpdateReturns, Dispatcher!ProcessEnds, Dispatcher!Cancel,
         Dispatcher!CancelReturns, Dispatcher!DestroySystem
  <2>4. LoopInv /\ at \in [Dispatchers -> {"out", "locked", "dispatching", "joined", "gone"}]
    BY DEF DispatcherInv, DispatcherTypes
  <2>5. LoopInv'
    <3>1. CASE Dispatcher!UpdateReturns
      BY <1>1, <2>1, <2>4, <3>1 DEF LoopInv, Dispatcher!UpdateReturns, Dispatcher!Go
    <3>2. CASE Dispatcher!ProcessEnds
      BY <1>1, <2>1, <2>4, <3>2 DEF LoopInv, Dispatcher!ProcessEnds, Dispatcher!Go
    <3>3. CASE Dispatcher!Cancel
      BY <2>1, <2>4, <3>3 DEF LoopInv, Dispatcher!Cancel
    <3>4. CASE Dispatcher!CancelReturns \/ Dispatcher!DestroySystem
      BY <2>1, <2>4, <3>4 DEF LoopInv, Dispatcher!CancelReturns, Dispatcher!DestroySystem
    <3> QED
      BY <1>2, <3>1, <3>2, <3>3, <3>4
  <2> QED
    BY <2>2, <2>3, <2>5 DEF DispatcherInv
<1>3. ASSUME Dispatcher!Update PROVE DispatcherInv'
  <2>1. /\ batch["polling"] = <<>>
        /\ at' = [at EXCEPT !["polling"] = "dispatching"]
        /\ messages' = [messages EXCEPT !["polling"] = <<>>]
        /\ batch' = [batch EXCEPT !["polling"] = messages["polling"]]
        /\ UNCHANGED <<system, added, exit, cancel, dispatched, destroyed>>
    BY <1>3 DEF Dispatcher!Update, Dispatcher!Swap, Dispatcher!Go, DispatcherInv, LoopInv
  <2>2. PlacesInv'
    BY <1>1, <2>1, SwapPlaces
  <2>3. DispatcherTypes' /\ LoopInv'
    BY <1>1, <2>1 DEF DispatcherInv, DispatcherTypes, LoopInv
  <2> QED
    BY <2>2, <2>3 DEF DispatcherInv
<1>4. ASSUME Dispatcher!Process PROVE DispatcherInv'
  <2>1. /\ at["thread"] = "locked" \/ (at["thread"] = "dispatching" /\ ~exit)
        /\ batch["thread"] = <<>>
        /\ at' = [at EXCEPT !["thread"] = "dispatching"]
        /\ messages' = [messages EXCEPT !["thread"] = <<>>]
        /\ batch' = [batch EXCEPT !["thread"] = messages["thread"]]
        /\ UNCHANGED <<system, added, exit, cancel, dispatched, destroyed>>
    BY <1>4 DEF Dispatcher!Process, Dispatcher!Swap, Dispatcher!Go, DispatcherInv, LoopInv
  <2>2. PlacesInv'
    BY <1>1, <2>1, SwapPlaces
  <2>3. DispatcherTypes' /\ LoopInv'
    BY <1>1, <2>1 DEF DispatcherInv, DispatcherTypes, LoopInv
  <2> QED
    BY <2>2, <2>3 DEF DispatcherInv
<1>5. ASSUME Dispatcher!Drain PROVE DispatcherInv'
  <2>1. /\ cancel = "joining" /\ at["thread"] = "joined" /\ batch["thread"] = <<>>
        /\ cancel' = "draining"
        /\ messages' = [messages EXCEPT !["thread"] = <<>>]
        /\ batch' = [batch EXCEPT !["thread"] = messages["thread"]]
        /\ UNCHANGED <<system, added, exit, at, dispatched, destroyed>>
    BY <1>5 DEF Dispatcher!Drain, Dispatcher!Joined, DispatcherInv, LoopInv
  <2>2. PlacesInv'
    BY <1>1, <2>1, SwapPlaces
  <2>3. DispatcherTypes' /\ LoopInv'
    BY <1>1, <2>1 DEF DispatcherInv, DispatcherTypes, LoopInv
  <2> QED
    BY <2>2, <2>3 DEF DispatcherInv
<1>6. ASSUME Dispatcher!DestroyPolling PROVE DispatcherInv'
  <2>1. /\ at["polling"] = "out"
        /\ destroyed' = [destroyed EXCEPT !["polling"] = destroyed["polling"] \cup ToSet(messages["polling"])]
        /\ messages' = [messages EXCEPT !["polling"] = <<>>]
        /\ at' = [at EXCEPT !["polling"] = "gone"]
        /\ UNCHANGED <<system, added, exit, batch, cancel, dispatched>>
    BY <1>6 DEF Dispatcher!DestroyPolling, Dispatcher!Go, Dispatcher!ToSet, ToSet
  <2>2. batch["polling"] = <<>>
    BY <2>1 DEF DispatcherInv, LoopInv
  <2>3. PlacesInv'
    <3> SUFFICES ASSUME NEW d \in Dispatchers
                 PROVE  Placed(dispatched[d], batch[d], messages[d], destroyed[d], added[d])'
      BY DEF PlacesInv
    <3>1. Placed(dispatched[d], batch[d], messages[d], destroyed[d], added[d])
      BY DEF DispatcherInv, PlacesInv
    <3>2. CASE d = "polling"
      <4>1. Placed(dispatched[d], <<>>, <<>>, destroyed[d] \cup ToSet(messages[d]), added[d])
        BY <2>2, <3>1, <3>2, PlacedSwap
      <4> QED
        BY <2>1, <2>2, <3>2, <4>1 DEF DispatcherInv, DispatcherTypes
    <3>3. CASE d # "polling"
      BY <2>1, <3>1, <3>3 DEF DispatcherInv, DispatcherTypes
    <3> QED
      BY <3>2, <3>3
  <2>4. ToSet(messages["polling"]) \subseteq Nat
    BY <1>1 DEF DispatcherInv, DispatcherTypes, ToSet
  <2>5. DispatcherTypes' /\ LoopInv'
    BY <1>1, <2>1, <2>4 DEF DispatcherInv, DispatcherTypes, LoopInv
  <2> QED
    BY <2>3, <2>5 DEF DispatcherInv
<1> QED
  BY <1>2, <1>3, <1>4, <1>5, <1>6

LEMMA DispatcherNext == DispatcherInv /\ [Dispatcher!Next]_dispatcherVars => DispatcherInv'
<1>1. ASSUME DispatcherInv, UNCHANGED dispatcherVars PROVE DispatcherInv'
  BY <1>1 DEF dispatcherVars, DispatcherInv, DispatcherTypes, LoopInv, PlacesInv
<1>2. ASSUME DispatcherInv, Dispatcher!Next PROVE DispatcherInv'
  BY <1>2, DispatcherAdds, DispatcherDispatches, DispatcherLoops
     DEF Dispatcher!Next, Dispatchers
<1> QED
  BY <1>1, <1>2

LEMMA DispatcherHolds ==
  ASSUME DispatcherInv
  PROVE  Dispatcher!DispatchedInOrder /\ Dispatcher!CancelledIsQuiet
<1>1. Dispatcher!CancelledIsQuiet
  BY DEF DispatcherInv, LoopInv, Dispatcher!CancelledIsQuiet
<1>2. Dispatcher!DispatchedInOrder
  <2> SUFFICES ASSUME NEW d \in Dispatchers
               PROVE  LET there == dispatched[d] \o batch[d] \o messages[d]
                      IN /\ \A i, j \in DOMAIN there : i < j => there[i] < there[j]
                         /\ ToSet(there) \cap destroyed[d] = {}
                         /\ ToSet(there) \cup destroyed[d] = 1 .. added[d]
    BY DEF Dispatcher!DispatchedInOrder, Dispatchers, Dispatcher!ToSet, ToSet
  <2>1. /\ dispatched[d] \in Seq(Nat) /\ batch[d] \in Seq(Nat) /\ messages[d] \in Seq(Nat)
        /\ Placed(dispatched[d], batch[d], messages[d], destroyed[d], added[d])
    BY DEF DispatcherInv, DispatcherTypes, PlacesInv
  <2> QED
    BY <2>1, PlacedInOrder
<1> QED
  BY <1>1, <1>2

-----------------------------------------------------------------------------
(* Weak pointers.                                                          *)

Held == {p \in Threads \X Locks : lock[p[1]][p[2]] # "none"}

PointerTypes ==
  /\ alive \in BOOLEAN /\ ptr \in BOOLEAN /\ pending \in BOOLEAN
  /\ lock \in [Threads -> [Locks -> {"none", "null", "set"}]]
  /\ calls = [t \in Threads |-> calls[t]]

(* A pointer that is not null is to what exists, and so is one that was    *)
(* locked; it is cleared once, and not while a lock has read it.           *)
GuardInv ==
  /\ pending => ptr
  /\ ptr => alive
  /\ \A t \in Threads, l \in Locks : lock[t][l] = "set" => ptr

(* A call that is to lock has a slot of its thread that is free; one that  *)
(* copies, another one to copy from.                                       *)
CallInv ==
  \A t \in Threads :
    LET slot == calls[t].slot
    IN /\ calls[t].call \in {"lock", "lookup"} => slot \in Locks /\ lock[t][slot] = "none"
       /\ calls[t].call = "copy" =>
            /\ slot[1] \in Locks /\ slot[2] \in Locks /\ slot[1] # slot[2]
            /\ lock[t][slot[1]] # "none" /\ lock[t][slot[2]] = "none"

CountInv == IsFiniteSet(Held) /\ count = Cardinality(Held)

PointerInv == PointerTypes /\ GuardInv /\ CallInv /\ CountInv

LEMMA PointerInit == Pointer!Init => PointerInv
<1> SUFFICES ASSUME Pointer!Init PROVE PointerInv
  OBVIOUS
<1>1. /\ alive = TRUE /\ ptr = TRUE /\ pending = FALSE /\ count = 0
      /\ lock = [t \in Threads |-> [l \in Locks |-> "none"]]
      /\ calls = [t \in Threads |-> [call |-> "idle", slot |-> "none"]]
  BY DEF Pointer!Init, Pointer!Idle
<1>2. \A t \in Threads : \A l \in Locks : lock[t][l] = "none"
  BY <1>1
<1>3. Held = {}
  BY <1>2 DEF Held
<1>4. CountInv
  BY <1>1, <1>3, FS_EmptySet DEF CountInv
<1>5. PointerTypes /\ CallInv
  BY <1>1, <1>2 DEF PointerTypes, CallInv
<1>6. GuardInv
  BY <1>1, <1>2 DEF GuardInv
<1> QED
  BY <1>4, <1>5, <1>6 DEF PointerInv

(* The locks of a thread that is given, or gives up, one.                  *)
LEMMA OneLock ==
  ASSUME PointerInv, NEW t \in Threads, NEW l \in Locks, NEW v \in {"none", "null", "set"},
         lock' = [lock EXCEPT ![t][l] = v]
  PROVE  /\ lock' \in [Threads -> [Locks -> {"none", "null", "set"}]]
         /\ lock'[t][l] = v
         /\ \A u \in Threads, k \in Locks : <<u, k>> # <<t, l>> => lock'[u][k] = lock[u][k]
         /\ IsFiniteSet(Held)'
         /\ Cardinality(Held') = IF v # "none"
              THEN IF lock[t][l] = "none" THEN count + 1 ELSE count
              ELSE IF lock[t][l] = "none" THEN count ELSE count - 1
<1>1. /\ lock' \in [Threads -> [Locks -> {"none", "null", "set"}]]
      /\ lock'[t][l] = v
      /\ \A u \in Threads, k \in Locks : <<u, k>> # <<t, l>> => lock'[u][k] = lock[u][k]
  BY DEF PointerInv, PointerTypes
<1>2. <<t, l>> \in Held <=> lock[t][l] # "none"
  BY DEF Held
<1>3. CASE v # "none"
  <2>1. Held' = Held \cup {<<t, l>>}
    BY <1>1, <1>3 DEF Held
  <2> QED
    BY <1>1, <1>2, <1>3, <2>1, FS_AddElement DEF PointerInv, CountInv
<1>4. CASE v = "none"
  <2>1. Held' = Held \ {<<t, l>>}
    BY <1>1, <1>4 DEF Held
  <2> QED
    BY <1>1, <1>2, <1>4, <2>1, FS_RemoveElement DEF PointerInv, CountInv
<1> QED
  BY <1>3, <1>4

(* A call begins, or ends, that leaves the locks as they are.              *)
LEMMA PointerCalls ==
  ASSUME PointerInv, NEW t \in Threads,
         \/ \E l \in Locks : Pointer!Lock(t, l) \/ Pointer!Lookup(t, l)
         \/ Pointer!Write(t) \/ Pointer!WriterLock(t)
  PROVE  PointerInv'
<1>1. /\ UNCHANGED <<alive, ptr, pending, count, lock>>
      /\ \E c \in {"lock", "lookup", "write", "idle"}, s \in Locks \cup {"none"} :
           /\ calls' = [calls EXCEPT ![t] = [call |-> c, slot |-> s]]
           /\ c \in {"lock", "lookup"} => s \in Locks /\ lock[t][s] = "none"
  BY DEF Pointer!Lock, Pointer!Lookup, Pointer!Write, Pointer!WriterLock, Pointer!Call, Pointer!Idle
<1>2. PICK c \in {"lock", "lookup", "write", "idle"}, s \in Locks \cup {"none"} :
        /\ calls' = [calls EXCEPT ![t] = [call |-> c, slot |-> s]]
        /\ c \in {"lock", "lookup"} => s \in Locks /\ lock[t][s] = "none"
  BY <1>1
<1>3. PointerTypes' /\ GuardInv' /\ CountInv'
  BY <1>1, <1>2 DEF PointerInv, PointerTypes, GuardInv, CountInv, Held
<1>4. CallInv'
  BY <1>1, <1>2 DEF PointerInv, PointerTypes, CallInv
<1> QED
  BY <1>3, <1>4 DEF PointerInv

LEMMA PointerLocks ==
  ASSUME PointerInv, NEW t \in Threads, Pointer!ReaderLock(t) \/ Pointer!CopyLocks(t)
  PROVE  PointerInv'
<1>1. PICK l \in Locks, v \in {"null", "set"} :
        /\ lock[t][l] = "none" /\ lock' = [lock EXCEPT ![t][l] = v]
        /\ v = "set" => ptr
  <2>1. CASE Pointer!ReaderLock(t)
    BY <2>1 DEF Pointer!ReaderLock, PointerInv, CallInv
  <2>2. CASE Pointer!CopyLocks(t)
    <3>1. /\ calls[t].slot[1] \in Locks /\ calls[t].slot[2] \in Locks
          /\ lock[t][calls[t].slot[1]] # "none" /\ lock[t][calls[t].slot[2]] = "none"
          /\ lock' = [lock EXCEPT ![t][calls[t].slot[2]] = lock[t][calls[t].slot[1]]]
      BY <2>2 DEF Pointer!CopyLocks, PointerInv, CallInv
    <3>2. lock[t][calls[t].slot[1]] \in {"null", "set"}
      BY <3>1 DEF PointerInv, PointerTypes
    <3>3. lock[t][calls[t].slot[1]] = "set" => ptr
      BY <3>1 DEF PointerInv, GuardInv
    <3> QED
      BY <3>1, <3>2, <3>3
  <2> QED
    BY <2>1, <2>2
<1>2. /\ count' = count + 1 /\ UNCHANGED <<alive, ptr, pending>>
      /\ calls' = [calls EXCEPT ![t] = [call |-> "idle", slot |-> "none"]]
  BY DEF Pointer!ReaderLock, Pointer!CopyLocks, Pointer!Idle
<1>3. /\ lock' \in [Threads -> [Locks -> {"none", "null", "set"}]]
      /\ lock'[t][l] = v
      /\ \A u \in Threads, k \in Locks : <<u, k>> # <<t, l>> => lock'[u][k] = lock[u][k]
      /\ IsFiniteSet(Held)' /\ Cardinality(Held') = count + 1
  BY <1>1, OneLock
<1>4. PointerTypes' /\ CountInv'
  BY <1>2, <1>3 DEF PointerInv, PointerTypes, CountInv
<1>5. GuardInv'
  BY <1>1, <1>2, <1>3 DEF PointerInv, GuardInv
<1>6. CallInv'
  BY <1>2, <1>3 DEF PointerInv, PointerTypes, CallInv
<1> QED
  BY <1>4, <1>5, <1>6 DEF PointerInv

LEMMA PointerUnlocks ==
  ASSUME PointerInv, NEW t \in Threads, NEW l \in Locks, Pointer!Unlock(t, l)
  PROVE  PointerInv'
<1>1. /\ calls[t] = [call |-> "idle", slot |-> "none"] /\ lock[t][l] # "none"
      /\ count' = count - 1
      /\ lock' = [lock EXCEPT ![t][l] = "none"]
      /\ UNCHANGED <<alive, ptr, pending, calls>>
  BY DEF Pointer!Unlock, Pointer!Idle
<1>2. /\ lock' \in [Threads -> [Locks -> {"none", "null", "set"}]]
      /\ lock'[t][l] = "none"
      /\ \A u \in Threads, k \in Locks : <<u, k>> # <<t, l>> => lock'[u][k] = lock[u][k]
      /\ IsFiniteSet(Held)' /\ Cardinality(Held') = count - 1
  BY <1>1, OneLock
<1>3. PointerTypes' /\ CountInv'
  BY <1>1, <1>2 DEF PointerInv, PointerTypes, CountInv
<1>4. GuardInv'
  BY <1>1, <1>2 DEF PointerInv, GuardInv
<1>5. CallInv'
  BY <1>1, <1>2 DEF PointerInv, PointerTypes, CallInv
<1> QED
  BY <1>3, <1>4, <1>5 DEF PointerInv

LEMMA PointerCopies ==
  ASSUME PointerInv, NEW t \in Threads, NEW from \in Locks, NEW to \in Locks,
         Pointer!Copy(t, from, to)
  PROVE  PointerInv'
<1>1. /\ from # to /\ lock[t][from] # "none"
      /\ count' = count - (IF lock[t][to] = "none" THEN 0 ELSE 1)
      /\ lock' = [lock EXCEPT ![t][to] = "none"]
      /\ calls' = [calls EXCEPT ![t] = [call |-> "copy", slot |-> <<from, to>>]]
      /\ UNCHANGED <<alive, ptr, pending>>
  BY DEF Pointer!Copy
<1>2. /\ lock' \in [Threads -> [Locks -> {"none", "null", "set"}]]
      /\ lock'[t][to] = "none"
      /\ \A u \in Threads, k \in Locks : <<u, k>> # <<t, to>> => lock'[u][k] = lock[u][k]
      /\ IsFiniteSet(Held)'
      /\ Cardinality(Held') = IF lock[t][to] = "none" THEN count ELSE count - 1
  BY <1>1, OneLock
<1>3. count \in Nat
  BY FS_CardinalityType DEF PointerInv, CountInv
<1>4. CountInv'
  <2>1. CASE lock[t][to] = "none"
    BY <1>1, <1>2, <1>3, <2>1 DEF CountInv
  <2>2. CASE lock[t][to] # "none"
    BY <1>1, <1>2, <1>3, <2>2 DEF CountInv
  <2> QED
    BY <2>1, <2>2
<1>5. GuardInv'
  BY <1>1, <1>2 DEF PointerInv, GuardInv
<1>6. CallInv'
  BY <1>1, <1>2 DEF PointerInv, PointerTypes, CallInv
<1>7. PointerTypes'
  BY <1>1, <1>2 DEF PointerInv, PointerTypes
<1> QED
  BY <1>4, <1>5, <1>6, <1>7 DEF PointerInv

LEMMA PointerMoves ==
  ASSUME PointerInv, NEW t \in Threads, NEW from \in Locks, NEW to \in Locks,
         Pointer!Move(t, from, to)
  PROVE  PointerInv'
<1>1. /\ calls[t] = [call |-> "idle", slot |-> "none"]
      /\ from # to /\ lock[t][from] # "none"
      /\ count' = count - (IF lock[t][to] = "none" THEN 0 ELSE 1)
      /\ lock' = [lock EXCEPT ![t][to] = lock[t][from], ![t][from] = "none"]
      /\ UNCHANGED <<alive, ptr, pending, calls>>
  BY DEF Pointer!Move, Pointer!CountOver, Pointer!Idle
<1>2. /\ lock' \in [Threads -> [Locks -> {"none", "null", "set"}]]
      /\ lock'[t][to] = lock[t][from] /\ lock'[t][from] = "none"
      /\ \A u \in Threads, k \in Locks :
           <<u, k>> # <<t, to>> /\ <<u, k>> # <<t, from>> => lock'[u][k] = lock[u][k]
  BY <1>1 DEF PointerInv, PointerTypes
<1>3. Held' = (Held \ {<<t, from>>}) \cup {<<t, to>>}
  BY <1>1, <1>2 DEF Held
<1>4. <<t, from>> \in Held /\ (<<t, to>> \in Held \ {<<t, from>>} <=> lock[t][to] # "none")
  BY <1>1 DEF Held
<1>5. count \in Nat
  BY FS_CardinalityType DEF PointerInv, CountInv
<1>6. IsFiniteSet(Held \ {<<t, from>>}) /\ Cardinality(Held \ {<<t, from>>}) = count - 1
  BY <1>4, FS_RemoveElement DEF PointerInv, CountInv
<1>7. CountInv'
  <2>1. CASE lock[t][to] = "none"
    <3>1. <<t, to>> \notin Held \ {<<t, from>>}
      BY <1>4, <2>1
    <3>2. IsFiniteSet(Held)' /\ Cardinality(Held)' = Cardinality(Held \ {<<t, from>>}) + 1
      BY <1>3, <1>6, <3>1, FS_AddElement
    <3> QED
      BY <1>1, <1>5, <1>6, <2>1, <3>2 DEF CountInv
  <2>2. CASE lock[t][to] # "none"
    <3>1. Held' = Held \ {<<t, from>>}
      BY <1>3, <1>4, <2>2
    <3> QED
      BY <1>1, <1>5, <1>6, <2>2, <3>1 DEF CountInv
  <2> QED
    BY <2>1, <2>2
<1>8. PointerTypes'
  BY <1>1, <1>2 DEF PointerInv, PointerTypes
<1>9. GuardInv'
  BY <1>1, <1>2 DEF PointerInv, GuardInv
<1>10. CallInv'
  BY <1>1, <1>2 DEF PointerInv, PointerTypes, CallInv
<1> QED
  BY <1>7, <1>8, <1>9, <1>10 DEF PointerInv

LEMMA PointerInvalidates ==
  ASSUME PointerInv, Pointer!Clear \/ Pointer!Cleared \/ Pointer!Destroy
  PROVE  PointerInv'
<1>1. UNCHANGED <<count, lock, calls>>
  BY DEF Pointer!Clear, Pointer!Cleared, Pointer!Destroy
<1>2. CallInv' /\ CountInv'
  BY <1>1 DEF PointerInv, CallInv, CountInv, Held
<1>3. PointerTypes'
  BY <1>1 DEF PointerInv, PointerTypes, Pointer!Clear, Pointer!Cleared, Pointer!Destroy
<1>4. GuardInv'
  <2>1. CASE Pointer!Clear
    BY <1>1, <2>1 DEF PointerInv, GuardInv, Pointer!Clear
  <2>2. CASE Pointer!Cleared
    <3>1. Held = {}
      BY <2>2, FS_EmptySet DEF PointerInv, CountInv, Pointer!Cleared
    <3>2. ASSUME NEW t \in Threads, NEW l \in Locks PROVE lock[t][l] = "none"
      <4>1. <<t, l>> \in Threads \X Locks /\ <<t, l>>[1] = t /\ <<t, l>>[2] = l
        OBVIOUS
      <4> QED
        BY <3>1, <4>1 DEF Held
    <3> QED
      BY <1>1, <2>2, <3>2 DEF PointerInv, GuardInv, Pointer!Cleared
  <2>3. CASE Pointer!Destroy
    BY <1>1, <2>3 DEF PointerInv, GuardInv, Pointer!Destroy
  <2> QED
    BY <2>1, <2>2, <2>3
<1> QED
  BY <1>2, <1>3, <1>4 DEF PointerInv

LEMMA PointerNext == PointerInv /\ [Pointer!Next]_pointerVars => PointerInv'
<1>1. ASSUME PointerInv, UNCHANGED pointerVars PROVE PointerInv'
  BY <1>1 DEF pointerVars, PointerInv, PointerTypes, GuardInv, CallInv, CountInv, Held
<1>2. ASSUME PointerInv, Pointer!Next PROVE PointerInv'
  BY <1>2, PointerCalls, PointerLocks, PointerUnlocks, PointerCopies, PointerMoves,
     PointerInvalidates DEF Pointer!Next, Pointer!Release
<1> QED
  BY <1>1, <1>2

LEMMA PointerHolds == PointerInv => Pointer!LocksProtect
  BY DEF PointerInv, GuardInv, CountInv, Held, Pointer!LocksProtect, Pointer!Cardinality,
     Cardinality

-----------------------------------------------------------------------------
(* Contexts.  A thread that calls SetImpl has one call, or a second within *)
(* it that clears; the object it carries is that of the first.             *)

ValueKeys == (Names \cup {Absent}) \X ValueTypes
SetCalls  == [name : Names \cup {Absent}, type : ValueTypes, object : Objects \cup {Absent}]

OneCall(s)  == \E c \in SetCalls : s = <<c>>
TwoCalls(s) == \E c, d \in SetCalls : c.object # Absent /\ d.object = Absent /\ s = <<c, d>>
Calls(s)    == s = <<>> \/ OneCall(s) \/ TwoCalls(s)
Carried(s)  == IF s = <<>> THEN Absent ELSE s[1].object

ContextTypes ==
  /\ values \in [ValueKeys -> Objects \cup {Absent}]
  /\ names \in [Names -> ValueTypes \cup {Absent}]
  /\ live \subseteq Objects /\ released \subseteq Objects
  /\ DOMAIN contextCalls = Threads
  /\ \A t \in Threads : Calls(contextCalls[t])

NamesKnown ==
  \A n \in Names, y \in ValueTypes : values[<<n, y>>] # Absent <=> names[n] = y

(* An object has one owner: a value, a call or the program.                *)
OwnersApart ==
  /\ \A j, k \in ValueKeys : values[j] = values[k] /\ values[j] # Absent => j = k
  /\ \A k \in ValueKeys : values[k] # Absent =>
       values[k] \notin released /\ \A t \in Threads : Carried(contextCalls[t]) # values[k]
  /\ \A t \in Threads : Carried(contextCalls[t]) \notin released
  /\ \A t, u \in Threads :
       Carried(contextCalls[t]) = Carried(contextCalls[u]) /\ Carried(contextCalls[t]) # Absent => t = u

(* Who owns what exists: o is a value, a call carries it, or the program   *)
(* has it.                                                                 *)
OwnersKnown ==
  \A o \in Objects :
    o \in live <=> \/ \E k \in ValueKeys : values[k] = o
                   \/ \E t \in Threads : Carried(contextCalls[t]) = o
                   \/ o \in released

ContextInv == ContextTypes /\ NamesKnown /\ OwnersApart /\ OwnersKnown

LEMMA ContextInit == Context!Init => ContextInv
<1> SUFFICES ASSUME Context!Init PROVE ContextInv
  OBVIOUS
<1>1. /\ \A k \in ValueKeys : values[k] = Absent
      /\ \A n \in Names : names[n] = Absent
      /\ live = {} /\ released = {}
      /\ \A t \in Threads : contextCalls[t] = <<>>
  BY DEF Context!Init, Context!AllNames, ValueKeys
<1>2. ContextTypes
  BY <1>1 DEF Context!Init, Context!AllNames, ContextTypes, ValueKeys, Calls
<1>3. NamesKnown
  <2> SUFFICES ASSUME NEW n \in Names, NEW y \in ValueTypes
               PROVE  values[<<n, y>>] # Absent <=> names[n] = y
    BY DEF NamesKnown
  <2>1. <<n, y>> \in ValueKeys
    BY DEF ValueKeys
  <2> QED
    BY <1>1, <2>1, ContextAssumption
<1>4. OwnersApart /\ OwnersKnown
  BY <1>1, ContextAssumption DEF OwnersApart, OwnersKnown, Carried
<1> QED
  BY <1>2, <1>3, <1>4 DEF ContextInv

LEMMA TwoEqual ==
  ASSUME NEW S, NEW u \in Seq(S), NEW v \in Seq(S), Len(u) \in 1 .. 2, Len(v) = Len(u),
         u[1] = v[1], Len(u) = 2 => u[2] = v[2]
  PROVE  u = v
<1>1. \A i \in 1 .. Len(u) : i = 1 \/ (Len(u) = 2 /\ i = 2)
  OBVIOUS
<1>2. \A i \in 1 .. Len(u) : u[i] = v[i]
  BY <1>1
<1> QED
  BY <1>2, SeqEqual

LEMMA ShortSeqs ==
  ASSUME NEW c, NEW d
  PROVE  /\ Append(<<>>, d) = <<d>> /\ Append(<<c>>, d) = <<c, d>>
         /\ Len(<<c, d>>) = 2 /\ SubSeq(<<c, d>>, 1, 1) = <<c>>
<1> DEFINE S == {c, d}
<1>1. <<>> \in Seq(S) /\ <<c>> \in Seq(S) /\ <<d>> \in Seq(S) /\ <<c, d>> \in Seq(S)
  OBVIOUS
<1>2. Len(<<>>) = 0 /\ Len(<<c>>) = 1 /\ Len(<<d>>) = 1 /\ Len(<<c, d>>) = 2
  OBVIOUS
<1>3. Append(<<>>, d) = <<d>>
  <2>1. Append(<<>>, d) \in Seq(S) /\ Len(Append(<<>>, d)) = 1 /\ Append(<<>>, d)[1] = d
    BY <1>1, <1>2, AppendProperties
  <2> QED
    BY <1>1, <1>2, <2>1, TwoEqual
<1>4. Append(<<c>>, d) = <<c, d>>
  <2>1. /\ Append(<<c>>, d) \in Seq(S) /\ Len(Append(<<c>>, d)) = 2
        /\ Append(<<c>>, d)[1] = c /\ Append(<<c>>, d)[2] = d
    BY <1>1, <1>2, AppendProperties
  <2>2. <<c, d>>[1] = c /\ <<c, d>>[2] = d
    OBVIOUS
  <2> HIDE DEF S
  <2>3. PICK u \in Seq(S) : u = Append(<<c>>, d)
    BY <2>1
  <2>4. PICK v \in Seq(S) : v = <<c, d>>
    BY <1>1
  <2>5. Len(u) = 2 /\ Len(v) = 2 /\ u[1] = v[1] /\ u[2] = v[2] /\ 2 \in 1 .. 2
    BY <1>2, <2>1, <2>2, <2>3, <2>4
  <2>6. u = v
    BY <2>5, TwoEqual
  <2> QED
    BY <2>3, <2>4, <2>6
<1>5. SubSeq(<<c, d>>, 1, 1) = <<c>>
  <2>1. /\ SubSeq(<<c, d>>, 1, 1) \in Seq(S) /\ Len(SubSeq(<<c, d>>, 1, 1)) = 1
        /\ SubSeq(<<c, d>>, 1, 1)[1] = c
    BY <1>1, <1>2, SubSeqProperties
  <2>2. <<c>>[1] = c
    OBVIOUS
  <2> HIDE DEF S
  <2>3. PICK u \in Seq(S) : u = SubSeq(<<c, d>>, 1, 1)
    BY <2>1
  <2>4. PICK v \in Seq(S) : v = <<c>>
    BY <1>1
  <2>5. Len(u) = 1 /\ Len(v) = 1 /\ u[1] = v[1] /\ 1 \in 1 .. 2
    BY <1>2, <2>1, <2>2, <2>3, <2>4
  <2>6. u = v
    BY <2>5, TwoEqual
  <2> QED
    BY <2>3, <2>4, <2>6
<1> QED
  BY <1>2, <1>3, <1>4, <1>5

(* What the innermost call of a thread leaves when it returns, and when it *)
(* clears a value first.                                                   *)
LEMMA InnermostCall ==
  ASSUME NEW s, Calls(s), s # <<>>
  PROVE  LET in == Context!Last(s)
             rest == Context!Front(s)
         IN /\ in \in SetCalls
            /\ Calls(rest)
            /\ in.object # Absent => Carried(s) = in.object /\ Carried(rest) = Absent
            /\ in.object = Absent => Carried(rest) = Carried(s)
            /\ \A clear \in SetCalls : clear.object = Absent =>
                 /\ in.object = Absent =>
                      Calls(Append(rest, clear)) /\ Carried(Append(rest, clear)) = Carried(s)
                 /\ in.object # Absent =>
                      Calls(Append(s, clear)) /\ Carried(Append(s, clear)) = Carried(s)
<1> DEFINE in == Context!Last(s)
           rest == Context!Front(s)
<1>1. CASE OneCall(s)
  <2>1. PICK c \in SetCalls : s = <<c>>
    BY <1>1 DEF OneCall
  <2>2. in = c /\ rest = <<>>
    BY <2>1 DEF Context!Last, Context!Front
  <2>3. \A clear \in SetCalls : Append(rest, clear) = <<clear>> /\ Append(s, clear) = <<c, clear>>
    BY <2>1, <2>2, ShortSeqs
  <2>4. \A clear \in SetCalls : <<clear>>[1] = clear /\ <<c, clear>>[1] = c /\ <<c>>[1] = c
                                /\ <<clear>> # <<>> /\ <<c, clear>> # <<>> /\ <<c>> # <<>>
    OBVIOUS
  <2>5. /\ in \in SetCalls /\ Calls(rest) /\ Carried(rest) = Absent /\ Carried(s) = c.object
    BY <2>1, <2>2, <2>4 DEF Calls, Carried
  <2>6. ASSUME NEW clear \in SetCalls, clear.object = Absent
        PROVE  /\ c.object = Absent => Calls(<<clear>>) /\ Carried(<<clear>>) = c.object
               /\ c.object # Absent => Calls(<<c, clear>>) /\ Carried(<<c, clear>>) = c.object
    BY <2>4, <2>6 DEF Calls, OneCall, TwoCalls, Carried
  <2> QED
    BY <2>2, <2>3, <2>5, <2>6
<1>2. CASE TwoCalls(s)
  <2>1. PICK c \in SetCalls, d \in SetCalls : c.object # Absent /\ d.object = Absent /\ s = <<c, d>>
    BY <1>2 DEF TwoCalls
  <2>2. in = d /\ rest = <<c>>
    <3>1. Len(<<c, d>>) = 2 /\ SubSeq(<<c, d>>, 1, 1) = <<c>>
      BY ShortSeqs, Zenon
    <3>2. 2 - 1 = 1 /\ <<c, d>>[2] = d
      OBVIOUS
    <3> QED
      BY <2>1, <3>1, <3>2 DEF Context!Last, Context!Front
  <2>3. \A clear \in SetCalls : Append(rest, clear) = <<c, clear>>
    BY <2>1, <2>2, ShortSeqs
  <2>4. \A clear \in SetCalls : <<c, clear>>[1] = c /\ <<c>>[1] = c
                                /\ <<c, clear>> # <<>> /\ <<c>> # <<>>
    OBVIOUS
  <2>5. Carried(s) = c.object /\ Carried(rest) = c.object /\ Calls(rest)
    BY <2>1, <2>2, <2>4 DEF Calls, OneCall, Carried
  <2>6. ASSUME NEW clear \in SetCalls, clear.object = Absent
        PROVE  Calls(<<c, clear>>) /\ Carried(<<c, clear>>) = c.object
    BY <2>1, <2>4, <2>6 DEF Calls, TwoCalls, Carried
  <2> QED
    BY <2>1, <2>2, <2>3, <2>5, <2>6
<1> QED
  BY <1>1, <1>2 DEF Calls

(* A call that is made or returns, and carries no object from or to where  *)
(* it was.                                                                 *)
LEMMA CallsOnly ==
  ASSUME ContextInv, UNCHANGED <<values, names, live, released>>, DOMAIN contextCalls' = Threads,
         \A t \in Threads : /\ Calls(contextCalls'[t])
                            /\ Carried(contextCalls'[t]) = Carried(contextCalls[t])
  PROVE  ContextInv'
<1>1. ContextTypes'
  BY DEF ContextInv, ContextTypes
<1>2. NamesKnown' /\ OwnersApart' /\ OwnersKnown'
  BY DEF ContextInv, NamesKnown, OwnersApart, OwnersKnown
<1> QED
  BY <1>1, <1>2 DEF ContextInv

LEMMA ContextSets ==
  ASSUME ContextInv, NEW t \in Threads, NEW n \in Names \cup {Absent}, NEW y \in ValueTypes,
         NEW o \in Objects \cup {Absent}, Context!Set(t, n, y, o)
  PROVE  ContextInv'
<1> DEFINE c == [name |-> n, type |-> y, object |-> o]
<1>1. /\ contextCalls[t] = <<>> /\ (o = Absent \/ o \notin live)
      /\ live' = live \cup ({o} \ {Absent})
      /\ contextCalls' = [contextCalls EXCEPT ![t] = <<c>>]
      /\ UNCHANGED <<values, names, released>>
  BY DEF Context!Set, Context!SetCall
<1>2. c \in SetCalls /\ c.object = o /\ <<c>> # <<>> /\ <<c>>[1] = c
  BY DEF SetCalls
<1>3. Calls(<<c>>) /\ Carried(<<c>>) = o /\ Carried(contextCalls[t]) = Absent
  BY <1>1, <1>2 DEF Calls, OneCall, Carried
<1> HIDE DEF c
<1>4. /\ DOMAIN contextCalls' = Threads
      /\ contextCalls'[t] = <<c>>
      /\ \A u \in Threads : u # t => contextCalls'[u] = contextCalls[u]
  BY <1>1 DEF ContextInv, ContextTypes
<1>5. \A u \in Threads :
        Carried(contextCalls'[u]) = IF u = t THEN o ELSE Carried(contextCalls[u])
  BY <1>3, <1>4
<1>6. ContextTypes'
  BY <1>1, <1>3, <1>4, ContextAssumption DEF ContextInv, ContextTypes
<1>7. NamesKnown'
  BY <1>1 DEF ContextInv, NamesKnown
<1>8. OwnersApart'
  <2>1. o # Absent => /\ o \notin released /\ \A k \in ValueKeys : values[k] # o
                      /\ \A u \in Threads : Carried(contextCalls[u]) # o
    BY <1>1 DEF ContextInv, OwnersKnown
  <2>2. Absent \notin released
    BY ContextAssumption DEF ContextInv, ContextTypes
  <2> QED
    BY <1>1, <1>5, <2>1, <2>2 DEF ContextInv, OwnersApart
<1>9. OwnersKnown'
  <2> SUFFICES ASSUME NEW p \in Objects
               PROVE  p \in live' <=> \/ \E k \in ValueKeys : values[k] = p
                                      \/ \E u \in Threads : Carried(contextCalls'[u]) = p
                                      \/ p \in released
    BY <1>1 DEF OwnersKnown
  <2>1. p # Absent
    BY ContextAssumption
  <2>2. (\E u \in Threads : Carried(contextCalls'[u]) = p)
          <=> p = o \/ \E u \in Threads : Carried(contextCalls[u]) = p
    BY <1>3, <1>5, <2>1
  <2> QED
    BY <1>1, <2>1, <2>2 DEF ContextInv, OwnersKnown
<1> QED
  BY <1>6, <1>7, <1>8, <1>9 DEF ContextInv

LEMMA ContextClearsName ==
  ASSUME ContextInv, NEW t \in Threads, NEW n \in Names, Context!ClearName(t, n)
  PROVE  ContextInv'
<1> DEFINE c == [name |-> n, type |-> names[n], object |-> Absent]
<1>1. /\ contextCalls[t] = <<>> /\ names[n] # Absent
      /\ contextCalls' = [contextCalls EXCEPT ![t] = <<c>>]
      /\ UNCHANGED <<values, names, live, released>>
  BY DEF Context!ClearName, Context!SetCall
<1>2. c \in SetCalls /\ c.object = Absent /\ <<c>> # <<>> /\ <<c>>[1] = c
  BY <1>1 DEF SetCalls, ContextInv, ContextTypes
<1>3. Calls(<<c>>) /\ Carried(<<c>>) = Absent /\ Carried(contextCalls[t]) = Absent
  BY <1>1, <1>2 DEF Calls, OneCall, Carried
<1> HIDE DEF c
<1>4. DOMAIN contextCalls' = Threads
      /\ \A u \in Threads : /\ Calls(contextCalls'[u])
                            /\ Carried(contextCalls'[u]) = Carried(contextCalls[u])
  BY <1>1, <1>3 DEF ContextInv, ContextTypes
<1> QED
  BY <1>1, <1>4, CallsOnly

(* The calls of SetImpl: the innermost call of a thread, what it is on and *)
(* what is left of the thread's calls when it returns.                     *)
LEMMA InnermostOf ==
  ASSUME ContextInv, NEW t \in Threads, contextCalls[t] # <<>>
  PROVE  /\ Context!In(t) \in SetCalls
         /\ Context!Key(t) = <<Context!In(t).name, Context!In(t).type>>
         /\ Context!Key(t) \in ValueKeys
         /\ Context!Return(t) =>
              /\ DOMAIN contextCalls' = Threads
              /\ \A u \in Threads : Calls(contextCalls'[u])
              /\ \A u \in Threads : u # t => contextCalls'[u] = contextCalls[u]
              /\ Context!In(t).object = Absent =>
                   Carried(contextCalls'[t]) = Carried(contextCalls[t])
              /\ Context!In(t).object # Absent =>
                   /\ Carried(contextCalls[t]) = Context!In(t).object
                   /\ Carried(contextCalls'[t]) = Absent
<1>1. Calls(contextCalls[t]) /\ Context!In(t) = Context!Last(contextCalls[t])
  BY DEF ContextInv, ContextTypes, Context!In
<1>2. /\ Context!In(t) \in SetCalls /\ Calls(Context!Front(contextCalls[t]))
      /\ Context!In(t).object # Absent =>
           /\ Carried(contextCalls[t]) = Context!In(t).object
           /\ Carried(Context!Front(contextCalls[t])) = Absent
      /\ Context!In(t).object = Absent =>
           Carried(Context!Front(contextCalls[t])) = Carried(contextCalls[t])
  BY <1>1, InnermostCall
<1>3. Context!Key(t) = <<Context!In(t).name, Context!In(t).type>> /\ Context!Key(t) \in ValueKeys
  BY <1>2 DEF Context!Key, ValueKeys, SetCalls
<1>4. ASSUME Context!Return(t)
      PROVE  /\ DOMAIN contextCalls' = Threads
             /\ contextCalls'[t] = Context!Front(contextCalls[t])
             /\ \A u \in Threads : u # t => contextCalls'[u] = contextCalls[u]
  BY <1>4 DEF Context!Return, ContextInv, ContextTypes
<1>5. Context!Return(t) => \A u \in Threads : Calls(contextCalls'[u])
  BY <1>2, <1>4 DEF ContextInv, ContextTypes
<1> QED
  BY <1>2, <1>3, <1>4, <1>5

(* A value goes, and nobody else has it: Erase clears it, Release gives it *)
(* away.                                                                   *)
LEMMA ValueGoes ==
  ASSUME ContextInv, NEW k \in ValueKeys, values[k] # Absent,
         values' = [values EXCEPT ![k] = Absent],
         names' = [n \in Names |-> IF n = k[1] THEN Absent ELSE names[n]],
         \/ live' = live \ {values[k]} /\ released' = released
         \/ live' = live /\ released' = released \cup {values[k]},
         DOMAIN contextCalls' = Threads,
         \A t \in Threads : /\ Calls(contextCalls'[t])
                            /\ Carried(contextCalls'[t]) = Carried(contextCalls[t])
  PROVE  ContextInv'
<1>1. /\ values'[k] = Absent
      /\ \A j \in ValueKeys : j # k => values'[j] = values[j]
      /\ values' \in [ValueKeys -> Objects \cup {Absent}]
      /\ values[k] \in Objects
  BY DEF ContextInv, ContextTypes
<1>2. ContextTypes'
  BY <1>1 DEF ContextInv, ContextTypes
<1>3. NamesKnown'
  <2> SUFFICES ASSUME NEW n \in Names, NEW y \in ValueTypes
               PROVE  values'[<<n, y>>] # Absent <=> names'[n] = y
    BY DEF NamesKnown
  <2>1. <<n, y>> \in ValueKeys /\ (values[<<n, y>>] # Absent <=> names[n] = y)
    BY DEF ValueKeys, ContextInv, NamesKnown
  <2>2. y # Absent
    BY ContextAssumption
  <2>3. CASE n # k[1]
    <3>1. <<n, y>> # k
      BY <2>3
    <3> QED
      BY <1>1, <2>1, <2>3, <3>1
  <2>4. CASE n = k[1]
    <3>1. PICK z \in ValueTypes : k = <<n, z>>
      BY <2>4 DEF ValueKeys
    <3>2. names[n] = z
      BY <3>1 DEF ContextInv, NamesKnown
    <3>3. values'[<<n, y>>] = Absent
      BY <1>1, <2>1, <3>1, <3>2
    <3> QED
      BY <2>2, <2>4, <3>3
  <2> QED
    BY <2>3, <2>4
<1>4. OwnersApart'
  BY <1>1 DEF ContextInv, OwnersApart
<1>5. OwnersKnown'
  <2> SUFFICES ASSUME NEW o \in Objects
               PROVE  o \in live' <=> \/ \E j \in ValueKeys : values'[j] = o
                                      \/ \E t \in Threads : Carried(contextCalls'[t]) = o
                                      \/ o \in released'
    BY DEF OwnersKnown
  <2>1. o # Absent
    BY ContextAssumption
  <2>2. (\E j \in ValueKeys : values'[j] = o) <=> o # values[k] /\ \E j \in ValueKeys : values[j] = o
    BY <1>1, <2>1 DEF ContextInv, OwnersApart
  <2>3. (\E t \in Threads : Carried(contextCalls'[t]) = o)
          <=> \E t \in Threads : Carried(contextCalls[t]) = o
    OBVIOUS
  <2>4. values[k] \in live /\ values[k] \notin released
        /\ \A t \in Threads : Carried(contextCalls[t]) # values[k]
    BY <1>1 DEF ContextInv, OwnersKnown, OwnersApart
  <2>5. o \in live <=> \/ \E j \in ValueKeys : values[j] = o
                       \/ \E t \in Threads : Carried(contextCalls[t]) = o
                       \/ o \in released
    BY DEF ContextInv, OwnersKnown
  <2> QED
    BY <2>2, <2>3, <2>4, <2>5
<1> QED
  BY <1>2, <1>3, <1>4, <1>5 DEF ContextInv

(* A call returns that has set its object as the value of a key, over the  *)
(* one there was, or where the name was not taken.                         *)
LEMMA ValueComes ==
  ASSUME ContextInv, NEW t \in Threads, contextCalls[t] # <<>>,
         Context!In(t).object # Absent, Context!Return(t),
         values' = [values EXCEPT ![Context!Key(t)] = Context!In(t).object],
         live' = live \ ({values[Context!Key(t)]} \ {Absent}), released' = released,
         NamesKnown', names' \in [Names -> ValueTypes \cup {Absent}]
  PROVE  ContextInv'
<1> DEFINE k == Context!Key(t)
           o == Context!In(t).object
<1>1. /\ k \in ValueKeys /\ o \in Objects
      /\ DOMAIN contextCalls' = Threads /\ \A u \in Threads : Calls(contextCalls'[u])
      /\ Carried(contextCalls[t]) = o
      /\ \A u \in Threads :
           Carried(contextCalls'[u]) = IF u = t THEN Absent ELSE Carried(contextCalls[u])
  BY InnermostOf DEF SetCalls
<1> HIDE DEF k, o
<1>2. /\ values'[k] = o
      /\ \A j \in ValueKeys : j # k => values'[j] = values[j]
      /\ values' \in [ValueKeys -> Objects \cup {Absent}]
      /\ live' = live \ ({values[k]} \ {Absent})
  BY <1>1 DEF ContextInv, ContextTypes, k, o
<1>3. /\ o # Absent /\ o \notin released /\ \A j \in ValueKeys : values[j] # o
      /\ \A u \in Threads : u # t => Carried(contextCalls[u]) # o
  BY <1>1, ContextAssumption DEF ContextInv, OwnersApart
<1>4. ContextTypes'
  BY <1>1, <1>2 DEF ContextInv, ContextTypes
<1>5. OwnersApart'
  <2>1. Absent \notin released
    BY ContextAssumption DEF ContextInv, ContextTypes
  <2>2. (\A i, j \in ValueKeys : values[i] = values[j] /\ values[i] # Absent => i = j)'
    BY <1>1, <1>2, <1>3 DEF ContextInv, OwnersApart
  <2>3. (\A j \in ValueKeys : values[j] # Absent =>
           values[j] \notin released /\ \A u \in Threads : Carried(contextCalls[u]) # values[j])'
    BY <1>1, <1>2, <1>3 DEF ContextInv, OwnersApart
  <2>4. (\A u \in Threads : Carried(contextCalls[u]) \notin released)'
    BY <1>1, <2>1 DEF ContextInv, OwnersApart
  <2>5. (\A u, v \in Threads :
           Carried(contextCalls[u]) = Carried(contextCalls[v]) /\ Carried(contextCalls[u]) # Absent
             => u = v)'
    BY <1>1 DEF ContextInv, OwnersApart
  <2> QED
    BY <2>2, <2>3, <2>4, <2>5 DEF OwnersApart
<1>6. OwnersKnown'
  <2> SUFFICES ASSUME NEW p \in Objects
               PROVE  p \in live' <=> \/ \E j \in ValueKeys : values'[j] = p
                                      \/ \E u \in Threads : Carried(contextCalls'[u]) = p
                                      \/ p \in released
    BY DEF OwnersKnown
  <2>1. p # Absent
    BY ContextAssumption
  <2>2. (\E u \in Threads : Carried(contextCalls'[u]) = p)
          <=> p # o /\ \E u \in Threads : Carried(contextCalls[u]) = p
    BY <1>1, <1>3, <2>1
  <2>3. (\E j \in ValueKeys : values'[j] = p)
          <=> p = o \/ (p # values[k] /\ \E j \in ValueKeys : values[j] = p)
    BY <1>1, <1>2, <2>1 DEF ContextInv, OwnersApart
  <2>4. values[k] # Absent =>
          values[k] \notin released /\ \A u \in Threads : Carried(contextCalls[u]) # values[k]
    BY <1>1 DEF ContextInv, OwnersApart
  <2>5. p \in live <=> \/ \E j \in ValueKeys : values[j] = p
                       \/ \E u \in Threads : Carried(contextCalls[u]) = p
                       \/ p \in released
    BY DEF ContextInv, OwnersKnown
  <2>6. p \in live' <=> p \in live /\ p # values[k]
    BY <1>2, <2>1
  <2>7. p = o => p \in live /\ p # values[k]
    BY <1>1, <1>3, <2>5
  <2> QED
    BY <2>2, <2>3, <2>4, <2>5, <2>6, <2>7, <1>1, <1>3, <2>1
<1> QED
  BY <1>4, <1>5, <1>6 DEF ContextInv

LEMMA ContextErases ==
  ASSUME ContextInv, NEW t \in Threads, Context!Erase(t)
  PROVE  ContextInv'
<1> DEFINE k == Context!Key(t)
<1>1. /\ contextCalls[t] # <<>> /\ values[k] # Absent /\ Context!In(t).object = Absent
      /\ values' = [values EXCEPT ![k] = Absent]
      /\ names' = [n \in Names |-> IF n = Context!In(t).name THEN Absent ELSE names[n]]
      /\ live' = live \ {values[k]} /\ released' = released
      /\ Context!Return(t)
  BY DEF Context!Erase
<1>2. /\ k \in ValueKeys /\ k[1] = Context!In(t).name
      /\ DOMAIN contextCalls' = Threads
      /\ \A u \in Threads : /\ Calls(contextCalls'[u])
                            /\ Carried(contextCalls'[u]) = Carried(contextCalls[u])
  BY <1>1, InnermostOf
<1> HIDE DEF k
<1>3. names' = [n \in Names |-> IF n = k[1] THEN Absent ELSE names[n]]
  BY <1>1, <1>2
<1> QED
  BY <1>1, <1>2, <1>3, ValueGoes

LEMMA ContextReplaces ==
  ASSUME ContextInv, NEW t \in Threads, Context!Replace(t)
  PROVE  ContextInv'
<1>1. /\ contextCalls[t] # <<>> /\ values[Context!Key(t)] # Absent
      /\ Context!In(t).object # Absent
      /\ values' = [values EXCEPT ![Context!Key(t)] = Context!In(t).object]
      /\ live' = live \ {values[Context!Key(t)]}
      /\ Context!Return(t) /\ names' = names /\ released' = released
  BY DEF Context!Replace, Context!LiveWithout
<1>2. Context!Key(t) \in ValueKeys
  BY <1>1, InnermostOf
<1>3. NamesKnown'
  <2> SUFFICES ASSUME NEW n \in Names, NEW y \in ValueTypes
               PROVE  values'[<<n, y>>] # Absent <=> names[n] = y
    BY <1>1 DEF NamesKnown
  <2>1. <<n, y>> \in ValueKeys /\ (values[<<n, y>>] # Absent <=> names[n] = y)
    BY DEF ValueKeys, ContextInv, NamesKnown
  <2>2. values'[<<n, y>>] = IF <<n, y>> = Context!Key(t) THEN Context!In(t).object
                                                       ELSE values[<<n, y>>]
    BY <1>1, <2>1 DEF ContextInv, ContextTypes
  <2> QED
    BY <1>1, <2>1, <2>2
<1>4. live' = live \ ({values[Context!Key(t)]} \ {Absent})
  BY <1>1
<1>5. names' \in [Names -> ValueTypes \cup {Absent}]
  BY <1>1 DEF ContextInv, ContextTypes
<1> QED
  BY <1>1, <1>3, <1>4, <1>5, ValueComes

LEMMA ContextInserts ==
  ASSUME ContextInv, NEW t \in Threads, Context!Insert(t)
  PROVE  ContextInv'
<1> DEFINE in == Context!In(t)
<1>1. /\ contextCalls[t] # <<>> /\ values[Context!Key(t)] = Absent
      /\ in.object # Absent
      /\ ~(in.name # Absent /\ names[in.name] # Absent)
      /\ values' = [values EXCEPT ![Context!Key(t)] = in.object]
      /\ names' = [n \in Names |-> IF n = in.name THEN in.type ELSE names[n]]
      /\ Context!Return(t) /\ live' = live /\ released' = released
  BY DEF Context!Insert, Context!NameTaken, Context!Named
<1>2. in \in SetCalls /\ Context!Key(t) = <<in.name, in.type>> /\ Context!Key(t) \in ValueKeys
  BY <1>1, InnermostOf
<1>3. in.type \in ValueTypes
  BY <1>2 DEF SetCalls
<1> HIDE DEF in
<1>4. NamesKnown'
  <2> SUFFICES ASSUME NEW n \in Names, NEW y \in ValueTypes
               PROVE  values'[<<n, y>>] # Absent <=> names'[n] = y
    BY DEF NamesKnown
  <2>1. <<n, y>> \in ValueKeys /\ (values[<<n, y>>] # Absent <=> names[n] = y)
    BY DEF ValueKeys, ContextInv, NamesKnown
  <2>2. /\ values'[<<n, y>>] = IF n = in.name /\ y = in.type THEN in.object
                                                           ELSE values[<<n, y>>]
        /\ names'[n] = IF n = in.name THEN in.type ELSE names[n]
    BY <1>1, <1>2, <2>1 DEF ContextInv, ContextTypes
  <2>3. n # Absent /\ y # Absent
    BY ContextAssumption
  <2> QED
    BY <1>1, <2>1, <2>2, <2>3
<1>5. live' = live \ ({values[Context!Key(t)]} \ {Absent})
  BY <1>1
<1>6. names' \in [Names -> ValueTypes \cup {Absent}]
  BY <1>1, <1>3 DEF ContextInv, ContextTypes
<1> QED
  BY <1>1, <1>4, <1>5, <1>6, ValueComes DEF in

LEMMA ContextDoesNothing ==
  ASSUME ContextInv, NEW t \in Threads, Context!Nothing(t)
  PROVE  ContextInv'
<1>1. /\ contextCalls[t] # <<>> /\ Context!In(t).object = Absent /\ Context!Return(t)
      /\ UNCHANGED <<values, names, live, released>>
  BY DEF Context!Nothing
<1>2. DOMAIN contextCalls' = Threads
      /\ \A u \in Threads : /\ Calls(contextCalls'[u])
                            /\ Carried(contextCalls'[u]) = Carried(contextCalls[u])
  BY <1>1, InnermostOf
<1> QED
  BY <1>1, <1>2, CallsOnly

LEMMA ContextClearsFirst ==
  ASSUME ContextInv, NEW t \in Threads, Context!ClearFirst(t)
  PROVE  ContextInv'
<1> DEFINE in == Context!In(t)
           s == contextCalls[t]
           rest == Context!Front(s)
           clear(y) == [name |-> in.name, type |-> y, object |-> Absent]
<1>1. PICK y \in ValueTypes :
        contextCalls' = [contextCalls EXCEPT ![t] =
                           Append(IF in.object = Absent THEN rest ELSE s, clear(y))]
  BY DEF Context!ClearFirst, Context!SetCall
<1>2. s # <<>> /\ UNCHANGED <<values, names, live, released>>
  BY DEF Context!ClearFirst
<1>3. Calls(s) /\ in = Context!Last(s)
  BY DEF ContextInv, ContextTypes, Context!In
<1>4. in \in SetCalls
  BY <1>2, <1>3, InnermostCall
<1>5. clear(y) \in SetCalls /\ clear(y).object = Absent
  BY <1>4 DEF SetCalls
<1> HIDE DEF clear
<1>6. /\ in.object = Absent =>
           Calls(Append(rest, clear(y))) /\ Carried(Append(rest, clear(y))) = Carried(s)
      /\ in.object # Absent =>
           Calls(Append(s, clear(y))) /\ Carried(Append(s, clear(y))) = Carried(s)
  BY <1>2, <1>3, <1>5, InnermostCall
<1>7. DOMAIN contextCalls' = Threads
      /\ \A u \in Threads : /\ Calls(contextCalls'[u])
                            /\ Carried(contextCalls'[u]) = Carried(contextCalls[u])
  BY <1>1, <1>6 DEF ContextInv, ContextTypes
<1> QED
  BY <1>2, <1>7, CallsOnly

LEMMA ContextReleases ==
  ASSUME ContextInv, NEW t \in Threads, NEW n \in Names \cup {Absent}, NEW y \in ValueTypes,
         Context!Release(t, n, y)
  PROVE  ContextInv'
<1> DEFINE k == <<n, y>>
<1>1. /\ values[k] # Absent
      /\ released' = released \cup {values[k]}
      /\ values' = [values EXCEPT ![k] = Absent]
      /\ names' = [m \in Names |-> IF m = n THEN Absent ELSE names[m]]
      /\ live' = live /\ contextCalls' = contextCalls
  BY DEF Context!Release
<1>2. k \in ValueKeys /\ k[1] = n
  BY DEF ValueKeys
<1>3. DOMAIN contextCalls' = Threads
      /\ \A u \in Threads : /\ Calls(contextCalls'[u])
                            /\ Carried(contextCalls'[u]) = Carried(contextCalls[u])
  BY <1>1 DEF ContextInv, ContextTypes
<1> HIDE DEF k
<1>4. names' = [m \in Names |-> IF m = k[1] THEN Absent ELSE names[m]]
  BY <1>1, <1>2
<1> QED
  BY <1>1, <1>2, <1>3, <1>4, ValueGoes

LEMMA ContextDeletes ==
  ASSUME ContextInv, NEW o \in Objects, Context!DeleteReleased(o)
  PROVE  ContextInv'
<1>1. /\ o \in released /\ released' = released \ {o} /\ live' = live \ {o}
      /\ UNCHANGED <<values, names, contextCalls>>
  BY DEF Context!DeleteReleased
<1>2. ContextTypes' /\ NamesKnown'
  BY <1>1 DEF ContextInv, ContextTypes, NamesKnown
<1>3. OwnersApart'
  BY <1>1 DEF ContextInv, OwnersApart
<1>4. OwnersKnown'
  <2>1. /\ \A k \in ValueKeys : values[k] # o
        /\ \A t \in Threads : Carried(contextCalls[t]) # o
    BY <1>1, ContextAssumption DEF ContextInv, OwnersApart
  <2> QED
    BY <1>1, <2>1 DEF ContextInv, OwnersKnown
<1> QED
  BY <1>2, <1>3, <1>4 DEF ContextInv

LEMMA ContextResets ==
  ASSUME ContextInv, Context!Reset
  PROVE  ContextInv'
<1>1. /\ DOMAIN values = ValueKeys
      /\ live' = live \ {values[k] : k \in ValueKeys}
      /\ values' = [k \in ValueKeys |-> Absent]
      /\ names' = [n \in Names |-> Absent]
      /\ UNCHANGED <<released, contextCalls>>
  BY DEF Context!Reset, ContextInv, ContextTypes
<1>2. ContextTypes'
  BY <1>1 DEF ContextInv, ContextTypes
<1>3. NamesKnown'
  <2> SUFFICES ASSUME NEW n \in Names, NEW y \in ValueTypes
               PROVE  values'[<<n, y>>] # Absent <=> names'[n] = y
    BY DEF NamesKnown
  <2>1. <<n, y>> \in ValueKeys /\ y # Absent
    BY ContextAssumption DEF ValueKeys
  <2> QED
    BY <1>1, <2>1
<1>4. OwnersApart'
  BY <1>1 DEF ContextInv, OwnersApart
<1>5. OwnersKnown'
  BY <1>1, ContextAssumption DEF ContextInv, OwnersApart, OwnersKnown
<1> QED
  BY <1>2, <1>3, <1>4, <1>5 DEF ContextInv

LEMMA ContextNext == ContextInv /\ [Context!Next]_contextVars => ContextInv'
<1>1. ASSUME ContextInv, UNCHANGED contextVars PROVE ContextInv'
  BY <1>1 DEF contextVars, ContextInv, ContextTypes, NamesKnown, OwnersApart, OwnersKnown
<1>2. ASSUME ContextInv, Context!Next PROVE ContextInv'
  BY <1>2, ContextSets, ContextClearsName, ContextErases, ContextReplaces, ContextInserts,
     ContextDoesNothing, ContextClearsFirst, ContextReleases, ContextDeletes, ContextResets
     DEF Context!Next, Context!AllNames
<1> QED
  BY <1>1, <1>2

LEMMA CarriedEntering ==
  ASSUME NEW s, Calls(s)
  PROVE  {c.object : c \in Context!ToSet(s)} \ {Absent} = {Carried(s)} \ {Absent}
<1>1. CASE s = <<>>
  BY <1>1 DEF Carried, Context!ToSet, ToSet
<1>2. CASE OneCall(s)
  <2>1. PICK c \in SetCalls : s = <<c>>
    BY <1>2 DEF OneCall
  <2>2. Context!ToSet(s) = {c}
    BY <2>1 DEF Context!ToSet, ToSet
  <2>3. Carried(s) = c.object
    BY <2>1 DEF Carried
  <2> QED
    BY <2>2, <2>3
<1>3. CASE TwoCalls(s)
  <2>1. PICK c \in SetCalls, d \in SetCalls : c.object # Absent /\ d.object = Absent /\ s = <<c, d>>
    BY <1>3 DEF TwoCalls
  <2>2. Context!ToSet(s) = {c, d}
    BY <2>1 DEF Context!ToSet, ToSet
  <2>3. Carried(s) = c.object
    BY <2>1 DEF Carried
  <2> QED
    BY <2>1, <2>2, <2>3
<1> QED
  BY <1>1, <1>2, <1>3 DEF Calls

LEMMA ContextHolds == ContextInv => Context!OneValuePerName /\ Context!OwnedOnce
<1> SUFFICES ASSUME ContextInv PROVE Context!OneValuePerName /\ Context!OwnedOnce
  OBVIOUS
<1>1. Context!OneValuePerName
  <2> SUFFICES ASSUME NEW n \in Names
               PROVE  {y \in ValueTypes : values[<<n, y>>] # Absent} = {names[n]} \ {Absent}
    BY DEF Context!OneValuePerName
  <2>1. names[n] \in ValueTypes \cup {Absent}
    BY DEF ContextInv, ContextTypes
  <2>2. \A y \in ValueTypes : values[<<n, y>>] # Absent <=> names[n] = y
    BY DEF ContextInv, NamesKnown
  <2> QED
    BY <2>1, <2>2, ContextAssumption
<1>2. DOMAIN values = ValueKeys
  BY DEF ContextInv, ContextTypes
<1>3. \A o : o \in Context!Stored <=> o # Absent /\ \E k \in ValueKeys : values[k] = o
  BY <1>2 DEF Context!Stored
<1>4. \A o : o \in Context!Entering <=> o # Absent /\ \E t \in Threads : Carried(contextCalls[t]) = o
  <2>1. \A t \in Threads : {c.object : c \in Context!ToSet(contextCalls[t])} \ {Absent}
                             = {Carried(contextCalls[t])} \ {Absent}
    BY CarriedEntering DEF ContextInv, ContextTypes
  <2> TAKE o
  <2>2. o \in Context!Entering <=>
          o # Absent /\ \E t \in Threads : o \in {c.object : c \in Context!ToSet(contextCalls[t])}
    BY DEF Context!Entering
  <2>3. ASSUME o # Absent, NEW t \in Threads
        PROVE  o \in {c.object : c \in Context!ToSet(contextCalls[t])} <=> Carried(contextCalls[t]) = o
    BY <2>1, <2>3
  <2> QED
    BY <2>2, <2>3
<1>5. live = Context!Stored \cup Context!Entering \cup released
  <2>1. \A o \in Objects : o # Absent
    BY ContextAssumption
  <2>2. Context!Stored \subseteq Objects
    BY <1>3 DEF ContextInv, ContextTypes
  <2>3. Context!Entering \subseteq Objects
    <3>1. \A t \in Threads : Carried(contextCalls[t]) \in Objects \cup {Absent}
      <4> SUFFICES ASSUME NEW t \in Threads, contextCalls[t] # <<>>
                   PROVE  Carried(contextCalls[t]) \in Objects \cup {Absent}
        BY DEF Carried
      <4>1. OneCall(contextCalls[t]) \/ TwoCalls(contextCalls[t])
        BY DEF ContextInv, ContextTypes, Calls
      <4>2. PICK c \in SetCalls : contextCalls[t][1] = c
        BY <4>1 DEF OneCall, TwoCalls
      <4> QED
        BY <4>2 DEF Carried, SetCalls
    <3> QED
      BY <1>4, <3>1
  <2>4. live \subseteq Objects /\ released \subseteq Objects
    BY DEF ContextInv, ContextTypes
  <2> QED
    BY <1>3, <1>4, <2>1, <2>2, <2>3, <2>4 DEF ContextInv, OwnersKnown
<1>6. /\ Context!Stored \cap Context!Entering = {} /\ Context!Stored \cap released = {}
      /\ Context!Entering \cap released = {}
  BY <1>3, <1>4 DEF ContextInv, OwnersApart
<1>7. \A j, k \in DOMAIN values : values[j] = values[k] /\ values[j] # Absent => j = k
  BY <1>2 DEF ContextInv, OwnersApart
<1> QED
  BY <1>1, <1>5, <1>6, <1>7 DEF Context!OwnedOnce

-----------------------------------------------------------------------------
(* Contracts.                                                              *)

ContractInv ==
  /\ has \in [Contexts -> SUBSET Keys]
  /\ context \in [Validated -> Contexts \cup {Absent}]
  /\ constraints \in [Validated -> Contracts \cup {{}}]

LEMMA ContractInit == Contract!Init => ContractInv
  BY DEF Contract!Init, ContractInv

LEMMA DefaultsAreKeys ==
  ASSUME NEW h, NEW c, NEW cs \in Contracts \cup {{}}, NEW presence
  PROVE  /\ Contract!Defaults(h, c, cs, presence) \subseteq Keys
         /\ \A k \in Contract!Defaults(h, c, cs, presence) : \E x \in cs : x.key = k
  BY ContractAssumption DEF Contract!Defaults, Contract!Of

(* What a completion leaves.                                               *)
LEMMA CompletedIs ==
  ASSUME ContractInv, NEW v \in Validated
  PROVE  LET h == Contract!Completed(has, v)
             c == context[v]
             cs == constraints[v]
         IN /\ h \in [Contexts -> SUBSET Keys]
            /\ \A d \in Contexts : d # c => h[d] = has[d]
            /\ c # Absent => \A k :
                 k \in h[c] <=>
                   /\ k \in has[c] \/ k \in Contract!Defaults(has, c, cs, "outOptional")
                   /\ \A s \in cs : s.presence = "scoped" =>
                        k # s.key /\ (k[1] # s.key[1] \/ k[1] = Absent)
<1> DEFINE h == Contract!Completed(has, v)
           c == context[v]
           cs == constraints[v]
           D == Contract!Defaults(has, c, cs, "outOptional")
           left == {k \in has[c] \cup D : \A s \in cs : s.presence = "scoped" =>
                      k # s.key /\ (k[1] # s.key[1] \/ k[1] = Absent)}
<1>1. CASE c = Absent
  <2>1. h = has
    BY <1>1 DEF Contract!Completed
  <2> QED
    BY <1>1, <2>1 DEF ContractInv
<1>2. CASE c # Absent
  <2>1. c \in Contexts /\ cs \in Contracts \cup {{}}
    BY <1>2 DEF ContractInv
  <2>2. D \subseteq Keys
    BY <2>1, DefaultsAreKeys
  <2> DEFINE scoped == {x.key : x \in Contract!Of(cs, {"scoped"})}
             kept == {k \in has[c] \cup D : \A s \in scoped : k # s /\ (k[1] # s[1] \/ k[1] = Absent)}
  <2>3. h = [has EXCEPT ![c] = kept]
    BY <1>2, <2>1 DEF Contract!Completed, ContractInv
  <2> HIDE DEF h, D
  <2>4. kept = left
    BY DEF Contract!Of
  <2> HIDE DEF kept
  <2>5. h = [has EXCEPT ![c] = left]
    BY <2>3, <2>4
  <2>6. left \subseteq Keys
    BY <2>1, <2>2 DEF ContractInv
  <2>7. h \in [Contexts -> SUBSET Keys] /\ h[c] = left /\ \A d \in Contexts : d # c => h[d] = has[d]
    BY <2>1, <2>5, <2>6 DEF ContractInv
  <2> QED
    BY <2>7 DEF h, D
<1> QED
  BY <1>1, <1>2

LEMMA ContractCompletes ==
  ASSUME ContractInv, NEW v \in Validated,
         \/ Contract!Complete(v)
         \/ Contract!Destroy(v)
         \/ \E other \in Validated : Contract!MoveTo(v, other)
  PROVE  ContractInv'
<1>1. Contract!Completed(has, v) \in [Contexts -> SUBSET Keys]
  BY CompletedIs
<1>2. has' \in [Contexts -> SUBSET Keys]
  BY <1>1 DEF ContractInv, Contract!Complete, Contract!Destroy, Contract!MoveTo
<1>3. context' \in [Validated -> Contexts \cup {Absent}]
  BY DEF ContractInv, Contract!Complete, Contract!Destroy, Contract!MoveTo
<1>4. constraints' \in [Validated -> Contracts \cup {{}}]
  BY DEF ContractInv, Contract!Complete, Contract!Destroy, Contract!MoveTo
<1> QED
  BY <1>2, <1>3, <1>4 DEF ContractInv

(* What an assignment leaves: it completes the contract there was, and     *)
(* gives what the new one lacks its defaults.                              *)
LEMMA AssignedIs ==
  ASSUME ContractInv, NEW v \in Validated, NEW c \in Contexts, NEW cs \in Contracts,
         Contract!Assign(v, c, cs)
  PROVE  LET h == Contract!Completed(has, v)
         IN /\ has' \in [Contexts -> SUBSET Keys]
            /\ has'[c] = h[c] \cup Contract!Defaults(h, c, cs, "inOptional")
            /\ \A d \in Contexts : d # c => has'[d] = h[d]
<1> DEFINE h == Contract!Completed(has, v)
           D == Contract!Defaults(h, c, cs, "inOptional")
<1>1. has' = [h EXCEPT ![c] = h[c] \cup D]
  BY DEF Contract!Assign
<1>2. h \in [Contexts -> SUBSET Keys]
  BY CompletedIs
<1>3. D \subseteq Keys
  BY DefaultsAreKeys
<1> HIDE DEF h, D
<1> QED
  BY <1>1, <1>2, <1>3 DEF h, D

LEMMA ContractAssigns ==
  ASSUME ContractInv, NEW v \in Validated, NEW c \in Contexts, NEW cs \in Contracts,
         Contract!Assign(v, c, cs)
  PROVE  ContractInv'
<1>1. has' \in [Contexts -> SUBSET Keys]
  BY AssignedIs
<1>2. context' = [context EXCEPT ![v] = c] /\ constraints' = [constraints EXCEPT ![v] = cs]
  BY DEF Contract!Assign
<1> QED
  BY <1>1, <1>2 DEF ContractInv

LEMMA ContractWrites ==
  ASSUME ContractInv, NEW v \in Validated, NEW k \in Keys,
         Contract!SetValue(v, k) \/ Contract!ClearValue(v, k)
  PROVE  ContractInv'
<1>1. context[v] \in Contexts /\ UNCHANGED <<context, constraints>>
  BY DEF Contract!SetValue, Contract!ClearValue, ContractInv
<1>2. has' \in [Contexts -> SUBSET Keys]
  BY <1>1
  DEF Contract!SetValue, Contract!ClearValue, Contract!WithSet, Contract!WithClear, ContractInv
<1> QED
  BY <1>1, <1>2 DEF ContractInv

LEMMA ContractNext == ContractInv /\ [Contract!Next]_contractVars => ContractInv'
<1>1. ASSUME ContractInv, UNCHANGED contractVars PROVE ContractInv'
  BY <1>1 DEF contractVars, ContractInv
<1>2. ASSUME ContractInv, Contract!Next PROVE ContractInv'
  BY <1>2, ContractCompletes, ContractAssigns, ContractWrites DEF Contract!Next
<1> QED
  BY <1>1, <1>2

(* An assignment tests what is there before it completes the contract      *)
(* there was, which is of another context, and not of the parent.          *)
LEMMA AssignKeepsInputs ==
  ASSUME ContractInv, NEW v \in Validated, NEW c \in Contexts, NEW cs \in Contracts,
         Contract!Assign(v, c, cs), NEW x \in cs, x.presence = "inRequired"
  PROVE  Contract!Exists(has', c, x.key)
<1> DEFINE h == Contract!Completed(has, v)
<1>1. Contract!Exists(has, c, x.key)
  BY DEF Contract!Assign, Contract!Assignable, Contract!Accepts, Contract!Met, Contract!Of
<1>2. /\ context[v] # c
      /\ ParentOf[c] # Absent => ParentOf[c] \in Contexts /\ context[v] # ParentOf[c]
  BY ContextAssumption, ContractAssumption DEF Contract!Assign
<1>3. \A d \in Contexts : d # context[v] => h[d] = has[d]
  BY CompletedIs
<1>4. \A d \in Contexts : h[d] \subseteq has'[d]
  BY AssignedIs
<1> HIDE DEF h
<1>5. /\ has[c] \subseteq has'[c]
      /\ ParentOf[c] # Absent => has[ParentOf[c]] \subseteq has'[ParentOf[c]]
  BY <1>2, <1>3, <1>4
<1> QED
  BY <1>1, <1>5 DEF Contract!Exists, Contract!AllOf

LEMMA AssignChangesNamed ==
  ASSUME ContractInv, NEW v \in Validated, NEW c \in Contexts, NEW cs \in Contracts,
         Contract!Assign(v, c, cs), NEW d \in Contexts, NEW k \in Keys,
         (k \in has[d]) # (k \in has'[d])
  PROVE  \E x \in constraints[v] \cup cs : x.key = k \/ (k[1] # Absent /\ x.key[1] = k[1])
<1> DEFINE h == Contract!Completed(has, v)
<1>1. constraints[v] \in Contracts \cup {{}}
  BY DEF ContractInv
<1>2. CASE (k \in h[d]) # (k \in has'[d])
  <2>1. d = c /\ k \in Contract!Defaults(h, c, cs, "inOptional")
    BY <1>2, AssignedIs
  <2> QED
    BY <2>1, DefaultsAreKeys
<1>3. CASE (k \in has[d]) # (k \in h[d])
  <2>1. /\ \A e \in Contexts : e # context[v] => h[e] = has[e]
        /\ context[v] # Absent => \A j :
             j \in h[context[v]] <=>
               /\ \/ j \in has[context[v]]
                  \/ j \in Contract!Defaults(has, context[v], constraints[v], "outOptional")
               /\ \A s \in constraints[v] : s.presence = "scoped" =>
                    j # s.key /\ (j[1] # s.key[1] \/ j[1] = Absent)
    BY CompletedIs
  <2> HIDE DEF h
  <2>2. d = context[v] /\ d # Absent
    BY <1>3, <2>1, ContextAssumption
  <2>3. \/ k \in Contract!Defaults(has, context[v], constraints[v], "outOptional")
        \/ \E s \in constraints[v] : k = s.key \/ (k[1] = s.key[1] /\ k[1] # Absent)
    BY <1>3, <2>1, <2>2
  <2>4. k \in Contract!Defaults(has, context[v], constraints[v], "outOptional") =>
          \E x \in constraints[v] : x.key = k
    BY <1>1, DefaultsAreKeys
  <2> QED
    BY <2>3, <2>4
<1> QED
  BY <1>2, <1>3

LEMMA CompleteMeets ==
  ASSUME ContractInv, NEW v \in Validated, Contract!Complete(v), NEW x \in constraints[v]
  PROVE  /\ x.presence = "outRequired" => Contract!Exists(has', context[v], x.key)
         /\ x.presence = "scoped" => x.key \notin has'[context[v]]
<1>1. /\ context[v] \in Contexts /\ context[v] # Absent
      /\ constraints[v] \in Contracts
      /\ has' = Contract!Completed(has, v)
  BY DEF Contract!Complete, ContractInv
<1>2. /\ \A d \in Contexts : d # context[v] => has'[d] = has[d]
      /\ \A k : k \in has'[context[v]] <=>
           /\ \/ k \in has[context[v]]
              \/ k \in Contract!Defaults(has, context[v], constraints[v], "outOptional")
           /\ \A s \in constraints[v] : s.presence = "scoped" =>
                k # s.key /\ (k[1] # s.key[1] \/ k[1] = Absent)
  BY <1>1, CompletedIs
<1>3. x.presence = "scoped" => x.key \notin has'[context[v]]
  BY <1>2
<1>4. ASSUME x.presence = "outRequired" PROVE Contract!Exists(has', context[v], x.key)
  <2>1. Contract!Exists(has, context[v], x.key)
    BY <1>1, <1>4 DEF Contract!Complete, Contract!CanComplete, Contract!Met, Contract!Of
  <2>2. \A s \in constraints[v] : s.presence = "scoped" =>
          x.key # s.key /\ (x.key[1] # s.key[1] \/ x.key[1] = Absent)
    BY <1>1, <1>4, ContractAssumption
  <2>3. x.key \in has[context[v]] => x.key \in has'[context[v]]
    BY <1>2, <2>2
  <2>4. ParentOf[context[v]] # Absent =>
          (x.key \in has[ParentOf[context[v]]] => x.key \in has'[ParentOf[context[v]]])
    <3>1. CASE ParentOf[context[v]] = context[v]
      BY <2>3, <3>1
    <3>2. CASE ParentOf[context[v]] # context[v]
      BY <1>1, <1>2, <3>2, ContractAssumption
    <3> QED
      BY <3>1, <3>2
  <2> QED
    BY <2>1, <2>3, <2>4 DEF Contract!Exists, Contract!AllOf
<1> QED
  BY <1>3, <1>4

-----------------------------------------------------------------------------
(* All together: a step is one of one component, and leaves the            *)
(* others as they are.                                                     *)

AllInv == IInv /\ DispatcherInv /\ PointerInv /\ ContextInv /\ ContractInv

LEMMA AllInit == MCInit => AllInv
  BY InvInit, DispatcherInit, PointerInit, ContextInit, ContractInit DEF MCInit, AllInv

LEMMA StepOfEach ==
  [MCNext]_allVars =>
    /\ [Next]_vars /\ [Dispatcher!Next]_dispatcherVars /\ [Pointer!Next]_pointerVars
    /\ [Context!Next]_contextVars /\ [Contract!Next]_contractVars
  BY DEF MCNext, allVars

LEMMA AllNext == AllInv /\ [MCNext]_allVars => AllInv'
<1> QED
  BY StepOfEach, InvNext, DispatcherNext, PointerNext, ContextNext, ContractNext DEF AllInv

LEMMA AllInvariance == MCFairSpec => []AllInv
  BY AllInit, AllNext, PTL DEF MCFairSpec

(* No handler runs once the destructor of an endpoint is past its wait, and *)
(* nothing is left to dispatch when a dispatcher's Cancel has returned; a   *)
(* weak pointer that is locked is to what exists, whatever locks are        *)
(* copied, moved and given up while it is invalidated.                      *)
THEOREM Ended == MCFairSpec => []EndedIsQuiet
<1>1. AllInv => EndedIsQuiet
  BY DispatcherHolds, PointerHolds DEF AllInv, IInv, EndedIsQuiet
<1> QED
  BY <1>1, AllInvariance, PTL

(* Every message a dispatcher was given is in one place, and dispatched in  *)
(* the order they were given, whichever of Update, the dispatcher's thread  *)
(* and Cancel dispatches it, and whatever is added meanwhile.               *)
THEOREM InOrder == MCFairSpec => []DispatchedInOrder
<1>1. AllInv => DispatchedInOrder
  BY DispatcherHolds DEF AllInv, DispatchedInOrder
<1> QED
  BY <1>1, AllInvariance, PTL

(* Whatever threads set, clear, release and delete in a context at once, a *)
(* name has one value and an object one owner; and whatever contracts are  *)
(* under way on the same contexts, an assignment leaves the inputs it      *)
(* requires, a completion its outputs and no scoped value, and neither     *)
(* changes what the two contracts do not name.                             *)
THEOREM ContextsAreSound == MCFairSpec => ContextsHold
<1>1. AllInv => (component = "context" => Context!OneValuePerName /\ Context!OwnedOnce)
  BY ContextHolds DEF AllInv
<1>2. ASSUME AllInv, NEW v \in Validated
      PROVE  /\ \A c \in Contexts, cs \in Contracts : Contract!Assign(v, c, cs) =>
                  /\ \A x \in Contract!Of(cs, {"inRequired"}) : Contract!Exists(has', c, x.key)
                  /\ \A d \in Contexts, k \in Keys :
                       (k \in has[d]) # (k \in has'[d]) =>
                         \E x \in constraints[v] \cup cs :
                           x.key = k \/ (k[1] # Absent /\ x.key[1] = k[1])
             /\ Contract!Complete(v) =>
                  /\ \A x \in Contract!Of(constraints[v], {"outRequired"}) :
                       Contract!Exists(has', context[v], x.key)
                  /\ \A x \in Contract!Of(constraints[v], {"scoped"}) :
                       x.key \notin has'[context[v]]
  <2>1. ASSUME NEW c \in Contexts, NEW cs \in Contracts, Contract!Assign(v, c, cs)
        PROVE  \A x \in Contract!Of(cs, {"inRequired"}) : Contract!Exists(has', c, x.key)
    BY <1>2, <2>1, AssignKeepsInputs DEF AllInv, Contract!Of
  <2>2. ASSUME NEW c \in Contexts, NEW cs \in Contracts, Contract!Assign(v, c, cs),
               NEW d \in Contexts, NEW k \in Keys, (k \in has[d]) # (k \in has'[d])
        PROVE  \E x \in constraints[v] \cup cs : x.key = k \/ (k[1] # Absent /\ x.key[1] = k[1])
    BY <1>2, <2>2, AssignChangesNamed DEF AllInv
  <2>3. ASSUME Contract!Complete(v)
        PROVE  /\ \A x \in Contract!Of(constraints[v], {"outRequired"}) :
                    Contract!Exists(has', context[v], x.key)
               /\ \A x \in Contract!Of(constraints[v], {"scoped"}) :
                    x.key \notin has'[context[v]]
    BY <1>2, <2>3, CompleteMeets DEF AllInv, Contract!Of
  <2> QED
    BY <2>1, <2>2, <2>3
<1>3. AllInv => [\A v \in Validated :
        /\ \A c \in Contexts, cs \in Contracts : Contract!Assign(v, c, cs) =>
             /\ \A x \in Contract!Of(cs, {"inRequired"}) : Contract!Exists(has', c, x.key)
             /\ \A d \in Contexts, k \in Keys :
                  (k \in has[d]) # (k \in has'[d]) =>
                    \E x \in constraints[v] \cup cs :
                      x.key = k \/ (k[1] # Absent /\ x.key[1] = k[1])
        /\ Contract!Complete(v) =>
             /\ \A x \in Contract!Of(constraints[v], {"outRequired"}) :
                  Contract!Exists(has', context[v], x.key)
             /\ \A x \in Contract!Of(constraints[v], {"scoped"}) :
                  x.key \notin has'[context[v]]]_(Contract!vars)
  BY <1>2
<1> QED
  BY <1>1, <1>3, AllInvariance, PTL DEF ContextsHold, Contract!ContractsHold

=============================================================================
