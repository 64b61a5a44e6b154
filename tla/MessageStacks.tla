---------------------------- MODULE MessageStacks ---------------------------
(***************************************************************************)
(* gb::MessageStackEndpoint and gb::MessageStackHandlers: a message of one *)
(* type goes to the handlers on a stack, one after another, until one has  *)
(* handled it, while the program pushes, removes and destroys handlers,    *)
(* sets and clears their callbacks, and destroys the endpoint.             *)
(*                                                                         *)
(* The endpoint below handles one message at a time (MessageEndpoint).     *)
(* The calls on one MessageStackHandlers come one at a time; they may come *)
(* while its callback runs, from the callback as well.  Handlers that were *)
(* removed keep the pointer to the endpoint: the program only destroys     *)
(* them.  It destroys handlers outside of their own callback, and the      *)
(* endpoint while no message has come as far as HandleMessage but not as   *)
(* far as its mutex_: the type would not be found there any more.  Nor does *)
(* it set callbacks of handlers that are on the stack of an endpoint whose *)
(* destructor runs: they would register the type there again.              *)
(***************************************************************************)
EXTENDS Naturals, Sequences, FiniteSets, SequencesExt

CONSTANTS
  Handlers, NoHandlers,
  Callbacks, NoCallback, Moved

VARIABLES
  endpoint,        (* "alive"; in its destructor "telling" the handlers,   *)
                   (* then "clearing" its members; or "destroyed".         *)
  stack,           (* stack_: handlers, NoHandlers where they were removed *)
                   (* or found to be destroyed; its copy in the destructor.*)
  registered,      (* messages_ has the type, and the endpoint a handler.  *)
  topDown,         (* The order for the type.                              *)
  alive,           (* The handlers that have not been destroyed.           *)
  stackOf,         (* stack_ of the handlers is not null.                  *)
  removed,         (* The handlers Remove was called with.                 *)
  callback,        (* handlers_ of the handlers.                           *)
  asked,           (* History: the callback last set, or NoCallback;       *)
                   (* Moved if it was set while one of the handlers ran.   *)
  pushing,         (* The handlers Push is about to put on the stack.      *)
  delivered,       (* The endpoint has called HandleMessage.               *)
  todo,            (* What HandleMessage has yet to try.                   *)
  running,         (* [handlers, callback] in Receive, or NoHandlers.      *)
  order, due, tried (* History of the message: the order it goes in, the   *)
                   (* handlers on the stack when it came, till one handled *)
                   (* it, and those that were tried.                       *)

handlerVars == <<alive, stackOf, removed, callback, asked>>
historyVars == <<order, due, tried>>
messageVars == <<delivered, todo, running, historyVars>>
vars == <<endpoint, stack, registered, topDown, handlerVars, pushing, messageVars>>

Init ==
  /\ endpoint = "alive" /\ stack = <<>> /\ registered = FALSE /\ topDown \in BOOLEAN
  /\ alive = Handlers /\ removed = {}
  /\ stackOf = [h \in Handlers |-> FALSE]
  /\ callback = [h \in Handlers |-> NoCallback]
  /\ pushing = NoHandlers
  /\ asked = callback
  /\ delivered = FALSE /\ todo = <<>> /\ running = NoHandlers
  /\ order = TRUE /\ due = {} /\ tried = {}

-----------------------------------------------------------------------------
(* Handlers.                                                               *)

Runs(h) == running # NoHandlers /\ running.handlers = h

(* SetHandler, which registers the type with the stack of the handlers.    *)
SetHandler(h, c) ==
  /\ h \in alive \ removed
  /\ endpoint = "alive" \/ ~stackOf[h]
  /\ callback' = [callback EXCEPT ![h] = c]
  /\ asked' = [asked EXCEPT ![h] = IF Runs(h) THEN Moved ELSE c]
  /\ registered' = (registered \/ stackOf[h])
  /\ UNCHANGED <<endpoint, stack, topDown, alive, stackOf, removed, pushing, messageVars>>

ClearHandler(h) ==
  /\ h \in alive /\ callback[h] # NoCallback
  /\ callback' = [callback EXCEPT ![h] = NoCallback]
  /\ asked' = [asked EXCEPT ![h] = NoCallback]
  /\ UNCHANGED <<endpoint, stack, registered, topDown, alive, stackOf, removed, pushing, messageVars>>

(* Mutant: the owner does not wait for the WeakLock of HandleMessage.      *)
MayGoNow(h) == h \in alive /\ pushing # h

MayGo(h) == h \in alive /\ pushing # h /\ ~Runs(h)

(* The destructor, which waits until no one has locked the handlers.       *)
DestroyHandlers(h) ==
  /\ MayGo(h)
  /\ alive' = alive \ {h}
  /\ UNCHANGED <<endpoint, stack, registered, topDown, stackOf, removed, callback, asked, pushing, messageVars>>

-----------------------------------------------------------------------------
(* The stack.                                                              *)

(* Mutant: handlers that have a callback are pushed, and no one hears.     *)
RegistersNone(h) == registered

(* SetStack registers what the handlers handle.                            *)
Registers(h) == registered \/ callback[h] # NoCallback

(* Push tells the handlers of their stack before it puts them on it.       *)
Push(h) ==
  /\ endpoint = "alive" /\ pushing = NoHandlers
  /\ h \in alive /\ ~stackOf[h]
  /\ stackOf' = [stackOf EXCEPT ![h] = TRUE]
  /\ registered' = Registers(h)
  /\ pushing' = h
  /\ UNCHANGED <<endpoint, stack, topDown, alive, removed, callback, asked, messageVars>>

Pushed ==
  /\ pushing # NoHandlers
  /\ stack' = Append(stack, pushing)
  /\ pushing' = NoHandlers
  /\ UNCHANGED <<endpoint, registered, topDown, handlerVars, messageVars>>

(* Remove: the node stays until it is cleaned, and so does stack_ of the   *)
(* handlers.                                                               *)
RemoveHandlers(h) ==
  /\ endpoint = "alive" /\ h \in alive \ removed /\ stackOf[h] /\ pushing # h
  /\ stack' = [i \in DOMAIN stack |-> IF stack[i] = h THEN NoHandlers ELSE stack[i]]
  /\ removed' = removed \cup {h}
  /\ UNCHANGED <<endpoint, registered, topDown, alive, stackOf, callback, asked, pushing, messageVars>>

SetOrder(top) ==
  /\ endpoint = "alive" /\ topDown # top
  /\ topDown' = top /\ registered' = TRUE
  /\ UNCHANGED <<endpoint, stack, handlerVars, pushing, messageVars>>

(* The destructor: the callbacks of the endpoint are cleared, then the     *)
(* handlers on the stack told, each on its own; the message that is        *)
(* handled comes to its end first, in the destructor of endpoint_.         *)
Destroy ==
  /\ endpoint = "alive" /\ pushing = NoHandlers /\ ~delivered
  /\ endpoint' = "telling" /\ registered' = FALSE
  /\ UNCHANGED <<stack, topDown, handlerVars, pushing, messageVars>>

(* Handlers that were removed or destroyed are passed over.                *)
Tell ==
  /\ endpoint = "telling" /\ stack # <<>>
  /\ stack' = Tail(stack)
  /\ stackOf' = [h \in Handlers |-> stackOf[h] /\ (h = Head(stack) => h \notin alive)]
  /\ UNCHANGED <<endpoint, registered, topDown, alive, removed, callback, asked, pushing, messageVars>>

Told ==
  /\ endpoint = "telling" /\ stack = <<>>
  /\ endpoint' = "clearing"
  /\ UNCHANGED <<stack, registered, topDown, handlerVars, pushing, messageVars>>

Destroyed ==
  /\ endpoint = "clearing" /\ running = NoHandlers /\ todo = <<>>
  /\ endpoint' = "destroyed"
  /\ UNCHANGED <<stack, registered, topDown, handlerVars, pushing, messageVars>>

-----------------------------------------------------------------------------
(* Messages.                                                               *)

(* A message of the type arrives.                                          *)
HandleMessage ==
  /\ registered /\ ~delivered /\ running = NoHandlers /\ todo = <<>>
  /\ delivered' = TRUE
  /\ UNCHANGED <<endpoint, stack, registered, topDown, handlerVars, pushing, todo, running, historyVars>>

(* GetHandlers: the handlers there are, in the order of the type.  Nodes   *)
(* of none, or of destroyed ones, leave the stack.  The others keep their  *)
(* order: the n-th of them is the one up to which there are n.             *)
Kept    == {i \in DOMAIN stack : stack[i] \in alive}
KeptTo(i) == Cardinality({j \in Kept : j <= i})
Cleaned == [n \in 1 .. Cardinality(Kept) |-> stack[CHOOSE i \in Kept : KeptTo(i) = n]]

(* Mutant: the messages all go from the bottom up.                         *)
BottomUp(handlers) == handlers

InOrder(handlers) == IF topDown THEN Reverse(handlers) ELSE handlers

GetHandlers ==
  /\ delivered
  /\ delivered' = FALSE
  /\ stack' = Cleaned
  /\ todo' = InOrder(Cleaned)
  /\ order' = topDown /\ due' = ToSet(stack) \cap alive /\ tried' = {}
  /\ UNCHANGED <<endpoint, registered, topDown, handlerVars, pushing, running>>

(* Receive of the next handlers, if they still exist and have a callback,  *)
(* which is moved out while it is called.                                  *)
Receive ==
  /\ todo # <<>> /\ running = NoHandlers
  /\ todo' = Tail(todo)
  /\ tried' = tried \cup {Head(todo)}
  /\ LET h == Head(todo)
     IN IF h \in alive /\ callback[h] # NoCallback
        THEN /\ running' = [handlers |-> h, callback |-> callback[h]]
             /\ callback' = [callback EXCEPT ![h] = Moved]
        ELSE UNCHANGED <<running, callback>>
  /\ UNCHANGED <<endpoint, stack, registered, topDown, alive, stackOf, removed, asked, pushing, delivered,
                 order, due>>

(* Mutant: the callback goes back although it was cleared.                 *)
PutsBack(h) == running.callback

(* The callback goes back, over one that was set meanwhile, unless there   *)
(* is none: if it was cleared and none set.                                *)
CallbackAfter(h) == IF callback[h] = NoCallback THEN NoCallback ELSE running.callback

(* Mutant: the message goes on although it was handled.                    *)
GoesOn(handled) == todo

Rest(handled) == IF handled THEN <<>> ELSE todo

(* The callback returns, and the message goes on if it was not handled.    *)
Returns(handled) ==
  /\ running # NoHandlers
  /\ LET h == running.handlers
     IN callback' = [callback EXCEPT ![h] = CallbackAfter(h)]
  /\ running' = NoHandlers
  /\ todo' = Rest(handled)
  /\ due' = IF handled THEN {} ELSE due
  /\ UNCHANGED <<endpoint, stack, registered, topDown, alive, stackOf, removed, asked, pushing, delivered,
                 order, tried>>

Next ==
  \/ \E h \in Handlers :
       \/ \E c \in Callbacks : SetHandler(h, c)
       \/ ClearHandler(h) \/ DestroyHandlers(h) \/ Push(h) \/ RemoveHandlers(h)
  \/ \E top \in BOOLEAN : SetOrder(top)
  \/ Pushed \/ Destroy \/ Tell \/ Told \/ Destroyed
  \/ HandleMessage \/ GetHandlers \/ Receive
  \/ \E handled \in BOOLEAN : Returns(handled)

Spec == Init /\ [][Next]_vars

-----------------------------------------------------------------------------
(* A handler on the stack is never left without its messages: as long as   *)
(* the endpoint lives it knows the type of every callback on its stack; a  *)
(* callback that runs is that of handlers that exist; and handlers have    *)
(* the endpoint as their stack while they are on it, which they are once.  *)
StacksServe ==
  /\ endpoint = "alive" =>
       \A h \in ToSet(stack) \cap alive : callback[h] # NoCallback => registered
  /\ running # NoHandlers => running.handlers \in alive
  /\ \A i, j \in DOMAIN stack : stack[i] = stack[j] /\ stack[i] # NoHandlers => i = j
  /\ \A h \in ToSet(stack) \cap alive : stackOf[h]

(* Handlers have a callback exactly if the last call for it set one, so    *)
(* that a clear no SetHandler follows is final, while the callback runs    *)
(* too; and what was set is what is kept and runs, unless one ran when it  *)
(* was set: that one is put back over it, even if it was cleared before.   *)
CallbacksAsked ==
  \A h \in Handlers :
    /\ callback[h] = NoCallback <=> asked[h] = NoCallback
    /\ asked[h] \in Callbacks =>
         callback[h] = IF Runs(h) THEN Moved ELSE asked[h]
    /\ asked[h] \in Callbacks /\ Runs(h) => running.callback = asked[h]

(* A message goes to the handlers that were on the stack when it came, in  *)
(* the order of its type, whatever is pushed, removed, destroyed, cleaned  *)
(* up and reordered meanwhile: no one that still exists is passed over, no *)
(* one tried after one that handled it, and no one twice.                  *)
Before(i, j) == IF order THEN i > j ELSE i < j
TriedInOrder ==
  /\ running # NoHandlers => running.handlers \in due \cap tried
  /\ \A i, j \in DOMAIN stack :
       Before(i, j) /\ stack[j] \in tried /\ stack[i] \in due \cap alive => stack[i] \in tried
  /\ todo = <<>> => due \cap alive \subseteq tried
TriedOnce ==
  [][running' # running /\ running' # NoHandlers => running'.handlers \notin tried]_vars

(* Handlers that go on to be used point to an endpoint whose members exist. *)
StacksExist ==
  \A h \in alive \ removed : stackOf[h] => endpoint \in {"alive", "telling"}
=============================================================================
