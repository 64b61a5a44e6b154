--------------------------- MODULE MessageSystem ----------------------------
(***************************************************************************)
(* gb::MessageSystem: endpoints and channels, their subscriptions, and the *)
(* dispatch of a message to an endpoint and, recursively, to all that      *)
(* subscribe to it.                                                        *)
(*                                                                         *)
(* DispatchImpl holds mutex_ only to look up a node and to leave it; it    *)
(* receives and iterates over the subscribers without the lock.  It marks  *)
(* itself in the node's dispatch_threads instead, and while there are any, *)
(* subscriptions are only queued up and removals deferred (or awaited).    *)
(* A recursion is a stack of frames per thread; a handler that sends with  *)
(* no dispatcher starts another dispatch on top of it.                     *)
(*                                                                         *)
(* How an endpoint handles what it receives is MessageEndpoint: here a     *)
(* frame is in the handler, or not.  A dispatcher's queue only decides     *)
(* which thread dispatches a message and when, and is left to              *)
(* `Dispatchers`: a message may be dispatched at any time.  So is the       *)
(* hand-over to another dispatcher in the middle of a dispatch.            *)
(***************************************************************************)
EXTENDS Naturals, Sequences, SequencesExt

CONSTANTS
  Threads,
  Dispatchers,    (* The threads that dispatch messages.                   *)
  Reentrant,      (* Whether handlers send with no dispatcher in between.  *)
  Rehashes,       (* Whether endpoints_ may be rehashed by an insertion.   *)
  Endpoints, Channels,
  Broadcast,      (* The channel that always exists.                       *)
  MaxSends,       (* Bound: messages sent.                                 *)
  MaxCalls,       (* Bound: calls that change endpoints or subscriptions.  *)
  None

ASSUME SystemAssumption ==
  /\ Dispatchers \subseteq Threads
  /\ Reentrant \in BOOLEAN /\ Rehashes \in BOOLEAN
  /\ Broadcast \in Channels
  /\ Endpoints \cap Channels = {}
  /\ None \notin Endpoints

Nodes == Endpoints \cup Channels

VARIABLES
  state,          (* Of a node: "fresh", "live", "erasing" (the flag      *)
                  (* erase_after_dispatch) or "gone" from endpoints_.      *)
  attached,       (* EndpointInfo::endpoint is not null.                   *)
  freed,          (* The MessageEndpoint's destructor has returned.        *)
  subscribers, subscriptions, addSubscribers, removeSubscribers,
  dispatching,    (* dispatch_threads                                      *)
  stack,          (* The calls of DispatchImpl of each thread.             *)
  visited,        (* The visited sets of the dispatches on that stack.     *)
  removing,       (* The endpoint whose destructor each thread is in.      *)
  removal,        (* How far that is: waiting for its "handlers", before   *)
                  (* "removal" from the system, or waiting there, with the *)
                  (* iterator "found" or, after a rehash, "stale".         *)
  sends, calls

nodeVars == <<state, attached, freed>>
subVars  == <<subscribers, subscriptions, addSubscribers, removeSubscribers>>
runVars  == <<dispatching, stack, visited>>
vars == <<nodeVars, subVars, runVars, removing, removal, sends, calls>>

Known(n) == state[n] \in {"live", "erasing"}

Frames == [to : Nodes, phase : {"receive", "locking", "handler", "subscribers"},
           seen : SUBSET Nodes, deleted : SUBSET Nodes, root : BOOLEAN]

TypeOK ==
  /\ state \in [Nodes -> {"fresh", "live", "erasing", "gone"}]
  /\ attached \in [Endpoints -> BOOLEAN]
  /\ freed \in [Endpoints -> BOOLEAN]
  /\ subscribers \in [Nodes -> SUBSET Endpoints]
  /\ subscriptions \in [Endpoints -> SUBSET Nodes]
  /\ addSubscribers \in [Nodes -> SUBSET Endpoints]
  /\ removeSubscribers \in [Nodes -> SUBSET Endpoints]
  /\ dispatching \in [Nodes -> SUBSET Threads]
  /\ \A t \in Threads : stack[t] \in Seq(Frames) /\ visited[t] \in Seq(SUBSET Nodes)
  /\ removing \in [Threads -> Endpoints \cup {None}]
  /\ removal \in [Threads -> {"none", "handlers", "removal", "found", "stale"}]

Init ==
  /\ state = [n \in Nodes |-> IF n = Broadcast THEN "live" ELSE "fresh"]
  /\ attached = [e \in Endpoints |-> FALSE]
  /\ freed = [e \in Endpoints |-> FALSE]
  /\ subscribers = [n \in Nodes |-> {}]
  /\ subscriptions = [e \in Endpoints |-> {}]
  /\ addSubscribers = [n \in Nodes |-> {}]
  /\ removeSubscribers = [n \in Nodes |-> {}]
  /\ dispatching = [n \in Nodes |-> {}]
  /\ stack = [t \in Threads |-> <<>>]
  /\ visited = [t \in Threads |-> <<>>]
  /\ removing = [t \in Threads |-> None]
  /\ removal = [t \in Threads |-> "none"]
  /\ sends = 0
  /\ calls = 0

Top(t)       == Last(stack[t])
In(t, phase) == stack[t] # <<>> /\ Top(t).phase = phase
SetTop(t, f) == stack' = [stack EXCEPT ![t] = Append(Front(@), f)]

(* Where application code runs: outside any dispatch, or in a handler.      *)
Free(t)    == removing[t] = None
Outside(t) == Free(t) /\ stack[t] = <<>>
CanCall(t) == Outside(t) \/ (Free(t) /\ In(t, "handler"))
Call ==
  /\ calls < MaxCalls
  /\ calls' = calls + 1

-----------------------------------------------------------------------------
(* Endpoints, channels and subscriptions.                                  *)

(* Mutant: source and subscriber are swapped.                              *)
AddSubscriberSwapped(s, e) ==
  /\ dispatching[e] = {}
  /\ subscribers' = [subscribers EXCEPT ![e] = @ \cup {s}]
  /\ UNCHANGED <<addSubscribers, removeSubscribers>>

(* A subscriber is added to or removed from a node at once, or when the      *)
(* dispatches to it are over.                                              *)
AddSubscriber(s, e) ==
  \/ /\ dispatching[s] = {}
     /\ subscribers' = [subscribers EXCEPT ![s] = @ \cup {e}]
     /\ UNCHANGED <<addSubscribers, removeSubscribers>>
  \/ /\ dispatching[s] # {}
     /\ removeSubscribers' = [removeSubscribers EXCEPT ![s] = @ \ {e}]
     /\ addSubscribers' =
          IF e \in removeSubscribers[s] \cup subscribers[s] THEN addSubscribers
          ELSE [addSubscribers EXCEPT ![s] = @ \cup {e}]
     /\ UNCHANGED subscribers

(* Mutant: a subscription queued up during the dispatch is not taken back.  *)
RemoveSubscriberLater(s, e) ==
  \/ /\ dispatching[s] = {}
     /\ subscribers' = [subscribers EXCEPT ![s] = @ \ {e}]
     /\ UNCHANGED <<addSubscribers, removeSubscribers>>
  \/ /\ dispatching[s] # {}
     /\ removeSubscribers' =
          IF e \in addSubscribers[s] \/ e \notin subscribers[s] THEN removeSubscribers
          ELSE [removeSubscribers EXCEPT ![s] = @ \cup {e}]
     /\ UNCHANGED <<subscribers, addSubscribers>>

(* Mutant: the subscriber is removed at once.                              *)
RemoveSubscriberNow(s, e) ==
  /\ subscribers' = [subscribers EXCEPT ![s] = @ \ {e}]
  /\ addSubscribers' = [addSubscribers EXCEPT ![s] = @ \ {e}]
  /\ UNCHANGED removeSubscribers

RemoveSubscriber(s, e) ==
  \/ /\ dispatching[s] = {}
     /\ subscribers' = [subscribers EXCEPT ![s] = @ \ {e}]
     /\ UNCHANGED <<addSubscribers, removeSubscribers>>
  \/ /\ dispatching[s] # {}
     /\ addSubscribers' = [addSubscribers EXCEPT ![s] = @ \ {e}]
     /\ removeSubscribers' =
          IF e \in addSubscribers[s] \/ e \notin subscribers[s] THEN removeSubscribers
          ELSE [removeSubscribers EXCEPT ![s] = @ \cup {e}]
     /\ UNCHANGED subscribers

(* An insertion that rehashes endpoints_ invalidates the iterators into it. *)
Inserted ==
  \/ UNCHANGED removal
  \/ Rehashes /\ removal' = [t \in Threads |-> IF removal[t] = "found" THEN "stale" ELSE removal[t]]

CreateEndpoint(t, e) ==
  /\ CanCall(t) /\ Call
  /\ state[e] = "fresh"
  /\ state' = [state EXCEPT ![e] = "live"]
  /\ attached' = [attached EXCEPT ![e] = TRUE]
  /\ subscriptions' = [subscriptions EXCEPT ![e] = {Broadcast}]
  /\ IF dispatching[Broadcast] = {}
     THEN /\ subscribers' = [subscribers EXCEPT ![Broadcast] = @ \cup {e}]
          /\ UNCHANGED addSubscribers
     ELSE /\ addSubscribers' = [addSubscribers EXCEPT ![Broadcast] = @ \cup {e}]
          /\ UNCHANGED subscribers
  /\ Inserted
  /\ UNCHANGED <<freed, removeSubscribers, runVars, removing, sends>>

AddChannel(t, c) ==
  /\ CanCall(t) /\ Call
  /\ state[c] = "fresh"
  /\ state' = [state EXCEPT ![c] = "live"]
  /\ Inserted
  /\ UNCHANGED <<attached, freed, subVars, runVars, removing, sends>>

RemoveChannel(t, c) ==
  /\ CanCall(t) /\ Call
  /\ c # Broadcast
  /\ state[c] = "live"
  /\ state' = [state EXCEPT ![c] = IF dispatching[c] = {} THEN "gone" ELSE "erasing"]
  /\ UNCHANGED <<attached, freed, subVars, runVars, removing, removal, sends>>

(* The owner of an endpoint uses it until it destroys it.                   *)
Usable(e) == attached[e] /\ ~freed[e] /\ \A t \in Threads : removing[t] # e

Subscribe(t, s, e) ==
  /\ CanCall(t) /\ Call
  /\ Usable(e)
  /\ Known(s)
  /\ s \notin subscriptions[e]
  /\ subscriptions' = [subscriptions EXCEPT ![e] = @ \cup {s}]
  /\ AddSubscriber(s, e)
  /\ UNCHANGED <<nodeVars, runVars, removing, removal, sends>>

Unsubscribe(t, s, e) ==
  /\ CanCall(t) /\ Call
  /\ Usable(e)
  /\ s \in subscriptions[e]
  /\ subscriptions' = [subscriptions EXCEPT ![e] = @ \ {s}]
  /\ IF Known(s) THEN RemoveSubscriber(s, e)
     ELSE UNCHANGED <<subscribers, addSubscribers, removeSubscribers>>
  /\ UNCHANGED <<nodeVars, runVars, removing, removal, sends>>

(* ~MessageEndpoint is not called from within its own handler.  It awaits a *)
(* handler that another thread is calling, and drops them all ...          *)
Handling(t, e) ==
  \E i \in DOMAIN stack[t] : stack[t][i].to = e /\ stack[t][i].phase = "handler"

Destroy(t, e) ==
  /\ CanCall(t) /\ Call
  /\ Usable(e) /\ ~Handling(t, e)
  /\ removing' = [removing EXCEPT ![t] = e]
  /\ removal' = [removal EXCEPT ![t] = "handlers"]
  /\ UNCHANGED <<nodeVars, subVars, runVars, sends>>

DropHandlers(t) ==
  /\ removal[t] = "handlers"
  /\ \A u \in Threads : ~Handling(u, removing[t])
  /\ removal' = [removal EXCEPT ![t] = "removal"]
  /\ UNCHANGED <<nodeVars, subVars, runVars, removing, sends, calls>>

Dropped(e) == \E t \in Threads : removing[t] = e /\ removal[t] # "handlers"

(* Mutant: the dispatches of other threads are not awaited.                *)
AwaitedUnchecked(t, e) == e \in Nodes

Awaited(t, e) == dispatching[e] = {} \/ t \in dispatching[e]

Ends(t) ==
  /\ freed' = [freed EXCEPT ![removing[t]] = TRUE]
  /\ removing' = [removing EXCEPT ![t] = None]
  /\ removal' = [removal EXCEPT ![t] = "none"]

Erase(t) ==
  LET e == removing[t] IN
  /\ state' = [state EXCEPT ![e] = IF dispatching[e] = {} THEN "gone" ELSE "erasing"]
  /\ attached' = [attached EXCEPT ![e] = FALSE]
  /\ Ends(t)

(* ... and RemoveEndpoint finds its entry: it is erased, or turned into a   *)
(* channel until this thread's own dispatch to it is over, or the thread   *)
(* releases mutex_ to await the dispatches of other threads.               *)
RemoveEndpoint(t) ==
  /\ removal[t] = "removal"
  /\ \/ Awaited(t, removing[t]) /\ Erase(t)
     \/ /\ ~Awaited(t, removing[t])
        /\ removal' = [removal EXCEPT ![t] = "found"]
        /\ UNCHANGED <<nodeVars, removing>>
  /\ UNCHANGED <<subVars, runVars, sends, calls>>

(* The Await over, what was found before it is erased.  What a stale        *)
(* iterator erases is undefined: the entry, or else it stays.              *)
EraseAwaited(t) ==
  /\ removal[t] \in {"found", "stale"}
  /\ dispatching[removing[t]] = {}
  /\ \/ Erase(t)
     \/ removal[t] = "stale" /\ Ends(t) /\ UNCHANGED <<state, attached>>
  /\ UNCHANGED <<subVars, runVars, sends, calls>>

-----------------------------------------------------------------------------
(* Dispatch                                                                *)

NewFrame(n, root) ==
  [to |-> n, phase |-> "receive", seen |-> {}, deleted |-> {}, root |-> root]

(* DoSend and DispatchImpl for the receiver itself.                         *)
Send(t, n) ==
  /\ t \in Dispatchers
  /\ Outside(t) \/ (Reentrant /\ CanCall(t))
  /\ sends < MaxSends
  /\ sends' = sends + 1
  /\ state[n] = "live"
  /\ dispatching' = [dispatching EXCEPT ![n] = @ \cup {t}]
  /\ stack' = [stack EXCEPT ![t] = Append(@, NewFrame(n, TRUE))]
  /\ visited' = [visited EXCEPT ![t] = Append(@, {n})]
  /\ UNCHANGED <<nodeVars, subVars, removing, removal, calls>>

(* The endpoint pointer is read without the lock ...                        *)
ReadEndpoint(t) ==
  LET n == Top(t).to IN
  /\ Free(t) /\ In(t, "receive")
  /\ SetTop(t, [Top(t) EXCEPT !.phase =
                  IF n \in Endpoints /\ attached[n] THEN "locking" ELSE "subscribers"])
  /\ UNCHANGED <<nodeVars, subVars, dispatching, visited, removing, removal, sends, calls>>

(* ... and Receive calls the handler, unless there is none or the message    *)
(* is queued because another thread is in one.                             *)
EnterReceive(t) ==
  LET e == Top(t).to IN
  /\ Free(t) /\ In(t, "locking")
  /\ \/ /\ \A u \in Threads : ~Handling(u, e)
        /\ ~Dropped(e)
        /\ SetTop(t, [Top(t) EXCEPT !.phase = "handler"])
     \/ SetTop(t, [Top(t) EXCEPT !.phase = "subscribers"])
  /\ UNCHANGED <<nodeVars, subVars, dispatching, visited, removing, removal, sends, calls>>

HandlerReturns(t) ==
  /\ Free(t) /\ In(t, "handler")
  /\ SetTop(t, [Top(t) EXCEPT !.phase = "subscribers"])
  /\ UNCHANGED <<nodeVars, subVars, dispatching, visited, removing, removal, sends, calls>>

(* The next subscriber: one that was visited in this dispatch is passed     *)
(* over, one that is gone is noted, any other is dispatched to.            *)
NextSubscriber(t) ==
  LET f == Top(t)
      v == Last(visited[t])
  IN
  /\ Free(t) /\ In(t, "subscribers")
  /\ \E e \in subscribers[f.to] \ f.seen :
       LET g == [f EXCEPT !.seen = @ \cup {e}] IN
       /\ visited' = [visited EXCEPT ![t] = Append(Front(@), v \cup {e})]
       /\ \/ /\ e \in v
             /\ SetTop(t, g)
             /\ UNCHANGED dispatching
          \/ /\ e \notin v /\ state[e] # "live"
             /\ SetTop(t, [g EXCEPT !.deleted = @ \cup {e}])
             /\ UNCHANGED dispatching
          \/ /\ e \notin v /\ state[e] = "live"
             /\ stack' = [stack EXCEPT ![t] = Front(@) \o <<g, NewFrame(e, FALSE)>>]
             /\ dispatching' = [dispatching EXCEPT ![e] = @ \cup {t}]
  /\ UNCHANGED <<nodeVars, subVars, removing, removal, sends, calls>>

(* Mutant: the thread's mark stays.                                        *)
MarkKept(t, n) == dispatching[n]

(* The thread is marked once, however many of its frames are at the node.   *)
Unmarked(t, n) == dispatching[n] \ {t}

(* The end of DispatchImpl for one node: what was deferred is applied when   *)
(* no thread is marked any more.                                           *)
Leave(t) ==
  LET f == Top(t)
      n == f.to
      kept == subscribers[n] \ f.deleted
      rest == Unmarked(t, n)
  IN
  /\ Free(t) /\ In(t, "subscribers")
  /\ subscribers[n] \subseteq f.seen
  /\ dispatching' = [dispatching EXCEPT ![n] = rest]
  /\ stack' = [stack EXCEPT ![t] = Front(@)]
  /\ visited' = IF f.root THEN [visited EXCEPT ![t] = Front(@)] ELSE visited
  /\ \/ /\ rest = {} /\ state[n] = "erasing"
        /\ state' = [state EXCEPT ![n] = "gone"]
        /\ UNCHANGED subVars
     \/ /\ rest = {} /\ state[n] # "erasing"
        /\ subscribers' = [subscribers EXCEPT ![n] =
                             (kept \cup addSubscribers[n]) \ removeSubscribers[n]]
        /\ addSubscribers' = [addSubscribers EXCEPT ![n] = {}]
        /\ removeSubscribers' = [removeSubscribers EXCEPT ![n] = {}]
        /\ UNCHANGED <<state, subscriptions>>
     \/ /\ rest # {}
        /\ subscribers' = [subscribers EXCEPT ![n] = kept]
        /\ UNCHANGED <<state, subscriptions, addSubscribers, removeSubscribers>>
  /\ UNCHANGED <<attached, freed, removing, removal, sends, calls>>

-----------------------------------------------------------------------------
DispatchStep(t) ==
  \/ ReadEndpoint(t)
  \/ EnterReceive(t)
  \/ HandlerReturns(t)
  \/ NextSubscriber(t)
  \/ Leave(t)

DestructorStep(t) ==
  \/ DropHandlers(t)
  \/ RemoveEndpoint(t)
  \/ EraseAwaited(t)

Next ==
  \E t \in Threads :
    \/ DispatchStep(t)
    \/ DestructorStep(t)
    \/ \E n \in Nodes : Send(t, n)
    \/ \E c \in Channels : AddChannel(t, c) \/ RemoveChannel(t, c)
    \/ \E e \in Endpoints : CreateEndpoint(t, e) \/ Destroy(t, e)
    \/ \E e \in Endpoints, s \in Nodes : Subscribe(t, s, e) \/ Unsubscribe(t, s, e)

(* Dispatches go on, handlers return, and an Await ends once its condition   *)
(* stays true.                                                             *)
Fairness == \A t \in Threads : WF_vars(DispatchStep(t)) /\ WF_vars(DestructorStep(t))

Spec == Init /\ [][Next]_vars
FairSpec == Spec /\ Fairness

-----------------------------------------------------------------------------
(* Properties                                                              *)

(* A dispatch iterates over the subscribers without the lock: "while        *)
(* handlers are being dispatched, subscribers cannot be safely changed".   *)
Iterating(n) ==
  \E t \in Threads : \E i \in DOMAIN stack[t] :
    stack[t][i].to = n /\ stack[t][i].phase = "subscribers"
IterationStable ==
  \A n \in Nodes : Iterating(n) /\ Iterating(n)' => subscribers'[n] = subscribers[n]
SubscribersStable == [][IterationStable]_vars

(* What was deferred adds up: once the queued changes are applied, a node is *)
(* forwarded to exactly the endpoints that are subscribed to it (besides    *)
(* those that are gone, which the next dispatch weeds out).                *)
Forwards(n) == (subscribers[n] \cup addSubscribers[n]) \ removeSubscribers[n]
SubscriptionsAgree ==
  \A n \in Nodes : Known(n) =>
    /\ \A e \in Endpoints :
         state[e] = "live" => (e \in Forwards(n) <=> n \in subscriptions[e])
    /\ dispatching[n] = {} => addSubscribers[n] = {} /\ removeSubscribers[n] = {}

(* No dispatch uses what is freed: neither the record of a node that was    *)
(* erased nor a MessageEndpoint whose destructor returned.                 *)
NothingFreedInUse ==
  \A t \in Threads : \A i \in DOMAIN stack[t] :
    LET f == stack[t][i] IN
    /\ Known(f.to)
    /\ f.phase \in {"locking", "handler"} => ~freed[f.to]

(* The destructor of an endpoint returns, whichever threads handle, forward *)
(* and remove meanwhile, unless those it waits for wait in a destructor    *)
(* themselves, in a circle: two handlers, on two threads, that destroy each *)
(* other's endpoint.                                                       *)
WaitsFor(t, u) ==
  \/ removal[t] = "handlers" /\ Handling(u, removing[t])
  \/ removal[t] \in {"found", "stale"} /\ u \in dispatching[removing[t]]
Deadlocked(t) ==
  \E S \in SUBSET Threads : t \in S /\ \A u \in S : \E v \in S : WaitsFor(u, v)
RemovalsEnd ==
  \A t \in Threads : removing[t] # None ~> removing[t] = None \/ Deadlocked(t)
=============================================================================
