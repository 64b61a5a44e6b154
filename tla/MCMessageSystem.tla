--------------------------- MODULE MCMessageSystem ---------------------------
(* MessageSystem, MessageStacks and the containers for TLC.  A behaviour   *)
(* is one of one component, `component`; the system and the stack stay as  *)
(* they were made otherwise, and the containers are not made.  The system  *)
(* is there twice: "system" with Dispatchers, and "threads" with every     *)
(* thread dispatching, and insertions that rehash.                         *)
EXTENDS Integers, MessageSystem

CONSTANTS
  MaxThreadedSends, MaxThreadedCalls,
  StackHandlers, Callbacks, Moved,
  Capacities, QueueValues, MaxBuckets, MaxSlots,
  Shapes, Origins, Default, ViewValues

ASSUME StackAssumption ==
  /\ None \notin StackHandlers \cup Callbacks \cup {Moved} /\ Moved \notin Callbacks
  /\ None \notin [handlers : StackHandlers, callback : Callbacks \cup {Moved}]

(* A queue is made with room for none or more, and grows by none or more.  *)
ASSUME QueueSizes == Capacities \subseteq Nat \X Nat /\ QueueValues \in Nat

(* A view has one dimension or more, an element or more in each, and its   *)
(* origin a coordinate for each.                                           *)
ASSUME ViewSizes ==
  /\ Shapes \subseteq Seq(Nat \ {0})
  /\ \A s \in Shapes : Origins[s] \subseteq [DOMAIN s -> Int]

VARIABLES
  component,
  (* MessageStacks *)
  endpoint, handlersStack, registered, topDown, alive, stackOf, removed, callback, asked,
  pushing, delivered, todo, running, order, due, tried,
  (* Queues *)
  growCapacity, capacity, size, buckets, front, back, expected, stamp,
  (* BufferViews *)
  shape, origin, offset, buffer, field

Threaded == INSTANCE MessageSystem WITH
  Dispatchers <- Threads, Rehashes <- TRUE,
  MaxSends <- MaxThreadedSends, MaxCalls <- MaxThreadedCalls

MessageStack == INSTANCE MessageStacks WITH
  Handlers <- StackHandlers, NoHandlers <- None, NoCallback <- None,
  stack <- handlersStack

stackVars == <<endpoint, handlersStack, registered, topDown, alive, stackOf, removed, callback, asked,
               pushing, delivered, todo, running, order, due, tried>>

Queue == INSTANCE Queues WITH Values <- QueueValues
queueVars == <<growCapacity, capacity, size, buckets, front, back, expected, stamp>>
NoQueue ==
  /\ growCapacity = None /\ capacity = None /\ size = None /\ buckets = None
  /\ front = None /\ back = None /\ expected = None /\ stamp = None

View == INSTANCE BufferViews WITH Values <- ViewValues
viewVars == <<shape, origin, offset, buffer, field>>
NoView ==
  shape = None /\ origin = None /\ offset = None /\ buffer = None /\ field = None

(* What TLC makes queues and views of: a queue that grows, one that does   *)
(* not, and one that is made empty; views of one, two and three dimensions *)
(* with origins behind, before, beside and far from one another.           *)
MCCapacities == {<<2, 2>>, <<1, 1>>, <<0, 1>>, <<2, 0>>, <<0, 2>>}
MCShapes == {<<4>>, <<4, 2>>, <<2, 2, 2>>}
MCOrigins ==
  [s \in MCShapes |->
     <<{<<n>> : n \in {0, 1, 3, 6}},
       {<<1, 1>>, <<2, 0>>, <<5, 2>>},
       {<<1, 1, 1>>, <<0, 1, 2>>, <<1, 3, 1>>}>>[Len(s)]]

containerVars == <<queueVars, viewVars>>
allVars == <<component, vars, stackVars, containerVars>>

MCInit ==
  /\ component \in {"system", "threads", "stack", "queue", "view"}
  /\ Init
  /\ MessageStack!Init /\ (component # "stack" => topDown)
  /\ IF component = "queue" THEN Queue!Init ELSE NoQueue
  /\ IF component = "view" THEN View!Init ELSE NoView

MCNext ==
  \/ /\ component = "system" /\ Next
     /\ UNCHANGED <<component, stackVars, containerVars>>
  \/ /\ component = "threads" /\ Threaded!Next
     /\ UNCHANGED <<component, stackVars, containerVars>>
  \/ /\ component = "stack" /\ MessageStack!Next
     /\ UNCHANGED <<component, vars, containerVars>>
  \/ /\ component = "queue" /\ Queue!Next
     /\ UNCHANGED <<component, vars, stackVars, viewVars>>
  \/ /\ component = "view" /\ View!Next
     /\ UNCHANGED <<component, vars, stackVars, queueVars>>

(* What is fair is the same with any dispatchers; of a system that stays as *)
(* it was made no fair action is enabled.                                  *)
MCFairSpec == MCInit /\ [][MCNext]_allVars /\ Fairness

-----------------------------------------------------------------------------
(* The properties of the components, each true of them as they were made.  *)

(* With one dispatching thread, and iterators that stay valid, nothing that *)
(* a dispatch uses is freed or changed (with two see MessageThreads).      *)
FreedLast == component = "system" => NothingFreedInUse
IterationsStable == [][component = "system" => IterationStable]_vars

(* A handler on a stack that lives gets its messages, in the stack's       *)
(* order, what runs exists, and callbacks are those that were asked for.   *)
StacksServe ==
  /\ [](component = "stack" =>
         /\ MessageStack!StacksServe /\ MessageStack!StacksExist
         /\ MessageStack!CallbacksAsked /\ MessageStack!TriedInOrder)
  /\ MessageStack!TriedOnce

(* A queue gives what was pushed in order, whatever slots are used again,  *)
(* and a view shows the elements of its window wherever it is moved.       *)
ContainersAgree ==
  /\ component = "queue" => Queue!QueueHolds
  /\ component = "view"  => View!ViewShowsField
=============================================================================
