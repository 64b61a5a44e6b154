------------------------------- MODULE Queues --------------------------------
(***************************************************************************)
(* gb/container/queue: a queue over buckets of slots in a circular list,   *)
(* which grows by a bucket after the one it is full in, in the middle of   *)
(* that bucket too.                                                        *)
(*                                                                         *)
(* A pointer to a bucket is its number in the order of their allocation,   *)
(* 0 for null; a pointer to an element is the bucket and the index of its  *)
(* slot.  One queue is followed; of the two that a copy or a move leaves   *)
(* the program goes on with the one or the other.                          *)
(***************************************************************************)
EXTENDS Integers, Sequences, FiniteSets

CONSTANTS
  Capacities,    (* The pairs of capacities queues are made with.          *)
  Values,        (* 0 .. n: elements are numbered in turn.                 *)
  MaxBuckets,    (* Bound: the buckets of a queue.                         *)
  MaxSlots       (* Bound: the slots of all its buckets.                   *)

VARIABLES
  growCapacity,  (* grow_capacity_                                         *)
  capacity,      (* capacity_                                              *)
  size,          (* size_                                                  *)
  buckets,       (* The buckets, and the elements in their slots.          *)
  front,         (* front_                                                 *)
  back,          (* back_                                                  *)
  expected,      (* What was pushed and not popped: the slots and values.  *)
  stamp          (* The value of the next element.                         *)

vars == <<growCapacity, capacity, size, buckets, front, back, expected, stamp>>

kInvalidIndex == -1
Raw == -1            (* A slot without an element.                          *)
NullPosition == [bucket |-> 0, index |-> 0]
First(bucket) == [bucket |-> bucket, index |-> 0]

(* NewBucket: alone in its list.                                           *)
NewBucket(n, slots) ==
  [canPush |-> FALSE, capacity |-> slots, next |-> n, prev |-> n,
   pushEnd |-> kInvalidIndex, popNext |-> 0, data |-> [i \in 0 .. slots - 1 |-> Raw]]

(* AddBucket: after `prev`.                                                *)
AddBucket(bs, prev, slots) ==
  LET n    == Len(bs) + 1
      next == bs[prev].next
      new  == [NewBucket(n, slots) EXCEPT !.next = next, !.prev = prev]
      linked == [Append(bs, new) EXCEPT ![next].prev = n]
  IN [linked EXCEPT ![prev].next = n]

(* Mutant: a bucket emptied before the push_end of the next round is       *)
(* followed by the one that was added for that round.                      *)
AdvanceInList(bs, it) ==
  IF it.index = bs[it.bucket].pushEnd \/ it.index + 1 = bs[it.bucket].capacity
  THEN First(bs[it.bucket].next)
  ELSE [it EXCEPT !.index = @ + 1]

Advance(bs, it) ==
  LET b == bs[it.bucket]
  IN CASE it.index = b.pushEnd -> First(b.next)
       [] it.index # b.pushEnd /\ it.index + 1 = b.capacity ->
            First(IF b.popNext # 0 THEN b.popNext ELSE b.next)
       [] OTHER -> [it EXCEPT !.index = @ + 1]

SlotsOf(bs) ==
  UNION {{[bucket |-> n, index |-> i] : i \in 0 .. bs[n].capacity - 1} : n \in DOMAIN bs}
Slots(bs) == Cardinality(SlotsOf(bs))

(* The positions from `it` on, until `end`, as Clear and Copy pass them.   *)
Passed(bs, it, end) ==
  LET at[n \in 0 .. Slots(bs)] ==
        IF n = 0 THEN it
        ELSE LET last == at[n - 1]
             IN IF last = end THEN end ELSE Advance(bs, last)
  IN at

(* The elements before `end`.                                              *)
Elements(bs, it, end) ==
  LET passed == Passed(bs, it, end)
      count == Cardinality({n \in DOMAIN passed : passed[n] # end})
  IN [i \in 1 .. count |->
        [slot |-> passed[i - 1],
         value |-> bs[passed[i - 1].bucket].data[passed[i - 1].index]]]

(* Init: one slot more than asked for, or no bucket.                       *)
Initial(initCapacity) ==
  IF initCapacity = 0
  THEN [buckets |-> <<>>, position |-> NullPosition]
  ELSE [buckets |-> <<NewBucket(1, initCapacity + 1)>>, position |-> First(1)]

Init ==
  \E c \in Capacities :
    /\ growCapacity = c[2]
    /\ capacity = c[1] /\ size = 0
    /\ buckets = Initial(c[1]).buckets
    /\ front = Initial(c[1]).position
    /\ back = Initial(c[1]).position
    /\ expected = <<>>
    /\ stamp = 0

(***************************************************************************)
(* PushAlloc                                                               *)
(***************************************************************************)
(* The queue as it is, or with its first bucket.                           *)
Begun ==
  IF buckets # <<>>
  THEN [buckets |-> buckets, front |-> front, back |-> back, capacity |-> capacity]
  ELSE [buckets |-> Initial(growCapacity).buckets,
        front   |-> Initial(growCapacity).position,
        back    |-> Initial(growCapacity).position,
        capacity |-> growCapacity]

(* Mutant: a bucket is entered though the last round is to end in it.      *)
EntersPending(b) == b.canPush

(* The bucket after a full one is free to be filled again.                 *)
MayEnter(b) == b.canPush /\ b.pushEnd = kInvalidIndex

(* Where the next push goes: a new bucket is needed when the next one may  *)
(* not be entered, or when the next slot is the front.                     *)
NextBack(s) ==
  LET b == s.buckets[s.back.bucket]
      n == Len(s.buckets) + 1
      added == AddBucket(s.buckets, s.back.bucket, growCapacity)
  IN CASE s.back.index + 1 = b.capacity /\ MayEnter(s.buckets[b.next]) ->
            [grows |-> FALSE, buckets |-> s.buckets, back |-> First(b.next)]
       [] s.back.index + 1 = b.capacity /\ ~MayEnter(s.buckets[b.next]) ->
            [grows |-> TRUE, buckets |-> added, back |-> First(n)]
       [] s.front = [s.back EXCEPT !.index = @ + 1] ->
            [grows |-> TRUE, back |-> First(n),
             buckets |-> [added EXCEPT ![s.back.bucket].popNext = b.next,
                                       ![s.back.bucket].pushEnd = s.back.index]]
       [] OTHER -> [grows |-> FALSE, buckets |-> s.buckets,
                    back |-> [s.back EXCEPT !.index = @ + 1]]

(* PushAlloc returns null for a queue that is full and may not grow, which *)
(* a program does not push to.                                             *)
HasRoom ==
  /\ Begun.buckets # <<>>
  /\ NextBack(Begun).grows => growCapacity > 0

Push ==
  /\ HasRoom
  /\ LET s == Begun
         next == NextBack(s)
         slot == s.back
         filled == [next.buckets EXCEPT ![slot.bucket].data[slot.index] = stamp]
     IN /\ Len(filled) <= MaxBuckets /\ Slots(filled) <= MaxSlots
        /\ buckets' = IF next.back.index = 0
                      THEN [filled EXCEPT ![next.back.bucket].canPush = FALSE]
                      ELSE filled
        /\ capacity' = s.capacity + (IF next.grows THEN growCapacity ELSE 0)
        /\ front' = s.front
        /\ back' = next.back
        /\ expected' = Append(expected, [slot |-> slot, value |-> stamp])
  /\ size' = size + 1
  /\ stamp' = (stamp + 1) % (Values + 1)
  /\ UNCHANGED growCapacity

(* Mutant: what marks the end of the last round is kept.                   *)
KeepsEnd(b, passed, leaves) ==
  [b EXCEPT !.data[passed] = Raw, !.canPush = @ \/ passed = 0]

(* pop, for the bucket of the element: the marks of a round that ends here *)
(* go, and its first slot, when that is the one, may be pushed to.         *)
Popped(b, passed, leaves) ==
  [b EXCEPT !.data[passed] = Raw,
            !.pushEnd = IF leaves /\ passed = @ THEN kInvalidIndex ELSE @,
            !.popNext = IF leaves /\ passed # b.pushEnd /\ passed = b.capacity - 1
                        THEN 0 ELSE @,
            !.canPush = @ \/ passed = 0]

Pop ==
  /\ size > 0
  /\ LET next == Advance(buckets, front)
     IN /\ buckets' = [buckets EXCEPT ![front.bucket] =
                         Popped(@, front.index, next.index = 0)]
        /\ front' = next
  /\ size' = size - 1
  /\ expected' = Tail(expected)
  /\ UNCHANGED <<growCapacity, capacity, back, stamp>>

(* Mutant: the copy has room for the elements, and not for one more.       *)
CopiedExactly(room) == <<NewBucket(1, room)>>

(* The buckets Copy makes for a queue with room for so many elements.      *)
CopiedInto(room) == Initial(room).buckets

(* Copy: the elements in the first slots of one bucket, as large as the    *)
(* first bucket of the other queue, or larger.                             *)
Copy ==
  /\ LET elements == Elements(buckets, front, back)
         room == IF buckets # <<>> /\ buckets[1].capacity > size
                 THEN buckets[1].capacity ELSE size
         fresh == CopiedInto(room)
         Filled(b) == [b EXCEPT !.data = [i \in DOMAIN @ |->
                         IF i < Len(elements) THEN elements[i + 1].value ELSE @[i]]]
     IN /\ room < MaxSlots
        /\ capacity' = room
        /\ buckets' = IF room = 0 THEN <<>> ELSE <<Filled(fresh[1])>>
        /\ front' = Initial(room).position
        /\ back' = [Initial(room).position EXCEPT !.index = size]
        /\ expected' = [i \in DOMAIN expected |->
                          [slot |-> [bucket |-> 1, index |-> i - 1],
                           value |-> expected[i].value]]
  /\ UNCHANGED <<growCapacity, size, stamp>>

(* A move, of which the program goes on with the queue that was emptied.   *)
MoveAway ==
  /\ capacity' = 0 /\ size' = 0 /\ buckets' = <<>>
  /\ front' = NullPosition /\ back' = NullPosition
  /\ expected' = <<>>
  /\ UNCHANGED <<growCapacity, stamp>>

(* A move into, or an exchange with, a queue that grows by another amount. *)
MoveTo ==
  /\ \E c \in Capacities : growCapacity' = c[2]
  /\ UNCHANGED <<capacity, size, buckets, front, back, expected, stamp>>

Next == Push \/ Pop \/ Copy \/ MoveAway \/ MoveTo

Spec == Init /\ [][Next]_vars

(***************************************************************************)
(* Properties                                                              *)
(***************************************************************************)
(* back()                                                                  *)
BackElement ==
  LET last == buckets[buckets[back.bucket].prev]
  IN IF back.index > 0
     THEN [back EXCEPT !.index = @ - 1]
     ELSE [bucket |-> buckets[back.bucket].prev,
           index  |-> IF last.pushEnd # kInvalidIndex THEN last.pushEnd
                      ELSE last.capacity - 1]

(* The elements are those that were pushed and not popped, in their order  *)
(* and each in the slot it was pushed to, no two in one, and no other slot *)
(* has one; front() and back() are the first and the last of them.         *)
FirstInFirstOut ==
  /\ Elements(buckets, front, back) = expected
  /\ size = Len(expected)
  /\ \A i, j \in DOMAIN expected : i # j => expected[i].slot # expected[j].slot
  /\ \A n \in DOMAIN buckets : \A i \in DOMAIN buckets[n].data :
       buckets[n].data[i] # Raw =>
         \E e \in DOMAIN expected : expected[e].slot = [bucket |-> n, index |-> i]
  /\ expected # <<>> => /\ front = expected[1].slot
                        /\ BackElement = expected[Len(expected)].slot

(* All slots but one are counted, the list of buckets is closed, and a     *)
(* queue that does not grow takes as many elements as it counts.           *)
CapacityHolds ==
  /\ buckets # <<>> => Slots(buckets) = capacity + 1
  /\ size <= capacity
  /\ growCapacity = 0 /\ Len(buckets) = 1 /\ size < capacity => HasRoom
  /\ \A n \in DOMAIN buckets : buckets[buckets[n].next].prev = n
                               /\ buckets[buckets[n].prev].next = n

(* An empty queue can use every slot again before it grows.                *)
SlotsComeBack ==
  size = 0 => \A n \in DOMAIN buckets :
    /\ buckets[n].pushEnd = kInvalidIndex /\ buckets[n].popNext = 0
    /\ n # back.bucket => buckets[n].canPush

QueueHolds == FirstInFirstOut /\ CapacityHolds /\ SlotsComeBack
=============================================================================
