--------------------------- MODULE ContainerProofs ---------------------------
(***************************************************************************)
(* The queue and the views of gb/container.  A queue gives what was pushed *)
(* in order, whatever slots are used again and wherever it grows; a view   *)
(* shows the elements of its window wherever it is moved.                  *)
(***************************************************************************)
EXTENDS MCMessageSystem, FiniteSetTheorems, WellFoundedInduction, TLAPS

(* Positions of elements and what the marks of the buckets, f the front    *)
(* and b the back of the queue, say of them.                               *)
Pos(c, i) == [bucket |-> c, index |-> i]
Indices(b) == 0 .. b.capacity - 1
Holds(ex, s) == \E k \in DOMAIN ex : ex[k].slot = s
LastOf(b) == IF b.pushEnd = Queue!kInvalidIndex THEN b.capacity - 1 ELSE b.pushEnd

BucketTypes ==
  [canPush : BOOLEAN, capacity : Nat, next : Nat, prev : Nat, pushEnd : Int,
   popNext : Nat, data : UNION {[0 .. n - 1 -> Int] : n \in Nat}]
ElementTypes == [slot : [bucket : Nat, index : Nat], value : Int]

Occupied(bs, f, b, c, i) ==
  IF c = f.bucket
  THEN IF c = b.bucket
       THEN IF f.index <= b.index THEN f.index <= i /\ i < b.index
                                  ELSE i < b.index \/ f.index <= i
       ELSE IF bs[c].popNext # 0 THEN i <= bs[c].pushEnd \/ f.index <= i
                                 ELSE f.index <= i /\ i <= LastOf(bs[c])
  ELSE IF c = b.bucket THEN i < b.index
       ELSE ~bs[c].canPush /\ i <= LastOf(bs[c])

WellMade(bs) ==
  /\ bs \in Seq(BucketTypes)
  /\ \A c \in DOMAIN bs :
       /\ bs[c].capacity >= 1 /\ DOMAIN bs[c].data = Indices(bs[c])
       /\ bs[c].pushEnd \in -1 .. bs[c].capacity - 2
       /\ bs[c].popNext \in {0} \cup DOMAIN bs
       /\ bs[c].next \in DOMAIN bs /\ bs[bs[c].next].prev = c
       /\ bs[c].prev \in DOMAIN bs /\ bs[bs[c].prev].next = c

Placed(bs, f, b, ex) ==
  \A c \in DOMAIN bs : \A i \in Indices(bs[c]) :
    Holds(ex, Pos(c, i)) <=> Occupied(bs, f, b, c, i)

Marked(bs, f, b) ==
  /\ bs[b.bucket].pushEnd = Queue!kInvalidIndex
  /\ \A c \in DOMAIN bs :
       /\ bs[c].canPush <=> ~Occupied(bs, f, b, c, 0) /\ b # Pos(c, 0)
       /\ bs[c].popNext # 0
            <=> /\ c = f.bucket
                /\ bs[c].pushEnd # Queue!kInvalidIndex /\ f.index > bs[c].pushEnd
       /\ bs[c].pushEnd # Queue!kInvalidIndex /\ c # f.bucket => ~bs[c].canPush

Ordered(bs, f, b, ex) ==
  /\ ex \in Seq(ElementTypes)
  /\ f = IF ex = <<>> THEN b ELSE ex[1].slot
  /\ \A k \in DOMAIN ex :
       Queue!Advance(bs, ex[k].slot) = IF k < Len(ex) THEN ex[k + 1].slot ELSE b
  /\ \A i, j \in DOMAIN ex : i # j => ex[i].slot # ex[j].slot

Stored(bs, ex) ==
  /\ \A k \in DOMAIN ex :
       /\ ex[k].slot.bucket \in DOMAIN bs
       /\ ex[k].slot.index \in Indices(bs[ex[k].slot.bucket])
       /\ bs[ex[k].slot.bucket].data[ex[k].slot.index] = ex[k].value
  /\ \A c \in DOMAIN bs : \A i \in Indices(bs[c]) :
       bs[c].data[i] # Queue!Raw => Holds(ex, Pos(c, i))

EndsAt(bs, b, ex) ==
  ex # <<>> =>
    ex[Len(ex)].slot =
      IF b.index > 0 THEN Pos(b.bucket, b.index - 1)
      ELSE Pos(bs[b.bucket].prev, LastOf(bs[bs[b.bucket].prev]))

InBuckets(bs, s) ==
  /\ s \in [bucket : Nat, index : Nat]
  /\ s.bucket \in DOMAIN bs /\ s.index \in Indices(bs[s.bucket])

Good(bs, f, b, ex) ==
  /\ InBuckets(bs, f) /\ InBuckets(bs, b)
  /\ WellMade(bs) /\ Placed(bs, f, b, ex) /\ Marked(bs, f, b)
  /\ Ordered(bs, f, b, ex) /\ Stored(bs, ex) /\ EndsAt(bs, b, ex)

-----------------------------------------------------------------------------
LEMMA HoldsAppend ==
  ASSUME NEW ex \in Seq(ElementTypes), NEW s \in [bucket : Nat, index : Nat],
         NEW v \in Int
  PROVE  /\ Append(ex, [slot |-> s, value |-> v]) \in Seq(ElementTypes)
         /\ Append(ex, [slot |-> s, value |-> v]) # <<>>
         /\ Len(Append(ex, [slot |-> s, value |-> v])) = Len(ex) + 1
         /\ \A p : Holds(Append(ex, [slot |-> s, value |-> v]), p)
                     <=> Holds(ex, p) \/ p = s
<1> DEFINE e == [slot |-> s, value |-> v]
           ex2 == Append(ex, e)
<1>1. e \in ElementTypes
  BY DEF ElementTypes
<1> HIDE DEF e
<1>2. /\ ex2 \in Seq(ElementTypes) /\ ex2 # <<>> /\ Len(ex2) = Len(ex) + 1
      /\ DOMAIN ex2 = 1 .. Len(ex) + 1 /\ DOMAIN ex = 1 .. Len(ex) /\ Len(ex) \in Nat
      /\ \A k \in 1 .. Len(ex) : ex2[k] = ex[k]
      /\ ex2[Len(ex) + 1] = e
  BY <1>1
<1>3. e.slot = s
  BY DEF e
<1> HIDE DEF ex2
<1>4. ASSUME NEW p PROVE Holds(ex2, p) <=> Holds(ex, p) \/ p = s
  BY <1>2, <1>3 DEF Holds
<1> QED
  BY <1>2, <1>4 DEF e, ex2

(* The order after a push to the slot at the back.                         *)
LEMMA OrderedAppend ==
  ASSUME NEW bs, NEW f, NEW b \in [bucket : Nat, index : Nat], NEW ex, NEW v \in Int,
         NEW bs2, NEW b2, Ordered(bs, f, b, ex), ~Holds(ex, b),
         \A k \in DOMAIN ex : Queue!Advance(bs2, ex[k].slot) = Queue!Advance(bs, ex[k].slot),
         Queue!Advance(bs2, b) = b2
  PROVE  Ordered(bs2, f, b2, Append(ex, [slot |-> b, value |-> v]))
<1> DEFINE e == [slot |-> b, value |-> v]
           ex2 == Append(ex, e)
<1>1. e \in ElementTypes /\ e.slot = b
  BY DEF ElementTypes
<1> HIDE DEF e
<1>0. ex \in Seq(ElementTypes)
  BY DEF Ordered
<1>2. /\ ex2 \in Seq(ElementTypes) /\ ex2 # <<>> /\ Len(ex2) = Len(ex) + 1
      /\ DOMAIN ex2 = 1 .. Len(ex) + 1 /\ DOMAIN ex = 1 .. Len(ex) /\ Len(ex) \in Nat
      /\ \A k \in 1 .. Len(ex) : ex2[k] = ex[k]
      /\ ex2[Len(ex) + 1] = e
      /\ ex = <<>> <=> Len(ex) = 0
  BY <1>0, <1>1
<1> HIDE DEF ex2
<1>3. f = ex2[1].slot
  <2>1. CASE ex = <<>>
    BY <1>1, <1>2, <2>1 DEF Ordered
  <2>2. CASE ex # <<>>
    BY <1>2, <2>2 DEF Ordered
  <2> QED
    BY <2>1, <2>2
<1>4. ASSUME NEW k \in DOMAIN ex2
      PROVE  Queue!Advance(bs2, ex2[k].slot) = IF k < Len(ex2) THEN ex2[k + 1].slot ELSE b2
  <2>1. CASE k = Len(ex) + 1
    BY <1>1, <1>2, <2>1
  <2>2. CASE k = Len(ex)
    <3>1. /\ k \in DOMAIN ex /\ ex2[k] = ex[k] /\ ex2[k + 1] = e /\ k < Len(ex2)
          /\ ~(k < Len(ex))
      BY <1>2, <1>4, <2>2
    <3> QED
      BY <1>1, <3>1 DEF Ordered
  <2>3. CASE k < Len(ex)
    <3>1. /\ k \in DOMAIN ex /\ ex2[k] = ex[k] /\ ex2[k + 1] = ex[k + 1] /\ k < Len(ex2)
      BY <1>2, <1>4, <2>3
    <3> QED
      BY <2>3, <3>1 DEF Ordered
  <2> QED
    BY <1>2, <1>4, <2>1, <2>2, <2>3
<1>5. ASSUME NEW i \in DOMAIN ex2, NEW j \in DOMAIN ex2, i # j
      PROVE  ex2[i].slot # ex2[j].slot
  <2>1. CASE i = Len(ex) + 1
    BY <1>1, <1>2, <1>5, <2>1 DEF Holds
  <2>2. CASE j = Len(ex) + 1
    BY <1>1, <1>2, <1>5, <2>2 DEF Holds
  <2>3. CASE i # Len(ex) + 1 /\ j # Len(ex) + 1
    BY <1>2, <1>5, <2>3 DEF Ordered
  <2> QED
    BY <2>1, <2>2, <2>3
<1>6. Ordered(bs2, f, b2, ex2)
  BY <1>2, <1>3, <1>4, <1>5 DEF Ordered
<1> QED
  BY <1>6 DEF e, ex2

(* What is known of the positions.                                         *)
LEMMA GoodFacts ==
  ASSUME NEW bs, NEW f, NEW b, NEW ex, Good(bs, f, b, ex)
  PROVE  /\ Len(bs) \in Nat /\ DOMAIN bs = 1 .. Len(bs)
         /\ \A c \in DOMAIN bs : bs[c] \in BucketTypes /\ bs[c].capacity \in Nat \ {0}
         /\ f = Pos(f.bucket, f.index) /\ b = Pos(b.bucket, b.index)
         /\ f.bucket \in Nat /\ f.index \in Nat /\ b.bucket \in Nat /\ b.index \in Nat
         /\ ~Holds(ex, b)
         /\ ex \in Seq(ElementTypes) /\ Len(ex) \in Nat /\ DOMAIN ex = 1 .. Len(ex)
         /\ \A k \in DOMAIN ex :
              LET s == ex[k].slot
              IN /\ InBuckets(bs, s) /\ s = Pos(s.bucket, s.index)
                 /\ s.bucket \in Nat /\ s.index \in Nat /\ ex[k].value \in Int
                 /\ Holds(ex, s) /\ Occupied(bs, f, b, s.bucket, s.index)
<1>1. Len(bs) \in Nat /\ DOMAIN bs = 1 .. Len(bs) /\ bs \in Seq(BucketTypes)
  BY DEF Good, WellMade
<1>2. \A c \in DOMAIN bs : bs[c] \in BucketTypes /\ bs[c].capacity >= 1
  BY <1>1 DEF Good, WellMade
<1>3. \A c \in DOMAIN bs : bs[c].capacity \in Nat \ {0}
  BY <1>2 DEF BucketTypes
<1>4. \A s : s \in [bucket : Nat, index : Nat] =>
        s = Pos(s.bucket, s.index) /\ s.bucket \in Nat /\ s.index \in Nat
  BY DEF Pos
<1>5. /\ f = Pos(f.bucket, f.index) /\ b = Pos(b.bucket, b.index)
      /\ f.bucket \in Nat /\ f.index \in Nat /\ b.bucket \in Nat /\ b.index \in Nat
  BY <1>4 DEF Good, InBuckets
<1>6. ~Holds(ex, b)
  <2>1. Holds(ex, Pos(b.bucket, b.index))
          <=> Occupied(bs, f, b, b.bucket, b.index)
    BY DEF Good, InBuckets, Placed
  <2>2. ~Occupied(bs, f, b, b.bucket, b.index)
    BY <1>5 DEF Occupied
  <2> QED
    BY <1>5, <2>1, <2>2
<1>7. ex \in Seq(ElementTypes) /\ Len(ex) \in Nat /\ DOMAIN ex = 1 .. Len(ex)
  BY DEF Good, Ordered
<1>8. ASSUME NEW k \in DOMAIN ex
      PROVE  LET s == ex[k].slot
             IN /\ InBuckets(bs, s) /\ s = Pos(s.bucket, s.index)
                /\ s.bucket \in Nat /\ s.index \in Nat /\ ex[k].value \in Int
                /\ Holds(ex, s) /\ Occupied(bs, f, b, s.bucket, s.index)
  <2> DEFINE s == ex[k].slot
  <2>1. ex[k] \in ElementTypes
    BY <1>7
  <2>2. s \in [bucket : Nat, index : Nat] /\ ex[k].value \in Int
    BY <2>1 DEF ElementTypes
  <2>3. InBuckets(bs, s)
    BY <2>2 DEF InBuckets, Good, Stored
  <2>4. Holds(ex, s)
    BY DEF Holds
  <2>5. s = Pos(s.bucket, s.index) /\ s.bucket \in Nat /\ s.index \in Nat
    BY <1>4, <2>2
  <2> HIDE DEF s
  <2>6. Occupied(bs, f, b, s.bucket, s.index)
    BY <2>3, <2>4, <2>5 DEF Good, Placed, InBuckets
  <2> QED
    BY <2>2, <2>3, <2>4, <2>5, <2>6 DEF s
<1> QED
  BY <1>1, <1>2, <1>3, <1>5, <1>6, <1>7, <1>8

LEMMA BucketFacts ==
  ASSUME NEW bs, NEW f, NEW b, NEW ex, Good(bs, f, b, ex), NEW c \in DOMAIN bs
  PROVE  /\ bs[c].capacity \in Nat \ {0} /\ bs[c].pushEnd \in Int
         /\ -1 <= bs[c].pushEnd /\ bs[c].pushEnd <= bs[c].capacity - 2
         /\ bs[c].next \in DOMAIN bs /\ bs[c].next \in Nat
         /\ bs[c].popNext \in Nat /\ (bs[c].popNext # 0 => bs[c].popNext \in DOMAIN bs)
<1>1. bs[c].capacity \in Nat \ {0} /\ DOMAIN bs = 1 .. Len(bs) /\ Len(bs) \in Nat
  BY GoodFacts
<1>2. /\ bs[c].pushEnd \in -1 .. bs[c].capacity - 2 /\ bs[c].next \in DOMAIN bs
      /\ bs[c].popNext \in {0} \cup DOMAIN bs
  BY DEF Good, WellMade
<1> QED
  BY <1>1, <1>2

-----------------------------------------------------------------------------
(* A push: what the buckets that were there become.                        *)
Kept(bs, bs2, b, v) ==
  \A c \in DOMAIN bs :
    /\ bs2[c].capacity = bs[c].capacity
    /\ DOMAIN bs2[c].data = Indices(bs[c])
    /\ \A i \in Indices(bs[c]) :
         bs2[c].data[i] = IF Pos(c, i) = b THEN v ELSE bs[c].data[i]

(* What is stored after a push; a bucket that is added has nothing.        *)
LEMMA StoredAppend ==
  ASSUME NEW bs, NEW f, NEW b, NEW ex, NEW v \in Int, NEW bs2,
         Good(bs, f, b, ex), Kept(bs, bs2, b, v), DOMAIN bs \subseteq DOMAIN bs2,
         \A c \in DOMAIN bs2 \ DOMAIN bs : \A i \in Indices(bs2[c]) :
           bs2[c].data[i] = Queue!Raw
  PROVE  Stored(bs2, Append(ex, [slot |-> b, value |-> v]))
<1> DEFINE e == [slot |-> b, value |-> v]
           ex2 == Append(ex, e)
<1>1. InBuckets(bs, b) /\ b = Pos(b.bucket, b.index) /\ b \in [bucket : Nat, index : Nat]
      /\ ex \in Seq(ElementTypes)
  BY GoodFacts DEF Good, InBuckets
<1>2. e.slot = b /\ e.value = v
  OBVIOUS
<1>3. \A p : Holds(ex2, p) <=> Holds(ex, p) \/ p = b
  BY <1>1, HoldsAppend
<1>4. /\ DOMAIN ex2 = 1 .. Len(ex) + 1 /\ DOMAIN ex = 1 .. Len(ex) /\ Len(ex) \in Nat
      /\ \A k \in 1 .. Len(ex) : ex2[k] = ex[k]
      /\ ex2[Len(ex) + 1] = e
  <2>1. e \in ElementTypes
    BY <1>1 DEF ElementTypes
  <2> HIDE DEF e
  <2> QED
    BY <1>1, <2>1
<1> HIDE DEF e, ex2
<1>5. ASSUME NEW k \in DOMAIN ex2
      PROVE  /\ ex2[k].slot.bucket \in DOMAIN bs2
             /\ ex2[k].slot.index \in Indices(bs2[ex2[k].slot.bucket])
             /\ bs2[ex2[k].slot.bucket].data[ex2[k].slot.index] = ex2[k].value
  <2>1. CASE k = Len(ex) + 1
    BY <1>1, <1>2, <1>4, <2>1 DEF Kept, InBuckets, Indices
  <2>2. CASE k # Len(ex) + 1
    <3>1. k \in DOMAIN ex /\ ex2[k] = ex[k]
      BY <1>4, <1>5, <2>2
    <3> DEFINE s == ex[k].slot
    <3>2. /\ InBuckets(bs, s) /\ s = Pos(s.bucket, s.index) /\ Holds(ex, s) /\ ~Holds(ex, b)
      BY <3>1, GoodFacts
    <3>3. bs[s.bucket].data[s.index] = ex[k].value
      BY <3>1 DEF Good, Stored
    <3>4. s # b
      BY <3>2
    <3> HIDE DEF s
    <3>5. /\ s.bucket \in DOMAIN bs2 /\ s.index \in Indices(bs2[s.bucket])
          /\ bs2[s.bucket].data[s.index] = ex[k].value
      BY <3>2, <3>3, <3>4 DEF Kept, InBuckets, Indices
    <3> QED
      BY <3>1, <3>5 DEF s
  <2> QED
    BY <2>1, <2>2
<1>6. ASSUME NEW c \in DOMAIN bs2, NEW i \in Indices(bs2[c]), bs2[c].data[i] # Queue!Raw
      PROVE  Holds(ex2, Pos(c, i))
  <2>1. c \in DOMAIN bs
    BY <1>6
  <2>2. i \in Indices(bs[c])
    BY <1>6, <2>1 DEF Kept, Indices
  <2>3. bs2[c].data[i] = IF Pos(c, i) = b THEN v ELSE bs[c].data[i]
    BY <2>1, <2>2 DEF Kept
  <2>4. bs[c].data[i] # Queue!Raw => Holds(ex, Pos(c, i))
    BY <2>1, <2>2 DEF Good, Stored
  <2> QED
    BY <1>3, <1>6, <2>3, <2>4
<1>7. Stored(bs2, ex2)
  BY <1>5, <1>6 DEF Stored
<1> QED
  BY <1>7 DEF e, ex2

(* A push to the slot at the back: it is occupied besides the others and   *)
(* follows the last one, and what a bucket that is added has is nothing.   *)
PushedTo(bs, f, b, ex, bs2, b2) ==
  /\ DOMAIN bs \subseteq DOMAIN bs2
  /\ \A c \in DOMAIN bs2 \ DOMAIN bs : \A i \in Indices(bs2[c]) : bs2[c].data[i] = Queue!Raw
  /\ InBuckets(bs2, b2) /\ WellMade(bs2) /\ Marked(bs2, f, b2)
  /\ \A c \in DOMAIN bs2 : \A i \in Indices(bs2[c]) :
       Occupied(bs2, f, b2, c, i)
         <=> (c \in DOMAIN bs /\ Occupied(bs, f, b, c, i)) \/ Pos(c, i) = b
  /\ \A k \in DOMAIN ex : Queue!Advance(bs2, ex[k].slot) = Queue!Advance(bs, ex[k].slot)
  /\ Queue!Advance(bs2, b) = b2
  /\ b = IF b2.index > 0 THEN Pos(b2.bucket, b2.index - 1)
         ELSE Pos(bs2[b2.bucket].prev, LastOf(bs2[bs2[b2.bucket].prev]))

LEMMA PushKeeps ==
  ASSUME NEW bs, NEW f, NEW b, NEW ex, NEW v \in Int, NEW bs2, NEW b2,
         Good(bs, f, b, ex), Kept(bs, bs2, b, v), PushedTo(bs, f, b, ex, bs2, b2)
  PROVE  Good(bs2, f, b2, Append(ex, [slot |-> b, value |-> v]))
<1> DEFINE e == [slot |-> b, value |-> v]
           ex2 == Append(ex, e)
<1>1. b \in [bucket : Nat, index : Nat] /\ ~Holds(ex, b) /\ ex \in Seq(ElementTypes)
  BY GoodFacts DEF Good, InBuckets
<1>2. /\ ex2 \in Seq(ElementTypes) /\ ex2 # <<>> /\ Len(ex2) = Len(ex) + 1
      /\ \A p : Holds(ex2, p) <=> Holds(ex, p) \/ p = b
  BY <1>1, HoldsAppend
<1>3. ex2[Len(ex2)].slot = b
  <2>1. e \in ElementTypes /\ e.slot = b
    BY <1>1 DEF ElementTypes
  <2> HIDE DEF e
  <2> QED
    BY <1>1, <2>1
<1>4. Stored(bs2, ex2)
  BY StoredAppend DEF PushedTo
<1>5. Ordered(bs2, f, b2, ex2)
  BY <1>1, OrderedAppend DEF Good, PushedTo
<1> HIDE DEF ex2
<1>6. InBuckets(bs2, f)
  BY DEF Good, InBuckets, Kept, Indices, PushedTo
<1>7. EndsAt(bs2, b2, ex2)
  BY <1>3 DEF EndsAt, PushedTo
<1>8. Placed(bs2, f, b2, ex2)
  <2> SUFFICES ASSUME NEW c \in DOMAIN bs2, NEW i \in Indices(bs2[c])
               PROVE  Holds(ex2, Pos(c, i)) <=> Occupied(bs2, f, b2, c, i)
    BY DEF Placed
  <2>1. CASE c \in DOMAIN bs
    <3>1. i \in Indices(bs[c])
      BY <2>1 DEF Kept, Indices
    <3>2. Holds(ex, Pos(c, i)) <=> Occupied(bs, f, b, c, i)
      BY <2>1, <3>1 DEF Good, Placed
    <3> QED
      BY <1>2, <2>1, <3>2 DEF PushedTo
  <2>2. CASE c \notin DOMAIN bs
    <3>1. ~Holds(ex, Pos(c, i))
      <4>1. \A k \in DOMAIN ex : ex[k].slot.bucket \in DOMAIN bs
        BY GoodFacts DEF InBuckets
      <4> QED
        BY <2>2, <4>1 DEF Holds, Pos
    <3> QED
      BY <1>2, <2>2, <3>1 DEF PushedTo
  <2> QED
    BY <2>1, <2>2
<1>9. Good(bs2, f, b2, ex2)
  BY <1>4, <1>5, <1>6, <1>7, <1>8 DEF Good, PushedTo
<1> QED
  BY <1>9 DEF ex2

(* Where Advance leads depends on the marks of the bucket alone.           *)
LEMMA AdvanceSame ==
  ASSUME NEW bs, NEW bs2, NEW s,
         bs2[s.bucket].capacity = bs[s.bucket].capacity,
         bs2[s.bucket].pushEnd = bs[s.bucket].pushEnd,
         bs2[s.bucket].popNext = bs[s.bucket].popNext,
         bs2[s.bucket].next = bs[s.bucket].next
  PROVE  Queue!Advance(bs2, s) = Queue!Advance(bs, s)
BY DEF Queue!Advance

(* The list of buckets is as it was.                                       *)
LEMMA WellMadeSame ==
  ASSUME NEW bs, NEW bs2, WellMade(bs), bs2 \in Seq(BucketTypes), DOMAIN bs2 = DOMAIN bs,
         \A c \in DOMAIN bs :
           /\ bs2[c].capacity = bs[c].capacity /\ DOMAIN bs2[c].data = Indices(bs[c])
           /\ bs2[c].next = bs[c].next /\ bs2[c].prev = bs[c].prev
           /\ bs2[c].pushEnd \in {bs[c].pushEnd, Queue!kInvalidIndex}
           /\ bs2[c].popNext \in {bs[c].popNext, 0}
  PROVE  WellMade(bs2)
<1> SUFFICES ASSUME NEW c \in DOMAIN bs
             PROVE  /\ bs2[c].capacity >= 1 /\ DOMAIN bs2[c].data = Indices(bs2[c])
                    /\ bs2[c].pushEnd \in -1 .. bs2[c].capacity - 2
                    /\ bs2[c].popNext \in {0} \cup DOMAIN bs
                    /\ bs2[c].next \in DOMAIN bs /\ bs2[bs2[c].next].prev = c
                    /\ bs2[c].prev \in DOMAIN bs /\ bs2[bs2[c].prev].next = c
  BY DEF WellMade
<1>1. /\ bs[c].capacity >= 1
      /\ bs[c].pushEnd \in -1 .. bs[c].capacity - 2
      /\ bs[c].popNext \in {0} \cup DOMAIN bs
      /\ bs[c].next \in DOMAIN bs /\ bs[bs[c].next].prev = c
      /\ bs[c].prev \in DOMAIN bs /\ bs[bs[c].prev].next = c
  BY DEF WellMade
<1>2. bs2[c].capacity = bs[c].capacity /\ DOMAIN bs2[c].data = Indices(bs2[c])
  BY DEF Indices
<1>3. bs[c].capacity \in Nat
  <2>1. bs[c] \in BucketTypes
    BY DEF WellMade
  <2> QED
    BY <2>1 DEF BucketTypes
<1>4. bs2[c].pushEnd \in -1 .. bs2[c].capacity - 2
  <2>1. bs2[c].pushEnd = bs[c].pushEnd \/ bs2[c].pushEnd = -1
    BY DEF Queue!kInvalidIndex
  <2> QED
    BY <1>1, <1>2, <1>3, <2>1
<1>5. bs2[c].popNext \in {0} \cup DOMAIN bs
  <2>1. bs2[c].popNext = bs[c].popNext \/ bs2[c].popNext = 0
    OBVIOUS
  <2> QED
    BY <1>1, <2>1
<1>6. /\ bs2[c].next \in DOMAIN bs /\ bs2[bs2[c].next].prev = c
      /\ bs2[c].prev \in DOMAIN bs /\ bs2[bs2[c].prev].next = c
  BY <1>1
<1> QED
  BY <1>1, <1>2, <1>4, <1>5, <1>6

(* The next slot of the bucket is free.                                    *)
LEMMA PushWithin ==
  ASSUME NEW bs, NEW f, NEW b, NEW ex, NEW v \in Int, NEW bs2,
         Good(bs, f, b, ex), Kept(bs, bs2, b, v),
         b.index + 1 < bs[b.bucket].capacity, f # Pos(b.bucket, b.index + 1),
         bs2 \in Seq(BucketTypes), DOMAIN bs2 = DOMAIN bs,
         \A c \in DOMAIN bs :
           /\ bs2[c].canPush = bs[c].canPush
           /\ bs2[c].next = bs[c].next /\ bs2[c].prev = bs[c].prev
           /\ bs2[c].pushEnd = bs[c].pushEnd /\ bs2[c].popNext = bs[c].popNext
  PROVE  Good(bs2, f, Pos(b.bucket, b.index + 1),
              Append(ex, [slot |-> b, value |-> v]))
<1> DEFINE b2 == Pos(b.bucket, b.index + 1)
<1>1. PICK B \in Nat, k \in Nat, F \in Nat, j \in Nat : f = Pos(F, j) /\ b = Pos(B, k)
  BY GoodFacts, SMTT(30)
<1>2. \A n, i : Pos(n, i).bucket = n /\ Pos(n, i).index = i
  BY DEF Pos
<1>3. \A n, i, m, l : Pos(n, i) = Pos(m, l) <=> n = m /\ i = l
  BY <1>2
<1>4. /\ b.bucket = B /\ b.index = k /\ f.bucket = F /\ f.index = j /\ b2 = Pos(B, k + 1)
      /\ b2.bucket = B /\ b2.index = k + 1
  BY <1>1, <1>2
<1>5. F # B \/ j # k + 1
  BY <1>1, <1>4
<1> HIDE DEF b2
<1>6. InBuckets(bs2, b2)
  <2>1. B \in DOMAIN bs /\ B \in DOMAIN bs2 /\ bs2[B].capacity = bs[B].capacity
    BY <1>4 DEF Good, InBuckets, Kept
  <2>2. bs[B].capacity \in Nat /\ k + 1 < bs[B].capacity
    BY <1>4, <2>1, GoodFacts
  <2>3. b2 \in [bucket : Nat, index : Nat]
    BY <1>4 DEF Pos
  <2> QED
    BY <1>4, <2>1, <2>2, <2>3 DEF InBuckets, Indices
<1>7. WellMade(bs2)
  BY WellMadeSame DEF Good, Kept
<1>8. ASSUME NEW c \in DOMAIN bs, NEW i \in Nat
      PROVE  Occupied(bs2, f, b2, c, i) <=> Occupied(bs, f, b, c, i) \/ Pos(c, i) = b
  <2>1. Pos(c, i) = b <=> c = B /\ i = k
    BY <1>1, <1>3
  <2>2. LastOf(bs2[c]) = LastOf(bs[c])
    BY DEF Kept, LastOf
  <2> QED
    BY <1>4, <1>5, <2>1, <2>2 DEF Occupied
<1>9. Marked(bs2, f, b2)
  <2>1. bs2[b2.bucket].pushEnd = Queue!kInvalidIndex
    BY <1>4 DEF Good, Marked, InBuckets
  <2>2. ASSUME NEW c \in DOMAIN bs2
        PROVE  bs2[c].canPush <=> ~Occupied(bs2, f, b2, c, 0) /\ b2 # Pos(c, 0)
    <3>1. bs[c].canPush <=> ~Occupied(bs, f, b, c, 0) /\ b # Pos(c, 0)
      BY DEF Good, Marked
    <3>2. b2 # Pos(c, 0)
      BY <1>3, <1>4
    <3> QED
      BY <1>8, <3>1, <3>2
  <2>3. ASSUME NEW c \in DOMAIN bs2
        PROVE  /\ bs2[c].popNext # 0
                    <=> /\ c = f.bucket
                        /\ bs2[c].pushEnd # Queue!kInvalidIndex /\ f.index > bs2[c].pushEnd
               /\ bs2[c].pushEnd # Queue!kInvalidIndex /\ c # f.bucket => ~bs2[c].canPush
    BY DEF Good, Marked
  <2> QED
    BY <2>1, <2>2, <2>3 DEF Marked
<1>10. \A s : s.bucket \in DOMAIN bs => Queue!Advance(bs2, s) = Queue!Advance(bs, s)
  BY AdvanceSame DEF Kept
<1>11. \A n \in DOMAIN ex : Queue!Advance(bs2, ex[n].slot) = Queue!Advance(bs, ex[n].slot)
  BY <1>10, GoodFacts DEF InBuckets
<1>12. Queue!Advance(bs2, b) = b2
  <2>1. B \in DOMAIN bs /\ bs[B].pushEnd = Queue!kInvalidIndex /\ k + 1 # bs[B].capacity
        /\ bs[B].capacity \in Nat
    BY <1>4, GoodFacts DEF Good, InBuckets, Marked
  <2>2. Queue!Advance(bs, b) = [b EXCEPT !.index = @ + 1]
    BY <1>4, <2>1 DEF Queue!Advance, Queue!kInvalidIndex
  <2>3. [b EXCEPT !.index = @ + 1] = b2
    BY <1>1, <1>4 DEF Pos
  <2> QED
    BY <1>4, <1>10, <2>1, <2>2, <2>3
<1>13. b2.index > 0 /\ b = Pos(b2.bucket, b2.index - 1)
  BY <1>1, <1>4, SMTT(30)
<1>14. \A c \in DOMAIN bs2 : \A i \in Indices(bs2[c]) :
         Occupied(bs2, f, b2, c, i)
           <=> (c \in DOMAIN bs /\ Occupied(bs, f, b, c, i)) \/ Pos(c, i) = b
  BY <1>8 DEF Indices
<1>15. Good(bs2, f, b2, Append(ex, [slot |-> b, value |-> v]))
  <2>1. PushedTo(bs, f, b, ex, bs2, b2)
    BY <1>6, <1>7, <1>9, <1>11, <1>12, <1>13, <1>14 DEF PushedTo
  <2> QED
    BY <2>1, PushKeeps
<1> QED
  BY <1>15 DEF b2

(* The bucket is full, and the next one may be filled again.               *)
LEMMA PushEnters ==
  ASSUME NEW bs, NEW f, NEW b, NEW ex, NEW v \in Int, NEW bs2, NEW n,
         Good(bs, f, b, ex), Kept(bs, bs2, b, v),
         b.index + 1 = bs[b.bucket].capacity, n = bs[b.bucket].next, Queue!MayEnter(bs[n]),
         bs2 \in Seq(BucketTypes), DOMAIN bs2 = DOMAIN bs,
         \A c \in DOMAIN bs :
           /\ bs2[c].canPush <=> c # n /\ bs[c].canPush
           /\ bs2[c].next = bs[c].next /\ bs2[c].prev = bs[c].prev
           /\ bs2[c].pushEnd = bs[c].pushEnd /\ bs2[c].popNext = bs[c].popNext
  PROVE  Good(bs2, f, Pos(n, 0), Append(ex, [slot |-> b, value |-> v]))
<1> DEFINE b2 == Pos(n, 0)
<1>1. PICK B \in Nat, k \in Nat, F \in Nat, j \in Nat : f = Pos(F, j) /\ b = Pos(B, k)
  BY GoodFacts
<1>2. \A m, i : Pos(m, i).bucket = m /\ Pos(m, i).index = i
  BY DEF Pos
<1>3. \A m, i, o, l : Pos(m, i) = Pos(o, l) <=> m = o /\ i = l
  BY <1>2
<1>4. /\ b.bucket = B /\ b.index = k /\ f.bucket = F /\ f.index = j
      /\ b2.bucket = n /\ b2.index = 0
  BY <1>1, <1>2
<1>5. /\ B \in DOMAIN bs /\ F \in DOMAIN bs /\ n \in DOMAIN bs /\ n \in Nat
      /\ bs[n].prev = B /\ bs[B].capacity = k + 1 /\ bs[B].pushEnd = -1
      /\ bs[n].canPush /\ bs[n].pushEnd = -1
      /\ DOMAIN bs \subseteq Nat
  <2>1. DOMAIN bs \subseteq Nat
    BY GoodFacts
  <2> QED
    BY <1>4, <2>1 DEF Good, InBuckets, WellMade, Marked, Queue!MayEnter, Queue!kInvalidIndex
<1>6. bs[B].popNext = 0 /\ bs[n].popNext = 0
  BY <1>4, <1>5 DEF Good, Marked, Queue!kInvalidIndex
<1>7. bs[n].canPush <=> ~Occupied(bs, f, b, n, 0) /\ b # Pos(n, 0)
  BY <1>5 DEF Good, Marked
<1>8. ~Occupied(bs, f, b, n, 0) /\ (n # B \/ k # 0)
  BY <1>1, <1>3, <1>5, <1>7
<1>9. F = B => j <= k
  <2>1. j \in Indices(bs[F])
    BY <1>4 DEF Good, InBuckets
  <2> QED
    BY <1>5, <2>1 DEF Indices
<1>10. n = B => F = B /\ j > 0
  BY <1>4, <1>8, <1>9 DEF Occupied
<1>11. n = F => j > 0
  <2>1. bs[n].capacity \in Nat \ {0}
    BY <1>5, GoodFacts
  <2>0. bs[n].pushEnd = Queue!kInvalidIndex
    BY <1>5 DEF Queue!kInvalidIndex
  <2>2. LastOf(bs[n]) >= 0
    BY <2>0, <2>1, SMTT(30) DEF LastOf
  <2>3. CASE n = B
    BY <1>10, <2>3
  <2>4. CASE n # B
    BY <1>4, <1>6, <1>8, <2>2, <2>4 DEF Occupied
  <2> QED
    BY <2>3, <2>4
<1>12. F # B => ~bs[B].canPush
  <2>1. bs[B].canPush <=> ~Occupied(bs, f, b, B, 0) /\ b # Pos(B, 0)
    BY <1>5 DEF Good, Marked
  <2> QED
    BY <1>1, <1>3, <1>4, <2>1 DEF Occupied
<1> HIDE DEF b2
<1>13. \A c \in DOMAIN bs :
         /\ LastOf(bs2[c]) = LastOf(bs[c])
         /\ bs2[c].popNext = bs[c].popNext /\ bs2[c].pushEnd = bs[c].pushEnd
         /\ bs2[c].canPush <=> c # n /\ bs[c].canPush
  BY DEF Kept, LastOf
<1>14. LastOf(bs[B]) = k
  BY <1>5 DEF LastOf, Queue!kInvalidIndex
<1>15. ASSUME NEW c \in DOMAIN bs, NEW i \in Indices(bs[c])
       PROVE  Occupied(bs2, f, b2, c, i) <=> Occupied(bs, f, b, c, i) \/ Pos(c, i) = b
  <2>1. i \in Nat /\ (Pos(c, i) = b <=> c = B /\ i = k)
    BY <1>1, <1>3 DEF Indices
  <2>2. c = B => i <= k
    BY <1>5 DEF Indices
  <2>3. c = n => i <= LastOf(bs[c])
    BY <1>5 DEF Indices, LastOf, Queue!kInvalidIndex
  <2>4. CASE c = B /\ n = B
    BY <1>4, <1>9, <1>10, <2>1, <2>2, <2>4 DEF Occupied
  <2>5. CASE c = B /\ n # B
    <3>1. /\ bs2[B].popNext = 0 /\ LastOf(bs2[B]) = k /\ (F # B => ~bs2[B].canPush)
      BY <1>5, <1>6, <1>12, <1>13, <1>14
    <3> QED
      BY <1>4, <1>9, <2>1, <2>2, <2>5, <3>1 DEF Occupied
  <2>6. CASE c = n /\ n # B
    <3>1. /\ bs[n].popNext = 0 /\ bs[n].canPush /\ i <= LastOf(bs[n])
      BY <1>5, <1>6, <2>3, <2>6
    <3> QED
      BY <1>4, <1>11, <2>1, <2>6, <3>1 DEF Occupied
  <2>7. CASE c # B /\ c # n
    <3>1. /\ bs2[c].popNext = bs[c].popNext /\ bs2[c].pushEnd = bs[c].pushEnd
          /\ LastOf(bs2[c]) = LastOf(bs[c]) /\ (bs2[c].canPush <=> bs[c].canPush)
      BY <1>13, <2>7
    <3> QED
      BY <1>4, <2>1, <2>7, <3>1 DEF Occupied
  <2> QED
    BY <2>4, <2>5, <2>6, <2>7
<1>16. 0 \in Nat /\ \A c \in DOMAIN bs : 0 \in Indices(bs[c])
  BY GoodFacts DEF Indices
<1>17. Marked(bs2, f, b2)
  <2>1. bs2[b2.bucket].pushEnd = Queue!kInvalidIndex
    BY <1>4, <1>5 DEF Queue!kInvalidIndex
  <2>2. ASSUME NEW c \in DOMAIN bs2
        PROVE  bs2[c].canPush <=> ~Occupied(bs2, f, b2, c, 0) /\ b2 # Pos(c, 0)
    <3>1. bs[c].canPush <=> ~Occupied(bs, f, b, c, 0) /\ b # Pos(c, 0)
      BY DEF Good, Marked
    <3>2. b2 = Pos(c, 0) <=> c = n
      BY <1>3 DEF b2
    <3>3. Occupied(bs2, f, b2, c, 0) <=> Occupied(bs, f, b, c, 0) \/ Pos(c, 0) = b
      BY <1>15, <1>16
    <3> QED
      BY <1>13, <3>1, <3>2, <3>3
  <2>3. ASSUME NEW c \in DOMAIN bs2
        PROVE  /\ bs2[c].popNext # 0
                    <=> /\ c = f.bucket
                        /\ bs2[c].pushEnd # Queue!kInvalidIndex /\ f.index > bs2[c].pushEnd
               /\ bs2[c].pushEnd # Queue!kInvalidIndex /\ c # f.bucket => ~bs2[c].canPush
    <3>1. /\ bs[c].popNext # 0
                <=> /\ c = f.bucket
                    /\ bs[c].pushEnd # Queue!kInvalidIndex /\ f.index > bs[c].pushEnd
          /\ bs[c].pushEnd # Queue!kInvalidIndex /\ c # f.bucket => ~bs[c].canPush
      BY DEF Good, Marked
    <3> QED
      BY <1>13, <3>1
  <2> QED
    BY <2>1, <2>2, <2>3 DEF Marked
<1>18. WellMade(bs2)
  BY WellMadeSame DEF Good, Kept
<1>19. InBuckets(bs2, b2)
  <2>1. b2 \in [bucket : Nat, index : Nat]
    BY <1>5 DEF b2, Pos
  <2>2. 0 \in Indices(bs2[n])
    BY <1>5, <1>16 DEF Kept, Indices
  <2> QED
    BY <1>4, <1>5, <2>1, <2>2 DEF InBuckets
<1>20. \A s : s.bucket \in DOMAIN bs => Queue!Advance(bs2, s) = Queue!Advance(bs, s)
  BY AdvanceSame DEF Kept
<1>21. \A m \in DOMAIN ex : Queue!Advance(bs2, ex[m].slot) = Queue!Advance(bs, ex[m].slot)
  <2>1. \A m \in DOMAIN ex : ex[m].slot.bucket \in DOMAIN bs
    BY GoodFacts DEF InBuckets
  <2> QED
    BY <1>20, <2>1
<1>22. Queue!Advance(bs2, b) = b2
  <2>1. Queue!Advance(bs, b) = Queue!First(n)
    BY <1>4, <1>5, <1>6 DEF Queue!Advance, Queue!kInvalidIndex
  <2> QED
    BY <1>4, <1>5, <1>20, <2>1 DEF Queue!First, b2, Pos
<1>23. b = Pos(bs2[b2.bucket].prev, LastOf(bs2[bs2[b2.bucket].prev]))
  <2>1. b2.bucket = n /\ bs2[n].prev = B /\ LastOf(bs2[B]) = k
    BY <1>4, <1>5, <1>13, <1>14
  <2> QED
    BY <1>1, <2>1
<1>24. \A c \in DOMAIN bs2 : \A i \in Indices(bs2[c]) :
         Occupied(bs2, f, b2, c, i)
           <=> (c \in DOMAIN bs /\ Occupied(bs, f, b, c, i)) \/ Pos(c, i) = b
  BY <1>15 DEF Indices, Kept
<1>25. b = IF b2.index > 0 THEN Pos(b2.bucket, b2.index - 1)
           ELSE Pos(bs2[b2.bucket].prev, LastOf(bs2[bs2[b2.bucket].prev]))
  <2>1. ~(b2.index > 0)
    BY <1>4
  <2> QED
    BY <1>23, <2>1
<1>26. DOMAIN bs \subseteq DOMAIN bs2 /\ \A c \in DOMAIN bs2 \ DOMAIN bs :
         \A i \in Indices(bs2[c]) : bs2[c].data[i] = Queue!Raw
  OBVIOUS
<1>27. Good(bs2, f, b2, Append(ex, [slot |-> b, value |-> v]))
  <2>1. PushedTo(bs, f, b, ex, bs2, b2)
    BY <1>17, <1>18, <1>19, <1>21, <1>22, <1>24, <1>25, <1>26 DEF PushedTo
  <2> QED
    BY <2>1, PushKeeps
<1> QED
  BY <1>27 DEF b2

(* A bucket is added after the one at the back, which is full, or else     *)
(* marked: its round ends before the front, and is to go on after it.      *)
AddedAfter(bs, b, n, bs2, new) ==
  /\ new \in Nat \ {0} /\ new \notin DOMAIN bs /\ DOMAIN bs2 = DOMAIN bs \cup {new}
  /\ bs2 \in Seq(BucketTypes)
  /\ \A c \in DOMAIN bs :
       /\ bs2[c].canPush <=> bs[c].canPush
       /\ bs2[c].next = IF c = b.bucket THEN new ELSE bs[c].next
       /\ bs2[c].prev = IF c = n THEN new ELSE bs[c].prev
       /\ c # b.bucket => bs2[c].pushEnd = bs[c].pushEnd /\ bs2[c].popNext = bs[c].popNext
  /\ ~bs2[new].canPush /\ bs2[new].capacity >= 1
  /\ bs2[new].next = n /\ bs2[new].prev = b.bucket
  /\ bs2[new].pushEnd = Queue!kInvalidIndex /\ bs2[new].popNext = 0
  /\ DOMAIN bs2[new].data = Indices(bs2[new])
  /\ \A i \in Indices(bs2[new]) : bs2[new].data[i] = Queue!Raw

FullAt(bs, b, bs2) ==
  /\ b.index + 1 = bs[b.bucket].capacity
  /\ bs2[b.bucket].pushEnd = bs[b.bucket].pushEnd
  /\ bs2[b.bucket].popNext = bs[b.bucket].popNext

MarkedAt(bs, f, b, bs2) ==
  /\ b.index + 1 < bs[b.bucket].capacity /\ f = Pos(b.bucket, b.index + 1)
  /\ bs2[b.bucket].pushEnd = b.index
  /\ bs2[b.bucket].popNext = bs[b.bucket].next

LEMMA WellMadeAdded ==
  ASSUME NEW bs, NEW b, NEW n, NEW bs2, NEW new,
         WellMade(bs), b.bucket \in DOMAIN bs, n = bs[b.bucket].next,
         AddedAfter(bs, b, n, bs2, new),
         \A c \in DOMAIN bs :
           /\ bs2[c].capacity = bs[c].capacity /\ DOMAIN bs2[c].data = Indices(bs[c])
           /\ bs2[c].pushEnd \in -1 .. bs[c].capacity - 2
           /\ bs2[c].popNext \in {0} \cup DOMAIN bs
  PROVE  WellMade(bs2)
<1> DEFINE B == b.bucket
<1>1. /\ B \in DOMAIN bs /\ n \in DOMAIN bs /\ bs[n].prev = B /\ bs[B].next = n
      /\ new \notin DOMAIN bs /\ DOMAIN bs2 = DOMAIN bs \cup {new}
  <2>1. B \in DOMAIN bs /\ n \in DOMAIN bs /\ bs[n].prev = B /\ bs[B].next = n
    BY DEF WellMade
  <2>2. new \notin DOMAIN bs /\ DOMAIN bs2 = DOMAIN bs \cup {new}
    BY DEF AddedAfter
  <2> QED
    BY <2>1, <2>2
<1>2. \A c \in DOMAIN bs :
        /\ bs2[c].next = IF c = B THEN new ELSE bs[c].next
        /\ bs2[c].prev = IF c = n THEN new ELSE bs[c].prev
        /\ bs[c].next \in DOMAIN bs /\ bs[bs[c].next].prev = c
        /\ bs[c].prev \in DOMAIN bs /\ bs[bs[c].prev].next = c
  BY DEF WellMade, AddedAfter
<1>3. bs2[new].next = n /\ bs2[new].prev = B
  BY DEF AddedAfter
<1> HIDE DEF B
<1>4. ASSUME NEW c \in DOMAIN bs2
      PROVE  /\ bs2[c].next \in DOMAIN bs2 /\ bs2[bs2[c].next].prev = c
             /\ bs2[c].prev \in DOMAIN bs2 /\ bs2[bs2[c].prev].next = c
  <2>1. CASE c = new
    BY <1>1, <1>2, <1>3, <2>1
  <2>2. CASE c \in DOMAIN bs
    <3>1. bs2[c].next \in DOMAIN bs2 /\ bs2[bs2[c].next].prev = c
      <4>1. CASE c = B
        BY <1>1, <1>2, <1>3, <4>1
      <4>2. CASE c # B
        <5>1. bs2[c].next = bs[c].next /\ bs[c].next \in DOMAIN bs /\ bs[bs[c].next].prev = c
          BY <1>2, <2>2, <4>2
        <5>2. bs[c].next # n
          BY <1>1, <4>2, <5>1
        <5> QED
          BY <1>1, <1>2, <5>1, <5>2, ZenonT(60)
      <4> QED
        BY <4>1, <4>2
    <3>2. bs2[c].prev \in DOMAIN bs2 /\ bs2[bs2[c].prev].next = c
      <4>1. CASE c = n
        BY <1>1, <1>2, <1>3, <4>1
      <4>2. CASE c # n
        <5>1. bs2[c].prev = bs[c].prev /\ bs[c].prev \in DOMAIN bs /\ bs[bs[c].prev].next = c
          BY <1>2, <2>2, <4>2
        <5>2. bs[c].prev # B
          BY <1>1, <4>2, <5>1
        <5> QED
          BY <1>1, <1>2, <5>1, <5>2, ZenonT(60)
      <4> QED
        BY <4>1, <4>2
    <3> QED
      BY <3>1, <3>2
  <2> QED
    BY <1>1, <2>1, <2>2
<1>5. ASSUME NEW c \in DOMAIN bs2
      PROVE  /\ bs2[c].capacity >= 1 /\ DOMAIN bs2[c].data = Indices(bs2[c])
             /\ bs2[c].pushEnd \in -1 .. bs2[c].capacity - 2
             /\ bs2[c].popNext \in {0} \cup DOMAIN bs2
  <2>1. CASE c = new
    <3>1. bs2[c] \in BucketTypes
      <4>1. bs2 \in Seq(BucketTypes)
        BY DEF AddedAfter
      <4> QED
        BY <4>1
    <3>2. bs2[c].capacity \in Nat /\ bs2[c].capacity >= 1 /\ bs2[c].pushEnd = -1
      BY <2>1, <3>1 DEF AddedAfter, BucketTypes, Queue!kInvalidIndex
    <3>3. bs2[c].pushEnd \in -1 .. bs2[c].capacity - 2
      BY <3>2
    <3> QED
      BY <2>1, <3>2, <3>3 DEF AddedAfter
  <2>2. CASE c \in DOMAIN bs
    BY <1>1, <2>2 DEF WellMade, Indices
  <2> QED
    BY <1>1, <2>1, <2>2
<1> QED
  BY <1>4, <1>5 DEF WellMade, AddedAfter

LEMMA PushAdds ==
  ASSUME NEW bs, NEW f, NEW b, NEW ex, NEW v \in Int, NEW bs2, NEW n, NEW new,
         Good(bs, f, b, ex), Kept(bs, bs2, b, v), n = bs[b.bucket].next,
         AddedAfter(bs, b, n, bs2, new), FullAt(bs, b, bs2) \/ MarkedAt(bs, f, b, bs2)
  PROVE  Good(bs2, f, Pos(new, 0), Append(ex, [slot |-> b, value |-> v]))
<1> DEFINE b2 == Pos(new, 0)
<1>1. PICK B \in Nat, k \in Nat, F \in Nat, j \in Nat : f = Pos(F, j) /\ b = Pos(B, k)
  BY GoodFacts
<1>2. \A m, i : Pos(m, i).bucket = m /\ Pos(m, i).index = i
  BY DEF Pos
<1>3. \A m, i, o, l : Pos(m, i) = Pos(o, l) <=> m = o /\ i = l
  BY <1>2
<1>4. /\ b.bucket = B /\ b.index = k /\ f.bucket = F /\ f.index = j
      /\ b2.bucket = new /\ b2.index = 0
  BY <1>1, <1>2
<1> HIDE DEF b2
<1>5. /\ B \in DOMAIN bs /\ F \in DOMAIN bs /\ n \in DOMAIN bs
      /\ new \in Nat \ {0} /\ new \notin DOMAIN bs /\ DOMAIN bs2 = DOMAIN bs \cup {new}
      /\ bs[B].pushEnd = Queue!kInvalidIndex /\ bs2[new].pushEnd = Queue!kInvalidIndex
  BY <1>4 DEF Good, InBuckets, WellMade, Marked, AddedAfter
<1>6. DOMAIN bs \subseteq Nat \ {0}
  BY GoodFacts
<1>7. bs[B].capacity \in Nat \ {0}
  BY <1>5, GoodFacts
<1>8. bs[B].popNext = 0
  BY <1>4, <1>5 DEF Good, Marked
<1>9. \A c \in DOMAIN bs :
        /\ bs2[c].canPush <=> bs[c].canPush
        /\ c # B => /\ bs2[c].pushEnd = bs[c].pushEnd /\ bs2[c].popNext = bs[c].popNext
                    /\ LastOf(bs2[c]) = LastOf(bs[c]) /\ bs2[c].next = bs[c].next
        /\ bs2[c].capacity = bs[c].capacity
  BY <1>4 DEF AddedAfter, Kept, LastOf
(* What marks the bucket, and where its round ends.                        *)
<1>10. \/ /\ k + 1 = bs[B].capacity /\ bs2[B].pushEnd = Queue!kInvalidIndex
          /\ bs2[B].popNext = 0 /\ LastOf(bs2[B]) = k
       \/ /\ k + 1 < bs[B].capacity /\ F = B /\ j = k + 1 /\ bs2[B].pushEnd = k
          /\ bs2[B].popNext = n /\ n # 0
  <2>1. CASE FullAt(bs, b, bs2)
    <3>1. k + 1 = bs[B].capacity /\ bs2[B].pushEnd = Queue!kInvalidIndex /\ bs2[B].popNext = 0
      BY <1>4, <1>5, <1>8, <2>1 DEF FullAt
    <3>2. LastOf(bs2[B]) = k
      BY <1>5, <1>9, <3>1 DEF LastOf
    <3> QED
      BY <3>1, <3>2
  <2>2. CASE MarkedAt(bs, f, b, bs2)
    <3>1. F = B /\ j = k + 1
      BY <1>2, <1>4, <2>2 DEF MarkedAt
    <3> QED
      BY <1>4, <1>5, <1>6, <2>2, <3>1 DEF MarkedAt
  <2> QED
    BY <2>1, <2>2
<1>11. F = B /\ k + 1 = bs[B].capacity => j <= k
  <2>1. j \in Indices(bs[F])
    BY <1>4 DEF Good, InBuckets
  <2> QED
    BY <1>7, <2>1 DEF Indices
<1>12. F # B => ~bs[B].canPush
  <2>1. bs[B].canPush <=> ~Occupied(bs, f, b, B, 0) /\ b # Pos(B, 0)
    BY <1>5 DEF Good, Marked
  <2> QED
    BY <1>1, <1>3, <1>4, <2>1 DEF Occupied
<1>13. ASSUME NEW c \in DOMAIN bs, NEW i \in Indices(bs[c])
       PROVE  Occupied(bs2, f, b2, c, i) <=> Occupied(bs, f, b, c, i) \/ Pos(c, i) = b
  <2>1. i \in Nat /\ (Pos(c, i) = b <=> c = B /\ i = k)
    BY <1>1, <1>3 DEF Indices
  <2>2. c # new
    BY <1>5
  <2>3. CASE c = B
    <3>1. i < bs[B].capacity /\ (F # B => ~bs2[B].canPush)
      BY <1>5, <1>7, <1>9, <1>12, <2>3 DEF Indices
    <3>2. CASE k + 1 = bs[B].capacity /\ bs2[B].popNext = 0 /\ LastOf(bs2[B]) = k
      BY <1>4, <1>7, <1>11, <2>1, <2>2, <2>3, <3>1, <3>2 DEF Occupied
    <3>3. CASE F = B /\ j = k + 1 /\ bs2[B].pushEnd = k /\ bs2[B].popNext # 0
      BY <1>4, <2>1, <2>2, <2>3, <3>1, <3>3 DEF Occupied
    <3> QED
      BY <1>10, <3>2, <3>3
  <2>4. CASE c # B
    <3>1. /\ bs2[c].popNext = bs[c].popNext /\ bs2[c].pushEnd = bs[c].pushEnd
          /\ LastOf(bs2[c]) = LastOf(bs[c]) /\ (bs2[c].canPush <=> bs[c].canPush)
      BY <1>9, <2>4
    <3> QED
      BY <1>4, <2>1, <2>2, <2>4, <3>1 DEF Occupied
  <2> QED
    BY <2>3, <2>4
<1>14. ASSUME NEW i \in Nat
       PROVE  ~Occupied(bs2, f, b2, new, i) /\ Pos(new, i) # b
  BY <1>1, <1>3, <1>4, <1>5 DEF Occupied
<1>15. \A c \in DOMAIN bs2 : \A i \in Indices(bs2[c]) :
         Occupied(bs2, f, b2, c, i)
           <=> (c \in DOMAIN bs /\ Occupied(bs, f, b, c, i)) \/ Pos(c, i) = b
  <2>1. ASSUME NEW c \in DOMAIN bs, NEW i \in Indices(bs2[c])
        PROVE  Occupied(bs2, f, b2, c, i) <=> Occupied(bs, f, b, c, i) \/ Pos(c, i) = b
    <3>1. i \in Indices(bs[c])
      BY <1>9 DEF Indices
    <3> QED
      BY <1>13, <3>1
  <2>2. ASSUME NEW i \in Indices(bs2[new])
        PROVE  ~Occupied(bs2, f, b2, new, i) /\ Pos(new, i) # b
    BY <1>14 DEF Indices
  <2> QED
    BY <1>5, <2>1, <2>2
<1>16. Marked(bs2, f, b2)
  <2>1. bs2[b2.bucket].pushEnd = Queue!kInvalidIndex
    BY <1>4, <1>5
  <2>2. ASSUME NEW c \in DOMAIN bs
        PROVE  bs2[c].canPush <=> ~Occupied(bs2, f, b2, c, 0) /\ b2 # Pos(c, 0)
    <3>1. bs[c].canPush <=> ~Occupied(bs, f, b, c, 0) /\ b # Pos(c, 0)
      BY DEF Good, Marked
    <3>2. b2 # Pos(c, 0)
      BY <1>3, <1>5 DEF b2
    <3>3. 0 \in Indices(bs[c])
      BY GoodFacts DEF Indices
    <3>4. Occupied(bs2, f, b2, c, 0) <=> Occupied(bs, f, b, c, 0) \/ Pos(c, 0) = b
      BY <1>13, <3>3
    <3> QED
      BY <1>9, <3>1, <3>2, <3>4
  <2>3. ~bs2[new].canPush /\ b2 = Pos(new, 0)
    BY DEF AddedAfter, b2
  <2>4. ASSUME NEW c \in DOMAIN bs
        PROVE  /\ bs2[c].popNext # 0
                    <=> /\ c = f.bucket
                        /\ bs2[c].pushEnd # Queue!kInvalidIndex /\ f.index > bs2[c].pushEnd
               /\ bs2[c].pushEnd # Queue!kInvalidIndex /\ c # f.bucket => ~bs2[c].canPush
    <3>1. /\ bs[c].popNext # 0
                <=> /\ c = f.bucket
                    /\ bs[c].pushEnd # Queue!kInvalidIndex /\ f.index > bs[c].pushEnd
          /\ bs[c].pushEnd # Queue!kInvalidIndex /\ c # f.bucket => ~bs[c].canPush
      BY DEF Good, Marked
    <3>2. CASE c # B
      BY <1>9, <3>1, <3>2
    <3>3. CASE c = B
      BY <1>4, <1>10, <3>3 DEF Queue!kInvalidIndex
    <3> QED
      BY <3>2, <3>3
  <2>5. bs2[new].popNext = 0 /\ new # f.bucket /\ bs2[new].pushEnd = Queue!kInvalidIndex
    BY <1>4, <1>5 DEF AddedAfter
  <2> QED
    BY <1>5, <2>1, <2>2, <2>3, <2>4, <2>5 DEF Marked
<1>17. WellMade(bs2)
  <2>1. ASSUME NEW c \in DOMAIN bs
        PROVE  /\ bs2[c].capacity = bs[c].capacity /\ DOMAIN bs2[c].data = Indices(bs[c])
               /\ bs2[c].pushEnd \in -1 .. bs[c].capacity - 2
               /\ bs2[c].popNext \in {0} \cup DOMAIN bs
    <3>1. bs2[c].capacity = bs[c].capacity /\ DOMAIN bs2[c].data = Indices(bs[c])
      BY DEF Kept
    <3>2. bs[c].pushEnd \in -1 .. bs[c].capacity - 2 /\ bs[c].popNext \in {0} \cup DOMAIN bs
      BY DEF Good, WellMade
    <3>3. CASE c # B
      BY <1>9, <3>1, <3>2, <3>3
    <3>4. CASE c = B
      BY <1>5, <1>7, <1>10, <3>1, <3>4 DEF Queue!kInvalidIndex
    <3> QED
      BY <3>3, <3>4
  <2>2. WellMade(bs) /\ b.bucket \in DOMAIN bs
    BY <1>4, <1>5 DEF Good
  <2> QED
    BY <2>1, <2>2, WellMadeAdded
<1>18. InBuckets(bs2, b2)
  <2>1. b2 \in [bucket : Nat, index : Nat]
    BY <1>5 DEF b2, Pos
  <2>2. bs2[new].capacity \in Nat /\ bs2[new].capacity >= 1
    <3>1. bs2[new] \in BucketTypes
      BY <1>5 DEF AddedAfter
    <3> QED
      BY <3>1 DEF AddedAfter, BucketTypes
  <2>3. 0 \in Indices(bs2[new])
    BY <2>2 DEF Indices
  <2> QED
    BY <1>4, <1>5, <2>1, <2>3 DEF InBuckets
(* An element behind the front of a marked bucket goes on as before.       *)
<1>19. ASSUME NEW m \in DOMAIN ex PROVE Queue!Advance(bs2, ex[m].slot) = Queue!Advance(bs, ex[m].slot)
  <2>1. PICK c \in Nat, i \in Nat : ex[m].slot = Pos(c, i)
    BY GoodFacts
  <2>2. /\ c \in DOMAIN bs /\ i \in Indices(bs[c]) /\ ex[m].slot.bucket = c
        /\ ex[m].slot.index = i /\ ex[m].slot # b /\ Occupied(bs, f, b, c, i)
    BY <1>2, <2>1, GoodFacts DEF InBuckets
  <2>3. CASE c # B
    BY <1>9, <2>2, <2>3, AdvanceSame
  <2>4. CASE c = B
    <3>1. i # k /\ i < bs[B].capacity
      BY <1>1, <1>7, <2>1, <2>2, <2>4 DEF Indices
    <3>2. CASE k + 1 = bs[B].capacity
      <4>1. i + 1 # bs[B].capacity /\ i # Queue!kInvalidIndex /\ bs2[B].pushEnd = Queue!kInvalidIndex
        BY <1>7, <1>10, <3>1, <3>2 DEF Queue!kInvalidIndex
      <4> QED
        BY <1>5, <1>9, <2>2, <2>4, <4>1 DEF Queue!Advance
    <3>3. CASE bs2[B].pushEnd = k /\ bs2[B].popNext = n /\ n # 0
      <4>1. i # Queue!kInvalidIndex
        BY DEF Queue!kInvalidIndex
      <4> QED
        BY <1>4, <1>5, <1>8, <1>9, <2>2, <2>4, <3>1, <3>3, <4>1 DEF Queue!Advance
    <3> QED
      BY <1>10, <3>2, <3>3
  <2> QED
    BY <2>3, <2>4
<1>20. Queue!Advance(bs2, b) = b2
  <2>1. bs2[B].next = new
    BY <1>4, <1>5 DEF AddedAfter
  <2>2. Queue!Advance(bs2, b) = Queue!First(new)
    <3>1. CASE k + 1 = bs[B].capacity /\ bs2[B].pushEnd = Queue!kInvalidIndex /\ bs2[B].popNext = 0
      <4>1. k # Queue!kInvalidIndex
        BY DEF Queue!kInvalidIndex
      <4> QED
        BY <1>4, <1>5, <1>9, <2>1, <3>1, <4>1 DEF Queue!Advance
    <3>2. CASE bs2[B].pushEnd = k
      BY <1>4, <2>1, <3>2 DEF Queue!Advance
    <3> QED
      BY <1>10, <3>1, <3>2
  <2> QED
    BY <2>2 DEF Queue!First, b2, Pos
<1>21. LastOf(bs2[B]) = k
  BY <1>10 DEF LastOf, Queue!kInvalidIndex
<1>22. b = IF b2.index > 0 THEN Pos(b2.bucket, b2.index - 1)
           ELSE Pos(bs2[b2.bucket].prev, LastOf(bs2[bs2[b2.bucket].prev]))
  <2>1. ~(b2.index > 0)
    BY <1>4
  <2>2. bs2[new].prev = B
    BY <1>4 DEF AddedAfter
  <2>3. b = Pos(bs2[b2.bucket].prev, LastOf(bs2[bs2[b2.bucket].prev]))
    BY <1>1, <1>4, <1>21, <2>2
  <2> QED
    BY <2>1, <2>3
<1>23. DOMAIN bs \subseteq DOMAIN bs2 /\ \A c \in DOMAIN bs2 \ DOMAIN bs :
         \A i \in Indices(bs2[c]) : bs2[c].data[i] = Queue!Raw
  BY <1>5 DEF AddedAfter
<1>24. Good(bs2, f, b2, Append(ex, [slot |-> b, value |-> v]))
  <2>1. PushedTo(bs, f, b, ex, bs2, b2)
    BY <1>15, <1>16, <1>17, <1>18, <1>19, <1>20, <1>22, <1>23 DEF PushedTo
  <2> QED
    BY <2>1, PushKeeps
<1> QED
  BY <1>24 DEF b2

-----------------------------------------------------------------------------
(* A pop.                                                                  *)
PoppedFrom(bs, f, b, ex, bs2, f2) ==
  /\ bs2 \in Seq(BucketTypes) /\ DOMAIN bs2 = DOMAIN bs
  /\ \A c \in DOMAIN bs :
       /\ bs2[c].capacity = bs[c].capacity /\ DOMAIN bs2[c].data = Indices(bs[c])
       /\ bs2[c].next = bs[c].next /\ bs2[c].prev = bs[c].prev
       /\ bs2[c].canPush <=> bs[c].canPush \/ f = Pos(c, 0)
       /\ \A i \in Indices(bs[c]) :
            bs2[c].data[i] = IF Pos(c, i) = f THEN Queue!Raw ELSE bs[c].data[i]

(* The slot at the front is not occupied any more, and the next one is     *)
(* where Advance leads.                                                    *)
FrontLeft(bs, f, b, ex, bs2, f2) ==
  /\ \A c \in DOMAIN bs :
       /\ bs2[c].pushEnd \in {bs[c].pushEnd, Queue!kInvalidIndex}
       /\ bs2[c].popNext \in {bs[c].popNext, 0}
       /\ bs2[c].popNext # 0
            <=> /\ c = f2.bucket
                /\ bs2[c].pushEnd # Queue!kInvalidIndex /\ f2.index > bs2[c].pushEnd
       /\ bs2[c].pushEnd # Queue!kInvalidIndex /\ c # f2.bucket => ~bs2[c].canPush
       /\ \A i \in Indices(bs[c]) :
            Occupied(bs2, f2, b, c, i) <=> Occupied(bs, f, b, c, i) /\ Pos(c, i) # f
  /\ \A k \in DOMAIN ex : ex[k].slot # f => Queue!Advance(bs2, ex[k].slot) = Queue!Advance(bs, ex[k].slot)
  /\ Len(ex) > 1 /\ b.index = 0 =>
       LastOf(bs2[bs[b.bucket].prev]) = LastOf(bs[bs[b.bucket].prev])

LEMMA PopFacts ==
  ASSUME NEW bs, NEW f, NEW b, NEW ex, Good(bs, f, b, ex), ex # <<>>
  PROVE  /\ Len(ex) \in Nat \ {0} /\ ex[1].slot = f /\ Holds(ex, f) /\ f # b
         /\ Queue!Advance(bs, f) = IF Len(ex) > 1 THEN ex[2].slot ELSE b
         /\ Queue!Advance(bs, f) # f
         /\ Queue!Advance(bs, f) = b \/ Holds(ex, Queue!Advance(bs, f))
         /\ InBuckets(bs, Queue!Advance(bs, f))
<1>1. Len(ex) \in Nat \ {0} /\ DOMAIN ex = 1 .. Len(ex) /\ 1 \in DOMAIN ex
  BY GoodFacts
<1>2. ex[1].slot = f
  BY DEF Good, Ordered
<1>3. Holds(ex, f) /\ f # b
  <2>1. Holds(ex, f)
    BY <1>1, <1>2 DEF Holds
  <2> QED
    BY <2>1, GoodFacts
<1>4. Queue!Advance(bs, f) = IF Len(ex) > 1 THEN ex[2].slot ELSE b
  <2>1. Queue!Advance(bs, ex[1].slot) = IF 1 < Len(ex) THEN ex[1 + 1].slot ELSE b
    BY <1>1 DEF Good, Ordered
  <2>2. 1 + 1 = 2 /\ (1 < Len(ex) <=> Len(ex) > 1)
    BY <1>1
  <2> QED
    BY <1>2, <2>1, <2>2
<1>5. CASE Len(ex) > 1
  <2>1. 2 \in DOMAIN ex /\ 1 # 2
    BY <1>1, <1>5
  <2>2. ex[2].slot # ex[1].slot
    BY <1>1, <2>1 DEF Good, Ordered
  <2>3. Holds(ex, ex[2].slot) /\ InBuckets(bs, ex[2].slot)
    BY <2>1, GoodFacts
  <2> QED
    BY <1>1, <1>2, <1>3, <1>4, <1>5, <2>2, <2>3
<1>6. CASE ~(Len(ex) > 1)
  <2>1. Queue!Advance(bs, f) = b /\ InBuckets(bs, b)
    BY <1>4, <1>6 DEF Good
  <2> QED
    BY <1>1, <1>2, <1>3, <1>4, <2>1
<1> QED
  BY <1>5, <1>6

LEMMA PopKeeps ==
  ASSUME NEW bs, NEW f, NEW b, NEW ex, NEW bs2, NEW f2,
         Good(bs, f, b, ex), ex # <<>>, f2 = Queue!Advance(bs, f),
         PoppedFrom(bs, f, b, ex, bs2, f2), FrontLeft(bs, f, b, ex, bs2, f2)
  PROVE  Good(bs2, f2, b, Tail(ex))
<1> DEFINE ex2 == Tail(ex)
<1>1. /\ Len(ex) \in Nat \ {0} /\ ex[1].slot = f
      /\ f2 = (IF Len(ex) > 1 THEN ex[2].slot ELSE b)
      /\ ex \in Seq(ElementTypes) /\ DOMAIN ex = 1 .. Len(ex)
  BY PopFacts, GoodFacts
<1>2. /\ ex2 \in Seq(ElementTypes) /\ Len(ex2) = Len(ex) - 1
      /\ DOMAIN ex2 = 1 .. Len(ex) - 1
      /\ \A k \in 1 .. Len(ex) - 1 : ex2[k] = ex[k + 1]
      /\ ex2 = <<>> <=> Len(ex) = 1
  <2>1. ex \in Seq(ElementTypes) /\ ex # <<>>
    BY <1>1
  <2>2. ex2 \in Seq(ElementTypes) /\ Len(ex2) = Len(ex) - 1
    BY <2>1
  <2>3. \A k \in 1 .. Len(ex) - 1 : ex2[k] = ex[k + 1]
    BY <2>1
  <2>4. DOMAIN ex2 = 1 .. Len(ex) - 1
    BY <2>2
  <2> HIDE DEF ex2
  <2>5. ex2 = <<>> <=> Len(ex) = 1
    BY <1>1, <2>2
  <2> QED
    BY <2>2, <2>3, <2>4, <2>5
<1> HIDE DEF ex2
<1>3. \A i, j \in DOMAIN ex : i # j => ex[i].slot # ex[j].slot
  BY DEF Good, Ordered
<1>4. \A p : Holds(ex2, p) <=> Holds(ex, p) /\ p # f
  <2> SUFFICES ASSUME NEW p PROVE Holds(ex2, p) <=> Holds(ex, p) /\ p # f
    OBVIOUS
  <2>1. ASSUME Holds(ex2, p) PROVE Holds(ex, p) /\ p # f
    <3>1. PICK k \in DOMAIN ex2 : ex2[k].slot = p
      BY <2>1 DEF Holds
    <3>2. k + 1 \in DOMAIN ex /\ k + 1 # 1 /\ 1 \in DOMAIN ex /\ ex[k + 1].slot = p
      BY <1>1, <1>2, <3>1
    <3> QED
      BY <1>1, <1>3, <3>2 DEF Holds
  <2>2. ASSUME Holds(ex, p), p # f PROVE Holds(ex2, p)
    <3>1. PICK k \in DOMAIN ex : ex[k].slot = p
      BY <2>2 DEF Holds
    <3>2. k # 1
      BY <1>1, <2>2, <3>1
    <3>3. k - 1 \in DOMAIN ex2 /\ ex2[k - 1] = ex[k - 1 + 1] /\ k - 1 + 1 = k
      BY <1>1, <1>2, <3>2
    <3> QED
      BY <3>1, <3>3 DEF Holds
  <2> QED
    BY <2>1, <2>2
<1>5. /\ bs2 \in Seq(BucketTypes) /\ DOMAIN bs2 = DOMAIN bs
      /\ \A c \in DOMAIN bs : bs2[c].capacity = bs[c].capacity /\ Indices(bs2[c]) = Indices(bs[c])
  BY DEF PoppedFrom, Indices
<1>6. InBuckets(bs2, b) /\ InBuckets(bs2, f2)
  <2>1. \A s : InBuckets(bs, s) => InBuckets(bs2, s)
    BY <1>5 DEF InBuckets
  <2> QED
    BY <2>1, PopFacts DEF Good
<1>7. WellMade(bs2)
  BY WellMadeSame DEF Good, PoppedFrom, FrontLeft
<1>8. Placed(bs2, f2, b, ex2)
  BY <1>4, <1>5 DEF Good, Placed, FrontLeft
<1>9. Marked(bs2, f2, b)
  <2>1. bs2[b.bucket].pushEnd = Queue!kInvalidIndex
    <3>1. b.bucket \in DOMAIN bs /\ bs[b.bucket].pushEnd = Queue!kInvalidIndex
      BY DEF Good, InBuckets, Marked
    <3> QED
      BY <3>1 DEF FrontLeft
  <2>2. ASSUME NEW c \in DOMAIN bs
        PROVE  bs2[c].canPush <=> ~Occupied(bs2, f2, b, c, 0) /\ b # Pos(c, 0)
    <3>1. bs[c].canPush <=> ~Occupied(bs, f, b, c, 0) /\ b # Pos(c, 0)
      BY DEF Good, Marked
    <3>2. bs2[c].canPush <=> bs[c].canPush \/ f = Pos(c, 0)
      BY DEF PoppedFrom
    <3>3. 0 \in Indices(bs[c])
      BY GoodFacts DEF Indices
    <3>4. Occupied(bs2, f2, b, c, 0) <=> Occupied(bs, f, b, c, 0) /\ Pos(c, 0) # f
      BY <3>3 DEF FrontLeft
    <3>5. f # b
      BY PopFacts
    <3> QED
      BY <3>1, <3>2, <3>4, <3>5
  <2> QED
    BY <1>5, <2>1, <2>2 DEF Marked, FrontLeft
<1>10. Ordered(bs2, f2, b, ex2)
  <2>1. f2 = IF ex2 = <<>> THEN b ELSE ex2[1].slot
    <3>1. CASE Len(ex) = 1
      BY <1>1, <1>2, <3>1
    <3>2. CASE Len(ex) # 1
      <4>1. Len(ex) > 1 /\ ex2[1] = ex[1 + 1] /\ 1 + 1 = 2 /\ ex2 # <<>>
        BY <1>1, <1>2, <3>2
      <4> QED
        BY <1>1, <4>1
    <3> QED
      BY <3>1, <3>2
  <2>2. ASSUME NEW k \in DOMAIN ex2
        PROVE  Queue!Advance(bs2, ex2[k].slot) = IF k < Len(ex2) THEN ex2[k + 1].slot ELSE b
    <3>1. /\ k + 1 \in DOMAIN ex /\ k + 1 # 1 /\ 1 \in DOMAIN ex /\ ex2[k] = ex[k + 1]
          /\ k < Len(ex2) <=> k + 1 < Len(ex)
          /\ k < Len(ex2) => ex2[k + 1] = ex[k + 1 + 1]
      BY <1>1, <1>2
    <3>2. ex[k + 1].slot # f
      BY <1>1, <1>3, <3>1
    <3>3. Queue!Advance(bs2, ex[k + 1].slot) = Queue!Advance(bs, ex[k + 1].slot)
      BY <3>1, <3>2 DEF FrontLeft
    <3>4. Queue!Advance(bs, ex[k + 1].slot)
            = IF k + 1 < Len(ex) THEN ex[k + 1 + 1].slot ELSE b
      BY <3>1 DEF Good, Ordered
    <3> QED
      BY <3>1, <3>3, <3>4
  <2>3. ASSUME NEW i \in DOMAIN ex2, NEW j \in DOMAIN ex2, i # j
        PROVE  ex2[i].slot # ex2[j].slot
    <3>1. /\ i + 1 \in DOMAIN ex /\ j + 1 \in DOMAIN ex /\ i + 1 # j + 1
          /\ ex2[i] = ex[i + 1] /\ ex2[j] = ex[j + 1]
      BY <1>1, <1>2, <2>3
    <3> QED
      BY <1>3, <3>1
  <2> QED
    BY <1>2, <2>1, <2>2, <2>3 DEF Ordered
<1>11. Stored(bs2, ex2)
  <2>1. ASSUME NEW k \in DOMAIN ex2
        PROVE  /\ ex2[k].slot.bucket \in DOMAIN bs2
               /\ ex2[k].slot.index \in Indices(bs2[ex2[k].slot.bucket])
               /\ bs2[ex2[k].slot.bucket].data[ex2[k].slot.index] = ex2[k].value
    <3>1. k + 1 \in DOMAIN ex /\ k + 1 # 1 /\ 1 \in DOMAIN ex /\ ex2[k] = ex[k + 1]
      BY <1>1, <1>2
    <3> DEFINE s == ex[k + 1].slot
    <3>2. s # f
      BY <1>1, <1>3, <3>1
    <3>3. /\ s.bucket \in DOMAIN bs /\ s.index \in Indices(bs[s.bucket])
          /\ bs[s.bucket].data[s.index] = ex[k + 1].value
      BY <3>1 DEF Good, Stored
    <3>4. s = Pos(s.bucket, s.index)
      BY <3>1, GoodFacts
    <3> HIDE DEF s
    <3>5. bs2[s.bucket].data[s.index] = ex[k + 1].value
      BY <3>2, <3>3, <3>4 DEF PoppedFrom
    <3> QED
      BY <1>5, <3>1, <3>3, <3>5 DEF s
  <2>2. ASSUME NEW c \in DOMAIN bs2, NEW i \in Indices(bs2[c]), bs2[c].data[i] # Queue!Raw
        PROVE  Holds(ex2, Pos(c, i))
    <3>1. c \in DOMAIN bs /\ i \in Indices(bs[c])
      BY <1>5
    <3>2. bs2[c].data[i] = IF Pos(c, i) = f THEN Queue!Raw ELSE bs[c].data[i]
      BY <3>1 DEF PoppedFrom
    <3>3. bs[c].data[i] # Queue!Raw => Holds(ex, Pos(c, i))
      BY <3>1 DEF Good, Stored
    <3> QED
      BY <1>4, <2>2, <3>2, <3>3
  <2> QED
    BY <2>1, <2>2 DEF Stored
<1>12. EndsAt(bs2, b, ex2)
  <2> SUFFICES ASSUME ex2 # <<>>
               PROVE  ex2[Len(ex2)].slot =
                        IF b.index > 0 THEN Pos(b.bucket, b.index - 1)
                        ELSE Pos(bs2[b.bucket].prev, LastOf(bs2[bs2[b.bucket].prev]))
    BY DEF EndsAt
  <2>1. Len(ex) > 1 /\ ex2[Len(ex2)] = ex[Len(ex)] /\ ex # <<>>
    BY <1>1, <1>2
  <2>2. ex[Len(ex)].slot =
          IF b.index > 0 THEN Pos(b.bucket, b.index - 1)
          ELSE Pos(bs[b.bucket].prev, LastOf(bs[bs[b.bucket].prev]))
    BY <2>1 DEF Good, EndsAt
  <2>3. bs2[b.bucket].prev = bs[b.bucket].prev
    BY DEF Good, InBuckets, PoppedFrom
  <2>4. CASE b.index > 0
    BY <2>1, <2>2, <2>4
  <2>5. CASE ~(b.index > 0)
    <3>1. b.index = 0
      BY <2>5, GoodFacts
    <3>2. LastOf(bs2[bs[b.bucket].prev]) = LastOf(bs[bs[b.bucket].prev])
      BY <2>1, <3>1 DEF FrontLeft
    <3> QED
      BY <2>1, <2>2, <2>3, <2>5, <3>2
  <2> QED
    BY <2>4, <2>5
<1>13. Good(bs2, f2, b, ex2)
  BY <1>6, <1>7, <1>8, <1>9, <1>10, <1>11, <1>12 DEF Good
<1> QED
  BY <1>13 DEF ex2

(* The next slot of the bucket follows.                                    *)
LEMMA PopWithin ==
  ASSUME NEW bs, NEW f, NEW b, NEW ex, NEW bs2,
         Good(bs, f, b, ex), ex # <<>>, PoppedFrom(bs, f, b, ex, bs2, Queue!Advance(bs, f)),
         f.index # bs[f.bucket].pushEnd, f.index + 1 # bs[f.bucket].capacity,
         \A c \in DOMAIN bs : bs2[c].pushEnd = bs[c].pushEnd /\ bs2[c].popNext = bs[c].popNext
  PROVE  Good(bs2, Queue!Advance(bs, f), b, Tail(ex))
<1> DEFINE f2 == Queue!Advance(bs, f)
<1>1. PICK B \in Nat, k \in Nat, F \in Nat, j \in Nat : f = Pos(F, j) /\ b = Pos(B, k)
  BY GoodFacts
<1>2. \A m, i : Pos(m, i).bucket = m /\ Pos(m, i).index = i
  BY DEF Pos
<1>3. \A m, i, o, l : Pos(m, i) = Pos(o, l) <=> m = o /\ i = l
  BY <1>2
<1>4. /\ b.bucket = B /\ b.index = k /\ f.bucket = F /\ f.index = j
  BY <1>1, <1>2
<1>5. /\ B \in DOMAIN bs /\ F \in DOMAIN bs /\ f # b /\ bs[B].pushEnd = Queue!kInvalidIndex
      /\ j \in Indices(bs[F]) /\ Occupied(bs, f, b, F, j) /\ bs[F].capacity \in Nat \ {0}
  <2>1. f # b /\ Holds(ex, f)
    BY PopFacts
  <2>2. /\ B \in DOMAIN bs /\ F \in DOMAIN bs /\ bs[B].pushEnd = Queue!kInvalidIndex
        /\ j \in Indices(bs[F])
    BY <1>4 DEF Good, InBuckets, Marked
  <2>3. Occupied(bs, f, b, F, j)
    BY <1>1, <2>1, <2>2 DEF Good, Placed
  <2> QED
    BY <2>1, <2>2, <2>3, GoodFacts
<1>6. j < bs[F].capacity
  BY <1>5 DEF Indices
<1>7. \A c \in DOMAIN bs :
        /\ bs[c].canPush <=> ~Occupied(bs, f, b, c, 0) /\ b # Pos(c, 0)
        /\ bs[c].popNext # 0
             <=> c = F /\ bs[c].pushEnd # Queue!kInvalidIndex /\ j > bs[c].pushEnd
        /\ bs[c].pushEnd # Queue!kInvalidIndex /\ c # F => ~bs[c].canPush
  BY <1>4 DEF Good, Marked
<1>8. \A c \in DOMAIN bs :
        /\ bs2[c].canPush <=> bs[c].canPush \/ (c = F /\ j = 0)
        /\ bs2[c].capacity = bs[c].capacity /\ bs2[c].next = bs[c].next
  BY <1>1, <1>3 DEF PoppedFrom
<1>9. \A c \in DOMAIN bs : \A i \in Indices(bs[c]) :
        i \in Nat /\ (Pos(c, i) = f <=> c = F /\ i = j)
  BY <1>1, <1>3 DEF Indices
<1>10. f2 = Pos(F, j + 1) /\ f2.bucket = F /\ f2.index = j + 1
  <2>1. f2 = [f EXCEPT !.index = @ + 1]
    BY <1>4 DEF Queue!Advance
  <2> QED
    BY <1>1, <2>1 DEF Pos
<1> HIDE DEF f2
<1>11. \A c \in DOMAIN bs :
         /\ LastOf(bs2[c]) = LastOf(bs[c])
         /\ bs2[c].pushEnd = bs[c].pushEnd /\ bs2[c].popNext = bs[c].popNext
  BY <1>8 DEF LastOf
<1>12. ASSUME NEW c \in DOMAIN bs, NEW i \in Indices(bs[c])
       PROVE  Occupied(bs2, f2, b, c, i) <=> Occupied(bs, f, b, c, i) /\ Pos(c, i) # f
  <2>1. /\ bs2[c].popNext = bs[c].popNext /\ bs2[c].pushEnd = bs[c].pushEnd
        /\ LastOf(bs2[c]) = LastOf(bs[c])
        /\ i \in Nat /\ (Pos(c, i) = f <=> c = F /\ i = j)
        /\ bs2[c].canPush <=> bs[c].canPush \/ (c = F /\ j = 0)
    BY <1>8, <1>9, <1>11
  <2>2. CASE c = F /\ F = B
    <3>1. j # k
      BY <1>1, <1>5, <2>2
    <3> QED
      BY <1>4, <1>10, <2>1, <2>2, <3>1 DEF Occupied
  <2>3. CASE c = F /\ F # B
    <3>1. bs[c].popNext # 0 => j > bs[c].pushEnd
      BY <1>7, <2>3
    <3>2. bs[c].pushEnd \in Int
      BY BucketFacts
    <3> QED
      BY <1>4, <1>10, <2>1, <2>3, <3>1, <3>2 DEF Occupied
  <2>4. CASE c # F
    BY <1>4, <1>10, <2>1, <2>4 DEF Occupied
  <2> QED
    BY <2>2, <2>3, <2>4
<1>13. ASSUME NEW c \in DOMAIN bs
       PROVE  /\ bs2[c].popNext # 0
                   <=> /\ c = f2.bucket
                       /\ bs2[c].pushEnd # Queue!kInvalidIndex /\ f2.index > bs2[c].pushEnd
              /\ bs2[c].pushEnd # Queue!kInvalidIndex /\ c # f2.bucket => ~bs2[c].canPush
  <2>1. bs[c].pushEnd \in Int /\ (c = F => j # bs[c].pushEnd)
    BY <1>4, BucketFacts
  <2>2. c = F => (j > bs[c].pushEnd <=> j + 1 > bs[c].pushEnd)
    BY <2>1
  <2> QED
    BY <1>7, <1>8, <1>10, <1>11, <2>2
<1>14. \A n \in DOMAIN ex : Queue!Advance(bs2, ex[n].slot) = Queue!Advance(bs, ex[n].slot)
  <2>1. \A n \in DOMAIN ex : ex[n].slot.bucket \in DOMAIN bs
    BY GoodFacts DEF InBuckets
  <2> QED
    BY <1>8, <1>11, <2>1, AdvanceSame
<1>15. bs[B].prev \in DOMAIN bs
  BY <1>5 DEF Good, WellMade
<1>16. FrontLeft(bs, f, b, ex, bs2, f2)
  BY <1>4, <1>11, <1>12, <1>13, <1>14, <1>15 DEF FrontLeft
<1> QED
  BY <1>16, PopKeeps DEF f2

(* The element is the last one of its bucket before the mark.              *)
LEMMA PopAtMark ==
  ASSUME NEW bs, NEW f, NEW b, NEW ex, NEW bs2,
         Good(bs, f, b, ex), ex # <<>>, PoppedFrom(bs, f, b, ex, bs2, Queue!Advance(bs, f)),
         f.index = bs[f.bucket].pushEnd,
         \A c \in DOMAIN bs :
           /\ bs2[c].pushEnd = IF c = f.bucket THEN Queue!kInvalidIndex ELSE bs[c].pushEnd
           /\ bs2[c].popNext = bs[c].popNext
  PROVE  Good(bs2, Queue!Advance(bs, f), b, Tail(ex))
<1> DEFINE f2 == Queue!Advance(bs, f)
<1>1. PICK B \in Nat, k \in Nat, F \in Nat, j \in Nat : f = Pos(F, j) /\ b = Pos(B, k)
  BY GoodFacts, SMTT(30)
<1>2. \A m, i : Pos(m, i).bucket = m /\ Pos(m, i).index = i
  BY DEF Pos
<1>3. \A m, i, o, l : Pos(m, i) = Pos(o, l) <=> m = o /\ i = l
  BY <1>2
<1>4. /\ b.bucket = B /\ b.index = k /\ f.bucket = F /\ f.index = j
  BY <1>1, <1>2
<1>5. /\ B \in DOMAIN bs /\ F \in DOMAIN bs /\ f # b /\ bs[B].pushEnd = Queue!kInvalidIndex
      /\ j \in Indices(bs[F]) /\ Occupied(bs, f, b, F, j) /\ bs[F].capacity \in Nat \ {0}
  <2>1. f # b /\ Holds(ex, f)
    BY PopFacts
  <2>2. /\ B \in DOMAIN bs /\ F \in DOMAIN bs /\ bs[B].pushEnd = Queue!kInvalidIndex
        /\ j \in Indices(bs[F])
    BY <1>4 DEF Good, InBuckets, Marked
  <2>3. Occupied(bs, f, b, F, j)
    BY <1>1, <2>1, <2>2 DEF Good, Placed
  <2> QED
    BY <2>1, <2>2, <2>3, GoodFacts
<1>6. j < bs[F].capacity
  BY <1>5 DEF Indices
<1>7. \A c \in DOMAIN bs :
        /\ bs[c].canPush <=> ~Occupied(bs, f, b, c, 0) /\ b # Pos(c, 0)
        /\ bs[c].popNext # 0
             <=> c = F /\ bs[c].pushEnd # Queue!kInvalidIndex /\ j > bs[c].pushEnd
        /\ bs[c].pushEnd # Queue!kInvalidIndex /\ c # F => ~bs[c].canPush
  BY <1>4 DEF Good, Marked
<1>8. \A c \in DOMAIN bs :
        /\ bs2[c].canPush <=> bs[c].canPush \/ (c = F /\ j = 0)
        /\ bs2[c].capacity = bs[c].capacity /\ bs2[c].next = bs[c].next
  BY <1>1, <1>3 DEF PoppedFrom
<1>9. \A c \in DOMAIN bs : \A i \in Indices(bs[c]) :
        i \in Nat /\ (Pos(c, i) = f <=> c = F /\ i = j)
  BY <1>1, <1>3 DEF Indices
<1>10. PICK n \in Nat : n = bs[F].next /\ f2 = Pos(n, 0) /\ f2.bucket = n /\ f2.index = 0
  <2>1. f2 = Queue!First(bs[F].next)
    BY <1>4 DEF Queue!Advance
  <2>2. bs[F].next \in Nat
    BY <1>5, BucketFacts
  <2> QED
    BY <1>2, <2>1, <2>2 DEF Queue!First, Pos
<1> HIDE DEF f2
<1>11. bs[F].pushEnd = j /\ F # B /\ bs[F].popNext = 0 /\ LastOf(bs[F]) = j
  <2>1. j # Queue!kInvalidIndex
    BY DEF Queue!kInvalidIndex
  <2>2. bs[F].pushEnd = j /\ ~(j > j)
    BY <1>4
  <2> QED
    BY <1>5, <1>7, <2>1, <2>2 DEF LastOf
<1>12. n \in DOMAIN bs /\ 0 \in Indices(bs[n]) /\ f2 # f /\ (n # B => Occupied(bs, f, b, n, 0))
  <2>1. InBuckets(bs, f2) /\ f2 # f /\ (f2 = b \/ Holds(ex, f2))
    BY PopFacts DEF f2
  <2>2. n \in DOMAIN bs /\ 0 \in Indices(bs[n]) /\ (n # B => Holds(ex, Pos(n, 0)))
    BY <1>4, <1>10, <2>1 DEF InBuckets
  <2> QED
    BY <2>1, <2>2 DEF Good, Placed
<1>13. n # F
  <2> SUFFICES ASSUME n = F PROVE FALSE
    OBVIOUS
  <2>1. j = 0
    BY <1>4, <1>11, <1>12 DEF Occupied
  <2> QED
    BY <1>1, <1>10, <1>12, <2>1
<1>14. n # B => ~bs[n].canPush /\ bs[n].popNext = 0
  BY <1>7, <1>12, <1>13
<1>15. bs2[F].canPush
  <2>1. CASE j = 0
    BY <1>5, <1>8, <2>1
  <2>2. CASE j # 0
    <3>1. ~Occupied(bs, f, b, F, 0) /\ b # Pos(F, 0)
      BY <1>1, <1>3, <1>4, <1>11, <2>2 DEF Occupied
    <3> QED
      BY <1>5, <1>7, <1>8, <3>1
  <2> QED
    BY <2>1, <2>2
<1>16. \A c \in DOMAIN bs : bs[c].popNext = 0
  BY <1>7, <1>11
<1>17. ASSUME NEW c \in DOMAIN bs, NEW i \in Indices(bs[c])
       PROVE  Occupied(bs2, f2, b, c, i) <=> Occupied(bs, f, b, c, i) /\ Pos(c, i) # f
  <2>1. /\ bs2[c].popNext = 0 /\ bs[c].popNext = 0 /\ (c # F => LastOf(bs2[c]) = LastOf(bs[c]))
        /\ i \in Nat /\ (Pos(c, i) = f <=> c = F /\ i = j)
        /\ bs2[c].canPush <=> bs[c].canPush \/ (c = F /\ j = 0)
    BY <1>4, <1>8, <1>9, <1>16 DEF LastOf
  <2>2. CASE c = F
    <3>1. Occupied(bs, f, b, c, i) <=> j <= i /\ i <= j
      BY <1>4, <1>11, <2>2 DEF Occupied
    <3>2. ~Occupied(bs2, f2, b, c, i)
      BY <1>4, <1>10, <1>11, <1>13, <1>15, <2>2 DEF Occupied
    <3> QED
      BY <2>1, <2>2, <3>1, <3>2
  <2>3. CASE c # F /\ c = n /\ n = B
    BY <1>4, <1>10, <2>1, <2>3 DEF Occupied
  <2>4. CASE c # F /\ c = n /\ n # B
    BY <1>4, <1>10, <1>14, <2>1, <2>4 DEF Occupied
  <2>5. CASE c # F /\ c # n
    BY <1>4, <1>10, <2>1, <2>5 DEF Occupied
  <2> QED
    BY <2>2, <2>3, <2>4, <2>5
<1>18. ASSUME NEW c \in DOMAIN bs
       PROVE  /\ bs2[c].popNext # 0
                   <=> /\ c = f2.bucket
                       /\ bs2[c].pushEnd # Queue!kInvalidIndex /\ f2.index > bs2[c].pushEnd
              /\ bs2[c].pushEnd # Queue!kInvalidIndex /\ c # f2.bucket => ~bs2[c].canPush
  <2>1. bs2[c].popNext = 0
    BY <1>16
  <2>2. bs2[c].pushEnd = IF c = F THEN Queue!kInvalidIndex ELSE bs[c].pushEnd
    BY <1>4
  <2>3. bs[c].pushEnd \in Int /\ bs[c].pushEnd >= -1
    BY BucketFacts
  <2>4. ~(bs2[c].pushEnd # Queue!kInvalidIndex /\ f2.index > bs2[c].pushEnd)
    BY <1>10, <2>2, <2>3 DEF Queue!kInvalidIndex
  <2>5. bs2[c].pushEnd # Queue!kInvalidIndex => ~bs2[c].canPush
    BY <1>7, <1>8, <2>2
  <2> QED
    BY <2>1, <2>4, <2>5
<1>19. ASSUME NEW m \in DOMAIN ex, ex[m].slot # f
       PROVE  Queue!Advance(bs2, ex[m].slot) = Queue!Advance(bs, ex[m].slot)
  <2> DEFINE s == ex[m].slot
  <2>1. InBuckets(bs, s) /\ s = Pos(s.bucket, s.index) /\ Occupied(bs, f, b, s.bucket, s.index)
        /\ s.index \in Nat
    BY GoodFacts
  <2>2. s # f
    BY <1>19
  <2> HIDE DEF s
  <2>3. s.bucket \in DOMAIN bs /\ s.bucket # F
    <3>1. s.bucket = F => s.index = j
      BY <1>4, <1>11, <2>1 DEF Occupied
    <3> QED
      BY <1>1, <2>1, <2>2, <3>1 DEF InBuckets
  <2>4. Queue!Advance(bs2, s) = Queue!Advance(bs, s)
    BY <1>4, <1>8, <2>3, AdvanceSame
  <2> QED
    BY <2>4 DEF s
<1>20. Len(ex) > 1 /\ b.index = 0 =>
         LastOf(bs2[bs[b.bucket].prev]) = LastOf(bs[bs[b.bucket].prev])
  <2> SUFFICES ASSUME Len(ex) > 1, k = 0
               PROVE  LastOf(bs2[bs[B].prev]) = LastOf(bs[bs[B].prev])
    BY <1>4
  <2> DEFINE p == bs[B].prev
  <2>1. ex[Len(ex)].slot = Pos(p, LastOf(bs[p])) /\ p \in DOMAIN bs
    BY <1>4, <1>5 DEF Good, EndsAt, WellMade
  <2>2. Len(ex) \in DOMAIN ex /\ 1 \in DOMAIN ex /\ Len(ex) # 1 /\ ex[1].slot = f
    BY GoodFacts, PopFacts
  <2>3. ex[Len(ex)].slot # f
    BY <2>2 DEF Good, Ordered
  <2> HIDE DEF p
  <2>4. p # F
    BY <1>1, <1>11, <2>1, <2>3
  <2>5. LastOf(bs2[p]) = LastOf(bs[p])
    BY <1>4, <1>8, <2>1, <2>4 DEF LastOf
  <2> QED
    BY <2>5 DEF p
<1>21. \A c \in DOMAIN bs :
         /\ bs2[c].pushEnd \in {bs[c].pushEnd, Queue!kInvalidIndex}
         /\ bs2[c].popNext \in {bs[c].popNext, 0}
  OBVIOUS
<1>22. FrontLeft(bs, f, b, ex, bs2, f2)
  BY <1>17, <1>18, <1>19, <1>20, <1>21 DEF FrontLeft
<1> QED
  BY <1>22, PopKeeps DEF f2

(* The element is in the last slot of its bucket: the next one is in the   *)
(* bucket where the round goes on, which is the first of the next round if *)
(* there is a mark.                                                        *)
LEMMA PopAtEnd ==
  ASSUME NEW bs, NEW f, NEW b, NEW ex, NEW bs2,
         Good(bs, f, b, ex), ex # <<>>, PoppedFrom(bs, f, b, ex, bs2, Queue!Advance(bs, f)),
         f.index # bs[f.bucket].pushEnd, f.index + 1 = bs[f.bucket].capacity,
         \A c \in DOMAIN bs :
           /\ bs2[c].pushEnd = bs[c].pushEnd
           /\ bs2[c].popNext = IF c = f.bucket THEN 0 ELSE bs[c].popNext
  PROVE  Good(bs2, Queue!Advance(bs, f), b, Tail(ex))
<1> DEFINE f2 == Queue!Advance(bs, f)
<1>1. PICK B \in Nat, k \in Nat, F \in Nat, j \in Nat : f = Pos(F, j) /\ b = Pos(B, k)
  BY GoodFacts, SMTT(30)
<1>2. \A m, i : Pos(m, i).bucket = m /\ Pos(m, i).index = i
  BY DEF Pos
<1>3. \A m, i, o, l : Pos(m, i) = Pos(o, l) <=> m = o /\ i = l
  BY <1>2
<1>4. /\ b.bucket = B /\ b.index = k /\ f.bucket = F /\ f.index = j
  BY <1>1, <1>2
<1>5. /\ B \in DOMAIN bs /\ F \in DOMAIN bs /\ f # b /\ bs[B].pushEnd = Queue!kInvalidIndex
      /\ j \in Indices(bs[F]) /\ Occupied(bs, f, b, F, j) /\ bs[F].capacity \in Nat \ {0}
  <2>1. f # b /\ Holds(ex, f)
    BY PopFacts
  <2>2. /\ B \in DOMAIN bs /\ F \in DOMAIN bs /\ bs[B].pushEnd = Queue!kInvalidIndex
        /\ j \in Indices(bs[F])
    BY <1>4 DEF Good, InBuckets, Marked
  <2>3. Occupied(bs, f, b, F, j)
    BY <1>1, <2>1, <2>2 DEF Good, Placed
  <2> QED
    BY <2>1, <2>2, <2>3, GoodFacts
<1>6. j < bs[F].capacity
  BY <1>5 DEF Indices
<1>7. \A c \in DOMAIN bs :
        /\ bs[c].canPush <=> ~Occupied(bs, f, b, c, 0) /\ b # Pos(c, 0)
        /\ bs[c].popNext # 0
             <=> c = F /\ bs[c].pushEnd # Queue!kInvalidIndex /\ j > bs[c].pushEnd
        /\ bs[c].pushEnd # Queue!kInvalidIndex /\ c # F => ~bs[c].canPush
  BY <1>4 DEF Good, Marked
<1>8. \A c \in DOMAIN bs :
        /\ bs2[c].canPush <=> bs[c].canPush \/ (c = F /\ j = 0)
        /\ bs2[c].capacity = bs[c].capacity /\ bs2[c].next = bs[c].next
  BY <1>1, <1>3 DEF PoppedFrom
<1>9. \A c \in DOMAIN bs : \A i \in Indices(bs[c]) :
        i \in Nat /\ (Pos(c, i) = f <=> c = F /\ i = j)
  BY <1>1, <1>3 DEF Indices
<1>10. PICK n \in Nat : /\ n = (IF bs[F].popNext # 0 THEN bs[F].popNext ELSE bs[F].next)
                       /\ f2 = Pos(n, 0) /\ f2.bucket = n /\ f2.index = 0
  <2>1. f2 = Queue!First(IF bs[F].popNext # 0 THEN bs[F].popNext ELSE bs[F].next)
    BY <1>4 DEF Queue!Advance
  <2>2. bs[F].next \in Nat /\ bs[F].popNext \in Nat
    BY <1>5, BucketFacts
  <2> QED
    BY <1>2, <2>1, <2>2 DEF Queue!First, Pos
<1> HIDE DEF f2
<1>11. bs[F].capacity = j + 1 /\ bs[F].pushEnd \in Int /\ bs[F].pushEnd < j /\ -1 <= bs[F].pushEnd
  <2>1. bs[F].capacity = j + 1
    BY <1>4
  <2> QED
    BY <1>5, <2>1, BucketFacts
<1>12. n \in DOMAIN bs /\ 0 \in Indices(bs[n]) /\ f2 # f /\ (n # B => Occupied(bs, f, b, n, 0))
  <2>1. InBuckets(bs, f2) /\ f2 # f /\ (f2 = b \/ Holds(ex, f2))
    BY PopFacts DEF f2
  <2>2. n \in DOMAIN bs /\ 0 \in Indices(bs[n]) /\ (n # B => Holds(ex, Pos(n, 0)))
    BY <1>4, <1>10, <2>1 DEF InBuckets
  <2> QED
    BY <2>1, <2>2 DEF Good, Placed
<1>13. bs[F].popNext = 0 <=> bs[F].pushEnd = Queue!kInvalidIndex
  BY <1>5, <1>7, <1>11
<1>14. bs[F].popNext # 0 => F # B /\ LastOf(bs[F]) = bs[F].pushEnd /\ 0 <= bs[F].pushEnd
  BY <1>5, <1>11, <1>13 DEF LastOf, Queue!kInvalidIndex
<1>15. bs[F].popNext = 0 => LastOf(bs[F]) = j
  BY <1>11, <1>13 DEF LastOf
<1>16. F = B => k < j
  <2> SUFFICES ASSUME F = B, ~(k < j) PROVE FALSE
    OBVIOUS
  <2>1. j < k
    BY <1>4, <1>5 DEF Occupied
  <2>2. k \in Indices(bs[B])
    BY <1>4 DEF Good, InBuckets
  <2> QED
    BY <1>5, <1>11, <2>1, <2>2 DEF Indices
<1>17. bs[F].popNext = 0 /\ F # B => n # F
  <2> SUFFICES ASSUME bs[F].popNext = 0, F # B, n = F PROVE FALSE
    OBVIOUS
  <2>1. j = 0
    BY <1>4, <1>12 DEF Occupied
  <2> QED
    BY <1>1, <1>10, <1>12, <2>1
<1>18. n # B /\ n # F => ~bs[n].canPush /\ bs[n].popNext = 0
  BY <1>7, <1>12
<1>19. F # B => (bs2[F].canPush <=> bs[F].popNext = 0)
  <2> SUFFICES ASSUME F # B PROVE bs2[F].canPush <=> bs[F].popNext = 0
    OBVIOUS
  <2>1. bs[F].canPush <=> ~Occupied(bs, f, b, F, 0)
    BY <1>1, <1>3, <1>5, <1>7
  <2>2. CASE bs[F].popNext = 0
    <3>1. Occupied(bs, f, b, F, 0) <=> j <= 0
      BY <1>4, <1>15, <2>2 DEF Occupied
    <3> QED
      BY <1>5, <1>8, <2>1, <2>2, <3>1
  <2>3. CASE bs[F].popNext # 0
    <3>1. Occupied(bs, f, b, F, 0) /\ j # 0
      BY <1>4, <1>11, <1>14, <2>3 DEF Occupied
    <3> QED
      BY <1>5, <1>8, <2>1, <2>3, <3>1
  <2> QED
    BY <2>2, <2>3
<1>20. \A c \in DOMAIN bs :
         /\ bs2[c].popNext = 0 /\ bs2[c].pushEnd = bs[c].pushEnd
         /\ LastOf(bs2[c]) = LastOf(bs[c]) /\ (c # F => bs[c].popNext = 0)
  BY <1>4, <1>7, <1>8 DEF LastOf
<1>21. ASSUME NEW c \in DOMAIN bs, NEW i \in Indices(bs[c])
       PROVE  Occupied(bs2, f2, b, c, i) <=> Occupied(bs, f, b, c, i) /\ Pos(c, i) # f
  <2>1. /\ bs2[c].popNext = 0 /\ bs2[c].pushEnd = bs[c].pushEnd
        /\ LastOf(bs2[c]) = LastOf(bs[c]) /\ (c # F => bs[c].popNext = 0)
        /\ i \in Nat /\ (Pos(c, i) = f <=> c = F /\ i = j)
        /\ bs2[c].canPush <=> bs[c].canPush \/ (c = F /\ j = 0)
        /\ bs2[c].capacity = bs[c].capacity
    BY <1>8, <1>9, <1>20
  <2>2. c = F => i <= j
    BY <1>11 DEF Indices
  <2>3. CASE c = F /\ F = B
    BY <1>4, <1>10, <1>16, <2>1, <2>2, <2>3 DEF Occupied
  <2>4. CASE c = F /\ F # B /\ bs[F].popNext = 0
    <3>1. Occupied(bs, f, b, c, i) <=> j <= i /\ i <= j
      BY <1>4, <1>15, <2>4 DEF Occupied
    <3>2. ~Occupied(bs2, f2, b, c, i)
      BY <1>4, <1>10, <1>17, <1>19, <2>4 DEF Occupied
    <3> QED
      BY <2>1, <2>4, <3>1, <3>2
  <2>5. CASE c = F /\ F # B /\ bs[F].popNext # 0
    <3>1. Occupied(bs, f, b, c, i) <=> i <= bs[F].pushEnd \/ j <= i
      BY <1>4, <2>5 DEF Occupied
    <3>2. Occupied(bs2, f2, b, c, i) <=> i <= bs[F].pushEnd
      BY <1>4, <1>10, <1>14, <1>19, <2>1, <2>5 DEF Occupied
    <3> QED
      BY <1>11, <2>1, <2>2, <2>5, <3>1, <3>2
  <2>6. CASE c # F /\ c = n /\ n = B
    BY <1>4, <1>10, <2>1, <2>6 DEF Occupied
  <2>7. CASE c # F /\ c = n /\ n # B
    BY <1>4, <1>10, <1>18, <2>1, <2>7 DEF Occupied
  <2>8. CASE c # F /\ c # n
    BY <1>4, <1>10, <2>1, <2>8 DEF Occupied
  <2> QED
    BY <2>3, <2>4, <2>5, <2>6, <2>7, <2>8
<1>22. ASSUME NEW c \in DOMAIN bs
       PROVE  /\ bs2[c].popNext # 0
                   <=> /\ c = f2.bucket
                       /\ bs2[c].pushEnd # Queue!kInvalidIndex /\ f2.index > bs2[c].pushEnd
              /\ bs2[c].pushEnd # Queue!kInvalidIndex /\ c # f2.bucket => ~bs2[c].canPush
  <2>1. bs2[c].popNext = 0 /\ bs2[c].pushEnd = bs[c].pushEnd
    BY <1>20
  <2>2. bs[c].pushEnd \in Int /\ bs[c].pushEnd >= -1
    BY BucketFacts
  <2>3. ~(bs2[c].pushEnd # Queue!kInvalidIndex /\ f2.index > bs2[c].pushEnd)
    BY <1>10, <2>1, <2>2 DEF Queue!kInvalidIndex
  <2>4. bs2[c].pushEnd # Queue!kInvalidIndex => ~bs2[c].canPush
    <3>1. CASE c = F
      BY <1>5, <1>13, <1>19, <2>1, <3>1
    <3>2. CASE c # F
      BY <1>7, <1>8, <2>1, <3>2
    <3> QED
      BY <3>1, <3>2
  <2> QED
    BY <2>1, <2>3, <2>4
<1>23. ASSUME NEW m \in DOMAIN ex, ex[m].slot # f
       PROVE  Queue!Advance(bs2, ex[m].slot) = Queue!Advance(bs, ex[m].slot)
  <2> DEFINE s == ex[m].slot
  <2>1. InBuckets(bs, s) /\ s = Pos(s.bucket, s.index) /\ s.index \in Nat
    BY GoodFacts
  <2>2. s # f
    BY <1>23
  <2> HIDE DEF s
  <2>3. s.bucket \in DOMAIN bs
    BY <2>1 DEF InBuckets
  <2>4. CASE s.bucket = F
    <3>1. s.index # j
      BY <1>1, <2>1, <2>2, <2>4
    <3>2. /\ s.index + 1 # bs[s.bucket].capacity /\ bs2[s.bucket].capacity = bs[s.bucket].capacity
          /\ bs2[s.bucket].pushEnd = bs[s.bucket].pushEnd
          /\ bs2[s.bucket].next = bs[s.bucket].next
      BY <1>8, <1>11, <1>20, <2>1, <2>3, <2>4, <3>1
    <3> QED
      BY <3>2 DEF Queue!Advance, s
  <2>5. CASE s.bucket # F
    <3>1. Queue!Advance(bs2, s) = Queue!Advance(bs, s)
      BY <1>4, <1>8, <2>3, <2>5, AdvanceSame
    <3> QED
      BY <3>1 DEF s
  <2> QED
    BY <2>4, <2>5
<1>24. bs[B].prev \in DOMAIN bs
  BY <1>5 DEF Good, WellMade
<1>25. \A c \in DOMAIN bs :
         /\ bs2[c].pushEnd \in {bs[c].pushEnd, Queue!kInvalidIndex}
         /\ bs2[c].popNext \in {bs[c].popNext, 0}
  OBVIOUS
<1>26. FrontLeft(bs, f, b, ex, bs2, f2)
  BY <1>4, <1>20, <1>21, <1>22, <1>23, <1>24, <1>25 DEF FrontLeft
<1> QED
  BY <1>26, PopKeeps DEF f2

-----------------------------------------------------------------------------
(* The actions on the buckets.                                             *)

(* A slot of a bucket gets a value.                                        *)
DataAt(bs, c, i, v, bs2) ==
  /\ bs2 \in Seq(BucketTypes) /\ DOMAIN bs2 = DOMAIN bs
  /\ \A g \in DOMAIN bs :
       /\ bs2[g].canPush = bs[g].canPush /\ bs2[g].capacity = bs[g].capacity
       /\ bs2[g].next = bs[g].next /\ bs2[g].prev = bs[g].prev
       /\ bs2[g].pushEnd = bs[g].pushEnd /\ bs2[g].popNext = bs[g].popNext
       /\ DOMAIN bs2[g].data = DOMAIN bs[g].data
       /\ \A j \in DOMAIN bs[g].data :
            bs2[g].data[j] = IF g = c /\ j = i THEN v ELSE bs[g].data[j]

LEMMA DataSet ==
  ASSUME NEW bs \in Seq(BucketTypes), NEW c \in DOMAIN bs, NEW i \in DOMAIN bs[c].data,
         NEW v \in Int, NEW bs2, bs2 = [bs EXCEPT ![c].data[i] = v]
  PROVE  DataAt(bs, c, i, v, bs2)
<1> DEFINE new == [bs[c] EXCEPT !.data = [bs[c].data EXCEPT ![i] = v]]
<1>1. bs[c] \in BucketTypes /\ c \in 1 .. Len(bs) /\ DOMAIN bs = 1 .. Len(bs)
  OBVIOUS
<1>2. PICK n \in Nat : bs[c].data \in [0 .. n - 1 -> Int]
  BY <1>1 DEF BucketTypes
<1>3. /\ [bs[c].data EXCEPT ![i] = v] \in [0 .. n - 1 -> Int]
      /\ \A j \in DOMAIN bs[c].data :
           [bs[c].data EXCEPT ![i] = v][j] = IF j = i THEN v ELSE bs[c].data[j]
  BY <1>2
<1>4. [bs[c].data EXCEPT ![i] = v] \in UNION {[0 .. m - 1 -> Int] : m \in Nat}
  BY <1>2, <1>3
<1> DEFINE d == [bs[c].data EXCEPT ![i] = v]
<1>5. DOMAIN d = DOMAIN bs[c].data
  OBVIOUS
<1> HIDE DEF d
<1>6. /\ [bs[c] EXCEPT !.data = d] \in BucketTypes
      /\ [bs[c] EXCEPT !.data = d].data = d
      /\ [bs[c] EXCEPT !.data = d].canPush = bs[c].canPush
      /\ [bs[c] EXCEPT !.data = d].capacity = bs[c].capacity
      /\ [bs[c] EXCEPT !.data = d].next = bs[c].next
      /\ [bs[c] EXCEPT !.data = d].prev = bs[c].prev
      /\ [bs[c] EXCEPT !.data = d].pushEnd = bs[c].pushEnd
      /\ [bs[c] EXCEPT !.data = d].popNext = bs[c].popNext
  <2>1. d \in UNION {[0 .. m - 1 -> Int] : m \in Nat}
    BY <1>4 DEF d
  <2> QED
    BY <1>1, <2>1 DEF BucketTypes
<1>7. /\ new = [bs[c] EXCEPT !.data = d] /\ bs2 = [bs EXCEPT ![c] = new]
  BY DEF d
<1> HIDE DEF new
<1>8. /\ bs2 \in Seq(BucketTypes) /\ DOMAIN bs2 = DOMAIN bs
      /\ \A g \in DOMAIN bs : bs2[g] = IF g = c THEN new ELSE bs[g]
  BY <1>1, <1>6, <1>7, SMTT(30)
<1>9. ASSUME NEW g \in DOMAIN bs
      PROVE  /\ bs2[g].canPush = bs[g].canPush /\ bs2[g].capacity = bs[g].capacity
             /\ bs2[g].next = bs[g].next /\ bs2[g].prev = bs[g].prev
             /\ bs2[g].pushEnd = bs[g].pushEnd /\ bs2[g].popNext = bs[g].popNext
             /\ DOMAIN bs2[g].data = DOMAIN bs[g].data
             /\ \A j \in DOMAIN bs[g].data :
                  bs2[g].data[j] = IF g = c /\ j = i THEN v ELSE bs[g].data[j]
  <2>1. CASE g = c
    <3>1. \A j \in DOMAIN bs[c].data : d[j] = IF j = i THEN v ELSE bs[c].data[j]
      BY <1>3 DEF d
    <3>2. /\ new.data = d /\ new.canPush = bs[c].canPush
          /\ new.capacity = bs[c].capacity
          /\ new.next = bs[c].next /\ new.prev = bs[c].prev
          /\ new.pushEnd = bs[c].pushEnd /\ new.popNext = bs[c].popNext
      BY <1>6, <1>7
    <3>3. bs2[g] = new
      BY <1>8, <2>1
    <3> QED
      BY <1>5, <2>1, <3>1, <3>2, <3>3
  <2>2. CASE g # c
    BY <1>8, <2>2
  <2> QED
    BY <2>1, <2>2
<1> QED
  BY <1>8, <1>9 DEF DataAt

LEMMA NewBucketFacts ==
  ASSUME NEW n \in Nat, NEW slots \in Nat
  PROVE  LET b == Queue!NewBucket(n, slots)
         IN /\ b \in BucketTypes
            /\ ~b.canPush /\ b.capacity = slots /\ b.next = n /\ b.prev = n
            /\ b.pushEnd = Queue!kInvalidIndex /\ b.popNext = 0 /\ DOMAIN b.data = Indices(b)
            /\ \A i \in Indices(b) : b.data[i] = Queue!Raw
<1> DEFINE d == [i \in 0 .. slots - 1 |-> Queue!Raw]
<1>1. d \in [0 .. slots - 1 -> Int] /\ DOMAIN d = 0 .. slots - 1
      /\ \A i \in 0 .. slots - 1 : d[i] = Queue!Raw
  BY DEF Queue!Raw
<1>2. d \in UNION {[0 .. m - 1 -> Int] : m \in Nat}
  BY <1>1
<1> HIDE DEF d
<1>3. Queue!NewBucket(n, slots) =
        [canPush |-> FALSE, capacity |-> slots, next |-> n, prev |-> n,
         pushEnd |-> Queue!kInvalidIndex, popNext |-> 0, data |-> d]
  BY DEF Queue!NewBucket, d
<1>4. Queue!NewBucket(n, slots) \in BucketTypes
  BY <1>2, <1>3 DEF BucketTypes, Queue!kInvalidIndex
<1>5. LET b == Queue!NewBucket(n, slots)
      IN /\ ~b.canPush /\ b.capacity = slots /\ b.next = n /\ b.prev = n
         /\ b.pushEnd = Queue!kInvalidIndex /\ b.popNext = 0 /\ b.data = d
  BY <1>3
<1> QED
  BY <1>1, <1>4, <1>5 DEF Indices

(* A bucket was added, and what it was added after may be marked.          *)
Grown(bs, p, bs1, slots) ==
  LET n == Len(bs) + 1
  IN /\ bs1 \in Seq(BucketTypes) /\ DOMAIN bs1 = DOMAIN bs \cup {n}
     /\ n \in Nat \ {0} /\ n \notin DOMAIN bs
     /\ \A c \in DOMAIN bs :
          /\ bs1[c].canPush <=> bs[c].canPush
          /\ bs1[c].capacity = bs[c].capacity /\ bs1[c].data = bs[c].data
          /\ bs1[c].next = IF c = p THEN n ELSE bs[c].next
          /\ bs1[c].prev = IF c = bs[p].next THEN n ELSE bs[c].prev
          /\ c # p => bs1[c].pushEnd = bs[c].pushEnd /\ bs1[c].popNext = bs[c].popNext
     /\ bs1[n].capacity = slots
     /\ bs1[n].next = bs[p].next /\ bs1[n].prev = p
     /\ bs1[n].pushEnd = Queue!kInvalidIndex /\ bs1[n].popNext = 0
     /\ DOMAIN bs1[n].data = Indices(bs1[n])
     /\ \A i \in Indices(bs1[n]) : bs1[n].data[i] = Queue!Raw

LEMMA AddBucketFacts ==
  ASSUME NEW bs \in Seq(BucketTypes), NEW p \in DOMAIN bs, bs[p].next \in DOMAIN bs,
         NEW slots \in Nat \ {0}, NEW bs2, bs2 = Queue!AddBucket(bs, p, slots)
  PROVE  /\ Grown(bs, p, bs2, slots)
         /\ bs2[p].pushEnd = bs[p].pushEnd /\ bs2[p].popNext = bs[p].popNext
<1> DEFINE n == Len(bs) + 1
           x == bs[p].next
           a == Queue!NewBucket(n, slots)
           new == [a EXCEPT !.next = x, !.prev = p]
           b1 == Append(bs, new)
           b2 == [b1 EXCEPT ![x].prev = n]
           b3 == [b2 EXCEPT ![p].next = n]
<1>1. /\ Len(bs) \in Nat /\ DOMAIN bs = 1 .. Len(bs) /\ p \in Nat /\ x \in Nat
      /\ n \in Nat \ {0} /\ n \notin DOMAIN bs /\ x \in DOMAIN bs
  OBVIOUS
<1>2. /\ a \in BucketTypes
      /\ ~a.canPush /\ a.capacity = slots
      /\ a.pushEnd = Queue!kInvalidIndex /\ a.popNext = 0 /\ DOMAIN a.data = Indices(a)
      /\ \A i \in Indices(a) : a.data[i] = Queue!Raw
  BY <1>1, NewBucketFacts
<1>3. bs2 = b3
  BY DEF Queue!AddBucket
<1> HIDE DEF a, x
<1>4. /\ new \in BucketTypes
      /\ ~new.canPush /\ new.capacity = slots /\ new.next = x /\ new.prev = p
      /\ new.pushEnd = Queue!kInvalidIndex /\ new.popNext = 0 /\ DOMAIN new.data = Indices(new)
      /\ \A i \in Indices(new) : new.data[i] = Queue!Raw
  BY <1>1, <1>2 DEF BucketTypes, Indices
<1> HIDE DEF new
<1>5. /\ b1 \in Seq(BucketTypes) /\ Len(b1) = n /\ DOMAIN b1 = 1 .. n
      /\ \A c \in DOMAIN bs : b1[c] = bs[c]
      /\ b1[n] = new
  BY <1>1, <1>4
<1>6. DOMAIN b1 = DOMAIN bs \cup {n}
  BY <1>1, <1>5
<1> HIDE DEF b1
<1>7. /\ b2 \in Seq(BucketTypes) /\ Len(b2) = n /\ DOMAIN b2 = DOMAIN b1
      /\ \A c \in DOMAIN b1 :
           b2[c] = IF c = x THEN [b1[c] EXCEPT !.prev = n] ELSE b1[c]
  <2>1. b1[x] \in BucketTypes /\ x \in DOMAIN b1
    BY <1>1, <1>5, <1>6
  <2>2. [b1[x] EXCEPT !.prev = n] \in BucketTypes
    BY <1>1, <2>1 DEF BucketTypes
  <2> QED
    BY <1>5, <2>1, <2>2
<1> HIDE DEF b2
<1>8. /\ b3 \in Seq(BucketTypes) /\ Len(b3) = n /\ DOMAIN b3 = DOMAIN b1
      /\ \A c \in DOMAIN b1 :
           b3[c] = IF c = p THEN [b2[c] EXCEPT !.next = n] ELSE b2[c]
  <2>1. b2[p] \in BucketTypes /\ p \in DOMAIN b2
    BY <1>1, <1>5, <1>6, <1>7
  <2>2. [b2[p] EXCEPT !.next = n] \in BucketTypes
    BY <1>1, <2>1 DEF BucketTypes
  <2> QED
    BY <1>5, <1>7, <2>1, <2>2
<1> HIDE DEF b3
<1>9. ASSUME NEW c \in DOMAIN bs
      PROVE  /\ b3[c].canPush = bs[c].canPush /\ b3[c].capacity = bs[c].capacity
             /\ b3[c].next = IF c = p THEN n ELSE bs[c].next
             /\ b3[c].prev = IF c = x THEN n ELSE bs[c].prev
             /\ b3[c].pushEnd = bs[c].pushEnd /\ b3[c].popNext = bs[c].popNext
             /\ b3[c].data = bs[c].data
  <2>1. c \in DOMAIN b1 /\ b1[c] = bs[c] /\ b1[c] \in BucketTypes
    BY <1>5, <1>6
  <2>2. /\ b2[c] \in BucketTypes
        /\ b2[c] = IF c = x THEN [bs[c] EXCEPT !.prev = n] ELSE bs[c]
    BY <1>7, <2>1
  <2>3. b3[c] = IF c = p THEN [b2[c] EXCEPT !.next = n] ELSE b2[c]
    BY <1>8, <2>1
  <2>4. /\ b2[c].canPush = bs[c].canPush /\ b2[c].capacity = bs[c].capacity
        /\ b2[c].next = bs[c].next
        /\ b2[c].prev = IF c = x THEN n ELSE bs[c].prev
        /\ b2[c].pushEnd = bs[c].pushEnd /\ b2[c].popNext = bs[c].popNext
        /\ b2[c].data = bs[c].data
    BY <2>1, <2>2 DEF BucketTypes
  <2> QED
    BY <2>2, <2>3, <2>4 DEF BucketTypes
<1>10. b3[n] = new
  BY <1>1, <1>5, <1>6, <1>7, <1>8
<1>11. DOMAIN b3 = DOMAIN bs \cup {n}
  BY <1>6, <1>8
<1>12. bs2[p].pushEnd = bs[p].pushEnd /\ bs2[p].popNext = bs[p].popNext
  BY <1>3, <1>9
<1>13. Grown(bs, p, b3, slots)
  BY <1>1, <1>4, <1>8, <1>9, <1>10, <1>11 DEF x, Grown
<1> QED
  BY <1>3, <1>12, <1>13

(* A bucket may not be entered any more.                                   *)
Closed(bs, n, bs2) ==
  /\ bs2 \in Seq(BucketTypes) /\ DOMAIN bs2 = DOMAIN bs
  /\ \A g \in DOMAIN bs :
       /\ bs2[g].canPush <=> g # n /\ bs[g].canPush
       /\ bs2[g].capacity = bs[g].capacity
       /\ bs2[g].next = bs[g].next /\ bs2[g].prev = bs[g].prev
       /\ bs2[g].pushEnd = bs[g].pushEnd /\ bs2[g].popNext = bs[g].popNext
       /\ bs2[g].data = bs[g].data

LEMMA CanPushCleared ==
  ASSUME NEW bs \in Seq(BucketTypes), NEW n \in DOMAIN bs,
         NEW bs2, bs2 = [bs EXCEPT ![n].canPush = FALSE]
  PROVE  Closed(bs, n, bs2)
<1>1. bs[n] \in BucketTypes
  OBVIOUS
<1>2. [bs[n] EXCEPT !.canPush = FALSE] \in BucketTypes
  BY <1>1 DEF BucketTypes
<1>3. /\ bs2 \in Seq(BucketTypes) /\ DOMAIN bs2 = DOMAIN bs
      /\ \A g \in DOMAIN bs :
           bs2[g] = IF g = n THEN [bs[n] EXCEPT !.canPush = FALSE] ELSE bs[g]
  BY <1>2
<1>4. ASSUME NEW g \in DOMAIN bs
      PROVE  /\ bs2[g].canPush <=> g # n /\ bs[g].canPush
             /\ bs2[g].capacity = bs[g].capacity
             /\ bs2[g].next = bs[g].next /\ bs2[g].prev = bs[g].prev
             /\ bs2[g].pushEnd = bs[g].pushEnd /\ bs2[g].popNext = bs[g].popNext
             /\ bs2[g].data = bs[g].data
  BY <1>1, <1>3 DEF BucketTypes
<1> QED
  BY <1>3, <1>4 DEF Closed

(* The marks of a bucket that is full before its end.                      *)
MarkedWith(bs, c, p, e, bs2) ==
  /\ bs2 \in Seq(BucketTypes) /\ DOMAIN bs2 = DOMAIN bs
  /\ \A g \in DOMAIN bs :
       /\ bs2[g].canPush <=> bs[g].canPush
       /\ bs2[g].capacity = bs[g].capacity
       /\ bs2[g].next = bs[g].next /\ bs2[g].prev = bs[g].prev
       /\ bs2[g].pushEnd = IF g = c THEN e ELSE bs[g].pushEnd
       /\ bs2[g].popNext = IF g = c THEN p ELSE bs[g].popNext
       /\ bs2[g].data = bs[g].data

LEMMA MarksSet ==
  ASSUME NEW bs \in Seq(BucketTypes), NEW c \in DOMAIN bs, NEW p \in Nat, NEW e \in Int,
         NEW bs2, bs2 = [bs EXCEPT ![c].popNext = p, ![c].pushEnd = e]
  PROVE  MarkedWith(bs, c, p, e, bs2)
<1> DEFINE new == [bs[c] EXCEPT !.popNext = p, !.pushEnd = e]
<1>1. bs[c] \in BucketTypes
  OBVIOUS
<1>2. /\ new \in BucketTypes
      /\ new.canPush = bs[c].canPush /\ new.capacity = bs[c].capacity
      /\ new.next = bs[c].next /\ new.prev = bs[c].prev
      /\ new.pushEnd = e /\ new.popNext = p /\ new.data = bs[c].data
  BY <1>1 DEF BucketTypes
<1> DEFINE y == [bs EXCEPT ![c] = new]
<1>3. bs2 = y
  OBVIOUS
<1> HIDE DEF new
<1>4. /\ y \in Seq(BucketTypes) /\ DOMAIN y = DOMAIN bs
      /\ \A g \in DOMAIN bs : y[g] = IF g = c THEN new ELSE bs[g]
  BY <1>2
<1> HIDE DEF y
<1>5. ASSUME NEW g \in DOMAIN bs
      PROVE  /\ bs2[g].canPush <=> bs[g].canPush
             /\ bs2[g].capacity = bs[g].capacity
             /\ bs2[g].next = bs[g].next /\ bs2[g].prev = bs[g].prev
             /\ bs2[g].pushEnd = IF g = c THEN e ELSE bs[g].pushEnd
             /\ bs2[g].popNext = IF g = c THEN p ELSE bs[g].popNext
             /\ bs2[g].data = bs[g].data
  BY <1>2, <1>3, <1>4
<1> QED
  BY <1>3, <1>4, <1>5 DEF MarkedWith

(* The slots are the same, or those of a bucket more.                      *)
SameSlots(bs, bs2) ==
  DOMAIN bs2 = DOMAIN bs /\ \A c \in DOMAIN bs : bs2[c].capacity = bs[c].capacity
MoreSlots(bs, bs2, slots) ==
  /\ DOMAIN bs2 = DOMAIN bs \cup {Len(bs) + 1}
  /\ \A c \in DOMAIN bs : bs2[c].capacity = bs[c].capacity
  /\ bs2[Len(bs) + 1].capacity = slots

(* What Push makes of the buckets.                                         *)
AfterPush(s, v) ==
  LET next == Queue!NextBack(s)
      filled == [next.buckets EXCEPT ![s.back.bucket].data[s.back.index] = v]
  IN IF next.back.index = 0
     THEN [filled EXCEPT ![next.back.bucket].canPush = FALSE]
     ELSE filled

LEMMA KeptBy ==
  ASSUME NEW bs, NEW bs2, NEW b, NEW v,
         \A c \in DOMAIN bs : DOMAIN bs[c].data = Indices(bs[c]),
         \A c \in DOMAIN bs :
           /\ bs2[c].capacity = bs[c].capacity
           /\ DOMAIN bs2[c].data = DOMAIN bs[c].data
           /\ \A j \in DOMAIN bs[c].data :
                bs2[c].data[j] = IF c = b.bucket /\ j = b.index THEN v ELSE bs[c].data[j],
         b = Pos(b.bucket, b.index)
  PROVE  Kept(bs, bs2, b, v)
<1>1. \A c, i : Pos(c, i) = b <=> c = b.bucket /\ i = b.index
  <2>1. \A c, i : Pos(c, i).bucket = c /\ Pos(c, i).index = i
    BY DEF Pos
  <2> QED
    BY <2>1
<1> QED
  BY <1>1 DEF Kept

(* Where the next element goes, and the buckets it goes into.              *)
LEMMA BackFacts ==
  ASSUME NEW bs, NEW f, NEW b, NEW ex, Good(bs, f, b, ex)
  PROVE  /\ b.bucket \in DOMAIN bs /\ b.index \in Nat
         /\ b.index + 1 <= bs[b.bucket].capacity
         /\ b = Pos(b.bucket, b.index) /\ bs[b.bucket].capacity \in Nat \ {0}
         /\ bs \in Seq(BucketTypes) /\ bs[b.bucket].next \in DOMAIN bs
         /\ b.index \in DOMAIN bs[b.bucket].data
         /\ \A c \in DOMAIN bs : DOMAIN bs[c].data = Indices(bs[c])
<1>1. b.bucket \in DOMAIN bs /\ b.index \in Indices(bs[b.bucket])
  BY DEF Good, InBuckets
<1>2. b.index \in Nat /\ b = Pos(b.bucket, b.index) /\ bs[b.bucket].capacity \in Nat \ {0}
  BY <1>1, GoodFacts
<1>3. /\ bs \in Seq(BucketTypes) /\ bs[b.bucket].next \in DOMAIN bs
      /\ \A c \in DOMAIN bs : DOMAIN bs[c].data = Indices(bs[c])
  BY <1>1 DEF Good, WellMade
<1>4. b.index + 1 <= bs[b.bucket].capacity
  BY <1>1, <1>2 DEF Indices
<1> QED
  BY <1>1, <1>2, <1>3, <1>4

LEMMA NextSlot ==
  ASSUME NEW b, b = Pos(b.bucket, b.index)
  PROVE  [b EXCEPT !.index = @ + 1] = Pos(b.bucket, b.index + 1)
<1>1. PICK m, i : b = Pos(m, i) /\ m = b.bucket /\ i = b.index
  OBVIOUS
<1>2. [Pos(m, i) EXCEPT !.index = @ + 1] = Pos(m, i + 1)
  BY DEF Pos
<1> QED
  BY <1>1, <1>2

LEMMA PositionFacts ==
  ASSUME NEW m, NEW i
  PROVE  Pos(m, i).bucket = m /\ Pos(m, i).index = i /\ Queue!First(m) = Pos(m, 0)
BY DEF Pos, Queue!First

LEMMA PushesWithin ==
  ASSUME NEW bs, NEW f, NEW b, NEW s, s.buckets = bs, s.front = f, s.back = b,
         NEW ex, NEW v \in Int, Good(bs, f, b, ex),
         b.index + 1 # bs[b.bucket].capacity, f # [b EXCEPT !.index = @ + 1]
  PROVE  /\ ~Queue!NextBack(s).grows
         /\ Good(AfterPush(s, v), f, Queue!NextBack(s).back,
                 Append(ex, [slot |-> b, value |-> v]))
         /\ SameSlots(bs, AfterPush(s, v))
<1> DEFINE b2 == Pos(b.bucket, b.index + 1)
           bs2 == [bs EXCEPT ![b.bucket].data[b.index] = v]
<1>1. /\ b.bucket \in DOMAIN bs /\ b.index \in Nat
      /\ b.index + 1 <= bs[b.bucket].capacity
      /\ b = Pos(b.bucket, b.index) /\ bs[b.bucket].capacity \in Nat \ {0}
      /\ bs \in Seq(BucketTypes) /\ b.index \in DOMAIN bs[b.bucket].data
      /\ \A c \in DOMAIN bs : DOMAIN bs[c].data = Indices(bs[c])
  BY BackFacts
<1>2. b2.index # 0 /\ [b EXCEPT !.index = @ + 1] = b2
  BY <1>1, PositionFacts, NextSlot
<1> HIDE DEF b2
<1>3. Queue!NextBack(s).grows = FALSE /\ Queue!NextBack(s).buckets = bs /\ Queue!NextBack(s).back = b2
  BY <1>1, <1>2 DEF Queue!NextBack
<1>4. AfterPush(s, v) = bs2
  BY <1>2, <1>3 DEF AfterPush
<1>5. /\ bs2 \in Seq(BucketTypes) /\ DOMAIN bs2 = DOMAIN bs
      /\ \A g \in DOMAIN bs :
           /\ bs2[g].canPush = bs[g].canPush /\ bs2[g].capacity = bs[g].capacity
           /\ bs2[g].next = bs[g].next /\ bs2[g].prev = bs[g].prev
           /\ bs2[g].pushEnd = bs[g].pushEnd /\ bs2[g].popNext = bs[g].popNext
           /\ DOMAIN bs2[g].data = DOMAIN bs[g].data
           /\ \A j \in DOMAIN bs[g].data :
                bs2[g].data[j] = IF g = b.bucket /\ j = b.index THEN v ELSE bs[g].data[j]
  <2>1. DataAt(bs, b.bucket, b.index, v, bs2)
    BY <1>1, DataSet
  <2> QED
    BY <2>1 DEF DataAt
<1> HIDE DEF bs2
<1>6. Kept(bs, bs2, b, v)
  BY <1>1, <1>5, KeptBy
<1>7. Good(bs2, f, b2, Append(ex, [slot |-> b, value |-> v]))
  <2>1. b.index + 1 < bs[b.bucket].capacity
    BY <1>1
  <2>2. f # Pos(b.bucket, b.index + 1)
    BY <1>2 DEF b2
  <2> QED
    BY <1>5, <1>6, <2>1, <2>2, PushWithin DEF b2
<1> QED
  BY <1>3, <1>4, <1>5, <1>7 DEF SameSlots

(* The slot after the last one of a bucket is not the front.               *)
LEMMA FrontElsewhere ==
  ASSUME NEW bs, NEW f, NEW b, NEW ex, Good(bs, f, b, ex),
         b.index + 1 = bs[b.bucket].capacity
  PROVE  f # [b EXCEPT !.index = @ + 1]
<1>1. b = Pos(b.bucket, b.index) /\ bs[b.bucket].capacity \in Nat
  BY BackFacts
<1>2. f \in [bucket : Nat, index : Nat] /\ f.index \in Indices(bs[f.bucket])
  BY DEF Good, InBuckets
<1>3. f # Pos(b.bucket, b.index + 1)
  BY <1>1, <1>2, PositionFacts DEF Indices
<1> QED
  BY <1>1, <1>3, NextSlot

LEMMA PushesOn ==
  ASSUME NEW bs, NEW f, NEW b, NEW s, s.buckets = bs, s.front = f, s.back = b,
         NEW ex, NEW v \in Int, Good(bs, f, b, ex),
         b.index + 1 = bs[b.bucket].capacity, Queue!MayEnter(bs[bs[b.bucket].next])
  PROVE  /\ ~Queue!NextBack(s).grows
         /\ Good(AfterPush(s, v), f, Queue!NextBack(s).back,
                 Append(ex, [slot |-> b, value |-> v]))
         /\ SameSlots(bs, AfterPush(s, v))
<1> DEFINE n == bs[b.bucket].next
           bs1 == [bs EXCEPT ![b.bucket].data[b.index] = v]
           bs2 == [bs1 EXCEPT ![n].canPush = FALSE]
<1>1. /\ b.bucket \in DOMAIN bs /\ b.index \in Nat
      /\ b = Pos(b.bucket, b.index)
      /\ bs \in Seq(BucketTypes) /\ n \in DOMAIN bs /\ b.index \in DOMAIN bs[b.bucket].data
      /\ \A c \in DOMAIN bs : DOMAIN bs[c].data = Indices(bs[c])
  BY BackFacts
<1>2. Queue!First(n) = Pos(n, 0) /\ Queue!First(n).index = 0 /\ Queue!First(n).bucket = n
  BY PositionFacts
<1>3. Queue!MayEnter(bs[n])
  OBVIOUS
<1>4. Queue!NextBack(s).grows = FALSE /\ Queue!NextBack(s).buckets = bs /\ Queue!NextBack(s).back = Queue!First(n)
  BY <1>3, FrontElsewhere DEF Queue!NextBack
<1> HIDE DEF n
<1>5. AfterPush(s, v) = bs2
  BY <1>2, <1>4 DEF AfterPush
<1>6. /\ bs1 \in Seq(BucketTypes) /\ DOMAIN bs1 = DOMAIN bs
      /\ \A g \in DOMAIN bs :
           /\ bs1[g].canPush = bs[g].canPush /\ bs1[g].capacity = bs[g].capacity
           /\ bs1[g].next = bs[g].next /\ bs1[g].prev = bs[g].prev
           /\ bs1[g].pushEnd = bs[g].pushEnd /\ bs1[g].popNext = bs[g].popNext
           /\ DOMAIN bs1[g].data = DOMAIN bs[g].data
           /\ \A j \in DOMAIN bs[g].data :
                bs1[g].data[j] = IF g = b.bucket /\ j = b.index THEN v ELSE bs[g].data[j]
  <2>1. DataAt(bs, b.bucket, b.index, v, bs1)
    BY <1>1, DataSet
  <2> QED
    BY <2>1 DEF DataAt
<1> HIDE DEF bs1
<1>7. /\ bs2 \in Seq(BucketTypes) /\ DOMAIN bs2 = DOMAIN bs1
      /\ \A g \in DOMAIN bs1 :
           /\ bs2[g].canPush <=> g # n /\ bs1[g].canPush
           /\ bs2[g].capacity = bs1[g].capacity
           /\ bs2[g].next = bs1[g].next /\ bs2[g].prev = bs1[g].prev
           /\ bs2[g].pushEnd = bs1[g].pushEnd /\ bs2[g].popNext = bs1[g].popNext
           /\ bs2[g].data = bs1[g].data
  <2>1. Closed(bs1, n, bs2)
    BY <1>1, <1>6, CanPushCleared
  <2> QED
    BY <2>1 DEF Closed
<1> HIDE DEF bs2
<1>8. Kept(bs, bs2, b, v)
  <2>1. \A c \in DOMAIN bs :
           /\ bs2[c].capacity = bs[c].capacity
           /\ DOMAIN bs2[c].data = DOMAIN bs[c].data
           /\ \A j \in DOMAIN bs[c].data :
                bs2[c].data[j] = IF c = b.bucket /\ j = b.index THEN v ELSE bs[c].data[j]
    BY <1>6, <1>7
  <2> QED
    BY <1>1, <2>1, KeptBy
<1>9. DOMAIN bs2 = DOMAIN bs /\ \A c \in DOMAIN bs :
        /\ bs2[c].canPush <=> c # n /\ bs[c].canPush
        /\ bs2[c].next = bs[c].next /\ bs2[c].prev = bs[c].prev
        /\ bs2[c].pushEnd = bs[c].pushEnd /\ bs2[c].popNext = bs[c].popNext
        /\ bs2[c].capacity = bs[c].capacity
  BY <1>6, <1>7
<1>10. n = bs[b.bucket].next
  BY DEF n
<1>11. Good(bs2, f, Pos(n, 0), Append(ex, [slot |-> b, value |-> v]))
  BY <1>3, <1>7, <1>8, <1>9, <1>10, PushEnters
<1> QED
  BY <1>2, <1>4, <1>5, <1>9, <1>11 DEF SameSlots

(* The slot at the back is filled, and the new bucket is entered.          *)
FilledAfter(bs, b, v, bs1, bs2) ==
  bs2 = [[bs1 EXCEPT ![b.bucket].data[b.index] = v] EXCEPT ![Len(bs) + 1].canPush = FALSE]

LEMMA GrownFilled ==
  ASSUME NEW bs, NEW f, NEW b, NEW ex, Good(bs, f, b, ex), NEW v \in Int,
         NEW slots \in Nat \ {0}, NEW bs1, Grown(bs, b.bucket, bs1, slots),
         NEW bs2, FilledAfter(bs, b, v, bs1, bs2)
  PROVE  /\ AddedAfter(bs, b, bs[b.bucket].next, bs2, Len(bs) + 1)
         /\ Kept(bs, bs2, b, v) /\ MoreSlots(bs, bs2, slots)
         /\ bs2[b.bucket].pushEnd = bs1[b.bucket].pushEnd
         /\ bs2[b.bucket].popNext = bs1[b.bucket].popNext
<1> DEFINE B == b.bucket
           n == Len(bs) + 1
           x == [bs1 EXCEPT ![B].data[b.index] = v]
<1>0. bs2 = [x EXCEPT ![n].canPush = FALSE]
  BY DEF FilledAfter
<1>1. /\ B \in DOMAIN bs /\ b = Pos(B, b.index) /\ b.index \in DOMAIN bs[B].data
      /\ \A c \in DOMAIN bs : DOMAIN bs[c].data = Indices(bs[c])
  BY BackFacts
<1>2. /\ bs1 \in Seq(BucketTypes) /\ DOMAIN bs1 = DOMAIN bs \cup {n}
      /\ n \in Nat \ {0} /\ n \notin DOMAIN bs /\ B # n
  BY <1>1 DEF Grown
<1>3. \A c \in DOMAIN bs :
        /\ bs1[c].canPush <=> bs[c].canPush
        /\ bs1[c].capacity = bs[c].capacity /\ bs1[c].data = bs[c].data
        /\ bs1[c].next = IF c = B THEN n ELSE bs[c].next
        /\ bs1[c].prev = IF c = bs[B].next THEN n ELSE bs[c].prev
        /\ c # B => bs1[c].pushEnd = bs[c].pushEnd /\ bs1[c].popNext = bs[c].popNext
  BY DEF Grown
<1>4. /\ bs1[n].capacity = slots
      /\ bs1[n].next = bs[B].next /\ bs1[n].prev = B
      /\ bs1[n].pushEnd = Queue!kInvalidIndex /\ bs1[n].popNext = 0
      /\ DOMAIN bs1[n].data = Indices(bs1[n])
      /\ \A i \in Indices(bs1[n]) : bs1[n].data[i] = Queue!Raw
  BY DEF Grown
<1> HIDE DEF n
<1>5. B \in DOMAIN bs1 /\ b.index \in DOMAIN bs1[B].data /\ n \in DOMAIN bs1
  BY <1>1, <1>2, <1>3
<1>6. /\ x \in Seq(BucketTypes) /\ DOMAIN x = DOMAIN bs1
      /\ \A g \in DOMAIN bs1 :
           /\ x[g].canPush = bs1[g].canPush /\ x[g].capacity = bs1[g].capacity
           /\ x[g].next = bs1[g].next /\ x[g].prev = bs1[g].prev
           /\ x[g].pushEnd = bs1[g].pushEnd /\ x[g].popNext = bs1[g].popNext
           /\ DOMAIN x[g].data = DOMAIN bs1[g].data
           /\ \A j \in DOMAIN bs1[g].data :
                x[g].data[j] = IF g = B /\ j = b.index THEN v ELSE bs1[g].data[j]
  <2>1. DataAt(bs1, B, b.index, v, x)
    BY <1>2, <1>5, DataSet
  <2> QED
    BY <2>1 DEF DataAt
<1> HIDE DEF x
<1>7. /\ bs2 \in Seq(BucketTypes) /\ DOMAIN bs2 = DOMAIN x
      /\ \A g \in DOMAIN x :
           /\ bs2[g].canPush <=> g # n /\ x[g].canPush
           /\ bs2[g].capacity = x[g].capacity
           /\ bs2[g].next = x[g].next /\ bs2[g].prev = x[g].prev
           /\ bs2[g].pushEnd = x[g].pushEnd /\ bs2[g].popNext = x[g].popNext
           /\ bs2[g].data = x[g].data
  <2>1. Closed(x, n, bs2)
    BY <1>0, <1>5, <1>6, CanPushCleared
  <2> QED
    BY <2>1 DEF Closed
<1> HIDE DEF B
<1>8. ASSUME NEW c \in DOMAIN bs
      PROVE  /\ c \in DOMAIN bs1 /\ c \in DOMAIN x /\ c # n
             /\ bs2[c].canPush <=> bs[c].canPush
             /\ bs2[c].capacity = bs[c].capacity
             /\ bs2[c].next = IF c = B THEN n ELSE bs[c].next
             /\ bs2[c].prev = IF c = bs[B].next THEN n ELSE bs[c].prev
             /\ c # B => bs2[c].pushEnd = bs[c].pushEnd /\ bs2[c].popNext = bs[c].popNext
             /\ bs2[c].pushEnd = bs1[c].pushEnd /\ bs2[c].popNext = bs1[c].popNext
             /\ DOMAIN bs2[c].data = DOMAIN bs[c].data
             /\ \A j \in DOMAIN bs[c].data :
                  bs2[c].data[j] = IF c = B /\ j = b.index THEN v ELSE bs[c].data[j]
  <2>1. c \in DOMAIN bs1 /\ c \in DOMAIN x /\ c # n
    BY <1>2, <1>6
  <2>2. bs2[c].canPush <=> bs[c].canPush
    BY <1>3, <1>6, <1>7, <2>1
  <2>3. /\ bs2[c].capacity = bs1[c].capacity
        /\ bs2[c].next = bs1[c].next /\ bs2[c].prev = bs1[c].prev
        /\ bs2[c].pushEnd = bs1[c].pushEnd /\ bs2[c].popNext = bs1[c].popNext
        /\ DOMAIN bs2[c].data = DOMAIN bs1[c].data
        /\ \A j \in DOMAIN bs1[c].data :
             bs2[c].data[j] = IF c = B /\ j = b.index THEN v ELSE bs1[c].data[j]
    BY <1>6, <1>7, <2>1
  <2> QED
    BY <1>3, <2>1, <2>2, <2>3
<1>9. /\ n \in DOMAIN x /\ ~bs2[n].canPush /\ bs2[n].capacity = slots
      /\ bs2[n].next = bs[B].next /\ bs2[n].prev = B
      /\ bs2[n].pushEnd = Queue!kInvalidIndex /\ bs2[n].popNext = 0
  BY <1>4, <1>5, <1>6, <1>7
<1>10. /\ DOMAIN bs2[n].data = Indices(bs2[n])
       /\ \A i \in Indices(bs2[n]) : bs2[n].data[i] = Queue!Raw
  <2>1. Indices(bs2[n]) = Indices(bs1[n])
    BY <1>4, <1>9 DEF Indices
  <2>2. /\ DOMAIN bs2[n].data = DOMAIN bs1[n].data
        /\ \A j \in DOMAIN bs1[n].data : bs2[n].data[j] = bs1[n].data[j]
    BY <1>2, <1>5, <1>6, <1>7 DEF B
  <2> QED
    BY <1>4, <2>1, <2>2
<1>11. DOMAIN bs2 = DOMAIN bs \cup {n}
  BY <1>2, <1>6, <1>7
<1>12. AddedAfter(bs, b, bs[B].next, bs2, n)
  BY <1>2, <1>7, <1>8, <1>9, <1>10, <1>11 DEF AddedAfter, B
<1>13. Kept(bs, bs2, b, v)
  <2>1. \A c \in DOMAIN bs :
           /\ bs2[c].capacity = bs[c].capacity
           /\ DOMAIN bs2[c].data = DOMAIN bs[c].data
           /\ \A j \in DOMAIN bs[c].data :
                bs2[c].data[j] = IF c = b.bucket /\ j = b.index THEN v ELSE bs[c].data[j]
    BY <1>8 DEF B
  <2> QED
    BY <1>1, <2>1, KeptBy DEF B
<1>14. MoreSlots(bs, bs2, slots)
  BY <1>8, <1>9, <1>11 DEF MoreSlots, n
<1>15. bs2[B].pushEnd = bs1[B].pushEnd /\ bs2[B].popNext = bs1[B].popNext
  BY <1>1, <1>8
<1> QED
  BY <1>12, <1>13, <1>14, <1>15 DEF B, n

(* A bucket is added after the one that is full.                           *)
LEMMA PushesAfter ==
  ASSUME NEW bs, NEW f, NEW b, NEW s, s.buckets = bs, s.front = f, s.back = b,
         growCapacity \in Nat \ {0}, NEW ex, NEW v \in Int, Good(bs, f, b, ex),
         b.index + 1 = bs[b.bucket].capacity, ~Queue!MayEnter(bs[bs[b.bucket].next])
  PROVE  /\ Queue!NextBack(s).grows
         /\ Good(AfterPush(s, v), f, Queue!NextBack(s).back,
                 Append(ex, [slot |-> b, value |-> v]))
         /\ MoreSlots(bs, AfterPush(s, v), growCapacity)
<1> DEFINE n == Len(bs) + 1
           bs1 == Queue!AddBucket(bs, b.bucket, growCapacity)
           bs2 == [[bs1 EXCEPT ![b.bucket].data[b.index] = v] EXCEPT ![n].canPush = FALSE]
<1>1. /\ b.bucket \in DOMAIN bs /\ bs \in Seq(BucketTypes) /\ bs[b.bucket].next \in DOMAIN bs
  BY BackFacts
<1>2. Queue!NextBack(s).grows = TRUE /\ Queue!NextBack(s).buckets = bs1 /\ Queue!NextBack(s).back = Queue!First(n)
  BY FrontElsewhere DEF Queue!NextBack
<1>3. Queue!First(n) = Pos(n, 0) /\ Queue!First(n).index = 0 /\ Queue!First(n).bucket = n
  BY PositionFacts
<1>4. AfterPush(s, v) = bs2
  BY <1>2, <1>3 DEF AfterPush
<1>5. /\ Grown(bs, b.bucket, bs1, growCapacity)
      /\ bs1[b.bucket].pushEnd = bs[b.bucket].pushEnd
      /\ bs1[b.bucket].popNext = bs[b.bucket].popNext
  BY <1>1, AddBucketFacts
<1> HIDE DEF bs1
<1>6. /\ AddedAfter(bs, b, bs[b.bucket].next, bs2, n)
      /\ Kept(bs, bs2, b, v) /\ MoreSlots(bs, bs2, growCapacity)
      /\ bs2[b.bucket].pushEnd = bs1[b.bucket].pushEnd
      /\ bs2[b.bucket].popNext = bs1[b.bucket].popNext
  <2>1. FilledAfter(bs, b, v, bs1, bs2)
    BY DEF FilledAfter
  <2> HIDE DEF bs2
  <2> QED
    BY <1>5, <2>1, GrownFilled
<1> HIDE DEF bs2
<1>7. FullAt(bs, b, bs2)
  BY <1>5, <1>6 DEF FullAt
<1>8. Good(bs2, f, Pos(n, 0), Append(ex, [slot |-> b, value |-> v]))
  BY <1>6, <1>7, PushAdds
<1> QED
  BY <1>2, <1>3, <1>4, <1>6, <1>8

(* The front is in the next slot: the bucket is marked, and one is added.  *)
LEMMA PushesMarked ==
  ASSUME NEW bs, NEW f, NEW b, NEW s, s.buckets = bs, s.front = f, s.back = b,
         growCapacity \in Nat \ {0}, NEW ex, NEW v \in Int, Good(bs, f, b, ex),
         b.index + 1 # bs[b.bucket].capacity, f = [b EXCEPT !.index = @ + 1]
  PROVE  /\ Queue!NextBack(s).grows
         /\ Good(AfterPush(s, v), f, Queue!NextBack(s).back,
                 Append(ex, [slot |-> b, value |-> v]))
         /\ MoreSlots(bs, AfterPush(s, v), growCapacity)
<1> DEFINE n == Len(bs) + 1
           B == b.bucket
           x == bs[B].next
           a == Queue!AddBucket(bs, B, growCapacity)
           bs1 == [a EXCEPT ![B].popNext = x, ![B].pushEnd = b.index]
           bs2 == [[bs1 EXCEPT ![B].data[b.index] = v] EXCEPT ![n].canPush = FALSE]
<1>1. /\ B \in DOMAIN bs /\ bs \in Seq(BucketTypes) /\ x \in DOMAIN bs /\ x \in Nat
      /\ b.index \in Nat /\ b.index + 1 <= bs[B].capacity
      /\ b = Pos(B, b.index) /\ bs[B].capacity \in Nat
  BY BackFacts
<1>2. Queue!NextBack(s).grows = TRUE /\ Queue!NextBack(s).buckets = bs1 /\ Queue!NextBack(s).back = Queue!First(n)
  BY DEF Queue!NextBack
<1>3. Queue!First(n) = Pos(n, 0) /\ Queue!First(n).index = 0 /\ Queue!First(n).bucket = n
  BY PositionFacts
<1>4. AfterPush(s, v) = bs2
  BY <1>2, <1>3 DEF AfterPush
<1>5. /\ a \in Seq(BucketTypes) /\ DOMAIN a = DOMAIN bs \cup {n}
      /\ n \in Nat \ {0} /\ n \notin DOMAIN bs
      /\ \A c \in DOMAIN bs :
           /\ a[c].canPush <=> bs[c].canPush
           /\ a[c].capacity = bs[c].capacity
           /\ a[c].next = IF c = B THEN n ELSE bs[c].next
           /\ a[c].prev = IF c = x THEN n ELSE bs[c].prev
           /\ a[c].pushEnd = bs[c].pushEnd /\ a[c].popNext = bs[c].popNext
           /\ a[c].data = bs[c].data
      /\ a[n].capacity = growCapacity
      /\ a[n].next = x /\ a[n].prev = B
      /\ a[n].pushEnd = Queue!kInvalidIndex /\ a[n].popNext = 0
      /\ DOMAIN a[n].data = Indices(a[n])
      /\ \A i \in Indices(a[n]) : a[n].data[i] = Queue!Raw
  <2>1. Grown(bs, B, a, growCapacity)
        /\ a[B].pushEnd = bs[B].pushEnd /\ a[B].popNext = bs[B].popNext
    BY <1>1, AddBucketFacts
  <2> HIDE DEF a
  <2> QED
    BY <2>1 DEF Grown
<1> HIDE DEF a, x
<1>6. /\ bs1 \in Seq(BucketTypes) /\ DOMAIN bs1 = DOMAIN a
      /\ \A g \in DOMAIN a :
           /\ bs1[g].canPush <=> a[g].canPush
           /\ bs1[g].capacity = a[g].capacity
           /\ bs1[g].next = a[g].next /\ bs1[g].prev = a[g].prev
           /\ bs1[g].pushEnd = IF g = B THEN b.index ELSE a[g].pushEnd
           /\ bs1[g].popNext = IF g = B THEN x ELSE a[g].popNext
           /\ bs1[g].data = a[g].data
  <2>1. B \in DOMAIN a /\ b.index \in Int
    BY <1>1, <1>5
  <2>2. MarkedWith(a, B, x, b.index, bs1)
    BY <1>1, <1>5, <2>1, MarksSet
  <2> HIDE DEF bs1
  <2> QED
    BY <2>2 DEF MarkedWith
<1> HIDE DEF bs1
<1>7. Grown(bs, B, bs1, growCapacity)
  <2>1. B # n /\ DOMAIN bs1 = DOMAIN bs \cup {n} /\ n \in DOMAIN a
    BY <1>1, <1>5, <1>6
  <2>2. \A c \in DOMAIN bs :
          /\ bs1[c].canPush <=> bs[c].canPush
          /\ bs1[c].capacity = bs[c].capacity /\ bs1[c].data = bs[c].data
          /\ bs1[c].next = IF c = B THEN n ELSE bs[c].next
          /\ bs1[c].prev = IF c = x THEN n ELSE bs[c].prev
          /\ c # B => bs1[c].pushEnd = bs[c].pushEnd /\ bs1[c].popNext = bs[c].popNext
    BY <1>5, <1>6
  <2>3. /\ bs1[n].capacity = growCapacity
        /\ bs1[n].next = x /\ bs1[n].prev = B
        /\ bs1[n].pushEnd = Queue!kInvalidIndex /\ bs1[n].popNext = 0 /\ bs1[n].data = a[n].data
    BY <1>5, <1>6, <2>1
  <2>4. /\ DOMAIN bs1[n].data = Indices(bs1[n])
        /\ \A i \in Indices(bs1[n]) : bs1[n].data[i] = Queue!Raw
    BY <1>5, <2>3 DEF Indices
  <2> QED
    BY <1>5, <1>6, <2>1, <2>2, <2>3, <2>4 DEF Grown, x
<1>8. bs1[B].pushEnd = b.index /\ bs1[B].popNext = x
  BY <1>1, <1>5, <1>6
<1>9. /\ AddedAfter(bs, b, x, bs2, n)
      /\ Kept(bs, bs2, b, v) /\ MoreSlots(bs, bs2, growCapacity)
      /\ bs2[B].pushEnd = bs1[B].pushEnd
      /\ bs2[B].popNext = bs1[B].popNext
  <2>1. FilledAfter(bs, b, v, bs1, bs2)
    BY DEF FilledAfter
  <2> HIDE DEF bs2
  <2> QED
    BY <1>7, <2>1, GrownFilled DEF x
<1> HIDE DEF bs2
<1>10. f = Pos(B, b.index + 1)
  BY <1>1, NextSlot
<1>11. MarkedAt(bs, f, b, bs2)
  BY <1>1, <1>8, <1>9, <1>10 DEF MarkedAt, x
<1>12. Good(bs2, f, Pos(n, 0), Append(ex, [slot |-> b, value |-> v]))
  BY <1>9, <1>11, PushAdds DEF x
<1> QED
  BY <1>2, <1>3, <1>4, <1>9, <1>12

-----------------------------------------------------------------------------
(* The slots are counted.                                                  *)
Row(n, m) == {Pos(n, i) : i \in 0 .. m - 1}

LEMMA RowFacts ==
  ASSUME NEW n, NEW m \in Nat
  PROVE  IsFiniteSet(Row(n, m)) /\ Cardinality(Row(n, m)) = m
<1> DEFINE g == [i \in 0 .. m - 1 |-> Pos(n, i)]
<1>1. IsFiniteSet(0 .. m - 1) /\ Cardinality(0 .. m - 1) = m
  <2>1. IsFiniteSet(0 .. m - 1) /\ Cardinality(0 .. m - 1) = IF 0 > m - 1 THEN 0 ELSE m - 1 - 0 + 1
    BY FS_Interval
  <2> QED
    BY <2>1
<1>2. g \in [0 .. m - 1 -> Row(n, m)] /\ \A i \in 0 .. m - 1 : g[i] = Pos(n, i)
  BY DEF Row
<1> HIDE DEF g
<1>3. \A i, j : Pos(n, i) = Pos(n, j) => i = j
  <2>1. \A i : Pos(n, i).index = i
    BY DEF Pos
  <2> QED
    BY <2>1
<1>4. \A i, j \in 0 .. m - 1 : g[i] = g[j] => i = j
  BY <1>2, <1>3
<1>5. \A s \in Row(n, m) : \E i \in 0 .. m - 1 : g[i] = s
  BY <1>2 DEF Row
<1>6. g \in Bijection(0 .. m - 1, Row(n, m))
  BY <1>2, <1>4, <1>5 DEF Bijection, Injection, Surjection, IsInjective
<1>7. ExistsBijection(0 .. m - 1, Row(n, m))
  BY <1>6 DEF ExistsBijection
<1> QED
  BY <1>1, <1>7, FS_Bijection

LEMMA InSlots ==
  ASSUME NEW bs, NEW s
  PROVE  s \in Queue!SlotsOf(bs) <=> \E n \in DOMAIN bs : s \in Row(n, bs[n].capacity)
BY DEF Queue!SlotsOf, Row, Pos

LEMMA SlotsSame ==
  ASSUME NEW bs, NEW bs2, SameSlots(bs, bs2)
  PROVE  Queue!SlotsOf(bs2) = Queue!SlotsOf(bs)
BY DEF Queue!SlotsOf, SameSlots

LEMMA SlotsMore ==
  ASSUME NEW bs \in Seq(BucketTypes), NEW bs2, NEW slots \in Nat, MoreSlots(bs, bs2, slots),
         NEW k \in Nat, IsFiniteSet(Queue!SlotsOf(bs)), Cardinality(Queue!SlotsOf(bs)) = k
  PROVE  IsFiniteSet(Queue!SlotsOf(bs2)) /\ Cardinality(Queue!SlotsOf(bs2)) = k + slots
<1> DEFINE n == Len(bs) + 1
           new == Row(n, slots)
<1>1. n \notin DOMAIN bs
  OBVIOUS
<1>2. /\ DOMAIN bs2 = DOMAIN bs \cup {n} /\ bs2[n].capacity = slots
      /\ \A c \in DOMAIN bs : bs2[c].capacity = bs[c].capacity
  BY DEF MoreSlots
<1> HIDE DEF n
<1>3. \A s : s \in Queue!SlotsOf(bs2) <=> s \in Queue!SlotsOf(bs) \/ s \in new
  BY <1>2, InSlots
<1>4. \A s : ~(s \in Queue!SlotsOf(bs) /\ s \in new)
  <2>1. \A c, m : \A s \in Row(c, m) : s.bucket = c
    BY PositionFacts DEF Row
  <2> QED
    BY <1>1, <2>1, InSlots
<1>5. IsFiniteSet(new) /\ Cardinality(new) = slots
  BY RowFacts
<1> HIDE DEF new
<1>6. Queue!SlotsOf(bs2) = Queue!SlotsOf(bs) \cup new /\ Queue!SlotsOf(bs) \cap new = {}
  BY <1>3, <1>4
<1>7. /\ IsFiniteSet(Queue!SlotsOf(bs) \cup new)
      /\ Cardinality(Queue!SlotsOf(bs) \cup new)
           = Cardinality(Queue!SlotsOf(bs)) + Cardinality(new) - Cardinality(Queue!SlotsOf(bs) \cap new)
  BY <1>5, FS_Union
<1>8. Cardinality({}) = 0
  BY FS_EmptySet
<1>9. Cardinality(Queue!SlotsOf(bs) \cup new) = k + slots - Cardinality({})
  BY <1>5, <1>6, <1>7
<1> QED
  BY <1>6, <1>7, <1>8, <1>9

LEMMA SlotsOne ==
  ASSUME NEW bs, DOMAIN bs = {1}, bs[1].capacity \in Nat
  PROVE  IsFiniteSet(Queue!SlotsOf(bs)) /\ Cardinality(Queue!SlotsOf(bs)) = bs[1].capacity
<1>1. \A s : s \in Queue!SlotsOf(bs) <=> s \in Row(1, bs[1].capacity)
  BY InSlots
<1>2. Queue!SlotsOf(bs) = Row(1, bs[1].capacity)
  BY <1>1
<1> QED
  BY <1>2, RowFacts

(* There are not more elements than slots besides the back, and as many if *)
(* each of these has one.                                                  *)
LEMMA ElementsCounted ==
  ASSUME NEW bs, NEW f, NEW b, NEW ex, Good(bs, f, b, ex), NEW k \in Nat,
         IsFiniteSet(Queue!SlotsOf(bs)), Cardinality(Queue!SlotsOf(bs)) = k + 1
  PROVE  /\ Len(ex) <= k
         /\ (\A s \in Queue!SlotsOf(bs) \ {b} : Holds(ex, s)) => Len(ex) = k
<1> DEFINE T == Queue!SlotsOf(bs) \ {b}
           g == [i \in 1 .. Len(ex) |-> ex[i].slot]
<1>1. /\ Len(ex) \in Nat /\ DOMAIN ex = 1 .. Len(ex) /\ ~Holds(ex, b)
      /\ \A i \in DOMAIN ex : InBuckets(bs, ex[i].slot)
      /\ b = Pos(b.bucket, b.index)
  BY GoodFacts
<1>2. \A s : InBuckets(bs, s) => s \in Queue!SlotsOf(bs)
  <2> SUFFICES ASSUME NEW s, InBuckets(bs, s) PROVE s \in Queue!SlotsOf(bs)
    OBVIOUS
  <2>1. s = Pos(s.bucket, s.index) /\ s.bucket \in DOMAIN bs /\ s.index \in Indices(bs[s.bucket])
    BY DEF InBuckets, Pos
  <2>2. s \in Row(s.bucket, bs[s.bucket].capacity)
    BY <2>1 DEF Row, Indices
  <2> QED
    BY <2>1, <2>2, InSlots
<1>3. b \in Queue!SlotsOf(bs)
  BY <1>2 DEF Good
<1>4. IsFiniteSet(T) /\ Cardinality(T) = k
  <2>1. /\ IsFiniteSet(Queue!SlotsOf(bs) \ {b})
        /\ Cardinality(Queue!SlotsOf(bs) \ {b}) =
             IF b \in Queue!SlotsOf(bs) THEN Cardinality(Queue!SlotsOf(bs)) - 1 ELSE Cardinality(Queue!SlotsOf(bs))
    BY FS_RemoveElement
  <2> QED
    BY <1>3, <2>1
<1>5. /\ g \in [1 .. Len(ex) -> T]
      /\ \A i \in 1 .. Len(ex) : g[i] = ex[i].slot
  <2>1. \A i \in 1 .. Len(ex) : ex[i].slot \in T
    BY <1>1, <1>2 DEF Holds
  <2> QED
    BY <2>1
<1> HIDE DEF g
<1>6. \A i, j \in 1 .. Len(ex) : g[i] = g[j] => i = j
  BY <1>1, <1>5 DEF Good, Ordered
<1>7. g \in Injection(1 .. Len(ex), T)
  BY <1>5, <1>6 DEF Injection, IsInjective
<1>8. Cardinality(1 .. Len(ex)) = Len(ex)
  <2>1. ASSUME NEW m \in Nat PROVE Cardinality(1 .. m) = m
    <3>1. Cardinality(1 .. m) = IF 1 > m THEN 0 ELSE m - 1 + 1
      BY FS_Interval
    <3> QED
      BY <3>1
  <2> QED
    BY <1>1, <2>1
<1> HIDE DEF T
<1>9. /\ Cardinality(1 .. Len(ex)) <= Cardinality(T)
      /\ Cardinality(1 .. Len(ex)) = Cardinality(T) <=> g \in Surjection(1 .. Len(ex), T)
  BY <1>4, <1>7, FS_Injection
<1>10. ASSUME \A s \in T : Holds(ex, s) PROVE Len(ex) = k
  <2>1. \A s \in T : \E i \in 1 .. Len(ex) : g[i] = s
    BY <1>1, <1>5, <1>10 DEF Holds
  <2>2. g \in Surjection(1 .. Len(ex), T)
    BY <1>5, <2>1 DEF Surjection
  <2> QED
    BY <1>4, <1>8, <1>9, <2>2
<1> QED
  BY <1>4, <1>8, <1>9, <1>10 DEF T

-----------------------------------------------------------------------------
(* The positions that are passed from the front on.                        *)
LEMMA QueueCardinality == \A S : Queue!Cardinality(S) = Cardinality(S)
  BY DEF Queue!Cardinality, Cardinality

LEMMA LeastNumber ==
  ASSUME NEW D \in SUBSET Nat, D # {}
  PROVE  \E n \in D : \A m \in D : n <= m
<1>1. PICK n \in D : \A m \in D : ~(<<m, n>> \in OpToRel(<, Nat))
  BY WFMin, NatLessThanWellFounded
<1>2. \A m \in D : ~(m < n)
  BY <1>1 DEF OpToRel
<1> QED
  BY <1>2

(* What Passed is: the slots of the elements, and then the back.           *)
PassedAt(ex, b, top) == [n \in 0 .. top |-> IF n < Len(ex) THEN ex[n + 1].slot ELSE b]
Passes(h, bs, it, end, top) ==
  h = [n \in 0 .. top |->
         IF n = 0 THEN it
         ELSE IF h[n - 1] = end THEN end ELSE Queue!Advance(bs, h[n - 1])]

LEMMA PassesOne ==
  ASSUME NEW bs, NEW it, NEW end, NEW top \in Nat, NEW g, NEW h,
         Passes(g, bs, it, end, top), Passes(h, bs, it, end, top)
  PROVE  g = h
<1> DEFINE D == {n \in 0 .. top : g[n] # h[n]}
<1>1. /\ DOMAIN g = 0 .. top /\ DOMAIN h = 0 .. top
      /\ g = [n \in 0 .. top |-> g[n]] /\ h = [n \in 0 .. top |-> h[n]]
      /\ \A n \in 0 .. top :
           /\ g[n] = IF n = 0 THEN it ELSE IF g[n - 1] = end THEN end ELSE Queue!Advance(bs, g[n - 1])
           /\ h[n] = IF n = 0 THEN it ELSE IF h[n - 1] = end THEN end ELSE Queue!Advance(bs, h[n - 1])
  BY DEF Passes
<1>2. D = {}
  <2> SUFFICES ASSUME D # {} PROVE FALSE
    OBVIOUS
  <2>1. D \in SUBSET Nat
    OBVIOUS
  <2>2. PICK n \in D : \A m \in D : n <= m
    BY <2>1, LeastNumber
  <2>3. n \in 0 .. top /\ g[n] # h[n]
    OBVIOUS
  <2>4. n # 0
    BY <1>1, <2>3
  <2>5. n - 1 \in 0 .. top /\ n - 1 \notin D
    BY <2>2, <2>3, <2>4
  <2>6. g[n - 1] = h[n - 1]
    BY <2>5
  <2> QED
    BY <1>1, <2>3, <2>4, <2>6
<1>3. \A n \in 0 .. top : g[n] = h[n]
  BY <1>2
<1> QED
  BY <1>1, <1>3

LEMMA PassedIs ==
  ASSUME NEW bs, NEW f, NEW b, NEW ex \in Seq(ElementTypes), Queue!Slots(bs) \in Nat,
         f = (IF ex = <<>> THEN b ELSE ex[1].slot), ~Holds(ex, b),
         \A k \in DOMAIN ex :
           Queue!Advance(bs, ex[k].slot) = IF k < Len(ex) THEN ex[k + 1].slot ELSE b
  PROVE  Queue!Passed(bs, f, b) = PassedAt(ex, b, Queue!Slots(bs))
<1> DEFINE top == Queue!Slots(bs)
           g == PassedAt(ex, b, top)
<1>1. Len(ex) \in Nat /\ DOMAIN ex = 1 .. Len(ex) /\ (ex = <<>> <=> Len(ex) = 0)
  OBVIOUS
<1>2. \A n \in 0 .. top : g[n] = IF n < Len(ex) THEN ex[n + 1].slot ELSE b
  BY DEF PassedAt
<1>3. g = [n \in 0 .. top |-> g[n]]
  BY DEF PassedAt
<1> HIDE DEF g
<1>4. ASSUME NEW n \in 0 .. top
      PROVE  g[n] = IF n = 0 THEN f ELSE IF g[n - 1] = b THEN b ELSE Queue!Advance(bs, g[n - 1])
  <2>1. CASE n = 0
    <3>1. g[n] = IF 0 < Len(ex) THEN ex[1].slot ELSE b
      BY <1>2, <2>1
    <3> QED
      BY <1>1, <2>1, <3>1
  <2>2. CASE n # 0
    <3>1. n - 1 \in 0 .. top /\ n \in Nat \ {0}
      BY <2>2
    <3>2. g[n - 1] = IF n - 1 < Len(ex) THEN ex[n].slot ELSE b
      <4>1. n - 1 + 1 = n
        BY <3>1
      <4> QED
        BY <1>2, <3>1, <4>1
    <3>3. CASE n <= Len(ex)
      <4>1. n \in DOMAIN ex /\ g[n - 1] = ex[n].slot
        BY <1>1, <3>1, <3>2, <3>3
      <4>2. g[n - 1] # b
        BY <4>1 DEF Holds
      <4>3. Queue!Advance(bs, g[n - 1]) = IF n < Len(ex) THEN ex[n + 1].slot ELSE b
        BY <4>1
      <4> QED
        BY <1>2, <2>2, <4>2, <4>3
    <3>4. CASE ~(n <= Len(ex))
      <4>1. g[n - 1] = b /\ g[n] = b
        BY <1>1, <1>2, <3>1, <3>2, <3>4
      <4> QED
        BY <2>2, <4>1
    <3> QED
      BY <3>3, <3>4
  <2> QED
    BY <2>1, <2>2
<1>5. Passes(g, bs, f, b, top)
  <2>1. g = [n \in 0 .. top |->
               IF n = 0 THEN f ELSE IF g[n - 1] = b THEN b ELSE Queue!Advance(bs, g[n - 1])]
    BY <1>3, <1>4
  <2> QED
    BY <2>1 DEF Passes
<1> DEFINE h == CHOOSE at : Passes(at, bs, f, b, top)
<1>6. Passes(h, bs, f, b, top)
  BY <1>5
<1>7. Queue!Passed(bs, f, b) = h
  BY DEF Queue!Passed, Passes
<1> HIDE DEF h, top
<1>8. h = g
  BY <1>5, <1>6, PassesOne DEF top
<1> QED
  BY <1>7, <1>8 DEF g, top

LEMMA ElementsAre ==
  ASSUME NEW bs, NEW f, NEW b, NEW ex \in Seq(ElementTypes), Queue!Slots(bs) \in Nat,
         Len(ex) <= Queue!Slots(bs),
         f = (IF ex = <<>> THEN b ELSE ex[1].slot), ~Holds(ex, b),
         \A k \in DOMAIN ex :
           Queue!Advance(bs, ex[k].slot) = IF k < Len(ex) THEN ex[k + 1].slot ELSE b,
         \A k \in DOMAIN ex : bs[ex[k].slot.bucket].data[ex[k].slot.index] = ex[k].value
  PROVE  Queue!Elements(bs, f, b) = ex
<1> DEFINE top == Queue!Slots(bs)
           g == PassedAt(ex, b, top)
           D == {n \in DOMAIN g : g[n] # b}
<1>1. Len(ex) \in Nat /\ DOMAIN ex = 1 .. Len(ex)
  OBVIOUS
<1>2. Queue!Passed(bs, f, b) = g
  BY PassedIs
<1>3. DOMAIN g = 0 .. top /\ \A n \in 0 .. top : g[n] = IF n < Len(ex) THEN ex[n + 1].slot ELSE b
  BY DEF PassedAt
<1> HIDE DEF g
<1>4. D = 0 .. Len(ex) - 1
  <2>1. ASSUME NEW n \in 0 .. top PROVE g[n] # b <=> n < Len(ex)
    <3>1. CASE n < Len(ex)
      <4>1. n + 1 \in DOMAIN ex /\ g[n] = ex[n + 1].slot
        BY <1>1, <1>3, <3>1
      <4> QED
        BY <3>1, <4>1 DEF Holds
    <3>2. CASE ~(n < Len(ex))
      BY <1>3, <3>2
    <3> QED
      BY <3>1, <3>2
  <2>2. D = {n \in 0 .. top : n < Len(ex)}
    BY <1>3, <2>1
  <2> HIDE DEF D
  <2> QED
    BY <1>1, <2>2
<1>5. Cardinality(D) = Len(ex)
  <2>1. ASSUME NEW m \in Nat PROVE Cardinality(0 .. m - 1) = m
    <3>1. Cardinality(0 .. m - 1) = IF 0 > m - 1 THEN 0 ELSE m - 1 - 0 + 1
      BY FS_Interval
    <3> QED
      BY <3>1
  <2> QED
    BY <1>1, <1>4, <2>1
<1> DEFINE e == [i \in 1 .. Len(ex) |->
                   [slot |-> g[i - 1], value |-> bs[g[i - 1].bucket].data[g[i - 1].index]]]
<1>6. Queue!Elements(bs, f, b) = e
  BY <1>2, <1>5, QueueCardinality DEF Queue!Elements
<1>7. ASSUME NEW i \in 1 .. Len(ex) PROVE e[i] = ex[i]
  <2>1. i - 1 \in 0 .. top /\ i - 1 < Len(ex) /\ i - 1 + 1 = i
    BY <1>1
  <2>2. g[i - 1] = ex[i].slot
    BY <1>3, <2>1
  <2>3. ex[i] \in ElementTypes
    BY <1>1
  <2>4. ex[i] = [slot |-> ex[i].slot, value |-> ex[i].value]
    BY <2>3 DEF ElementTypes
  <2>5. e[i] = [slot |-> ex[i].slot, value |-> ex[i].value]
    BY <1>1, <2>2
  <2> QED
    BY <2>4, <2>5
<1>8. ex = [i \in 1 .. Len(ex) |-> ex[i]]
  OBVIOUS
<1> HIDE DEF e
<1>9. e = [i \in 1 .. Len(ex) |-> e[i]]
  BY DEF e
<1> QED
  BY <1>6, <1>7, <1>8, <1>9

-----------------------------------------------------------------------------
(* One bucket, with the elements in its first slots.                       *)
Filled(bs, ex, room) ==
  /\ bs \in Seq(BucketTypes) /\ DOMAIN bs = {1}
  /\ ~bs[1].canPush /\ bs[1].capacity = room + 1 /\ bs[1].next = 1 /\ bs[1].prev = 1
  /\ bs[1].pushEnd = Queue!kInvalidIndex /\ bs[1].popNext = 0 /\ DOMAIN bs[1].data = 0 .. room
  /\ \A i \in 0 .. room :
       bs[1].data[i] = IF i < Len(ex) THEN ex[i + 1].value ELSE Queue!Raw
  /\ \A k \in DOMAIN ex : ex[k].slot = Pos(1, k - 1)

LEMMA OneBucket ==
  ASSUME NEW room \in Nat, NEW ex \in Seq(ElementTypes), Len(ex) <= room,
         NEW bs, Filled(bs, ex, room)
  PROVE  Good(bs, Pos(1, 0), Pos(1, Len(ex)), ex)
<1> DEFINE n == Len(ex)
           f == Pos(1, 0)
           b == Pos(1, n)
<1>1. n \in Nat /\ n <= room /\ DOMAIN ex = 1 .. n /\ (ex = <<>> <=> n = 0)
  OBVIOUS
<1>2. /\ f.bucket = 1 /\ f.index = 0 /\ b.bucket = 1 /\ b.index = n
      /\ \A i, j : Pos(1, i) = Pos(1, j) <=> i = j
      /\ \A i : Pos(1, i).bucket = 1 /\ Pos(1, i).index = i
  BY DEF Pos
<1>3. f \in [bucket : Nat, index : Nat] /\ b \in [bucket : Nat, index : Nat]
  BY <1>1 DEF Pos
<1>4. Indices(bs[1]) = 0 .. room
  BY DEF Filled, Indices
<1> HIDE DEF n, f, b
<1>5. InBuckets(bs, f) /\ InBuckets(bs, b)
  BY <1>1, <1>2, <1>3, <1>4 DEF InBuckets, Filled
<1>6. WellMade(bs)
  BY <1>4 DEF WellMade, Filled, Queue!kInvalidIndex
<1>7. ASSUME NEW i \in 0 .. room PROVE Occupied(bs, f, b, 1, i) <=> i < n
  BY <1>1, <1>2 DEF Occupied
<1>8. Placed(bs, f, b, ex)
  <2> SUFFICES ASSUME NEW i \in 0 .. room
               PROVE  Holds(ex, Pos(1, i)) <=> Occupied(bs, f, b, 1, i)
    BY <1>4 DEF Placed, Filled
  <2>1. ASSUME Holds(ex, Pos(1, i)) PROVE i < n
    <3>1. PICK k \in DOMAIN ex : ex[k].slot = Pos(1, i)
      BY <2>1 DEF Holds
    <3>2. i = k - 1
      BY <1>2, <3>1 DEF Filled
    <3> QED
      BY <1>1, <3>2
  <2>2. ASSUME i < n PROVE Holds(ex, Pos(1, i))
    <3>1. i + 1 \in DOMAIN ex /\ i + 1 - 1 = i
      BY <1>1, <2>2
    <3>2. ex[i + 1].slot = Pos(1, i)
      BY <3>1 DEF Filled
    <3> QED
      BY <3>1, <3>2 DEF Holds
  <2> QED
    BY <1>7, <2>1, <2>2
<1>9. Marked(bs, f, b)
  <2>1. Occupied(bs, f, b, 1, 0) <=> n > 0
    BY <1>1, <1>7
  <2>2. b = Pos(1, 0) <=> n = 0
    BY <1>2 DEF b
  <2>3. /\ bs[1].canPush <=> ~Occupied(bs, f, b, 1, 0) /\ b # Pos(1, 0)
    BY <1>1, <2>1, <2>2 DEF Filled
  <2> QED
    BY <1>2, <2>3 DEF Marked, Filled
<1>10. Ordered(bs, f, b, ex)
  <2>1. \A k \in DOMAIN ex : ex[k].slot = Pos(1, k - 1)
    BY DEF Filled
  <2>2. f = IF ex = <<>> THEN b ELSE ex[1].slot
    <3>1. n = 0 => f = b
      BY DEF f, b
    <3>2. n # 0 => ex[1].slot = f
      BY <1>1, <2>1 DEF f
    <3> QED
      BY <1>1, <3>1, <3>2
  <2>3. ASSUME NEW k \in DOMAIN ex
        PROVE  Queue!Advance(bs, ex[k].slot) = IF k < Len(ex) THEN ex[k + 1].slot ELSE b
    <3>1. k \in Nat /\ 1 <= k /\ k <= n /\ ex[k].slot = Pos(1, k - 1)
      BY <1>1, <2>1
    <3>2. k - 1 # bs[1].pushEnd /\ k - 1 + 1 # bs[1].capacity
      BY <1>1, <3>1 DEF Filled, Queue!kInvalidIndex
    <3>3. Queue!Advance(bs, ex[k].slot) = [ex[k].slot EXCEPT !.index = @ + 1]
      BY <1>2, <3>1, <3>2 DEF Queue!Advance
    <3>4. [Pos(1, k - 1) EXCEPT !.index = @ + 1] = Pos(1, k - 1 + 1)
      BY DEF Pos
    <3>5. Queue!Advance(bs, ex[k].slot) = Pos(1, k)
      <4>1. k - 1 + 1 = k
        BY <3>1
      <4> QED
        BY <3>1, <3>3, <3>4, <4>1
    <3>6. CASE k < n
      <4>1. k + 1 \in DOMAIN ex /\ k + 1 - 1 = k
        BY <1>1, <3>1, <3>6
      <4>2. ex[k + 1].slot = Pos(1, k)
        BY <2>1, <4>1
      <4> QED
        BY <3>5, <3>6, <4>2 DEF n
    <3>7. CASE ~(k < n)
      <4>1. k = n
        BY <1>1, <3>1, <3>7
      <4> QED
        BY <3>5, <3>7, <4>1 DEF n, b
    <3> QED
      BY <3>6, <3>7
  <2>4. \A i, j \in DOMAIN ex : i # j => ex[i].slot # ex[j].slot
    <3> SUFFICES ASSUME NEW i \in DOMAIN ex, NEW j \in DOMAIN ex, i # j
                 PROVE  ex[i].slot # ex[j].slot
      OBVIOUS
    <3>1. i \in Nat /\ j \in Nat
      BY <1>1
    <3> QED
      BY <1>2, <2>1, <3>1
  <2> QED
    BY <2>2, <2>3, <2>4 DEF Ordered
<1>11. Stored(bs, ex)
  <2>1. ASSUME NEW k \in DOMAIN ex
        PROVE  /\ ex[k].slot.bucket \in DOMAIN bs
               /\ ex[k].slot.index \in Indices(bs[ex[k].slot.bucket])
               /\ bs[ex[k].slot.bucket].data[ex[k].slot.index] = ex[k].value
    <3>1. ex[k].slot = Pos(1, k - 1) /\ k - 1 \in 0 .. room /\ k - 1 < Len(ex) /\ k - 1 + 1 = k
      BY <1>1 DEF Filled, n
    <3>2. bs[1].data[k - 1] = ex[k].value /\ 1 \in DOMAIN bs
      BY <3>1 DEF Filled
    <3> QED
      BY <1>2, <1>4, <3>1, <3>2
  <2>2. ASSUME NEW i \in 0 .. room, bs[1].data[i] # Queue!Raw PROVE Holds(ex, Pos(1, i))
    <3>1. i < n
      BY <2>2 DEF Filled, n
    <3>2. i + 1 \in DOMAIN ex /\ i + 1 - 1 = i
      BY <1>1, <3>1
    <3>3. ex[i + 1].slot = Pos(1, i)
      BY <3>2 DEF Filled
    <3> QED
      BY <3>2, <3>3 DEF Holds
  <2> QED
    BY <1>4, <2>1, <2>2 DEF Stored, Filled
<1>12. EndsAt(bs, b, ex)
  <2> SUFFICES ASSUME ex # <<>> PROVE ex[Len(ex)].slot = Pos(1, n - 1) /\ n > 0
    BY <1>2 DEF EndsAt
  <2>1. n \in DOMAIN ex /\ n > 0
    BY <1>1
  <2> QED
    BY <2>1 DEF Filled, n
<1> QED
  BY <1>5, <1>6, <1>8, <1>9, <1>10, <1>11, <1>12 DEF Good, f, b, n

(* The first bucket of a queue.                                            *)
LEMMA FirstBucket ==
  ASSUME NEW room \in Nat \ {0}
  PROVE  LET s == Queue!Initial(room)
         IN /\ s.buckets # <<>>
            /\ Filled(s.buckets, <<>>, room)
            /\ s.position = Pos(1, 0)
<1> DEFINE new == Queue!NewBucket(1, room + 1)
<1>1. Queue!Initial(room) = [buckets |-> <<new>>, position |-> Queue!First(1)]
  BY DEF Queue!Initial
<1>2. /\ new \in BucketTypes /\ ~new.canPush /\ new.capacity = room + 1
      /\ new.next = 1 /\ new.prev = 1 /\ new.pushEnd = Queue!kInvalidIndex /\ new.popNext = 0
      /\ DOMAIN new.data = Indices(new) /\ \A i \in Indices(new) : new.data[i] = Queue!Raw
  BY NewBucketFacts
<1>3. Indices(new) = 0 .. room
  BY <1>2 DEF Indices
<1> HIDE DEF new
<1> DEFINE bs == <<new>>
<1>4. bs \in Seq(BucketTypes) /\ DOMAIN bs = {1} /\ bs[1] = new /\ bs # <<>>
  BY <1>2
<1> HIDE DEF bs
<1>5. Filled(bs, <<>>, room)
  <2>1. Len(<<>>) = 0 /\ DOMAIN <<>> = {}
    OBVIOUS
  <2>2. \A i \in 0 .. room : ~(i < Len(<<>>))
    BY <2>1
  <2> QED
    BY <1>2, <1>3, <1>4, <2>1, <2>2 DEF Filled
<1>6. Queue!First(1) = Pos(1, 0)
  BY PositionFacts
<1> QED
  BY <1>1, <1>4, <1>5, <1>6 DEF bs

-----------------------------------------------------------------------------
(* What Pop makes of the buckets.                                          *)
LEMMA PoppedFacts ==
  ASSUME NEW r \in BucketTypes, NEW i \in DOMAIN r.data, NEW leaves \in BOOLEAN,
         NEW r2, r2 = Queue!Popped(r, i, leaves)
  PROVE  /\ r2 \in BucketTypes
         /\ r2.capacity = r.capacity /\ r2.next = r.next /\ r2.prev = r.prev
         /\ r2.canPush <=> r.canPush \/ i = 0
         /\ r2.pushEnd = IF leaves /\ i = r.pushEnd THEN Queue!kInvalidIndex ELSE r.pushEnd
         /\ r2.popNext = IF leaves /\ i # r.pushEnd /\ i = r.capacity - 1
                         THEN 0 ELSE r.popNext
         /\ DOMAIN r2.data = DOMAIN r.data
         /\ \A j \in DOMAIN r.data : r2.data[j] = IF j = i THEN Queue!Raw ELSE r.data[j]
<1> DEFINE d == [r.data EXCEPT ![i] = Queue!Raw]
           e == IF leaves /\ i = r.pushEnd THEN Queue!kInvalidIndex ELSE r.pushEnd
           p == IF leaves /\ i # r.pushEnd /\ i = r.capacity - 1 THEN 0 ELSE r.popNext
           c == r.canPush \/ i = 0
<1>1. PICK n \in Nat : r.data \in [0 .. n - 1 -> Int]
  BY DEF BucketTypes
<1>2. /\ d \in [0 .. n - 1 -> Int] /\ DOMAIN d = DOMAIN r.data
      /\ \A j \in DOMAIN r.data : d[j] = IF j = i THEN Queue!Raw ELSE r.data[j]
  BY <1>1 DEF Queue!Raw
<1> HIDE DEF d
<1>3. d \in UNION {[0 .. m - 1 -> Int] : m \in Nat}
  BY <1>2
<1>4. e \in Int /\ p \in Nat
  BY DEF BucketTypes, Queue!kInvalidIndex
<1> DEFINE r1 == [r EXCEPT !.data = d]
<1>5. /\ r1 \in BucketTypes
      /\ r1.capacity = r.capacity /\ r1.next = r.next /\ r1.prev = r.prev
      /\ r1.canPush = r.canPush /\ r1.pushEnd = r.pushEnd /\ r1.popNext = r.popNext
      /\ r1.data = d
  BY <1>3 DEF BucketTypes
<1>6. r2 = [r1 EXCEPT !.pushEnd = IF leaves /\ i = @ THEN Queue!kInvalidIndex ELSE @,
                      !.popNext = IF leaves /\ i # r.pushEnd /\ i = r.capacity - 1
                                  THEN 0 ELSE @,
                      !.canPush = @ \/ i = 0]
  BY DEF Queue!Popped, d
<1> HIDE DEF r1
<1> DEFINE x1 == [r1 EXCEPT !.pushEnd = e]
<1>7. /\ x1 \in BucketTypes
      /\ x1.capacity = r.capacity /\ x1.next = r.next /\ x1.prev = r.prev
      /\ x1.canPush = r.canPush /\ x1.pushEnd = e /\ x1.popNext = r.popNext
      /\ x1.data = d
  BY <1>4, <1>5 DEF BucketTypes
<1>8. r2 = [x1 EXCEPT !.popNext = IF leaves /\ i # r.pushEnd /\ i = r.capacity - 1
                                  THEN 0 ELSE @,
                      !.canPush = @ \/ i = 0]
  BY <1>5, <1>6
<1> HIDE DEF x1, e
<1> DEFINE x2 == [x1 EXCEPT !.popNext = p]
<1>9. /\ x2 \in BucketTypes
      /\ x2.capacity = r.capacity /\ x2.next = r.next /\ x2.prev = r.prev
      /\ x2.canPush = r.canPush /\ x2.pushEnd = e /\ x2.popNext = p
      /\ x2.data = d
  BY <1>4, <1>7 DEF BucketTypes
<1>10. r2 = [x2 EXCEPT !.canPush = @ \/ i = 0]
  BY <1>7, <1>8
<1> HIDE DEF x2, p
<1>11. r2 = [x2 EXCEPT !.canPush = c]
  BY <1>9, <1>10
<1>12. c \in BOOLEAN
  OBVIOUS
<1> HIDE DEF c
<1>13. /\ r2 \in BucketTypes
       /\ r2.capacity = r.capacity /\ r2.next = r.next /\ r2.prev = r.prev
       /\ r2.canPush = c /\ r2.pushEnd = e /\ r2.popNext = p
       /\ r2.data = d
  BY <1>9, <1>11, <1>12 DEF BucketTypes
<1>14. r2.canPush <=> r.canPush \/ i = 0
  BY <1>13 DEF c
<1> QED
  BY <1>2, <1>13, <1>14 DEF e, p

LEMMA PopBuckets ==
  ASSUME NEW bs, NEW f, NEW b, NEW ex, Good(bs, f, b, ex), ex # <<>>,
         NEW leaves \in BOOLEAN, leaves <=> Queue!Advance(bs, f).index = 0,
         NEW bs2, bs2 = [bs EXCEPT ![f.bucket] = Queue!Popped(@, f.index, leaves)]
  PROVE  /\ Good(bs2, Queue!Advance(bs, f), b, Tail(ex))
         /\ SameSlots(bs, bs2)
<1> DEFINE F == f.bucket
           j == f.index
           new == Queue!Popped(bs[F], j, leaves)
<1>1. /\ F \in DOMAIN bs /\ j \in Indices(bs[F]) /\ j \in Nat /\ f = Pos(F, j)
      /\ bs \in Seq(BucketTypes) /\ bs[F] \in BucketTypes /\ bs[F].capacity \in Nat \ {0}
      /\ \A c \in DOMAIN bs : DOMAIN bs[c].data = Indices(bs[c])
  BY GoodFacts DEF Good, InBuckets, WellMade
<1>2. /\ new \in BucketTypes
      /\ new.capacity = bs[F].capacity /\ new.next = bs[F].next /\ new.prev = bs[F].prev
      /\ new.canPush <=> bs[F].canPush \/ j = 0
      /\ new.pushEnd = IF leaves /\ j = bs[F].pushEnd THEN Queue!kInvalidIndex ELSE bs[F].pushEnd
      /\ new.popNext = IF leaves /\ j # bs[F].pushEnd /\ j = bs[F].capacity - 1
                       THEN 0 ELSE bs[F].popNext
      /\ DOMAIN new.data = DOMAIN bs[F].data
      /\ \A i \in DOMAIN bs[F].data : new.data[i] = IF i = j THEN Queue!Raw ELSE bs[F].data[i]
  <2>1. j \in DOMAIN bs[F].data
    BY <1>1
  <2> HIDE DEF F, j
  <2> QED
    BY <1>1, <2>1, PoppedFacts
<1> HIDE DEF new
<1>3. /\ bs2 \in Seq(BucketTypes) /\ DOMAIN bs2 = DOMAIN bs
      /\ \A c \in DOMAIN bs : bs2[c] = IF c = F THEN new ELSE bs[c]
  <2>1. bs2 = [bs EXCEPT ![F] = new]
    BY DEF new
  <2> QED
    BY <1>1, <1>2, <2>1
<1>4. \A c, i : Pos(c, i) = f <=> c = F /\ i = j
  <2>1. \A c, i : Pos(c, i).bucket = c /\ Pos(c, i).index = i
    BY PositionFacts
  <2> QED
    BY <1>1, <2>1
<1> HIDE DEF F, j
<1>5. ASSUME NEW c \in DOMAIN bs
      PROVE  /\ bs2[c].capacity = bs[c].capacity /\ DOMAIN bs2[c].data = Indices(bs[c])
             /\ bs2[c].next = bs[c].next /\ bs2[c].prev = bs[c].prev
             /\ bs2[c].canPush <=> bs[c].canPush \/ f = Pos(c, 0)
             /\ \A i \in Indices(bs[c]) :
                  bs2[c].data[i] = IF Pos(c, i) = f THEN Queue!Raw ELSE bs[c].data[i]
  <2>1. CASE c = F
    BY <1>1, <1>2, <1>3, <1>4, <2>1
  <2>2. CASE c # F
    BY <1>1, <1>3, <1>4, <2>2
  <2> QED
    BY <2>1, <2>2
<1>6. PoppedFrom(bs, f, b, ex, bs2, Queue!Advance(bs, f))
  BY <1>3, <1>5 DEF PoppedFrom
<1>7. SameSlots(bs, bs2)
  BY <1>3, <1>5 DEF SameSlots
<1>8. /\ F = f.bucket /\ j = f.index
      /\ \A c \in DOMAIN bs : c # F => bs2[c].pushEnd = bs[c].pushEnd /\ bs2[c].popNext = bs[c].popNext
  BY <1>3 DEF F, j
<1>9. CASE j = bs[F].pushEnd
  <2>1. leaves
    BY <1>8, <1>9, PositionFacts DEF Queue!Advance
  <2>2. bs2[F].pushEnd = Queue!kInvalidIndex /\ bs2[F].popNext = bs[F].popNext
    BY <1>1, <1>2, <1>3, <1>9, <2>1
  <2>3. \A c \in DOMAIN bs :
          /\ bs2[c].pushEnd = IF c = F THEN Queue!kInvalidIndex ELSE bs[c].pushEnd
          /\ bs2[c].popNext = bs[c].popNext
    BY <1>8, <2>2
  <2> QED
    BY <1>6, <1>7, <1>8, <1>9, <2>3, PopAtMark
<1>10. CASE j # bs[F].pushEnd /\ j + 1 = bs[F].capacity
  <2>1. leaves
    BY <1>8, <1>10, PositionFacts DEF Queue!Advance
  <2>2. j = bs[F].capacity - 1
    BY <1>1, <1>10
  <2>3. bs2[F].pushEnd = bs[F].pushEnd /\ bs2[F].popNext = 0
    BY <1>1, <1>2, <1>3, <1>10, <2>1, <2>2
  <2>4. \A c \in DOMAIN bs :
          /\ bs2[c].pushEnd = bs[c].pushEnd
          /\ bs2[c].popNext = IF c = F THEN 0 ELSE bs[c].popNext
    BY <1>8, <2>3
  <2> QED
    BY <1>6, <1>7, <1>8, <1>10, <2>4, PopAtEnd
<1>11. CASE j # bs[F].pushEnd /\ j + 1 # bs[F].capacity
  <2>1. Queue!Advance(bs, f) = [f EXCEPT !.index = @ + 1]
    BY <1>8, <1>11 DEF Queue!Advance
  <2>2. Queue!Advance(bs, f) = Pos(F, j + 1)
    <3>1. f = Pos(f.bucket, f.index)
      BY <1>1, <1>8
    <3>2. [f EXCEPT !.index = @ + 1] = Pos(f.bucket, f.index + 1)
      BY <3>1, NextSlot
    <3> QED
      BY <1>8, <2>1, <3>2
  <2>3. ~leaves
    BY <1>1, <2>2, PositionFacts
  <2>4. bs2[F].pushEnd = bs[F].pushEnd /\ bs2[F].popNext = bs[F].popNext
    BY <1>1, <1>2, <1>3, <2>3
  <2>5. \A c \in DOMAIN bs : bs2[c].pushEnd = bs[c].pushEnd /\ bs2[c].popNext = bs[c].popNext
    BY <1>8, <2>4
  <2> QED
    BY <1>6, <1>7, <1>8, <1>11, <2>5, PopWithin
<1> QED
  BY <1>9, <1>10, <1>11

LEMMA PushBuckets ==
  ASSUME NEW bs, NEW f, NEW b, NEW s, s.buckets = bs, s.front = f, s.back = b,
         growCapacity \in Nat, NEW ex, NEW v \in Int, Good(bs, f, b, ex),
         Queue!NextBack(s).grows => growCapacity > 0
  PROVE  /\ Good(AfterPush(s, v), f, Queue!NextBack(s).back,
                 Append(ex, [slot |-> b, value |-> v]))
         /\ \/ ~Queue!NextBack(s).grows /\ SameSlots(bs, AfterPush(s, v))
            \/ Queue!NextBack(s).grows /\ MoreSlots(bs, AfterPush(s, v), growCapacity)
<1>1. CASE b.index + 1 = bs[b.bucket].capacity /\ Queue!MayEnter(bs[bs[b.bucket].next])
  BY <1>1, PushesOn
<1>2. CASE b.index + 1 = bs[b.bucket].capacity /\ ~Queue!MayEnter(bs[bs[b.bucket].next])
  <2>1. Queue!NextBack(s).grows = TRUE
    BY <1>2, FrontElsewhere DEF Queue!NextBack
  <2>2. growCapacity \in Nat \ {0}
    BY <2>1
  <2> QED
    BY <1>2, <2>2, PushesAfter
<1>3. CASE b.index + 1 # bs[b.bucket].capacity /\ f = [b EXCEPT !.index = @ + 1]
  <2>1. Queue!NextBack(s).grows = TRUE
    BY <1>3 DEF Queue!NextBack
  <2>2. growCapacity \in Nat \ {0}
    BY <2>1
  <2> QED
    BY <1>3, <2>2, PushesMarked
<1>4. CASE b.index + 1 # bs[b.bucket].capacity /\ f # [b EXCEPT !.index = @ + 1]
  BY <1>4, PushesWithin
<1> QED
  BY <1>1, <1>2, <1>3, <1>4

-----------------------------------------------------------------------------
(* The invariant of the queue.                                             *)
Sized(bs, f, b, ex, cap) ==
  /\ bs # <<>> /\ Good(bs, f, b, ex)
  /\ IsFiniteSet(Queue!SlotsOf(bs)) /\ Cardinality(Queue!SlotsOf(bs)) = cap + 1
NoBucket(bs, f, b, ex, cap) ==
  bs = <<>> /\ f = Queue!NullPosition /\ b = Queue!NullPosition /\ ex = <<>> /\ cap = 0

QueueInv ==
  /\ growCapacity \in Nat /\ capacity \in Nat /\ stamp \in Nat /\ size = Len(expected)
  /\ \/ NoBucket(buckets, front, back, expected, capacity)
     \/ Sized(buckets, front, back, expected, capacity)

LEMMA FilledSized ==
  ASSUME NEW room \in Nat, NEW ex \in Seq(ElementTypes), Len(ex) <= room,
         NEW bs, bs # <<>>, Filled(bs, ex, room)
  PROVE  Sized(bs, Pos(1, 0), Pos(1, Len(ex)), ex, room)
<1>1. DOMAIN bs = {1} /\ bs[1].capacity = room + 1
  BY DEF Filled
<1>2. IsFiniteSet(Queue!SlotsOf(bs)) /\ Cardinality(Queue!SlotsOf(bs)) = room + 1
  BY <1>1, SlotsOne
<1> QED
  BY <1>2, OneBucket DEF Sized

LEMMA InitialIs ==
  ASSUME NEW c \in Nat
  PROVE  LET s == Queue!Initial(c)
         IN \/ c = 0 /\ NoBucket(s.buckets, s.position, s.position, <<>>, c)
            \/ c # 0 /\ Sized(s.buckets, s.position, s.position, <<>>, c)
<1>1. CASE c = 0
  BY <1>1 DEF Queue!Initial, NoBucket
<1>2. CASE c # 0
  <2> DEFINE s == Queue!Initial(c)
  <2>1. s.buckets # <<>> /\ Filled(s.buckets, <<>>, c) /\ s.position = Pos(1, 0)
    BY <1>2, FirstBucket
  <2> DEFINE ex == <<>>
  <2>2. ex \in Seq(ElementTypes) /\ Len(ex) = 0
    OBVIOUS
  <2>3. Filled(s.buckets, ex, c)
    BY <2>1
  <2> HIDE DEF s, ex
  <2>4. Len(ex) <= c
    BY <2>2
  <2>5. Sized(s.buckets, Pos(1, 0), Pos(1, Len(ex)), ex, c)
    BY <2>1, <2>2, <2>3, <2>4, FilledSized
  <2> QED
    BY <1>2, <2>1, <2>2, <2>5 DEF s, ex
<1> QED
  BY <1>1, <1>2

LEMMA QueueBegins ==
  ASSUME Queue!Init, Capacities \subseteq Nat \X Nat
  PROVE  QueueInv
<1>1. PICK c \in Capacities :
        /\ growCapacity = c[2]
        /\ capacity = c[1] /\ size = 0
        /\ buckets = Queue!Initial(c[1]).buckets
        /\ front = Queue!Initial(c[1]).position
        /\ back = Queue!Initial(c[1]).position
        /\ expected = <<>>
        /\ stamp = 0
  BY DEF Queue!Init
<1>2. c[1] \in Nat /\ c[2] \in Nat
  OBVIOUS
<1>3. NoBucket(buckets, front, back, expected, capacity)
        \/ Sized(buckets, front, back, expected, capacity)
  BY <1>1, <1>2, InitialIs
<1>4. Len(<<>>) = 0
  OBVIOUS
<1> QED
  BY <1>1, <1>2, <1>3, <1>4 DEF QueueInv

LEMMA BegunIs ==
  ASSUME QueueInv, Queue!Begun.buckets # <<>>
  PROVE  /\ Sized(Queue!Begun.buckets, Queue!Begun.front, Queue!Begun.back, expected, Queue!Begun.capacity)
         /\ Queue!Begun.capacity \in Nat
<1>1. CASE buckets # <<>>
  BY <1>1 DEF Queue!Begun, QueueInv, NoBucket
<1>2. CASE buckets = <<>>
  <2>1. expected = <<>> /\ growCapacity \in Nat
    BY <1>2 DEF QueueInv, NoBucket, Sized
  <2>2. /\ Queue!Begun.buckets = Queue!Initial(growCapacity).buckets
        /\ Queue!Begun.front = Queue!Initial(growCapacity).position
        /\ Queue!Begun.back = Queue!Initial(growCapacity).position
        /\ Queue!Begun.capacity = growCapacity
    BY <1>2 DEF Queue!Begun
  <2>3. Sized(Queue!Initial(growCapacity).buckets, Queue!Initial(growCapacity).position,
              Queue!Initial(growCapacity).position, <<>>, growCapacity)
    BY <2>1, <2>2, InitialIs DEF NoBucket
  <2> QED
    BY <2>1, <2>2, <2>3
<1> QED
  BY <1>1, <1>2

LEMMA QueuePushes ==
  ASSUME QueueInv, Queue!Push, QueueValues \in Nat
  PROVE  QueueInv'
<1> DEFINE s == Queue!Begun
           next == Queue!NextBack(s)
           bs2 == AfterPush(s, stamp)
           e == [slot |-> s.back, value |-> stamp]
<1>1. Queue!Begun.buckets # <<>> /\ (next.grows => growCapacity > 0)
  BY DEF Queue!Push, Queue!HasRoom
<1>2. /\ buckets' = bs2
      /\ capacity' = s.capacity + (IF next.grows THEN growCapacity ELSE 0)
      /\ front' = s.front /\ back' = next.back
      /\ expected' = Append(expected, e)
      /\ size' = size + 1 /\ stamp' = (stamp + 1) % (QueueValues + 1)
      /\ growCapacity' = growCapacity
  BY DEF Queue!Push, AfterPush
<1>3. Sized(s.buckets, s.front, s.back, expected, s.capacity) /\ s.capacity \in Nat
  BY <1>1, BegunIs
<1>4. growCapacity \in Nat /\ stamp \in Nat /\ stamp \in Int /\ size = Len(expected)
  BY DEF QueueInv
<1> HIDE DEF s
<1>5. /\ Good(bs2, s.front, next.back, Append(expected, e))
      /\ \/ ~next.grows /\ SameSlots(s.buckets, bs2)
         \/ next.grows /\ MoreSlots(s.buckets, bs2, growCapacity)
  <2>1. Good(s.buckets, s.front, s.back, expected)
    BY <1>3 DEF Sized
  <2> QED
    BY <1>1, <1>4, <2>1, PushBuckets
<1> HIDE DEF next, bs2
<1>6. /\ IsFiniteSet(Queue!SlotsOf(s.buckets)) /\ Cardinality(Queue!SlotsOf(s.buckets)) = s.capacity + 1
      /\ s.buckets \in Seq(BucketTypes) /\ s.buckets # <<>>
      /\ expected \in Seq(ElementTypes)
  BY <1>3, GoodFacts DEF Sized, Good, WellMade
<1>7. IsFiniteSet(Queue!SlotsOf(bs2)) /\ Cardinality(Queue!SlotsOf(bs2)) = capacity' + 1 /\ capacity' \in Nat
  <2>1. CASE ~next.grows
    <3>1. Queue!SlotsOf(bs2) = Queue!SlotsOf(s.buckets)
      BY <1>5, <2>1, SlotsSame
    <3>2. capacity' = s.capacity
      BY <1>2, <1>3, <2>1
    <3> QED
      BY <1>3, <1>6, <3>1, <3>2
  <2>2. CASE next.grows
    <3>1. /\ IsFiniteSet(Queue!SlotsOf(bs2))
          /\ Cardinality(Queue!SlotsOf(bs2)) = s.capacity + 1 + growCapacity
      <4>1. s.capacity + 1 \in Nat
        BY <1>3
      <4> QED
        BY <1>4, <1>5, <1>6, <2>2, <4>1, SlotsMore
    <3>2. capacity' = s.capacity + growCapacity
      BY <1>2, <2>2
    <3> QED
      BY <1>3, <1>4, <3>1, <3>2
  <2> QED
    BY <2>1, <2>2
<1>8. bs2 # <<>>
  <2>1. s.front.bucket \in DOMAIN bs2
    BY <1>5 DEF Good, InBuckets
  <2> QED
    BY <2>1
<1>9. Sized(bs2, s.front, next.back, Append(expected, e), capacity')
  BY <1>5, <1>7, <1>8 DEF Sized
<1>10. stamp' \in Nat
  BY <1>2, <1>4
<1>11. size' = Len(expected')
  BY <1>2, <1>4, <1>6
<1> QED
  BY <1>2, <1>4, <1>7, <1>9, <1>10, <1>11 DEF QueueInv

LEMMA QueuePops ==
  ASSUME QueueInv, Queue!Pop
  PROVE  QueueInv'
<1> DEFINE next == Queue!Advance(buckets, front)
           leaves == next.index = 0
           bs2 == [buckets EXCEPT ![front.bucket] = Queue!Popped(@, front.index, leaves)]
<1>1. /\ buckets' = bs2 /\ front' = next /\ size' = size - 1 /\ expected' = Tail(expected)
      /\ growCapacity' = growCapacity /\ capacity' = capacity /\ back' = back
      /\ stamp' = stamp /\ size > 0
  BY DEF Queue!Pop
<1>2. /\ growCapacity \in Nat /\ capacity \in Nat /\ stamp \in Nat /\ size = Len(expected)
      /\ expected # <<>>
  <2>1. Len(<<>>) = 0
    OBVIOUS
  <2> QED
    BY <1>1, <2>1 DEF QueueInv
<1>3. Sized(buckets, front, back, expected, capacity)
  BY <1>2 DEF QueueInv, NoBucket
<1>4. /\ Good(buckets, front, back, expected)
      /\ IsFiniteSet(Queue!SlotsOf(buckets)) /\ Cardinality(Queue!SlotsOf(buckets)) = capacity + 1
  BY <1>3 DEF Sized
<1>5. leaves \in BOOLEAN
  OBVIOUS
<1>6. Good(bs2, next, back, Tail(expected)) /\ SameSlots(buckets, bs2)
  BY <1>2, <1>4, <1>5, PopBuckets
<1> HIDE DEF bs2, next
<1>7. Queue!SlotsOf(bs2) = Queue!SlotsOf(buckets)
  BY <1>6, SlotsSame
<1>8. bs2 # <<>>
  <2>1. back.bucket \in DOMAIN bs2
    BY <1>6 DEF Good, InBuckets
  <2> QED
    BY <2>1
<1>9. Sized(bs2, next, back, Tail(expected), capacity)
  BY <1>4, <1>6, <1>7, <1>8 DEF Sized
<1>10. Len(Tail(expected)) = size - 1
  <2>1. expected \in Seq(ElementTypes)
    BY <1>4, GoodFacts
  <2> QED
    BY <1>2, <2>1
<1> QED
  BY <1>1, <1>2, <1>9, <1>10 DEF QueueInv

(* What the program reads from the queue is what it pushed.                *)
LEMMA QueueElements ==
  ASSUME QueueInv
  PROVE  /\ Queue!Elements(buckets, front, back) = expected
         /\ expected \in Seq(ElementTypes) /\ size = Len(expected) /\ size <= capacity
<1>1. CASE NoBucket(buckets, front, back, expected, capacity)
  <2> DEFINE ex == expected
  <2>1. ex \in Seq(ElementTypes) /\ Len(ex) = 0 /\ DOMAIN ex = {} /\ ex = <<>>
    BY <1>1 DEF NoBucket
  <2>2. \A s : s \notin Queue!SlotsOf(buckets)
    <3>1. DOMAIN buckets = {}
      BY <1>1 DEF NoBucket
    <3> QED
      BY <3>1, InSlots
  <2>3. Queue!SlotsOf(buckets) = {}
    BY <2>2
  <2>4. Queue!Slots(buckets) = 0
    BY <2>3, FS_EmptySet, QueueCardinality DEF Queue!Slots
  <2>5. front = back
    BY <1>1 DEF NoBucket
  <2> HIDE DEF ex
  <2>6. ~Holds(ex, back)
    BY <2>1 DEF Holds
  <2>7. Len(ex) <= Queue!Slots(buckets) /\ Queue!Slots(buckets) \in Nat
    BY <2>1, <2>4
  <2>8. front = IF ex = <<>> THEN back ELSE ex[1].slot
    BY <2>1, <2>5
  <2>9. Queue!Elements(buckets, front, back) = ex
    BY <2>1, <2>6, <2>7, <2>8, ElementsAre
  <2>10. capacity \in Nat /\ size = Len(expected)
    BY DEF QueueInv
  <2> QED
    BY <2>1, <2>9, <2>10 DEF ex
<1>2. CASE Sized(buckets, front, back, expected, capacity)
  <2>1. /\ Good(buckets, front, back, expected) /\ capacity \in Nat
        /\ IsFiniteSet(Queue!SlotsOf(buckets)) /\ Cardinality(Queue!SlotsOf(buckets)) = capacity + 1
        /\ size = Len(expected)
    BY <1>2 DEF QueueInv, Sized
  <2>2. expected \in Seq(ElementTypes) /\ ~Holds(expected, back) /\ Len(expected) \in Nat
    BY <2>1, GoodFacts
  <2>3. Len(expected) <= capacity
    BY <2>1, ElementsCounted
  <2>4. Queue!Slots(buckets) = capacity + 1
    BY <2>1, QueueCardinality DEF Queue!Slots
  <2>5. Queue!Slots(buckets) \in Nat /\ Len(expected) <= Queue!Slots(buckets)
    BY <2>1, <2>2, <2>3, <2>4
  <2>6. /\ front = (IF expected = <<>> THEN back ELSE expected[1].slot)
        /\ \A k \in DOMAIN expected :
             Queue!Advance(buckets, expected[k].slot)
               = IF k < Len(expected) THEN expected[k + 1].slot ELSE back
    BY <2>1 DEF Good, Ordered
  <2>7. \A k \in DOMAIN expected :
          buckets[expected[k].slot.bucket].data[expected[k].slot.index] = expected[k].value
    BY <2>1 DEF Good, Stored
  <2>8. Queue!Elements(buckets, front, back) = expected
    BY <2>2, <2>5, <2>6, <2>7, ElementsAre
  <2> QED
    BY <2>1, <2>2, <2>3, <2>8
<1> QED
  BY <1>1, <1>2 DEF QueueInv

(* The values of the elements are written to the first slots.              *)
Written(r, ex, d) ==
  /\ DOMAIN d = DOMAIN r.data /\ d = [i \in DOMAIN r.data |-> d[i]]
  /\ \A i \in DOMAIN r.data : d[i] = IF i < Len(ex) THEN ex[i + 1].value ELSE r.data[i]

LEMMA DataFilled ==
  ASSUME NEW r \in BucketTypes, NEW ex \in Seq(ElementTypes), NEW d,
         Written(r, ex, d), DOMAIN r.data \subseteq Nat
  PROVE  d \in UNION {[0 .. m - 1 -> Int] : m \in Nat}
<1>0. /\ DOMAIN d = DOMAIN r.data /\ d = [i \in DOMAIN r.data |-> d[i]]
      /\ \A i \in DOMAIN r.data : d[i] = IF i < Len(ex) THEN ex[i + 1].value ELSE r.data[i]
  BY DEF Written
<1>1. PICK n \in Nat : r.data \in [0 .. n - 1 -> Int]
  BY DEF BucketTypes
<1>2. ASSUME NEW i \in 0 .. n - 1
      PROVE  (IF i < Len(ex) THEN ex[i + 1].value ELSE r.data[i]) \in Int
  <2>1. CASE i < Len(ex)
    <3>1. Len(ex) \in Nat /\ DOMAIN ex = 1 .. Len(ex)
      OBVIOUS
    <3>2. i + 1 \in DOMAIN ex
      BY <2>1, <3>1
    <3>3. ex[i + 1] \in ElementTypes
      BY <3>2
    <3>4. ex[i + 1].value \in Int
      BY <3>3 DEF ElementTypes
    <3> QED
      BY <2>1, <3>4
  <2>2. CASE ~(i < Len(ex))
    BY <1>1, <2>2
  <2> QED
    BY <2>1, <2>2
<1>3. d \in [0 .. n - 1 -> Int]
  <2>1. DOMAIN r.data = 0 .. n - 1
    BY <1>1
  <2>2. \A i \in 0 .. n - 1 : d[i] \in Int
    BY <1>0, <1>2, <2>1
  <2> QED
    BY <1>0, <2>1, <2>2
<1> QED
  BY <1>3

LEMMA QueueCopies ==
  ASSUME QueueInv, Queue!Copy
  PROVE  QueueInv'
<1> DEFINE elements == Queue!Elements(buckets, front, back)
           room == IF buckets # <<>> /\ buckets[1].capacity > size
                   THEN buckets[1].capacity ELSE size
           fresh == Queue!CopiedInto(room)
           r2 == [fresh[1] EXCEPT !.data = [i \in DOMAIN @ |->
                    IF i < Len(elements) THEN elements[i + 1].value ELSE @[i]]]
           ex2 == [i \in DOMAIN expected |->
                     [slot |-> [bucket |-> 1, index |-> i - 1],
                      value |-> expected[i].value]]
<1>1. /\ capacity' = room
      /\ buckets' = (IF room = 0 THEN <<>> ELSE <<r2>>)
      /\ front' = Queue!Initial(room).position
      /\ back' = [Queue!Initial(room).position EXCEPT !.index = size]
      /\ expected' = ex2
      /\ growCapacity' = growCapacity /\ size' = size /\ stamp' = stamp
  BY DEF Queue!Copy
<1>2. /\ elements = expected /\ expected \in Seq(ElementTypes)
      /\ size = Len(expected) /\ size \in Nat /\ DOMAIN expected = 1 .. size
  BY QueueElements
<1>3. growCapacity \in Nat /\ stamp \in Nat
  BY DEF QueueInv
<1>4. room \in Nat /\ size <= room
  <2>1. buckets # <<>> => buckets[1].capacity \in Nat
    <3> SUFFICES ASSUME buckets # <<>> PROVE buckets[1].capacity \in Nat
      OBVIOUS
    <3>1. Good(buckets, front, back, expected)
      BY DEF QueueInv, NoBucket, Sized
    <3>2. /\ DOMAIN buckets = 1 .. Len(buckets) /\ Len(buckets) \in Nat
          /\ back.bucket \in DOMAIN buckets
          /\ \A c \in DOMAIN buckets : buckets[c].capacity \in Nat \ {0}
      BY <3>1, GoodFacts, BackFacts
    <3> QED
      BY <3>2
  <2> QED
    BY <1>2, <2>1
<1>5. /\ ex2 \in Seq(ElementTypes) /\ Len(ex2) = size /\ DOMAIN ex2 = 1 .. size
      /\ \A i \in 1 .. size : ex2[i].slot = Pos(1, i - 1) /\ ex2[i].value = expected[i].value
  <2>1. ASSUME NEW i \in 1 .. size
        PROVE  /\ ex2[i] \in ElementTypes
               /\ ex2[i].slot = Pos(1, i - 1) /\ ex2[i].value = expected[i].value
    <3>1. expected[i] \in ElementTypes /\ i - 1 \in Nat
      BY <1>2
    <3>2. expected[i].value \in Int
      BY <3>1 DEF ElementTypes
    <3>3. ex2[i] = [slot |-> [bucket |-> 1, index |-> i - 1], value |-> expected[i].value]
      BY <1>2
    <3> QED
      BY <3>1, <3>2, <3>3 DEF ElementTypes, Pos
  <2>2. ex2 \in [1 .. size -> ElementTypes]
    <3>1. ex2 = [i \in 1 .. size |-> ex2[i]]
      BY <1>2
    <3> HIDE DEF ex2
    <3> QED
      BY <2>1, <3>1
  <2> HIDE DEF ex2
  <2> QED
    BY <1>2, <2>1, <2>2
<1> HIDE DEF room
<1>6. CASE room = 0
  <2>1. size = 0 /\ ex2 = <<>>
    <3>1. size = 0
      BY <1>2, <1>4, <1>6
    <3> HIDE DEF ex2
    <3> QED
      BY <1>5, <3>1
  <2>2. Queue!Initial(room).position = Queue!NullPosition
    BY <1>6 DEF Queue!Initial
  <2>3. [Queue!NullPosition EXCEPT !.index = 0] = Queue!NullPosition
    BY DEF Queue!NullPosition
  <2>4. NoBucket(buckets', front', back', expected', capacity')
    BY <1>1, <1>6, <2>1, <2>2, <2>3 DEF NoBucket
  <2>5. size' = Len(expected')
    BY <1>1, <1>2, <1>5
  <2> QED
    BY <1>1, <1>3, <1>4, <2>4, <2>5 DEF QueueInv
<1>7. CASE room # 0
  <2> DEFINE ex0 == <<>>
  <2>1. /\ Filled(fresh, ex0, room) /\ Queue!Initial(room).position = Pos(1, 0)
        /\ Len(ex0) = 0
    <3>1. room \in Nat \ {0}
      BY <1>4, <1>7
    <3> QED
      BY <3>1, FirstBucket DEF Queue!CopiedInto
  <2> HIDE DEF ex0
  <2> DEFINE r == fresh[1]
  <2>2. /\ r \in BucketTypes
        /\ ~r.canPush /\ r.capacity = room + 1 /\ r.next = 1 /\ r.prev = 1
        /\ r.pushEnd = Queue!kInvalidIndex /\ r.popNext = 0 /\ DOMAIN r.data = 0 .. room
        /\ \A i \in 0 .. room : r.data[i] = Queue!Raw
    <3> HIDE DEF fresh
    <3>1. r \in BucketTypes
      <4>1. fresh \in Seq(BucketTypes)
        BY <2>1 DEF Filled
      <4>2. 1 \in DOMAIN fresh
        BY <2>1 DEF Filled
      <4> QED
        BY <4>1, <4>2
    <3>2. \A i \in 0 .. room : r.data[i] = Queue!Raw
      BY <2>1 DEF Filled
    <3> QED
      BY <2>1, <3>1, <3>2 DEF Filled
  <2> HIDE DEF r
  <2>3. /\ r2 \in BucketTypes
        /\ r2.capacity = r.capacity /\ r2.next = r.next /\ r2.prev = r.prev
        /\ r2.canPush = r.canPush /\ r2.pushEnd = r.pushEnd /\ r2.popNext = r.popNext
        /\ DOMAIN r2.data = DOMAIN r.data
        /\ \A i \in DOMAIN r.data :
             r2.data[i] = IF i < Len(elements) THEN elements[i + 1].value ELSE r.data[i]
    <3> HIDE DEF elements
    <3> DEFINE d == [i \in DOMAIN r.data |->
                      IF i < Len(elements) THEN elements[i + 1].value ELSE r.data[i]]
    <3>1. r2 = [r EXCEPT !.data = d]
      BY DEF r
    <3>2. DOMAIN r.data \subseteq Nat /\ elements \in Seq(ElementTypes)
      BY <1>2, <1>4, <2>2
    <3>3. /\ DOMAIN d = DOMAIN r.data
          /\ \A i \in DOMAIN r.data :
               d[i] = IF i < Len(elements) THEN elements[i + 1].value ELSE r.data[i]
      OBVIOUS
    <3>4. d = [i \in DOMAIN r.data |-> d[i]]
      OBVIOUS
    <3> HIDE DEF r2, d
    <3>5. Written(r, elements, d)
      BY <3>3, <3>4 DEF Written
    <3>6. /\ r2 \in BucketTypes
          /\ r2.capacity = r.capacity /\ r2.next = r.next /\ r2.prev = r.prev
          /\ r2.canPush = r.canPush /\ r2.pushEnd = r.pushEnd /\ r2.popNext = r.popNext
          /\ r2.data = d
      <4>1. d \in UNION {[0 .. m - 1 -> Int] : m \in Nat}
        BY <2>2, <3>2, <3>5, DataFilled
      <4> QED
        BY <2>2, <3>1, <4>1 DEF BucketTypes
    <3> QED
      BY <3>3, <3>6
  <2> HIDE DEF r2, elements, ex2
  <2> DEFINE bs == <<r2>>
  <2>4. bs \in Seq(BucketTypes) /\ DOMAIN bs = {1} /\ bs[1] = r2 /\ bs # <<>>
    BY <2>3
  <2> HIDE DEF bs
  <2>5. \A i \in 0 .. room :
          bs[1].data[i] = IF i < Len(ex2) THEN ex2[i + 1].value ELSE Queue!Raw
    <3> SUFFICES ASSUME NEW i \in 0 .. room
                 PROVE  bs[1].data[i] = IF i < Len(ex2) THEN ex2[i + 1].value ELSE Queue!Raw
      OBVIOUS
    <3>1. bs[1].data[i] = IF i < size THEN expected[i + 1].value ELSE Queue!Raw
      BY <1>2, <2>2, <2>3, <2>4
    <3>2. i < size => i + 1 \in 1 .. size
      BY <1>2, <1>4
    <3> QED
      BY <1>5, <3>1, <3>2
  <2>6. Filled(bs, ex2, room)
    BY <1>5, <2>2, <2>3, <2>4, <2>5 DEF Filled
  <2>7. Sized(bs, Pos(1, 0), Pos(1, size), ex2, room)
    BY <1>4, <1>5, <2>4, <2>6, FilledSized
  <2>8. [Pos(1, 0) EXCEPT !.index = size] = Pos(1, size)
    BY DEF Pos
  <2>9. Sized(buckets', front', back', expected', capacity')
    BY <1>1, <1>7, <2>1, <2>7, <2>8 DEF bs
  <2>10. size' = Len(expected')
    BY <1>1, <1>5
  <2> QED
    BY <1>1, <1>3, <1>4, <2>9, <2>10 DEF QueueInv
<1> QED
  BY <1>6, <1>7

LEMMA QueueMoves ==
  ASSUME QueueInv, Queue!MoveAway \/ Queue!MoveTo, Capacities \subseteq Nat \X Nat
  PROVE  QueueInv'
<1>1. CASE Queue!MoveAway
  <2>1. Len(<<>>) = 0
    OBVIOUS
  <2> QED
    BY <1>1, <2>1 DEF Queue!MoveAway, QueueInv, NoBucket
<1>2. CASE Queue!MoveTo
  <2>1. PICK c \in Capacities : growCapacity' = c[2]
    BY <1>2 DEF Queue!MoveTo
  <2>2. growCapacity' \in Nat
    BY <2>1
  <2> QED
    BY <1>2, <2>2 DEF Queue!MoveTo, QueueInv
<1> QED
  BY <1>1, <1>2

LEMMA QueueSteps ==
  ASSUME QueueInv, Queue!Next \/ UNCHANGED queueVars, QueueValues \in Nat, Capacities \subseteq Nat \X Nat
  PROVE  QueueInv'
<1>1. CASE UNCHANGED queueVars
  BY <1>1 DEF queueVars, QueueInv
<1> QED
  BY <1>1, QueuePushes, QueuePops, QueueCopies, QueueMoves DEF Queue!Next

(* An empty queue has no marks: what every bucket had is free again.       *)
LEMMA NothingMarked ==
  ASSUME NEW bs, NEW f, NEW b, NEW ex, Good(bs, f, b, ex), Len(ex) = 0,
         NEW c \in DOMAIN bs
  PROVE  bs[c].pushEnd = Queue!kInvalidIndex /\ bs[c].popNext = 0 /\ (c # b.bucket => bs[c].canPush)
<1>1. /\ DOMAIN ex = {} /\ ex = <<>> /\ f = b
      /\ bs[c].popNext \in Nat /\ bs[c].capacity \in Nat \ {0}
  <2>1. ex \in Seq(ElementTypes) /\ DOMAIN ex = 1 .. Len(ex)
    BY GoodFacts
  <2>2. ex = <<>>
    BY <2>1
  <2>3. bs[c].popNext \in Nat /\ bs[c].capacity \in Nat \ {0}
    BY BucketFacts
  <2>4. f = IF ex = <<>> THEN b ELSE ex[1].slot
    BY DEF Good, Ordered
  <2> QED
    BY <2>1, <2>2, <2>3, <2>4
<1>2. ~Occupied(bs, f, b, c, 0)
  <2>1. 0 \in Indices(bs[c])
    BY <1>1 DEF Indices
  <2> QED
    BY <1>1, <2>1 DEF Good, Placed, Holds
<1>3. /\ bs[b.bucket].pushEnd = Queue!kInvalidIndex
      /\ bs[c].canPush <=> ~Occupied(bs, f, b, c, 0) /\ b # Pos(c, 0)
      /\ bs[c].popNext # 0
           <=> c = f.bucket /\ bs[c].pushEnd # Queue!kInvalidIndex /\ f.index > bs[c].pushEnd
      /\ bs[c].pushEnd # Queue!kInvalidIndex /\ c # f.bucket => ~bs[c].canPush
  BY DEF Good, Marked
<1>4. b = Pos(c, 0) => c = b.bucket
  BY PositionFacts
<1> QED
  BY <1>1, <1>2, <1>3, <1>4

(* In a queue of one bucket there is room for as many as it counts.        *)
LEMMA RoomInOne ==
  ASSUME NEW bs, NEW f, NEW b, NEW ex, NEW k \in Nat, Sized(bs, f, b, ex, k),
         Len(bs) = 1, Len(ex) < k
  PROVE  /\ f # Pos(b.bucket, b.index + 1)
         /\ b.index + 1 = bs[b.bucket].capacity => Queue!MayEnter(bs[bs[b.bucket].next])
<1>1. PICK B \in Nat, j \in Nat, F \in Nat, i \in Nat : f = Pos(F, i) /\ b = Pos(B, j)
  BY GoodFacts DEF Sized
<1>2. \A m, n : Pos(m, n).bucket = m /\ Pos(m, n).index = n
  BY DEF Pos
<1>3. /\ Good(bs, f, b, ex) /\ IsFiniteSet(Queue!SlotsOf(bs)) /\ Cardinality(Queue!SlotsOf(bs)) = k + 1
      /\ DOMAIN bs = {1} /\ Len(ex) \in Nat
  <2>1. Good(bs, f, b, ex) /\ IsFiniteSet(Queue!SlotsOf(bs)) /\ Cardinality(Queue!SlotsOf(bs)) = k + 1
    BY DEF Sized
  <2> QED
    BY <2>1, GoodFacts
<1>4. /\ b.bucket = 1 /\ b.index = j /\ f.bucket = 1 /\ f.index = i /\ B = 1 /\ F = 1
  BY <1>1, <1>2, <1>3 DEF Good, InBuckets
<1>5. bs[1].capacity \in Nat \ {0} /\ i < bs[1].capacity /\ j < bs[1].capacity
  <2>1. bs[1].capacity \in Nat \ {0}
    BY <1>3, BucketFacts
  <2> QED
    BY <1>3, <1>4, <2>1 DEF Good, InBuckets, Indices
<1>6. bs[1].next = 1 /\ bs[1].pushEnd = Queue!kInvalidIndex
  BY <1>3, <1>4 DEF Good, WellMade, Marked
<1>7. \E m \in Indices(bs[1]) : m # j /\ ~Occupied(bs, f, b, 1, m)
  <2>1. ~(\A s \in Queue!SlotsOf(bs) \ {b} : Holds(ex, s))
    BY <1>3, ElementsCounted
  <2>2. PICK s \in Queue!SlotsOf(bs) \ {b} : ~Holds(ex, s)
    BY <2>1
  <2>3. PICK m \in Indices(bs[1]) : s = Pos(1, m)
    BY <1>3, <2>2, InSlots DEF Row, Indices
  <2>4. m # j
    BY <1>1, <1>4, <2>2, <2>3
  <2>5. ~Occupied(bs, f, b, 1, m)
    BY <1>3, <2>2, <2>3 DEF Good, Placed
  <2> QED
    BY <2>3, <2>4, <2>5
<1>8. PICK m \in Indices(bs[1]) : m # j /\ ~Occupied(bs, f, b, 1, m)
  BY <1>7
<1>9. /\ m \in Nat /\ m < bs[1].capacity
      /\ ~(IF i <= j THEN i <= m /\ m < j ELSE m < j \/ i <= m)
  BY <1>4, <1>5, <1>8 DEF Occupied, Indices
<1>10. f # Pos(b.bucket, b.index + 1)
  <2>1. i # j + 1
    BY <1>8, <1>9
  <2> QED
    BY <1>1, <1>2, <1>4, <2>1
<1>11. ASSUME j + 1 = bs[1].capacity PROVE Queue!MayEnter(bs[1])
  <2>1. i # 0 /\ j # 0
    BY <1>5, <1>9, <1>11, <1>8
  <2>2. ~Occupied(bs, f, b, 1, 0)
    BY <1>4, <1>5, <1>11, <2>1 DEF Occupied
  <2>3. b # Pos(1, 0)
    BY <1>2, <1>4, <2>1
  <2>4. bs[1].canPush
    BY <1>3, <2>2, <2>3 DEF Good, Marked
  <2> QED
    BY <1>6, <2>4 DEF Queue!MayEnter
<1> QED
  BY <1>4, <1>6, <1>10, <1>11

LEMMA QueueInvHolds ==
  ASSUME QueueInv
  PROVE  Queue!QueueHolds
<1>1. /\ Queue!Elements(buckets, front, back) = expected
      /\ expected \in Seq(ElementTypes) /\ size = Len(expected) /\ size <= capacity
      /\ capacity \in Nat /\ growCapacity \in Nat /\ DOMAIN expected = 1 .. size /\ size \in Nat
  BY QueueElements DEF QueueInv
<1>2. CASE NoBucket(buckets, front, back, expected, capacity)
  <2>1. DOMAIN buckets = {} /\ DOMAIN expected = {} /\ expected = <<>> /\ Len(buckets) = 0
        /\ buckets = <<>>
    BY <1>2 DEF NoBucket
  <2>2. Queue!FirstInFirstOut
    BY <1>1, <2>1 DEF Queue!FirstInFirstOut
  <2>3. Queue!CapacityHolds
    BY <1>1, <2>1 DEF Queue!CapacityHolds
  <2>4. Queue!SlotsComeBack
    BY <2>1 DEF Queue!SlotsComeBack
  <2> QED
    BY <2>2, <2>3, <2>4 DEF Queue!QueueHolds
<1>3. CASE Sized(buckets, front, back, expected, capacity)
  <2>1. /\ Good(buckets, front, back, expected) /\ buckets # <<>>
        /\ Cardinality(Queue!SlotsOf(buckets)) = capacity + 1
    BY <1>3 DEF Sized
  <2>2. \A i, j \in DOMAIN expected : i # j => expected[i].slot # expected[j].slot
    BY <2>1 DEF Good, Ordered
  <2>3. ASSUME NEW n \in DOMAIN buckets, NEW i \in DOMAIN buckets[n].data,
               buckets[n].data[i] # Queue!Raw
        PROVE  \E e \in DOMAIN expected : expected[e].slot = [bucket |-> n, index |-> i]
    <3>1. i \in Indices(buckets[n])
      BY <2>1, BackFacts
    <3>2. Holds(expected, Pos(n, i))
      BY <2>1, <2>3, <3>1 DEF Good, Stored
    <3> QED
      BY <3>2 DEF Holds, Pos
  <2>4. ASSUME expected # <<>>
        PROVE  front = expected[1].slot /\ Queue!BackElement = expected[Len(expected)].slot
    <3>1. front = expected[1].slot
      BY <2>1, <2>4 DEF Good, Ordered
    <3>2. expected[Len(expected)].slot =
            IF back.index > 0 THEN Pos(back.bucket, back.index - 1)
            ELSE Pos(buckets[back.bucket].prev, LastOf(buckets[buckets[back.bucket].prev]))
      BY <2>1, <2>4 DEF Good, EndsAt
    <3>3. back = Pos(back.bucket, back.index)
      BY <2>1, BackFacts
    <3>4. PICK m, j : back = Pos(m, j) /\ m = back.bucket /\ j = back.index
      BY <3>3
    <3>5. [Pos(m, j) EXCEPT !.index = @ - 1] = Pos(m, j - 1)
      BY DEF Pos
    <3>6. [back EXCEPT !.index = @ - 1] = Pos(back.bucket, back.index - 1)
      BY <3>4, <3>5
    <3>7. CASE back.index > 0
      BY <3>1, <3>2, <3>6, <3>7 DEF Queue!BackElement
    <3>8. CASE ~(back.index > 0)
      <4> DEFINE last == buckets[buckets[back.bucket].prev]
      <4>1. Queue!BackElement = Pos(buckets[back.bucket].prev,
                              IF last.pushEnd # Queue!kInvalidIndex THEN last.pushEnd
                              ELSE last.capacity - 1)
        BY <3>8 DEF Queue!BackElement, Pos
      <4>2. LastOf(last) = IF last.pushEnd # Queue!kInvalidIndex THEN last.pushEnd
                           ELSE last.capacity - 1
        BY DEF LastOf
      <4> QED
        BY <3>1, <3>2, <3>8, <4>1, <4>2
    <3> QED
      BY <3>7, <3>8
  <2>5. Queue!FirstInFirstOut
    BY <1>1, <2>2, <2>3, <2>4 DEF Queue!FirstInFirstOut
  <2>6. Queue!CapacityHolds
    <3>1. Queue!Slots(buckets) = capacity + 1
      BY <2>1, QueueCardinality DEF Queue!Slots
    <3>2. \A n \in DOMAIN buckets : buckets[buckets[n].next].prev = n
                                    /\ buckets[buckets[n].prev].next = n
      BY <2>1 DEF Good, WellMade
    <3>3. ASSUME Len(buckets) = 1, size < capacity PROVE Queue!HasRoom
      <4>1. /\ front # Pos(back.bucket, back.index + 1)
            /\ back.index + 1 = buckets[back.bucket].capacity
                 => Queue!MayEnter(buckets[buckets[back.bucket].next])
        BY <1>1, <1>3, <3>3, RoomInOne
      <4>2. [back EXCEPT !.index = @ + 1] = Pos(back.bucket, back.index + 1)
        BY <2>1, BackFacts, NextSlot
      <4> DEFINE s == Queue!Begun
      <4>3. s.buckets = buckets /\ s.front = front /\ s.back = back
        BY <2>1 DEF Queue!Begun
      <4> HIDE DEF s
      <4>4. Queue!NextBack(s).grows = FALSE
        <5>1. CASE back.index + 1 = buckets[back.bucket].capacity
          <6>1. Queue!MayEnter(buckets[buckets[back.bucket].next])
            BY <4>1, <5>1
          <6> QED
            BY <4>1, <4>2, <4>3, <5>1, <6>1 DEF Queue!NextBack
        <5>2. CASE back.index + 1 # buckets[back.bucket].capacity
          BY <4>1, <4>2, <4>3, <5>2 DEF Queue!NextBack
        <5> QED
          BY <5>1, <5>2
      <4> QED
        BY <2>1, <4>3, <4>4 DEF Queue!HasRoom, s
    <3> QED
      BY <1>1, <3>1, <3>2, <3>3 DEF Queue!CapacityHolds
  <2>7. Queue!SlotsComeBack
    BY <1>1, <2>1, NothingMarked DEF Queue!SlotsComeBack
  <2> QED
    BY <2>5, <2>6, <2>7 DEF Queue!QueueHolds
<1> QED
  BY <1>2, <1>3 DEF QueueInv

-----------------------------------------------------------------------------
(* Views: every position shown is stored at its own index.                 *)
LEMMA Wraps ==
  ASSUME NEW n \in Nat \ {0}, NEW x \in 0 .. 2 * n - 1
  PROVE  x % n = IF x < n THEN x ELSE x - n
<1>1. CASE x < n
  BY <1>1, SMTT(30)
<1>2. CASE x >= n
  BY <1>2, SMTT(30)
<1> QED BY <1>1, <1>2

ShapeOk == shape \in Seq(Nat \ {0})
OffsetOk ==
  /\ offset \in [View!Dimensions -> Int]
  /\ \A d \in View!Dimensions : 0 <= offset[d] /\ offset[d] < shape[d]
Shown ==
  \A p \in View!Box(origin, shape) :
    buffer[View!Index(View!Minus(p, origin))] = View!Element(p, field[p])

ViewInv ==
  /\ shape \in Shapes /\ ShapeOk
  /\ origin \in [View!Dimensions -> Int]
  /\ OffsetOk
  /\ DOMAIN buffer = View!Box(View!Zero, shape)
  /\ DOMAIN field = View!Box(origin, shape)
  /\ Shown

LEMMA InBox ==
  ASSUME NEW D, NEW from \in [D -> Int], NEW extent \in [D -> Int], NEW p
  PROVE  p \in View!Box(from, extent) <=>
           /\ p \in [D -> Int]
           /\ \A d \in D : from[d] <= p[d] /\ p[d] <= from[d] + extent[d] - 1
<1> DEFINE Coordinates == UNION {from[d] .. from[d] + extent[d] - 1 : d \in D}
<1>1. DOMAIN from = D
  OBVIOUS
<1>2. View!Box(from, extent) = {q \in [D -> Coordinates] :
                          \A d \in D : q[d] \in from[d] .. from[d] + extent[d] - 1}
  BY <1>1 DEF View!Box
<1>3. Coordinates \subseteq Int
  OBVIOUS
<1>4. ASSUME p \in View!Box(from, extent)
      PROVE  /\ p \in [D -> Int]
             /\ \A d \in D : from[d] <= p[d] /\ p[d] <= from[d] + extent[d] - 1
  <2>1. p \in [D -> Coordinates] /\ \A d \in D : p[d] \in from[d] .. from[d] + extent[d] - 1
    BY <1>2, <1>4
  <2>2. p \in [D -> Int]
    BY <2>1, <1>3
  <2> QED
    BY <2>1, <2>2
<1>5. ASSUME p \in [D -> Int],
             \A d \in D : from[d] <= p[d] /\ p[d] <= from[d] + extent[d] - 1
      PROVE  p \in View!Box(from, extent)
  <2>1. \A d \in D : p[d] \in from[d] .. from[d] + extent[d] - 1
    BY <1>5
  <2>2. \A d \in D : p[d] \in Coordinates
    BY <2>1
  <2>3. p \in [D -> Coordinates]
    BY <1>5, <2>2
  <2> QED
    BY <1>2, <2>1, <2>3
<1> QED
  BY <1>4, <1>5

LEMMA Dims ==
  ASSUME ShapeOk
  PROVE  /\ View!Dimensions = 1 .. Len(shape)
         /\ shape \in [View!Dimensions -> Nat \ {0}]
         /\ shape \in [View!Dimensions -> Int]
         /\ View!Zero \in [View!Dimensions -> Int]
         /\ \A d \in View!Dimensions : View!Zero[d] = 0 /\ shape[d] \in Nat /\ shape[d] > 0
<1>1. View!Dimensions = 1 .. Len(shape) /\ shape \in [View!Dimensions -> Nat \ {0}]
  BY DEF ShapeOk, View!Dimensions
<1>2. \A d \in View!Dimensions : shape[d] \in Nat \ {0}
  BY <1>1
<1>3. shape \in [View!Dimensions -> Int]
  BY <1>1
<1>4. View!Zero \in [View!Dimensions -> Int] /\ \A d \in View!Dimensions : View!Zero[d] = 0
  BY DEF View!Zero
<1> QED
  BY <1>1, <1>2, <1>3, <1>4

LEMMA InWindow ==
  ASSUME ShapeOk, NEW r
  PROVE  r \in View!Box(View!Zero, shape) <=>
           r \in [View!Dimensions -> Int] /\ \A d \in View!Dimensions : 0 <= r[d] /\ r[d] < shape[d]
<1>1. r \in View!Box(View!Zero, shape) <=>
        /\ r \in [View!Dimensions -> Int]
        /\ \A d \in View!Dimensions : View!Zero[d] <= r[d] /\ r[d] <= View!Zero[d] + shape[d] - 1
  BY Dims, InBox
<1>2. ASSUME r \in [View!Dimensions -> Int], NEW d \in View!Dimensions
      PROVE  (View!Zero[d] <= r[d] /\ r[d] <= View!Zero[d] + shape[d] - 1) <=> (0 <= r[d] /\ r[d] < shape[d])
  <2>1. r[d] \in Int /\ View!Zero[d] = 0 /\ shape[d] \in Nat
    BY <1>2, Dims
  <2> QED
    BY <2>1
<1> QED
  BY <1>1, <1>2

(* Where a coordinate is in the buffer.                                    *)
Turned(x, n) == IF x < n THEN x ELSE x - n

(* Index for any offset.                                                   *)
IndexFrom(o, r) == [d \in View!Dimensions |-> (r[d] + o[d]) % shape[d]]
OffsetIn(o) == o \in [View!Dimensions -> Int] /\ \A d \in View!Dimensions : 0 <= o[d] /\ o[d] < shape[d]

LEMMA IndexFromIs ==
  ASSUME ShapeOk, NEW o, OffsetIn(o), NEW r \in View!Box(View!Zero, shape)
  PROVE  /\ IndexFrom(o, r) \in View!Box(View!Zero, shape)
         /\ IndexFrom(o, r) = [d \in View!Dimensions |-> Turned(r[d] + o[d], shape[d])]
<1>1. ASSUME NEW d \in View!Dimensions
      PROVE  /\ (r[d] + o[d]) % shape[d] = Turned(r[d] + o[d], shape[d])
             /\ Turned(r[d] + o[d], shape[d]) \in Int
             /\ 0 <= Turned(r[d] + o[d], shape[d])
             /\ Turned(r[d] + o[d], shape[d]) < shape[d]
  <2>1. /\ r[d] \in Int /\ 0 <= r[d] /\ r[d] < shape[d]
        /\ o[d] \in Int /\ 0 <= o[d] /\ o[d] < shape[d] /\ shape[d] \in Nat \ {0}
    BY InWindow, Dims DEF OffsetIn
  <2>2. r[d] + o[d] \in 0 .. 2 * shape[d] - 1
    BY <2>1
  <2>3. (r[d] + o[d]) % shape[d] = Turned(r[d] + o[d], shape[d])
    BY <2>1, <2>2, Wraps DEF Turned
  <2> QED
    BY <2>1, <2>3 DEF Turned
<1>2. IndexFrom(o, r) = [d \in View!Dimensions |-> Turned(r[d] + o[d], shape[d])]
  BY <1>1 DEF IndexFrom
<1>3. IndexFrom(o, r) \in View!Box(View!Zero, shape)
  <2>1. IndexFrom(o, r) \in [View!Dimensions -> Int]
    BY <1>1, <1>2
  <2>2. \A d \in View!Dimensions : 0 <= IndexFrom(o, r)[d] /\ IndexFrom(o, r)[d] < shape[d]
    BY <1>1, <1>2
  <2> QED
    BY <2>1, <2>2, InWindow
<1> QED
  BY <1>2, <1>3

LEMMA IndexIs ==
  ASSUME ShapeOk, OffsetOk, NEW r \in View!Box(View!Zero, shape)
  PROVE  /\ View!Index(r) \in View!Box(View!Zero, shape)
         /\ View!Index(r) = [d \in View!Dimensions |-> Turned(r[d] + offset[d], shape[d])]
<1>1. View!Index(r) = IndexFrom(offset, r) /\ OffsetIn(offset)
  BY DEF View!Index, IndexFrom, OffsetIn, OffsetOk
<1> QED
  BY <1>1, IndexFromIs

LEMMA IndexOnce ==
  ASSUME ShapeOk, OffsetOk, NEW q \in View!Box(View!Zero, shape), NEW r \in View!Box(View!Zero, shape),
         View!Index(q) = View!Index(r)
  PROVE  q = r
<1>1. q \in [View!Dimensions -> Int] /\ r \in [View!Dimensions -> Int]
  BY InWindow
<1>2. ASSUME NEW d \in View!Dimensions
      PROVE  q[d] = r[d]
  <2>1. /\ r[d] \in Int /\ 0 <= r[d] /\ r[d] < shape[d] /\ q[d] \in Int /\ 0 <= q[d] /\ q[d] < shape[d]
        /\ offset[d] \in Int /\ 0 <= offset[d] /\ offset[d] < shape[d] /\ shape[d] \in Nat
    BY InWindow, Dims DEF OffsetOk
  <2>2. Turned(q[d] + offset[d], shape[d]) = Turned(r[d] + offset[d], shape[d])
    <3>1. View!Index(q)[d] = View!Index(r)[d]
      OBVIOUS
    <3>2. View!Index(q)[d] = Turned(q[d] + offset[d], shape[d])
      BY IndexIs
    <3>3. View!Index(r)[d] = Turned(r[d] + offset[d], shape[d])
      BY IndexIs
    <3> QED
      BY <3>1, <3>2, <3>3
  <2> QED
    BY <2>1, <2>2 DEF Turned
<1> QED
  BY <1>1, <1>2

(* A position of the window at `from` is as far from it as one in a window at zero. *)
LEMMA InPlace ==
  ASSUME ShapeOk, NEW from \in [View!Dimensions -> Int], NEW p \in View!Box(from, shape)
  PROVE  /\ p \in [View!Dimensions -> Int]
         /\ View!Minus(p, from) \in View!Box(View!Zero, shape)
         /\ View!Minus(p, from) = [d \in View!Dimensions |-> p[d] - from[d]]
<1>1. p \in [View!Dimensions -> Int] /\ \A d \in View!Dimensions : from[d] <= p[d] /\ p[d] <= from[d] + shape[d] - 1
  BY InBox, Dims
<1>2. View!Minus(p, from) = [d \in View!Dimensions |-> p[d] - from[d]]
  BY <1>1 DEF View!Minus
<1>3. ASSUME NEW d \in View!Dimensions
      PROVE  p[d] - from[d] \in Int /\ 0 <= p[d] - from[d] /\ p[d] - from[d] < shape[d]
  <2>1. p[d] \in Int /\ from[d] \in Int /\ shape[d] \in Nat /\ from[d] <= p[d] /\ p[d] <= from[d] + shape[d] - 1
    BY <1>1, Dims
  <2> QED
    BY <2>1
<1>4. View!Minus(p, from) \in [View!Dimensions -> Int]
  BY <1>2, <1>3
<1>5. \A d \in View!Dimensions : 0 <= View!Minus(p, from)[d] /\ View!Minus(p, from)[d] < shape[d]
  BY <1>2, <1>3
<1> QED
  BY <1>1, <1>2, <1>4, <1>5, InWindow

(* A box of the window is cleared, and nothing else.                       *)
ClearedAt(r, delta) ==
  IF Len(shape) = 1 THEN View!FromNewOrigin(r, delta) ELSE View!FromRelative(r, delta)
Boxed(boxes) == UNION {View!Box(b.from, b.size) : b \in boxes}

LEMMA ClearedIs ==
  ASSUME ShapeOk, OffsetOk, DOMAIN buffer = View!Box(View!Zero, shape), NEW delta, NEW boxes,
         Boxed(boxes) \subseteq View!Box(View!Zero, shape)
  PROVE  /\ DOMAIN View!Cleared(delta, boxes) = View!Box(View!Zero, shape)
         /\ \A r \in View!Box(View!Zero, shape) : View!Cleared(delta, boxes)[View!Index(r)] =
              IF r \in Boxed(boxes) THEN View!Element(ClearedAt(r, delta), Default)
              ELSE buffer[View!Index(r)]
<1> DEFINE rposes == Boxed(boxes)
           At(i) == CHOOSE r \in rposes : View!Index(r) = i
           indices == {View!Index(r) : r \in rposes}
<1>1. View!Cleared(delta, boxes) =
        [i \in DOMAIN buffer |-> IF i \in indices THEN View!Element(ClearedAt(At(i), delta), Default)
                                 ELSE buffer[i]]
  BY DEF View!Cleared, ClearedAt, Boxed
<1>2. ASSUME NEW r \in View!Box(View!Zero, shape)
      PROVE  View!Cleared(delta, boxes)[View!Index(r)] =
               IF r \in rposes THEN View!Element(ClearedAt(r, delta), Default) ELSE buffer[View!Index(r)]
  <2>1. View!Index(r) \in DOMAIN buffer
    BY IndexIs
  <2>2. CASE r \in rposes
    <3>1. View!Index(r) \in indices
      BY <2>2
    <3>2. At(View!Index(r)) \in rposes /\ View!Index(At(View!Index(r))) = View!Index(r)
      BY <2>2
    <3>3. At(View!Index(r)) = r
      BY <3>2, IndexOnce
    <3> HIDE DEF At, indices, rposes
    <3> QED
      BY <1>1, <2>1, <2>2, <3>1, <3>3
  <2>3. CASE r \notin rposes
    <3>1. View!Index(r) \notin indices
      <4>1. SUFFICES ASSUME NEW q \in rposes, View!Index(r) = View!Index(q) PROVE FALSE
        OBVIOUS
      <4>2. q \in View!Box(View!Zero, shape)
        OBVIOUS
      <4>3. q = r
        BY <4>1, <4>2, IndexOnce
      <4> QED
        BY <2>3, <4>3
    <3> HIDE DEF At, indices, rposes
    <3> QED
      BY <1>1, <2>1, <2>3, <3>1
  <2> QED
    BY <2>2, <2>3
<1> QED
  BY <1>1, <1>2

(* A fresh buffer shows the window it is made for.                         *)
LEMMA FreshIs ==
  ASSUME ShapeOk, NEW from \in [View!Dimensions -> Int]
  PROVE  /\ OffsetIn(View!Zero)
         /\ DOMAIN View!Fresh(from, shape) = View!Box(View!Zero, shape)
         /\ \A p \in View!Box(from, shape) :
              View!Fresh(from, shape)[IndexFrom(View!Zero, View!Minus(p, from))] = View!Element(p, Default)
<1>1. OffsetIn(View!Zero)
  BY Dims DEF OffsetIn
<1>2. DOMAIN from = View!Dimensions /\ View!Zero = [d \in DOMAIN from |-> 0]
  BY DEF View!Zero
<1>3. View!Fresh(from, shape) = [i \in View!Box(View!Zero, shape) |-> View!Element(View!Plus(from, i), Default)]
  BY <1>2 DEF View!Fresh
<1>4. ASSUME NEW p \in View!Box(from, shape)
      PROVE  View!Fresh(from, shape)[IndexFrom(View!Zero, View!Minus(p, from))] = View!Element(p, Default)
  <2> DEFINE r == View!Minus(p, from)
  <2>1. r \in View!Box(View!Zero, shape) /\ p \in [View!Dimensions -> Int] /\ r = [d \in View!Dimensions |-> p[d] - from[d]]
    BY InPlace
  <2>2. ASSUME NEW d \in View!Dimensions
        PROVE  Turned(r[d] + View!Zero[d], shape[d]) = r[d] /\ from[d] + r[d] = p[d]
    <3>1. r[d] = p[d] - from[d] /\ p[d] \in Int /\ from[d] \in Int /\ View!Zero[d] = 0 /\ r[d] \in Int /\ r[d] < shape[d]
      BY <2>1, Dims, InWindow
    <3> QED
      BY <3>1 DEF Turned
  <2>3. r \in [View!Dimensions -> Int]
    BY <2>1, InWindow
  <2> HIDE DEF r
  <2>4. IndexFrom(View!Zero, r) = r
    <3>1. IndexFrom(View!Zero, r) = [d \in View!Dimensions |-> Turned(r[d] + View!Zero[d], shape[d])]
      BY <1>1, <2>1, IndexFromIs
    <3>2. IndexFrom(View!Zero, r) = [d \in View!Dimensions |-> r[d]]
      BY <2>2, <3>1
    <3> QED
      BY <2>3, <3>2
  <2>5. View!Plus(from, r) = p
    <3>1. View!Plus(from, r) = [d \in View!Dimensions |-> from[d] + r[d]]
      BY DEF View!Plus
    <3>2. View!Plus(from, r) = [d \in View!Dimensions |-> p[d]]
      BY <2>2, <3>1
    <3> QED
      BY <2>1, <3>2
  <2>6. View!Fresh(from, shape)[IndexFrom(View!Zero, r)] = View!Element(p, Default)
    BY <1>3, <2>1, <2>4, <2>5
  <2> QED
    BY <2>6 DEF r
<1> QED
  BY <1>1, <1>3, <1>4

LEMMA ViewBegins == View!Init => ViewInv
<1> SUFFICES ASSUME View!Init
             PROVE  ViewInv
  OBVIOUS
<1>1. shape \in Shapes /\ ShapeOk /\ origin \in [View!Dimensions -> Int]
  BY ViewSizes DEF View!Init, ShapeOk, View!Dimensions
<1>2. offset = View!Zero /\ buffer = View!Fresh(origin, shape) /\ field = [p \in View!Box(origin, shape) |-> Default]
  BY DEF View!Init
<1>3. OffsetOk /\ DOMAIN buffer = View!Box(View!Zero, shape)
  BY <1>1, <1>2, FreshIs DEF OffsetOk, OffsetIn
<1>4. ASSUME NEW p \in View!Box(origin, shape)
      PROVE  buffer[View!Index(View!Minus(p, origin))] = View!Element(p, field[p])
  <2>1. View!Index(View!Minus(p, origin)) = IndexFrom(View!Zero, View!Minus(p, origin))
    BY <1>2 DEF View!Index, IndexFrom
  <2> QED
    BY <1>1, <1>2, <2>1, FreshIs
<1> QED
  BY <1>1, <1>2, <1>3, <1>4 DEF ViewInv, Shown

LEMMA ViewIsShown == ViewInv => View!ViewShowsField
<1> SUFFICES ASSUME ViewInv
             PROVE  View!ViewShowsField
  OBVIOUS
<1>1. ShapeOk /\ origin \in [View!Dimensions -> Int] /\ OffsetOk /\ DOMAIN field = View!Box(origin, shape) /\ Shown
  BY DEF ViewInv
<1>2. ASSUME NEW p \in View!Box(origin, shape)
      PROVE  View!IsInView(p)
  <2>1. ASSUME NEW d \in View!Dimensions
        PROVE  p[d] - origin[d] \in 0 .. shape[d] - 1
    <3>1. View!Minus(p, origin)[d] = p[d] - origin[d] /\ p[d] \in Int /\ origin[d] \in Int
      BY <1>1, InPlace
    <3>2. View!Minus(p, origin) \in View!Box(View!Zero, shape)
      BY <1>1, InPlace
    <3>3. 0 <= View!Minus(p, origin)[d] /\ View!Minus(p, origin)[d] < shape[d]
      BY <1>1, <3>2, InWindow
    <3>4. shape[d] \in Nat
      BY <1>1, Dims
    <3> QED
      BY <3>1, <3>3, <3>4
  <2> QED
    BY <2>1 DEF View!IsInView
<1>3. DOMAIN field = {p \in View!Box(origin, shape) : View!IsInView(p)}
  BY <1>1, <1>2
<1>4. \A p \in DOMAIN field : View!Get(p) = View!Element(p, field[p])
  BY <1>1 DEF Shown, View!Get
<1>5. ASSUME NEW p \in View!Box(origin, shape), NEW q \in View!Box(origin, shape),
             View!Index(View!Minus(p, origin)) = View!Index(View!Minus(q, origin))
      PROVE  p = q
  <2>1. View!Minus(p, origin) = View!Minus(q, origin)
    BY <1>1, <1>5, InPlace, IndexOnce
  <2>2. p \in [View!Dimensions -> Int] /\ q \in [View!Dimensions -> Int]
    BY <1>1, InPlace
  <2>3. ASSUME NEW d \in View!Dimensions
        PROVE  p[d] = q[d]
    <3>1. p[d] - origin[d] = q[d] - origin[d]
      <4>1. View!Minus(p, origin)[d] = View!Minus(q, origin)[d]
        BY <2>1
      <4>2. View!Minus(p, origin)[d] = p[d] - origin[d]
        BY <1>1, InPlace
      <4>3. View!Minus(q, origin)[d] = q[d] - origin[d]
        BY <1>1, InPlace
      <4> QED
        BY <4>1, <4>2, <4>3
    <3>2. p[d] \in Int /\ q[d] \in Int /\ origin[d] \in Int
      BY <1>1, <2>2
    <3> QED
      BY <3>1, <3>2
  <2> QED
    BY <2>2, <2>3
<1> QED
  BY <1>1, <1>3, <1>4, <1>5 DEF View!ViewShowsField

(* A step that leaves the window where it is keeps it, if every position   *)
(* shows what it is to.                                                    *)
LEMMA StillShown ==
  ASSUME ViewInv, UNCHANGED <<shape, origin, offset>>,
         DOMAIN buffer' = View!Box(View!Zero, shape), DOMAIN field' = View!Box(origin, shape),
         \A p \in View!Box(origin, shape) : buffer'[View!Index(View!Minus(p, origin))] = View!Element(p, field'[p])
  PROVE  ViewInv'
<1>1. View!Dimensions' = View!Dimensions /\ View!Zero' = View!Zero
  BY DEF View!Dimensions, View!Zero
<1>2. ASSUME NEW r
      PROVE  View!Index(r)' = View!Index(r)
  BY <1>1 DEF View!Index
<1>3. ShapeOk' /\ OffsetOk' /\ shape' \in Shapes /\ origin' \in [View!Dimensions' -> Int]
  BY <1>1 DEF ViewInv, ShapeOk, OffsetOk
<1>4. DOMAIN buffer' = View!Box(View!Zero', shape') /\ DOMAIN field' = View!Box(origin', shape')
  BY <1>1
<1>5. Shown'
  <2>1. SUFFICES ASSUME NEW p \in View!Box(origin, shape)
                 PROVE  buffer'[View!Index(View!Minus(p, origin))'] = View!Element(p, field'[p])
    BY DEF Shown
  <2>2. View!Minus(p, origin)' = View!Minus(p, origin)
    BY DEF View!Minus
  <2>3. View!Index(View!Minus(p, origin))' = View!Index(View!Minus(p, origin))
    BY <1>1, <2>2 DEF View!Index, View!Minus
  <2> QED
    BY <2>3
<1> QED
  BY <1>3, <1>4, <1>5 DEF ViewInv

(* What FromRelative computes, in one dimension.                           *)
Arrived(r, delta, d) ==
  IF r[d] - delta[d] < 0 THEN origin[d] + r[d] + shape[d]
  ELSE IF r[d] - delta[d] >= shape[d] THEN (origin[d] + r[d]) - shape[d]
  ELSE origin[d] + r[d]

LEMMA FromRelativeIs ==
  ASSUME ShapeOk, origin \in [View!Dimensions -> Int],
         NEW r \in [View!Dimensions -> Int], NEW delta \in [View!Dimensions -> Int]
  PROVE  View!FromRelative(r, delta) = [d \in View!Dimensions |-> Arrived(r, delta, d)]
<1> DEFINE F == View!FromRelative(r, delta)
<1>1. ASSUME NEW d \in View!Dimensions
      PROVE  F[d] = Arrived(r, delta, d)
  <2> DEFINE o == origin[d]
             x == r[d]
             y == delta[d]
             n == shape[d]
             pos == o + x
             low == pos - y < o
             high == pos - y >= o + n
  <2>1. o \in Int /\ x \in Int /\ y \in Int /\ n \in Int /\ n > 0
    BY Dims
  <2>2. F[d] = CASE low -> pos + n [] high -> pos - n [] OTHER -> pos
    BY DEF View!FromRelative
  <2>3. Arrived(r, delta, d) = IF x - y < 0 THEN pos + n ELSE IF x - y >= n THEN pos - n ELSE pos
    BY DEF Arrived
  <2>4. (low <=> x - y < 0) /\ (high <=> x - y >= n) /\ ~(low /\ high)
    <3> HIDE DEF o, x, y, n
    <3> QED
      BY <2>1
  <2> HIDE DEF o, x, y, n, pos, low, high, F
  <2> QED
    BY <2>2, <2>3, <2>4
<1>2. F = [d \in View!Dimensions |-> F[d]]
  BY DEF View!FromRelative
<1> HIDE DEF F
<1>3. F = [d \in View!Dimensions |-> Arrived(r, delta, d)]
  BY <1>1, <1>2
<1> QED
  BY <1>3 DEF F

LEMMA ViewSet ==
  ASSUME ViewInv, NEW pos \in View!Box(origin, shape), NEW value, View!Set(pos, value)
  PROVE  ViewInv'
<1>1. ShapeOk /\ origin \in [View!Dimensions -> Int] /\ OffsetOk /\ Shown
      /\ DOMAIN buffer = View!Box(View!Zero, shape) /\ DOMAIN field = View!Box(origin, shape)
  BY DEF ViewInv
<1> DEFINE at(p) == View!Index(View!Minus(p, origin))
<1>2. /\ buffer' = [buffer EXCEPT ![at(pos)].value = value]
      /\ field' = [field EXCEPT ![pos] = value]
      /\ UNCHANGED <<shape, origin, offset>>
  BY DEF View!Set
<1>3. \A p \in View!Box(origin, shape) : at(p) \in DOMAIN buffer /\ buffer[at(p)] = View!Element(p, field[p])
  BY <1>1, InPlace, IndexIs DEF Shown
<1>4. ASSUME NEW p \in View!Box(origin, shape), p # pos
      PROVE  at(p) # at(pos)
  BY <1>1, <1>4, ViewIsShown DEF View!ViewShowsField
<1> HIDE DEF at
<1>5. ASSUME NEW p \in View!Box(origin, shape)
      PROVE  buffer'[at(p)] = View!Element(p, field'[p])
  <2>1. CASE p = pos
    <3>1. buffer'[at(pos)] = [buffer[at(pos)] EXCEPT !.value = value]
      BY <1>2, <1>3
    <3>2. buffer'[at(pos)] = View!Element(pos, value)
      <4>1. buffer[at(pos)] = View!Element(pos, field[pos])
        BY <1>3
      <4>2. [View!Element(pos, field[pos]) EXCEPT !.value = value] = View!Element(pos, value)
        BY DEF View!Element
      <4> QED
        BY <3>1, <4>1, <4>2
    <3>3. field'[pos] = value
      BY <1>1, <1>2
    <3> QED
      BY <2>1, <3>2, <3>3
  <2>2. CASE p # pos
    <3>1. buffer'[at(p)] = buffer[at(p)]
      BY <1>2, <1>3, <1>4, <2>2
    <3>2. field'[p] = field[p]
      BY <1>1, <1>2, <2>2
    <3> QED
      BY <1>3, <3>1, <3>2
  <2> QED
    BY <2>1, <2>2
<1>6. DOMAIN buffer' = View!Box(View!Zero, shape) /\ DOMAIN field' = View!Box(origin, shape)
  BY <1>1, <1>2
<1>7. \A p \in View!Box(origin, shape) : buffer'[View!Index(View!Minus(p, origin))] = View!Element(p, field'[p])
  BY <1>5 DEF at
<1> QED
  BY <1>2, <1>6, <1>7, StillShown

LEMMA ViewClear ==
  ASSUME ViewInv, NEW pos \in [View!Dimensions -> Int], NEW extent \in [View!Dimensions -> Int],
         View!Clear(pos, extent)
  PROVE  ViewInv'
<1>1. ShapeOk /\ origin \in [View!Dimensions -> Int] /\ OffsetOk /\ Shown
      /\ DOMAIN buffer = View!Box(View!Zero, shape) /\ DOMAIN field = View!Box(origin, shape)
  BY DEF ViewInv
<1> DEFINE Start(d) == IF pos[d] < origin[d] THEN 0 ELSE pos[d] - origin[d]
           Length(d) == IF pos[d] < origin[d] THEN extent[d] + pos[d] - origin[d] ELSE extent[d]
           Fits(d)  == IF Length(d) < shape[d] - Start(d) THEN Length(d)
                       ELSE shape[d] - Start(d)
           from == [d \in View!Dimensions |-> Start(d)]
           fits == [d \in View!Dimensions |-> Fits(d)]
           box == [from |-> from, size |-> fits]
<1>2. /\ buffer' = IF \A d \in View!Dimensions : Fits(d) > 0 THEN View!Cleared(View!Zero, {box}) ELSE buffer
      /\ field' = [p \in DOMAIN field |-> IF p \in View!Box(pos, extent) THEN Default ELSE field[p]]
      /\ UNCHANGED <<shape, origin, offset>>
  BY DEF View!Clear
<1>3. ASSUME NEW d \in View!Dimensions
      PROVE  /\ pos[d] \in Int /\ extent[d] \in Int /\ origin[d] \in Int /\ shape[d] \in Int
             /\ Start(d) \in Int /\ Fits(d) \in Int /\ View!Zero[d] = 0
  BY <1>1, Dims
<1>4. from \in [View!Dimensions -> Int] /\ fits \in [View!Dimensions -> Int]
  BY <1>3
<1>5. ASSUME NEW p \in View!Box(origin, shape), NEW d \in View!Dimensions
      PROVE  (pos[d] <= p[d] /\ p[d] <= pos[d] + extent[d] - 1) <=>
               (Start(d) <= View!Minus(p, origin)[d] /\ View!Minus(p, origin)[d] <= Start(d) + Fits(d) - 1)
  <2>1. /\ p[d] \in Int /\ View!Minus(p, origin)[d] = p[d] - origin[d]
        /\ 0 <= View!Minus(p, origin)[d] /\ View!Minus(p, origin)[d] < shape[d]
    BY <1>1, InPlace, InWindow
  <2>2. 0 <= p[d] - origin[d] /\ p[d] - origin[d] < shape[d]
    BY <2>1
  <2> QED
    BY <1>3, <2>1, <2>2
<1>6. ASSUME NEW p \in View!Box(origin, shape)
      PROVE  p \in View!Box(pos, extent) <=> View!Minus(p, origin) \in View!Box(from, fits)
  <2>1. p \in [View!Dimensions -> Int] /\ View!Minus(p, origin) \in [View!Dimensions -> Int]
    BY <1>1, InPlace, InWindow
  <2>2. p \in View!Box(pos, extent) <=> \A d \in View!Dimensions : pos[d] <= p[d] /\ p[d] <= pos[d] + extent[d] - 1
    BY <2>1, InBox
  <2>3. View!Minus(p, origin) \in View!Box(from, fits) <=>
          \A d \in View!Dimensions : Start(d) <= View!Minus(p, origin)[d] /\ View!Minus(p, origin)[d] <= Start(d) + Fits(d) - 1
    <3>1. \A d \in View!Dimensions : from[d] = Start(d) /\ fits[d] = Fits(d)
      OBVIOUS
    <3> HIDE DEF from, fits, Start, Fits
    <3> QED
      BY <1>4, <2>1, <3>1, InBox
  <2> HIDE DEF from, fits, Start, Fits
  <2> QED
    BY <1>5, <2>2, <2>3
<1>7. ASSUME NEW p \in View!Box(origin, shape)
      PROVE  /\ View!Minus(p, origin) \in View!Box(View!Zero, shape)
             /\ buffer[View!Index(View!Minus(p, origin))] = View!Element(p, field[p])
             /\ field'[p] = IF p \in View!Box(pos, extent) THEN Default ELSE field[p]
  BY <1>1, <1>2, InPlace DEF Shown
<1>8. DOMAIN field' = View!Box(origin, shape)
  BY <1>1, <1>2
<1>9. CASE \A d \in View!Dimensions : Fits(d) > 0
  <2>1. buffer' = View!Cleared(View!Zero, {box}) /\ Boxed({box}) = View!Box(from, fits)
    <3>1. Boxed({box}) = View!Box(box.from, box.size)
      BY DEF Boxed
    <3>2. box.from = from /\ box.size = fits
      OBVIOUS
    <3> QED
      BY <1>2, <1>9, <3>1, <3>2
  <2>2. View!Box(from, fits) \subseteq View!Box(View!Zero, shape)
    <3>1. SUFFICES ASSUME NEW r \in View!Box(from, fits) PROVE r \in View!Box(View!Zero, shape)
      OBVIOUS
    <3>2. /\ r \in [View!Dimensions -> Int]
          /\ \A d \in View!Dimensions : from[d] <= r[d] /\ r[d] <= from[d] + fits[d] - 1
      <4> HIDE DEF from, fits
      <4> QED
        BY <1>4, InBox
    <3>3. ASSUME NEW d \in View!Dimensions
          PROVE  0 <= r[d] /\ r[d] < shape[d]
      <4>1. r[d] \in Int /\ Start(d) <= r[d] /\ r[d] <= Start(d) + Fits(d) - 1
        BY <3>2
      <4> QED
        BY <1>3, <4>1
    <3> QED
      BY <1>1, <3>2, <3>3, InWindow
  <2> HIDE DEF box, from, fits, Start, Fits
  <2>3. /\ DOMAIN buffer' = View!Box(View!Zero, shape)
        /\ \A r \in View!Box(View!Zero, shape) : buffer'[View!Index(r)] =
             IF r \in View!Box(from, fits) THEN View!Element(ClearedAt(r, View!Zero), Default) ELSE buffer[View!Index(r)]
    <3> DEFINE boxes == {box}
    <3>1. buffer' = View!Cleared(View!Zero, boxes) /\ Boxed(boxes) = View!Box(from, fits)
      BY <2>1
    <3> HIDE DEF boxes
    <3>2. Boxed(boxes) \subseteq View!Box(View!Zero, shape)
      BY <2>2, <3>1
    <3>3. /\ DOMAIN View!Cleared(View!Zero, boxes) = View!Box(View!Zero, shape)
          /\ \A r \in View!Box(View!Zero, shape) : View!Cleared(View!Zero, boxes)[View!Index(r)] =
               IF r \in Boxed(boxes) THEN View!Element(ClearedAt(r, View!Zero), Default)
               ELSE buffer[View!Index(r)]
      BY <1>1, <3>2, ClearedIs
    <3> QED
      BY <3>1, <3>3
  <2>4. ASSUME NEW p \in View!Box(origin, shape)
        PROVE  ClearedAt(View!Minus(p, origin), View!Zero) = p
    <3> DEFINE r == View!Minus(p, origin)
    <3>1. /\ p \in [View!Dimensions -> Int] /\ r \in [View!Dimensions -> Int]
          /\ \A d \in View!Dimensions : r[d] = p[d] - origin[d] /\ 0 <= r[d] /\ r[d] < shape[d]
      BY <1>1, InPlace, InWindow
    <3> HIDE DEF r
    <3>2. CASE Len(shape) = 1
      <4>1. View!Dimensions = {1}
        BY <1>1, <3>2, Dims
      <4>2. View!Zero[1] = 0 /\ r[1] + origin[1] = p[1]
        BY <1>3, <3>1, <4>1
      <4>3. View!FromNewOrigin(r, View!Zero) = <<p[1]>>
        BY <4>2 DEF View!FromNewOrigin
      <4>4. <<p[1]>> = p
        BY <3>1, <4>1
      <4> QED
        BY <3>2, <4>3, <4>4 DEF ClearedAt, r
    <3>3. CASE Len(shape) # 1
      <4>1. View!FromRelative(r, View!Zero) = [d \in View!Dimensions |-> p[d]]
        <5>1. ASSUME NEW d \in View!Dimensions
              PROVE  Arrived(r, View!Zero, d) = p[d]
          <6>1. r[d] = p[d] - origin[d] /\ 0 <= r[d] /\ r[d] < shape[d] /\ r[d] \in Int /\ p[d] \in Int
            BY <3>1
          <6> QED
            BY <1>3, <6>1 DEF Arrived
        <5>2. View!FromRelative(r, View!Zero) = [d \in View!Dimensions |-> Arrived(r, View!Zero, d)]
          BY <1>1, <3>1, Dims, FromRelativeIs
        <5> QED
          BY <5>1, <5>2
      <4> QED
        BY <3>1, <3>3, <4>1 DEF ClearedAt, r
    <3> QED
      BY <3>2, <3>3
  <2>5. ASSUME NEW p \in View!Box(origin, shape)
        PROVE  buffer'[View!Index(View!Minus(p, origin))] = View!Element(p, field'[p])
    BY <1>6, <1>7, <2>3, <2>4
  <2> QED
    BY <1>2, <1>8, <2>3, <2>5, StillShown
<1>10. CASE ~(\A d \in View!Dimensions : Fits(d) > 0)
  <2>1. PICK d \in View!Dimensions : ~(Fits(d) > 0)
    BY <1>10
  <2>2. buffer' = buffer
    BY <1>2, <1>10
  <2>3. ASSUME NEW p \in View!Box(origin, shape)
        PROVE  p \notin View!Box(pos, extent)
    <3>1. SUFFICES ASSUME p \in View!Box(pos, extent) PROVE FALSE
      OBVIOUS
    <3>2. View!Minus(p, origin) \in View!Box(from, fits)
      BY <1>6, <3>1
    <3>3. /\ View!Minus(p, origin) \in [View!Dimensions -> Int]
          /\ from[d] <= View!Minus(p, origin)[d] /\ View!Minus(p, origin)[d] <= from[d] + fits[d] - 1
      <4> HIDE DEF from, fits
      <4> QED
        BY <1>4, <3>2, InBox
    <3>4. from[d] = Start(d) /\ fits[d] = Fits(d) /\ Start(d) \in Int /\ Fits(d) \in Int /\ View!Minus(p, origin)[d] \in Int
      BY <1>3, <3>3
    <3> HIDE DEF from, fits, Start, Fits
    <3> QED
      BY <2>1, <3>3, <3>4
  <2> HIDE DEF box, from, fits, Start, Fits
  <2>4. ASSUME NEW p \in View!Box(origin, shape)
        PROVE  buffer'[View!Index(View!Minus(p, origin))] = View!Element(p, field'[p])
    BY <1>7, <2>2, <2>3
  <2> QED
    BY <1>1, <1>2, <1>8, <2>2, <2>4, StillShown
<1> QED
  BY <1>9, <1>10

(* A step that moves the window keeps it, if every position of the new one *)
(* shows what it is to.                                                    *)
LEMMA MovedShown ==
  ASSUME ViewInv, shape' = shape, NEW to \in [View!Dimensions -> Int], origin' = to,
         NEW o, offset' = o, OffsetIn(o),
         DOMAIN buffer' = View!Box(View!Zero, shape), DOMAIN field' = View!Box(to, shape),
         \A p \in View!Box(to, shape) : buffer'[IndexFrom(o, View!Minus(p, to))] = View!Element(p, field'[p])
  PROVE  ViewInv'
<1>1. View!Dimensions' = View!Dimensions /\ View!Zero' = View!Zero
  BY DEF View!Dimensions, View!Zero
<1>2. ShapeOk' /\ OffsetOk' /\ shape' \in Shapes /\ origin' \in [View!Dimensions' -> Int]
  BY <1>1 DEF ViewInv, ShapeOk, OffsetOk, OffsetIn
<1>3. DOMAIN buffer' = View!Box(View!Zero', shape') /\ DOMAIN field' = View!Box(origin', shape')
  BY <1>1
<1>4. Shown'
  <2>1. SUFFICES ASSUME NEW p \in View!Box(to, shape)
                 PROVE  buffer'[View!Index(View!Minus(p, origin))'] = View!Element(p, field'[p])
    BY DEF Shown
  <2>2. View!Index(View!Minus(p, origin))' = IndexFrom(o, View!Minus(p, to))
    BY <1>1 DEF View!Index, IndexFrom, View!Minus
  <2> QED
    BY <2>2
<1> QED
  BY <1>2, <1>3, <1>4 DEF ViewInv

LEMMA ViewMovesFar ==
  ASSUME ViewInv, NEW to \in [View!Dimensions -> Int], View!SetOrigin(to), View!IsFar(View!Minus(to, origin))
  PROVE  ViewInv'
<1>1. ShapeOk /\ origin \in [View!Dimensions -> Int] /\ DOMAIN field = View!Box(origin, shape)
  BY DEF ViewInv
<1>2. /\ origin' = to /\ offset' = View!Zero /\ buffer' = View!Fresh(to, shape) /\ shape' = shape
      /\ field' = [p \in View!Box(to, shape) |-> IF p \in DOMAIN field THEN field[p] ELSE Default]
  BY DEF View!SetOrigin
<1>3. ASSUME NEW p \in View!Box(to, shape)
      PROVE  p \notin View!Box(origin, shape)
  <2>1. SUFFICES ASSUME p \in View!Box(origin, shape) PROVE FALSE
    OBVIOUS
  <2>2. PICK d \in View!Dimensions : \/ View!Minus(to, origin)[d] >= shape[d]
                                \/ View!Minus(to, origin)[d] <= -shape[d]
    BY DEF View!IsFar
  <2>3. View!Minus(to, origin)[d] = to[d] - origin[d]
    BY DEF View!Minus
  <2>4. /\ View!Minus(p, to)[d] = p[d] - to[d] /\ 0 <= View!Minus(p, to)[d] /\ View!Minus(p, to)[d] < shape[d]
        /\ View!Minus(p, origin)[d] = p[d] - origin[d] /\ 0 <= View!Minus(p, origin)[d] /\ View!Minus(p, origin)[d] < shape[d]
        /\ p[d] \in Int
    BY <1>1, <2>1, InPlace, InWindow
  <2>5. to[d] \in Int /\ origin[d] \in Int /\ shape[d] \in Int
    BY <1>1, Dims
  <2>6. 0 <= p[d] - to[d] /\ p[d] - to[d] < shape[d] /\ 0 <= p[d] - origin[d] /\ p[d] - origin[d] < shape[d]
    BY <2>4
  <2>7. to[d] - origin[d] >= shape[d] \/ to[d] - origin[d] <= -shape[d]
    BY <2>2, <2>3
  <2> QED
    BY <2>4, <2>5, <2>6, <2>7
<1>4. \A p \in View!Box(to, shape) : field'[p] = Default
  BY <1>1, <1>2, <1>3
<1>5. \A p \in View!Box(to, shape) : buffer'[IndexFrom(View!Zero, View!Minus(p, to))] = View!Element(p, field'[p])
  BY <1>1, <1>2, <1>4, FreshIs
<1>6. DOMAIN field' = View!Box(to, shape) /\ DOMAIN buffer' = View!Box(View!Zero, shape) /\ OffsetIn(View!Zero)
  BY <1>1, <1>2, FreshIs
<1> QED
  BY <1>2, <1>5, <1>6, MovedShown

IsNear(delta) ==
  /\ delta \in [View!Dimensions -> Int]
  /\ \A d \in View!Dimensions : -shape[d] < delta[d] /\ delta[d] < shape[d]

(* Where a strip begins in a dimension, and how long it is.                *)
FromAt(d, delta, e) ==
  IF e = d THEN IF delta[e] < 0 THEN shape[e] + delta[e] ELSE 0
  ELSE IF e > d \/ delta[e] < 0 THEN 0 ELSE delta[e]
SizeAt(d, delta, e) ==
  IF e = d THEN IF delta[e] < 0 THEN -delta[e] ELSE delta[e]
  ELSE IF e > d THEN shape[e] ELSE IF delta[e] < 0 THEN shape[e] + delta[e] ELSE shape[e] - delta[e]

LEMMA StripIs ==
  ASSUME ShapeOk, NEW delta, IsNear(delta), NEW d \in View!Dimensions
  PROVE  /\ View!Strip(d, delta).from = [e \in View!Dimensions |-> FromAt(d, delta, e)]
         /\ View!Strip(d, delta).size = [e \in View!Dimensions |-> SizeAt(d, delta, e)]
<1> DEFINE Part(e) == CASE e # d -> View!RestOf(d, delta, e)
                        [] e = d /\ delta[d] < 0 ->
                             [from |-> shape[d] + delta[d], size |-> -delta[d]]
                        [] OTHER -> [from |-> 0, size |-> delta[d]]
<1>1. /\ View!Strip(d, delta).from = [e \in View!Dimensions |-> Part(e).from]
      /\ View!Strip(d, delta).size = [e \in View!Dimensions |-> Part(e).size]
  BY DEF View!Strip
<1>2. ASSUME NEW e \in View!Dimensions
      PROVE  Part(e).from = FromAt(d, delta, e) /\ Part(e).size = SizeAt(d, delta, e)
  <2>1. e \in Int /\ d \in Int
    BY Dims
  <2>2. CASE e > d
    <3>1. View!RestOf(d, delta, e) = [from |-> 0, size |-> shape[e]]
      BY <2>1, <2>2 DEF View!RestOf
    <3>2. Part(e) = [from |-> 0, size |-> shape[e]]
      BY <2>1, <2>2, <3>1
    <3> HIDE DEF Part
    <3> QED
      BY <2>1, <2>2, <3>2 DEF FromAt, SizeAt
  <2>3. CASE e < d /\ delta[e] < 0
    <3>1. View!RestOf(d, delta, e) = [from |-> 0, size |-> shape[e] + delta[e]]
      BY <2>1, <2>3 DEF View!RestOf
    <3>2. Part(e) = [from |-> 0, size |-> shape[e] + delta[e]]
      BY <2>1, <2>3, <3>1
    <3> HIDE DEF Part
    <3> QED
      BY <2>1, <2>3, <3>2 DEF FromAt, SizeAt
  <2>4. CASE e < d /\ ~(delta[e] < 0)
    <3>1. View!RestOf(d, delta, e) = [from |-> delta[e], size |-> shape[e] - delta[e]]
      BY <2>1, <2>4 DEF View!RestOf
    <3>2. Part(e) = [from |-> delta[e], size |-> shape[e] - delta[e]]
      BY <2>1, <2>4, <3>1
    <3> HIDE DEF Part
    <3> QED
      BY <2>1, <2>4, <3>2 DEF FromAt, SizeAt
  <2>5. CASE e = d /\ delta[d] < 0
    <3>1. Part(e) = [from |-> shape[d] + delta[d], size |-> -delta[d]]
      BY <2>5
    <3> HIDE DEF Part
    <3> QED
      BY <2>5, <3>1 DEF FromAt, SizeAt
  <2>6. CASE e = d /\ ~(delta[d] < 0)
    <3>1. Part(e) = [from |-> 0, size |-> delta[d]]
      BY <2>6
    <3> HIDE DEF Part
    <3> QED
      BY <2>6, <3>1 DEF FromAt, SizeAt
  <2> HIDE DEF Part
  <2> QED
    BY <2>1, <2>2, <2>3, <2>4, <2>5, <2>6
<1> HIDE DEF Part
<1> QED
  BY <1>1, <1>2

(* The element at r leaves the window in dimension e.                      *)
Leaves(r, delta, e) == r[e] - delta[e] < 0 \/ r[e] - delta[e] >= shape[e]

LEMMA StripCovers ==
  ASSUME ShapeOk, NEW delta, IsNear(delta), NEW d \in View!Dimensions, NEW r
  PROVE  r \in View!Box(View!Strip(d, delta).from, View!Strip(d, delta).size) <=>
           /\ r \in View!Box(View!Zero, shape) /\ Leaves(r, delta, d)
           /\ \A e \in View!Dimensions : e < d => ~Leaves(r, delta, e)
<1> DEFINE from == [e \in View!Dimensions |-> FromAt(d, delta, e)]
           sizes == [e \in View!Dimensions |-> SizeAt(d, delta, e)]
<1>1. ASSUME NEW e \in View!Dimensions
      PROVE  /\ e \in Int /\ d \in Int /\ delta[e] \in Int /\ shape[e] \in Int /\ shape[e] > 0
             /\ -shape[e] < delta[e] /\ delta[e] < shape[e]
             /\ FromAt(d, delta, e) \in Int /\ SizeAt(d, delta, e) \in Int
  <2>1. /\ e \in Int /\ d \in Int /\ delta[e] \in Int /\ shape[e] \in Int /\ shape[e] > 0
        /\ -shape[e] < delta[e] /\ delta[e] < shape[e]
    BY Dims DEF IsNear
  <2> QED
    BY <2>1 DEF FromAt, SizeAt
<1>2. from \in [View!Dimensions -> Int] /\ sizes \in [View!Dimensions -> Int]
  BY <1>1
<1>3. r \in View!Box(from, sizes) <=>
        /\ r \in [View!Dimensions -> Int]
        /\ \A e \in View!Dimensions : from[e] <= r[e] /\ r[e] <= from[e] + sizes[e] - 1
  <2> HIDE DEF from, sizes
  <2> QED
    BY <1>2, InBox
<1>4. ASSUME r \in [View!Dimensions -> Int], NEW e \in View!Dimensions
      PROVE  (from[e] <= r[e] /\ r[e] <= from[e] + sizes[e] - 1) <=>
               /\ 0 <= r[e] /\ r[e] < shape[e]
               /\ e = d => Leaves(r, delta, e)
               /\ e < d => ~Leaves(r, delta, e)
  <2>1. r[e] \in Int /\ from[e] = FromAt(d, delta, e) /\ sizes[e] = SizeAt(d, delta, e)
    BY <1>4
  <2> HIDE DEF from, sizes
  <2>2. CASE e = d
    BY <1>1, <2>1, <2>2 DEF FromAt, SizeAt, Leaves
  <2>3. CASE e < d
    BY <1>1, <2>1, <2>3 DEF FromAt, SizeAt, Leaves
  <2>4. CASE e > d
    BY <1>1, <2>1, <2>4 DEF FromAt, SizeAt
  <2> QED
    BY <1>1, <2>2, <2>3, <2>4
<1>5. r \in View!Box(View!Zero, shape) <=>
        r \in [View!Dimensions -> Int] /\ \A e \in View!Dimensions : 0 <= r[e] /\ r[e] < shape[e]
  BY InWindow
<1>6. r \in View!Box(from, sizes) <=>
           /\ r \in View!Box(View!Zero, shape) /\ Leaves(r, delta, d)
           /\ \A e \in View!Dimensions : e < d => ~Leaves(r, delta, e)
  <2> HIDE DEF from, sizes
  <2> QED
    BY <1>3, <1>4, <1>5
<1>7. View!Strip(d, delta).from = from /\ View!Strip(d, delta).size = sizes
  BY StripIs
<1> HIDE DEF from, sizes
<1> QED
  BY <1>6, <1>7

(* What the strips cover is what leaves the window.                        *)
LEMMA StripsCover ==
  ASSUME ShapeOk, NEW delta, IsNear(delta), NEW r
  PROVE  r \in Boxed({View!Strip(d, delta) : d \in View!Dimensions}) <=>
           r \in View!Box(View!Zero, shape) /\ \E d \in View!Dimensions : Leaves(r, delta, d)
<1>1. r \in Boxed({View!Strip(d, delta) : d \in View!Dimensions}) <=>
        \E d \in View!Dimensions : r \in View!Box(View!Strip(d, delta).from, View!Strip(d, delta).size)
  BY DEF Boxed
<1>2. ASSUME NEW d \in View!Dimensions, r \in View!Box(View!Strip(d, delta).from, View!Strip(d, delta).size)
      PROVE  r \in View!Box(View!Zero, shape) /\ Leaves(r, delta, d)
  BY <1>2, StripCovers
<1>3. ASSUME NEW d \in View!Dimensions, Leaves(r, delta, d), r \in View!Box(View!Zero, shape)
      PROVE  \E e \in View!Dimensions : r \in View!Box(View!Strip(e, delta).from, View!Strip(e, delta).size)
  <2> DEFINE D == {e \in View!Dimensions : Leaves(r, delta, e)}
  <2>1. D \in SUBSET Nat /\ D # {}
    BY <1>3, Dims
  <2>2. PICK e \in D : \A f \in D : e <= f
    BY <2>1, LeastNumber
  <2>3. \A f \in View!Dimensions : f < e => ~Leaves(r, delta, f)
    <3>1. SUFFICES ASSUME NEW f \in View!Dimensions, f < e, Leaves(r, delta, f) PROVE FALSE
      OBVIOUS
    <3>2. f \in Nat /\ e \in Nat /\ e <= f
      BY <2>1, <2>2, <3>1
    <3> QED
      BY <3>1, <3>2
  <2>4. e \in View!Dimensions /\ Leaves(r, delta, e)
    BY <2>2
  <2>5. r \in View!Box(View!Strip(e, delta).from, View!Strip(e, delta).size)
    BY <1>3, <2>3, <2>4, StripCovers
  <2> QED
    BY <2>4, <2>5
<1> QED
  BY <1>1, <1>2, <1>3

(* Where the element of a relative position was before the window moved.   *)
Before(x, delta, n) == IF x + delta < 0 THEN x + delta + n
                       ELSE IF x + delta >= n THEN x + delta - n ELSE x + delta

LEMMA OffsetMoves ==
  ASSUME ShapeOk, OffsetOk, NEW delta, IsNear(delta), NEW x \in View!Box(View!Zero, shape)
  PROVE  LET r == [d \in View!Dimensions |-> Before(x[d], delta[d], shape[d])]
         IN /\ OffsetIn(View!OffsetBy(delta))
            /\ r \in View!Box(View!Zero, shape)
            /\ IndexFrom(View!OffsetBy(delta), x) = View!Index(r)
<1> DEFINE r == [d \in View!Dimensions |-> Before(x[d], delta[d], shape[d])]
           o == View!OffsetBy(delta)
           Shifted(d) == IF offset[d] + delta[d] < 0 THEN offset[d] + delta[d] + shape[d]
                       ELSE IF offset[d] + delta[d] >= shape[d] THEN (offset[d] + delta[d]) - shape[d]
                       ELSE offset[d] + delta[d]
<1>1. ASSUME NEW d \in View!Dimensions
      PROVE  /\ x[d] \in Int /\ 0 <= x[d] /\ x[d] < shape[d]
             /\ offset[d] \in Int /\ 0 <= offset[d] /\ offset[d] < shape[d]
             /\ delta[d] \in Int /\ -shape[d] < delta[d] /\ delta[d] < shape[d]
             /\ shape[d] \in Int /\ shape[d] > 0
  BY Dims, InWindow DEF OffsetOk, IsNear
<1>2. ASSUME NEW d \in View!Dimensions
      PROVE  o[d] = Shifted(d)
  <2> DEFINE low == offset[d] + delta[d] < 0
             high == offset[d] + delta[d] >= shape[d]
  <2>1. o[d] = CASE low -> offset[d] + delta[d] + shape[d]
                 [] high -> (offset[d] + delta[d]) - shape[d]
                 [] OTHER -> offset[d] + delta[d]
    BY DEF View!OffsetBy
  <2>2. ~(low /\ high)
    BY <1>1
  <2> HIDE DEF o
  <2> QED
    BY <2>1, <2>2
<1>3. o = [d \in View!Dimensions |-> Shifted(d)]
  <2>1. o = [d \in View!Dimensions |-> o[d]]
    BY DEF View!OffsetBy
  <2> HIDE DEF o, Shifted
  <2> QED
    BY <1>2, <2>1
<1>4. OffsetIn(o)
  <2>1. ASSUME NEW d \in View!Dimensions
        PROVE  Shifted(d) \in Int /\ 0 <= Shifted(d) /\ Shifted(d) < shape[d]
    BY <1>1
  <2> HIDE DEF o, Shifted
  <2> QED
    BY <1>3, <2>1 DEF OffsetIn
<1>5. r \in View!Box(View!Zero, shape)
  <2>1. ASSUME NEW d \in View!Dimensions
        PROVE  r[d] \in Int /\ 0 <= r[d] /\ r[d] < shape[d]
    BY <1>1 DEF Before
  <2>2. r \in [View!Dimensions -> Int]
    BY <2>1
  <2> HIDE DEF r
  <2> QED
    BY <2>1, <2>2, InWindow
<1>6. ASSUME NEW d \in View!Dimensions
      PROVE  Turned(x[d] + Shifted(d), shape[d]) = Turned(r[d] + offset[d], shape[d])
  BY <1>1 DEF Before, Turned
<1>7. IndexFrom(o, x) = View!Index(r)
  <2> HIDE DEF o, r, Shifted
  <2>1. IndexFrom(o, x) = [d \in View!Dimensions |-> Turned(x[d] + o[d], shape[d])]
    BY <1>4, IndexFromIs
  <2>2. View!Index(r) = [d \in View!Dimensions |-> Turned(r[d] + offset[d], shape[d])]
    BY <1>5, IndexIs
  <2> QED
    BY <1>2, <1>6, <2>1, <2>2
<1> HIDE DEF o, r
<1> QED
  BY <1>4, <1>5, <1>7 DEF o, r

LEMMA ViewMovesNear ==
  ASSUME ViewInv, NEW to \in [View!Dimensions -> Int], View!SetOrigin(to), ~View!IsFar(View!Minus(to, origin))
  PROVE  ViewInv'
<1> DEFINE delta == View!Minus(to, origin)
           strips == {View!Strip(d, delta) : d \in View!Dimensions}
           o == View!OffsetBy(delta)
           rel(p) == View!Minus(p, to)
           old(p) == [d \in View!Dimensions |-> Before(rel(p)[d], delta[d], shape[d])]
<1>1. /\ ShapeOk /\ origin \in [View!Dimensions -> Int] /\ OffsetOk /\ Shown
      /\ DOMAIN field = View!Box(origin, shape) /\ DOMAIN buffer = View!Box(View!Zero, shape)
  BY DEF ViewInv
<1>2. /\ origin' = to /\ offset' = o /\ shape' = shape /\ buffer' = View!Cleared(delta, strips)
      /\ field' = [p \in View!Box(to, shape) |-> IF p \in DOMAIN field THEN field[p] ELSE Default]
  BY DEF View!SetOrigin
<1>3. delta \in [View!Dimensions -> Int] /\ \A d \in View!Dimensions : delta[d] = to[d] - origin[d]
  BY <1>1 DEF View!Minus
<1>4. IsNear(delta)
  <2>1. ASSUME NEW d \in View!Dimensions
        PROVE  -shape[d] < delta[d] /\ delta[d] < shape[d]
    <3>1. ~(delta[d] >= shape[d]) /\ ~(delta[d] <= -shape[d])
      BY DEF View!IsFar
    <3>2. delta[d] \in Int /\ shape[d] \in Int
      BY <1>1, <1>3, Dims
    <3> HIDE DEF delta
    <3> QED
      BY <3>1, <3>2
  <2> HIDE DEF delta
  <2> QED
    BY <1>3, <2>1 DEF IsNear
<1> HIDE DEF delta
<1>5. ASSUME NEW p \in View!Box(to, shape)
      PROVE  /\ rel(p) \in View!Box(View!Zero, shape) /\ p \in [View!Dimensions -> Int]
             /\ old(p) \in View!Box(View!Zero, shape)
             /\ OffsetIn(o) /\ IndexFrom(o, rel(p)) = View!Index(old(p))
  <2>1. rel(p) \in View!Box(View!Zero, shape) /\ p \in [View!Dimensions -> Int]
    BY <1>1, InPlace
  <2> HIDE DEF rel
  <2> QED
    BY <1>1, <1>4, <2>1, OffsetMoves
<1>6. ASSUME NEW p \in View!Box(to, shape), NEW d \in View!Dimensions
      PROVE  /\ rel(p)[d] = p[d] - to[d] /\ 0 <= p[d] - to[d] /\ p[d] - to[d] < shape[d]
             /\ p[d] \in Int /\ to[d] \in Int /\ origin[d] \in Int /\ delta[d] \in Int
             /\ delta[d] = to[d] - origin[d] /\ shape[d] \in Int /\ shape[d] > 0
             /\ -shape[d] < delta[d] /\ delta[d] < shape[d]
             /\ old(p)[d] = Before(rel(p)[d], delta[d], shape[d])
  <2>1. rel(p)[d] = p[d] - to[d] /\ 0 <= rel(p)[d] /\ rel(p)[d] < shape[d] /\ p[d] \in Int
    BY <1>1, InPlace, InWindow
  <2>2. /\ to[d] \in Int /\ origin[d] \in Int /\ delta[d] \in Int
        /\ delta[d] = to[d] - origin[d] /\ shape[d] \in Int /\ shape[d] > 0
        /\ -shape[d] < delta[d] /\ delta[d] < shape[d]
    BY <1>1, <1>3, <1>4, Dims DEF IsNear
  <2>3. old(p)[d] = Before(rel(p)[d], delta[d], shape[d])
    OBVIOUS
  <2> HIDE DEF rel, old
  <2> QED
    BY <2>1, <2>2, <2>3
<1> HIDE DEF rel, old, o
<1>7. Boxed(strips) \subseteq View!Box(View!Zero, shape)
  BY <1>1, <1>4, StripsCover
<1>8. /\ DOMAIN buffer' = View!Box(View!Zero, shape)
      /\ \A r \in View!Box(View!Zero, shape) : buffer'[View!Index(r)] =
           IF r \in Boxed(strips) THEN View!Element(ClearedAt(r, delta), Default) ELSE buffer[View!Index(r)]
  <2> HIDE DEF strips
  <2> QED
    BY <1>1, <1>2, <1>7, ClearedIs
(* What stays in view was at the same place, and what comes into view is   *)
(* what left it.                                                           *)
<1>9. ASSUME NEW p \in View!Box(to, shape), NEW d \in View!Dimensions
      PROVE  /\ Leaves(old(p), delta, d) <=>
                  ~(origin[d] <= p[d] /\ p[d] <= origin[d] + shape[d] - 1)
             /\ ~Leaves(old(p), delta, d) => old(p)[d] = p[d] - origin[d]
             /\ Arrived(old(p), delta, d) = p[d]
  <2>1. /\ rel(p)[d] = p[d] - to[d] /\ 0 <= p[d] - to[d] /\ p[d] - to[d] < shape[d]
        /\ p[d] \in Int /\ to[d] \in Int /\ origin[d] \in Int /\ delta[d] \in Int
        /\ delta[d] = to[d] - origin[d] /\ shape[d] \in Int /\ shape[d] > 0
        /\ -shape[d] < delta[d] /\ delta[d] < shape[d]
        /\ old(p)[d] = Before(p[d] - to[d], delta[d], shape[d])
    BY <1>6
  <2>2. CASE p[d] - to[d] + delta[d] < 0
    <3>1. old(p)[d] = p[d] - origin[d] + shape[d]
      BY <2>1, <2>2 DEF Before
    <3> QED
      BY <2>1, <2>2, <3>1 DEF Leaves, Arrived
  <2>3. CASE p[d] - to[d] + delta[d] >= shape[d]
    <3>1. old(p)[d] = (p[d] - origin[d]) - shape[d]
      BY <2>1, <2>3 DEF Before
    <3> QED
      BY <2>1, <2>3, <3>1 DEF Leaves, Arrived
  <2>4. CASE 0 <= p[d] - to[d] + delta[d] /\ p[d] - to[d] + delta[d] < shape[d]
    <3>1. old(p)[d] = p[d] - origin[d]
      BY <2>1, <2>4 DEF Before
    <3> QED
      BY <2>1, <2>4, <3>1 DEF Leaves, Arrived
  <2> QED
    BY <2>1, <2>2, <2>3, <2>4
<1>10. ASSUME NEW p \in View!Box(to, shape)
       PROVE  p \in View!Box(origin, shape) <=> \A d \in View!Dimensions : ~Leaves(old(p), delta, d)
  <2>1. p \in View!Box(origin, shape) <=>
          \A d \in View!Dimensions : origin[d] <= p[d] /\ p[d] <= origin[d] + shape[d] - 1
    <3>1. shape \in [View!Dimensions -> Int] /\ p \in [View!Dimensions -> Int]
      BY <1>1, <1>5, Dims
    <3> QED
      BY <1>1, <3>1, InBox
  <2> QED
    BY <1>9, <2>1
<1>11. ASSUME NEW p \in View!Box(to, shape)
       PROVE  buffer'[IndexFrom(o, View!Minus(p, to))] = View!Element(p, field'[p])
  <2>1. buffer'[IndexFrom(o, View!Minus(p, to))] = buffer'[View!Index(old(p))]
    BY <1>5 DEF rel
  <2>2. old(p) \in Boxed(strips) <=> p \notin View!Box(origin, shape)
    BY <1>1, <1>4, <1>5, <1>10, StripsCover
  <2>3. CASE p \in View!Box(origin, shape)
    <3>1. old(p) = View!Minus(p, origin)
      <4>1. old(p) \in [View!Dimensions -> Int]
        BY <1>1, <1>5, InWindow
      <4>2. \A d \in View!Dimensions : old(p)[d] = p[d] - origin[d]
        BY <1>9, <1>10, <2>3
      <4>3. View!Minus(p, origin) = [d \in View!Dimensions |-> p[d] - origin[d]]
        BY <1>1, <2>3, InPlace
      <4> QED
        BY <4>1, <4>2, <4>3
    <3>2. buffer'[View!Index(old(p))] = buffer[View!Index(View!Minus(p, origin))]
      BY <1>5, <1>8, <2>2, <2>3, <3>1
    <3>3. buffer[View!Index(View!Minus(p, origin))] = View!Element(p, field[p])
      BY <1>1, <2>3 DEF Shown
    <3>4. field'[p] = field[p]
      BY <1>1, <1>2, <2>3
    <3> QED
      BY <2>1, <3>2, <3>3, <3>4
  <2>4. CASE p \notin View!Box(origin, shape)
    <3>1. ClearedAt(old(p), delta) = p
      <4>1. old(p) \in [View!Dimensions -> Int] /\ p \in [View!Dimensions -> Int]
        BY <1>1, <1>5, InWindow
      <4>2. CASE Len(shape) = 1
        <5>1. View!Dimensions = {1}
          BY <1>1, <4>2, Dims
        <5>2. /\ rel(p)[1] = p[1] - to[1] /\ 0 <= p[1] - to[1] /\ p[1] - to[1] < shape[1]
              /\ p[1] \in Int /\ to[1] \in Int /\ origin[1] \in Int /\ delta[1] \in Int
              /\ delta[1] = to[1] - origin[1] /\ shape[1] \in Int /\ shape[1] > 0
              /\ -shape[1] < delta[1] /\ delta[1] < shape[1]
              /\ old(p)[1] = Before(p[1] - to[1], delta[1], shape[1])
          BY <1>6, <5>1
        <5>3. Leaves(old(p), delta, 1)
          BY <1>10, <2>4, <5>1
        <5>4. old(p)[1] + (CASE delta[1] < 0 -> origin[1] - shape[1]
                             [] delta[1] > 0 -> origin[1] + shape[1]
                             [] OTHER -> origin[1]) = p[1]
          <6>1. CASE delta[1] < 0
            <7>1. (CASE delta[1] < 0 -> origin[1] - shape[1]
                     [] delta[1] > 0 -> origin[1] + shape[1]
                     [] OTHER -> origin[1]) = origin[1] - shape[1]
              BY <5>2, <6>1
            <7>2. old(p)[1] = p[1] - origin[1] + shape[1]
              BY <5>2, <5>3, <6>1 DEF Before, Leaves
            <7> QED
              BY <5>2, <7>1, <7>2
          <6>2. CASE delta[1] > 0
            <7>1. (CASE delta[1] < 0 -> origin[1] - shape[1]
                     [] delta[1] > 0 -> origin[1] + shape[1]
                     [] OTHER -> origin[1]) = origin[1] + shape[1]
              BY <5>2, <6>2
            <7>2. old(p)[1] = (p[1] - origin[1]) - shape[1]
              BY <5>2, <5>3, <6>2 DEF Before, Leaves
            <7> QED
              BY <5>2, <7>1, <7>2
          <6>3. CASE delta[1] = 0
            BY <5>2, <5>3, <6>3 DEF Before, Leaves
          <6> QED
            BY <5>2, <6>1, <6>2, <6>3
        <5>5. View!FromNewOrigin(old(p), delta) = <<p[1]>>
          BY <5>4 DEF View!FromNewOrigin
        <5>6. <<p[1]>> = p
          BY <4>1, <5>1
        <5> QED
          BY <4>2, <5>5, <5>6 DEF ClearedAt
      <4>3. CASE Len(shape) # 1
        <5>1. View!FromRelative(old(p), delta) = [d \in View!Dimensions |-> Arrived(old(p), delta, d)]
          BY <1>1, <1>3, <4>1, FromRelativeIs
        <5>2. View!FromRelative(old(p), delta) = p
          BY <1>9, <4>1, <5>1
        <5> QED
          BY <4>3, <5>2 DEF ClearedAt
      <4> QED
        BY <4>2, <4>3
    <3>2. buffer'[View!Index(old(p))] = View!Element(p, Default)
      BY <1>5, <1>8, <2>2, <2>4, <3>1
    <3>3. field'[p] = Default
      BY <1>1, <1>2, <2>4
    <3> QED
      BY <2>1, <3>2, <3>3
  <2> QED
    BY <2>3, <2>4
<1>12. DOMAIN field' = View!Box(to, shape)
  BY <1>2
<1>13. OffsetIn(o)
  <2>1. View!Zero \in [View!Dimensions -> Int] /\ \A d \in View!Dimensions : 0 <= View!Zero[d] /\ View!Zero[d] < shape[d]
    BY <1>1, Dims
  <2>2. View!Zero \in View!Box(View!Zero, shape)
    BY <1>1, <2>1, InWindow
  <2> QED
    BY <1>1, <1>4, <2>2, OffsetMoves DEF o
<1> QED
  BY <1>2, <1>8, <1>11, <1>12, <1>13, MovedShown

LEMMA ViewSteps == ViewInv /\ [View!Next]_viewVars => ViewInv'
<1> SUFFICES ASSUME ViewInv, [View!Next]_viewVars
             PROVE  ViewInv'
  OBVIOUS
<1>1. /\ ShapeOk /\ origin \in [View!Dimensions -> Int] /\ shape \in Shapes
      /\ DOMAIN buffer = View!Box(View!Zero, shape) /\ DOMAIN field = View!Box(origin, shape) /\ Shown
  BY DEF ViewInv
<1>2. ASSUME NEW to \in Origins[shape], View!SetOrigin(to)
      PROVE  ViewInv'
  <2>1. to \in [View!Dimensions -> Int]
    BY <1>1, ViewSizes DEF View!Dimensions
  <2> QED
    BY <1>2, <2>1, ViewMovesFar, ViewMovesNear
<1>3. ASSUME NEW pos \in View!Box(origin, shape), NEW value \in ViewValues, View!Set(pos, value)
      PROVE  ViewInv'
  BY <1>3, ViewSet
<1>4. ASSUME NEW pos \in View!Box(origin, shape), NEW n \in 1 .. 2,
             View!Clear(View!Minus(pos, [d \in View!Dimensions |-> n - 1]),
                   [d \in View!Dimensions |-> IF d = 1 THEN 2 ELSE n])
      PROVE  ViewInv'
  <2> DEFINE at == View!Minus(pos, [d \in View!Dimensions |-> n - 1])
             extent == [d \in View!Dimensions |-> IF d = 1 THEN 2 ELSE n]
  <2>1. pos \in [View!Dimensions -> Int]
    BY <1>1, InPlace
  <2>2. at \in [View!Dimensions -> Int] /\ extent \in [View!Dimensions -> Int]
    BY <2>1 DEF View!Minus
  <2>3. View!Clear(at, extent)
    BY <1>4
  <2> HIDE DEF at, extent
  <2> QED
    BY <2>2, <2>3, ViewClear
<1>5. CASE UNCHANGED viewVars
  <2>1. UNCHANGED <<shape, origin, offset>> /\ buffer' = buffer /\ field' = field
    BY <1>5 DEF viewVars
  <2> QED
    BY <1>1, <2>1, StillShown DEF Shown
<1> QED
  BY <1>2, <1>3, <1>4, <1>5 DEF View!Next

-----------------------------------------------------------------------------
(* A behaviour of a container keeps its invariant, and one of the system   *)
(* or of a stack has no container.                                         *)
ContainersInv ==
  /\ component = "queue" => QueueInv
  /\ component = "view" => ViewInv

LEMMA ContainersInit == MCInit => ContainersInv
<1> SUFFICES ASSUME MCInit
             PROVE  ContainersInv
  OBVIOUS
<1>1. CASE component = "queue"
  BY <1>1, QueueBegins, QueueSizes DEF MCInit, ContainersInv
<1>2. CASE component = "view"
  BY <1>2, ViewBegins DEF MCInit, ContainersInv
<1> QED
  BY <1>1, <1>2 DEF ContainersInv

LEMMA ContainersNext == ContainersInv /\ [MCNext]_allVars => ContainersInv'
<1> SUFFICES ASSUME ContainersInv, [MCNext]_allVars
             PROVE  ContainersInv'
  OBVIOUS
<1>1. component' = component
  BY DEF MCNext, allVars
<1>2. CASE component = "queue"
  <2>1. Queue!Next \/ UNCHANGED queueVars
    BY <1>2 DEF MCNext, allVars, containerVars
  <2>2. QueueInv'
    BY <1>2, <2>1, QueueSteps, QueueSizes DEF ContainersInv
  <2> QED
    BY <1>1, <1>2, <2>2 DEF ContainersInv
<1>3. CASE component = "view"
  <2>1. View!Next \/ UNCHANGED viewVars
    BY <1>3 DEF MCNext, allVars, containerVars
  <2>2. ViewInv'
    BY <1>3, <2>1, ViewSteps DEF ContainersInv
  <2> QED
    BY <1>1, <1>3, <2>2 DEF ContainersInv
<1> QED
  BY <1>1, <1>2, <1>3 DEF ContainersInv

(* Whatever capacities queues are made with and however they grow, they    *)
(* give what was pushed in order and lose no slot; and whatever size a     *)
(* view has, in however many dimensions, and whatever its origin is set    *)
(* to, every position of its window shows the element last set there.      *)
THEOREM Contained == MCFairSpec => []ContainersAgree
<1>1. MCInit => ContainersInv
  BY ContainersInit
<1>2. ContainersInv /\ [MCNext]_allVars => ContainersInv'
  BY ContainersNext
<1>3. ContainersInv => ContainersAgree
  BY QueueInvHolds, ViewIsShown DEF ContainersInv, ContainersAgree
<1> QED
  BY <1>1, <1>2, <1>3, PTL DEF MCFairSpec
=============================================================================
