------------------------ MODULE MessageSystemProofs -------------------------
(***************************************************************************)
(* gb::MessageSystem for any threads, endpoints and channels.  What is     *)
(* subscribed and what a node forwards to agree whatever is deferred; and  *)
(* with one dispatching thread, whose handlers send through its            *)
(* dispatcher, a dispatch iterates over subscribers that do not change and *)
(* uses nothing that is freed.                                             *)
(***************************************************************************)
EXTENDS MCMessageSystem, SequenceTheorems, FiniteSetTheorems, TLAPS

NodeTypes ==
  /\ state \in [Nodes -> {"fresh", "live", "erasing", "gone"}]
  /\ attached \in [Endpoints -> BOOLEAN]
  /\ freed \in [Endpoints -> BOOLEAN]
  /\ subscribers \in [Nodes -> SUBSET Endpoints]
  /\ subscriptions \in [Endpoints -> SUBSET Nodes]
  /\ addSubscribers \in [Nodes -> SUBSET Endpoints]
  /\ removeSubscribers \in [Nodes -> SUBSET Endpoints]
  /\ dispatching \in [Nodes -> SUBSET Threads]
  /\ removing \in [Threads -> Endpoints \cup {None}]
  /\ removal \in [Threads -> {"none", "handlers", "removal", "found", "stale"}]

StackTypes ==
  stack \in [Threads -> Seq(Frames)] /\ visited \in [Threads -> Seq(SUBSET Nodes)]

AttachedInv ==
  /\ state[Broadcast] = "live"
  /\ \A e \in Endpoints : attached[e] <=> state[e] = "live"

(* A node that is not made yet is known nowhere.                            *)
FreshInv ==
  /\ \A n \in Nodes : state[n] = "fresh" =>
       /\ subscribers[n] = {} /\ addSubscribers[n] = {} /\ removeSubscribers[n] = {}
       /\ dispatching[n] = {}
  /\ \A e \in Endpoints, n \in Nodes :
       /\ state[n] = "fresh" => n \notin subscriptions[e]
       /\ state[e] = "fresh" =>
            e \notin subscribers[n] /\ e \notin addSubscribers[n] /\ e \notin removeSubscribers[n]

(* Of the endpoints that live, those to be removed are subscribers, those   *)
(* to be added are not, and with that a node forwards to those that have    *)
(* subscribed.                                                             *)
Agrees(n, e) ==
  /\ e \in removeSubscribers[n] => e \in subscribers[n]
  /\ e \in addSubscribers[n] => e \notin subscribers[n] /\ e \notin removeSubscribers[n]
  /\ n \in subscriptions[e] <=>
       (e \in subscribers[n] \/ e \in addSubscribers[n]) /\ e \notin removeSubscribers[n]
AgreeInv ==
  \A n \in Nodes, e \in Endpoints : Known(n) /\ state[e] = "live" => Agrees(n, e)

IdleInv ==
  \A n \in Nodes : Known(n) /\ dispatching[n] = {} =>
    addSubscribers[n] = {} /\ removeSubscribers[n] = {}

(* What a dispatch weeds out is gone for good.                              *)
DeletedInv ==
  \A t \in Threads : \A i \in DOMAIN stack[t] : \A e \in Endpoints :
    e \in stack[t][i].deleted => state[e] \in {"erasing", "gone"}

(* There is a visited set for every dispatch that was started on a stack.   *)
Roots(t) == {i \in DOMAIN stack[t] : stack[t][i].root}
VisitedInv ==
  \A t \in Threads :
    /\ stack[t] # <<>> => stack[t][1].root
    /\ Len(visited[t]) = Cardinality(Roots(t))

(* An endpoint is removed once, by the thread that is in its destructor.    *)
RemovalInv ==
  \A t \in Threads :
    /\ removing[t] = None <=> removal[t] = "none"
    /\ removing[t] # None =>
         /\ attached[removing[t]]
         /\ \A u \in Threads : removing[u] = removing[t] => u = t

IInv ==
  /\ NodeTypes
  /\ StackTypes
  /\ AttachedInv
  /\ FreshInv
  /\ AgreeInv
  /\ IdleInv
  /\ RemovalInv
  /\ DeletedInv
  /\ VisitedInv

(* Handlers send through the dispatcher, one thread dispatches, and         *)
(* iterators stay valid: endpoints_ was made large enough.                 *)
OneDispatcher ==
  /\ ~Reentrant /\ ~Rehashes
  /\ \A t, u \in Dispatchers : t = u

(* The dispatches of a thread are at different nodes, all of them visited,  *)
(* in which it is marked; only the last one is not at the subscribers.     *)
StackInv ==
  \A t \in Threads :
    /\ stack[t] # <<>> => t \in Dispatchers
    /\ \A i, j \in DOMAIN stack[t] : stack[t][i].to = stack[t][j].to => i = j
    /\ \A i \in DOMAIN stack[t] : i # Len(stack[t]) => stack[t][i].phase = "subscribers"
    /\ \A n \in Nodes : t \in dispatching[n] <=> \E i \in DOMAIN stack[t] : stack[t][i].to = n
    /\ \A i \in DOMAIN stack[t] : stack[t][i].to \in Last(visited[t])
    /\ \A i \in DOMAIN stack[t] : stack[t][i].root => i = 1

(* An endpoint that is being removed is not the one whose handler is run,   *)
(* and is found by an iterator that is valid.                              *)
RemovingInv ==
  \A t \in Threads :
    /\ removal[t] # "stale"
    /\ removing[t] # None =>
         \/ stack[t] = <<>>
         \/ Last(stack[t]).phase = "handler" /\ Last(stack[t]).to # removing[t]

FreedInv ==
  \A e \in Endpoints : freed[e] => state[e] \in {"erasing", "gone"}

FrameInUse(f) ==
  /\ Known(f.to)
  /\ f.phase \in {"locking", "handler"} => f.to \in Endpoints /\ ~freed[f.to]
InUseInv == \A t \in Threads : \A i \in DOMAIN stack[t] : FrameInUse(stack[t][i])

DispatchInv ==
  /\ StackInv
  /\ RemovingInv
  /\ FreedInv
  /\ InUseInv

-----------------------------------------------------------------------------
(***************************************************************************)
(* Stacks                                                                  *)
(***************************************************************************)
LEMMA ConstantFacts ==
  /\ Dispatchers \subseteq Threads /\ Reentrant \in BOOLEAN /\ Rehashes \in BOOLEAN
  /\ Broadcast \in Channels /\ Endpoints \cap Channels = {} /\ None \notin Endpoints
  /\ Nodes = Endpoints \cup Channels /\ Broadcast \in Nodes /\ Broadcast \notin Endpoints
BY SystemAssumption DEF Nodes

(* A sequence without its last element, and with another one instead.       *)
LEMMA Popped ==
  ASSUME NEW S, NEW s \in Seq(S), s # <<>>
  PROVE  /\ Front(s) \in Seq(S) /\ Len(Front(s)) = Len(s) - 1
         /\ Len(s) \in Nat \ {0} /\ DOMAIN s = 1 .. Len(s)
         /\ DOMAIN Front(s) = 1 .. Len(s) - 1
         /\ \A i \in 1 .. Len(s) - 1 : Front(s)[i] = s[i]
         /\ Last(s) = s[Len(s)] /\ Last(s) \in S
<1>1. Len(s) \in Nat /\ DOMAIN s = 1 .. Len(s)
  BY LenProperties
<1>2. Len(s) # 0
  BY EmptySeq
<1>3. PICK n \in Nat : n = Len(s) /\ n # 0
  BY <1>1, <1>2
<1>4. \A i \in 1 .. n : s[i] \in S
  BY <1>3, ElementOfSeq
<1>5. PICK f : f = Front(s)
  OBVIOUS
<1>6. f = SubSeq(s, 1, n - 1)
  BY <1>3, <1>5 DEF Front
<1>7. /\ f \in Seq(S)
      /\ Len(f) = IF 1 <= n - 1 THEN n - 1 - 1 + 1 ELSE 0
      /\ \A i \in 1 .. n - 1 - 1 + 1 : f[i] = s[1 + i - 1]
  <2>1. 1 \in Int /\ n - 1 \in Int /\ \A i \in 1 .. n - 1 : s[i] \in S
    BY <1>4
  <2> QED
    BY <1>6, <2>1, SubSeqProperties
<1>8. /\ (IF 1 <= n - 1 THEN n - 1 - 1 + 1 ELSE 0) = n - 1
      /\ n - 1 - 1 + 1 = n - 1
      /\ \A i \in 1 .. n - 1 : 1 + i - 1 = i
  BY <1>3
<1>9. /\ f \in Seq(S) /\ Len(f) = n - 1 /\ \A i \in 1 .. n - 1 : f[i] = s[i]
  BY <1>7, <1>8
<1>10. DOMAIN f = 1 .. n - 1
  BY <1>9, LenProperties
<1>11. Last(s) = s[n] /\ s[n] \in S
  BY <1>3, <1>4 DEF Last
<1> QED
  BY <1>1, <1>3, <1>5, <1>9, <1>10, <1>11

LEMMA Pushed ==
  ASSUME NEW S, NEW s \in Seq(S), NEW e \in S
  PROVE  /\ Append(s, e) \in Seq(S) /\ Append(s, e) # <<>>
         /\ Len(s) \in Nat /\ DOMAIN s = 1 .. Len(s)
         /\ Len(Append(s, e)) = Len(s) + 1
         /\ DOMAIN Append(s, e) = 1 .. Len(s) + 1
         /\ \A i \in 1 .. Len(s) : Append(s, e)[i] = s[i]
         /\ Append(s, e)[Len(s) + 1] = e
         /\ Last(Append(s, e)) = e
<1>1. Len(s) \in Nat /\ DOMAIN s = 1 .. Len(s)
  BY LenProperties
<1>2. PICK a : a = Append(s, e)
  OBVIOUS
<1>3. /\ a \in Seq(S) /\ a # <<>> /\ Len(a) = Len(s) + 1
      /\ \A i \in 1 .. Len(s) : a[i] = s[i]
      /\ a[Len(s) + 1] = e
  BY <1>2, AppendProperties
<1>4. DOMAIN a = 1 .. Len(s) + 1
  BY <1>3, LenProperties
<1>5. Last(a) = e
  BY <1>3 DEF Last
<1> QED
  BY <1>1, <1>2, <1>3, <1>4, <1>5

LEMMA Replaced ==
  ASSUME NEW S, NEW s \in Seq(S), s # <<>>, NEW e \in S
  PROVE  LET r == Append(Front(s), e) IN
         /\ r \in Seq(S) /\ r # <<>> /\ Len(r) = Len(s)
         /\ Len(s) \in Nat \ {0} /\ DOMAIN s = 1 .. Len(s) /\ DOMAIN r = 1 .. Len(s)
         /\ \A i \in 1 .. Len(s) : i # Len(s) => r[i] = s[i]
         /\ r[Len(s)] = e /\ Last(r) = e /\ Last(s) = s[Len(s)] /\ Last(s) \in S
<1>1. PICK f \in Seq(S) : f = Front(s)
  BY Popped
<1>2. /\ Len(f) = Len(s) - 1 /\ Len(s) \in Nat \ {0} /\ DOMAIN s = 1 .. Len(s)
      /\ \A i \in 1 .. Len(s) - 1 : f[i] = s[i]
      /\ Last(s) = s[Len(s)] /\ Last(s) \in S
  BY <1>1, Popped
<1>3. PICK r : r = Append(f, e)
  OBVIOUS
<1>4. /\ r \in Seq(S) /\ r # <<>> /\ Len(r) = Len(f) + 1 /\ DOMAIN r = 1 .. Len(f) + 1
      /\ \A i \in 1 .. Len(f) : r[i] = f[i]
      /\ r[Len(f) + 1] = e /\ Last(r) = e
  BY <1>3, Pushed
<1>5. PICK n \in Nat \ {0} : n = Len(s)
  BY <1>2
<1>6. n - 1 + 1 = n /\ \A i \in 1 .. n : i # n => i \in 1 .. n - 1
  OBVIOUS
<1>7. Len(f) = n - 1
  BY <1>2, <1>5
<1>8. \A i \in 1 .. n : i # n => r[i] = s[i]
  BY <1>2, <1>4, <1>5, <1>6, <1>7
<1> QED
  BY <1>1, <1>2, <1>3, <1>4, <1>5, <1>6, <1>7, <1>8

LEMMA TwoMore ==
  ASSUME NEW S, NEW f \in Seq(S), NEW g \in S, NEW h \in S
  PROVE  f \o <<g, h>> = Append(Append(f, g), h)
<1>1. <<g, h>> = <<g>> \o <<h>> /\ <<g>> \in Seq(S) /\ <<h>> \in Seq(S)
  <2>1. <<g>> \in Seq(S) /\ <<h>> \in Seq(S) /\ Len(<<g>>) = 1 /\ <<g>>[1] = g
    OBVIOUS
  <2>2. <<g, h>> \in Seq(S) /\ Len(<<g, h>>) = 2 /\ <<g, h>>[1] = g /\ <<g, h>>[2] = h
    OBVIOUS
  <2>3. PICK a \in Seq(S) : a = Append(<<g>>, h)
    BY <2>1, Pushed
  <2>4. Len(a) = 2 /\ a[1] = g /\ a[2] = h
    <3>1. /\ Len(a) = Len(<<g>>) + 1 /\ a[Len(<<g>>) + 1] = h
          /\ \A i \in 1 .. Len(<<g>>) : a[i] = <<g>>[i]
      BY <2>1, <2>3, Pushed
    <3> QED
      BY <2>1, <3>1
  <2>5. \A i \in 1 .. 2 : a[i] = <<g, h>>[i]
    <3>1. \A i \in 1 .. 2 : i = 1 \/ i = 2
      OBVIOUS
    <3> QED
      BY <2>2, <2>4, <3>1
  <2>6. a = <<g, h>>
    BY <2>2, <2>4, <2>5, SeqEqual
  <2> QED
    BY <2>1, <2>3, <2>6, AppendIsConcat
<1>2. f \o (<<g>> \o <<h>>) = (f \o <<g>>) \o <<h>>
  BY <1>1, ConcatAssociative
<1>3. PICK q \in Seq(S) : q = Append(f, g)
  BY AppendProperties
<1>4. Append(f, g) = f \o <<g>> /\ Append(q, h) = q \o <<h>>
  BY AppendIsConcat
<1> QED
  BY <1>1, <1>2, <1>3, <1>4

(* r is s with g for its last element, and with h after it.                 *)
IsFork(s, g, h, r) ==
  /\ r # <<>> /\ Len(r) = Len(s) + 1
  /\ Len(s) \in Nat \ {0} /\ DOMAIN s = 1 .. Len(s) /\ DOMAIN r = 1 .. Len(s) + 1
  /\ \A i \in 1 .. Len(s) : i # Len(s) => r[i] = s[i]
  /\ r[Len(s)] = g /\ r[Len(s) + 1] = h /\ Last(r) = h

LEMMA Forked ==
  ASSUME NEW s \in Seq(Frames), s # <<>>, NEW g \in Frames, NEW h \in Frames
  PROVE  \E r \in Seq(Frames) : r = Front(s) \o <<g, h>> /\ IsFork(s, g, h, r)
<1>1. PICK q \in Seq(Frames) : q = Append(Front(s), g)
  BY Replaced
<1>2. /\ q # <<>> /\ Len(q) = Len(s) /\ Len(s) \in Nat \ {0} /\ DOMAIN s = 1 .. Len(s)
      /\ \A i \in 1 .. Len(s) : i # Len(s) => q[i] = s[i]
      /\ q[Len(s)] = g
  BY <1>1, Replaced
<1>3. PICK r \in Seq(Frames) : r = Append(q, h)
  BY Pushed
<1>4. /\ r # <<>> /\ Len(r) = Len(q) + 1 /\ DOMAIN r = 1 .. Len(q) + 1
      /\ \A i \in 1 .. Len(q) : r[i] = q[i]
      /\ r[Len(q) + 1] = h /\ Last(r) = h
  BY <1>3, Pushed
<1>5. r = Front(s) \o <<g, h>>
  <2>1. Front(s) \in Seq(Frames)
    BY Popped
  <2> QED
    BY <1>1, <1>3, <2>1, TwoMore
<1>6. PICK n \in Nat \ {0} : n = Len(s) /\ n = Len(q)
  BY <1>2
<1>7. \A i \in 1 .. n : i # n => r[i] = s[i]
  BY <1>2, <1>4, <1>6
<1>8. n \in 1 .. n
  OBVIOUS
<1>9. r[n] = g /\ r[n + 1] = h /\ Len(r) = n + 1 /\ DOMAIN r = 1 .. n + 1
  BY <1>2, <1>4, <1>6, <1>8
<1> QED
  BY <1>2, <1>4, <1>5, <1>6, <1>7, <1>9 DEF IsFork

(* What the steps of a dispatch do to the stack of their thread.            *)
LEMMA StackTop ==
  ASSUME stack \in [Threads -> Seq(Frames)], NEW t \in Threads, stack[t] # <<>>
  PROVE  /\ Top(t) \in Frames /\ Top(t) = stack[t][Len(stack[t])]
         /\ Len(stack[t]) \in Nat \ {0} /\ DOMAIN stack[t] = 1 .. Len(stack[t])
         /\ Len(stack[t]) \in DOMAIN stack[t]
<1>1. stack[t] \in Seq(Frames)
  OBVIOUS
<1>2. /\ Last(stack[t]) = stack[t][Len(stack[t])] /\ Last(stack[t]) \in Frames
      /\ Len(stack[t]) \in Nat \ {0} /\ DOMAIN stack[t] = 1 .. Len(stack[t])
  BY <1>1, Popped
<1>3. \A n \in Nat \ {0} : n \in 1 .. n
  OBVIOUS
<1> QED
  BY <1>2, <1>3 DEF Top

LEMMA SetTopStep ==
  ASSUME stack \in [Threads -> Seq(Frames)], NEW t \in Threads, stack[t] # <<>>,
         NEW f \in Frames, SetTop(t, f)
  PROVE  /\ stack' \in [Threads -> Seq(Frames)]
         /\ \A u \in Threads : u # t => stack'[u] = stack[u]
         /\ stack'[t] # <<>> /\ Len(stack'[t]) = Len(stack[t])
         /\ DOMAIN stack'[t] = DOMAIN stack[t]
         /\ \A i \in DOMAIN stack[t] : i # Len(stack[t]) => stack'[t][i] = stack[t][i]
         /\ stack'[t][Len(stack[t])] = f /\ Last(stack'[t]) = f
<1>1. PICK s \in Seq(Frames) : s = stack[t] /\ s # <<>>
  OBVIOUS
<1>2. stack' = [stack EXCEPT ![t] = Append(Front(s), f)]
  BY <1>1 DEF SetTop
<1>3. PICK r : r = Append(Front(s), f)
  OBVIOUS
<1>4. /\ r \in Seq(Frames) /\ r # <<>> /\ Len(r) = Len(s)
      /\ DOMAIN s = 1 .. Len(s) /\ DOMAIN r = 1 .. Len(s)
      /\ \A i \in 1 .. Len(s) : i # Len(s) => r[i] = s[i]
      /\ r[Len(s)] = f /\ Last(r) = f
  BY <1>1, <1>3, Replaced, SMTT(30)
<1>5. stack' = [stack EXCEPT ![t] = r]
  BY <1>2, <1>3
<1>6. stack'[t] = r
  BY <1>5
<1> QED
  BY <1>1, <1>4, <1>5, <1>6

LEMMA ForkStep ==
  ASSUME stack \in [Threads -> Seq(Frames)], NEW t \in Threads, stack[t] # <<>>,
         NEW g \in Frames, NEW h \in Frames
  PROVE  stack' = [stack EXCEPT ![t] = Front(@) \o <<g, h>>] =>
         /\ stack' \in [Threads -> Seq(Frames)]
         /\ \A u \in Threads : u # t => stack'[u] = stack[u]
         /\ stack'[t] # <<>> /\ Len(stack'[t]) = Len(stack[t]) + 1
         /\ DOMAIN stack'[t] = DOMAIN stack[t] \cup {Len(stack[t]) + 1}
         /\ \A i \in DOMAIN stack[t] : i # Len(stack[t]) => stack'[t][i] = stack[t][i]
         /\ stack'[t][Len(stack[t])] = g /\ stack'[t][Len(stack[t]) + 1] = h
         /\ Last(stack'[t]) = h
<1>1. PICK s \in Seq(Frames) : s = stack[t] /\ s # <<>>
  OBVIOUS
<1>2. PICK r \in Seq(Frames) : r = Front(s) \o <<g, h>> /\ IsFork(s, g, h, r)
  BY <1>1, Forked, Zenon
<1>3. HAVE stack' = [stack EXCEPT ![t] = Front(@) \o <<g, h>>]
<1>4. stack' = [stack EXCEPT ![t] = r]
  BY <1>1, <1>2, <1>3
<1>5. stack'[t] = r
  BY <1>4
<1>6. \A n \in Nat : 1 .. n + 1 = (1 .. n) \cup {n + 1}
  OBVIOUS
<1>7. DOMAIN r = DOMAIN s \cup {Len(s) + 1}
  BY <1>2, <1>6 DEF IsFork
<1> QED
  BY <1>1, <1>2, <1>4, <1>5, <1>7 DEF IsFork

LEMMA PushStep ==
  ASSUME stack \in [Threads -> Seq(Frames)], NEW t \in Threads, NEW f \in Frames,
         stack' = [stack EXCEPT ![t] = Append(@, f)]
  PROVE  /\ stack' \in [Threads -> Seq(Frames)]
         /\ \A u \in Threads : u # t => stack'[u] = stack[u]
         /\ stack'[t] # <<>> /\ Len(stack[t]) \in Nat
         /\ Len(stack'[t]) = Len(stack[t]) + 1
         /\ DOMAIN stack'[t] = DOMAIN stack[t] \cup {Len(stack[t]) + 1}
         /\ \A i \in DOMAIN stack[t] : stack'[t][i] = stack[t][i]
         /\ stack'[t][Len(stack[t]) + 1] = f /\ Last(stack'[t]) = f
<1>1. PICK s \in Seq(Frames) : s = stack[t]
  OBVIOUS
<1>2. PICK r : r = Append(s, f)
  OBVIOUS
<1>3. /\ r \in Seq(Frames) /\ r # <<>> /\ Len(r) = Len(s) + 1 /\ Len(s) \in Nat
      /\ DOMAIN s = 1 .. Len(s) /\ DOMAIN r = 1 .. Len(s) + 1
      /\ \A i \in 1 .. Len(s) : r[i] = s[i]
      /\ r[Len(s) + 1] = f /\ Last(r) = f
  BY <1>2, Pushed
<1>4. stack' = [stack EXCEPT ![t] = r]
  BY <1>1, <1>2
<1>5. stack'[t] = r
  BY <1>4
<1>6. \A n \in Nat : 1 .. n + 1 = (1 .. n) \cup {n + 1}
  OBVIOUS
<1>7. DOMAIN r = DOMAIN s \cup {Len(s) + 1}
  BY <1>3, <1>6
<1> QED
  BY <1>1, <1>3, <1>4, <1>5, <1>7

LEMMA PopStep ==
  ASSUME stack \in [Threads -> Seq(Frames)], NEW t \in Threads, stack[t] # <<>>,
         stack' = [stack EXCEPT ![t] = Front(@)]
  PROVE  /\ stack' \in [Threads -> Seq(Frames)]
         /\ \A u \in Threads : u # t => stack'[u] = stack[u]
         /\ Len(stack'[t]) = Len(stack[t]) - 1
         /\ DOMAIN stack'[t] = DOMAIN stack[t] \ {Len(stack[t])}
         /\ \A i \in DOMAIN stack'[t] : stack'[t][i] = stack[t][i]
<1>1. PICK s \in Seq(Frames) : s = stack[t] /\ s # <<>>
  OBVIOUS
<1>2. PICK r : r = Front(s)
  OBVIOUS
<1>3. /\ r \in Seq(Frames) /\ Len(r) = Len(s) - 1 /\ Len(s) \in Nat \ {0}
      /\ DOMAIN s = 1 .. Len(s) /\ DOMAIN r = 1 .. Len(s) - 1
      /\ \A i \in 1 .. Len(s) - 1 : r[i] = s[i]
  BY <1>1, <1>2, Popped
<1>4. stack' = [stack EXCEPT ![t] = r]
  BY <1>1, <1>2
<1>5. stack'[t] = r
  BY <1>4
<1>6. \A n \in Nat \ {0} : 1 .. n - 1 = (1 .. n) \ {n}
  OBVIOUS
<1>7. DOMAIN r = DOMAIN s \ {Len(s)}
  BY <1>3, <1>6
<1> QED
  BY <1>1, <1>3, <1>4, <1>5, <1>7
-----------------------------------------------------------------------------
(***************************************************************************)
(* Subscriptions                                                           *)
(***************************************************************************)
LEMMA FromIInv == IInv => TypeOK /\ SubscriptionsAgree
<1> SUFFICES ASSUME IInv PROVE TypeOK /\ SubscriptionsAgree
  OBVIOUS
<1>1. TypeOK
  BY DEF IInv, NodeTypes, StackTypes, TypeOK
<1>2. SubscriptionsAgree
  BY DEF IInv, AgreeInv, IdleInv, Agrees, SubscriptionsAgree, Forwards
<1> QED
  BY <1>1, <1>2

LEMMA InitIInv == Init => IInv
<1> SUFFICES ASSUME Init PROVE IInv
  OBVIOUS
<1> USE DEF Init
<1>1. NodeTypes
  BY ConstantFacts DEF NodeTypes
<1>2. StackTypes
  BY DEF StackTypes
<1>3. AttachedInv /\ FreshInv
  BY ConstantFacts DEF AttachedInv, FreshInv
<1>4. AgreeInv /\ IdleInv
  BY ConstantFacts DEF AgreeInv, IdleInv, Agrees, Known
<1>5. RemovalInv /\ DeletedInv
  BY DEF RemovalInv, DeletedInv
<1>6. VisitedInv
  <2> SUFFICES ASSUME NEW t \in Threads
               PROVE  stack[t] = <<>> /\ Len(visited[t]) = Cardinality(Roots(t))
    BY DEF VisitedInv
  <2>1. stack[t] = <<>> /\ visited[t] = <<>>
    OBVIOUS
  <2>2. DOMAIN stack[t] = {} /\ Len(visited[t]) = 0
    BY <2>1
  <2>3. Roots(t) = {}
    BY <2>2 DEF Roots
  <2> QED
    BY <2>1, <2>2, <2>3, FS_EmptySet
<1> QED
  BY <1>1, <1>2, <1>3, <1>4, <1>5, <1>6 DEF IInv

(* As long as the stacks are the same, all there is to keep is this.        *)
LEMMA DeletedKept ==
  ASSUME DeletedInv, VisitedInv, UNCHANGED <<stack, visited>>,
         \A e \in Endpoints : state[e] \in {"erasing", "gone"} => state'[e] \in {"erasing", "gone"}
  PROVE  DeletedInv' /\ VisitedInv'
BY DEF DeletedInv, VisitedInv, Roots

LEMMA InsertedRemoval ==
  ASSUME NodeTypes, Inserted
  PROVE  /\ removal' \in [Threads -> {"none", "handlers", "removal", "found", "stale"}]
         /\ \A t \in Threads : removal'[t] = "none" <=> removal[t] = "none"
         /\ ~Rehashes => UNCHANGED removal
BY DEF Inserted, NodeTypes

LEMMA CreateEndpointIInv ==
  ASSUME IInv, NEW t \in Threads, NEW e \in Endpoints, CreateEndpoint(t, e)
  PROVE  IInv'
<1> USE DEF IInv
<1>1. /\ state[e] = "fresh" /\ state' = [state EXCEPT ![e] = "live"]
      /\ attached' = [attached EXCEPT ![e] = TRUE]
      /\ subscriptions' = [subscriptions EXCEPT ![e] = {Broadcast}]
      /\ \/ /\ dispatching[Broadcast] = {} /\ UNCHANGED addSubscribers
            /\ subscribers' = [subscribers EXCEPT ![Broadcast] = @ \cup {e}]
         \/ /\ dispatching[Broadcast] # {} /\ UNCHANGED subscribers
            /\ addSubscribers' = [addSubscribers EXCEPT ![Broadcast] = @ \cup {e}]
      /\ UNCHANGED <<freed, removeSubscribers, dispatching, stack, visited, removing>>
      /\ removal' \in [Threads -> {"none", "handlers", "removal", "found", "stale"}]
      /\ \A u \in Threads : removal'[u] = "none" <=> removal[u] = "none"
  BY InsertedRemoval DEF CreateEndpoint, runVars
<1>2. e \in Nodes /\ e # Broadcast /\ Broadcast \in Nodes /\ Broadcast \notin Endpoints
  BY ConstantFacts
<1>3. NodeTypes' /\ StackTypes'
  <2>1. /\ state' \in [Nodes -> {"fresh", "live", "erasing", "gone"}]
        /\ attached' \in [Endpoints -> BOOLEAN]
        /\ subscriptions' \in [Endpoints -> SUBSET Nodes]
    BY <1>1, <1>2 DEF NodeTypes
  <2>2. subscribers' \in [Nodes -> SUBSET Endpoints] /\ addSubscribers' \in [Nodes -> SUBSET Endpoints]
    BY <1>1, <1>2 DEF NodeTypes
  <2> QED
    BY <1>1, <2>1, <2>2 DEF NodeTypes, StackTypes
<1>4. /\ \A n \in Nodes : state'[n] = IF n = e THEN "live" ELSE state[n]
      /\ \A n \in Nodes : n # Broadcast =>
           subscribers'[n] = subscribers[n] /\ addSubscribers'[n] = addSubscribers[n]
      /\ \A d \in Endpoints : d # e =>
           /\ d \in subscribers'[Broadcast] <=> d \in subscribers[Broadcast]
           /\ d \in addSubscribers'[Broadcast] <=> d \in addSubscribers[Broadcast]
           /\ subscriptions'[d] = subscriptions[d] /\ attached'[d] = attached[d]
      /\ subscriptions'[e] = {Broadcast} /\ attached'[e]
      /\ dispatching[Broadcast] = {} => UNCHANGED addSubscribers
      /\ \/ e \in subscribers'[Broadcast] /\ addSubscribers'[Broadcast] = addSubscribers[Broadcast]
         \/ e \in addSubscribers'[Broadcast] /\ subscribers'[Broadcast] = subscribers[Broadcast]
  BY <1>1, <1>2 DEF NodeTypes
<1>5. AttachedInv'
  BY <1>2, <1>4, ConstantFacts DEF AttachedInv
<1>6. FreshInv'
  BY <1>1, <1>2, <1>4, ConstantFacts DEF FreshInv, AttachedInv
<1>7. AgreeInv'
  <2> SUFFICES ASSUME NEW n \in Nodes, NEW d \in Endpoints, Known(n)', state'[d] = "live"
               PROVE  Agrees(n, d)'
    BY DEF AgreeInv
  <2>1. CASE n = e
    BY <1>1, <1>2, <1>4, <2>1 DEF FreshInv, Agrees
  <2>2. CASE n # e /\ d = e
    BY <1>1, <1>2, <1>4, <2>2 DEF FreshInv, Agrees
  <2>3. CASE n # e /\ d # e
    <3>1. Agrees(n, d)
      BY <1>4, <2>3, ConstantFacts DEF AgreeInv, Known
    <3> QED
      BY <1>1, <1>4, <2>3, <3>1 DEF Agrees
  <2> QED
    BY <2>1, <2>2, <2>3
<1>8. IdleInv'
  BY <1>1, <1>2, <1>4 DEF IdleInv, FreshInv, Known
<1>9. RemovalInv'
  BY <1>1, <1>4 DEF RemovalInv, NodeTypes
<1>10. DeletedInv' /\ VisitedInv'
  BY <1>1, <1>4, ConstantFacts, DeletedKept
<1> QED
  BY <1>3, <1>5, <1>6, <1>7, <1>8, <1>9, <1>10

LEMMA AddChannelIInv ==
  ASSUME IInv, NEW t \in Threads, NEW c \in Channels, AddChannel(t, c)
  PROVE  IInv'
<1> USE DEF IInv
<1>1. /\ state[c] = "fresh" /\ state' = [state EXCEPT ![c] = "live"]
      /\ UNCHANGED <<attached, freed, subscribers, subscriptions, addSubscribers,
                     removeSubscribers, dispatching, stack, visited, removing>>
      /\ removal' \in [Threads -> {"none", "handlers", "removal", "found", "stale"}]
      /\ \A u \in Threads : removal'[u] = "none" <=> removal[u] = "none"
  BY InsertedRemoval DEF AddChannel, subVars, runVars
<1>2. c \in Nodes /\ c \notin Endpoints /\ \A e \in Endpoints : e \in Nodes
  BY ConstantFacts
<1>3. NodeTypes' /\ StackTypes'
  BY <1>1, <1>2 DEF NodeTypes, StackTypes
<1>4. \A n \in Nodes : state'[n] = IF n = c THEN "live" ELSE state[n]
  BY <1>1, <1>2 DEF NodeTypes
<1>5. AttachedInv'
  BY <1>1, <1>2, <1>4, ConstantFacts DEF AttachedInv
<1>6. FreshInv' /\ IdleInv'
  BY <1>1, <1>2, <1>4 DEF FreshInv, IdleInv, Known
<1>7. AgreeInv'
  <2> SUFFICES ASSUME NEW n \in Nodes, NEW d \in Endpoints, Known(n)', state'[d] = "live"
               PROVE  Agrees(n, d)'
    BY DEF AgreeInv
  <2>1. n # c => Agrees(n, d)
    BY <1>2, <1>4 DEF AgreeInv, Known
  <2>2. n = c => Agrees(n, d)
    BY <1>1 DEF FreshInv, Agrees
  <2> QED
    BY <1>1, <2>1, <2>2 DEF Agrees
<1>8. RemovalInv'
  BY <1>1 DEF RemovalInv
<1>9. DeletedInv' /\ VisitedInv'
  BY <1>1, <1>2, <1>4, DeletedKept
<1> QED
  BY <1>3, <1>5, <1>6, <1>7, <1>8, <1>9

LEMMA RemoveChannelIInv ==
  ASSUME IInv, NEW t \in Threads, NEW c \in Channels, RemoveChannel(t, c)
  PROVE  IInv'
<1> USE DEF IInv
<1>1. /\ c # Broadcast /\ state[c] = "live"
      /\ \/ state' = [state EXCEPT ![c] = "gone"]
         \/ dispatching[c] # {} /\ state' = [state EXCEPT ![c] = "erasing"]
      /\ UNCHANGED <<attached, freed, subscribers, subscriptions, addSubscribers,
                     removeSubscribers, dispatching, stack, visited, removing, removal>>
  BY DEF RemoveChannel, subVars, runVars
<1>2. c \in Nodes /\ c \notin Endpoints /\ \A e \in Endpoints : e \in Nodes
  BY ConstantFacts
<1>3. NodeTypes' /\ StackTypes'
  BY <1>1, <1>2 DEF NodeTypes, StackTypes
<1>4. /\ \A n \in Nodes : n # c => state'[n] = state[n]
      /\ state'[c] \in {"erasing", "gone"}
  BY <1>1, <1>2 DEF NodeTypes
<1>5. AttachedInv'
  BY <1>1, <1>2, <1>4, ConstantFacts DEF AttachedInv
<1>6. FreshInv'
  BY <1>1, <1>2, <1>4 DEF FreshInv
<1>7. IdleInv'
  BY <1>1, <1>2, <1>4 DEF IdleInv, Known
<1>8. AgreeInv'
  <2> SUFFICES ASSUME NEW n \in Nodes, NEW d \in Endpoints, Known(n)', state'[d] = "live"
               PROVE  Agrees(n, d)'
    BY DEF AgreeInv
  <2>1. Agrees(n, d)
    BY <1>1, <1>2, <1>4 DEF AgreeInv, Known
  <2> QED
    BY <1>1, <2>1 DEF Agrees
<1>9. RemovalInv'
  BY <1>1 DEF RemovalInv
<1>10. DeletedInv' /\ VisitedInv'
  BY <1>1, <1>2, <1>4, DeletedKept
<1> QED
  BY <1>3, <1>5, <1>6, <1>7, <1>8, <1>9, <1>10

(* What a change of one subscription has to establish.                      *)
LEMMA SubscriptionStep ==
  ASSUME IInv, NEW s \in Nodes, NEW e \in Endpoints, state[e] = "live", state[s] # "fresh",
         UNCHANGED <<state, attached, freed, dispatching, stack, visited, removing, removal>>,
         NodeTypes',
         \A n \in Nodes, d \in Endpoints : n # s \/ d # e =>
           /\ d \in subscribers'[n] <=> d \in subscribers[n]
           /\ d \in addSubscribers'[n] <=> d \in addSubscribers[n]
           /\ d \in removeSubscribers'[n] <=> d \in removeSubscribers[n]
           /\ n \in subscriptions'[d] <=> n \in subscriptions[d],
         Known(s) => Agrees(s, e)',
         dispatching[s] = {} =>
           addSubscribers'[s] = addSubscribers[s] /\ removeSubscribers'[s] = removeSubscribers[s]
  PROVE  IInv'
<1> USE DEF IInv
<1>1. StackTypes' /\ AttachedInv' /\ RemovalInv'
  BY DEF StackTypes, AttachedInv, RemovalInv
<1>2. e \in Nodes
  BY ConstantFacts
<1>3. FreshInv'
  <2>1. ASSUME NEW n \in Nodes, state'[n] = "fresh"
        PROVE  /\ subscribers'[n] = {} /\ addSubscribers'[n] = {} /\ removeSubscribers'[n] = {}
               /\ dispatching'[n] = {}
    <3>1. \A d \in Endpoints : d \notin subscribers'[n] /\ d \notin addSubscribers'[n]
                               /\ d \notin removeSubscribers'[n]
      BY <2>1 DEF FreshInv
    <3>2. /\ subscribers'[n] \subseteq Endpoints /\ addSubscribers'[n] \subseteq Endpoints
          /\ removeSubscribers'[n] \subseteq Endpoints
      BY DEF NodeTypes
    <3> QED
      BY <2>1, <3>1, <3>2 DEF FreshInv
  <2>2. ASSUME NEW d \in Endpoints, NEW n \in Nodes
        PROVE  /\ state'[n] = "fresh" => n \notin subscriptions'[d]
               /\ state'[d] = "fresh" => /\ d \notin subscribers'[n] /\ d \notin addSubscribers'[n]
                                         /\ d \notin removeSubscribers'[n]
    BY <1>2 DEF FreshInv
  <2> QED
    BY <2>1, <2>2 DEF FreshInv
<1>4. AgreeInv'
  <2> SUFFICES ASSUME NEW n \in Nodes, NEW d \in Endpoints, Known(n)', state'[d] = "live"
               PROVE  Agrees(n, d)'
    BY DEF AgreeInv
  <2>1. Known(n) /\ Agrees(n, d)
    BY DEF AgreeInv, Known
  <2>2. CASE n = s /\ d = e
    BY <2>1, <2>2
  <2>3. CASE n # s \/ d # e
    BY <2>1, <2>3 DEF Agrees
  <2> QED
    BY <2>2, <2>3
<1>5. IdleInv'
  <2> SUFFICES ASSUME NEW n \in Nodes, Known(n)', dispatching'[n] = {}
               PROVE  addSubscribers'[n] = {} /\ removeSubscribers'[n] = {}
    BY DEF IdleInv
  <2>1. addSubscribers[n] = {} /\ removeSubscribers[n] = {}
    BY DEF IdleInv, Known
  <2>2. addSubscribers'[n] \subseteq Endpoints /\ removeSubscribers'[n] \subseteq Endpoints
    BY DEF NodeTypes
  <2> QED
    BY <2>1, <2>2
<1>6. DeletedInv' /\ VisitedInv'
  BY DeletedKept
<1> QED
  BY <1>1, <1>3, <1>4, <1>5, <1>6

LEMMA SubscribeIInv ==
  ASSUME IInv, NEW t \in Threads, NEW s \in Nodes, NEW e \in Endpoints, Subscribe(t, s, e)
  PROVE  IInv'
<1> USE DEF IInv
<1>1. /\ attached[e] /\ Known(s) /\ s \notin subscriptions[e]
      /\ subscriptions' = [subscriptions EXCEPT ![e] = @ \cup {s}]
      /\ AddSubscriber(s, e)
      /\ UNCHANGED <<state, attached, freed, dispatching, stack, visited, removing, removal>>
  BY DEF Subscribe, Usable, nodeVars, runVars
<1>2. state[e] = "live" /\ state[s] # "fresh" /\ Agrees(s, e)
  BY <1>1 DEF AttachedInv, AgreeInv, Known
<1>3. NodeTypes'
  <2>1. /\ subscribers' \in [Nodes -> SUBSET Endpoints]
        /\ addSubscribers' \in [Nodes -> SUBSET Endpoints]
        /\ removeSubscribers' \in [Nodes -> SUBSET Endpoints]
    BY <1>1 DEF AddSubscriber, NodeTypes
  <2>2. subscriptions' \in [Endpoints -> SUBSET Nodes]
    BY <1>1 DEF NodeTypes
  <2> QED
    BY <1>1, <2>1, <2>2 DEF NodeTypes
<1>4. \A n \in Nodes, d \in Endpoints : n # s \/ d # e =>
        /\ d \in subscribers'[n] <=> d \in subscribers[n]
        /\ d \in addSubscribers'[n] <=> d \in addSubscribers[n]
        /\ d \in removeSubscribers'[n] <=> d \in removeSubscribers[n]
        /\ n \in subscriptions'[d] <=> n \in subscriptions[d]
  BY <1>1 DEF AddSubscriber, NodeTypes
<1>5. Agrees(s, e)'
  BY <1>1, <1>2 DEF AddSubscriber, NodeTypes, Agrees, IdleInv
<1>6. dispatching[s] = {} => UNCHANGED <<addSubscribers, removeSubscribers>>
  BY <1>1 DEF AddSubscriber
<1> QED
  BY <1>1, <1>2, <1>3, <1>4, <1>5, <1>6, SubscriptionStep

LEMMA UnsubscribeIInv ==
  ASSUME IInv, NEW t \in Threads, NEW s \in Nodes, NEW e \in Endpoints, Unsubscribe(t, s, e)
  PROVE  IInv'
<1> USE DEF IInv
<1>1. /\ attached[e] /\ s \in subscriptions[e]
      /\ subscriptions' = [subscriptions EXCEPT ![e] = @ \ {s}]
      /\ \/ Known(s) /\ RemoveSubscriber(s, e)
         \/ ~Known(s) /\ UNCHANGED <<subscribers, addSubscribers, removeSubscribers>>
      /\ UNCHANGED <<state, attached, freed, dispatching, stack, visited, removing, removal>>
  BY DEF Unsubscribe, Usable, nodeVars, runVars
<1>2. state[e] = "live" /\ state[s] # "fresh" /\ (Known(s) => Agrees(s, e))
  BY <1>1 DEF AttachedInv, AgreeInv, FreshInv
<1>3. NodeTypes'
  <2>1. /\ subscribers' \in [Nodes -> SUBSET Endpoints]
        /\ addSubscribers' \in [Nodes -> SUBSET Endpoints]
        /\ removeSubscribers' \in [Nodes -> SUBSET Endpoints]
    BY <1>1 DEF RemoveSubscriber, NodeTypes
  <2>2. subscriptions' \in [Endpoints -> SUBSET Nodes]
    BY <1>1 DEF NodeTypes
  <2> QED
    BY <1>1, <2>1, <2>2 DEF NodeTypes
<1>4. \A n \in Nodes, d \in Endpoints : n # s \/ d # e =>
        /\ d \in subscribers'[n] <=> d \in subscribers[n]
        /\ d \in addSubscribers'[n] <=> d \in addSubscribers[n]
        /\ d \in removeSubscribers'[n] <=> d \in removeSubscribers[n]
        /\ n \in subscriptions'[d] <=> n \in subscriptions[d]
  BY <1>1 DEF RemoveSubscriber, NodeTypes
<1>5. Known(s) => Agrees(s, e)'
  BY <1>1, <1>2 DEF RemoveSubscriber, NodeTypes, Agrees, IdleInv
<1>6. dispatching[s] = {} => UNCHANGED <<addSubscribers, removeSubscribers>>
  BY <1>1 DEF RemoveSubscriber
<1> QED
  BY <1>1, <1>2, <1>3, <1>4, <1>5, <1>6, SubscriptionStep

LEMMA DestroyIInv ==
  ASSUME IInv, NEW t \in Threads, NEW e \in Endpoints, Destroy(t, e)
  PROVE  IInv'
<1> USE DEF IInv
<1>1. /\ attached[e] /\ (\A u \in Threads : removing[u] # e) /\ removing[t] = None
      /\ removing' = [removing EXCEPT ![t] = e]
      /\ removal' = [removal EXCEPT ![t] = "handlers"]
      /\ UNCHANGED <<state, attached, freed, subscribers, subscriptions, addSubscribers,
                     removeSubscribers, dispatching, stack, visited>>
  BY DEF Destroy, Usable, CanCall, Outside, Free, nodeVars, subVars, runVars
<1>2. NodeTypes' /\ StackTypes'
  BY <1>1 DEF NodeTypes, StackTypes
<1>3. AttachedInv' /\ FreshInv' /\ AgreeInv' /\ IdleInv'
  BY <1>1 DEF AttachedInv, FreshInv, AgreeInv, Agrees, IdleInv, Known
<1>4. RemovalInv'
  <2>1. e # None
    BY ConstantFacts
  <2> QED
    BY <1>1, <2>1 DEF RemovalInv, NodeTypes
<1>5. DeletedInv' /\ VisitedInv'
  BY <1>1, DeletedKept
<1> QED
  BY <1>2, <1>3, <1>4, <1>5

(* The entry of the endpoint is erased, or turned into a channel.           *)
LEMMA EraseIInv ==
  ASSUME IInv, NEW t \in Threads, removal[t] # "none", Erase(t), UNCHANGED <<subVars, runVars>>
  PROVE  IInv'
<1> USE DEF IInv
<1>1. PICK e \in Endpoints : e = removing[t] /\ removing[t] # None
  BY DEF RemovalInv, NodeTypes
<1>2. /\ removing[t] # None
      /\ \/ state' = [state EXCEPT ![e] = "gone"]
         \/ dispatching[e] # {} /\ state' = [state EXCEPT ![e] = "erasing"]
      /\ attached' = [attached EXCEPT ![e] = FALSE]
      /\ freed' = [freed EXCEPT ![e] = TRUE]
      /\ removing' = [removing EXCEPT ![t] = None]
      /\ removal' = [removal EXCEPT ![t] = "none"]
      /\ UNCHANGED <<subscribers, subscriptions, addSubscribers, removeSubscribers,
                     dispatching, stack, visited>>
  BY <1>1 DEF Erase, Ends, subVars, runVars
<1>3. e \in Nodes /\ state[e] = "live" /\ e # Broadcast /\ \A d \in Endpoints : d \in Nodes
  BY <1>1, <1>2, ConstantFacts DEF RemovalInv, AttachedInv
<1>4. NodeTypes' /\ StackTypes'
  BY <1>2, <1>3, ZenonT(60) DEF NodeTypes, StackTypes
<1>5. /\ \A n \in Nodes : n # e => state'[n] = state[n]
      /\ state'[e] \in {"erasing", "gone"}
      /\ \A d \in Endpoints : attached'[d] <=> attached[d] /\ d # e
      /\ \A u \in Threads : removing'[u] = IF u = t THEN None ELSE removing[u]
      /\ \A u \in Threads : removal'[u] = IF u = t THEN "none" ELSE removal[u]
  BY <1>2, <1>3 DEF NodeTypes
<1>6. AttachedInv'
  BY <1>3, <1>5, ConstantFacts DEF AttachedInv
<1>7. FreshInv'
  BY <1>2, <1>3, <1>5 DEF FreshInv
<1>8. IdleInv'
  BY <1>2, <1>3, <1>5 DEF IdleInv, Known
<1>9. AgreeInv'
  <2> SUFFICES ASSUME NEW n \in Nodes, NEW d \in Endpoints, Known(n)', state'[d] = "live"
               PROVE  Agrees(n, d)'
    BY DEF AgreeInv
  <2>1. Agrees(n, d)
    BY <1>3, <1>5 DEF AgreeInv, Known
  <2> QED
    BY <1>2, <2>1 DEF Agrees
<1>10. RemovalInv'
  <2>0. \A u \in Threads : removing'[u] = None <=> removal'[u] = "none"
    BY <1>5 DEF RemovalInv
  <2> SUFFICES ASSUME NEW u \in Threads, removing'[u] # None
               PROVE  /\ attached'[removing'[u]]
                      /\ \A v \in Threads : removing'[v] = removing'[u] => v = u
    BY <2>0 DEF RemovalInv
  <2>1. u # t /\ removing'[u] = removing[u] /\ removing[u] \in Endpoints
    BY <1>5 DEF NodeTypes
  <2>2. /\ attached[removing[u]] /\ \A v \in Threads : removing[v] = removing[u] => v = u
    BY <2>1 DEF RemovalInv
  <2>3. removing[u] # e
    BY <1>1, <2>1, <2>2
  <2> QED
    BY <1>5, <2>1, <2>2, <2>3
<1>11. DeletedInv' /\ VisitedInv'
  BY <1>2, <1>3, <1>5, DeletedKept
<1> QED
  BY <1>4, <1>6, <1>7, <1>8, <1>9, <1>10, <1>11

(* The destructor goes on, or ends without the entry: by a stale iterator.  *)
LEMMA DestructorGoesOn ==
  ASSUME IInv, NEW t \in Threads, removal[t] # "none", UNCHANGED <<state, attached, subVars, runVars>>,
         \/ /\ \E p \in {"removal", "found"} : removal' = [removal EXCEPT ![t] = p]
            /\ UNCHANGED <<removing, freed>>
         \/ Ends(t)
  PROVE  IInv'
<1> USE DEF IInv
<1>1. UNCHANGED <<state, attached, subscribers, subscriptions, addSubscribers, removeSubscribers,
                  dispatching, stack, visited>>
  BY DEF subVars, runVars
<1>2. removing[t] \in Endpoints
  BY DEF RemovalInv, NodeTypes
<1>3. /\ freed' \in [Endpoints -> BOOLEAN]
      /\ removing' \in [Threads -> Endpoints \cup {None}]
      /\ removal' \in [Threads -> {"none", "handlers", "removal", "found", "stale"}]
      /\ \A u \in Threads : removing'[u] = removing[u] \/ removing'[u] = None
      /\ \A u \in Threads : removing'[u] = None <=> removal'[u] = "none"
  <2>1. CASE Ends(t)
    BY <1>2, <2>1 DEF Ends, NodeTypes, RemovalInv
  <2>2. ASSUME NEW p \in {"removal", "found"}, removal' = [removal EXCEPT ![t] = p],
               UNCHANGED <<removing, freed>>
        PROVE  /\ removal' \in [Threads -> {"none", "handlers", "removal", "found", "stale"}]
               /\ \A u \in Threads : removing'[u] = None <=> removal'[u] = "none"
    <3>1. p # "none" /\ removal[t] # "none" /\ p \in {"none", "handlers", "removal", "found", "stale"}
      OBVIOUS
    <3>2. /\ removal' \in [Threads -> {"none", "handlers", "removal", "found", "stale"}]
          /\ \A u \in Threads : removal'[u] = IF u = t THEN p ELSE removal[u]
      BY <2>2, <3>1 DEF NodeTypes
    <3>3. \A u \in Threads : removing[u] = None <=> removal[u] = "none"
      BY DEF RemovalInv
    <3> QED
      BY <2>2, <3>1, <3>2, <3>3
  <2>3. CASE UNCHANGED <<removing, freed>>
    <3>1. \A u \in Threads : removing'[u] = removing[u]
      BY <2>3
    <3>2. freed' \in [Endpoints -> BOOLEAN] /\ removing' \in [Threads -> Endpoints \cup {None}]
      BY <2>3 DEF NodeTypes
    <3>3. CASE \E p \in {"removal", "found"} : removal' = [removal EXCEPT ![t] = p]
      BY <2>2, <2>3, <3>1, <3>2, <3>3
    <3> QED
      BY <2>1, <3>3
  <2> QED
    BY <2>1, <2>3
<1>4. NodeTypes' /\ StackTypes'
  BY <1>1, <1>3 DEF NodeTypes, StackTypes
<1>5. AttachedInv' /\ FreshInv' /\ AgreeInv' /\ IdleInv'
  BY <1>1 DEF AttachedInv, FreshInv, AgreeInv, Agrees, IdleInv, Known
<1>6. RemovalInv'
  BY <1>1, <1>3 DEF RemovalInv
<1>7. DeletedInv' /\ VisitedInv'
  BY <1>1, DeletedKept
<1> QED
  BY <1>4, <1>5, <1>6, <1>7

LEMMA DestructorIInv ==
  ASSUME IInv, NEW t \in Threads, DestructorStep(t)
  PROVE  IInv'
<1>1. CASE DropHandlers(t)
  <2>1. /\ removal[t] # "none" /\ removal' = [removal EXCEPT ![t] = "removal"]
        /\ UNCHANGED <<state, attached, freed, removing, subVars, runVars>>
    BY <1>1 DEF DropHandlers, nodeVars
  <2> QED
    BY <2>1, DestructorGoesOn
<1>2. CASE RemoveEndpoint(t)
  <2>1. removal[t] # "none" /\ UNCHANGED <<subVars, runVars>>
    BY <1>2 DEF RemoveEndpoint
  <2>2. CASE Erase(t)
    BY <2>1, <2>2, EraseIInv
  <2>3. CASE ~Awaited(t, removing[t])
    <3>1. /\ removal' = [removal EXCEPT ![t] = "found"]
          /\ UNCHANGED <<state, attached, freed, removing>>
      BY <1>2, <2>3 DEF RemoveEndpoint, nodeVars
    <3> QED
      BY <2>1, <3>1, DestructorGoesOn
  <2> QED
    BY <1>2, <2>2, <2>3 DEF RemoveEndpoint
<1>3. CASE EraseAwaited(t)
  <2>1. removal[t] # "none" /\ UNCHANGED <<subVars, runVars>>
    BY <1>3 DEF EraseAwaited
  <2>2. CASE Erase(t)
    BY <2>1, <2>2, EraseIInv
  <2>3. CASE Ends(t) /\ UNCHANGED <<state, attached>>
    BY <2>1, <2>3, DestructorGoesOn
  <2> QED
    BY <1>3, <2>2, <2>3 DEF EraseAwaited
<1> QED
  BY <1>1, <1>2, <1>3 DEF DestructorStep
-----------------------------------------------------------------------------
(***************************************************************************)
(* Dispatches                                                              *)
(***************************************************************************)
LEMMA FrameTypes ==
  ASSUME NEW f \in Frames
  PROVE  /\ f.to \in Nodes /\ f.root \in BOOLEAN /\ f.seen \subseteq Nodes /\ f.deleted \subseteq Nodes
         /\ f.phase \in {"receive", "locking", "handler", "subscribers"}
BY DEF Frames

LEMMA FrameSeen ==
  ASSUME NEW f \in Frames, NEW e \in Nodes
  PROVE  \E g \in Frames :
           /\ g = [f EXCEPT !.seen = @ \cup {e}]
           /\ g.to = f.to /\ g.phase = f.phase /\ g.deleted = f.deleted /\ g.root = f.root
<1>1. PICK g : g = [f EXCEPT !.seen = @ \cup {e}]
  OBVIOUS
<1>2. g \in Frames
  BY <1>1 DEF Frames
<1>3. /\ g.to = f.to /\ g.phase = f.phase /\ g.deleted = f.deleted /\ g.root = f.root
  BY <1>1 DEF Frames
<1> QED
  BY <1>1, <1>2, <1>3

LEMMA FrameDeleted ==
  ASSUME NEW f \in Frames, NEW e \in Nodes
  PROVE  \E g \in Frames :
           /\ g = [f EXCEPT !.deleted = @ \cup {e}]
           /\ g.to = f.to /\ g.phase = f.phase /\ g.deleted = f.deleted \cup {e} /\ g.root = f.root
<1>1. PICK g : g = [f EXCEPT !.deleted = @ \cup {e}]
  OBVIOUS
<1>2. g \in Frames
  BY <1>1 DEF Frames
<1>3. /\ g.to = f.to /\ g.phase = f.phase /\ g.deleted = f.deleted \cup {e} /\ g.root = f.root
  BY <1>1 DEF Frames
<1> QED
  BY <1>1, <1>2, <1>3

LEMMA FrameNew ==
  ASSUME NEW n \in Nodes, NEW r \in BOOLEAN
  PROVE  \E g \in Frames :
           /\ g = NewFrame(n, r)
           /\ g.to = n /\ g.phase = "receive" /\ g.deleted = {} /\ g.root = r
<1>1. PICK g : g = NewFrame(n, r)
  OBVIOUS
<1>2. g \in Frames
  BY <1>1 DEF Frames, NewFrame
<1>3. /\ g.to = n /\ g.phase = "receive" /\ g.deleted = {} /\ g.root = r
  BY <1>1 DEF Frames, NewFrame
<1> QED
  BY <1>1, <1>2, <1>3

(* Frames are pushed and popped, and the roots with them.                   *)
LEMMA RootsFinite ==
  ASSUME stack \in [Threads -> Seq(Frames)], NEW t \in Threads
  PROVE  IsFiniteSet(Roots(t)) /\ Cardinality(Roots(t)) \in Nat
<1>1. PICK n \in Nat : DOMAIN stack[t] = 1 .. n
  <2>1. stack[t] \in Seq(Frames)
    OBVIOUS
  <2> QED
    BY <2>1, LenProperties
<1>2. IsFiniteSet(1 .. n)
  BY FS_Interval
<1>3. Roots(t) \subseteq 1 .. n
  BY <1>1 DEF Roots
<1> QED
  BY <1>2, <1>3, FS_Subset, FS_CardinalityType

LEMMA SameRoots ==
  ASSUME VisitedInv, StackTypes, StackTypes', NEW t \in Threads, stack[t] # <<>>,
         stack'[t] # <<>>,
         \A u \in Threads : Len(visited'[u]) = Len(visited[u]),
         \A u \in Threads : u # t => stack'[u] = stack[u],
         DOMAIN stack[t] \subseteq DOMAIN stack'[t],
         \A i \in DOMAIN stack[t] : stack'[t][i].root = stack[t][i].root,
         \A i \in DOMAIN stack'[t] \ DOMAIN stack[t] : stack'[t][i].root = FALSE
  PROVE  VisitedInv'
<1>1. \A u \in Threads : Roots(u)' = Roots(u)
  BY DEF Roots
<1>2. 1 \in DOMAIN stack[t]
  BY Popped DEF StackTypes
<1>3. \A u \in Threads : Len(visited'[u]) = Cardinality(Roots(u)')
  BY <1>1 DEF VisitedInv
<1>4. \A u \in Threads : stack'[u] # <<>> => stack'[u][1].root
  BY <1>2 DEF VisitedInv
<1> QED
  BY <1>3, <1>4 DEF VisitedInv

(* A step of a dispatch that only moves on from its phase.                  *)
PhaseStep(t) ==
  /\ Free(t) /\ stack[t] # <<>>
  /\ \E p \in {"locking", "handler", "subscribers"} :
       /\ SetTop(t, [Top(t) EXCEPT !.phase = p])
       /\ p = "locking" => Top(t).to \in Endpoints /\ attached[Top(t).to]
       /\ p = "handler" => Top(t).phase = "locking"
  /\ UNCHANGED <<state, attached, freed, subscribers, subscriptions, addSubscribers,
                 removeSubscribers, dispatching, visited, removing, removal>>

LEMMA PhaseSteps ==
  ASSUME NEW t \in Threads, ReadEndpoint(t) \/ EnterReceive(t) \/ HandlerReturns(t)
  PROVE  PhaseStep(t)
<1>1. ReadEndpoint(t) => PhaseStep(t)
  BY DEF ReadEndpoint, PhaseStep, In, nodeVars, subVars
<1>2. EnterReceive(t) => PhaseStep(t)
  BY DEF EnterReceive, PhaseStep, In, nodeVars, subVars
<1>3. HandlerReturns(t) => PhaseStep(t)
  BY DEF HandlerReturns, PhaseStep, In, nodeVars, subVars
<1> QED
  BY <1>1, <1>2, <1>3

LEMMA PhaseStepIInv ==
  ASSUME IInv, NEW t \in Threads, PhaseStep(t)
  PROVE  IInv'
<1> USE DEF IInv
<1>1. PICK f \in Frames : f = Top(t) /\ f = stack[t][Len(stack[t])] /\ Len(stack[t]) \in DOMAIN stack[t]
  BY StackTop DEF PhaseStep, StackTypes
<1>2. PICK g \in Frames : SetTop(t, g) /\ g.deleted = f.deleted /\ g.root = f.root
  <2>1. PICK p \in {"locking", "handler", "subscribers"} : SetTop(t, [f EXCEPT !.phase = p])
    BY <1>1 DEF PhaseStep
  <2>2. PICK g : g = [f EXCEPT !.phase = p]
    OBVIOUS
  <2>3. g \in Frames /\ g.deleted = f.deleted /\ g.root = f.root
    BY <2>2 DEF Frames
  <2> QED
    BY <2>1, <2>2, <2>3
<1>3. UNCHANGED <<state, attached, freed, subscribers, subscriptions, addSubscribers,
                  removeSubscribers, dispatching, visited, removing, removal>>
  BY DEF PhaseStep
<1>4. /\ stack' \in [Threads -> Seq(Frames)]
      /\ \A u \in Threads : u # t => stack'[u] = stack[u]
      /\ stack'[t] # <<>> /\ DOMAIN stack'[t] = DOMAIN stack[t]
      /\ \A i \in DOMAIN stack[t] : i # Len(stack[t]) => stack'[t][i] = stack[t][i]
      /\ stack'[t][Len(stack[t])] = g
  BY <1>2, SetTopStep DEF PhaseStep, StackTypes
<1>5. NodeTypes' /\ StackTypes'
  BY <1>3, <1>4 DEF NodeTypes, StackTypes
<1>6. AttachedInv' /\ FreshInv' /\ AgreeInv' /\ IdleInv' /\ RemovalInv'
  BY <1>3 DEF AttachedInv, FreshInv, AgreeInv, Agrees, IdleInv, RemovalInv, Known
<1>7. DeletedInv'
  BY <1>1, <1>2, <1>3, <1>4 DEF DeletedInv
<1>8. VisitedInv'
  <2>1. \A i \in DOMAIN stack[t] : stack'[t][i].root = stack[t][i].root
    BY <1>1, <1>2, <1>4
  <2>2. \A u \in Threads : Len(visited'[u]) = Len(visited[u])
    BY <1>3
  <2>3. stack[t] # <<>>
    BY DEF PhaseStep
  <2> QED
    BY <1>4, <1>5, <2>1, <2>2, <2>3, SameRoots
<1> QED
  BY <1>5, <1>6, <1>7, <1>8

(* A stack that is not empty has a visited set for its last dispatch.       *)
LEMMA HasVisited ==
  ASSUME StackTypes, VisitedInv, NEW t \in Threads, stack[t] # <<>>
  PROVE  visited[t] \in Seq(SUBSET Nodes) /\ visited[t] # <<>> /\ 1 \in Roots(t)
<1>1. visited[t] \in Seq(SUBSET Nodes) /\ stack[t] \in Seq(Frames)
  BY DEF StackTypes
<1>2. 1 \in DOMAIN stack[t]
  BY <1>1, Popped
<1>3. 1 \in Roots(t)
  BY <1>2 DEF VisitedInv, Roots
<1>4. Cardinality(Roots(t)) # 0
  BY <1>3, RootsFinite, FS_EmptySet DEF StackTypes
<1>5. Len(visited[t]) # 0
  BY <1>4 DEF VisitedInv
<1>6. visited[t] # <<>>
  BY <1>5, EmptySeq
<1> QED
  BY <1>1, <1>3, <1>6

LEMMA VisitStep ==
  ASSUME StackTypes, NEW t \in Threads, visited[t] # <<>>, NEW v \in SUBSET Nodes,
         visited' = [visited EXCEPT ![t] = Append(Front(@), v)]
  PROVE  /\ visited' \in [Threads -> Seq(SUBSET Nodes)]
         /\ \A u \in Threads : u # t => visited'[u] = visited[u]
         /\ visited'[t] # <<>> /\ Len(visited'[t]) = Len(visited[t]) /\ Last(visited'[t]) = v
<1>1. PICK s \in Seq(SUBSET Nodes) : s = visited[t] /\ s # <<>>
  BY DEF StackTypes
<1>2. visited' = [visited EXCEPT ![t] = Append(Front(s), v)]
  BY <1>1
<1>3. PICK r : r = Append(Front(s), v)
  OBVIOUS
<1>4. r \in Seq(SUBSET Nodes) /\ r # <<>> /\ Len(r) = Len(s) /\ Last(r) = v
  <2>1. \A S : \A x \in Seq(S), y \in S : x # <<>> =>
          LET z == Append(Front(x), y) IN z \in Seq(S) /\ z # <<>> /\ Len(z) = Len(x) /\ Last(z) = y
    BY Replaced
  <2> QED
    BY <1>1, <1>3, <2>1, ZenonT(30)
<1>5. visited' = [visited EXCEPT ![t] = r]
  BY <1>2, <1>3
<1> QED
  BY <1>1, <1>4, <1>5 DEF StackTypes

LEMMA SendIInv ==
  ASSUME IInv, NEW t \in Threads, NEW n \in Nodes, Send(t, n)
  PROVE  IInv'
<1> USE DEF IInv
<1>1. /\ state[n] = "live"
      /\ dispatching' = [dispatching EXCEPT ![n] = @ \cup {t}]
      /\ stack' = [stack EXCEPT ![t] = Append(@, NewFrame(n, TRUE))]
      /\ visited' = [visited EXCEPT ![t] = Append(@, {n})]
      /\ UNCHANGED <<state, attached, freed, subscribers, subscriptions, addSubscribers,
                     removeSubscribers, removing, removal>>
  BY DEF Send, nodeVars, subVars
<1>2. PICK f \in Frames : f = NewFrame(n, TRUE) /\ f.deleted = {} /\ f.root
  BY FrameNew
<1>3. /\ stack' \in [Threads -> Seq(Frames)]
      /\ \A u \in Threads : u # t => stack'[u] = stack[u]
      /\ DOMAIN stack'[t] = DOMAIN stack[t] \cup {Len(stack[t]) + 1}
      /\ \A i \in DOMAIN stack[t] : stack'[t][i] = stack[t][i]
      /\ stack'[t][Len(stack[t]) + 1] = f
  BY <1>1, <1>2, PushStep DEF StackTypes
<1>4. StackTypes' /\ Len(visited'[t]) = Len(visited[t]) + 1
  <2>1. PICK v \in Seq(SUBSET Nodes) : v = visited[t]
    BY DEF StackTypes
  <2>2. PICK w : w = Append(v, {n})
    OBVIOUS
  <2>3. w \in Seq(SUBSET Nodes) /\ Len(w) = Len(v) + 1
    BY <2>2, AppendProperties
  <2>4. visited' = [visited EXCEPT ![t] = w]
    BY <1>1, <2>1, <2>2
  <2> QED
    BY <1>3, <2>1, <2>3, <2>4 DEF StackTypes
<1>5. NodeTypes'
  BY <1>1 DEF NodeTypes
<1>6. AttachedInv' /\ RemovalInv' /\ AgreeInv'
  BY <1>1 DEF AttachedInv, AgreeInv, Agrees, RemovalInv, Known
<1>7. FreshInv' /\ IdleInv'
  BY <1>1 DEF FreshInv, IdleInv, Known, NodeTypes
<1>8. DeletedInv'
  BY <1>1, <1>2, <1>3, ZenonT(60) DEF DeletedInv
<1>9. VisitedInv'
  <2>1. \A u \in Threads : u # t => Roots(u)' = Roots(u) /\ visited'[u] = visited[u]
    BY <1>1, <1>3 DEF Roots, StackTypes
  <2>2. PICK k \in Nat : k = Len(stack[t]) /\ DOMAIN stack[t] = 1 .. k
    <3>1. stack[t] \in Seq(Frames)
      BY DEF StackTypes
    <3> QED
      BY <3>1, LenProperties
  <2>3. k + 1 \notin Roots(t)
    <3>1. k + 1 \notin 1 .. k
      OBVIOUS
    <3> QED
      BY <2>2, <3>1 DEF Roots
  <2>4. Roots(t)' = Roots(t) \cup {k + 1}
    BY <1>2, <1>3, <2>2 DEF Roots
  <2>5. Cardinality(Roots(t)') = Cardinality(Roots(t)) + 1
    BY <2>3, <2>4, RootsFinite, FS_AddElement DEF StackTypes
  <2>6. stack'[t][1].root
    <3>1. CASE k = 0
      <4>1. k + 1 = 1 /\ stack'[t][k + 1] = f
        BY <1>3, <2>2, <3>1
      <4> QED
        BY <1>2, <4>1
    <3>2. CASE k # 0
      <4>1. 1 \in DOMAIN stack[t] /\ stack[t] # <<>>
        BY <2>2, <3>2
      <4> QED
        BY <1>3, <4>1 DEF VisitedInv
    <3> QED
      BY <3>1, <3>2
  <2>7. ASSUME NEW u \in Threads
        PROVE  /\ stack'[u] # <<>> => stack'[u][1].root
               /\ Len(visited'[u]) = Cardinality(Roots(u)')
    BY <1>3, <1>4, <2>1, <2>5, <2>6 DEF VisitedInv
  <2> QED
    BY <2>7 DEF VisitedInv
<1> QED
  BY <1>4, <1>5, <1>6, <1>7, <1>8, <1>9

(* The three ways in which NextSubscriber goes on with subscriber e.        *)
Visits(t, f, e) ==
  /\ f = Top(t) /\ f.phase = "subscribers"
  /\ e \in subscribers[f.to]
  /\ visited' = [visited EXCEPT ![t] = Append(Front(@), Last(visited[t]) \cup {e})]
  /\ \E g \in Frames :
       /\ g.to = f.to /\ g.phase = f.phase /\ g.root = f.root
       /\ \/ /\ SetTop(t, g) /\ UNCHANGED dispatching
             /\ \/ g.deleted = f.deleted
                \/ g.deleted = f.deleted \cup {e} /\ state[e] # "live"
          \/ /\ g.deleted = f.deleted
             /\ e \notin Last(visited[t]) /\ state[e] = "live"
             /\ stack' = [stack EXCEPT ![t] = Front(@) \o <<g, NewFrame(e, FALSE)>>]
             /\ dispatching' = [dispatching EXCEPT ![e] = @ \cup {t}]

LEMMA NextSubscriberVisits ==
  ASSUME IInv, NEW t \in Threads, NextSubscriber(t)
  PROVE  /\ removing[t] = None /\ stack[t] # <<>>
         /\ \E f \in Frames, e \in Endpoints : Visits(t, f, e)
         /\ UNCHANGED <<state, attached, freed, subscribers, subscriptions, addSubscribers,
                        removeSubscribers, removing, removal>>
<1>1. removing[t] = None /\ stack[t] # <<>> /\ Top(t).phase = "subscribers"
  BY DEF NextSubscriber, In, Free
<1>2. UNCHANGED <<state, attached, freed, subscribers, subscriptions, addSubscribers,
                  removeSubscribers, removing, removal>>
  BY DEF NextSubscriber, nodeVars, subVars
<1>3. PICK f \in Frames : f = Top(t)
  BY <1>1, StackTop DEF IInv, StackTypes
<1>4. PICK e \in subscribers[f.to] :
        LET g == [f EXCEPT !.seen = @ \cup {e}]
            v == Last(visited[t]) IN
        /\ visited' = [visited EXCEPT ![t] = Append(Front(@), v \cup {e})]
        /\ \/ /\ e \in v
              /\ SetTop(t, g)
              /\ UNCHANGED dispatching
           \/ /\ e \notin v /\ state[e] # "live"
              /\ SetTop(t, [g EXCEPT !.deleted = @ \cup {e}])
              /\ UNCHANGED dispatching
           \/ /\ e \notin v /\ state[e] = "live"
              /\ stack' = [stack EXCEPT ![t] = Front(@) \o <<g, NewFrame(e, FALSE)>>]
              /\ dispatching' = [dispatching EXCEPT ![e] = @ \cup {t}]
  BY <1>3 DEF NextSubscriber
<1>5. e \in Endpoints /\ e \in Nodes
  <2>1. f.to \in Nodes
    BY FrameTypes
  <2> QED
    BY <1>4, <2>1, ConstantFacts DEF IInv, NodeTypes
<1>6. PICK g \in Frames : /\ g = [f EXCEPT !.seen = @ \cup {e}]
                          /\ g.to = f.to /\ g.phase = f.phase /\ g.deleted = f.deleted /\ g.root = f.root
  BY <1>5, FrameSeen
<1>7. PICK h \in Frames :
        /\ h = [g EXCEPT !.deleted = @ \cup {e}]
        /\ h.to = g.to /\ h.phase = g.phase /\ h.deleted = g.deleted \cup {e} /\ h.root = g.root
  BY <1>5, FrameDeleted
<1>8. Visits(t, f, e)
  <2>1. CASE SetTop(t, g) /\ UNCHANGED dispatching
    BY <1>1, <1>3, <1>4, <1>6, <2>1, Zenon DEF Visits
  <2>2. CASE state[e] # "live" /\ SetTop(t, h) /\ UNCHANGED dispatching
    BY <1>1, <1>3, <1>4, <1>6, <1>7, <2>2, ZenonT(60) DEF Visits
  <2>3. CASE /\ e \notin Last(visited[t]) /\ state[e] = "live"
             /\ stack' = [stack EXCEPT ![t] = Front(@) \o <<g, NewFrame(e, FALSE)>>]
             /\ dispatching' = [dispatching EXCEPT ![e] = @ \cup {t}]
    BY <1>1, <1>3, <1>4, <1>6, <2>3, Zenon DEF Visits
  <2> QED
    BY <1>4, <1>6, <1>7, <2>1, <2>2, <2>3, Zenon
<1> QED
  BY <1>1, <1>2, <1>3, <1>5, <1>8

LEMMA NextSubscriberIInv ==
  ASSUME IInv, NEW t \in Threads, NextSubscriber(t)
  PROVE  IInv'
<1> USE DEF IInv
<1>1. /\ stack[t] # <<>>
      /\ UNCHANGED <<state, attached, freed, subscribers, subscriptions, addSubscribers,
                     removeSubscribers, removing, removal>>
  BY NextSubscriberVisits
<1>2. PICK f \in Frames, e \in Endpoints : Visits(t, f, e)
  BY NextSubscriberVisits
<1>3. f = stack[t][Len(stack[t])] /\ Len(stack[t]) \in DOMAIN stack[t] /\ f.to \in Nodes /\ e \in Nodes
  BY <1>1, <1>2, StackTop, FrameTypes, ConstantFacts DEF Visits, StackTypes
<1>4. PICK h \in Frames : h = NewFrame(e, FALSE) /\ h.deleted = {} /\ h.root = FALSE
  BY <1>3, FrameNew
<1>5. PICK g \in Frames :
       /\ g.root = f.root
       /\ \/ /\ SetTop(t, g) /\ UNCHANGED dispatching
             /\ \/ g.deleted = f.deleted
                \/ g.deleted = f.deleted \cup {e} /\ state[e] # "live"
          \/ /\ g.deleted = f.deleted /\ state[e] = "live"
             /\ stack' = [stack EXCEPT ![t] = Front(@) \o <<g, h>>]
             /\ dispatching' = [dispatching EXCEPT ![e] = @ \cup {t}]
  BY <1>2, <1>4, Zenon DEF Visits
<1>6. /\ stack' \in [Threads -> Seq(Frames)]
      /\ \A u \in Threads : u # t => stack'[u] = stack[u]
      /\ stack'[t] # <<>>
      /\ \/ DOMAIN stack'[t] = DOMAIN stack[t]
         \/ /\ DOMAIN stack'[t] = DOMAIN stack[t] \cup {Len(stack[t]) + 1}
            /\ stack'[t][Len(stack[t]) + 1] = h
      /\ \A i \in DOMAIN stack[t] : i # Len(stack[t]) => stack'[t][i] = stack[t][i]
      /\ stack'[t][Len(stack[t])] = g
  <2>1. CASE SetTop(t, g)
    BY <1>1, <2>1, SetTopStep DEF StackTypes
  <2>2. CASE stack' = [stack EXCEPT ![t] = Front(@) \o <<g, h>>]
    BY <1>1, <2>2, ForkStep, Zenon DEF StackTypes
  <2> QED
    BY <1>5, <2>1, <2>2
<1>7. /\ visited' \in [Threads -> Seq(SUBSET Nodes)]
      /\ \A u \in Threads : Len(visited'[u]) = Len(visited[u])
  <2>1. visited[t] # <<>> /\ visited[t] \in Seq(SUBSET Nodes)
    BY <1>1, HasVisited
  <2>2. PICK v \in SUBSET Nodes : v = Last(visited[t]) \cup {e}
    <3>1. Last(visited[t]) \in SUBSET Nodes
      BY <2>1, Popped
    <3> QED
      BY <1>3, <3>1
  <2>3. visited' = [visited EXCEPT ![t] = Append(Front(@), v)]
    BY <1>2, <2>2 DEF Visits
  <2>4. /\ visited' \in [Threads -> Seq(SUBSET Nodes)]
        /\ \A u \in Threads : u # t => visited'[u] = visited[u]
        /\ Len(visited'[t]) = Len(visited[t])
    BY <2>1, <2>3, VisitStep
  <2> QED
    BY <2>4
<1>8. StackTypes'
  BY <1>6, <1>7 DEF StackTypes
<1>9. NodeTypes'
  <2>1. dispatching' = dispatching \/ dispatching' = [dispatching EXCEPT ![e] = @ \cup {t}]
    BY <1>5
  <2>2. dispatching' \in [Nodes -> SUBSET Threads]
    BY <1>3, <2>1 DEF NodeTypes
  <2> QED
    BY <1>1, <2>2 DEF NodeTypes
<1>10. \A n \in Nodes : /\ dispatching'[n] = {} => dispatching[n] = {}
                        /\ state[n] # "live" => dispatching'[n] = dispatching[n]
  BY <1>3, <1>5 DEF NodeTypes
<1>11. AttachedInv' /\ AgreeInv' /\ RemovalInv'
  BY <1>1 DEF AttachedInv, AgreeInv, Agrees, RemovalInv, Known
<1>12. FreshInv' /\ IdleInv'
  BY <1>1, <1>10 DEF FreshInv, IdleInv, Known
<1>13. DeletedInv'
  <2> SUFFICES ASSUME NEW u \in Threads, NEW i \in DOMAIN stack'[u], NEW d \in Endpoints,
                      d \in stack'[u][i].deleted
               PROVE  state'[d] \in {"erasing", "gone"}
    BY DEF DeletedInv
  <2>1. CASE u # t
    BY <1>1, <1>6, <2>1 DEF DeletedInv
  <2>2. state[e] # "live" => state[e] \in {"erasing", "gone"}
    <3>1. state[e] # "fresh"
      BY <1>2, <1>3 DEF Visits, FreshInv
    <3> QED
      BY <1>3, <3>1 DEF NodeTypes
  <2>3. CASE u = t /\ i \in DOMAIN stack[t] /\ i # Len(stack[t])
    BY <1>1, <1>6, <2>3 DEF DeletedInv
  <2>4. CASE u = t /\ i = Len(stack[t])
    <3>1. d \in f.deleted => state[d] \in {"erasing", "gone"}
      BY <1>3 DEF DeletedInv
    <3>2. d \in f.deleted \/ (d = e /\ state[e] # "live")
      BY <1>5, <1>6, <2>4
    <3> QED
      BY <1>1, <2>2, <3>1, <3>2
  <2>5. CASE u = t /\ i \notin DOMAIN stack[t]
    BY <1>4, <1>6, <2>5
  <2> QED
    BY <1>3, <2>1, <2>3, <2>4, <2>5
<1>14. VisitedInv'
  <2>1. DOMAIN stack[t] \subseteq DOMAIN stack'[t]
    BY <1>6
  <2>2. \A i \in DOMAIN stack[t] : stack'[t][i].root = stack[t][i].root
    BY <1>3, <1>5, <1>6
  <2>3. \A i \in DOMAIN stack'[t] \ DOMAIN stack[t] : stack'[t][i].root = FALSE
    BY <1>4, <1>6
  <2> QED
    BY <1>1, <1>6, <1>7, <1>8, <2>1, <2>2, <2>3, SameRoots
<1> QED
  BY <1>8, <1>9, <1>11, <1>12, <1>13, <1>14

LEMMA LeaveIInv ==
  ASSUME IInv, NEW t \in Threads, Leave(t)
  PROVE  IInv'
<1> USE DEF IInv
<1>1. stack[t] # <<>> /\ stack' = [stack EXCEPT ![t] = Front(@)]
  BY DEF Leave, In
<1>2. PICK f \in Frames : f = Top(t) /\ f = stack[t][Len(stack[t])] /\ Len(stack[t]) \in DOMAIN stack[t]
  BY <1>1, StackTop DEF StackTypes
<1>3. PICK n \in Nodes : n = f.to
  BY <1>2, FrameTypes
<1>4. PICK rest : rest = dispatching[n] \ {t}
  OBVIOUS
<1>5. PICK kept : kept = subscribers[n] \ f.deleted
  OBVIOUS
<1>6. /\ dispatching' = [dispatching EXCEPT ![n] = rest]
      /\ visited' = IF f.root THEN [visited EXCEPT ![t] = Front(@)] ELSE visited
      /\ UNCHANGED <<attached, freed, removing, removal, subscriptions>>
      /\ \/ /\ rest = {} /\ state[n] = "erasing"
            /\ state' = [state EXCEPT ![n] = "gone"]
            /\ UNCHANGED <<subscribers, addSubscribers, removeSubscribers>>
         \/ /\ rest = {} /\ state[n] # "erasing"
            /\ subscribers' = [subscribers EXCEPT ![n] =
                                 (kept \cup addSubscribers[n]) \ removeSubscribers[n]]
            /\ addSubscribers' = [addSubscribers EXCEPT ![n] = {}]
            /\ removeSubscribers' = [removeSubscribers EXCEPT ![n] = {}]
            /\ UNCHANGED state
         \/ /\ rest # {}
            /\ subscribers' = [subscribers EXCEPT ![n] = kept]
            /\ UNCHANGED <<state, addSubscribers, removeSubscribers>>
  BY <1>2, <1>3, <1>4, <1>5 DEF Leave, Unmarked, subVars
<1>7. /\ stack' \in [Threads -> Seq(Frames)]
      /\ \A u \in Threads : u # t => stack'[u] = stack[u]
      /\ DOMAIN stack'[t] = DOMAIN stack[t] \ {Len(stack[t])}
      /\ \A i \in DOMAIN stack'[t] : stack'[t][i] = stack[t][i]
  BY <1>1, PopStep DEF StackTypes
<1>8. /\ \A m \in Nodes : m # n => state'[m] = state[m]
      /\ state'[n] = state[n] \/ (state[n] = "erasing" /\ state'[n] = "gone")
      /\ \A m \in Nodes : m # n => /\ subscribers'[m] = subscribers[m]
                                   /\ addSubscribers'[m] = addSubscribers[m]
                                   /\ removeSubscribers'[m] = removeSubscribers[m]
                                   /\ dispatching'[m] = dispatching[m]
      /\ dispatching'[n] = rest
  BY <1>6 DEF NodeTypes
<1>9. \/ /\ subscribers'[n] = subscribers[n] /\ state'[n] = "gone"
         /\ addSubscribers'[n] = addSubscribers[n] /\ removeSubscribers'[n] = removeSubscribers[n]
      \/ /\ rest = {}
         /\ subscribers'[n] = (kept \cup addSubscribers[n]) \ removeSubscribers[n]
         /\ addSubscribers'[n] = {} /\ removeSubscribers'[n] = {}
      \/ /\ rest # {} /\ subscribers'[n] = kept
         /\ addSubscribers'[n] = addSubscribers[n] /\ removeSubscribers'[n] = removeSubscribers[n]
  BY <1>6 DEF NodeTypes
<1>10. NodeTypes'
  <2>1. kept \in SUBSET Endpoints /\ (kept \cup addSubscribers[n]) \ removeSubscribers[n] \in SUBSET Endpoints
    BY <1>5 DEF NodeTypes
  <2>2. /\ subscribers' \in [Nodes -> SUBSET Endpoints]
        /\ addSubscribers' \in [Nodes -> SUBSET Endpoints]
        /\ removeSubscribers' \in [Nodes -> SUBSET Endpoints]
    BY <1>6, <2>1 DEF NodeTypes
  <2>3. dispatching' \in [Nodes -> SUBSET Threads]
    BY <1>4, <1>6 DEF NodeTypes
  <2>4. state' \in [Nodes -> {"fresh", "live", "erasing", "gone"}]
    BY <1>6 DEF NodeTypes
  <2> QED
    BY <1>6, <2>2, <2>3, <2>4 DEF NodeTypes
<1>11. \A e \in Endpoints : e \in Nodes
  BY ConstantFacts
<1>12. AttachedInv' /\ RemovalInv'
  BY <1>6, <1>8, <1>11, ConstantFacts DEF AttachedInv, RemovalInv
<1>13. FreshInv'
  <2>1. ASSUME NEW m \in Nodes, state'[m] = "fresh"
        PROVE  /\ subscribers'[m] = {} /\ addSubscribers'[m] = {} /\ removeSubscribers'[m] = {}
               /\ dispatching'[m] = {}
    BY <1>4, <1>5, <1>8, <1>9, <2>1 DEF FreshInv
  <2>2. ASSUME NEW e \in Endpoints, NEW m \in Nodes, state'[e] = "fresh"
        PROVE  /\ e \notin subscribers'[m] /\ e \notin addSubscribers'[m]
               /\ e \notin removeSubscribers'[m]
    <3>1. state[e] = "fresh"
      BY <1>8, <1>11, <2>2
    <3>2. e \notin subscribers[m] /\ e \notin addSubscribers[m] /\ e \notin removeSubscribers[m]
      BY <3>1 DEF FreshInv
    <3> QED
      BY <1>5, <1>8, <1>9, <3>2
  <2>3. \A e \in Endpoints, m \in Nodes : state'[m] = "fresh" => m \notin subscriptions'[e]
    BY <1>6, <1>8 DEF FreshInv
  <2> QED
    BY <2>1, <2>2, <2>3 DEF FreshInv
<1>14. AgreeInv'
  <2> SUFFICES ASSUME NEW m \in Nodes, NEW d \in Endpoints, Known(m)', state'[d] = "live"
               PROVE  Agrees(m, d)'
    BY DEF AgreeInv
  <2>1. Known(m) /\ state[d] = "live" /\ state'[m] # "gone"
    BY <1>8, <1>11 DEF Known
  <2>2. Agrees(m, d)
    BY <2>1 DEF AgreeInv
  <2>3. d \notin f.deleted
    BY <1>2, <2>1 DEF DeletedInv
  <2>4. CASE m = n
    BY <1>5, <1>6, <1>9, <2>1, <2>2, <2>3, <2>4 DEF Agrees
  <2>5. CASE m # n
    BY <1>6, <1>8, <2>2, <2>5 DEF Agrees
  <2> QED
    BY <2>4, <2>5
<1>15. IdleInv'
  BY <1>8, <1>9 DEF IdleInv, Known
<1>16. DeletedInv'
  BY <1>7, <1>8, <1>11 DEF DeletedInv
<1>17. /\ \A u \in Threads : u # t => visited'[u] = visited[u]
       /\ visited'[t] \in Seq(SUBSET Nodes) /\ StackTypes'
       /\ Len(visited'[t]) = IF f.root THEN Len(visited[t]) - 1 ELSE Len(visited[t])
  <2>1. PICK v \in Seq(SUBSET Nodes) : v = visited[t] /\ v # <<>>
    BY <1>1, HasVisited
  <2>2. PICK w \in Seq(SUBSET Nodes) : w = Front(v) /\ Len(w) = Len(v) - 1
    BY <2>1, Popped
  <2>3. CASE f.root
    <3>1. visited' = [visited EXCEPT ![t] = w]
      BY <1>6, <2>1, <2>2, <2>3
    <3> QED
      BY <1>7, <2>1, <2>2, <2>3, <3>1 DEF StackTypes
  <2>4. CASE ~f.root
    BY <1>6, <1>7, <2>4 DEF StackTypes
  <2> QED
    BY <2>3, <2>4
<1>18. VisitedInv'
  <2>1. PICK k \in Nat \ {0} : k = Len(stack[t]) /\ DOMAIN stack[t] = 1 .. k
    <3>1. stack[t] \in Seq(Frames)
      BY DEF StackTypes
    <3> QED
      BY <1>1, <3>1, Popped
  <2>2. \A u \in Threads : u # t => Roots(u)' = Roots(u)
    BY <1>7 DEF Roots
  <2>3. Roots(t)' = Roots(t) \ {k}
    BY <1>7, <2>1 DEF Roots
  <2>4. k \in Roots(t) <=> f.root
    BY <1>2, <2>1 DEF Roots
  <2>5. Cardinality(Roots(t)') = IF f.root THEN Cardinality(Roots(t)) - 1 ELSE Cardinality(Roots(t))
    <3>1. CASE f.root
      BY <2>3, <2>4, <3>1, RootsFinite, FS_RemoveElement, ZenonT(60) DEF StackTypes
    <3>2. CASE ~f.root
      <4>1. Roots(t)' = Roots(t)
        BY <2>3, <2>4, <3>2
      <4> QED
        BY <3>2, <4>1
    <3> QED
      BY <3>1, <3>2
  <2>6. ASSUME NEW u \in Threads
        PROVE  Len(visited'[u]) = Cardinality(Roots(u)')
    BY <1>17, <2>2, <2>5 DEF VisitedInv
  <2>7. ASSUME NEW u \in Threads, stack'[u] # <<>>
        PROVE  stack'[u][1].root
    <3>1. CASE u # t
      BY <1>7, <2>7, <3>1 DEF VisitedInv
    <3>2. CASE u = t
      <4>1. stack'[t] \in Seq(Frames) /\ stack'[t] # <<>>
        BY <1>7, <2>7, <3>2
      <4>2. 1 \in DOMAIN stack'[t]
        BY <4>1, Popped
      <4> QED
        BY <1>1, <1>7, <3>2, <4>2 DEF VisitedInv
    <3> QED
      BY <3>1, <3>2
  <2> QED
    BY <2>6, <2>7 DEF VisitedInv
<1> QED
  BY <1>10, <1>12, <1>13, <1>14, <1>15, <1>16, <1>17, <1>18

LEMMA StutterIInv == IInv /\ UNCHANGED vars => IInv'
<1> SUFFICES ASSUME IInv, UNCHANGED vars PROVE IInv'
  OBVIOUS
<1> USE DEF IInv
<1>1. UNCHANGED <<state, attached, freed, subscribers, subscriptions, addSubscribers,
                  removeSubscribers, dispatching, stack, visited, removing, removal>>
  BY DEF vars, nodeVars, subVars, runVars
<1>2. NodeTypes' /\ StackTypes' /\ AttachedInv' /\ FreshInv' /\ IdleInv' /\ RemovalInv'
  BY <1>1 DEF NodeTypes, StackTypes, AttachedInv, FreshInv, IdleInv, RemovalInv, Known
<1>3. AgreeInv' /\ DeletedInv' /\ VisitedInv'
  BY <1>1 DEF AgreeInv, Agrees, DeletedInv, VisitedInv, Roots, Known
<1> QED
  BY <1>2, <1>3

LEMMA NextIInv == IInv /\ [Next]_vars => IInv'
<1> SUFFICES ASSUME IInv, [Next]_vars PROVE IInv'
  OBVIOUS
<1>1. CASE UNCHANGED vars
  BY <1>1, StutterIInv
<1>2. ASSUME NEW t \in Threads, DispatchStep(t)
      PROVE  IInv'
  <2>1. ASSUME ReadEndpoint(t) \/ EnterReceive(t) \/ HandlerReturns(t) PROVE IInv'
    BY <2>1, PhaseSteps, PhaseStepIInv
  <2> QED
    BY <1>2, <2>1, NextSubscriberIInv, LeaveIInv DEF DispatchStep
<1>3. ASSUME NEW t \in Threads, NEW n \in Nodes, Send(t, n) PROVE IInv'
  BY <1>3, SendIInv
<1>4. ASSUME NEW t \in Threads, NEW c \in Channels, AddChannel(t, c) \/ RemoveChannel(t, c) PROVE IInv'
  BY <1>4, AddChannelIInv, RemoveChannelIInv
<1>5. ASSUME NEW t \in Threads, NEW e \in Endpoints, CreateEndpoint(t, e) \/ Destroy(t, e) PROVE IInv'
  BY <1>5, CreateEndpointIInv, DestroyIInv
<1>6. ASSUME NEW t \in Threads, NEW e \in Endpoints, NEW s \in Nodes,
             Subscribe(t, s, e) \/ Unsubscribe(t, s, e)
      PROVE  IInv'
  BY <1>6, SubscribeIInv, UnsubscribeIInv
<1>7. ASSUME NEW t \in Threads, DestructorStep(t) PROVE IInv'
  BY <1>7, DestructorIInv
<1> QED
  BY <1>1, <1>2, <1>3, <1>4, <1>5, <1>6, <1>7, Zenon DEF Next

(* Whoever dispatches, however deep, and whatever is deferred: the types,   *)
(* and a node forwards to the endpoints that have subscribed to it.         *)
THEOREM Agreement == Spec => [](TypeOK /\ SubscriptionsAgree)
<1>1. Spec => []IInv
  BY InitIInv, NextIInv, PTL DEF Spec
<1>2. IInv => TypeOK /\ SubscriptionsAgree
  BY FromIInv
<1> QED
  BY <1>1, <1>2, PTL
-----------------------------------------------------------------------------
(***************************************************************************)
(* One dispatcher                                                          *)
(***************************************************************************)
(* Only one thread has a stack, and the marks are its own.                  *)
LEMMA Alone ==
  ASSUME OneDispatcher, StackTypes, StackInv
  PROVE  /\ \A t, u \in Threads : stack[t] # <<>> /\ stack[u] # <<>> => t = u
         /\ \A t \in Threads : \A i \in DOMAIN stack[t] :
              /\ stack[t] # <<>> /\ stack[t][i] \in Frames /\ stack[t][i].to \in Nodes
              /\ t \in dispatching[stack[t][i].to]
         /\ \A t \in Threads, n \in Nodes : t \in dispatching[n] => stack[t] # <<>>
<1>1. \A t \in Threads : \A i \in DOMAIN stack[t] :
        stack[t] # <<>> /\ stack[t][i] \in Frames /\ stack[t][i].to \in Nodes
  <2> SUFFICES ASSUME NEW t \in Threads, NEW i \in DOMAIN stack[t]
               PROVE  stack[t] # <<>> /\ stack[t][i] \in Frames /\ stack[t][i].to \in Nodes
    OBVIOUS
  <2>1. PICK s \in Seq(Frames) : s = stack[t]
    BY DEF StackTypes
  <2>2. s[i] \in Frames
    BY <2>1, LenProperties, ElementOfSeq
  <2>3. s # <<>>
    BY <2>1
  <2> QED
    BY <2>1, <2>2, <2>3, FrameTypes
<1>2. \A t, u \in Threads : stack[t] # <<>> /\ stack[u] # <<>> => t = u
  BY DEF OneDispatcher, StackInv
<1>3. \A t \in Threads : \A i \in DOMAIN stack[t] : t \in dispatching[stack[t][i].to]
  BY <1>1 DEF StackInv
<1>4. ASSUME NEW t \in Threads, NEW n \in Nodes, t \in dispatching[n] PROVE stack[t] # <<>>
  BY <1>1, <1>4 DEF StackInv
<1> QED
  BY <1>1, <1>2, <1>3, <1>4

LEMMA InitDispatch == Init => DispatchInv
<1> SUFFICES ASSUME Init PROVE DispatchInv
  OBVIOUS
<1>1. \A t \in Threads : stack[t] = <<>> /\ DOMAIN stack[t] = {} /\ removing[t] = None
  BY DEF Init
<1>2. StackInv
  BY <1>1 DEF StackInv, Init
<1>3. RemovingInv /\ FreedInv /\ InUseInv
  BY <1>1 DEF RemovingInv, FreedInv, InUseInv, Init
<1> QED
  BY <1>2, <1>3 DEF DispatchInv

(* A call that leaves the dispatches alone, and erases no node that is in    *)
(* the middle of one.                                                      *)
LEMMA CallDispatch ==
  ASSUME IInv, OneDispatcher, DispatchInv,
         UNCHANGED <<dispatching, stack, visited, removing, removal, freed>>,
         \A n \in Nodes : Known(n) /\ dispatching[n] # {} => Known(n)',
         \A e \in Endpoints : state[e] \in {"erasing", "gone"} => state'[e] \in {"erasing", "gone"}
  PROVE  DispatchInv'
<1> USE DEF DispatchInv, IInv
<1>1. StackInv' /\ RemovingInv' /\ FreedInv'
  BY DEF StackInv, RemovingInv, FreedInv
<1>2. InUseInv'
  <2> SUFFICES ASSUME NEW t \in Threads, NEW i \in DOMAIN stack[t]
               PROVE  FrameInUse(stack[t][i])'
    BY DEF InUseInv
  <2>1. FrameInUse(stack[t][i])
    BY DEF InUseInv
  <2>2. stack[t][i].to \in Nodes /\ dispatching[stack[t][i].to] # {}
    BY Alone
  <2> QED
    BY <2>1, <2>2 DEF FrameInUse
<1> QED
  BY <1>1, <1>2

LEMMA EndpointsDispatch ==
  ASSUME IInv, OneDispatcher, DispatchInv, NEW t \in Threads, NEW e \in Endpoints,
         CreateEndpoint(t, e)
  PROVE  DispatchInv'
<1>1. UNCHANGED <<dispatching, stack, visited, removing, removal, freed>>
  BY InsertedRemoval DEF CreateEndpoint, runVars, nodeVars, IInv, OneDispatcher
<1>2. state[e] = "fresh" /\ state' = [state EXCEPT ![e] = "live"]
  BY DEF CreateEndpoint, nodeVars
<1>3. (\A c \in Channels : c \in Nodes /\ c \notin Endpoints) /\ \A d \in Endpoints : d \in Nodes
  BY ConstantFacts
<1>4. \A m \in Nodes : Known(m) /\ dispatching[m] # {} => Known(m)'
  BY <1>2, <1>3 DEF IInv, NodeTypes, Known
<1>5. \A d \in Endpoints : state[d] \in {"erasing", "gone"} => state'[d] \in {"erasing", "gone"}
  BY <1>2, <1>3 DEF IInv, NodeTypes
<1> QED
  BY <1>1, <1>4, <1>5, CallDispatch

LEMMA ChannelsDispatch ==
  ASSUME IInv, OneDispatcher, DispatchInv, NEW t \in Threads, NEW c \in Channels,
         AddChannel(t, c) \/ RemoveChannel(t, c)
  PROVE  DispatchInv'
<1>1. UNCHANGED <<dispatching, stack, visited, removing, removal, freed>>
  BY InsertedRemoval DEF AddChannel, RemoveChannel, runVars, nodeVars, IInv, OneDispatcher
<1>2. \/ state[c] = "fresh" /\ state' = [state EXCEPT ![c] = "live"]
      \/ state[c] = "live" /\ dispatching[c] # {} /\ state' = [state EXCEPT ![c] = "erasing"]
      \/ state[c] = "live" /\ dispatching[c] = {} /\ state' = [state EXCEPT ![c] = "gone"]
  BY DEF AddChannel, RemoveChannel, nodeVars
<1>3. (\A n \in Channels : n \in Nodes /\ n \notin Endpoints) /\ \A d \in Endpoints : d \in Nodes
  BY ConstantFacts
<1>4. \A m \in Nodes : Known(m) /\ dispatching[m] # {} => Known(m)'
  BY <1>2, <1>3 DEF IInv, NodeTypes, Known
<1>5. \A d \in Endpoints : state[d] \in {"erasing", "gone"} => state'[d] \in {"erasing", "gone"}
  BY <1>2, <1>3 DEF IInv, NodeTypes
<1> QED
  BY <1>1, <1>4, <1>5, CallDispatch

LEMMA SubscriptionsDispatch ==
  ASSUME IInv, OneDispatcher, DispatchInv, NEW t \in Threads, NEW e \in Endpoints, NEW n \in Nodes,
         Subscribe(t, n, e) \/ Unsubscribe(t, n, e)
  PROVE  DispatchInv'
<1>1. UNCHANGED <<dispatching, stack, visited, removing, removal, freed>>
  BY DEF Subscribe, Unsubscribe, runVars, nodeVars
<1>2. UNCHANGED state
  BY DEF Subscribe, Unsubscribe, nodeVars
<1>3. (\A c \in Channels : c \in Nodes /\ c \notin Endpoints) /\ \A d \in Endpoints : d \in Nodes
  BY ConstantFacts
<1>4. \A m \in Nodes : Known(m) /\ dispatching[m] # {} => Known(m)'
  BY <1>2, <1>3 DEF IInv, NodeTypes, Known
<1>5. \A d \in Endpoints : state[d] \in {"erasing", "gone"} => state'[d] \in {"erasing", "gone"}
  BY <1>2, <1>3 DEF IInv, NodeTypes
<1> QED
  BY <1>1, <1>4, <1>5, CallDispatch

LEMMA DestroyDispatch ==
  ASSUME IInv, OneDispatcher, DispatchInv, NEW t \in Threads, NEW e \in Endpoints, Destroy(t, e)
  PROVE  DispatchInv'
<1> USE DEF DispatchInv, IInv
<1>1. /\ \/ stack[t] = <<>>
         \/ stack[t] # <<>> /\ Top(t).phase = "handler"
      /\ ~Handling(t, e)
      /\ removing' = [removing EXCEPT ![t] = e]
      /\ removal' = [removal EXCEPT ![t] = "handlers"]
      /\ UNCHANGED <<state, freed, dispatching, stack, visited>>
  BY DEF Destroy, CanCall, Outside, In, nodeVars, subVars, runVars
<1>2. StackInv' /\ FreedInv' /\ InUseInv'
  BY <1>1 DEF StackInv, FreedInv, InUseInv, FrameInUse, Known
<1>3. RemovingInv'
  <2>0. \A u \in Threads : removal'[u] # "stale"
    BY <1>1 DEF RemovingInv, NodeTypes
  <2> SUFFICES ASSUME NEW u \in Threads, removing'[u] # None
               PROVE  \/ stack[u] = <<>>
                      \/ Last(stack[u]).phase = "handler" /\ Last(stack[u]).to # removing'[u]
    BY <1>1, <2>0 DEF RemovingInv
  <2>1. CASE u # t
    BY <1>1, <2>1 DEF RemovingInv, NodeTypes
  <2>2. CASE u = t /\ stack[t] # <<>>
    <3>1. /\ Last(stack[t]) = stack[t][Len(stack[t])] /\ Len(stack[t]) \in DOMAIN stack[t]
      BY <2>2, StackTop DEF StackTypes, Top
    <3>2. Last(stack[t]).phase = "handler"
      BY <1>1, <2>2 DEF Top
    <3>3. Last(stack[t]).to # e
      BY <1>1, <3>1, <3>2 DEF Handling
    <3>4. removing'[t] = e
      BY <1>1 DEF NodeTypes
    <3> QED
      BY <2>2, <3>2, <3>3, <3>4
  <2> QED
    BY <2>1, <2>2
<1> QED
  BY <1>2, <1>3

LEMMA EraseDispatch ==
  ASSUME IInv, OneDispatcher, DispatchInv, NEW t \in Threads, removal[t] # "none", Erase(t),
         Awaited(t, removing[t]), UNCHANGED runVars
  PROVE  DispatchInv'
<1> USE DEF DispatchInv, IInv
<1>1. PICK e \in Endpoints : e = removing[t] /\ e # None
  BY DEF RemovalInv, NodeTypes
<1>2. /\ dispatching[e] = {} \/ t \in dispatching[e]
      /\ \/ dispatching[e] = {} /\ state' = [state EXCEPT ![e] = "gone"]
         \/ dispatching[e] # {} /\ state' = [state EXCEPT ![e] = "erasing"]
      /\ freed' = [freed EXCEPT ![e] = TRUE]
      /\ removing' = [removing EXCEPT ![t] = None]
      /\ removal' = [removal EXCEPT ![t] = "none"]
      /\ UNCHANGED <<dispatching, stack, visited>>
  BY <1>1 DEF Erase, Ends, Awaited, runVars
<1>3. e \in Nodes /\ \A d \in Endpoints : d \in Nodes
  BY ConstantFacts
<1>4. StackInv'
  BY <1>2 DEF StackInv
<1>5. RemovingInv'
  BY <1>2 DEF RemovingInv, NodeTypes
<1>6. FreedInv'
  BY <1>2, <1>3 DEF FreedInv, NodeTypes
<1>7. InUseInv'
  <2> SUFFICES ASSUME NEW u \in Threads, NEW i \in DOMAIN stack[u]
               PROVE  FrameInUse(stack[u][i])'
    BY <1>2 DEF InUseInv
  <2>1. FrameInUse(stack[u][i])
    BY DEF InUseInv
  <2>2. /\ stack[u] # <<>> /\ stack[u][i].to \in Nodes /\ u \in dispatching[stack[u][i].to]
    BY Alone
  <2>3. CASE stack[u][i].to # e
    BY <1>2, <1>3, <2>1, <2>2, <2>3 DEF FrameInUse, Known, NodeTypes
  <2>4. CASE stack[u][i].to = e
    <3>1. t \in dispatching[e] /\ state'[e] = "erasing"
      BY <1>2, <1>3, <2>2, <2>4 DEF NodeTypes
    <3>2. u = t /\ stack[t] # <<>>
      BY <1>3, <2>2, <3>1, Alone
    <3>3. /\ Last(stack[t]) = stack[t][Len(stack[t])] /\ Len(stack[t]) \in DOMAIN stack[t]
      BY <3>2, StackTop DEF StackTypes, Top
    <3>4. Last(stack[t]).to # e
      BY <1>1, <3>2 DEF RemovingInv
    <3>5. stack[t][i].phase = "subscribers"
      BY <2>4, <3>2, <3>3, <3>4 DEF StackInv
    <3> QED
      BY <1>2, <2>4, <3>1, <3>2, <3>5 DEF FrameInUse, Known
  <2> QED
    BY <2>3, <2>4
<1> QED
  BY <1>4, <1>5, <1>6, <1>7

LEMMA DestructorDispatch ==
  ASSUME IInv, OneDispatcher, DispatchInv, NEW t \in Threads, DestructorStep(t)
  PROVE  DispatchInv'
<1>1. ASSUME NEW p \in {"removal", "found"}, removal' = [removal EXCEPT ![t] = p],
             UNCHANGED <<nodeVars, removing, runVars>>
      PROVE  DispatchInv'
  <2>1. UNCHANGED <<state, freed, removing, dispatching, stack, visited>>
    BY <1>1 DEF nodeVars, runVars
  <2>2. StackInv' /\ FreedInv' /\ InUseInv'
    BY <2>1 DEF DispatchInv, StackInv, FreedInv, InUseInv, FrameInUse, Known
  <2>3. RemovingInv'
    BY <1>1, <2>1 DEF DispatchInv, RemovingInv, IInv, NodeTypes
  <2> QED
    BY <2>2, <2>3 DEF DispatchInv
<1>2. CASE DropHandlers(t)
  BY <1>1, <1>2 DEF DropHandlers
<1>3. CASE RemoveEndpoint(t)
  <2>1. removal[t] # "none" /\ UNCHANGED runVars
    BY <1>3 DEF RemoveEndpoint
  <2>2. CASE Awaited(t, removing[t]) /\ Erase(t)
    BY <2>1, <2>2, EraseDispatch
  <2>3. CASE removal' = [removal EXCEPT ![t] = "found"] /\ UNCHANGED <<nodeVars, removing>>
    BY <1>1, <2>1, <2>3
  <2> QED
    BY <1>3, <2>2, <2>3 DEF RemoveEndpoint
<1>4. CASE EraseAwaited(t)
  <2>1. removal[t] # "stale"
    BY DEF DispatchInv, RemovingInv
  <2>2. removal[t] # "none" /\ UNCHANGED runVars /\ Erase(t) /\ Awaited(t, removing[t])
    BY <1>4, <2>1 DEF EraseAwaited, Awaited
  <2> QED
    BY <2>2, EraseDispatch
<1> QED
  BY <1>2, <1>3, <1>4 DEF DestructorStep

LEMMA PhaseStepDispatch ==
  ASSUME IInv, OneDispatcher, DispatchInv, NEW t \in Threads, PhaseStep(t)
  PROVE  DispatchInv'
<1> USE DEF DispatchInv, IInv
<1>1. /\ removing[t] = None /\ stack[t] # <<>>
      /\ UNCHANGED <<state, attached, freed, dispatching, visited, removing, removal>>
  BY DEF PhaseStep, Free
<1>2. PICK f \in Frames : f = Top(t) /\ f = stack[t][Len(stack[t])] /\ Len(stack[t]) \in DOMAIN stack[t]
  BY <1>1, StackTop DEF StackTypes
<1>3. PICK g \in Frames :
        /\ SetTop(t, g) /\ g.to = f.to /\ g.root = f.root
        /\ g.phase = "locking" => f.to \in Endpoints /\ attached[f.to]
        /\ g.phase = "handler" => f.phase = "locking"
  <2>1. PICK p \in {"locking", "handler", "subscribers"} :
          /\ SetTop(t, [f EXCEPT !.phase = p])
          /\ p = "locking" => f.to \in Endpoints /\ attached[f.to]
          /\ p = "handler" => f.phase = "locking"
    BY <1>2 DEF PhaseStep
  <2>2. PICK g : g = [f EXCEPT !.phase = p]
    OBVIOUS
  <2>3. g \in Frames /\ g.to = f.to /\ g.root = f.root /\ g.phase = p
    BY <2>2 DEF Frames
  <2> QED
    BY <2>1, <2>2, <2>3
<1>4. /\ stack' \in [Threads -> Seq(Frames)]
      /\ \A u \in Threads : u # t => stack'[u] = stack[u]
      /\ stack'[t] # <<>> /\ DOMAIN stack'[t] = DOMAIN stack[t] /\ Len(stack'[t]) = Len(stack[t])
      /\ \A i \in DOMAIN stack[t] : i # Len(stack[t]) => stack'[t][i] = stack[t][i]
      /\ stack'[t][Len(stack[t])] = g
  BY <1>1, <1>3, SetTopStep DEF StackTypes
<1>5. \A i \in DOMAIN stack[t] : stack'[t][i].to = stack[t][i].to /\ stack'[t][i].root = stack[t][i].root
  BY <1>2, <1>3, <1>4
<1>6. StackInv'
  <2> SUFFICES ASSUME NEW u \in Threads
               PROVE  /\ stack'[u] # <<>> => u \in Dispatchers
                      /\ \A i, j \in DOMAIN stack'[u] : stack'[u][i].to = stack'[u][j].to => i = j
                      /\ \A i \in DOMAIN stack'[u] :
                           i # Len(stack'[u]) => stack'[u][i].phase = "subscribers"
                      /\ \A n \in Nodes : u \in dispatching[n] <=>
                           \E i \in DOMAIN stack'[u] : stack'[u][i].to = n
                      /\ \A i \in DOMAIN stack'[u] : stack'[u][i].to \in Last(visited[u])
                      /\ \A i \in DOMAIN stack'[u] : stack'[u][i].root => i = 1
    BY <1>1 DEF StackInv
  <2>1. CASE u # t
    BY <1>4, <2>1, SMTT(30) DEF StackInv
  <2>2. CASE u = t
    BY <1>1, <1>4, <1>5, <2>2 DEF StackInv
  <2> QED
    BY <2>1, <2>2
<1>7. RemovingInv'
  BY <1>1, <1>4 DEF RemovingInv
<1>8. FreedInv'
  BY <1>1 DEF FreedInv
<1>9. InUseInv'
  <2>1. FrameInUse(f)
    BY <1>2 DEF InUseInv
  <2>2. attached[f.to] /\ f.to \in Endpoints => ~freed[f.to]
    BY DEF AttachedInv, FreedInv
  <2>3. g.phase \in {"locking", "handler"} => f.to \in Endpoints /\ ~freed[f.to]
    BY <1>3, <2>1, <2>2 DEF FrameInUse
  <2>4. FrameInUse(g)'
    BY <1>1, <1>3, <2>1, <2>3 DEF FrameInUse, Known
  <2>5. \A u \in Threads : \A i \in DOMAIN stack[u] : FrameInUse(stack[u][i])
    BY DEF InUseInv
  <2>6. \A h : FrameInUse(h) => /\ state'[h.to] \in {"live", "erasing"}
                                /\ h.phase \in {"locking", "handler"} => h.to \in Endpoints /\ ~freed'[h.to]
    BY <1>1 DEF FrameInUse, Known
  <2> SUFFICES ASSUME NEW u \in Threads, NEW i \in DOMAIN stack'[u]
               PROVE  /\ state'[stack'[u][i].to] \in {"live", "erasing"}
                      /\ stack'[u][i].phase \in {"locking", "handler"} =>
                           stack'[u][i].to \in Endpoints /\ ~freed'[stack'[u][i].to]
    BY DEF InUseInv, FrameInUse, Known
  <2>7. CASE u # t \/ i # Len(stack[t])
    BY <1>4, <2>5, <2>6, <2>7
  <2>8. CASE u = t /\ i = Len(stack[t])
    BY <1>4, <2>4, <2>8 DEF FrameInUse, Known
  <2> QED
    BY <2>7, <2>8
<1> QED
  BY <1>6, <1>7, <1>8, <1>9

LEMMA SendDispatch ==
  ASSUME IInv, OneDispatcher, DispatchInv, NEW t \in Threads, NEW n \in Nodes, Send(t, n)
  PROVE  DispatchInv'
<1> USE DEF DispatchInv, IInv
<1>1. /\ t \in Dispatchers /\ removing[t] = None /\ stack[t] = <<>>
      /\ state[n] = "live"
      /\ dispatching' = [dispatching EXCEPT ![n] = @ \cup {t}]
      /\ stack' = [stack EXCEPT ![t] = Append(@, NewFrame(n, TRUE))]
      /\ visited' = [visited EXCEPT ![t] = Append(@, {n})]
      /\ UNCHANGED <<state, freed, removing, removal>>
  BY DEF Send, OneDispatcher, Outside, Free, nodeVars, subVars
<1>2. PICK f \in Frames : f = NewFrame(n, TRUE) /\ f.to = n /\ f.phase = "receive"
  BY FrameNew, ZenonT(60)
<1>3. Len(stack[t]) = 0 /\ DOMAIN stack[t] = {}
  BY <1>1
<1>4. /\ \A u \in Threads : u # t => stack'[u] = stack[u]
      /\ stack'[t] # <<>> /\ DOMAIN stack'[t] = {1} /\ stack'[t][1] = f /\ Len(stack'[t]) = 1
  <2>1. /\ \A u \in Threads : u # t => stack'[u] = stack[u]
        /\ stack'[t] # <<>> /\ Len(stack'[t]) = Len(stack[t]) + 1
        /\ DOMAIN stack'[t] = DOMAIN stack[t] \cup {Len(stack[t]) + 1}
        /\ stack'[t][Len(stack[t]) + 1] = f
    BY <1>1, <1>2, PushStep DEF StackTypes
  <2> QED
    BY <1>3, <2>1
<1>5. /\ \A u \in Threads : u # t => visited'[u] = visited[u]
      /\ Last(visited'[t]) = {n}
  <2>1. PICK v \in Seq(SUBSET Nodes) : v = visited[t]
    BY DEF StackTypes
  <2>2. PICK w : w = Append(v, {n})
    OBVIOUS
  <2>3. Last(w) = {n}
    BY <2>2, Pushed
  <2>4. visited' = [visited EXCEPT ![t] = w]
    BY <1>1, <2>1, <2>2
  <2> QED
    BY <2>3, <2>4 DEF StackTypes
<1>6. \A u \in Threads, m \in Nodes :
        u \in dispatching'[m] <=> u \in dispatching[m] \/ (u = t /\ m = n)
  BY <1>1 DEF NodeTypes
<1>7. \A m \in Nodes : t \notin dispatching[m]
  BY <1>1, Alone
<1>8. StackInv'
  <2> SUFFICES ASSUME NEW u \in Threads
               PROVE  /\ stack'[u] # <<>> => u \in Dispatchers
                      /\ \A i, j \in DOMAIN stack'[u] : stack'[u][i].to = stack'[u][j].to => i = j
                      /\ \A i \in DOMAIN stack'[u] :
                           i # Len(stack'[u]) => stack'[u][i].phase = "subscribers"
                      /\ \A m \in Nodes : u \in dispatching'[m] <=>
                           \E i \in DOMAIN stack'[u] : stack'[u][i].to = m
                      /\ \A i \in DOMAIN stack'[u] : stack'[u][i].to \in Last(visited'[u])
                      /\ \A i \in DOMAIN stack'[u] : stack'[u][i].root => i = 1
    BY DEF StackInv
  <2>1. CASE u # t
    BY <1>4, <1>5, <1>6, <2>1 DEF StackInv
  <2>2. CASE u = t
    <3>1. \A i \in DOMAIN stack'[t] : i = 1 /\ stack'[t][i] = f /\ Len(stack'[t]) = 1
      BY <1>4
    <3>2. \A m \in Nodes : t \in dispatching'[m] <=> m = n
      BY <1>6, <1>7
    <3>3. \A m \in Nodes : (\E i \in DOMAIN stack'[t] : stack'[t][i].to = m) <=> m = n
      BY <1>2, <1>4
    <3>4. \A i \in DOMAIN stack'[t] : stack'[t][i].to \in Last(visited'[t])
      BY <1>2, <1>5, <3>1
    <3>5. /\ \A i, j \in DOMAIN stack'[t] : stack'[t][i].to = stack'[t][j].to => i = j
          /\ \A i \in DOMAIN stack'[t] : i # Len(stack'[t]) => stack'[t][i].phase = "subscribers"
          /\ \A i \in DOMAIN stack'[t] : stack'[t][i].root => i = 1
      BY <3>1
    <3>6. \A m \in Nodes : t \in dispatching'[m] <=> \E i \in DOMAIN stack'[t] : stack'[t][i].to = m
      BY <3>2, <3>3
    <3> QED
      <4>1. t \in Dispatchers
        BY <1>1
      <4> QED
        BY <2>2, <3>4, <3>5, <3>6, <4>1
  <2> QED
    BY <2>1, <2>2
<1>9. RemovingInv'
  BY <1>1, <1>4 DEF RemovingInv
<1>10. FreedInv'
  BY <1>1 DEF FreedInv
<1>11. InUseInv'
  <2> SUFFICES ASSUME NEW u \in Threads, NEW i \in DOMAIN stack'[u]
               PROVE  /\ state'[stack'[u][i].to] \in {"live", "erasing"}
                      /\ stack'[u][i].phase \in {"locking", "handler"} =>
                           stack'[u][i].to \in Endpoints /\ ~freed'[stack'[u][i].to]
    BY DEF InUseInv, FrameInUse, Known
  <2>1. CASE u # t
    BY <1>1, <1>4, <2>1 DEF InUseInv, FrameInUse, Known
  <2>2. CASE u = t
    BY <1>1, <1>2, <1>4, <2>2
  <2> QED
    BY <2>1, <2>2
<1> QED
  BY <1>8, <1>9, <1>10, <1>11

LEMMA LeaveDispatch ==
  ASSUME IInv, OneDispatcher, DispatchInv, NEW t \in Threads, Leave(t)
  PROVE  /\ DispatchInv'
         /\ \A n \in Nodes : Iterating(n)' => subscribers'[n] = subscribers[n]
<1> USE DEF DispatchInv, IInv
<1>1. stack[t] # <<>> /\ stack' = [stack EXCEPT ![t] = Front(@)] /\ removing[t] = None
  BY DEF Leave, In, Free
<1>2. PICK f \in Frames : f = Top(t) /\ f = stack[t][Len(stack[t])] /\ Len(stack[t]) \in DOMAIN stack[t]
  BY <1>1, StackTop DEF StackTypes
<1>3. PICK n \in Nodes : n = f.to
  BY <1>2, FrameTypes
<1>4. /\ dispatching' = [dispatching EXCEPT ![n] = @ \ {t}]
      /\ visited' = IF f.root THEN [visited EXCEPT ![t] = Front(@)] ELSE visited
      /\ UNCHANGED <<freed, removing, removal>>
      /\ state' = state \/ (state[n] = "erasing" /\ state' = [state EXCEPT ![n] = "gone"])
      /\ \A m \in Nodes : m # n => subscribers'[m] = subscribers[m]
  <2>1. /\ \/ UNCHANGED subscribers
           \/ \E S : subscribers' = [subscribers EXCEPT ![n] = S]
        /\ dispatching' = [dispatching EXCEPT ![n] = dispatching[n] \ {t}]
    BY <1>2, <1>3 DEF Leave, Unmarked, subVars
  <2>2. \A m \in Nodes : m # n => subscribers'[m] = subscribers[m]
    BY <2>1 DEF NodeTypes
  <2>3. /\ visited' = IF f.root THEN [visited EXCEPT ![t] = Front(@)] ELSE visited
        /\ UNCHANGED <<freed, removing, removal>>
        /\ state' = state \/ (state[n] = "erasing" /\ state' = [state EXCEPT ![n] = "gone"])
    BY <1>2, <1>3 DEF Leave, subVars
  <2> QED
    BY <2>1, <2>2, <2>3
<1>5. /\ stack' \in [Threads -> Seq(Frames)]
      /\ \A u \in Threads : u # t => stack'[u] = stack[u]
      /\ DOMAIN stack'[t] = DOMAIN stack[t] \ {Len(stack[t])}
      /\ \A i \in DOMAIN stack'[t] : stack'[t][i] = stack[t][i]
  BY <1>1, PopStep DEF StackTypes
<1>6. \A u \in Threads : u # t => stack[u] = <<>> /\ DOMAIN stack'[u] = {}
  <2>1. \A u \in Threads : u # t => stack[u] = <<>>
    BY <1>1, Alone
  <2> QED
    BY <1>5, <2>1
<1>7. \A i \in DOMAIN stack'[t] : stack'[t][i].to # n
  BY <1>2, <1>3, <1>5 DEF StackInv
<1>8. \A i \in DOMAIN stack'[t] : f.root = FALSE /\ visited' = visited
  <2> SUFFICES ASSUME NEW i \in DOMAIN stack'[t], f.root PROVE FALSE
    BY <1>4, FrameTypes
  <2>1. Len(stack[t]) = 1
    <3>1. \A j \in DOMAIN stack[t] : stack[t][j].root => j = 1
      BY DEF StackInv
    <3> QED
      BY <1>2, <3>1, Zenon
  <2>2. stack[t] \in Seq(Frames)
    BY DEF StackTypes
  <2>3. DOMAIN stack[t] = 1 .. 1
    BY <2>1, <2>2, LenProperties
  <2>4. \A j \in 1 .. 1 : j = 1
    OBVIOUS
  <2> QED
    BY <1>5, <2>1, <2>3, <2>4
<1>9. StackInv'
  <2> SUFFICES ASSUME NEW u \in Threads
               PROVE  /\ stack'[u] # <<>> => u \in Dispatchers
                      /\ \A i, j \in DOMAIN stack'[u] : stack'[u][i].to = stack'[u][j].to => i = j
                      /\ \A i \in DOMAIN stack'[u] :
                           i # Len(stack'[u]) => stack'[u][i].phase = "subscribers"
                      /\ \A m \in Nodes : u \in dispatching'[m] <=>
                           \E i \in DOMAIN stack'[u] : stack'[u][i].to = m
                      /\ \A i \in DOMAIN stack'[u] : stack'[u][i].to \in Last(visited'[u])
                      /\ \A i \in DOMAIN stack'[u] : stack'[u][i].root => i = 1
    BY DEF StackInv
  <2>1. CASE u # t
    <3>1. \A m \in Nodes : u \in dispatching'[m] <=> u \in dispatching[m]
      BY <1>4, <2>1 DEF NodeTypes
    <3>2. stack'[u] = <<>> /\ stack[u] = <<>> /\ DOMAIN stack'[u] = {} /\ DOMAIN stack[u] = {}
      BY <1>5, <1>6, <2>1
    <3> QED
      BY <3>1, <3>2 DEF StackInv
  <2>2. CASE u = t
    <3>1. \A m \in Nodes : t \in dispatching'[m] <=> t \in dispatching[m] /\ m # n
      BY <1>4 DEF NodeTypes
    <3>2. \A m \in Nodes : m # n =>
            ((\E i \in DOMAIN stack'[t] : stack'[t][i].to = m) <=>
             (\E i \in DOMAIN stack[t] : stack[t][i].to = m))
      BY <1>2, <1>3, <1>5
    <3>3. \A m \in Nodes : t \in dispatching'[m] <=> \E i \in DOMAIN stack'[t] : stack'[t][i].to = m
      BY <1>7, <3>1, <3>2 DEF StackInv
    <3>4. \A i \in DOMAIN stack'[t] : stack'[t][i].phase = "subscribers"
      BY <1>5 DEF StackInv
    <3>5. \A i \in DOMAIN stack'[t] : stack'[t][i].to \in Last(visited'[t])
      BY <1>5, <1>8 DEF StackInv
    <3> QED
      BY <1>1, <1>5, <2>2, <3>3, <3>4, <3>5 DEF StackInv
  <2> QED
    BY <2>1, <2>2
<1>10. RemovingInv'
  BY <1>1, <1>4, <1>5 DEF RemovingInv
<1>11. FreedInv'
  <2>1. n \in Endpoints => (state[n] \in {"erasing", "gone"} => state'[n] \in {"erasing", "gone"})
    BY <1>4 DEF NodeTypes
  <2>2. \A e \in Endpoints : e # n => state'[e] = state[e]
    BY <1>4, ConstantFacts DEF NodeTypes
  <2> QED
    BY <1>4, <2>1, <2>2 DEF FreedInv
<1>12. InUseInv'
  <2> SUFFICES ASSUME NEW u \in Threads, NEW i \in DOMAIN stack'[u]
               PROVE  /\ state'[stack'[u][i].to] \in {"live", "erasing"}
                      /\ stack'[u][i].phase \in {"locking", "handler"} =>
                           stack'[u][i].to \in Endpoints /\ ~freed'[stack'[u][i].to]
    BY DEF InUseInv, FrameInUse, Known
  <2>1. u = t /\ i \in DOMAIN stack[t] /\ stack'[t][i] = stack[t][i] /\ stack[t][i].to # n
    BY <1>5, <1>6, <1>7
  <2>2. FrameInUse(stack[t][i]) /\ stack[t][i].to \in Nodes
    BY <2>1, Alone DEF InUseInv
  <2>3. state'[stack[t][i].to] = state[stack[t][i].to]
    BY <1>4, <2>1, <2>2 DEF NodeTypes
  <2> QED
    BY <1>4, <2>1, <2>2, <2>3 DEF FrameInUse, Known
<1>13. ASSUME NEW m \in Nodes, Iterating(m)'
       PROVE  subscribers'[m] = subscribers[m]
  <2>1. PICK u \in Threads : \E i \in DOMAIN stack'[u] : stack'[u][i].to = m
    BY <1>13 DEF Iterating
  <2> QED
    BY <1>4, <1>6, <1>7, <2>1
<1> QED
  BY <1>9, <1>10, <1>11, <1>12, <1>13

LEMMA NextSubscriberDispatch ==
  ASSUME IInv, OneDispatcher, DispatchInv, NEW t \in Threads, NextSubscriber(t)
  PROVE  DispatchInv'
<1> USE DEF DispatchInv, IInv
<1>1. /\ stack[t] # <<>> /\ removing[t] = None
      /\ UNCHANGED <<state, freed, removing, removal>>
  BY NextSubscriberVisits
<1>2. PICK f \in Frames, e \in Endpoints : Visits(t, f, e)
  BY NextSubscriberVisits
<1>3. f = stack[t][Len(stack[t])] /\ Len(stack[t]) \in DOMAIN stack[t] /\ f.to \in Nodes /\ e \in Nodes
  BY <1>1, <1>2, StackTop, FrameTypes, ConstantFacts DEF Visits, StackTypes
<1>4. PICK h \in Frames : h = NewFrame(e, FALSE) /\ h.to = e /\ h.phase = "receive" /\ h.root = FALSE
  BY <1>3, FrameNew
<1>5. PICK g \in Frames :
       /\ g.to = f.to /\ g.phase = "subscribers" /\ g.root = f.root
       /\ \/ SetTop(t, g) /\ UNCHANGED dispatching
          \/ /\ e \notin Last(visited[t]) /\ state[e] = "live"
             /\ stack' = [stack EXCEPT ![t] = Front(@) \o <<g, h>>]
             /\ dispatching' = [dispatching EXCEPT ![e] = @ \cup {t}]
  <2>1. f.phase = "subscribers"
    BY <1>2 DEF Visits
  <2> QED
    BY <1>2, <1>4, <2>1, Zenon DEF Visits
<1>6. PICK k \in Nat \ {0} : k = Len(stack[t]) /\ DOMAIN stack[t] = 1 .. k
  <2>1. stack[t] \in Seq(Frames)
    BY DEF StackTypes
  <2> QED
    BY <1>1, <2>1, Popped
<1>7. k + 1 \notin 1 .. k
  OBVIOUS
<1>8. /\ \A u \in Threads : u # t => visited'[u] = visited[u]
      /\ \A n \in Last(visited[t]) : n \in Last(visited'[t])
      /\ e \in Last(visited'[t])
  <2>1. visited[t] # <<>> /\ visited[t] \in Seq(SUBSET Nodes)
    BY <1>1, HasVisited
  <2>2. PICK v \in SUBSET Nodes : v = Last(visited[t]) \cup {e}
    <3>1. Last(visited[t]) \in SUBSET Nodes
      BY <2>1, Popped
    <3> QED
      BY <1>3, <3>1
  <2>3. visited' = [visited EXCEPT ![t] = Append(Front(@), v)]
    BY <1>2, <2>2 DEF Visits
  <2>4. Last(visited'[t]) = v /\ \A u \in Threads : u # t => visited'[u] = visited[u]
    BY <2>1, <2>3, VisitStep
  <2> QED
    BY <2>2, <2>4
<1>9. ASSUME NEW u \in Threads, u # t
      PROVE  stack'[u] = stack[u] /\ \A n \in Nodes : u \in dispatching'[n] <=> u \in dispatching[n]
  <2>1. CASE SetTop(t, g) /\ UNCHANGED dispatching
    BY <1>1, <1>9, <2>1, SetTopStep DEF StackTypes
  <2>2. CASE /\ stack' = [stack EXCEPT ![t] = Front(@) \o <<g, h>>]
             /\ dispatching' = [dispatching EXCEPT ![e] = @ \cup {t}]
    <3>1. stack'[u] = stack[u]
      BY <1>1, <1>9, <2>2, ForkStep, Zenon DEF StackTypes
    <3> QED
      BY <1>3, <1>9, <2>2, <3>1 DEF NodeTypes
  <2> QED
    BY <1>5, <2>1, <2>2
<1>10. /\ stack'[t] # <<>> /\ stack'[t][k] = g
       /\ \A i \in 1 .. k : i # k => stack'[t][i] = stack[t][i]
       /\ \/ /\ DOMAIN stack'[t] = 1 .. k /\ Len(stack'[t]) = k
             /\ \A n \in Nodes : t \in dispatching'[n] <=> t \in dispatching[n]
          \/ /\ DOMAIN stack'[t] = (1 .. k) \cup {k + 1} /\ Len(stack'[t]) = k + 1
             /\ stack'[t][k + 1] = h /\ e \notin Last(visited[t]) /\ state[e] = "live"
             /\ \A n \in Nodes : t \in dispatching'[n] <=> t \in dispatching[n] \/ n = e
  <2>1. CASE SetTop(t, g) /\ UNCHANGED dispatching
    BY <1>1, <1>6, <2>1, SetTopStep DEF StackTypes
  <2>2. CASE /\ e \notin Last(visited[t]) /\ state[e] = "live"
             /\ stack' = [stack EXCEPT ![t] = Front(@) \o <<g, h>>]
             /\ dispatching' = [dispatching EXCEPT ![e] = @ \cup {t}]
    <3>1. /\ stack'[t] # <<>> /\ Len(stack'[t]) = Len(stack[t]) + 1
          /\ DOMAIN stack'[t] = DOMAIN stack[t] \cup {Len(stack[t]) + 1}
          /\ \A i \in DOMAIN stack[t] : i # Len(stack[t]) => stack'[t][i] = stack[t][i]
          /\ stack'[t][Len(stack[t])] = g /\ stack'[t][Len(stack[t]) + 1] = h
      BY <1>1, <2>2, ForkStep, ZenonT(30) DEF StackTypes
    <3>2. \A n \in Nodes : t \in dispatching'[n] <=> t \in dispatching[n] \/ n = e
      BY <1>3, <2>2 DEF NodeTypes
    <3> QED
      BY <1>6, <2>2, <3>1, <3>2
  <2> QED
    BY <1>5, <2>1, <2>2
<1>11. k \in 1 .. k /\ k # k + 1 /\ k + 1 # 1
  OBVIOUS
<1>12. \A i \in 1 .. k : stack'[t][i].to = stack[t][i].to /\ stack'[t][i].root = stack[t][i].root
                         /\ stack'[t][i].phase = "subscribers"
  <2>1. \A i \in 1 .. k : i # k => stack[t][i].phase = "subscribers"
    BY <1>6 DEF StackInv
  <2> QED
    BY <1>3, <1>5, <1>6, <1>10, <2>1
<1>13. /\ \A i, j \in 1 .. k : stack'[t][i].to = stack'[t][j].to => i = j
       /\ \A n \in Nodes : t \in dispatching[n] <=> \E i \in 1 .. k : stack'[t][i].to = n
       /\ \A i \in 1 .. k : stack'[t][i].to \in Last(visited'[t])
       /\ \A i \in 1 .. k : stack'[t][i].to \in Last(visited[t])
       /\ \A i \in 1 .. k : stack'[t][i].root => i = 1
  <2>1. \A i, j \in 1 .. k : stack'[t][i].to = stack'[t][j].to => i = j
    BY <1>6, <1>12 DEF StackInv
  <2>2. \A n \in Nodes : t \in dispatching[n] <=> \E i \in 1 .. k : stack[t][i].to = n
    BY <1>6 DEF StackInv
  <2>3. \A i \in 1 .. k : stack[t][i].to \in Last(visited[t]) /\ (stack[t][i].root => i = 1)
    BY <1>6 DEF StackInv
  <2> QED
    BY <1>8, <1>12, <2>1, <2>2, <2>3
<1>14. StackInv'
  <2> SUFFICES ASSUME NEW u \in Threads
               PROVE  /\ stack'[u] # <<>> => u \in Dispatchers
                      /\ \A i, j \in DOMAIN stack'[u] : stack'[u][i].to = stack'[u][j].to => i = j
                      /\ \A i \in DOMAIN stack'[u] :
                           i # Len(stack'[u]) => stack'[u][i].phase = "subscribers"
                      /\ \A m \in Nodes : u \in dispatching'[m] <=>
                           \E i \in DOMAIN stack'[u] : stack'[u][i].to = m
                      /\ \A i \in DOMAIN stack'[u] : stack'[u][i].to \in Last(visited'[u])
                      /\ \A i \in DOMAIN stack'[u] : stack'[u][i].root => i = 1
    BY DEF StackInv
  <2>1. CASE u # t
    BY <1>8, <1>9, <2>1 DEF StackInv
  <2>2. t \in Dispatchers
    BY <1>1 DEF StackInv
  <2>3. CASE u = t /\ DOMAIN stack'[t] = 1 .. k
    <3>1. \A n \in Nodes : t \in dispatching'[n] <=> t \in dispatching[n]
      BY <1>7, <1>10, <2>3
    <3> QED
      BY <1>12, <1>13, <2>2, <2>3, <3>1
  <2>4. CASE u = t /\ DOMAIN stack'[t] = (1 .. k) \cup {k + 1}
    <3>1. /\ Len(stack'[t]) = k + 1 /\ stack'[t][k + 1] = h /\ e \notin Last(visited[t])
          /\ \A n \in Nodes : t \in dispatching'[n] <=> t \in dispatching[n] \/ n = e
      BY <1>7, <1>10, <2>4
    <3>2. \A i \in 1 .. k : stack'[t][i].to # e
      BY <1>13, <3>1
    <3>3. \A i, j \in DOMAIN stack'[t] : stack'[t][i].to = stack'[t][j].to => i = j
      BY <1>4, <1>13, <2>4, <3>1, <3>2, ZenonT(60)
    <3>4. \A m \in Nodes : t \in dispatching'[m] <=> \E i \in DOMAIN stack'[t] : stack'[t][i].to = m
      <4>1. \A m \in Nodes : (\E i \in DOMAIN stack'[t] : stack'[t][i].to = m) <=>
                             (\E i \in 1 .. k : stack'[t][i].to = m) \/ m = e
        BY <1>4, <2>4, <3>1
      <4>2. \A m \in Nodes : t \in dispatching[m] <=> \E i \in 1 .. k : stack'[t][i].to = m
        BY <1>13
      <4> QED
        BY <3>1, <4>1, <4>2, Zenon
    <3>5. \A i \in DOMAIN stack'[t] : i # Len(stack'[t]) => stack'[t][i].phase = "subscribers"
      BY <1>12, <2>4, <3>1
    <3>6. \A i \in DOMAIN stack'[t] : stack'[t][i].to \in Last(visited'[t])
      <4>1. \A i \in 1 .. k : stack'[t][i].to \in Last(visited'[t])
        BY <1>13
      <4> QED
        BY <1>4, <1>8, <2>4, <3>1, <4>1
    <3>7. \A i \in DOMAIN stack'[t] : stack'[t][i].root => i = 1
      <4>1. \A i \in 1 .. k : stack'[t][i].root => i = 1
        BY <1>13
      <4> QED
        BY <1>4, <2>4, <3>1, <4>1
    <3> QED
      BY <2>2, <2>4, <3>3, <3>4, <3>5, <3>6, <3>7
  <2> QED
    BY <1>10, <2>1, <2>3, <2>4
<1>15. RemovingInv'
  BY <1>1, <1>9 DEF RemovingInv
<1>16. FreedInv'
  BY <1>1 DEF FreedInv
<1>17. InUseInv'
  <2> SUFFICES ASSUME NEW u \in Threads, NEW i \in DOMAIN stack'[u]
               PROVE  /\ state'[stack'[u][i].to] \in {"live", "erasing"}
                      /\ stack'[u][i].phase \in {"locking", "handler"} =>
                           stack'[u][i].to \in Endpoints /\ ~freed'[stack'[u][i].to]
    BY DEF InUseInv, FrameInUse, Known
  <2>1. CASE u # t
    BY <1>1, <1>9, <2>1 DEF InUseInv, FrameInUse, Known
  <2>2. CASE u = t /\ i \in 1 .. k
    <3>1. Known(stack[t][i].to)
      BY <1>6, <2>2 DEF InUseInv, FrameInUse
    <3> QED
      BY <1>1, <1>12, <2>2, <3>1 DEF Known
  <2>3. CASE u = t /\ i \notin 1 .. k
    BY <1>1, <1>4, <1>10, <2>3
  <2> QED
    BY <2>1, <2>2, <2>3
<1> QED
  BY <1>14, <1>15, <1>16, <1>17

LEMMA NextDispatch ==
  ASSUME OneDispatcher, IInv, DispatchInv, [Next]_vars
  PROVE  DispatchInv'
<1>1. CASE UNCHANGED vars
  <2>1. UNCHANGED <<dispatching, stack, visited, removing, removal, freed, state>>
    BY <1>1 DEF vars, nodeVars, subVars, runVars
  <2>2. \A n \in Nodes : Known(n) => Known(n)'
    BY <2>1 DEF Known
  <2> QED
    BY <2>1, <2>2, CallDispatch
<1>2. ASSUME NEW t \in Threads, DispatchStep(t)
      PROVE  DispatchInv'
  <2>1. ASSUME ReadEndpoint(t) \/ EnterReceive(t) \/ HandlerReturns(t) PROVE DispatchInv'
    BY <2>1, PhaseSteps, PhaseStepDispatch
  <2> QED
    BY <1>2, <2>1, NextSubscriberDispatch, LeaveDispatch DEF DispatchStep
<1>3. ASSUME NEW t \in Threads, NEW n \in Nodes, Send(t, n) PROVE DispatchInv'
  BY <1>3, SendDispatch
<1>4. ASSUME NEW t \in Threads, DestructorStep(t) PROVE DispatchInv'
  BY <1>4, DestructorDispatch
<1>5. ASSUME NEW t \in Threads, NEW e \in Endpoints, Destroy(t, e) PROVE DispatchInv'
  BY <1>5, DestroyDispatch
<1>6. ASSUME NEW t \in Threads, NEW c \in Channels, AddChannel(t, c) \/ RemoveChannel(t, c)
      PROVE  DispatchInv'
  BY <1>6, ChannelsDispatch
<1>7. ASSUME NEW t \in Threads, NEW e \in Endpoints, CreateEndpoint(t, e) PROVE DispatchInv'
  BY <1>7, EndpointsDispatch
<1>8. ASSUME NEW t \in Threads, NEW e \in Endpoints, NEW s \in Nodes,
             Subscribe(t, s, e) \/ Unsubscribe(t, s, e)
      PROVE  DispatchInv'
  BY <1>8, SubscriptionsDispatch
<1> QED
  BY <1>1, <1>2, <1>3, <1>4, <1>5, <1>6, <1>7, <1>8, Zenon DEF Next

LEMMA FromDispatch == DispatchInv => NothingFreedInUse
BY DEF DispatchInv, InUseInv, FrameInUse, NothingFreedInUse

(* The same of the system as one of the components.                         *)
SystemInv == component = "system" => IInv /\ DispatchInv

LEMMA SystemStep ==
  ASSUME component = "system", [MCNext]_allVars
  PROVE  [Next]_vars /\ component' = component
BY DEF MCNext, allVars

LEMMA SystemInvariant ==
  ASSUME OneDispatcher
  PROVE  /\ Spec => [](IInv /\ DispatchInv)
         /\ MCFairSpec => []SystemInv
<1>1. Init => IInv /\ DispatchInv
  BY InitIInv, InitDispatch
<1>2. IInv /\ DispatchInv /\ [Next]_vars => IInv' /\ DispatchInv'
  BY NextIInv, NextDispatch
<1>3. Spec => [](IInv /\ DispatchInv)
  BY <1>1, <1>2, PTL DEF Spec
<1>4. MCInit => SystemInv
  BY <1>1 DEF MCInit, SystemInv
<1>5. SystemInv /\ [MCNext]_allVars => SystemInv'
  <2> SUFFICES ASSUME SystemInv, [MCNext]_allVars, component' = "system"
               PROVE  IInv' /\ DispatchInv'
    BY DEF SystemInv
  <2>1. component = "system"
    BY DEF MCNext, allVars
  <2> QED
    BY <1>2, <2>1, SystemStep DEF SystemInv
<1>6. MCFairSpec => []SystemInv
  BY <1>4, <1>5, PTL DEF MCFairSpec
<1> QED
  BY <1>3, <1>6

(* One dispatcher, to which handlers send: no dispatch uses a node that was  *)
(* erased or an endpoint whose destructor has returned.                     *)
THEOREM NothingFreed ==
  OneDispatcher => (Spec => []NothingFreedInUse) /\ (MCFairSpec => []FreedLast)
<1> SUFFICES ASSUME OneDispatcher
             PROVE  (Spec => []NothingFreedInUse) /\ (MCFairSpec => []FreedLast)
  OBVIOUS
<1>1. IInv /\ DispatchInv => NothingFreedInUse
  BY FromDispatch
<1>2. SystemInv => FreedLast
  BY FromDispatch DEF SystemInv, FreedLast
<1>3. Spec => [](IInv /\ DispatchInv)
  BY SystemInvariant
<1>4. MCFairSpec => []SystemInv
  BY SystemInvariant
<1>5. Spec => []NothingFreedInUse
  BY <1>1, <1>3, PTL
<1>6. MCFairSpec => []FreedLast
  BY <1>2, <1>4, PTL
<1> QED
  BY <1>5, <1>6

(* And the subscribers it iterates over do not change under it.             *)
LEMMA StableStep ==
  ASSUME OneDispatcher, IInv, DispatchInv, [Next]_vars, NEW n \in Nodes,
         Iterating(n), Iterating(n)'
  PROVE  subscribers'[n] = subscribers[n]
<1>1. dispatching[n] # {}
  BY Alone DEF Iterating, IInv, DispatchInv
<1>2. CASE UNCHANGED subscribers
  BY <1>2
<1>3. CASE UNCHANGED vars
  BY <1>3 DEF vars, subVars
<1>4. ASSUME NEW t \in Threads, NEW e \in Endpoints, CreateEndpoint(t, e)
      PROVE  subscribers'[n] = subscribers[n]
  BY <1>1, <1>4 DEF CreateEndpoint, IInv, NodeTypes
<1>5. ASSUME NEW t \in Threads, NEW e \in Endpoints, NEW s \in Nodes,
             Subscribe(t, s, e) \/ Unsubscribe(t, s, e)
      PROVE  subscribers'[n] = subscribers[n]
  BY <1>1, <1>5 DEF Subscribe, Unsubscribe, AddSubscriber, RemoveSubscriber, IInv, NodeTypes
<1>6. ASSUME NEW t \in Threads, Leave(t)
      PROVE  subscribers'[n] = subscribers[n]
  BY <1>6, LeaveDispatch
<1>7. ASSUME NEW t \in Threads,
             \/ ReadEndpoint(t) \/ EnterReceive(t) \/ HandlerReturns(t) \/ NextSubscriber(t)
             \/ DestructorStep(t)
             \/ \E m \in Nodes : Send(t, m)
             \/ \E c \in Channels : AddChannel(t, c) \/ RemoveChannel(t, c)
             \/ \E e \in Endpoints : Destroy(t, e)
      PROVE  UNCHANGED subscribers
  BY <1>7
  DEF ReadEndpoint, EnterReceive, HandlerReturns, NextSubscriber, DestructorStep, DropHandlers,
      RemoveEndpoint, EraseAwaited, Send, AddChannel, RemoveChannel, Destroy, subVars
<1> QED
  BY <1>2, <1>3, <1>4, <1>5, <1>6, <1>7, Zenon DEF Next, DispatchStep

(* With one dispatcher the subscribers of a node do not change while a      *)
(* dispatch to it iterates over them: what handlers change is deferred.     *)
THEOREM Stable ==
  OneDispatcher => (Spec => SubscribersStable) /\ (MCFairSpec => IterationsStable)
<1> SUFFICES ASSUME OneDispatcher
             PROVE  (Spec => SubscribersStable) /\ (MCFairSpec => IterationsStable)
  OBVIOUS
<1>1. Spec => [](IInv /\ DispatchInv)
  BY SystemInvariant
<1>2. MCFairSpec => []SystemInv
  BY SystemInvariant
<1>3. IInv /\ DispatchInv /\ [Next]_vars => [IterationStable]_vars
  BY StableStep DEF IterationStable
<1>4. SystemInv /\ [MCNext]_allVars => [component = "system" => IterationStable]_vars
  BY <1>3, SystemStep DEF SystemInv
<1>5. Spec => SubscribersStable
  BY <1>1, <1>3, PTL DEF Spec, SubscribersStable
<1>6. MCFairSpec => IterationsStable
  BY <1>2, <1>4, PTL DEF MCFairSpec, IterationsStable
<1> QED
  BY <1>5, <1>6
-----------------------------------------------------------------------------
(* The stack of an endpoint.  GetHandlers is what moves handlers on it:    *)
(* that the n-th of those that are left is one of them, and that each of   *)
(* them is left, comes down to counting the places up to one.              *)

UpTo(K, i) == {j \in K : j <= i}

LEMMA Ranks ==
  ASSUME NEW K \in SUBSET Nat, IsFiniteSet(K)
  PROVE  /\ Cardinality(K) \in Nat
         /\ \A i \in K : Cardinality(UpTo(K, i)) \in 1 .. Cardinality(K)
         /\ \A i, k \in K : Cardinality(UpTo(K, i)) = Cardinality(UpTo(K, k)) => i = k
         /\ \A n \in 1 .. Cardinality(K) : \E i \in K : Cardinality(UpTo(K, i)) = n
<1>1. Cardinality(K) \in Nat
  BY FS_CardinalityType
<1>2. ASSUME NEW i \in K
      PROVE  IsFiniteSet(UpTo(K, i)) /\ Cardinality(UpTo(K, i)) \in 1 .. Cardinality(K)
  <2>1. UpTo(K, i) \subseteq K /\ i \in UpTo(K, i)
    BY DEF UpTo
  <2>2. IsFiniteSet(UpTo(K, i)) /\ Cardinality(UpTo(K, i)) <= Cardinality(K)
    BY <2>1, FS_Subset
  <2>3. Cardinality(UpTo(K, i)) \in Nat /\ Cardinality(UpTo(K, i)) # 0
    BY <2>1, <2>2, FS_CardinalityType, FS_EmptySet
  <2> QED
    BY <1>1, <2>2, <2>3
<1>3. ASSUME NEW i \in K, NEW k \in K, i < k
      PROVE  Cardinality(UpTo(K, i)) < Cardinality(UpTo(K, k))
  <2>1. UpTo(K, i) \subseteq UpTo(K, k) /\ k \in UpTo(K, k) /\ k \notin UpTo(K, i)
    <3>1. i \in Nat /\ k \in Nat /\ \A j \in K : j \in Nat
      OBVIOUS
    <3>2. (\A j \in Nat : j <= i => j <= k) /\ k <= k /\ ~(k <= i)
      BY <1>3, <3>1
    <3> QED
      BY <3>1, <3>2, Zenon DEF UpTo
  <2>2. Cardinality(UpTo(K, i)) <= Cardinality(UpTo(K, k))
        /\ Cardinality(UpTo(K, i)) # Cardinality(UpTo(K, k))
    BY <1>2, <2>1, FS_Subset
  <2> QED
    BY <1>1, <1>2, <2>2
<1>4. ASSUME NEW i \in K, NEW k \in K, Cardinality(UpTo(K, i)) = Cardinality(UpTo(K, k))
      PROVE  i = k
  <2>1. ~(i < k)
    BY <1>1, <1>2, <1>3, <1>4
  <2>2. ~(k < i)
    BY <1>1, <1>2, <1>3, <1>4
  <2> QED
    BY <2>1, <2>2
<1> DEFINE rank == [i \in K |-> Cardinality(UpTo(K, i))]
<1>5. rank \in Injection(K, 1 .. Cardinality(K))
  BY <1>2, <1>4 DEF Injection, IsInjective
<1>6. IsFiniteSet(1 .. Cardinality(K)) /\ Cardinality(1 .. Cardinality(K)) = Cardinality(K)
  BY <1>1, FS_Interval
<1>7. rank \in Surjection(K, 1 .. Cardinality(K))
  BY <1>5, <1>6, FS_Injection
<1>8. \A n \in 1 .. Cardinality(K) : \E i \in K : Cardinality(UpTo(K, i)) = n
  BY <1>7 DEF Surjection
<1> QED
  BY <1>1, <1>2, <1>4, <1>8

-----------------------------------------------------------------------------

OnStack == {handlersStack[i] : i \in DOMAIN handlersStack}

StackServesTypes ==
  /\ handlersStack \in Seq(StackHandlers \cup {None})
  /\ alive \subseteq StackHandlers
  /\ stackOf \in [StackHandlers -> BOOLEAN]
  /\ callback \in [StackHandlers -> Callbacks \cup {None, Moved}]
  /\ pushing \in StackHandlers \cup {None}
  /\ registered \in BOOLEAN
  /\ endpoint \in {"alive", "telling", "clearing", "destroyed"}

(* Handlers are on the stack once, and those that are, or are about to be, *)
(* know it; the others do not, unless they were removed.                   *)
PlacedOnce ==
  /\ \A i, j \in DOMAIN handlersStack :
       handlersStack[i] = handlersStack[j] /\ handlersStack[i] # None => i = j
  /\ \A h \in alive \cap OnStack : stackOf[h]
  /\ pushing # None => pushing \in alive /\ stackOf[pushing] /\ pushing \notin OnStack
  /\ \A h \in alive \ removed : stackOf[h] => h \in OnStack \/ h = pushing

(* The type is known to an endpoint that lives, for the callbacks on its   *)
(* stack and for those that are about to be.  One that has told the        *)
(* handlers on its stack has none, and nothing is pushed any more.         *)
TypeKnown ==
  /\ endpoint = "alive" =>
       \A h \in alive : h \in OnStack \/ h = pushing => callback[h] = None \/ registered
  /\ endpoint # "alive" => pushing = None
  /\ endpoint \in {"clearing", "destroyed"} => OnStack = {}

RunsLiving ==
  running # None =>
    /\ running = [handlers |-> running.handlers, callback |-> running.callback]
    /\ running.handlers \in alive /\ running.callback \in Callbacks \cup {Moved}

HandlersInv == StackServesTypes /\ PlacedOnce /\ TypeKnown /\ RunsLiving

LEMMA HandlersInit == MessageStack!Init => HandlersInv
<1> SUFFICES ASSUME MessageStack!Init PROVE HandlersInv
  OBVIOUS
<1>1. handlersStack = <<>> /\ DOMAIN handlersStack = {} /\ OnStack = {}
  BY DEF MessageStack!Init, OnStack
<1>2. StackServesTypes
  BY <1>1, EmptySeq DEF MessageStack!Init, StackServesTypes
<1>3. PlacedOnce /\ TypeKnown /\ RunsLiving
  BY <1>1 DEF MessageStack!Init, PlacedOnce, TypeKnown, RunsLiving
<1> QED
  BY <1>2, <1>3 DEF HandlersInv

(* The calls on handlers.                                                  *)

LEMMA StackSets ==
  ASSUME HandlersInv, NEW h \in StackHandlers, NEW c \in Callbacks, MessageStack!SetHandler(h, c)
  PROVE  HandlersInv'
<1>1. OnStack' = OnStack
  BY DEF MessageStack!SetHandler, MessageStack!messageVars, OnStack
<1>2. StackServesTypes'
  BY StackAssumption DEF HandlersInv, StackServesTypes, RunsLiving, MessageStack!SetHandler, MessageStack!messageVars, MessageStack!Runs
<1>3. PlacedOnce'
  BY <1>1 DEF HandlersInv, StackServesTypes, PlacedOnce, MessageStack!SetHandler, MessageStack!messageVars, MessageStack!Runs
<1>4. TypeKnown'
  BY <1>1, StackAssumption DEF HandlersInv, StackServesTypes, PlacedOnce, TypeKnown, RunsLiving, MessageStack!SetHandler, MessageStack!messageVars, MessageStack!Runs
<1>5. RunsLiving'
  BY StackAssumption DEF HandlersInv, StackServesTypes, RunsLiving, MessageStack!SetHandler, MessageStack!messageVars, MessageStack!Runs
<1> QED
  BY <1>2, <1>3, <1>4, <1>5 DEF HandlersInv

LEMMA StackClears ==
  ASSUME HandlersInv, NEW h \in StackHandlers, MessageStack!ClearHandler(h)
  PROVE  HandlersInv'
<1>1. OnStack' = OnStack
  BY DEF MessageStack!ClearHandler, MessageStack!messageVars, OnStack
<1>2. StackServesTypes'
  BY StackAssumption DEF HandlersInv, StackServesTypes, RunsLiving, MessageStack!ClearHandler, MessageStack!messageVars
<1>3. PlacedOnce'
  BY <1>1 DEF HandlersInv, StackServesTypes, PlacedOnce, MessageStack!ClearHandler, MessageStack!messageVars
<1>4. TypeKnown'
  BY <1>1, StackAssumption DEF HandlersInv, StackServesTypes, PlacedOnce, TypeKnown, RunsLiving, MessageStack!ClearHandler, MessageStack!messageVars
<1>5. RunsLiving'
  BY StackAssumption DEF HandlersInv, StackServesTypes, RunsLiving, MessageStack!ClearHandler, MessageStack!messageVars
<1> QED
  BY <1>2, <1>3, <1>4, <1>5 DEF HandlersInv

LEMMA StackDestroysHandlers ==
  ASSUME HandlersInv, NEW h \in StackHandlers, MessageStack!DestroyHandlers(h)
  PROVE  HandlersInv'
<1>1. OnStack' = OnStack
  BY DEF MessageStack!DestroyHandlers, MessageStack!MayGo, MessageStack!messageVars, OnStack
<1>2. StackServesTypes'
  BY StackAssumption DEF HandlersInv, StackServesTypes, RunsLiving, MessageStack!DestroyHandlers, MessageStack!MayGo, MessageStack!Runs, MessageStack!messageVars
<1>3. PlacedOnce'
  BY <1>1 DEF HandlersInv, StackServesTypes, PlacedOnce, MessageStack!DestroyHandlers, MessageStack!MayGo, MessageStack!Runs, MessageStack!messageVars
<1>4. TypeKnown'
  BY <1>1, StackAssumption DEF HandlersInv, StackServesTypes, PlacedOnce, TypeKnown, RunsLiving, MessageStack!DestroyHandlers, MessageStack!MayGo, MessageStack!Runs, MessageStack!messageVars
<1>5. RunsLiving'
  BY StackAssumption DEF HandlersInv, StackServesTypes, RunsLiving, MessageStack!DestroyHandlers, MessageStack!MayGo, MessageStack!Runs, MessageStack!messageVars
<1> QED
  BY <1>2, <1>3, <1>4, <1>5 DEF HandlersInv

LEMMA StackPushes ==
  ASSUME HandlersInv, NEW h \in StackHandlers, MessageStack!Push(h)
  PROVE  HandlersInv'
<1>1. OnStack' = OnStack
  BY DEF MessageStack!Push, MessageStack!Registers, MessageStack!messageVars, OnStack
<1>2. StackServesTypes'
  BY StackAssumption DEF HandlersInv, StackServesTypes, RunsLiving, MessageStack!Push, MessageStack!Registers, MessageStack!messageVars
<1>3. PlacedOnce'
  <2>1. /\ pushing = None /\ pushing' = h /\ h \in alive /\ ~stackOf[h]
        /\ UNCHANGED <<handlersStack, alive, removed>>
        /\ stackOf'[h] /\ \A g \in StackHandlers : g # h => stackOf'[g] = stackOf[g]
    BY DEF HandlersInv, StackServesTypes, MessageStack!Push
  <2>2. h \notin OnStack
    BY <2>1 DEF HandlersInv, PlacedOnce
  <2>3. (\A i, j \in DOMAIN handlersStack :
            handlersStack[i] = handlersStack[j] /\ handlersStack[i] # None => i = j)'
    BY <2>1 DEF HandlersInv, PlacedOnce
  <2>4. (\A g \in alive \cap OnStack : stackOf[g])'
    BY <1>1, <2>1, <2>2 DEF HandlersInv, StackServesTypes, PlacedOnce
  <2>5. (pushing # None => pushing \in alive /\ stackOf[pushing] /\ pushing \notin OnStack)'
    BY <1>1, <2>1, <2>2
  <2>6. (\A g \in alive \ removed : stackOf[g] => g \in OnStack \/ g = pushing)'
    <3> SUFFICES ASSUME NEW g \in alive \ removed, stackOf'[g]
                 PROVE  g \in OnStack \/ g = h
      BY <1>1, <2>1
    <3>1. g \in StackHandlers
      BY DEF HandlersInv, StackServesTypes
    <3>2. CASE g # h
      BY <2>1, <3>1, <3>2, StackAssumption DEF HandlersInv, PlacedOnce
    <3> QED
      BY <3>2
  <2> QED
    BY <2>3, <2>4, <2>5, <2>6 DEF PlacedOnce
<1>4. TypeKnown'
  BY <1>1, StackAssumption DEF HandlersInv, StackServesTypes, PlacedOnce, TypeKnown, RunsLiving, MessageStack!Push, MessageStack!Registers, MessageStack!messageVars
<1>5. RunsLiving'
  BY StackAssumption DEF HandlersInv, StackServesTypes, RunsLiving, MessageStack!Push, MessageStack!Registers, MessageStack!messageVars
<1> QED
  BY <1>2, <1>3, <1>4, <1>5 DEF HandlersInv

LEMMA StackOrders ==
  ASSUME HandlersInv, NEW top \in BOOLEAN, MessageStack!SetOrder(top)
  PROVE  HandlersInv'
<1>1. OnStack' = OnStack
  BY DEF MessageStack!SetOrder, MessageStack!messageVars, MessageStack!handlerVars, OnStack
<1>2. StackServesTypes'
  BY StackAssumption DEF HandlersInv, StackServesTypes, RunsLiving, MessageStack!SetOrder, MessageStack!messageVars, MessageStack!handlerVars
<1>3. PlacedOnce'
  BY <1>1 DEF HandlersInv, StackServesTypes, PlacedOnce, MessageStack!SetOrder, MessageStack!messageVars, MessageStack!handlerVars
<1>4. TypeKnown'
  BY <1>1, StackAssumption DEF HandlersInv, StackServesTypes, PlacedOnce, TypeKnown, RunsLiving, MessageStack!SetOrder, MessageStack!messageVars, MessageStack!handlerVars
<1>5. RunsLiving'
  BY StackAssumption DEF HandlersInv, StackServesTypes, RunsLiving, MessageStack!SetOrder, MessageStack!messageVars, MessageStack!handlerVars
<1> QED
  BY <1>2, <1>3, <1>4, <1>5 DEF HandlersInv

LEMMA StackEnds ==
  ASSUME HandlersInv,
         \/ MessageStack!Destroy \/ MessageStack!Told \/ MessageStack!Destroyed
         \/ MessageStack!HandleMessage
  PROVE  HandlersInv'
<1>1. OnStack' = OnStack
  BY DEF MessageStack!Destroy, MessageStack!Told, MessageStack!Destroyed, MessageStack!HandleMessage,
         MessageStack!messageVars, MessageStack!handlerVars, OnStack
<1>2. StackServesTypes'
  BY StackAssumption DEF HandlersInv, StackServesTypes, RunsLiving, MessageStack!Destroy, MessageStack!Told,
     MessageStack!Destroyed, MessageStack!HandleMessage, MessageStack!messageVars, MessageStack!handlerVars
<1>3. PlacedOnce'
  BY <1>1 DEF HandlersInv, StackServesTypes, PlacedOnce, MessageStack!Destroy, MessageStack!Told,
     MessageStack!Destroyed, MessageStack!HandleMessage, MessageStack!messageVars, MessageStack!handlerVars
<1>4. TypeKnown'
  <2>1. handlersStack = <<>> => OnStack = {}
    BY DEF OnStack
  <2> QED
    BY <1>1, <2>1, StackAssumption DEF HandlersInv, StackServesTypes, PlacedOnce, TypeKnown, RunsLiving, MessageStack!Destroy, MessageStack!Told,
     MessageStack!Destroyed, MessageStack!HandleMessage, MessageStack!messageVars, MessageStack!handlerVars
<1>5. RunsLiving'
  BY StackAssumption DEF HandlersInv, StackServesTypes, RunsLiving, MessageStack!Destroy, MessageStack!Told,
     MessageStack!Destroyed, MessageStack!HandleMessage, MessageStack!messageVars, MessageStack!handlerVars
<1> QED
  BY <1>2, <1>3, <1>4, <1>5 DEF HandlersInv

LEMMA StackReceives ==
  ASSUME HandlersInv, MessageStack!Receive
  PROVE  HandlersInv'
<1>1. OnStack' = OnStack
  BY DEF MessageStack!Receive, OnStack
<1>2. StackServesTypes'
  BY StackAssumption DEF HandlersInv, StackServesTypes, RunsLiving, MessageStack!Receive
<1>3. PlacedOnce'
  BY <1>1 DEF HandlersInv, StackServesTypes, PlacedOnce, MessageStack!Receive
<1>4. TypeKnown'
  BY <1>1, StackAssumption DEF HandlersInv, StackServesTypes, PlacedOnce, TypeKnown, RunsLiving, MessageStack!Receive
<1>5. RunsLiving'
  BY StackAssumption DEF HandlersInv, StackServesTypes, RunsLiving, MessageStack!Receive
<1> QED
  BY <1>2, <1>3, <1>4, <1>5 DEF HandlersInv

LEMMA StackReturns ==
  ASSUME HandlersInv, NEW handled \in BOOLEAN, MessageStack!Returns(handled)
  PROVE  HandlersInv'
<1>1. OnStack' = OnStack
  BY DEF MessageStack!Returns, MessageStack!CallbackAfter, OnStack
<1>2. StackServesTypes'
  BY StackAssumption DEF HandlersInv, StackServesTypes, RunsLiving, MessageStack!Returns, MessageStack!CallbackAfter
<1>3. PlacedOnce'
  BY <1>1 DEF HandlersInv, StackServesTypes, PlacedOnce, MessageStack!Returns, MessageStack!CallbackAfter
<1>4. TypeKnown'
  BY <1>1, StackAssumption DEF HandlersInv, StackServesTypes, PlacedOnce, TypeKnown, RunsLiving, MessageStack!Returns, MessageStack!CallbackAfter
<1>5. RunsLiving'
  BY StackAssumption DEF HandlersInv, StackServesTypes, RunsLiving, MessageStack!Returns, MessageStack!CallbackAfter
<1> QED
  BY <1>2, <1>3, <1>4, <1>5 DEF HandlersInv

(* The stack.                                                              *)

LEMMA StackPlaces ==
  ASSUME HandlersInv, MessageStack!Pushed
  PROVE  HandlersInv'
<1>1. /\ pushing # None /\ pushing' = None
      /\ handlersStack' = Append(handlersStack, pushing)
      /\ UNCHANGED <<endpoint, registered, alive, stackOf, removed, callback, running>>
  BY DEF MessageStack!Pushed, MessageStack!handlerVars, MessageStack!messageVars
<1>2. handlersStack \in Seq(StackHandlers \cup {None}) /\ pushing \in StackHandlers
  BY <1>1 DEF HandlersInv, StackServesTypes
<1>3. /\ handlersStack' \in Seq(StackHandlers \cup {None})
      /\ Len(handlersStack') = Len(handlersStack) + 1
      /\ \A i \in 1 .. Len(handlersStack) : handlersStack'[i] = handlersStack[i]
      /\ handlersStack'[Len(handlersStack) + 1] = pushing
  BY <1>1, <1>2, AppendProperties
<1>4. /\ DOMAIN handlersStack = 1 .. Len(handlersStack)
      /\ DOMAIN handlersStack' = 1 .. Len(handlersStack')
  BY <1>2, <1>3, LenProperties
<1>5. PICK n \in Nat : n = Len(handlersStack)
  BY <1>2, LenProperties
<1>6. /\ DOMAIN handlersStack = 1 .. n /\ DOMAIN handlersStack' = 1 .. n + 1
      /\ \A i \in 1 .. n : handlersStack'[i] = handlersStack[i]
      /\ handlersStack'[n + 1] = pushing
  BY <1>3, <1>4, <1>5
<1>7. OnStack' = OnStack \cup {pushing}
  <2>1. 1 .. n + 1 = (1 .. n) \cup {n + 1}
    BY <1>5
  <2> QED
    BY <1>6, <2>1 DEF OnStack
<1>8. \A i, j \in DOMAIN handlersStack' :
        handlersStack'[i] = handlersStack'[j] /\ handlersStack'[i] # None => i = j
  <2> SUFFICES ASSUME NEW i \in 1 .. n + 1, NEW j \in 1 .. n + 1,
                      handlersStack'[i] = handlersStack'[j], handlersStack'[i] # None
               PROVE  i = j
    BY <1>6
  <2>1. pushing \notin OnStack
    BY <1>1 DEF HandlersInv, PlacedOnce
  <2>2. \A k \in 1 .. n : handlersStack'[k] \in OnStack
    BY <1>6 DEF OnStack
  <2>3. CASE i \in 1 .. n /\ j \in 1 .. n
    BY <1>6, <2>3 DEF HandlersInv, PlacedOnce
  <2>4. CASE i = n + 1 \/ j = n + 1
    BY <1>6, <2>1, <2>2, <2>4, <1>5
  <2> QED
    BY <2>3, <2>4, <1>5
<1>9. StackServesTypes'
  BY <1>1, <1>3 DEF HandlersInv, StackServesTypes
<1>10. PlacedOnce'
  BY <1>1, <1>7, <1>8 DEF HandlersInv, PlacedOnce
<1>11. TypeKnown'
  <2>1. endpoint = "alive" /\ endpoint' = "alive"
    BY <1>1 DEF HandlersInv, TypeKnown
  <2>2. ASSUME NEW h \in alive, h \in OnStack' PROVE callback[h] = None \/ registered
    BY <1>7, <2>1, <2>2 DEF HandlersInv, TypeKnown
  <2>3. UNCHANGED <<registered, alive, callback>> /\ pushing' = None
    BY <1>1
  <2>4. None \notin alive
    BY StackAssumption DEF HandlersInv, StackServesTypes
  <2> QED
    BY <2>1, <2>2, <2>3, <2>4 DEF TypeKnown
<1>12. RunsLiving'
  BY <1>1 DEF HandlersInv, RunsLiving
<1> QED
  BY <1>9, <1>10, <1>11, <1>12 DEF HandlersInv

LEMMA StackRemoves ==
  ASSUME HandlersInv, NEW h \in StackHandlers, MessageStack!RemoveHandlers(h)
  PROVE  HandlersInv'
<1>1. /\ h \in alive \ removed /\ stackOf[h] /\ pushing # h
      /\ handlersStack' = [i \in DOMAIN handlersStack |->
                             IF handlersStack[i] = h THEN None ELSE handlersStack[i]]
      /\ removed' = removed \cup {h}
      /\ UNCHANGED <<endpoint, registered, alive, stackOf, callback, pushing, running>>
  BY DEF MessageStack!RemoveHandlers, MessageStack!messageVars
<1>2. /\ DOMAIN handlersStack' = DOMAIN handlersStack
      /\ \A i \in DOMAIN handlersStack :
           handlersStack'[i] = IF handlersStack[i] = h THEN None ELSE handlersStack[i]
  BY <1>1
<1>3. OnStack' \ {None} = OnStack \ {h, None}
  BY <1>2, StackAssumption DEF OnStack
<1>4. handlersStack' \in Seq(StackHandlers \cup {None})
  <2>1. PICK n \in Nat : /\ DOMAIN handlersStack = 1 .. n
                         /\ \A i \in 1 .. n : handlersStack[i] \in StackHandlers \cup {None}
    BY LenProperties, ElementOfSeq DEF HandlersInv, StackServesTypes
  <2>2. handlersStack' \in [1 .. n -> StackHandlers \cup {None}]
    BY <1>1, <2>1
  <2> QED
    BY <2>2, SeqDef
<1>5. None \notin alive
  BY StackAssumption DEF HandlersInv, StackServesTypes
<1>6. StackServesTypes'
  BY <1>1, <1>4 DEF HandlersInv, StackServesTypes
<1>7. PlacedOnce'
  BY <1>1, <1>2, <1>3, <1>5 DEF HandlersInv, PlacedOnce
<1>8. TypeKnown'
  <2>1. CASE endpoint = "alive"
    BY <1>1, <1>3, <1>5, <2>1 DEF HandlersInv, TypeKnown
  <2>2. CASE endpoint # "alive"
    BY <1>1, <1>2, <2>2 DEF HandlersInv, TypeKnown, OnStack
  <2> QED
    BY <2>1, <2>2
<1>9. RunsLiving'
  BY <1>1 DEF HandlersInv, RunsLiving
<1> QED
  BY <1>6, <1>7, <1>8, <1>9 DEF HandlersInv

(* What is left of a stack without its first place.                        *)
LEMMA StackTail ==
  ASSUME HandlersInv, handlersStack # <<>>
  PROVE  /\ Head(handlersStack) = handlersStack[1]
         /\ Tail(handlersStack) \in Seq(StackHandlers \cup {None})
         /\ \E n \in Nat : /\ DOMAIN handlersStack = 1 .. n + 1
                         /\ DOMAIN Tail(handlersStack) = 1 .. n
                         /\ \A i \in 1 .. n : Tail(handlersStack)[i] = handlersStack[i + 1]
<1>1. PICK s \in Seq(StackHandlers \cup {None}) : s = handlersStack /\ s # <<>>
  BY DEF HandlersInv, StackServesTypes
<1>2. /\ Head(s) = s[1] /\ Tail(s) \in Seq(StackHandlers \cup {None})
      /\ Len(Tail(s)) = Len(s) - 1
      /\ \A i \in 1 .. Len(Tail(s)) : Tail(s)[i] = s[i + 1]
  BY <1>1, HeadTailProperties, EmptySeq
<1>3. Len(s) \in Nat /\ Len(s) # 0
  BY <1>1, LenProperties, EmptySeq
<1>4. PICK n \in Nat : Len(s) = n + 1
  <2>1. Len(s) - 1 \in Nat /\ Len(s) = Len(s) - 1 + 1
    BY <1>3
  <2> QED
    BY <2>1
<1>5. Len(Tail(s)) = n
  BY <1>2, <1>4
<1>6. DOMAIN s = 1 .. n + 1 /\ DOMAIN Tail(s) = 1 .. n
  BY <1>1, <1>2, <1>4, <1>5, LenProperties
<1> QED
  BY <1>1, <1>2, <1>5, <1>6

LEMMA StackTells ==
  ASSUME HandlersInv, MessageStack!Tell
  PROVE  HandlersInv'
<1>1. /\ endpoint = "telling" /\ handlersStack # <<>>
      /\ handlersStack' = Tail(handlersStack)
      /\ stackOf' = [h \in StackHandlers |->
                       stackOf[h] /\ (h = Head(handlersStack) => h \notin alive)]
      /\ UNCHANGED <<endpoint, registered, alive, removed, callback, pushing, running>>
  BY DEF MessageStack!Tell, MessageStack!messageVars
<1>2. PICK n \in Nat : /\ DOMAIN handlersStack = 1 .. n + 1
                       /\ DOMAIN handlersStack' = 1 .. n
                       /\ \A i \in 1 .. n : handlersStack'[i] = handlersStack[i + 1]
  BY <1>1, StackTail
<1>3. /\ Head(handlersStack) = handlersStack[1]
      /\ handlersStack' \in Seq(StackHandlers \cup {None})
  BY <1>1, StackTail
<1>4. /\ \A i \in 1 .. n : i + 1 \in 1 .. n + 1 /\ i + 1 # 1
      /\ \A i \in 1 .. n + 1 : i # 1 => \E k \in 1 .. n : i = k + 1
      /\ 1 \in 1 .. n + 1
      /\ \A i, j \in 1 .. n : i + 1 = j + 1 => i = j
  <2>1. ASSUME NEW i \in 1 .. n + 1, i # 1 PROVE \E k \in 1 .. n : i = k + 1
    <3>1. i - 1 \in 1 .. n /\ i = i - 1 + 1
      BY <2>1
    <3> QED
      BY <3>1
  <2> QED
    BY <2>1
<1>5. OnStack' \subseteq OnStack
  BY <1>2, <1>4 DEF OnStack
<1>6. ASSUME NEW h \in OnStack, h # handlersStack[1] PROVE h \in OnStack'
  <2>1. PICK i \in 1 .. n + 1 : h = handlersStack[i] /\ i # 1
    BY <1>2, <1>6 DEF OnStack
  <2>2. PICK k \in 1 .. n : i = k + 1
    BY <1>4, <2>1
  <2>3. h = handlersStack'[k]
    BY <1>2, <2>1, <2>2
  <2> QED
    BY <1>2, <2>3 DEF OnStack
<1>7. handlersStack[1] # None => handlersStack[1] \notin OnStack'
  BY <1>2, <1>4 DEF OnStack, HandlersInv, PlacedOnce
<1>8. None \notin alive /\ \A h \in alive : h \in StackHandlers
  BY StackAssumption DEF HandlersInv, StackServesTypes
<1>9. StackServesTypes'
  BY <1>1, <1>3 DEF HandlersInv, StackServesTypes
<1>10. PlacedOnce'
  <2>1. \A i, j \in DOMAIN handlersStack' :
          handlersStack'[i] = handlersStack'[j] /\ handlersStack'[i] # None => i = j
    BY <1>2, <1>4 DEF HandlersInv, PlacedOnce
  <2>2. \A h \in alive \cap OnStack' : stackOf'[h]
    BY <1>1, <1>3, <1>5, <1>7, <1>8 DEF HandlersInv, PlacedOnce
  <2>3. pushing = None
    BY <1>1 DEF HandlersInv, TypeKnown
  <2>4. \A h \in alive \ removed : stackOf'[h] => h \in OnStack'
    BY <1>1, <1>3, <1>6, <1>8, <2>3 DEF HandlersInv, PlacedOnce
  <2> QED
    BY <1>1, <2>1, <2>2, <2>3, <2>4 DEF PlacedOnce
<1>11. TypeKnown' /\ RunsLiving'
  BY <1>1 DEF HandlersInv, TypeKnown, RunsLiving
<1> QED
  BY <1>9, <1>10, <1>11 DEF HandlersInv

(* GetHandlers leaves on the stack those that were on it and exist.        *)
LEMMA CleanedKeeps ==
  ASSUME HandlersInv
  PROVE  LET cleaned == MessageStack!Cleaned
         IN /\ cleaned \in Seq(StackHandlers \cup {None})
            /\ {cleaned[n] : n \in DOMAIN cleaned} = OnStack \cap alive
            /\ \A m, n \in DOMAIN cleaned : cleaned[m] = cleaned[n] => m = n
<1> DEFINE K == {i \in DOMAIN handlersStack : handlersStack[i] \in alive}
           place(n) == CHOOSE i \in K : Cardinality(UpTo(K, i)) = n
           cleaned == [n \in 1 .. Cardinality(K) |-> handlersStack[place(n)]]
<1>1. MessageStack!Cleaned = cleaned
  BY DEF MessageStack!Cleaned, MessageStack!Kept, MessageStack!KeptTo, UpTo,
         MessageStack!Cardinality, Cardinality
<1>2. PICK l \in Nat : DOMAIN handlersStack = 1 .. l
  BY LenProperties DEF HandlersInv, StackServesTypes
<1>3. K \in SUBSET Nat /\ IsFiniteSet(K)
  <2>1. K \subseteq 1 .. l /\ IsFiniteSet(1 .. l) /\ 1 .. l \subseteq Nat
    BY <1>2, FS_Interval
  <2> QED
    BY <2>1, FS_Subset
<1>4. /\ \A i \in K : /\ i \in DOMAIN handlersStack
                      /\ handlersStack[i] \in OnStack \cap alive
      /\ \A h \in OnStack \cap alive : \E i \in K : handlersStack[i] = h
      /\ \A i, j \in K : handlersStack[i] = handlersStack[j] => i = j
  <2>1. None \notin alive
    BY StackAssumption DEF HandlersInv, StackServesTypes
  <2> QED
    BY <2>1 DEF OnStack, HandlersInv, PlacedOnce
<1> HIDE DEF K
<1>5. /\ Cardinality(K) \in Nat
      /\ \A i \in K : Cardinality(UpTo(K, i)) \in 1 .. Cardinality(K)
      /\ \A i, k \in K : Cardinality(UpTo(K, i)) = Cardinality(UpTo(K, k)) => i = k
      /\ \A n \in 1 .. Cardinality(K) : \E i \in K : Cardinality(UpTo(K, i)) = n
  BY <1>3, Ranks
<1>6. \A n \in 1 .. Cardinality(K) : place(n) \in K /\ Cardinality(UpTo(K, place(n))) = n
  BY <1>5
<1>7. \A i \in K : place(Cardinality(UpTo(K, i))) = i
  BY <1>5, <1>6
<1> HIDE DEF place
<1>8. /\ DOMAIN cleaned = 1 .. Cardinality(K)
      /\ \A n \in 1 .. Cardinality(K) : cleaned[n] = handlersStack[place(n)]
  OBVIOUS
<1>9. cleaned \in Seq(StackHandlers \cup {None})
  <2>1. cleaned \in [1 .. Cardinality(K) -> StackHandlers \cup {None}]
    BY <1>4, <1>6 DEF HandlersInv, StackServesTypes
  <2> QED
    BY <1>5, <2>1, SeqDef
<1> HIDE DEF cleaned
<1>10. {cleaned[n] : n \in DOMAIN cleaned} \subseteq OnStack \cap alive
  BY <1>4, <1>6, <1>8
<1>11. OnStack \cap alive \subseteq {cleaned[n] : n \in DOMAIN cleaned}
  BY <1>4, <1>5, <1>7, <1>8
<1>12. \A m, n \in DOMAIN cleaned : cleaned[m] = cleaned[n] => m = n
  BY <1>4, <1>6, <1>8
<1> QED
  BY <1>1, <1>9, <1>10, <1>11, <1>12

LEMMA StackIsCleaned ==
  ASSUME HandlersInv, MessageStack!GetHandlers
  PROVE  HandlersInv'
<1>1. /\ handlersStack' = MessageStack!Cleaned
      /\ UNCHANGED <<endpoint, registered, alive, stackOf, removed, callback, pushing, running>>
  BY DEF MessageStack!GetHandlers, MessageStack!handlerVars
<1>2. /\ handlersStack' \in Seq(StackHandlers \cup {None})
      /\ OnStack' = OnStack \cap alive
      /\ \A i, j \in DOMAIN handlersStack' : handlersStack'[i] = handlersStack'[j] => i = j
  BY <1>1, CleanedKeeps DEF OnStack
<1>3. StackServesTypes'
  BY <1>1, <1>2 DEF HandlersInv, StackServesTypes
<1>4. PlacedOnce'
  BY <1>1, <1>2 DEF HandlersInv, PlacedOnce
<1>5. TypeKnown' /\ RunsLiving'
  BY <1>1, <1>2 DEF HandlersInv, TypeKnown, RunsLiving
<1> QED
  BY <1>3, <1>4, <1>5 DEF HandlersInv

-----------------------------------------------------------------------------

LEMMA StackNext == HandlersInv /\ [MessageStack!Next]_stackVars => HandlersInv'
<1>1. ASSUME HandlersInv, UNCHANGED stackVars PROVE HandlersInv'
  BY <1>1 DEF stackVars, HandlersInv, StackServesTypes, PlacedOnce, TypeKnown, RunsLiving, OnStack
<1>2. ASSUME HandlersInv, MessageStack!Next PROVE HandlersInv'
  BY <1>2, StackSets, StackClears, StackDestroysHandlers, StackPushes, StackOrders, StackEnds,
     StackReceives, StackReturns, StackPlaces, StackRemoves, StackTells, StackIsCleaned
     DEF MessageStack!Next
<1> QED
  BY <1>1, <1>2

LEMMA StackHolds == HandlersInv => MessageStack!StacksServe /\ MessageStack!StacksExist
<1> SUFFICES ASSUME HandlersInv PROVE MessageStack!StacksServe /\ MessageStack!StacksExist
  OBVIOUS
<1>1. MessageStack!ToSet(handlersStack) = OnStack
  BY DEF MessageStack!ToSet, ToSet, OnStack
<1>2. MessageStack!StacksServe
  BY <1>1 DEF MessageStack!StacksServe, HandlersInv, PlacedOnce, TypeKnown, RunsLiving
<1>3. MessageStack!StacksExist
  BY StackAssumption
  DEF MessageStack!StacksExist, HandlersInv, StackServesTypes, PlacedOnce, TypeKnown
<1> QED
  BY <1>2, <1>3

(* The callback of handlers is there if the last call set one.  Receive    *)
(* takes one that is there, and Returns puts it back if none was cleared   *)
(* last.                                                                   *)
AskedInv ==
  /\ asked \in [StackHandlers -> Callbacks \cup {None, Moved}]
  /\ MessageStack!CallbacksAsked

LEMMA AskedNext ==
  ASSUME HandlersInv, AskedInv, [MessageStack!Next]_stackVars
  PROVE  AskedInv'
<1> USE StackAssumption DEF AskedInv, MessageStack!CallbacksAsked, MessageStack!Runs
<1>1. ASSUME UNCHANGED <<callback, asked, running>> PROVE AskedInv'
  BY <1>1
<1>2. ASSUME NEW g \in StackHandlers, NEW c \in Callbacks, MessageStack!SetHandler(g, c)
      PROVE  AskedInv'
  <2>1. /\ callback' = [callback EXCEPT ![g] = c]
        /\ asked' = [asked EXCEPT ![g] = IF MessageStack!Runs(g) THEN Moved ELSE c]
        /\ UNCHANGED running
    BY <1>2 DEF MessageStack!SetHandler, MessageStack!messageVars
  <2> QED
    BY <2>1 DEF HandlersInv, StackServesTypes
<1>3. ASSUME NEW g \in StackHandlers, MessageStack!ClearHandler(g)
      PROVE  AskedInv'
  <2>1. /\ callback' = [callback EXCEPT ![g] = None]
        /\ asked' = [asked EXCEPT ![g] = None]
        /\ UNCHANGED running
    BY <1>3 DEF MessageStack!ClearHandler, MessageStack!messageVars
  <2> QED
    BY <2>1 DEF HandlersInv, StackServesTypes
<1>4. ASSUME MessageStack!Receive PROVE AskedInv'
  <2>1. /\ running = None /\ UNCHANGED asked
        /\ \/ UNCHANGED <<running, callback>>
           \/ \E h \in alive : /\ callback[h] # None
                             /\ running' = [handlers |-> h, callback |-> callback[h]]
                             /\ callback' = [callback EXCEPT ![h] = Moved]
    BY <1>4 DEF MessageStack!Receive
  <2>2. CASE UNCHANGED <<running, callback>>
    BY <1>1, <2>1, <2>2
  <2>3. ASSUME NEW h \in alive, callback[h] # None,
               running' = [handlers |-> h, callback |-> callback[h]],
               callback' = [callback EXCEPT ![h] = Moved]
        PROVE  AskedInv'
    <3>1. running'.handlers = h /\ running'.callback = callback[h] /\ h \in StackHandlers
      BY <2>3 DEF HandlersInv, StackServesTypes
    <3>2. /\ callback'[h] = Moved /\ \A g \in StackHandlers : g # h => callback'[g] = callback[g]
          /\ asked[h] \in Callbacks => callback[h] = asked[h]
          /\ asked[h] # None
      BY <2>1, <2>3, <3>1 DEF HandlersInv, StackServesTypes
    <3>3. running' # None
      BY <2>3, <3>1 DEF HandlersInv, StackServesTypes
    <3> QED
      BY <2>1, <3>1, <3>2, <3>3
  <2> QED
    BY <2>1, <2>2, <2>3
<1>5. ASSUME NEW handled \in BOOLEAN, MessageStack!Returns(handled)
      PROVE  AskedInv'
  <2>1. PICK h \in StackHandlers :
          /\ running # None /\ running' = None /\ h = running.handlers /\ UNCHANGED asked
          /\ running.callback # None
          /\ callback' = [callback EXCEPT ![h] = IF callback[h] = None THEN None ELSE running.callback]
    BY <1>5
    DEF MessageStack!Returns, MessageStack!CallbackAfter, HandlersInv, RunsLiving, StackServesTypes
  <2> QED
    BY <2>1 DEF HandlersInv, StackServesTypes
<1>6. ASSUME NEW g \in StackHandlers,
             \/ MessageStack!DestroyHandlers(g) \/ MessageStack!Push(g)
             \/ MessageStack!RemoveHandlers(g)
      PROVE  UNCHANGED <<callback, asked, running>>
  BY <1>6
  DEF MessageStack!DestroyHandlers, MessageStack!Push, MessageStack!RemoveHandlers,
      MessageStack!messageVars
<1>7. ASSUME NEW top \in BOOLEAN, MessageStack!SetOrder(top)
      PROVE  UNCHANGED <<callback, asked, running>>
  BY <1>7 DEF MessageStack!SetOrder, MessageStack!handlerVars, MessageStack!messageVars
<1>8. ASSUME \/ MessageStack!Pushed \/ MessageStack!Destroy \/ MessageStack!Tell
             \/ MessageStack!Told \/ MessageStack!Destroyed
             \/ MessageStack!HandleMessage \/ MessageStack!GetHandlers
      PROVE  UNCHANGED <<callback, asked, running>>
  BY <1>8
  DEF MessageStack!Pushed, MessageStack!Destroy, MessageStack!Tell, MessageStack!Told,
      MessageStack!Destroyed, MessageStack!HandleMessage, MessageStack!GetHandlers,
      MessageStack!handlerVars, MessageStack!messageVars
<1>9. UNCHANGED stackVars => UNCHANGED <<callback, asked, running>>
  BY DEF stackVars
<1> QED
  BY <1>1, <1>2, <1>3, <1>4, <1>5, <1>6, <1>7, <1>8, <1>9 DEF MessageStack!Next

-----------------------------------------------------------------------------
(* The message on its way.  What has yet to be tried is due, was not tried *)
(* and comes in the stack's order, whatever has become of the stack;       *)
(* nothing due comes before what was tried, or to the stack later.         *)

Pending == {todo[n] : n \in DOMAIN todo}

MessageTypes ==
  /\ todo \in Seq(StackHandlers)
  /\ due \subseteq StackHandlers /\ tried \subseteq StackHandlers
  /\ order \in BOOLEAN /\ topDown \in BOOLEAN
  /\ delivered => running = None /\ todo = <<>>

PendingOnce ==
  /\ \A m, n \in DOMAIN todo : todo[m] = todo[n] => m = n
  /\ \A n \in DOMAIN todo : todo[n] \in due /\ todo[n] \notin tried
  /\ due \cap alive \subseteq tried \cup Pending
  /\ running # None => running.handlers \in due \cap tried

PendingInOrder ==
  /\ \A i, j \in DOMAIN handlersStack :
       /\ MessageStack!Before(i, j)
       /\ handlersStack[j] \in tried /\ handlersStack[i] \in due \cap alive
       => handlersStack[i] \in tried
  /\ \A m, n \in DOMAIN todo : \A i, j \in DOMAIN handlersStack :
       m < n /\ handlersStack[i] = todo[m] /\ handlersStack[j] = todo[n] => MessageStack!Before(i, j)

PushedLater ==
  /\ endpoint = "alive" => \A h \in due \cup tried : stackOf[h]
  /\ pushing \notin due \cup tried

MessageInv == MessageTypes /\ PendingOnce /\ PendingInOrder /\ PushedLater

LEMMA MessageInit == MessageStack!Init => MessageInv
<1> SUFFICES ASSUME MessageStack!Init PROVE MessageInv
  OBVIOUS
<1>1. /\ handlersStack = <<>> /\ todo = <<>> /\ due = {} /\ tried = {} /\ running = None
      /\ order = TRUE /\ topDown \in BOOLEAN /\ delivered = FALSE /\ pushing = None
  BY DEF MessageStack!Init
<1>2. DOMAIN todo = {} /\ DOMAIN handlersStack = {} /\ todo \in Seq(StackHandlers)
  BY <1>1, EmptySeq
<1> QED
  BY <1>1, <1>2 DEF MessageInv, MessageTypes, PendingOnce, PendingInOrder, PushedLater

(* A step that leaves the message alone, and what is due or was tried in   *)
(* the order it has on the stack.                                          *)
LEMMA MessageKept ==
  ASSUME HandlersInv, MessageInv,
         UNCHANGED <<delivered, todo, running, order, due, tried>>,
         topDown' \in BOOLEAN, alive' \subseteq alive,
         \A i, j \in DOMAIN handlersStack' :
           handlersStack'[i] \in due \cup tried /\ handlersStack'[j] \in due \cup tried =>
             \E k, l \in DOMAIN handlersStack :
               /\ handlersStack[k] = handlersStack'[i] /\ handlersStack[l] = handlersStack'[j]
               /\ (i < j <=> k < l) /\ (i > j <=> k > l),
         endpoint' = "alive" => \A h \in due \cup tried : stackOf'[h],
         pushing' \notin due \cup tried
  PROVE  MessageInv'
<1>1. MessageTypes' /\ PushedLater'
  BY DEF MessageInv, MessageTypes, PushedLater
<1>2. PendingOnce'
  <2>1. Pending' = Pending
    BY DEF Pending
  <2> QED
    BY <2>1 DEF MessageInv, PendingOnce
<1>3. ASSUME NEW i \in DOMAIN handlersStack', NEW j \in DOMAIN handlersStack',
             handlersStack'[i] \in due \cup tried, handlersStack'[j] \in due \cup tried
      PROVE  \E k, l \in DOMAIN handlersStack :
               /\ handlersStack[k] = handlersStack'[i] /\ handlersStack[l] = handlersStack'[j]
               /\ MessageStack!Before(i, j)' <=> MessageStack!Before(k, l)
  BY <1>3 DEF MessageStack!Before
<1>4. PendingInOrder'
  <2>1. ASSUME NEW i \in DOMAIN handlersStack', NEW j \in DOMAIN handlersStack',
               MessageStack!Before(i, j)', handlersStack'[j] \in tried,
               handlersStack'[i] \in due \cap alive'
        PROVE  handlersStack'[i] \in tried
    BY <1>3, <2>1 DEF MessageInv, PendingInOrder
  <2>2. ASSUME NEW m \in DOMAIN todo, NEW n \in DOMAIN todo,
               NEW i \in DOMAIN handlersStack', NEW j \in DOMAIN handlersStack',
               m < n, handlersStack'[i] = todo[m], handlersStack'[j] = todo[n]
        PROVE  MessageStack!Before(i, j)'
    <3>1. todo[m] \in due /\ todo[n] \in due
      BY DEF MessageInv, PendingOnce
    <3> QED
      BY <1>3, <2>2, <3>1 DEF MessageInv, PendingInOrder
  <2> QED
    BY <2>1, <2>2 DEF PendingInOrder
<1> QED
  BY <1>1, <1>2, <1>4 DEF MessageInv

(* In the calls and the destructor.                                        *)
LEMMA MessageCalls ==
  ASSUME HandlersInv, MessageInv,
         \/ \E h \in StackHandlers :
              \/ \E c \in Callbacks : MessageStack!SetHandler(h, c)
              \/ MessageStack!ClearHandler(h) \/ MessageStack!DestroyHandlers(h)
         \/ \E top \in BOOLEAN : MessageStack!SetOrder(top)
         \/ MessageStack!Destroy \/ MessageStack!Told \/ MessageStack!Destroyed
         \/ UNCHANGED stackVars
  PROVE  MessageInv'
<1>1. /\ UNCHANGED <<handlersStack, delivered, todo, running, order, due, tried, stackOf, pushing>>
      /\ topDown' \in BOOLEAN /\ alive' \subseteq alive
      /\ endpoint' = "alive" => endpoint = "alive"
  BY DEF MessageStack!SetHandler, MessageStack!ClearHandler, MessageStack!DestroyHandlers,
         MessageStack!SetOrder, MessageStack!Destroy, MessageStack!Told, MessageStack!Destroyed,
         MessageStack!handlerVars, MessageStack!messageVars, MessageStack!historyVars, stackVars,
         MessageInv, MessageTypes
<1>2. \A i, j \in DOMAIN handlersStack : \E k, l \in DOMAIN handlersStack :
        /\ handlersStack[k] = handlersStack[i] /\ handlersStack[l] = handlersStack[j]
        /\ (i < j <=> k < l) /\ (i > j <=> k > l)
  OBVIOUS
<1>3. /\ endpoint = "alive" => \A h \in due \cup tried : stackOf[h]
      /\ pushing \notin due \cup tried
  BY DEF MessageInv, PushedLater
<1> QED
  BY <1>1, <1>2, <1>3, MessageKept

LEMMA MessagePush ==
  ASSUME HandlersInv, MessageInv, NEW h \in StackHandlers, MessageStack!Push(h)
  PROVE  MessageInv'
<1>1. /\ endpoint = "alive" /\ ~stackOf[h] /\ pushing' = h
      /\ stackOf' = [stackOf EXCEPT ![h] = TRUE]
      /\ UNCHANGED <<endpoint, handlersStack, topDown, alive, delivered, todo, running, order, due, tried>>
  BY DEF MessageStack!Push, MessageStack!messageVars, MessageStack!historyVars
<1>2. h \notin due \cup tried
  BY <1>1 DEF MessageInv, PushedLater
<1>3. \A g \in due \cup tried : stackOf'[g]
  BY <1>1, <1>2 DEF MessageInv, MessageTypes, PushedLater, HandlersInv, StackServesTypes
<1>4. \A i, j \in DOMAIN handlersStack : \E k, l \in DOMAIN handlersStack :
        /\ handlersStack[k] = handlersStack[i] /\ handlersStack[l] = handlersStack[j]
        /\ (i < j <=> k < l) /\ (i > j <=> k > l)
  OBVIOUS
<1>5. topDown' \in BOOLEAN
  BY <1>1 DEF MessageInv, MessageTypes
<1> QED
  BY <1>1, <1>2, <1>3, <1>4, <1>5, MessageKept

LEMMA MessagePushed ==
  ASSUME HandlersInv, MessageInv, MessageStack!Pushed
  PROVE  MessageInv'
<1>1. /\ pushing # None /\ pushing' = None
      /\ handlersStack' = Append(handlersStack, pushing)
      /\ UNCHANGED <<endpoint, topDown, alive, stackOf, delivered, todo, running, order, due, tried>>
  BY DEF MessageStack!Pushed, MessageStack!handlerVars, MessageStack!messageVars,
         MessageStack!historyVars
<1>2. /\ DOMAIN handlersStack' = 1 .. Len(handlersStack) + 1
      /\ DOMAIN handlersStack = 1 .. Len(handlersStack) /\ Len(handlersStack) \in Nat
      /\ \A i \in 1 .. Len(handlersStack) : handlersStack'[i] = handlersStack[i]
      /\ handlersStack'[Len(handlersStack) + 1] = pushing
  BY <1>1, Pushed DEF HandlersInv, StackServesTypes
<1>3. pushing \notin due \cup tried /\ None \notin due \cup tried
  BY StackAssumption DEF MessageInv, MessageTypes, PushedLater
<1>4. \A i \in DOMAIN handlersStack' : handlersStack'[i] \in due \cup tried =>
        i \in DOMAIN handlersStack /\ handlersStack[i] = handlersStack'[i]
  BY <1>2, <1>3
<1>5. \A i, j \in DOMAIN handlersStack' :
        handlersStack'[i] \in due \cup tried /\ handlersStack'[j] \in due \cup tried =>
          \E k, l \in DOMAIN handlersStack :
            /\ handlersStack[k] = handlersStack'[i] /\ handlersStack[l] = handlersStack'[j]
            /\ (i < j <=> k < l) /\ (i > j <=> k > l)
  BY <1>4
<1>6. topDown' \in BOOLEAN /\ (endpoint = "alive" => \A h \in due \cup tried : stackOf[h])
  BY <1>1 DEF MessageInv, MessageTypes, PushedLater
<1> QED
  BY <1>1, <1>3, <1>5, <1>6, MessageKept

LEMMA MessageRemoves ==
  ASSUME HandlersInv, MessageInv, NEW h \in StackHandlers, MessageStack!RemoveHandlers(h)
  PROVE  MessageInv'
<1>1. /\ handlersStack' = [i \in DOMAIN handlersStack |->
                             IF handlersStack[i] = h THEN None ELSE handlersStack[i]]
      /\ UNCHANGED <<endpoint, topDown, alive, stackOf, pushing, delivered, todo, running, order,
                     due, tried>>
  BY DEF MessageStack!RemoveHandlers, MessageStack!messageVars, MessageStack!historyVars
<1>2. None \notin due \cup tried
  BY StackAssumption DEF MessageInv, MessageTypes
<1>3. \A i \in DOMAIN handlersStack' : handlersStack'[i] \in due \cup tried =>
        i \in DOMAIN handlersStack /\ handlersStack[i] = handlersStack'[i]
  BY <1>1, <1>2
<1>4. \A i, j \in DOMAIN handlersStack' :
        handlersStack'[i] \in due \cup tried /\ handlersStack'[j] \in due \cup tried =>
          \E k, l \in DOMAIN handlersStack :
            /\ handlersStack[k] = handlersStack'[i] /\ handlersStack[l] = handlersStack'[j]
            /\ (i < j <=> k < l) /\ (i > j <=> k > l)
  BY <1>3
<1>5. /\ topDown' \in BOOLEAN /\ (endpoint = "alive" => \A g \in due \cup tried : stackOf[g])
      /\ pushing \notin due \cup tried
  BY <1>1 DEF MessageInv, MessageTypes, PushedLater
<1> QED
  BY <1>1, <1>4, <1>5, MessageKept

LEMMA MessageTells ==
  ASSUME HandlersInv, MessageInv, MessageStack!Tell
  PROVE  MessageInv'
<1>1. /\ endpoint = "telling" /\ handlersStack # <<>> /\ handlersStack' = Tail(handlersStack)
      /\ UNCHANGED <<endpoint, topDown, alive, pushing, delivered, todo, running, order, due, tried>>
  BY DEF MessageStack!Tell, MessageStack!messageVars, MessageStack!historyVars
<1>2. PICK n \in Nat : /\ DOMAIN handlersStack = 1 .. n + 1
                       /\ DOMAIN handlersStack' = 1 .. n
                       /\ \A i \in 1 .. n : handlersStack'[i] = handlersStack[i + 1]
  BY <1>1, StackTail
<1>3. ASSUME NEW i \in DOMAIN handlersStack', NEW j \in DOMAIN handlersStack'
      PROVE  \E k, l \in DOMAIN handlersStack :
               /\ handlersStack[k] = handlersStack'[i] /\ handlersStack[l] = handlersStack'[j]
               /\ (i < j <=> k < l) /\ (i > j <=> k > l)
  <2>1. /\ i + 1 \in DOMAIN handlersStack /\ j + 1 \in DOMAIN handlersStack
        /\ (i < j <=> i + 1 < j + 1) /\ (i > j <=> i + 1 > j + 1)
    BY <1>2
  <2> QED
    BY <1>2, <2>1
<1>4. topDown' \in BOOLEAN /\ pushing \notin due \cup tried
  BY <1>1 DEF MessageInv, MessageTypes, PushedLater
<1> QED
  BY <1>1, <1>3, <1>4, MessageKept

(* On the way.                                                             *)
LEMMA MessageArrives ==
  ASSUME HandlersInv, MessageInv, MessageStack!HandleMessage
  PROVE  MessageInv'
<1>1. /\ running = None /\ todo = <<>>
      /\ UNCHANGED <<endpoint, handlersStack, topDown, alive, stackOf, pushing, todo, running, order,
                     due, tried>>
  BY DEF MessageStack!HandleMessage, MessageStack!handlerVars, MessageStack!historyVars
<1>2. MessageTypes' /\ PushedLater'
  BY <1>1 DEF MessageInv, MessageTypes, PushedLater
<1>3. PendingOnce' /\ PendingInOrder'
  BY <1>1 DEF MessageInv, PendingOnce, PendingInOrder, Pending, MessageStack!Before
<1> QED
  BY <1>2, <1>3 DEF MessageInv

(* What was cleaned is due in its order, or the other way round.           *)
LEMMA OrderedOnce ==
  ASSUME NEW s \in Seq(StackHandlers), \A m, n \in DOMAIN s : s[m] = s[n] => m = n
  PROVE  LET t == MessageStack!InOrder(s) IN
         /\ t \in Seq(StackHandlers)
         /\ \A m, n \in DOMAIN t : t[m] = t[n] => m = n
         /\ \A m \in DOMAIN t : \E i \in DOMAIN s : s[i] = t[m]
         /\ \A i \in DOMAIN s : \E m \in DOMAIN t : s[i] = t[m]
         /\ \A m, n \in DOMAIN t : \A i, j \in DOMAIN s :
              m < n /\ s[i] = t[m] /\ s[j] = t[n] => IF topDown THEN i > j ELSE i < j
<1>1. PICK l \in Nat : l = Len(s) /\ DOMAIN s = 1 .. l
  BY LenProperties
<1>2. CASE ~topDown
  <2>1. MessageStack!InOrder(s) = s
    BY <1>2 DEF MessageStack!InOrder
  <2> QED
    BY <1>2, <2>1
<1>3. CASE topDown
  <2>1. PICK t : t = [i \in 1 .. l |-> s[l - i + 1]]
    OBVIOUS
  <2>2. MessageStack!InOrder(s) = t
    BY <1>1, <1>3, <2>1 DEF MessageStack!InOrder, MessageStack!Reverse, Reverse
  <2>3. /\ \A i \in 1 .. l : l - i + 1 \in 1 .. l /\ l - (l - i + 1) + 1 = i
        /\ \A i, j \in 1 .. l : l - i + 1 = l - j + 1 => i = j
    OBVIOUS
  <2>4. DOMAIN t = 1 .. l /\ \A i \in 1 .. l : t[i] = s[l - i + 1]
    BY <2>1
  <2>5. t \in Seq(StackHandlers)
    <3>1. \A i \in 1 .. l : s[i] \in StackHandlers
      BY <1>1, ElementOfSeq
    <3>2. t \in [1 .. l -> StackHandlers]
      BY <2>1, <2>3, <3>1
    <3> QED
      BY <3>2, SeqDef
  <2>6. ASSUME NEW m \in 1 .. l, NEW n \in 1 .. l, t[m] = t[n] PROVE m = n
    <3>1. l - m + 1 = l - n + 1
      <4>1. s[l - m + 1] = s[l - n + 1] /\ l - m + 1 \in DOMAIN s /\ l - n + 1 \in DOMAIN s
        BY <1>1, <2>3, <2>4, <2>6
      <4> QED
        BY <4>1
    <3> QED
      BY <2>3, <3>1
  <2>7. \A m \in 1 .. l : \E i \in 1 .. l : s[i] = t[m]
    BY <2>3, <2>4
  <2>8. \A i \in 1 .. l : \E m \in 1 .. l : s[i] = t[m]
    BY <2>3, <2>4
  <2>9. ASSUME NEW m \in 1 .. l, NEW n \in 1 .. l, NEW i \in 1 .. l, NEW j \in 1 .. l,
               m < n, s[i] = t[m], s[j] = t[n]
        PROVE  i > j
    <3>1. \A a \in 1 .. l, b \in 1 .. l : s[a] = s[b] => a = b
      BY <1>1
    <3>2. /\ l - m + 1 \in 1 .. l /\ l - n + 1 \in 1 .. l
          /\ s[i] = s[l - m + 1] /\ s[j] = s[l - n + 1]
      BY <2>3, <2>4, <2>9
    <3>3. i = l - m + 1 /\ j = l - n + 1
      BY <3>1, <3>2
    <3> QED
      BY <2>9, <3>3
  <2>10. /\ \A m, n \in DOMAIN t : t[m] = t[n] => m = n
         /\ \A m \in DOMAIN t : \E i \in DOMAIN s : s[i] = t[m]
         /\ \A i \in DOMAIN s : \E m \in DOMAIN t : s[i] = t[m]
    <3>1. DOMAIN t = 1 .. l /\ DOMAIN s = 1 .. l
      BY <1>1, <2>4
    <3>2. \A m, n \in 1 .. l : t[m] = t[n] => m = n
      BY <2>6
    <3> QED
      BY <2>7, <2>8, <3>1, <3>2, ZenonT(30)
  <2>11. \A m, n \in DOMAIN t : \A i, j \in DOMAIN s :
           m < n /\ s[i] = t[m] /\ s[j] = t[n] => i > j
    BY <1>1, <2>4, <2>9
  <2> QED
    BY <1>3, <2>2, <2>5, <2>10, <2>11
<1> QED
  BY <1>2, <1>3

LEMMA MessageGoesTo ==
  ASSUME HandlersInv, MessageInv, MessageStack!GetHandlers
  PROVE  MessageInv'
<1>1. /\ delivered /\ delivered' = FALSE
      /\ handlersStack' = MessageStack!Cleaned
      /\ todo' = MessageStack!InOrder(MessageStack!Cleaned)
      /\ order' = topDown /\ due' = OnStack \cap alive /\ tried' = {}
      /\ UNCHANGED <<endpoint, topDown, alive, stackOf, pushing, running>>
  BY DEF MessageStack!GetHandlers, MessageStack!handlerVars, MessageStack!ToSet, ToSet, OnStack
<1>2. PICK s : s = MessageStack!Cleaned
  OBVIOUS
<1>3. /\ s \in Seq(StackHandlers \cup {None})
      /\ {s[n] : n \in DOMAIN s} = OnStack \cap alive
      /\ \A m, n \in DOMAIN s : s[m] = s[n] => m = n
  BY <1>2, CleanedKeeps
<1>4. s \in Seq(StackHandlers)
  <2>1. PICK l \in Nat : DOMAIN s = 1 .. l /\ s \in [1 .. l -> StackHandlers \cup {None}]
    BY <1>3, LenProperties
  <2>2. \A i \in 1 .. l : s[i] \in StackHandlers
    BY <1>3, <2>1 DEF HandlersInv, StackServesTypes
  <2>3. s \in [1 .. l -> StackHandlers]
    BY <2>1, <2>2
  <2> QED
    BY <2>3, SeqDef
<1>5. PICK t : t = MessageStack!InOrder(s)
  OBVIOUS
<1>6. /\ t \in Seq(StackHandlers)
      /\ \A m, n \in DOMAIN t : t[m] = t[n] => m = n
      /\ \A m \in DOMAIN t : \E i \in DOMAIN s : s[i] = t[m]
      /\ \A i \in DOMAIN s : \E m \in DOMAIN t : s[i] = t[m]
      /\ \A m, n \in DOMAIN t : \A i, j \in DOMAIN s :
           m < n /\ s[i] = t[m] /\ s[j] = t[n] => IF topDown THEN i > j ELSE i < j
  BY <1>3, <1>4, <1>5, OrderedOnce
<1>7. handlersStack' = s /\ todo' = t /\ running = None
  BY <1>1, <1>2, <1>5 DEF MessageInv, MessageTypes
<1>8. MessageTypes'
  BY <1>1, <1>6, <1>7 DEF MessageInv, MessageTypes, HandlersInv, StackServesTypes
<1>9. PendingOnce'
  <2>1. Pending' = due'
    BY <1>1, <1>3, <1>6, <1>7 DEF Pending
  <2>2. \A n \in DOMAIN todo' : todo'[n] \in Pending'
    BY DEF Pending
  <2> QED
    BY <1>1, <1>6, <1>7, <2>1, <2>2 DEF PendingOnce
<1>10. PendingInOrder'
  BY <1>1, <1>6, <1>7 DEF PendingInOrder, MessageStack!Before
<1>11. PushedLater'
  <2>1. pushing \notin OnStack \cap alive
    BY StackAssumption DEF HandlersInv, StackServesTypes, PlacedOnce
  <2> QED
    BY <1>1, <2>1 DEF PushedLater, HandlersInv, PlacedOnce
<1> QED
  BY <1>8, <1>9, <1>10, <1>11 DEF MessageInv

LEMMA MessageIsReceived ==
  ASSUME HandlersInv, MessageInv, MessageStack!Receive
  PROVE  /\ MessageInv'
         /\ running' = running \/ running'.handlers \notin tried
<1>1. /\ todo # <<>> /\ running = None /\ todo' = Tail(todo)
      /\ tried' = tried \cup {Head(todo)}
      /\ running' = None \/ (running' # None => running'.handlers = Head(todo))
      /\ UNCHANGED <<endpoint, handlersStack, topDown, alive, stackOf, pushing, delivered, order, due>>
  BY DEF MessageStack!Receive
<1>2. todo \in Seq(StackHandlers)
  BY DEF MessageInv, MessageTypes
<1>3. PICK h \in StackHandlers : h = Head(todo) /\ h = todo[1]
  <2>1. Head(todo) \in StackHandlers /\ Head(todo) = todo[1]
    BY <1>1, <1>2, HeadTailProperties, EmptySeq
  <2> QED
    BY <2>1
<1>4. PICK l \in Nat : /\ DOMAIN todo = 1 .. l + 1 /\ DOMAIN todo' = 1 .. l
                       /\ \A n \in 1 .. l : todo'[n] = todo[n + 1]
                       /\ todo' \in Seq(StackHandlers)
  <2>1. /\ Tail(todo) \in Seq(StackHandlers) /\ Len(Tail(todo)) = Len(todo) - 1
        /\ \A n \in 1 .. Len(Tail(todo)) : Tail(todo)[n] = todo[n + 1]
    BY <1>1, <1>2, HeadTailProperties, EmptySeq
  <2>2. Len(todo) \in Nat /\ Len(todo) # 0
    BY <1>1, <1>2, LenProperties, EmptySeq
  <2>3. PICK l \in Nat : Len(todo) = l + 1
    <3>1. Len(todo) - 1 \in Nat /\ Len(todo) = Len(todo) - 1 + 1
      BY <2>2
    <3> QED
      BY <3>1
  <2>4. Len(Tail(todo)) = l
    BY <2>1, <2>3
  <2>5. DOMAIN todo = 1 .. l + 1 /\ DOMAIN Tail(todo) = 1 .. l
    BY <1>2, <2>1, <2>3, <2>4, LenProperties
  <2> QED
    BY <1>1, <2>1, <2>4, <2>5
<1>5. /\ 1 \in 1 .. l + 1
      /\ \A n \in 1 .. l : n + 1 \in 1 .. l + 1 /\ 1 < n + 1 /\ n + 1 # 1
      /\ \A n \in 1 .. l + 1 : n # 1 => \E k \in 1 .. l : n = k + 1
      /\ \A m, n \in 1 .. l : (m + 1 = n + 1 => m = n) /\ (m < n => m + 1 < n + 1)
  <2>1. ASSUME NEW n \in 1 .. l + 1, n # 1 PROVE \E k \in 1 .. l : n = k + 1
    <3>1. n - 1 \in 1 .. l /\ n = n - 1 + 1
      BY <2>1
    <3> QED
      BY <3>1
  <2> QED
    BY <2>1
<1>6. h \in due /\ h \notin tried
  BY <1>3, <1>4, <1>5 DEF MessageInv, PendingOnce
<1>7. MessageTypes'
  BY <1>1, <1>3, <1>4 DEF MessageInv, MessageTypes
<1>8. Pending = Pending' \cup {h}
  <2>1. ASSUME NEW n \in 1 .. l + 1 PROVE todo[n] \in Pending' \cup {h}
    <3>1. CASE n = 1
      BY <1>3, <3>1
    <3>2. CASE n # 1
      <4>1. PICK k \in 1 .. l : n = k + 1
        BY <1>5, <3>2
      <4>2. todo[n] = todo'[k]
        BY <1>4, <4>1
      <4> QED
        BY <1>4, <4>2 DEF Pending
    <3> QED
      BY <3>1, <3>2
  <2>2. ASSUME NEW n \in 1 .. l PROVE todo'[n] \in Pending
    BY <1>4, <1>5 DEF Pending
  <2>3. h \in Pending
    BY <1>3, <1>4, <1>5 DEF Pending
  <2> QED
    BY <1>4, <2>1, <2>2, <2>3 DEF Pending
<1>9. PendingOnce'
  <2>1. \A m, n \in DOMAIN todo' : todo'[m] = todo'[n] => m = n
    BY <1>4, <1>5 DEF MessageInv, PendingOnce
  <2>2. \A n \in DOMAIN todo' : todo'[n] \in due /\ todo'[n] \notin tried /\ todo'[n] # h
    BY <1>3, <1>4, <1>5 DEF MessageInv, PendingOnce
  <2>3. due \cap alive \subseteq tried' \cup Pending'
    BY <1>1, <1>3, <1>8 DEF MessageInv, PendingOnce
  <2>4. running' # None => running'.handlers \in due \cap tried'
    BY <1>1, <1>3, <1>6
  <2> QED
    BY <1>1, <1>3, <2>1, <2>2, <2>3, <2>4 DEF PendingOnce
<1>10. PendingInOrder'
  <2>1. ASSUME NEW i \in DOMAIN handlersStack, NEW j \in DOMAIN handlersStack,
               MessageStack!Before(i, j), handlersStack[j] \in tried',
               handlersStack[i] \in due \cap alive
        PROVE  handlersStack[i] \in tried'
    <3>1. CASE handlersStack[j] \in tried
      BY <1>1, <2>1, <3>1 DEF MessageInv, PendingInOrder
    <3>2. CASE handlersStack[i] \in tried
      BY <1>1, <3>2
    <3>3. CASE handlersStack[j] = h /\ handlersStack[i] \in Pending
      <4>1. PICK n \in 1 .. l + 1 : handlersStack[i] = todo[n]
        BY <1>4, <3>3 DEF Pending
      <4>2. CASE n = 1
        BY <1>1, <1>3, <4>1, <4>2
      <4>3. CASE n # 1
        <5>1. 1 < n
          BY <1>5, <4>3
        <5>2. MessageStack!Before(j, i)
          BY <1>3, <1>4, <1>5, <3>3, <4>1, <5>1 DEF MessageInv, PendingInOrder
        <5>3. PICK k \in Nat : DOMAIN handlersStack = 1 .. k
          BY LenProperties DEF HandlersInv, StackServesTypes
        <5> QED
          BY <2>1, <5>2, <5>3 DEF MessageStack!Before
      <4> QED
        BY <4>2, <4>3
    <3>4. handlersStack[i] \in tried \cup Pending
      BY <2>1 DEF MessageInv, PendingOnce
    <3> QED
      BY <1>1, <1>3, <2>1, <3>1, <3>2, <3>3, <3>4
  <2>2. ASSUME NEW m \in 1 .. l, NEW n \in 1 .. l,
               NEW i \in DOMAIN handlersStack, NEW j \in DOMAIN handlersStack,
               m < n, handlersStack[i] = todo'[m], handlersStack[j] = todo'[n]
        PROVE  MessageStack!Before(i, j)
    <3>1. /\ m + 1 \in DOMAIN todo /\ n + 1 \in DOMAIN todo /\ m + 1 < n + 1
          /\ handlersStack[i] = todo[m + 1] /\ handlersStack[j] = todo[n + 1]
      BY <1>4, <1>5, <2>2
    <3> QED
      BY <3>1 DEF MessageInv, PendingInOrder
  <2>3. \A i, j : MessageStack!Before(i, j)' <=> MessageStack!Before(i, j)
    BY <1>1 DEF MessageStack!Before
  <2> QED
    BY <1>1, <1>4, <2>1, <2>2, <2>3 DEF PendingInOrder
<1>11. PushedLater'
  BY <1>1, <1>3, <1>6 DEF MessageInv, PushedLater
<1>12. running' = running \/ running'.handlers \notin tried
  BY <1>1, <1>3, <1>6
<1> QED
  BY <1>7, <1>9, <1>10, <1>11, <1>12 DEF MessageInv

LEMMA MessageReturns ==
  ASSUME HandlersInv, MessageInv, NEW handled \in BOOLEAN, MessageStack!Returns(handled)
  PROVE  MessageInv'
<1>1. /\ running # None /\ running' = None
      /\ \/ todo' = <<>> /\ due' = {}
         \/ UNCHANGED <<todo, due>>
      /\ UNCHANGED <<endpoint, handlersStack, topDown, alive, stackOf, pushing, delivered, order, tried>>
  BY DEF MessageStack!Returns, MessageStack!Rest
<1>2. ~delivered
  BY <1>1 DEF MessageInv, MessageTypes
<1>3. CASE todo' = <<>> /\ due' = {}
  <2>1. DOMAIN todo' = {} /\ todo' \in Seq(StackHandlers)
    BY <1>3, EmptySeq
  <2>2. MessageTypes' /\ PushedLater'
    BY <1>1, <1>2, <1>3, <2>1 DEF MessageInv, MessageTypes, PushedLater
  <2>3. PendingOnce' /\ PendingInOrder'
    BY <1>1, <1>3, <2>1 DEF PendingOnce, PendingInOrder
  <2> QED
    BY <2>2, <2>3 DEF MessageInv
<1>4. CASE UNCHANGED <<todo, due>>
  <2>1. MessageTypes' /\ PushedLater'
    BY <1>1, <1>2, <1>4 DEF MessageInv, MessageTypes, PushedLater
  <2>2. PendingOnce' /\ PendingInOrder'
    BY <1>1, <1>4 DEF MessageInv, PendingOnce, PendingInOrder, Pending, MessageStack!Before
  <2> QED
    BY <2>1, <2>2 DEF MessageInv
<1> QED
  BY <1>1, <1>3, <1>4

LEMMA MessageNext ==
  ASSUME HandlersInv, MessageInv, [MessageStack!Next]_stackVars
  PROVE  MessageInv'
<1>1. CASE UNCHANGED stackVars
  BY <1>1, MessageCalls
<1>2. CASE MessageStack!Next
  BY <1>2, MessageCalls, MessagePush, MessagePushed, MessageRemoves, MessageTells, MessageArrives,
     MessageGoesTo, MessageIsReceived, MessageReturns DEF MessageStack!Next
<1> QED
  BY <1>1, <1>2

LEMMA MessageTriedOnce ==
  ASSUME HandlersInv, MessageInv, [MessageStack!Next]_stackVars
  PROVE  running' # running /\ running' # None => running'.handlers \notin tried
<1> SUFFICES ASSUME running' # running, running' # None PROVE running'.handlers \notin tried
  OBVIOUS
<1>1. ~UNCHANGED stackVars
  BY DEF stackVars
<1>2. ASSUME NEW h \in StackHandlers,
             \/ \E c \in Callbacks : MessageStack!SetHandler(h, c)
             \/ MessageStack!ClearHandler(h) \/ MessageStack!DestroyHandlers(h)
             \/ MessageStack!Push(h) \/ MessageStack!RemoveHandlers(h)
      PROVE  FALSE
  BY <1>2
  DEF MessageStack!SetHandler, MessageStack!ClearHandler, MessageStack!DestroyHandlers,
      MessageStack!Push, MessageStack!RemoveHandlers, MessageStack!messageVars
<1>3. ASSUME \/ \E top \in BOOLEAN : MessageStack!SetOrder(top)
             \/ MessageStack!Pushed \/ MessageStack!Destroy \/ MessageStack!Tell
             \/ MessageStack!Told \/ MessageStack!Destroyed
             \/ MessageStack!HandleMessage \/ MessageStack!GetHandlers
             \/ \E handled \in BOOLEAN : MessageStack!Returns(handled)
      PROVE  FALSE
  BY <1>3
  DEF MessageStack!SetOrder, MessageStack!Pushed, MessageStack!Destroy, MessageStack!Tell,
      MessageStack!Told, MessageStack!Destroyed, MessageStack!HandleMessage,
      MessageStack!GetHandlers, MessageStack!Returns, MessageStack!messageVars
<1>4. MessageStack!Receive
  BY <1>1, <1>2, <1>3 DEF MessageStack!Next
<1> QED
  BY <1>4, MessageIsReceived

LEMMA MessageHolds == MessageInv => MessageStack!TriedInOrder
<1> SUFFICES ASSUME MessageInv PROVE MessageStack!TriedInOrder
  OBVIOUS
<1>1. todo = <<>> => Pending = {}
  BY DEF Pending
<1> QED
  BY <1>1 DEF MessageStack!TriedInOrder, MessageInv, PendingOnce, PendingInOrder

-----------------------------------------------------------------------------
(* For any handlers and callbacks: a handler on a stack that lives is never *)
(* left without its messages; what runs exists; a callback is there if the *)
(* last call set one, which is then the one that runs; and a message goes  *)
(* to those on the stack when it came, each once and in the order of the   *)
(* type, until one handles it.                                             *)
THEOREM Serves == MCFairSpec => StacksServe
<1> DEFINE Inv == HandlersInv /\ AskedInv /\ MessageInv
<1>1. MCInit => Inv
  <2>1. MessageStack!Init => AskedInv
    BY StackAssumption DEF MessageStack!Init, AskedInv, MessageStack!CallbacksAsked, MessageStack!Runs
  <2> QED
    BY <2>1, HandlersInit, MessageInit DEF MCInit
<1>2. [MCNext]_allVars => [MessageStack!Next]_stackVars
  BY DEF MCNext, allVars
<1>3. Inv /\ [MCNext]_allVars => Inv'
  BY <1>2, StackNext, AskedNext, MessageNext
<1>4. Inv => (component = "stack" =>
                /\ MessageStack!StacksServe /\ MessageStack!StacksExist
                /\ MessageStack!CallbacksAsked /\ MessageStack!TriedInOrder)
  BY StackHolds, MessageHolds DEF AskedInv
<1>5. Inv /\ [MCNext]_allVars =>
        [running' # running /\ running' # None => running'.handlers \notin tried]_(MessageStack!vars)
  BY <1>2, MessageTriedOnce
<1> QED
  BY <1>1, <1>3, <1>4, <1>5, PTL DEF MCFairSpec, StacksServe, MessageStack!TriedOnce

=============================================================================
