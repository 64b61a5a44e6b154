----------------------- MODULE GameStateMachineProofs -----------------------
(***************************************************************************)
(* gb::GameStateMachine for any states and any bounds.  What is active is  *)
(* one branch whatever the callbacks, and other threads, request while the *)
(* lock is released; a request that overtakes the one being processed      *)
(* never leaves a callback without its instance; and every step is one of  *)
(* GameStates, or none.                                                    *)
(***************************************************************************)
EXTENDS GameStateMachine, SequenceTheorems, FiniteSetTheorems, WellFoundedInduction, TLAPS

EndOf(b) == IF b = <<>> THEN NoState ELSE b[Len(b)]
Distinct(b) == \A i, j \in DOMAIN b : b[i] = b[j] => i = j

(* The active states are a branch.                                         *)
BranchInv ==
  /\ Branch \in Branches /\ IsBranch(Branch) /\ Distinct(Branch)
  /\ \A s \in States : active[s] <=> \E i \in DOMAIN Branch : Branch[i] = s
  /\ \A s \in States : ~active[s] => parent[s] = NoState /\ child[s] = NoState
  /\ \A i \in DOMAIN Branch :
       parent[Branch[i]] = IF i = 1 THEN NoState ELSE Branch[i - 1]
  /\ \A s \in States : parent[s] # NoState => parent[s] \in Parents[s]

(* A wanted parent stays active; a wanted state is inactive, or was entered *)
(* below that parent since it was requested.                               *)
WantedInv ==
  /\ ~transition => wanted = NoChange
  /\ wanted[1] # NoState => active[wanted[1]]
  /\ wanted[2] # NoState => wanted[2] \in registered
  /\ wanted[1] # NoState /\ wanted[2] # NoState => wanted[1] \in Parents[wanted[2]]
  /\ \A i, j \in DOMAIN Branch : Branch[i] = wanted[1] /\ Branch[j] = wanted[2] => i < j

Exiting  == {"OnExit", "delete", "OnChildExit"}
Entering == {"validate", "OnChildEnter", "enter"}
Entered  == {"create", "OnInit", "OnEnter"}

(* Where ProcessTransition is on the branch.                                *)
ProcessInv ==
  /\ pc \in {"exit"} \cup Exiting \cup Entering \cup Entered => transition
  /\ pc = "exit" => wanted = processing /\ exiting = EndOf(Branch)
  /\ pc \in Exiting =>
       /\ exiting \in States /\ ~active[exiting]
       /\ exitParent = EndOf(Branch)
  /\ pc \in {"OnExit", "delete"} => exiting \in instance
  /\ pc = "delete" => exiting \notin GlobalStates
  /\ pc = "OnChildExit" => exitParent # NoState
  /\ pc \in Entering =>
       /\ processing[1] = EndOf(Branch)
       /\ processing[2] \in registered /\ ~active[processing[2]]
       /\ processing[1] # NoState => processing[1] \in Parents[processing[2]]
  /\ pc = "OnChildEnter" => processing[1] # NoState
  /\ pc \in Entered =>
       /\ processing[2] \in registered /\ processing[2] = EndOf(Branch)
       /\ parent[processing[2]] = processing[1]
  /\ pc \in {"OnInit", "OnEnter"} => processing[2] \in instance
  /\ ~OtherThreads /\ pc = "validate" => wanted = processing

(* What is active has an instance, the state being created excepted.        *)
InstanceInv ==
  pc # "destroyed" =>
    /\ \A s \in States : active[s] => s \in instance \/ (pc = "create" /\ s = processing[2])
    /\ registered \cap GlobalStates \subseteq instance

(* Where DoUpdate is on the branch: what was updated since the last         *)
(* transition is the branch from the top to its state.                     *)
Upto(n) ==
  /\ n \in 0 .. Len(Branch) /\ Len(updated) = n
  /\ \A i \in 1 .. n : updated[i] = Branch[i]
UpdateInv ==
  /\ pc = "loop" => transition \/ updated = <<>>
  /\ pc \in {"exit"} \cup Exiting \cup Entering \cup Entered => updated = <<>>
  /\ pc = "visit" => \E n \in 0 .. Len(Branch) :
       ~transition /\ Upto(n) /\ cursor = IF n = Len(Branch) THEN NoState ELSE Branch[n + 1]
  /\ pc = "OnUpdate" => \E n \in 1 .. Len(Branch) : Upto(n) /\ cursor = Branch[n]

(* Once it is being destroyed the machine only exits its states.            *)
DyingInv ==
  /\ pc \in {"ending", "destroyed"} => dying
  /\ pc = "destroyed" => ~transition
  /\ QuietDestroy /\ dying =>
       /\ wanted = NoChange
       /\ ~transition => top = NoState
       /\ pc \notin Entering \cup Entered \cup {"idle"}

IInv ==
  /\ TypeOK
  /\ BranchInv
  /\ WantedInv
  /\ ProcessInv
  /\ InstanceInv
  /\ UpdateInv
  /\ DyingInv
-----------------------------------------------------------------------------
(***************************************************************************)
(* Branches                                                                *)
(***************************************************************************)
LEMMA ConstantFacts ==
  /\ IsFiniteSet(States) /\ NoState \notin States /\ GlobalStates \subseteq States
  /\ MaybeStates = States \cup {NoState} /\ Changes = MaybeStates \X MaybeStates
  /\ NoChange = <<NoState, NoState>> /\ NoChange \in Changes
BY GameAssumption DEF MaybeStates, Changes, NoChange

(* A set of numbers that is not empty has a least element.                  *)
LEMMA Least ==
  ASSUME NEW D \in SUBSET Nat, D # {}
  PROVE  \E n \in D : \A m \in D : n <= m
<1>1. PICK n \in D : \A m \in D : ~(<<m, n>> \in OpToRel(<, Nat))
  BY WFMin, NatLessThanWellFounded
<1>2. \A m \in D : ~(m < n)
  BY <1>1 DEF OpToRel
<1> QED
  BY <1>2

LEMMA BranchTypes ==
  ASSUME NEW b \in Branches
  PROVE  /\ b \in Seq(States) /\ Len(b) \in Nat /\ DOMAIN b = 1 .. Len(b)
         /\ Len(b) <= Cardinality(States)
         /\ \A i \in 1 .. Len(b) : b[i] \in States
         /\ b = <<>> <=> Len(b) = 0
<1>1. Cardinality(States) \in Nat
  BY ConstantFacts, FS_CardinalityType
<1>2. PICK n \in 0 .. Cardinality(States) : b \in [1 .. n -> States]
  BY DEF Branches
<1>3. n \in Nat
  BY <1>1, <1>2
<1>4. b \in Seq(States)
  BY <1>2, <1>3, SeqDef
<1>5. DOMAIN b = 1 .. Len(b) /\ Len(b) \in Nat
  BY <1>4, LenProperties
<1>6. Len(b) = n
  BY <1>2, <1>3, <1>4, LenProperties
<1> QED
  BY <1>1, <1>2, <1>4, <1>5, <1>6, EmptySeq

(* A branch ends where another one with the same states does.               *)
LEMMA NotLonger ==
  ASSUME NEW b \in Branches, NEW c \in Branches, IsBranch(b), IsBranch(c),
         \A i \in (1 .. Len(b)) \cap (1 .. Len(c)) : b[i] = c[i]
  PROVE  ~(Len(b) < Len(c))
<1> SUFFICES ASSUME Len(b) < Len(c) PROVE FALSE
  OBVIOUS
<1>1. /\ Len(b) \in Nat /\ Len(c) \in Nat /\ DOMAIN b = 1 .. Len(b) /\ DOMAIN c = 1 .. Len(c)
      /\ b = <<>> <=> Len(b) = 0
      /\ c = <<>> <=> Len(c) = 0
      /\ c[Len(b) + 1] \in States
  BY BranchTypes
<1>2. CASE Len(b) = 0
  BY <1>1, <1>2, ConstantFacts DEF IsBranch
<1>3. CASE Len(b) # 0
  <2>1. Len(b) \in 1 .. Len(b) /\ Len(b) \in 1 .. Len(c) /\ Len(b) # Len(c)
    <3>1. \A m, n \in Nat : m < n /\ m # 0 => m \in 1 .. m /\ m \in 1 .. n /\ m # n
      OBVIOUS
    <3> QED
      BY <1>1, <1>3, <3>1
  <2>2. child[b[Len(b)]] = NoState
    BY <1>1, <2>1 DEF IsBranch
  <2>3. child[c[Len(b)]] = c[Len(b) + 1]
    BY <1>1, <2>1 DEF IsBranch
  <2>4. b[Len(b)] = c[Len(b)]
    BY <2>1
  <2> QED
    BY <1>1, <2>2, <2>3, <2>4, ConstantFacts
<1> QED
  BY <1>2, <1>3

(* There is one branch at most: by the least place where two would differ.  *)
LEMMA OneBranchOnly ==
  ASSUME NEW b \in Branches, NEW c \in Branches, IsBranch(b), IsBranch(c)
  PROVE  b = c
<1>1. /\ b \in Seq(States) /\ c \in Seq(States) /\ Len(b) \in Nat /\ Len(c) \in Nat
      /\ DOMAIN b = 1 .. Len(b) /\ DOMAIN c = 1 .. Len(c)
      /\ b = <<>> <=> Len(b) = 0
      /\ c = <<>> <=> Len(c) = 0
  BY BranchTypes
<1>2. \A i \in (1 .. Len(b)) \cap (1 .. Len(c)) : b[i] = c[i]
  <2> DEFINE D == {i \in (1 .. Len(b)) \cap (1 .. Len(c)) : b[i] # c[i]}
  <2> SUFFICES ASSUME D # {} PROVE FALSE
    OBVIOUS
  <2>1. D \in SUBSET Nat
    BY <1>1
  <2>2. PICK m \in D : \A k \in D : m <= k
    BY <2>1, Least
  <2>3. m \in 1 .. Len(b) /\ m \in 1 .. Len(c) /\ b[m] # c[m]
    BY <2>2
  <2>4. CASE m = 1
    BY <1>1, <2>3, <2>4 DEF IsBranch
  <2>5. CASE m # 1
    <3>1. m - 1 \in 1 .. Len(b) /\ m - 1 \in 1 .. Len(c) /\ m - 1 # Len(b) /\ m - 1 # Len(c)
          /\ m - 1 + 1 = m /\ ~(m <= m - 1)
      BY <1>1, <2>3, <2>5
    <3>2. b[m - 1] = c[m - 1]
      BY <2>2, <3>1
    <3>3. child[b[m - 1]] = b[m]
      BY <1>1, <3>1 DEF IsBranch
    <3>4. child[c[m - 1]] = c[m]
      BY <1>1, <3>1 DEF IsBranch
    <3> QED
      BY <2>3, <3>2, <3>3, <3>4
  <2> QED
    BY <2>4, <2>5
<1>3. ~(Len(b) < Len(c)) /\ ~(Len(c) < Len(b))
  BY <1>2, NotLonger
<1>4. Len(b) = Len(c)
  <2>1. \A m, n \in Nat : ~(m < n) /\ ~(n < m) => m = n
    OBVIOUS
  <2> QED
    BY <1>1, <1>3, <2>1
<1>5. \A i \in 1 .. Len(b) : b[i] = c[i]
  BY <1>2, <1>4
<1> QED
  BY <1>1, <1>4, <1>5, SeqEqual

LEMMA BranchIs == \A b \in Branches : IsBranch(b) => Branch = b
<1> SUFFICES ASSUME NEW b \in Branches, IsBranch(b) PROVE Branch = b
  OBVIOUS
<1>1. Branch \in Branches /\ IsBranch(Branch)
  BY DEF Branch
<1> QED
  BY <1>1, OneBranchOnly

LEMMA BranchIsNext == \A b \in Branches : IsBranch(b)' => Branch' = b
<1>1. (\A b \in Branches : IsBranch(b) => Branch = b)'
  BY BranchIs, PTL
<1> QED
  BY <1>1

(* A branch with a state added, and without its last one.                   *)
LEMMA LongerBranch ==
  ASSUME NEW b \in Branches, Distinct(b), NEW s \in States,
         \A i \in DOMAIN b : b[i] # s
  PROVE  /\ Append(b, s) \in Branches /\ Distinct(Append(b, s))
         /\ Len(Append(b, s)) = Len(b) + 1 /\ Append(b, s) # <<>>
         /\ DOMAIN Append(b, s) = 1 .. Len(b) + 1
         /\ \A i \in 1 .. Len(b) : Append(b, s)[i] = b[i]
         /\ Append(b, s)[Len(b) + 1] = s
<1>1. b \in Seq(States) /\ Len(b) \in Nat /\ DOMAIN b = 1 .. Len(b)
  BY BranchTypes
<1>2. PICK a : a = Append(b, s)
  OBVIOUS
<1>3. /\ a \in Seq(States) /\ Len(a) = Len(b) + 1 /\ a # <<>>
      /\ \A i \in 1 .. Len(b) : a[i] = b[i]
      /\ a[Len(b) + 1] = s
  BY <1>1, <1>2, AppendProperties
<1>4. DOMAIN a = 1 .. Len(b) + 1 /\ a \in [1 .. Len(b) + 1 -> States]
  BY <1>3, LenProperties
<1>5. Distinct(a)
  <2> SUFFICES ASSUME NEW i \in 1 .. Len(b) + 1, NEW j \in 1 .. Len(b) + 1, a[i] = a[j]
               PROVE  i = j
    BY <1>4 DEF Distinct
  <2>1. CASE i \in 1 .. Len(b) /\ j \in 1 .. Len(b)
    BY <1>1, <1>3, <2>1 DEF Distinct
  <2>2. CASE i = Len(b) + 1
    BY <1>1, <1>3, <2>2
  <2>3. CASE j = Len(b) + 1
    BY <1>1, <1>3, <2>3
  <2> QED
    BY <1>1, <2>1, <2>2, <2>3
<1>6. a \in Injection(1 .. Len(b) + 1, States)
  BY <1>4, <1>5 DEF Injection, IsInjective, Distinct
<1>7. Cardinality(1 .. Len(b) + 1) <= Cardinality(States)
  BY <1>6, ConstantFacts, FS_Injection
<1>8. Cardinality(1 .. Len(b) + 1) = Len(b) + 1
  <2>1. Len(b) + 1 \in Int /\ 1 \in Int /\ 1 <= Len(b) + 1
    BY <1>1
  <2> QED
    BY <2>1, <1>1, FS_Interval
<1>9. Len(b) + 1 \in 0 .. Cardinality(States)
  BY <1>1, <1>7, <1>8, ConstantFacts, FS_CardinalityType
<1>10. a \in Branches
  BY <1>4, <1>9 DEF Branches
<1> QED
  BY <1>2, <1>3, <1>4, <1>5, <1>10

LEMMA ShorterBranch ==
  ASSUME NEW b \in Branches, b # <<>>, Distinct(b)
  PROVE  LET f == SubSeq(b, 1, Len(b) - 1) IN
         /\ f \in Branches /\ Distinct(f)
         /\ Len(f) = Len(b) - 1 /\ DOMAIN f = 1 .. Len(b) - 1
         /\ \A i \in 1 .. Len(b) - 1 : f[i] = b[i]
         /\ f = <<>> <=> Len(b) = 1
<1>1. /\ b \in Seq(States) /\ Len(b) \in Nat /\ DOMAIN b = 1 .. Len(b) /\ Len(b) >= 1
      /\ Len(b) <= Cardinality(States)
      /\ \A i \in 1 .. Len(b) : b[i] \in States
  BY BranchTypes
<1>2. PICK f : f = SubSeq(b, 1, Len(b) - 1)
  OBVIOUS
<1>3. /\ f \in Seq(States) /\ Len(f) = Len(b) - 1
      /\ \A i \in 1 .. Len(b) - 1 : f[i] = b[i]
  <2>1. /\ Len(b) - 1 \in Int /\ 1 \in Int /\ \A i \in 1 .. Len(b) - 1 : b[i] \in States
    BY <1>1
  <2>2. /\ f \in Seq(States)
        /\ Len(f) = IF 1 <= Len(b) - 1 THEN Len(b) - 1 - 1 + 1 ELSE 0
        /\ \A i \in 1 .. Len(b) - 1 - 1 + 1 : f[i] = b[1 + i - 1]
    BY <1>2, <2>1, SubSeqProperties
  <2>3. \A n \in Nat : n >= 1 =>
          /\ (IF 1 <= n - 1 THEN n - 1 - 1 + 1 ELSE 0) = n - 1
          /\ n - 1 - 1 + 1 = n - 1
    OBVIOUS
  <2>4. /\ Len(f) = Len(b) - 1
        /\ \A i \in 1 .. Len(b) - 1 : f[i] = b[1 + i - 1]
    BY <1>1, <2>2, <2>3
  <2>5. \A i \in 1 .. Len(b) - 1 : 1 + i - 1 = i
    BY <1>1
  <2> QED
    BY <2>2, <2>4, <2>5
<1>4. DOMAIN f = 1 .. Len(b) - 1 /\ f \in [1 .. Len(b) - 1 -> States]
  BY <1>3, LenProperties
<1>5. Len(b) - 1 \in 0 .. Cardinality(States)
  BY <1>1, ConstantFacts, FS_CardinalityType
<1>6. f \in Branches
  BY <1>4, <1>5 DEF Branches
<1>7. Distinct(f)
  <2> SUFFICES ASSUME NEW i \in 1 .. Len(b) - 1, NEW j \in 1 .. Len(b) - 1, f[i] = f[j]
               PROVE  i = j
    BY <1>4 DEF Distinct
  <2> QED
    BY <1>1, <1>3 DEF Distinct
<1>8. f = <<>> <=> Len(b) = 1
  BY <1>1, <1>3, EmptySeq
<1> QED
  BY <1>2, <1>3, <1>4, <1>6, <1>7, <1>8
-----------------------------------------------------------------------------
(***************************************************************************)
(* What steps do to the branch                                             *)
(***************************************************************************)
TreeTypes ==
  /\ active \in [States -> BOOLEAN]
  /\ parent \in [States -> MaybeStates]
  /\ child \in [States -> MaybeStates]
  /\ top \in MaybeStates

LEMMA SameBranch ==
  ASSUME UNCHANGED treeVars, BranchInv
  PROVE  Branch' = Branch /\ BranchInv'
<1>1. active' = active /\ parent' = parent /\ child' = child /\ top' = top
  BY DEF treeVars
<1>2. Branch' = Branch
  BY <1>1 DEF Branch, IsBranch
<1> QED
  BY <1>1, <1>2 DEF BranchInv, IsBranch

(* The end of the branch is the active state that has no child, and what    *)
(* DeepestChild finds.                                                     *)
LEMMA EndFacts ==
  ASSUME BranchInv, TreeTypes
  PROVE  /\ EndOf(Branch) = NoState <=> Branch = <<>>
         /\ EndOf(Branch) = NoState <=> top = NoState
         /\ Branch # <<>> =>
              /\ EndOf(Branch) \in States /\ active[EndOf(Branch)]
              /\ Len(Branch) \in DOMAIN Branch /\ Branch[Len(Branch)] = EndOf(Branch)
         /\ \A s \in States : active[s] /\ child[s] = NoState <=> s = EndOf(Branch)
<1> USE ConstantFacts
<1>1. PICK b \in Branches : b = Branch
  BY DEF BranchInv
<1>2. /\ b \in Seq(States) /\ Len(b) \in Nat /\ DOMAIN b = 1 .. Len(b)
      /\ \A i \in 1 .. Len(b) : b[i] \in States
      /\ b = <<>> <=> Len(b) = 0
  BY BranchTypes
<1>3. CASE b = <<>>
  <2>1. EndOf(b) = NoState /\ top = NoState
    BY <1>1, <1>3 DEF EndOf, BranchInv, IsBranch
  <2>2. \A s \in States : ~active[s]
    BY <1>1, <1>2, <1>3 DEF BranchInv
  <2> QED
    BY <1>1, <1>3, <2>1, <2>2
<1>4. CASE b # <<>>
  <2>1. Len(b) \in 1 .. Len(b) /\ 1 \in 1 .. Len(b)
    BY <1>2, <1>4
  <2>2. EndOf(b) = b[Len(b)] /\ top = b[1]
    BY <1>1, <1>4 DEF EndOf, BranchInv, IsBranch
  <2>3. EndOf(b) \in States /\ top \in States
    BY <1>2, <2>1, <2>2
  <2>4. active[EndOf(b)] /\ child[EndOf(b)] = NoState
    BY <1>1, <1>2, <2>1, <2>2, <2>3 DEF BranchInv, IsBranch
  <2>5. ASSUME NEW s \in States, active[s], child[s] = NoState
        PROVE  s = EndOf(b)
    <3>1. PICK i \in 1 .. Len(b) : b[i] = s
      BY <1>1, <1>2, <2>5 DEF BranchInv
    <3>2. child[s] = IF i = Len(b) THEN NoState ELSE b[i + 1]
      BY <1>1, <1>2, <3>1 DEF BranchInv, IsBranch
    <3>3. i = Len(b)
      <4> SUFFICES ASSUME i # Len(b) PROVE FALSE
        OBVIOUS
      <4>1. i + 1 \in 1 .. Len(b)
        <5>1. \A n \in Nat : \A k \in 1 .. n : k # n => k + 1 \in 1 .. n
          OBVIOUS
        <5> QED
          BY <1>2, <5>1
      <4> QED
        BY <1>2, <2>5, <3>2, <4>1
    <3> QED
      BY <2>2, <3>1, <3>3
  <2> QED
    BY <1>1, <1>2, <1>4, <2>1, <2>2, <2>3, <2>4, <2>5
<1> QED
  BY <1>3, <1>4

LEMMA DeepestIsEnd ==
  ASSUME BranchInv, TreeTypes
  PROVE  Deepest = EndOf(Branch)
<1>1. CASE top = NoState
  BY <1>1, EndFacts DEF Deepest
<1>2. CASE top # NoState
  <2>1. EndOf(Branch) \in States /\ active[EndOf(Branch)] /\ child[EndOf(Branch)] = NoState
    BY <1>2, EndFacts
  <2>2. \A s \in States : active[s] /\ child[s] = NoState => s = EndOf(Branch)
    BY EndFacts
  <2> QED
    BY <1>2, <2>1, <2>2 DEF Deepest
<1> QED
  BY <1>1, <1>2

(* Exiting the last state of the branch leaves the states above it.         *)
LEMMA DetachBranch ==
  ASSUME BranchInv, TreeTypes, NEW e \in States, e = EndOf(Branch), Detach(e)
  PROVE  /\ Branch' = SubSeq(Branch, 1, Len(Branch) - 1)
         /\ BranchInv' /\ TreeTypes'
         /\ EndOf(Branch)' = parent[e]
         /\ \A s \in States : active'[s] <=> active[s] /\ s # e
         /\ Len(Branch') = Len(Branch) - 1
         /\ DOMAIN Branch' = 1 .. Len(Branch) - 1
         /\ \A i \in 1 .. Len(Branch) - 1 : Branch'[i] = Branch[i]
         /\ Len(Branch) \in Nat /\ DOMAIN Branch = 1 .. Len(Branch) /\ Branch # <<>>
<1> USE ConstantFacts
<1>1. PICK b \in Branches : b = Branch
  BY DEF BranchInv
<1>2. /\ b # <<>> /\ Distinct(b) /\ IsBranch(b) /\ e = b[Len(b)]
      /\ \A i \in DOMAIN b : parent[b[i]] = IF i = 1 THEN NoState ELSE b[i - 1]
      /\ \A s \in States : active[s] <=> \E i \in DOMAIN b : b[i] = s
      /\ \A s \in States : ~active[s] => parent[s] = NoState /\ child[s] = NoState
      /\ \A s \in States : parent[s] # NoState => parent[s] \in Parents[s]
  BY <1>1, EndFacts DEF BranchInv, EndOf
<1>3. /\ Len(b) \in Nat /\ DOMAIN b = 1 .. Len(b)
      /\ \A i \in 1 .. Len(b) : b[i] \in States
      /\ b = <<>> <=> Len(b) = 0
  BY BranchTypes
<1>4. PICK n \in Nat \ {0} : n = Len(b)
  BY <1>2, <1>3
<1>5. PICK f \in Branches : f = SubSeq(b, 1, Len(b) - 1)
  BY <1>2, ShorterBranch
<1>6. /\ Distinct(f) /\ Len(f) = n - 1 /\ DOMAIN f = 1 .. n - 1
      /\ \A i \in 1 .. n - 1 : f[i] = b[i]
      /\ f = <<>> <=> n = 1
  BY <1>2, <1>4, <1>5, ShorterBranch
<1>7. \A i, j \in 1 .. n : b[i] = b[j] => i = j
  BY <1>2, <1>3, <1>4 DEF Distinct
<1>8. /\ b[n] = e /\ n \in 1 .. n /\ DOMAIN b = 1 .. n
      /\ \A i \in 1 .. n : b[i] \in States
  BY <1>2, <1>3, <1>4
<1>9. parent[e] = IF n = 1 THEN NoState ELSE b[n - 1]
  BY <1>2, <1>8
<1>10. /\ active' = [active EXCEPT ![e] = FALSE]
       /\ parent' = [parent EXCEPT ![e] = NoState]
       /\ child' = IF n = 1 THEN child ELSE [child EXCEPT ![b[n - 1]] = NoState]
       /\ top' = IF n = 1 THEN NoState ELSE top
  <2>1. n # 1 => b[n - 1] \in States
    BY <1>8
  <2> QED
    BY <1>9, <2>1 DEF Detach
<1>11. TreeTypes'
  BY <1>10 DEF TreeTypes
<1>12. \A s \in States : active'[s] <=> active[s] /\ s # e
  BY <1>10 DEF TreeTypes
<1>13. IsBranch(f)'
  <2>1. top' = IF f = <<>> THEN NoState ELSE f[1]
    <3>1. n # 1 => 1 \in 1 .. n - 1
      OBVIOUS
    <3> QED
      BY <1>2, <1>6, <1>10, <3>1 DEF IsBranch
  <2>2. ASSUME NEW i \in 1 .. n - 1
        PROVE  child'[f[i]] = IF i = n - 1 THEN NoState ELSE f[i + 1]
    <3>1. /\ i \in 1 .. n /\ i + 1 \in 1 .. n /\ i # n /\ n # 1 /\ n - 1 \in 1 .. n
          /\ i # n - 1 => i + 1 \in 1 .. n - 1
      BY <2>2
    <3>2. child[b[i]] = b[i + 1]
      BY <1>2, <1>4, <1>8, <3>1 DEF IsBranch
    <3>3. b[i] = b[n - 1] <=> i = n - 1
      BY <1>7, <3>1
    <3>4. child'[b[i]] = IF i = n - 1 THEN NoState ELSE child[b[i]]
      BY <1>8, <1>10, <3>1, <3>3 DEF TreeTypes
    <3> QED
      BY <1>6, <3>1, <3>2, <3>4
  <2> QED
    BY <1>6, <2>1, <2>2 DEF IsBranch
<1>14. Branch' = f
  BY <1>13, BranchIsNext
<1>15. \A s \in States : active'[s] <=> \E i \in 1 .. n - 1 : f[i] = s
  <2> SUFFICES ASSUME NEW s \in States
               PROVE  active'[s] <=> \E i \in 1 .. n - 1 : b[i] = s
    BY <1>6
  <2>1. active[s] <=> \E i \in 1 .. n : b[i] = s
    BY <1>2, <1>8
  <2>2. \A i \in 1 .. n : i \in 1 .. n - 1 <=> i # n
    OBVIOUS
  <2>3. \A i \in 1 .. n - 1 : i \in 1 .. n
    OBVIOUS
  <2> QED
    BY <1>7, <1>8, <1>12, <2>1, <2>2, <2>3
<1>16. \A s \in States : ~active'[s] => parent'[s] = NoState /\ child'[s] = NoState
  <2> SUFFICES ASSUME NEW s \in States, ~active'[s]
               PROVE  parent'[s] = NoState /\ child'[s] = NoState
    OBVIOUS
  <2>1. CASE s = e
    <3>1. child[e] = NoState
      BY <1>1, <2>1, EndFacts
    <3>2. n # 1 => b[n - 1] # e
      BY <1>7, <1>8
    <3> QED
      BY <1>10, <2>1, <3>1, <3>2 DEF TreeTypes
  <2>2. CASE s # e
    <3>1. parent[s] = NoState /\ child[s] = NoState
      BY <1>2, <1>12, <2>2
    <3> QED
      BY <1>10, <2>2, <3>1 DEF TreeTypes
  <2> QED
    BY <2>1, <2>2
<1>17. \A i \in 1 .. n - 1 : parent'[f[i]] = IF i = 1 THEN NoState ELSE f[i - 1]
  <2> SUFFICES ASSUME NEW i \in 1 .. n - 1
               PROVE  parent'[f[i]] = IF i = 1 THEN NoState ELSE f[i - 1]
    OBVIOUS
  <2>1. i \in 1 .. n /\ i # n /\ (i # 1 => i - 1 \in 1 .. n - 1)
    OBVIOUS
  <2>2. b[i] # e
    BY <1>7, <1>8, <2>1
  <2>3. parent'[b[i]] = parent[b[i]]
    BY <1>8, <1>10, <2>1, <2>2 DEF TreeTypes
  <2>4. parent[b[i]] = IF i = 1 THEN NoState ELSE b[i - 1]
    BY <1>2, <1>8, <2>1
  <2> QED
    BY <1>6, <2>1, <2>3, <2>4
<1>18. \A s \in States : parent'[s] # NoState => parent'[s] \in Parents[s]
  BY <1>2, <1>10 DEF TreeTypes
<1>19. BranchInv'
  BY <1>6, <1>13, <1>14, <1>15, <1>16, <1>17, <1>18 DEF BranchInv
<1>20. EndOf(Branch)' = parent[e]
  <2>1. n # 1 => n - 1 \in 1 .. n - 1
    OBVIOUS
  <2> QED
    BY <1>6, <1>9, <1>14, <2>1 DEF EndOf
<1> QED
  BY <1>1, <1>2, <1>4, <1>5, <1>6, <1>8, <1>11, <1>12, <1>14, <1>19, <1>20

(* A state is entered below the last one of the branch.                     *)
LEMMA AttachBranch ==
  ASSUME BranchInv, TreeTypes, NEW s \in States, ~active[s],
         NEW p, p = EndOf(Branch), p # NoState => p \in Parents[s],
         active' = [active EXCEPT ![s] = TRUE],
         parent' = [parent EXCEPT ![s] = p],
         IF p # NoState THEN child' = [child EXCEPT ![p] = s] /\ top' = top
                        ELSE top' = s /\ child' = child
  PROVE  /\ Branch' = Append(Branch, s)
         /\ BranchInv' /\ TreeTypes'
         /\ EndOf(Branch)' = s /\ parent'[s] = p
         /\ \A r \in States : active'[r] <=> active[r] \/ r = s
         /\ Len(Branch') = Len(Branch) + 1
         /\ DOMAIN Branch' = 1 .. Len(Branch) + 1
         /\ \A i \in 1 .. Len(Branch) : Branch'[i] = Branch[i]
         /\ Branch'[Len(Branch) + 1] = s
         /\ Len(Branch) \in Nat /\ DOMAIN Branch = 1 .. Len(Branch)
<1> USE ConstantFacts
<1>1. PICK b \in Branches : b = Branch
  BY DEF BranchInv
<1>2. /\ Distinct(b) /\ IsBranch(b)
      /\ \A i \in DOMAIN b : parent[b[i]] = IF i = 1 THEN NoState ELSE b[i - 1]
      /\ \A r \in States : active[r] <=> \E i \in DOMAIN b : b[i] = r
      /\ \A r \in States : ~active[r] => parent[r] = NoState /\ child[r] = NoState
      /\ \A r \in States : parent[r] # NoState => parent[r] \in Parents[r]
  BY <1>1 DEF BranchInv
<1>3. /\ b = <<>> <=> Len(b) = 0
      /\ Len(b) \in Nat
  BY BranchTypes
<1>4. PICK n \in Nat : n = Len(b)
  BY <1>3
<1>5. /\ DOMAIN b = 1 .. n
      /\ \A i \in 1 .. n : b[i] \in States /\ b[i] # s
      /\ p = IF n = 0 THEN NoState ELSE b[n]
      /\ n # 0 => n \in 1 .. n
  <2>1. DOMAIN b = 1 .. n /\ \A i \in 1 .. n : b[i] \in States
    BY <1>4, BranchTypes
  <2>2. \A i \in 1 .. n : b[i] # s
    BY <1>2, <2>1
  <2>3. p = IF n = 0 THEN NoState ELSE b[n]
    BY <1>1, <1>3, <1>4 DEF EndOf
  <2> QED
    BY <2>1, <2>2, <2>3
<1>6. PICK a \in Branches : a = Append(b, s)
  BY <1>2, <1>5, LongerBranch, ZenonT(60)
<1>7. /\ Distinct(a) /\ Len(a) = n + 1 /\ DOMAIN a = 1 .. n + 1 /\ a # <<>>
      /\ \A i \in 1 .. n : a[i] = b[i]
      /\ a[n + 1] = s
  BY <1>2, <1>4, <1>5, <1>6, LongerBranch
<1>8. \A i, j \in 1 .. n : b[i] = b[j] => i = j
  BY <1>2, <1>5 DEF Distinct
<1>9. p # NoState <=> n # 0
  BY <1>5
<1>10. /\ child' = IF n = 0 THEN child ELSE [child EXCEPT ![b[n]] = s]
       /\ top' = IF n = 0 THEN s ELSE top
  BY <1>5, <1>9
<1>11. TreeTypes'
  BY <1>5, <1>10 DEF TreeTypes
<1>12. \A r \in States : active'[r] <=> active[r] \/ r = s
  BY DEF TreeTypes
<1>13. child[s] = NoState /\ parent[s] = NoState
  BY <1>2
<1>14. IsBranch(a)'
  <2>1. top' = a[1]
    <3>1. n # 0 => 1 \in 1 .. n
      OBVIOUS
    <3>2. top = IF n = 0 THEN NoState ELSE b[1]
      BY <1>2, <1>3, <1>4 DEF IsBranch
    <3>3. CASE n = 0
      BY <1>7, <1>10, <3>3
    <3>4. CASE n # 0
      BY <1>7, <1>10, <3>1, <3>2, <3>4
    <3> QED
      BY <3>3, <3>4
  <2>2. ASSUME NEW i \in 1 .. n + 1
        PROVE  child'[a[i]] = IF i = n + 1 THEN NoState ELSE a[i + 1]
    <3>1. CASE i = n + 1
      <4>1. n # 0 => b[n] # s
        BY <1>5
      <4> QED
        BY <1>7, <1>10, <1>13, <3>1, <4>1 DEF TreeTypes
    <3>2. CASE i # n + 1
      <4>1. i \in 1 .. n /\ n # 0 /\ (i # n => i + 1 \in 1 .. n)
        BY <3>2
      <4>2. child[b[i]] = IF i = n THEN NoState ELSE b[i + 1]
        BY <1>2, <1>4, <1>5, <4>1 DEF IsBranch
      <4>3. b[i] = b[n] <=> i = n
        BY <1>5, <1>8, <4>1
      <4>4. child'[b[i]] = IF i = n THEN s ELSE child[b[i]]
        BY <1>5, <1>10, <4>1, <4>3 DEF TreeTypes
      <4> QED
        BY <1>7, <3>2, <4>1, <4>2, <4>4
    <3> QED
      BY <3>1, <3>2
  <2> QED
    BY <1>7, <2>1, <2>2 DEF IsBranch
<1>15. Branch' = a
  BY <1>14, BranchIsNext
<1>16. \A r \in States : active'[r] <=> \E i \in 1 .. n + 1 : a[i] = r
  <2> SUFFICES ASSUME NEW r \in States
               PROVE  active'[r] <=> \E i \in 1 .. n + 1 : a[i] = r
    OBVIOUS
  <2>1. active[r] <=> \E i \in 1 .. n : b[i] = r
    BY <1>2, <1>5
  <2>2. /\ \A i \in 1 .. n + 1 : i = n + 1 \/ i \in 1 .. n
        /\ \A i \in 1 .. n : i \in 1 .. n + 1
        /\ n + 1 \in 1 .. n + 1
    OBVIOUS
  <2> QED
    BY <1>7, <1>12, <2>1, <2>2
<1>17. \A r \in States : ~active'[r] => parent'[r] = NoState /\ child'[r] = NoState
  <2> SUFFICES ASSUME NEW r \in States, ~active'[r]
               PROVE  parent'[r] = NoState /\ child'[r] = NoState
    OBVIOUS
  <2>1. ~active[r] /\ r # s
    BY <1>12
  <2>2. n # 0 => active[b[n]] /\ b[n] # r
    BY <1>2, <1>5, <2>1
  <2> QED
    BY <1>2, <1>10, <2>1, <2>2 DEF TreeTypes
<1>18. \A i \in 1 .. n + 1 : parent'[a[i]] = IF i = 1 THEN NoState ELSE a[i - 1]
  <2> SUFFICES ASSUME NEW i \in 1 .. n + 1
               PROVE  parent'[a[i]] = IF i = 1 THEN NoState ELSE a[i - 1]
    OBVIOUS
  <2>1. CASE i = n + 1
    <3>1. parent'[a[i]] = p
      BY <1>7, <2>1 DEF TreeTypes
    <3>2. i = 1 <=> n = 0
      BY <2>1
    <3>3. i - 1 = n
      BY <2>1
    <3> QED
      BY <1>5, <1>7, <3>1, <3>2, <3>3
  <2>2. CASE i # n + 1
    <3>1. i \in 1 .. n /\ (i # 1 => i - 1 \in 1 .. n)
      BY <2>2
    <3>2. parent[b[i]] = IF i = 1 THEN NoState ELSE b[i - 1]
      BY <1>2, <1>5, <3>1
    <3>3. parent'[b[i]] = parent[b[i]]
      BY <1>5, <3>1 DEF TreeTypes
    <3> QED
      BY <1>7, <3>1, <3>2, <3>3
  <2> QED
    BY <2>1, <2>2
<1>19. \A r \in States : parent'[r] # NoState => parent'[r] \in Parents[r]
  BY <1>2 DEF TreeTypes
<1>20. BranchInv'
  <2>1. IsBranch(Branch)'
    BY <1>14, <1>15 DEF IsBranch
  <2>2. DOMAIN Branch' = 1 .. n + 1 /\ Branch' \in Branches /\ Distinct(Branch')
    BY <1>7, <1>15
  <2>3. \A i \in 1 .. n + 1 :
          parent'[Branch'[i]] = IF i = 1 THEN NoState ELSE Branch'[i - 1]
    BY <1>15, <1>18
  <2>4. \A r \in States : active'[r] <=> \E i \in 1 .. n + 1 : Branch'[i] = r
    BY <1>15, <1>16
  <2> QED
    BY <1>17, <1>19, <2>1, <2>2, <2>3, <2>4 DEF BranchInv
<1>21. EndOf(Branch)' = s /\ parent'[s] = p
  BY <1>7, <1>15 DEF EndOf, TreeTypes
<1> QED
  BY <1>1, <1>4, <1>5, <1>6, <1>7, <1>11, <1>12, <1>15, <1>20, <1>21

-----------------------------------------------------------------------------
(***************************************************************************)
(* The invariant                                                           *)
(***************************************************************************)
LEMMA Still ==
  ASSUME IInv, UNCHANGED treeVars
  PROVE  /\ BranchInv' /\ TreeTypes /\ TreeTypes' /\ Branch' = Branch
         /\ EndOf(Branch)' = EndOf(Branch)
         /\ active' = active /\ parent' = parent /\ child' = child /\ top' = top
<1>1. active' = active /\ parent' = parent /\ child' = child /\ top' = top
  BY DEF treeVars
<1> QED
  BY <1>1, SameBranch DEF IInv, TypeOK, TreeTypes, EndOf

LEMMA InBranch ==
  ASSUME IInv
  PROVE  /\ TreeTypes
         /\ \A i \in DOMAIN Branch : Branch[i] \in States /\ active[Branch[i]]
         /\ EndOf(Branch) \in MaybeStates
<1>1. TreeTypes
  BY DEF IInv, TypeOK, TreeTypes
<1>2. \A i \in DOMAIN Branch : Branch[i] \in States
  BY BranchTypes DEF IInv, BranchInv
<1>3. \A i \in DOMAIN Branch : active[Branch[i]]
  BY <1>2 DEF IInv, BranchInv
<1> QED
  BY <1>1, <1>2, <1>3, EndFacts, ConstantFacts DEF IInv

(* From the top of the branch along the children.                           *)
LEMMA Walk ==
  ASSUME IInv
  PROVE  /\ top = NoState => \A s \in States : ~active[s]
         /\ Len(Branch) \in Nat /\ DOMAIN Branch = 1 .. Len(Branch)
         /\ top = IF Len(Branch) = 0 THEN NoState ELSE Branch[1]
         /\ \A i \in 1 .. Len(Branch) :
              /\ Branch[i] \in States /\ active[Branch[i]]
              /\ child[Branch[i]] = IF i = Len(Branch) THEN NoState ELSE Branch[i + 1]
<1> USE ConstantFacts
<1>1. PICK b \in Branches : b = Branch
  BY DEF IInv, BranchInv
<1>2. PICK n \in Nat : n = Len(b)
  BY BranchTypes
<1>3. /\ DOMAIN b = 1 .. n /\ (b = <<>> <=> n = 0)
      /\ \A i \in 1 .. n : b[i] \in States /\ active[b[i]]
  BY <1>1, <1>2, InBranch, BranchTypes
<1>4. IsBranch(b) /\ \A s \in States : active[s] <=> \E i \in DOMAIN b : b[i] = s
  BY <1>1 DEF IInv, BranchInv
<1>5. top = IF n = 0 THEN NoState ELSE b[1]
  BY <1>3, <1>4 DEF IsBranch
<1>6. \A i \in 1 .. n : child[b[i]] = IF i = n THEN NoState ELSE b[i + 1]
  BY <1>2, <1>3, <1>4 DEF IsBranch
<1>7. top = NoState => \A s \in States : ~active[s]
  <2>1. n # 0 => 1 \in 1 .. n /\ b[1] \in States
    BY <1>3
  <2> QED
    BY <1>3, <1>4, <1>5, <2>1
<1> QED
  BY <1>1, <1>2, <1>3, <1>5, <1>6, <1>7

LEMMA BranchLen ==
  ASSUME IInv
  PROVE  Len(Branch) \in Nat
BY Walk

LEMMA UptoStill ==
  ASSUME UNCHANGED updated, Branch' = Branch, NEW n
  PROVE  Upto(n)' <=> Upto(n)
BY DEF Upto

(* What OnUpdate is called for, or is to be, is active.                     *)
LEMMA CursorIsActive ==
  ASSUME IInv, pc = "OnUpdate" \/ (pc = "visit" /\ cursor # NoState)
  PROVE  cursor \in States /\ active[cursor]
<1>1. \E n \in 1 .. Len(Branch) : cursor = Branch[n]
  BY Walk DEF IInv, UpdateInv
<1> QED
  BY <1>1, Walk

LEMMA InvRegister ==
  ASSUME IInv, NEW s \in States, Register(s)
  PROVE  IInv'
<1> USE ConstantFacts DEF Callbacks, Unlocked, Locked, Exiting, Entering, Entered
<1>1. /\ BranchInv' /\ TreeTypes /\ TreeTypes' /\ Branch' = Branch
      /\ EndOf(Branch)' = EndOf(Branch)
      /\ active' = active /\ parent' = parent /\ child' = child /\ top' = top
  BY Still DEF Register
<1>2. TypeOK'
  BY <1>1 DEF requestVars, localVars, Goto, Callbacks, Unlocked, Locked, Register, IInv, TypeOK, TreeTypes
<1>3. WantedInv'
  BY <1>1 DEF requestVars, localVars, Goto, Callbacks, Unlocked, Locked, Register, IInv, TypeOK, WantedInv
<1>4. ProcessInv'
  BY <1>1 DEF requestVars, localVars, Goto, Callbacks, Unlocked, Locked, Register, IInv, TypeOK, ProcessInv
<1>5. InstanceInv'
  BY <1>1 DEF requestVars, localVars, Goto, Callbacks, Unlocked, Locked, Register, IInv, TypeOK, InstanceInv
<1>6. UpdateInv'
  <2>1. UNCHANGED <<pc, cursor, updated, transition>>
    BY DEF Register, requestVars, localVars
  <2>2. \A n : Upto(n)' <=> Upto(n)
    BY <1>1, <2>1, UptoStill
  <2> QED
    BY <1>1, <2>1, <2>2 DEF IInv, UpdateInv
<1>7. DyingInv'
  BY <1>1 DEF requestVars, localVars, Goto, Callbacks, Unlocked, Locked, Register, IInv, TypeOK, DyingInv
<1> QED
  BY <1>1, <1>2, <1>3, <1>4, <1>5, <1>6, <1>7 DEF IInv

LEMMA InvUpdate ==
  ASSUME IInv, Update
  PROVE  IInv'
<1> USE ConstantFacts DEF Callbacks, Unlocked, Locked, Exiting, Entering, Entered
<1>1. /\ BranchInv' /\ TreeTypes /\ TreeTypes' /\ Branch' = Branch
      /\ EndOf(Branch)' = EndOf(Branch)
      /\ active' = active /\ parent' = parent /\ child' = child /\ top' = top
  BY Still DEF Update
<1>2. TypeOK'
  BY <1>1 DEF requestVars, localVars, Goto, Callbacks, Unlocked, Locked, Update, IInv, TypeOK, TreeTypes
<1>3. WantedInv'
  BY <1>1 DEF requestVars, localVars, Goto, Callbacks, Unlocked, Locked, Update, IInv, TypeOK, WantedInv
<1>4. ProcessInv'
  BY <1>1 DEF requestVars, localVars, Goto, Callbacks, Unlocked, Locked, Update, IInv, TypeOK, ProcessInv
<1>5. InstanceInv'
  BY <1>1 DEF requestVars, localVars, Goto, Callbacks, Unlocked, Locked, Update, IInv, TypeOK, InstanceInv
<1>6. UpdateInv'
  BY <1>1 DEF requestVars, localVars, Goto, Callbacks, Unlocked, Locked, Update, IInv, TypeOK, UpdateInv
<1>7. DyingInv'
  BY <1>1 DEF requestVars, localVars, Goto, Callbacks, Unlocked, Locked, Update, IInv, TypeOK, DyingInv
<1> QED
  BY <1>1, <1>2, <1>3, <1>4, <1>5, <1>6, <1>7 DEF IInv

LEMMA InvLoop ==
  ASSUME IInv, Loop
  PROVE  IInv'
<1> USE ConstantFacts DEF Callbacks, Unlocked, Locked, Exiting, Entering, Entered
<1>1. /\ BranchInv' /\ TreeTypes /\ TreeTypes' /\ Branch' = Branch
      /\ EndOf(Branch)' = EndOf(Branch)
      /\ active' = active /\ parent' = parent /\ child' = child /\ top' = top
  BY Still DEF Loop
<1>8. Deepest = EndOf(Branch)
  BY <1>1, DeepestIsEnd DEF IInv
<1>2. TypeOK'
  <2>1. updated' \in Seq(States)
    <3>1. updated' = <<>> \/ updated' = updated
      BY DEF Loop
    <3>2. <<>> \in Seq(States) /\ updated \in Seq(States)
      BY EmptySeq DEF IInv, TypeOK
    <3> QED
      BY <3>1, <3>2
  <2>2. processing' \in Changes /\ exiting' \in MaybeStates /\ cursor' \in MaybeStates
    BY <1>8, InBranch DEF Loop, IInv, TypeOK
  <2>3. pc' \in {"exit", "visit"}
    BY DEF Loop, Goto
  <2>4. UNCHANGED <<registered, instance, transition, wanted, exitParent, dying>>
    BY DEF Loop, requestVars
  <2> QED
    BY <1>1, <2>1, <2>2, <2>3, <2>4 DEF IInv, TypeOK, TreeTypes
<1>3. WantedInv'
  BY <1>1 DEF requestVars, localVars, Goto, Callbacks, Unlocked, Locked, Loop, IInv, TypeOK, WantedInv
<1>4. ProcessInv'
  BY <1>1, <1>8 DEF requestVars, Goto, Loop, IInv, ProcessInv
<1>5. InstanceInv'
  BY <1>1 DEF requestVars, localVars, Goto, Callbacks, Unlocked, Locked, Loop, IInv, TypeOK, InstanceInv
<1>6. UpdateInv'
  <2>1. CASE transition
    <3>1. updated' = <<>> /\ pc' = "exit"
      BY <2>1 DEF Goto, Loop
    <3> QED
      BY <3>1 DEF UpdateInv
  <2>2. CASE ~transition
    <3>1. /\ updated = <<>> /\ updated' = <<>> /\ pc' = "visit" /\ cursor' = top
          /\ ~transition'
      BY <2>2 DEF Goto, Loop, IInv, UpdateInv, requestVars
    <3>2. Len(Branch) \in Nat /\ top = IF 0 = Len(Branch) THEN NoState ELSE Branch[0 + 1]
      <4>1. top = IF Len(Branch) = 0 THEN NoState ELSE Branch[1]
        BY Walk
      <4>2. 0 + 1 = 1
        OBVIOUS
      <4> QED
        BY <4>1, <4>2, BranchLen
    <3>3. Upto(0)'
      BY <1>1, <3>1, <3>2 DEF Upto
    <3> QED
      BY <1>1, <3>1, <3>2, <3>3 DEF UpdateInv
  <2> QED
    BY <2>1, <2>2
<1>7. DyingInv'
  BY <1>1 DEF requestVars, localVars, Goto, Callbacks, Unlocked, Locked, Loop, IInv, TypeOK, DyingInv
<1> QED
  BY <1>1, <1>2, <1>3, <1>4, <1>5, <1>6, <1>7 DEF IInv

LEMMA InvVisit ==
  ASSUME IInv, Visit
  PROVE  IInv'
<1> USE ConstantFacts DEF Callbacks, Unlocked, Locked, Exiting, Entering, Entered
<1>1. /\ BranchInv' /\ TreeTypes /\ TreeTypes' /\ Branch' = Branch
      /\ EndOf(Branch)' = EndOf(Branch)
      /\ active' = active /\ parent' = parent /\ child' = child /\ top' = top
  BY Still DEF Visit
<1>2. TypeOK'
  BY <1>1, CursorIsActive DEF requestVars, localVars, Goto, Callbacks, Unlocked, Locked, Visit, IInv, TypeOK, TreeTypes
<1>3. WantedInv'
  BY <1>1 DEF requestVars, localVars, Goto, Callbacks, Unlocked, Locked, Visit, IInv, TypeOK, WantedInv
<1>4. ProcessInv'
  BY <1>1 DEF requestVars, localVars, Goto, Callbacks, Unlocked, Locked, Visit, IInv, TypeOK, ProcessInv
<1>5. InstanceInv'
  BY <1>1 DEF requestVars, localVars, Goto, Callbacks, Unlocked, Locked, Visit, IInv, TypeOK, InstanceInv
<1>6. UpdateInv'
  <2>1. /\ pc = "visit" /\ cursor # NoState /\ pc' = "OnUpdate" /\ cursor' = cursor
        /\ updated' = Append(updated, cursor)
    BY DEF Visit, Goto, localVars
  <2>2. PICK n \in 0 .. Len(Branch) :
          Upto(n) /\ cursor = IF n = Len(Branch) THEN NoState ELSE Branch[n + 1]
    BY <2>1 DEF IInv, UpdateInv
  <2>3. n + 1 \in 1 .. Len(Branch) /\ cursor = Branch[n + 1]
    BY <2>1, <2>2, BranchLen
  <2>4. updated \in Seq(States) /\ cursor \in States
    BY <2>1, CursorIsActive DEF IInv, TypeOK
  <2>5. /\ Len(updated') = n + 1 /\ updated'[n + 1] = cursor
        /\ \A i \in 1 .. n : updated'[i] = updated[i]
    BY <2>1, <2>2, <2>4 DEF Upto
  <2>6. Upto(n + 1)'
    BY <1>1, <2>2, <2>3, <2>5, BranchLen DEF Upto
  <2> QED
    BY <1>1, <2>1, <2>3, <2>6 DEF UpdateInv
<1>7. DyingInv'
  BY <1>1 DEF requestVars, localVars, Goto, Callbacks, Unlocked, Locked, Visit, IInv, TypeOK, DyingInv
<1> QED
  BY <1>1, <1>2, <1>3, <1>4, <1>5, <1>6, <1>7 DEF IInv

LEMMA InvUpdateReturns ==
  ASSUME IInv, UpdateReturns
  PROVE  IInv'
<1> USE ConstantFacts DEF Callbacks, Unlocked, Locked, Exiting, Entering, Entered
<1>1. /\ BranchInv' /\ TreeTypes /\ TreeTypes' /\ Branch' = Branch
      /\ EndOf(Branch)' = EndOf(Branch)
      /\ active' = active /\ parent' = parent /\ child' = child /\ top' = top
  BY Still DEF UpdateReturns
<1>8. cursor \in States /\ active[cursor] /\ child[cursor] \in MaybeStates
  BY <1>1, CursorIsActive DEF UpdateReturns, TreeTypes
<1>2. TypeOK'
  BY <1>1, <1>8 DEF requestVars, localVars, Goto, Callbacks, Unlocked, Locked, UpdateReturns, IInv, TypeOK, TreeTypes
<1>3. WantedInv'
  BY <1>1 DEF requestVars, localVars, Goto, Callbacks, Unlocked, Locked, UpdateReturns, IInv, TypeOK, WantedInv
<1>4. ProcessInv'
  BY <1>1 DEF requestVars, localVars, Goto, Callbacks, Unlocked, Locked, UpdateReturns, IInv, TypeOK, ProcessInv
<1>5. InstanceInv'
  BY <1>1 DEF requestVars, localVars, Goto, Callbacks, Unlocked, Locked, UpdateReturns, IInv, TypeOK, InstanceInv
<1>6. UpdateInv'
  <2>1. CASE transition
    <3>1. transition' /\ pc' = "loop"
      BY <2>1 DEF Goto, UpdateReturns, requestVars
    <3> QED
      BY <3>1 DEF UpdateInv
  <2>2. CASE ~transition
    <3>1. /\ pc' = "visit" /\ cursor' = child[cursor] /\ updated' = updated
          /\ ~transition' /\ pc = "OnUpdate"
      BY <2>2 DEF Goto, UpdateReturns, requestVars
    <3>2. PICK n \in 1 .. Len(Branch) : Upto(n) /\ cursor = Branch[n]
      BY <3>1 DEF IInv, UpdateInv
    <3>3. n \in 0 .. Len(Branch) /\ Upto(n)'
      BY <1>1, <3>1, <3>2 DEF Upto
    <3>4. child[cursor] = IF n = Len(Branch) THEN NoState ELSE Branch[n + 1]
      BY <3>2, Walk
    <3> QED
      BY <1>1, <3>1, <3>3, <3>4 DEF UpdateInv
  <2> QED
    BY <2>1, <2>2
<1>7. DyingInv'
  BY <1>1 DEF requestVars, localVars, Goto, Callbacks, Unlocked, Locked, UpdateReturns, IInv, TypeOK, DyingInv
<1> QED
  BY <1>1, <1>2, <1>3, <1>4, <1>5, <1>6, <1>7 DEF IInv

LEMMA InvFinish ==
  ASSUME IInv, Finish
  PROVE  IInv'
<1> USE ConstantFacts DEF Callbacks, Unlocked, Locked, Exiting, Entering, Entered
<1>1. /\ BranchInv' /\ TreeTypes /\ TreeTypes' /\ Branch' = Branch
      /\ EndOf(Branch)' = EndOf(Branch)
      /\ active' = active /\ parent' = parent /\ child' = child /\ top' = top
  BY Still DEF Finish
<1>2. TypeOK'
  BY <1>1 DEF requestVars, localVars, Goto, Callbacks, Unlocked, Locked, Finish, IInv, TypeOK, TreeTypes
<1>3. WantedInv'
  BY <1>1 DEF requestVars, localVars, Goto, Callbacks, Unlocked, Locked, Finish, IInv, TypeOK, WantedInv
<1>4. ProcessInv'
  BY <1>1 DEF requestVars, localVars, Goto, Callbacks, Unlocked, Locked, Finish, IInv, TypeOK, ProcessInv
<1>5. InstanceInv'
  BY <1>1 DEF requestVars, localVars, Goto, Callbacks, Unlocked, Locked, Finish, IInv, TypeOK, InstanceInv
<1>6. UpdateInv'
  BY <1>1 DEF requestVars, localVars, Goto, Callbacks, Unlocked, Locked, Finish, IInv, TypeOK, UpdateInv
<1>7. DyingInv'
  BY <1>1 DEF requestVars, localVars, Goto, Callbacks, Unlocked, Locked, Finish, IInv, TypeOK, DyingInv
<1> QED
  BY <1>1, <1>2, <1>3, <1>4, <1>5, <1>6, <1>7 DEF IInv

LEMMA InvExitReturns ==
  ASSUME IInv, ExitReturns
  PROVE  IInv'
<1> USE ConstantFacts DEF Callbacks, Unlocked, Locked, Exiting, Entering, Entered
<1>1. /\ BranchInv' /\ TreeTypes /\ TreeTypes' /\ Branch' = Branch
      /\ EndOf(Branch)' = EndOf(Branch)
      /\ active' = active /\ parent' = parent /\ child' = child /\ top' = top
  BY Still DEF ExitReturns
<1>2. TypeOK'
  BY <1>1 DEF requestVars, localVars, Goto, Callbacks, Unlocked, Locked, ExitReturns, TellParent, Exited, IInv, TypeOK, TreeTypes
<1>3. WantedInv'
  BY <1>1 DEF requestVars, localVars, Goto, Callbacks, Unlocked, Locked, ExitReturns, TellParent, Exited, IInv, TypeOK, WantedInv
<1>4. ProcessInv'
  BY <1>1 DEF requestVars, localVars, Goto, Callbacks, Unlocked, Locked, ExitReturns, TellParent, Exited, IInv, TypeOK, ProcessInv
<1>5. InstanceInv'
  BY <1>1 DEF requestVars, localVars, Goto, Callbacks, Unlocked, Locked, ExitReturns, TellParent, Exited, IInv, TypeOK, InstanceInv
<1>6. UpdateInv'
  BY <1>1 DEF requestVars, localVars, Goto, Callbacks, Unlocked, Locked, ExitReturns, TellParent, Exited, IInv, TypeOK, UpdateInv
<1>7. DyingInv'
  BY <1>1 DEF requestVars, localVars, Goto, Callbacks, Unlocked, Locked, ExitReturns, TellParent, Exited, IInv, TypeOK, DyingInv
<1> QED
  BY <1>1, <1>2, <1>3, <1>4, <1>5, <1>6, <1>7 DEF IInv

LEMMA InvDeleted ==
  ASSUME IInv, Deleted
  PROVE  IInv'
<1> USE ConstantFacts DEF Callbacks, Unlocked, Locked, Exiting, Entering, Entered
<1>1. /\ BranchInv' /\ TreeTypes /\ TreeTypes' /\ Branch' = Branch
      /\ EndOf(Branch)' = EndOf(Branch)
      /\ active' = active /\ parent' = parent /\ child' = child /\ top' = top
  BY Still DEF Deleted
<1>2. TypeOK'
  BY <1>1 DEF requestVars, localVars, Goto, Callbacks, Unlocked, Locked, Deleted, TellParent, Exited, IInv, TypeOK, TreeTypes
<1>3. WantedInv'
  BY <1>1 DEF requestVars, localVars, Goto, Callbacks, Unlocked, Locked, Deleted, TellParent, Exited, IInv, TypeOK, WantedInv
<1>4. ProcessInv'
  BY <1>1 DEF requestVars, localVars, Goto, Callbacks, Unlocked, Locked, Deleted, TellParent, Exited, IInv, TypeOK, ProcessInv
<1>5. InstanceInv'
  <2>1. ~active[exiting] /\ exiting \notin GlobalStates
    BY DEF Deleted, IInv, ProcessInv
  <2>2. pc = "delete" /\ pc' \notin {"create", "destroyed"} /\ registered' = registered
    BY DEF Deleted, TellParent, Exited, Goto
  <2> QED
    BY <1>1, <2>1, <2>2 DEF Deleted, IInv, InstanceInv
<1>6. UpdateInv'
  BY <1>1 DEF requestVars, localVars, Goto, Callbacks, Unlocked, Locked, Deleted, TellParent, Exited, IInv, TypeOK, UpdateInv
<1>7. DyingInv'
  BY <1>1 DEF requestVars, localVars, Goto, Callbacks, Unlocked, Locked, Deleted, TellParent, Exited, IInv, TypeOK, DyingInv
<1> QED
  BY <1>1, <1>2, <1>3, <1>4, <1>5, <1>6, <1>7 DEF IInv

LEMMA InvChildExitReturns ==
  ASSUME IInv, ChildExitReturns
  PROVE  IInv'
<1> USE ConstantFacts DEF Callbacks, Unlocked, Locked, Exiting, Entering, Entered
<1>1. /\ BranchInv' /\ TreeTypes /\ TreeTypes' /\ Branch' = Branch
      /\ EndOf(Branch)' = EndOf(Branch)
      /\ active' = active /\ parent' = parent /\ child' = child /\ top' = top
  BY Still DEF ChildExitReturns
<1>2. TypeOK'
  BY <1>1 DEF requestVars, localVars, Goto, Callbacks, Unlocked, Locked, ChildExitReturns, Exited, IInv, TypeOK, TreeTypes
<1>3. WantedInv'
  BY <1>1 DEF requestVars, localVars, Goto, Callbacks, Unlocked, Locked, ChildExitReturns, Exited, IInv, TypeOK, WantedInv
<1>4. ProcessInv'
  BY <1>1 DEF requestVars, localVars, Goto, Callbacks, Unlocked, Locked, ChildExitReturns, Exited, IInv, TypeOK, ProcessInv
<1>5. InstanceInv'
  BY <1>1 DEF requestVars, localVars, Goto, Callbacks, Unlocked, Locked, ChildExitReturns, Exited, IInv, TypeOK, InstanceInv
<1>6. UpdateInv'
  BY <1>1 DEF requestVars, localVars, Goto, Callbacks, Unlocked, Locked, ChildExitReturns, Exited, IInv, TypeOK, UpdateInv
<1>7. DyingInv'
  BY <1>1 DEF requestVars, localVars, Goto, Callbacks, Unlocked, Locked, ChildExitReturns, Exited, IInv, TypeOK, DyingInv
<1> QED
  BY <1>1, <1>2, <1>3, <1>4, <1>5, <1>6, <1>7 DEF IInv

LEMMA InvParentReached ==
  ASSUME IInv, ParentReached
  PROVE  IInv'
<1> USE ConstantFacts DEF Callbacks, Unlocked, Locked, Exiting, Entering, Entered
<1>1. /\ BranchInv' /\ TreeTypes /\ TreeTypes' /\ Branch' = Branch
      /\ EndOf(Branch)' = EndOf(Branch)
      /\ active' = active /\ parent' = parent /\ child' = child /\ top' = top
  BY Still DEF ParentReached
<1>2. TypeOK'
  BY <1>1 DEF requestVars, localVars, Goto, Callbacks, Unlocked, Locked, ParentReached, ClearTransition, IInv, TypeOK, TreeTypes
<1>3. WantedInv'
  BY <1>1, InBranch DEF requestVars, localVars, Goto, Callbacks, Unlocked, Locked, ParentReached, ClearTransition, IInv, TypeOK, WantedInv
<1>8. wanted = processing /\ exiting = EndOf(Branch) /\ processing[1] = EndOf(Branch) /\ transition
  BY DEF ParentReached, IInv, ProcessInv
<1>4. ProcessInv'
  <2>1. CASE processing[2] = NoState
    BY <1>1, <2>1 DEF Goto, ParentReached, ClearTransition, ProcessInv
  <2>2. CASE processing[2] # NoState
    <3>1. /\ pc' = "validate" /\ UNCHANGED <<transition, wanted, processing, exiting, registered, instance>>
      BY <2>2 DEF Goto, ParentReached, requestVars, localVars
    <3>2. processing[2] \in registered
          /\ (processing[1] # NoState => processing[1] \in Parents[processing[2]])
      BY <1>8, <2>2 DEF IInv, WantedInv
    <3>3. ~active[processing[2]]
      <4> SUFFICES ASSUME active[processing[2]] PROVE FALSE
        OBVIOUS
      <4>1. processing[2] \in States
        BY <3>2 DEF IInv, TypeOK
      <4>2. PICK j \in DOMAIN Branch : Branch[j] = processing[2]
        BY <4>1 DEF IInv, BranchInv
      <4>3. PICK b \in Branches : b = Branch
        BY DEF IInv, BranchInv
      <4>4. /\ DOMAIN Branch = 1 .. Len(Branch) /\ Len(Branch) \in Nat
            /\ Branch = <<>> <=> Len(Branch) = 0
        BY <4>3, BranchTypes
      <4>5. Branch # <<>>
        BY <4>2, <4>4
      <4>6. Len(Branch) \in DOMAIN Branch /\ Branch[Len(Branch)] = wanted[1]
        BY <1>1, <1>8, <4>5, EndFacts DEF IInv
      <4>7. Len(Branch) < j
        BY <1>8, <4>2, <4>6 DEF IInv, WantedInv
      <4> QED
        BY <4>2, <4>4, <4>7
    <3> QED
      BY <1>1, <1>8, <3>1, <3>2, <3>3 DEF ProcessInv
  <2> QED
    BY <2>1, <2>2
<1>5. InstanceInv'
  BY <1>1 DEF requestVars, localVars, Goto, Callbacks, Unlocked, Locked, ParentReached, ClearTransition, IInv, TypeOK, InstanceInv
<1>6. UpdateInv'
  BY <1>1 DEF requestVars, localVars, Goto, Callbacks, Unlocked, Locked, ParentReached, ClearTransition, IInv, TypeOK, UpdateInv
<1>7. DyingInv'
  BY <1>1, <1>8, EndFacts DEF requestVars, localVars, Goto, Callbacks, Unlocked, Locked, ParentReached, ClearTransition, IInv, TypeOK, DyingInv
<1> QED
  BY <1>1, <1>2, <1>3, <1>4, <1>5, <1>6, <1>7 DEF IInv

LEMMA InvValidated ==
  ASSUME IInv, Validated
  PROVE  IInv'
<1> USE ConstantFacts DEF Callbacks, Unlocked, Locked, Exiting, Entering, Entered
<1>1. /\ BranchInv' /\ TreeTypes /\ TreeTypes' /\ Branch' = Branch
      /\ EndOf(Branch)' = EndOf(Branch)
      /\ active' = active /\ parent' = parent /\ child' = child /\ top' = top
  BY Still DEF Validated
<1>2. TypeOK'
  BY <1>1 DEF requestVars, localVars, Goto, Callbacks, Unlocked, Locked, Validated, ClearTransition, IInv, TypeOK, TreeTypes
<1>3. WantedInv'
  BY <1>1, InBranch DEF requestVars, localVars, Goto, Callbacks, Unlocked, Locked, Validated, ClearTransition, IInv, TypeOK, WantedInv
<1>4. ProcessInv'
  BY <1>1 DEF requestVars, localVars, Goto, Callbacks, Unlocked, Locked, Validated, ClearTransition, IInv, TypeOK, ProcessInv
<1>5. InstanceInv'
  BY <1>1 DEF requestVars, localVars, Goto, Callbacks, Unlocked, Locked, Validated, ClearTransition, IInv, TypeOK, InstanceInv
<1>6. UpdateInv'
  BY <1>1 DEF requestVars, localVars, Goto, Callbacks, Unlocked, Locked, Validated, ClearTransition, IInv, TypeOK, UpdateInv
<1>7. DyingInv'
  BY <1>1 DEF requestVars, localVars, Goto, Callbacks, Unlocked, Locked, Validated, ClearTransition, IInv, TypeOK, DyingInv
<1> QED
  BY <1>1, <1>2, <1>3, <1>4, <1>5, <1>6, <1>7 DEF IInv

LEMMA InvChildEnterReturns ==
  ASSUME IInv, ChildEnterReturns
  PROVE  IInv'
<1> USE ConstantFacts DEF Callbacks, Unlocked, Locked, Exiting, Entering, Entered
<1>1. /\ BranchInv' /\ TreeTypes /\ TreeTypes' /\ Branch' = Branch
      /\ EndOf(Branch)' = EndOf(Branch)
      /\ active' = active /\ parent' = parent /\ child' = child /\ top' = top
  BY Still DEF ChildEnterReturns
<1>2. TypeOK'
  BY <1>1 DEF requestVars, localVars, Goto, Callbacks, Unlocked, Locked, ChildEnterReturns, IInv, TypeOK, TreeTypes
<1>3. WantedInv'
  BY <1>1 DEF requestVars, localVars, Goto, Callbacks, Unlocked, Locked, ChildEnterReturns, IInv, TypeOK, WantedInv
<1>4. ProcessInv'
  BY <1>1 DEF requestVars, localVars, Goto, Callbacks, Unlocked, Locked, ChildEnterReturns, IInv, TypeOK, ProcessInv
<1>5. InstanceInv'
  BY <1>1 DEF requestVars, localVars, Goto, Callbacks, Unlocked, Locked, ChildEnterReturns, IInv, TypeOK, InstanceInv
<1>6. UpdateInv'
  BY <1>1 DEF requestVars, localVars, Goto, Callbacks, Unlocked, Locked, ChildEnterReturns, IInv, TypeOK, UpdateInv
<1>7. DyingInv'
  BY <1>1 DEF requestVars, localVars, Goto, Callbacks, Unlocked, Locked, ChildEnterReturns, IInv, TypeOK, DyingInv
<1> QED
  BY <1>1, <1>2, <1>3, <1>4, <1>5, <1>6, <1>7 DEF IInv

LEMMA InvCreated ==
  ASSUME IInv, Created
  PROVE  IInv'
<1> USE ConstantFacts DEF Callbacks, Unlocked, Locked, Exiting, Entering, Entered
<1>1. /\ BranchInv' /\ TreeTypes /\ TreeTypes' /\ Branch' = Branch
      /\ EndOf(Branch)' = EndOf(Branch)
      /\ active' = active /\ parent' = parent /\ child' = child /\ top' = top
  BY Still DEF Created
<1>2. TypeOK'
  BY <1>1 DEF requestVars, localVars, Goto, Callbacks, Unlocked, Locked, Created, IInv, TypeOK, TreeTypes, ProcessInv
<1>3. WantedInv'
  BY <1>1 DEF requestVars, localVars, Goto, Callbacks, Unlocked, Locked, Created, IInv, TypeOK, WantedInv
<1>4. ProcessInv'
  BY <1>1 DEF requestVars, localVars, Goto, Callbacks, Unlocked, Locked, Created, IInv, TypeOK, ProcessInv
<1>5. InstanceInv'
  BY <1>1 DEF requestVars, localVars, Goto, Callbacks, Unlocked, Locked, Created, IInv, TypeOK, InstanceInv
<1>6. UpdateInv'
  BY <1>1 DEF requestVars, localVars, Goto, Callbacks, Unlocked, Locked, Created, IInv, TypeOK, UpdateInv
<1>7. DyingInv'
  BY <1>1 DEF requestVars, localVars, Goto, Callbacks, Unlocked, Locked, Created, IInv, TypeOK, DyingInv
<1> QED
  BY <1>1, <1>2, <1>3, <1>4, <1>5, <1>6, <1>7 DEF IInv

LEMMA InvInitReturns ==
  ASSUME IInv, InitReturns
  PROVE  IInv'
<1> USE ConstantFacts DEF Callbacks, Unlocked, Locked, Exiting, Entering, Entered
<1>1. /\ BranchInv' /\ TreeTypes /\ TreeTypes' /\ Branch' = Branch
      /\ EndOf(Branch)' = EndOf(Branch)
      /\ active' = active /\ parent' = parent /\ child' = child /\ top' = top
  BY Still DEF InitReturns
<1>2. TypeOK'
  BY <1>1 DEF requestVars, localVars, Goto, Callbacks, Unlocked, Locked, InitReturns, IInv, TypeOK, TreeTypes
<1>3. WantedInv'
  BY <1>1 DEF requestVars, localVars, Goto, Callbacks, Unlocked, Locked, InitReturns, IInv, TypeOK, WantedInv
<1>4. ProcessInv'
  BY <1>1 DEF requestVars, localVars, Goto, Callbacks, Unlocked, Locked, InitReturns, IInv, TypeOK, ProcessInv
<1>5. InstanceInv'
  BY <1>1 DEF requestVars, localVars, Goto, Callbacks, Unlocked, Locked, InitReturns, IInv, TypeOK, InstanceInv
<1>6. UpdateInv'
  BY <1>1 DEF requestVars, localVars, Goto, Callbacks, Unlocked, Locked, InitReturns, IInv, TypeOK, UpdateInv
<1>7. DyingInv'
  BY <1>1 DEF requestVars, localVars, Goto, Callbacks, Unlocked, Locked, InitReturns, IInv, TypeOK, DyingInv
<1> QED
  BY <1>1, <1>2, <1>3, <1>4, <1>5, <1>6, <1>7 DEF IInv

LEMMA InvEnterReturns ==
  ASSUME IInv, EnterReturns
  PROVE  IInv'
<1> USE ConstantFacts DEF Callbacks, Unlocked, Locked, Exiting, Entering, Entered
<1>1. /\ BranchInv' /\ TreeTypes /\ TreeTypes' /\ Branch' = Branch
      /\ EndOf(Branch)' = EndOf(Branch)
      /\ active' = active /\ parent' = parent /\ child' = child /\ top' = top
  BY Still DEF EnterReturns
<1>2. TypeOK'
  BY <1>1 DEF requestVars, localVars, Goto, Callbacks, Unlocked, Locked, EnterReturns, ClearTransition, IInv, TypeOK, TreeTypes
<1>3. WantedInv'
  BY <1>1, InBranch DEF requestVars, localVars, Goto, Callbacks, Unlocked, Locked, EnterReturns, ClearTransition, IInv, TypeOK, WantedInv
<1>4. ProcessInv'
  BY <1>1 DEF requestVars, localVars, Goto, Callbacks, Unlocked, Locked, EnterReturns, ClearTransition, IInv, TypeOK, ProcessInv
<1>5. InstanceInv'
  BY <1>1 DEF requestVars, localVars, Goto, Callbacks, Unlocked, Locked, EnterReturns, ClearTransition, IInv, TypeOK, InstanceInv
<1>6. UpdateInv'
  BY <1>1 DEF requestVars, localVars, Goto, Callbacks, Unlocked, Locked, EnterReturns, ClearTransition, IInv, TypeOK, UpdateInv
<1>7. DyingInv'
  BY <1>1 DEF requestVars, localVars, Goto, Callbacks, Unlocked, Locked, EnterReturns, ClearTransition, IInv, TypeOK, DyingInv
<1> QED
  BY <1>1, <1>2, <1>3, <1>4, <1>5, <1>6, <1>7 DEF IInv

LEMMA InvBeginDestroy ==
  ASSUME IInv, BeginDestroy
  PROVE  IInv'
<1> USE ConstantFacts DEF Callbacks, Unlocked, Locked, Exiting, Entering, Entered
<1>1. /\ BranchInv' /\ TreeTypes /\ TreeTypes' /\ Branch' = Branch
      /\ EndOf(Branch)' = EndOf(Branch)
      /\ active' = active /\ parent' = parent /\ child' = child /\ top' = top
  BY Still DEF BeginDestroy
<1>2. TypeOK'
  BY <1>1, EmptySeq DEF requestVars, localVars, Goto, Callbacks, Unlocked, Locked, BeginDestroy, ChangesNothing, ChildOf, IInv, TypeOK, TreeTypes
<1>3. WantedInv'
  BY <1>1, InBranch DEF requestVars, localVars, Goto, Callbacks, Unlocked, Locked, BeginDestroy, ChangesNothing, ChildOf, IInv, TypeOK, WantedInv
<1>4. ProcessInv'
  BY <1>1 DEF requestVars, localVars, Goto, Callbacks, Unlocked, Locked, BeginDestroy, ChangesNothing, ChildOf, IInv, TypeOK, ProcessInv
<1>5. InstanceInv'
  BY <1>1 DEF requestVars, localVars, Goto, Callbacks, Unlocked, Locked, BeginDestroy, ChangesNothing, ChildOf, IInv, TypeOK, InstanceInv
<1>6. UpdateInv'
  BY <1>1 DEF requestVars, localVars, Goto, Callbacks, Unlocked, Locked, BeginDestroy, ChangesNothing, ChildOf, IInv, TypeOK, UpdateInv
<1>7. DyingInv'
  <2>1. pc' = "loop" /\ dying'
    BY DEF BeginDestroy, Goto
  <2>2. wanted' = NoChange /\ (~transition' => top = NoState)
    <3>1. CASE ChangesNothing(NoState, NoState)
      BY <3>1 DEF BeginDestroy, ChangesNothing, ChildOf, requestVars, NoChange, IInv, WantedInv
    <3>2. CASE ~ChangesNothing(NoState, NoState)
      BY <3>2 DEF BeginDestroy
    <3> QED
      BY <3>1, <3>2
  <2> QED
    BY <1>1, <2>1, <2>2 DEF DyingInv
<1> QED
  BY <1>1, <1>2, <1>3, <1>4, <1>5, <1>6, <1>7 DEF IInv

LEMMA InvDestroy ==
  ASSUME IInv, Destroy
  PROVE  IInv'
<1> USE ConstantFacts DEF Callbacks, Unlocked, Locked, Exiting, Entering, Entered
<1>1. /\ BranchInv' /\ TreeTypes /\ TreeTypes' /\ Branch' = Branch
      /\ EndOf(Branch)' = EndOf(Branch)
      /\ active' = active /\ parent' = parent /\ child' = child /\ top' = top
  BY Still DEF Destroy
<1>2. TypeOK'
  BY <1>1 DEF requestVars, localVars, Goto, Callbacks, Unlocked, Locked, Destroy, IInv, TypeOK, TreeTypes
<1>3. WantedInv'
  BY <1>1 DEF requestVars, localVars, Goto, Callbacks, Unlocked, Locked, Destroy, IInv, TypeOK, WantedInv
<1>4. ProcessInv'
  BY <1>1 DEF requestVars, localVars, Goto, Callbacks, Unlocked, Locked, Destroy, IInv, TypeOK, ProcessInv
<1>5. InstanceInv'
  BY <1>1 DEF requestVars, localVars, Goto, Callbacks, Unlocked, Locked, Destroy, IInv, TypeOK, InstanceInv
<1>6. UpdateInv'
  BY <1>1 DEF requestVars, localVars, Goto, Callbacks, Unlocked, Locked, Destroy, IInv, TypeOK, UpdateInv
<1>7. DyingInv'
  BY <1>1 DEF requestVars, localVars, Goto, Callbacks, Unlocked, Locked, Destroy, IInv, TypeOK, DyingInv
<1> QED
  BY <1>1, <1>2, <1>3, <1>4, <1>5, <1>6, <1>7 DEF IInv

LEMMA InvChangeState ==
  ASSUME IInv, NEW p \in MaybeStates, NEW s \in MaybeStates, ChangeState(p, s)
  PROVE  IInv'
<1> USE ConstantFacts DEF Callbacks, Unlocked, Locked, Exiting, Entering, Entered
<1>1. /\ BranchInv' /\ TreeTypes /\ TreeTypes' /\ Branch' = Branch
      /\ EndOf(Branch)' = EndOf(Branch)
      /\ active' = active /\ parent' = parent /\ child' = child /\ top' = top
  BY Still DEF ChangeState
<1>2. TypeOK'
  BY <1>1 DEF requestVars, localVars, Goto, Callbacks, Unlocked, Locked, ChangeState, ValidChange, IInv, TypeOK, TreeTypes
<1>3. WantedInv'
  BY <1>1, InBranch DEF requestVars, localVars, Goto, Callbacks, Unlocked, Locked, ChangeState, ValidChange, IInv, TypeOK, WantedInv
<1>4. ProcessInv'
  BY <1>1 DEF requestVars, localVars, Goto, Callbacks, Unlocked, Locked, ChangeState, ValidChange, IInv, TypeOK, ProcessInv
<1>5. InstanceInv'
  BY <1>1 DEF requestVars, localVars, Goto, Callbacks, Unlocked, Locked, ChangeState, ValidChange, IInv, TypeOK, InstanceInv
<1>6. UpdateInv'
  <2>1. UNCHANGED <<pc, cursor, updated>> /\ transition' /\ pc # "visit"
    BY DEF ChangeState, localVars
  <2>2. \A n : Upto(n)' <=> Upto(n)
    BY <1>1, <2>1, UptoStill
  <2> QED
    BY <1>1, <2>1, <2>2 DEF IInv, UpdateInv
<1>7. DyingInv'
  BY <1>1 DEF requestVars, localVars, Goto, Callbacks, Unlocked, Locked, ChangeState, ValidChange, IInv, TypeOK, DyingInv
<1> QED
  BY <1>1, <1>2, <1>3, <1>4, <1>5, <1>6, <1>7 DEF IInv

LEMMA InvExit ==
  ASSUME IInv, Exit
  PROVE  IInv'
<1> USE ConstantFacts DEF Exiting, Entering, Entered
<1>1. /\ pc = "exit" /\ pc' = "OnExit" /\ exiting # processing[1] /\ transition
      /\ wanted = processing /\ exiting = EndOf(Branch)
      /\ exitParent' = parent[exiting] /\ Detach(exiting)
      /\ UNCHANGED <<registered, instance, transition, wanted, changes, processing, exiting,
                     cursor, updated, dying, updates>>
  BY DEF Exit, Goto, requestVars, IInv, ProcessInv
<1>2. exiting \in States
  <2>1. TypeOK /\ BranchInv /\ WantedInv /\ TreeTypes
    BY DEF IInv, TypeOK, TreeTypes
  <2>2. processing[1] \in MaybeStates
    BY <2>1 DEF TypeOK
  <2>3. exiting # NoState
    BY <1>1, <2>1, <2>2, EndFacts, Walk DEF WantedInv
  <2> QED
    BY <1>1, <2>1, <2>3, EndFacts
<1>3. /\ BranchInv' /\ TreeTypes'
      /\ EndOf(Branch)' = parent[exiting]
      /\ \A s \in States : active'[s] <=> active[s] /\ s # exiting
      /\ DOMAIN Branch' = 1 .. Len(Branch) - 1
      /\ \A i \in 1 .. Len(Branch) - 1 : Branch'[i] = Branch[i]
      /\ Len(Branch) \in Nat /\ DOMAIN Branch = 1 .. Len(Branch)
  BY <1>1, <1>2, DetachBranch DEF IInv, TypeOK, TreeTypes
<1>4. TypeOK'
  BY <1>1, <1>2, <1>3 DEF IInv, TypeOK, TreeTypes, Unlocked, Callbacks
<1>5. WantedInv'
  <2>1. wanted[1] # NoState => wanted[1] \in States /\ active'[wanted[1]]
    BY <1>1, <1>3 DEF IInv, TypeOK, WantedInv
  <2>2. \A i \in DOMAIN Branch' : i \in DOMAIN Branch /\ Branch'[i] = Branch[i]
    BY <1>3
  <2>3. \A i, j \in DOMAIN Branch' : Branch'[i] = wanted[1] /\ Branch'[j] = wanted[2] => i < j
    BY <2>2 DEF IInv, WantedInv
  <2> QED
    BY <1>1, <2>1, <2>3 DEF IInv, WantedInv
<1>6. ProcessInv'
  <2>1. exiting \in instance /\ ~active'[exiting]
    BY <1>1, <1>2, <1>3, EndFacts DEF IInv, InstanceInv, TypeOK, TreeTypes
  <2> QED
    BY <1>1, <1>2, <1>3, <2>1 DEF ProcessInv
<1>7. InstanceInv'
  BY <1>1, <1>3 DEF IInv, InstanceInv
<1>8. UpdateInv' /\ DyingInv'
  BY <1>1 DEF IInv, UpdateInv, DyingInv
<1> QED
  BY <1>3, <1>4, <1>5, <1>6, <1>7, <1>8 DEF IInv

LEMMA InvEnter ==
  ASSUME IInv, Enter
  PROVE  IInv'
<1> USE ConstantFacts DEF Exiting, Entering, Entered
<1>1. PICK s \in States : s = processing[2]
  BY DEF Enter, IInv, TypeOK, ProcessInv
<1>2. PICK p \in MaybeStates : p = processing[1]
  BY DEF IInv, TypeOK
<1>3. /\ pc = "enter" /\ pc' = IF s \in GlobalStates THEN "OnEnter" ELSE "create"
      /\ active' = [active EXCEPT ![s] = TRUE]
      /\ parent' = [parent EXCEPT ![s] = p]
      /\ IF p # NoState THEN child' = [child EXCEPT ![p] = s] /\ top' = top
                        ELSE top' = s /\ child' = child
      /\ UNCHANGED <<registered, instance, transition, wanted, changes, processing, exiting,
                     exitParent, cursor, updated, dying, updates>>
  BY <1>1, <1>2 DEF Enter, Goto, requestVars, localVars
<1>4. /\ transition /\ p = EndOf(Branch) /\ s \in registered /\ ~active[s]
      /\ p # NoState => p \in Parents[s]
  BY <1>1, <1>2, <1>3 DEF IInv, ProcessInv
<1>5. /\ BranchInv' /\ TreeTypes'
      /\ EndOf(Branch)' = s /\ parent'[s] = p
      /\ \A r \in States : active'[r] <=> active[r] \/ r = s
      /\ DOMAIN Branch' = 1 .. Len(Branch) + 1
      /\ \A i \in 1 .. Len(Branch) : Branch'[i] = Branch[i]
      /\ Branch'[Len(Branch) + 1] = s
      /\ Len(Branch) \in Nat /\ DOMAIN Branch = 1 .. Len(Branch)
  BY <1>3, <1>4, AttachBranch DEF IInv, TypeOK, TreeTypes
<1>6. TypeOK'
  BY <1>3, <1>5 DEF IInv, TypeOK, TreeTypes, Unlocked, Callbacks
<1>7. WantedInv'
  <2>1. wanted[1] # NoState => wanted[1] \in States /\ active[wanted[1]] /\ wanted[1] # s
    BY <1>4 DEF IInv, TypeOK, WantedInv
  <2>2. wanted[1] # NoState => active'[wanted[1]]
    BY <1>5, <2>1
  <2>3. \A i \in DOMAIN Branch' :
          \/ i \in DOMAIN Branch /\ Branch'[i] = Branch[i] /\ i < Len(Branch) + 1
          \/ i = Len(Branch) + 1 /\ Branch'[i] = s
    BY <1>5
  <2>4. wanted[1] # s
    BY <2>1
  <2>5. \A i, j \in DOMAIN Branch' : Branch'[i] = wanted[1] /\ Branch'[j] = wanted[2] => i < j
    BY <2>3, <2>4 DEF IInv, WantedInv
  <2> QED
    BY <1>3, <2>2, <2>5 DEF IInv, WantedInv
<1>8. ProcessInv'
  <2>1. s \in GlobalStates => s \in instance
    BY <1>3, <1>4 DEF IInv, InstanceInv
  <2> QED
    BY <1>1, <1>2, <1>3, <1>4, <1>5, <2>1 DEF ProcessInv
<1>9. InstanceInv'
  <2>1. pc' = "create" \/ s \in instance
    BY <1>3, <1>4 DEF IInv, InstanceInv
  <2> QED
    BY <1>1, <1>3, <1>5, <2>1 DEF IInv, InstanceInv
<1>10. UpdateInv' /\ DyingInv'
  BY <1>3 DEF IInv, UpdateInv, DyingInv
<1> QED
  BY <1>5, <1>6, <1>7, <1>8, <1>9, <1>10 DEF IInv

LEMMA InvInit == Init => IInv
<1> SUFFICES ASSUME Init PROVE IInv
  OBVIOUS
<1> USE ConstantFacts DEF Init
<1>1. <<>> \in Branches /\ DOMAIN <<>> = {} /\ Len(<<>>) = 0
  <2>1. Cardinality(States) \in Nat
    BY FS_CardinalityType
  <2>2. <<>> \in Seq(States) /\ Len(<<>>) = 0 /\ DOMAIN <<>> = 1 .. Len(<<>>)
    BY EmptySeq, LenProperties
  <2>3. <<>> \in [1 .. 0 -> States]
    BY <2>2, LenProperties
  <2> QED
    BY <2>1, <2>2, <2>3 DEF Branches
<1>2. IsBranch(<<>>)
  BY <1>1 DEF IsBranch
<1>3. Branch = <<>>
  BY <1>1, <1>2, BranchIs
<1>4. BranchInv
  BY <1>1, <1>2, <1>3 DEF BranchInv, Distinct
<1>5. TypeOK
  BY EmptySeq DEF TypeOK, Unlocked, Callbacks
<1>6. WantedInv /\ InstanceInv /\ UpdateInv
  BY <1>1, <1>3 DEF WantedInv, InstanceInv, UpdateInv, NoChange
<1>7. ProcessInv /\ DyingInv
  BY DEF ProcessInv, DyingInv, Exiting, Entering, Entered
<1> QED
  BY <1>4, <1>5, <1>6, <1>7 DEF IInv

LEMMA InvNext == IInv /\ [Next]_vars => IInv'
<1>1. ASSUME IInv, UNCHANGED vars PROVE IInv'
  <2>1. /\ UNCHANGED treeVars
        /\ UNCHANGED <<registered, instance, transition, wanted, pc, processing, exiting,
                       exitParent, cursor, updated, dying>>
    BY <1>1 DEF vars, requestVars, localVars
  <2>2. /\ BranchInv' /\ Branch' = Branch /\ EndOf(Branch)' = EndOf(Branch)
        /\ active' = active /\ parent' = parent /\ child' = child /\ top' = top
    BY <1>1, <2>1, Still
  <2>3. \A n : Upto(n)' <=> Upto(n)
    BY <2>1, <2>2, UptoStill
  <2>4. UpdateInv'
    BY <1>1, <2>1, <2>2, <2>3 DEF IInv, UpdateInv
  <2> QED
    BY <1>1, <2>1, <2>2, <2>4 DEF IInv, TypeOK, WantedInv, ProcessInv, InstanceInv, DyingInv
<1>2. ASSUME IInv, Next PROVE IInv'
  <2>1. CASE UpdateStep
    BY <1>2, <2>1, InvLoop, InvVisit, InvUpdateReturns, InvFinish, InvExit, InvExitReturns,
       InvDeleted, InvChildExitReturns, InvParentReached, InvValidated, InvChildEnterReturns,
       InvEnter, InvCreated, InvInitReturns, InvEnterReturns, InvDestroy DEF UpdateStep
  <2> QED
    BY <1>2, <2>1, InvRegister, InvChangeState, InvUpdate, InvBeginDestroy DEF Next
<1> QED
  BY <1>1, <1>2

(* The branch, what is wanted of it and where Update is on it always fit.   *)
THEOREM Invariance == Spec => []IInv
BY InvInit, InvNext, PTL DEF Spec

(* One branch is active, and it is empty when the machine is destroyed,     *)
(* where nothing requests a change after the destructor has begun.          *)
THEOREM Tree == QuietDestroy => (Spec => []OneBranch)
<1> SUFFICES ASSUME QuietDestroy PROVE Spec => []OneBranch
  OBVIOUS
<1>1. IInv => OneBranch
  BY DEF IInv, BranchInv, DyingInv, OneBranch
<1> QED
  BY <1>1, Invariance, PTL

(* No callback is made on a state without its instance, and the exit loop   *)
(* meets the parent it stops at, whatever is requested in callbacks.        *)
THEOREM Safe == Spec => []CallbacksAreSafe
<1>1. IInv => CallbacksAreSafe
  <2> SUFFICES ASSUME IInv PROVE CallbacksAreSafe
    OBVIOUS
  <2> USE ConstantFacts DEF Exiting, Entering, Entered
  <2>1. pc = "OnUpdate" => cursor \in instance
    BY CursorIsActive DEF IInv, InstanceInv
  <2>2. pc \in {"OnExit", "delete"} => exiting \in instance
    BY DEF IInv, ProcessInv
  <2>3. \A s \in MaybeStates : s = EndOf(Branch) /\ s # NoState => s \in States /\ active[s]
    BY InBranch, EndFacts DEF IInv
  <2>4. pc = "OnChildExit" => exitParent \in instance
    BY <2>3 DEF IInv, TypeOK, ProcessInv, InstanceInv
  <2>5. pc = "OnChildEnter" => processing[1] \in instance
    BY <2>3 DEF IInv, TypeOK, ProcessInv, InstanceInv
  <2>6. pc \in {"OnInit", "OnEnter"} => processing[2] \in instance
    BY DEF IInv, ProcessInv
  <2>7. pc = "exit" /\ exiting = NoState => processing[1] = NoState
    <3> SUFFICES ASSUME pc = "exit", exiting = NoState, processing[1] # NoState PROVE FALSE
      OBVIOUS
    <3>1. EndOf(Branch) = NoState /\ active[processing[1]] /\ processing[1] \in States
      BY DEF IInv, TypeOK, ProcessInv, WantedInv
    <3> QED
      BY <3>1, InBranch, EndFacts, Walk DEF IInv
  <2> QED
    BY <2>1, <2>2, <2>4, <2>5, <2>6, <2>7 DEF CallbacksAreSafe
<1> QED
  BY <1>1, Invariance, PTL

(* When Update returns nothing is left to change, and after the last        *)
(* transition it made every active state was updated once, from the top    *)
(* down, and no other.                                                     *)
THEOREM Complete == Spec => UpdateIsComplete
<1>1. IInv /\ Finish => ~transition /\ updated = Branch
  <2> SUFFICES ASSUME IInv, Finish PROVE ~transition /\ updated = Branch
    OBVIOUS
  <2>1. pc = "visit" /\ cursor = NoState
    BY DEF Finish
  <2>2. PICK n \in 0 .. Len(Branch) : ~transition /\ Upto(n)
                /\ cursor = IF n = Len(Branch) THEN NoState ELSE Branch[n + 1]
    BY <2>1 DEF IInv, UpdateInv
  <2>3. n = Len(Branch)
    <3> SUFFICES ASSUME n # Len(Branch) PROVE FALSE
      OBVIOUS
    <3>1. n + 1 \in 1 .. Len(Branch)
      BY <2>2, BranchLen
    <3>2. Branch[n + 1] \in States
      BY <3>1, Walk
    <3> QED
      BY <2>1, <2>2, <3>2, ConstantFacts
  <2>4. Branch \in Seq(States) /\ updated \in Seq(States)
    BY BranchTypes DEF IInv, BranchInv, TypeOK
  <2>5. Len(updated) = Len(Branch) /\ \A i \in 1 .. Len(Branch) : updated[i] = Branch[i]
    BY <2>2, <2>3 DEF Upto
  <2> QED
    BY <2>2, <2>4, <2>5, SeqEqual
<1>2. IInv /\ [Next]_vars => [Finish => ~transition /\ updated = Branch]_vars
  BY <1>1
<1> QED
  BY <1>1, Invariance, PTL DEF Spec, UpdateIsComplete
-----------------------------------------------------------------------------
(***************************************************************************)
(* The refinement                                                          *)
(***************************************************************************)
NextOf == IF pc \in Entering THEN processing[2] ELSE NoState

LEMMA AbstractEnd ==
  ASSUME IInv
  PROVE  /\ Abstract!End = EndOf(Branch)
         /\ wanted # <<>>
         /\ \A s \in States : Abstract!Active(s) <=> active[s]
         /\ ~Abstract!Active(NoState)
<1> USE ConstantFacts
<1>1. Abstract!End = EndOf(Branch)
  BY DEF Abstract!End, Abstract!Last, EndOf
<1>2. wanted # <<>>
  <2>1. PICK p \in MaybeStates, s \in MaybeStates : wanted = <<p, s>>
    BY DEF IInv, TypeOK
  <2>2. Len(<<p, s>>) = 2 /\ Len(<<>>) = 0
    BY EmptySeq
  <2> QED
    BY <2>1, <2>2
<1> QED
  BY <1>1, <1>2, InBranch DEF IInv, BranchInv, Abstract!Active

(* Most steps change neither the branch nor what is wanted of it.           *)
LEMMA AbstractQuiet ==
  ASSUME IInv,
         \/ \E s \in States : Register(s)
         \/ Update \/ Loop \/ Visit \/ UpdateReturns \/ Finish
         \/ ExitReturns \/ Deleted \/ ChildExitReturns \/ ChildEnterReturns
         \/ Created \/ InitReturns \/ Destroy
  PROVE  UNCHANGED Abstract!vars
<1>1. UNCHANGED <<treeVars, transition, wanted>>
  BY DEF Register, Update, Loop, Visit, UpdateReturns, Finish, ExitReturns, Deleted,
     ChildExitReturns, ChildEnterReturns, Created, InitReturns, Destroy, requestVars
<1>2. Branch' = Branch
  BY <1>1, Still
<1>3. NextOf' = NextOf
  BY DEF Register, Update, Loop, Visit, UpdateReturns, Finish, ExitReturns, Deleted,
     ChildExitReturns, ChildEnterReturns, Created, InitReturns, Destroy, TellParent, Exited,
     localVars, Goto, NextOf, Entering
<1> QED
  BY <1>1, <1>2, <1>3 DEF Abstract!vars, NextOf, Entering

LEMMA AbstractRequest ==
  ASSUME IInv, NEW p \in MaybeStates, NEW s \in MaybeStates, ChangeState(p, s)
  PROVE  Abstract!Request(p, s)
<1> USE ConstantFacts
<1>1. /\ UNCHANGED <<treeVars, pc, processing>> /\ transition' = TRUE /\ wanted' = <<p, s>>
      /\ ValidChange(p, s)
  BY DEF ChangeState, localVars
<1>2. Branch' = Branch
  BY <1>1, Still
<1>3. /\ p = NoState \/ Abstract!Active(p)
      /\ ~Abstract!Active(s)
      /\ s # NoState /\ p # NoState => p \in Parents[s]
  BY <1>1, AbstractEnd DEF ValidChange
<1> QED
  BY <1>1, <1>2, <1>3 DEF Abstract!Request

LEMMA AbstractDestroy ==
  ASSUME IInv, BeginDestroy
  PROVE  Abstract!Request(NoState, NoState) \/ UNCHANGED Abstract!vars
<1> USE ConstantFacts
<1>1. /\ UNCHANGED <<treeVars, processing>> /\ pc = "idle" /\ pc' = "loop"
      /\ \/ UNCHANGED <<transition, wanted>>
         \/ transition' = TRUE /\ wanted' = <<NoState, NoState>>
  BY DEF BeginDestroy, localVars, requestVars, Goto, NoChange
<1>2. Branch' = Branch
  BY <1>1, Still
<1>3. CASE UNCHANGED <<transition, wanted>>
  BY <1>1, <1>2, <1>3 DEF Abstract!vars
<1>4. CASE transition' = TRUE /\ wanted' = <<NoState, NoState>>
  BY <1>1, <1>2, <1>4, AbstractEnd DEF Abstract!Request
<1> QED
  BY <1>1, <1>3, <1>4

LEMMA AbstractExit ==
  ASSUME IInv, Exit
  PROVE  Abstract!Exit
<1> USE ConstantFacts
<1>1. /\ pc = "exit" /\ pc' = "OnExit" /\ exiting # processing[1] /\ transition
      /\ wanted = processing /\ exiting = EndOf(Branch) /\ Detach(exiting)
      /\ UNCHANGED <<transition, wanted, processing>>
  BY DEF Exit, Goto, requestVars, IInv, ProcessInv
<1>2. exiting \in States
  <2>1. TypeOK /\ BranchInv /\ WantedInv /\ TreeTypes
    BY DEF IInv, TypeOK, TreeTypes
  <2>2. processing[1] \in MaybeStates
    BY <2>1 DEF TypeOK
  <2>3. exiting # NoState
    BY <1>1, <2>1, <2>2, EndFacts, Walk DEF WantedInv
  <2> QED
    BY <1>1, <2>1, <2>3, EndFacts
<1>3. Branch' = SubSeq(Branch, 1, Len(Branch) - 1) /\ Branch # <<>>
  BY <1>1, <1>2, DetachBranch DEF IInv, TypeOK, TreeTypes
<1>4. Branch' = Abstract!Front(Branch)
  BY <1>3 DEF Abstract!Front
<1> QED
  BY <1>1, <1>3, <1>4, AbstractEnd DEF Abstract!Exit, Abstract!NoChange, Exiting, Entering

(* The parent is reached: the change is complete, or its state is next.     *)
LEMMA AbstractParentReached ==
  ASSUME IInv, ParentReached
  PROVE  Abstract!Complete \/ Abstract!Prepare
<1> USE ConstantFacts
<1>1. /\ pc = "exit" /\ transition /\ wanted = processing /\ wanted[1] = EndOf(Branch)
      /\ UNCHANGED <<treeVars, processing>>
  BY DEF ParentReached, IInv, ProcessInv, localVars
<1>2. Branch' = Branch
  BY <1>1, Still
<1>3. CASE processing[2] = NoState
  <2>1. transition' = FALSE /\ pc' = "loop"
    BY <1>3 DEF ParentReached, ClearTransition, Goto
  <2> QED
    BY <1>1, <1>2, <1>3, <2>1, AbstractEnd DEF Abstract!Complete, Abstract!Happened, Abstract!NoChange
<1>4. CASE processing[2] # NoState
  <2>1. pc' = "validate" /\ UNCHANGED <<transition, wanted>>
    BY <1>4 DEF ParentReached, requestVars, Goto
  <2> QED
    BY <1>1, <1>2, <1>4, <2>1, AbstractEnd DEF Abstract!Prepare, Abstract!NoChange
<1> QED
  BY <1>3, <1>4

(* Where no other thread requests a change while the context is validated,  *)
(* what is refused is what was requested.                                  *)
LEMMA AbstractValidated ==
  ASSUME ~OtherThreads, IInv, Validated
  PROVE  Abstract!Refuse \/ UNCHANGED Abstract!vars
<1> USE ConstantFacts
<1>1. /\ pc = "validate" /\ transition /\ wanted = processing /\ wanted[1] = EndOf(Branch)
      /\ processing[2] \in States /\ UNCHANGED <<treeVars, processing>>
  BY DEF Validated, IInv, TypeOK, ProcessInv, localVars, Entering
<1>2. Branch' = Branch
  BY <1>1, Still
<1>3. CASE pc' \in {"enter", "OnChildEnter"} /\ UNCHANGED requestVars
  BY <1>1, <1>2, <1>3 DEF Abstract!vars, requestVars
<1>4. CASE ClearTransition /\ pc' = "loop"
  <2>1. transition' = FALSE
    BY <1>4 DEF ClearTransition
  <2>2. wanted = <<Abstract!End, processing[2]>>
    BY <1>1, AbstractEnd DEF IInv, TypeOK
  <2> QED
    BY <1>1, <1>2, <1>4, <2>1, <2>2 DEF Abstract!Refuse, Abstract!NoChange
<1> QED
  BY <1>3, <1>4 DEF Validated, Goto

LEMMA AbstractEnter ==
  ASSUME IInv, Enter
  PROVE  Abstract!Enter
<1> USE ConstantFacts
<1>1. PICK s \in States : s = processing[2]
  BY DEF Enter, IInv, TypeOK, ProcessInv, Entering
<1>2. PICK p \in MaybeStates : p = processing[1]
  BY DEF IInv, TypeOK
<1>3. /\ pc = "enter" /\ pc' \in {"OnEnter", "create"}
      /\ active' = [active EXCEPT ![s] = TRUE]
      /\ parent' = [parent EXCEPT ![s] = p]
      /\ IF p # NoState THEN child' = [child EXCEPT ![p] = s] /\ top' = top
                        ELSE top' = s /\ child' = child
      /\ UNCHANGED <<transition, wanted, processing>>
  BY <1>1, <1>2 DEF Enter, Goto, requestVars, localVars
<1>4. p = EndOf(Branch) /\ ~active[s] /\ (p # NoState => p \in Parents[s])
  BY <1>1, <1>2, <1>3 DEF IInv, ProcessInv, Entering
<1>5. Branch' = Append(Branch, s)
  BY <1>3, <1>4, AttachBranch DEF IInv, TypeOK, TreeTypes
<1> QED
  BY <1>1, <1>3, <1>5 DEF Abstract!Enter

LEMMA AbstractEntered ==
  ASSUME IInv, EnterReturns
  PROVE  Abstract!Complete \/ UNCHANGED Abstract!vars
<1> USE ConstantFacts
<1>1. /\ pc = "OnEnter" /\ pc' = "loop" /\ transition
      /\ processing[2] \in States /\ processing[2] = EndOf(Branch)
      /\ parent[processing[2]] = processing[1]
      /\ UNCHANGED <<treeVars, processing>>
  BY DEF EnterReturns, Goto, IInv, TypeOK, ProcessInv, localVars, Entered
<1>2. Branch' = Branch
  BY <1>1, Still
<1>3. CASE wanted = processing
  <2>1. transition' = FALSE
    BY <1>3 DEF EnterReturns, ClearTransition
  <2>2. PICK b \in Branches : b = Branch
    BY DEF IInv, BranchInv
  <2>3. /\ Len(b) \in Nat /\ DOMAIN b = 1 .. Len(b)
        /\ b = <<>> <=> Len(b) = 0
    BY BranchTypes
  <2>4. b # <<>> /\ b[Len(b)] = processing[2]
    BY <1>1, <2>2 DEF EndOf
  <2>5. PICK n \in Nat : n = Len(b)
    BY <2>3
  <2>6. n > 0 /\ n \in DOMAIN b
    BY <2>3, <2>4, <2>5
  <2>7. processing[1] = IF n = 1 THEN NoState ELSE b[n - 1]
    BY <1>1, <2>2, <2>4, <2>5, <2>6 DEF IInv, BranchInv
  <2>8. Abstract!Happened
    BY <1>1, <1>3, <2>2, <2>4, <2>5, <2>6, <2>7 DEF Abstract!Happened
  <2> QED
    BY <1>1, <1>2, <2>1, <2>8, AbstractEnd DEF Abstract!Complete, Abstract!NoChange
<1>4. CASE wanted # processing
  <2>1. UNCHANGED <<transition, wanted>>
    BY <1>4 DEF EnterReturns, requestVars
  <2> QED
    BY <1>1, <1>2, <2>1 DEF Abstract!vars
<1> QED
  BY <1>3, <1>4

(* The machine implements GameStates: the last change requested happens,    *)
(* one state at a time, and is not forgotten.  Another thread's request    *)
(* would be, while a context is validated.                                 *)
THEOREM Implements == ~OtherThreads => (Spec => ImplementsGameStates)
<1> SUFFICES ASSUME ~OtherThreads PROVE Spec => ImplementsGameStates
  OBVIOUS
<1>1. Init => Abstract!Init
  <2> SUFFICES ASSUME Init PROVE Abstract!Init
    OBVIOUS
  <2>1. IInv
    BY InvInit
  <2>2. top = NoState
    BY DEF Init
  <2>3. Branch = <<>>
    BY <2>1, <2>2, EndFacts, InBranch DEF IInv
  <2> QED
    BY <2>3 DEF Init, Abstract!Init, Abstract!NoChange
<1>2. IInv /\ [Next]_vars => [Abstract!Next]_(Abstract!vars)
  <2> SUFFICES ASSUME IInv, [Next]_vars
               PROVE  Abstract!Next \/ UNCHANGED Abstract!vars
    OBVIOUS
  <2>1. CASE \/ \E s \in States : Register(s)
             \/ Update \/ Loop \/ Visit \/ UpdateReturns \/ Finish
             \/ ExitReturns \/ Deleted \/ ChildExitReturns \/ ChildEnterReturns
             \/ Created \/ InitReturns \/ Destroy
    BY <2>1, AbstractQuiet
  <2>2. ASSUME NEW p \in MaybeStates, NEW s \in MaybeStates, ChangeState(p, s)
        PROVE  Abstract!Next
    BY <2>2, AbstractRequest DEF Abstract!Next, MaybeStates
  <2>3. CASE BeginDestroy
    <3>1. Abstract!Request(NoState, NoState) => Abstract!Next
      BY DEF Abstract!Next
    <3> QED
      BY <2>3, <3>1, AbstractDestroy
  <2>4. CASE Exit
    BY <2>4, AbstractExit DEF Abstract!Next
  <2>5. CASE ParentReached
    BY <2>5, AbstractParentReached DEF Abstract!Next
  <2>6. CASE Validated
    BY <2>6, AbstractValidated DEF Abstract!Next
  <2>7. CASE Enter
    BY <2>7, AbstractEnter DEF Abstract!Next
  <2>8. CASE EnterReturns
    BY <2>8, AbstractEntered DEF Abstract!Next
  <2>9. CASE UNCHANGED vars
    <3>1. UNCHANGED <<treeVars, transition, wanted, pc, processing>>
      BY <2>9 DEF vars, requestVars, localVars
    <3>2. Branch' = Branch
      BY <3>1, Still
    <3> QED
      BY <3>1, <3>2 DEF Abstract!vars
  <2> QED
    BY <2>1, <2>2, <2>3, <2>4, <2>5, <2>6, <2>7, <2>8, <2>9 DEF Next, UpdateStep
<1> QED
  BY <1>1, <1>2, Invariance, PTL DEF Spec, ImplementsGameStates, Abstract!Spec
=============================================================================
