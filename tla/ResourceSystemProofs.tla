------------------------ MODULE ResourceSystemProofs -------------------------
(***************************************************************************)
(* What holds of ResourceSystem for any pointers, resources and names: an  *)
(* inductive invariant, preserved by one lemma for each action with one    *)
(* step for each of its parts, and what follows from it.                   *)
(***************************************************************************)
EXTENDS MCResourceSystem, FiniteSetTheorems, TLAPS

(***************************************************************************)
(* The inductive invariant: what is true of each call, of each resource    *)
(* and of each name between any two steps.                                 *)
(***************************************************************************)
(* Which calls have a resource, and which a name.                          *)
CallInv ==
  \A p \in Ptrs :
    /\ at[p] \in {"idle", "reserve", "loading"} => res[p] = NoResource
    /\ res[p] = NoResource => at[p] \in {"idle", "reserve", "loading", "naming"}
    /\ at[p] \in {"idle", "held", "decrement", "release", "handler", "finish"}
         => name[p] = NoName
    /\ name[p] = NoName
         => at[p] \notin {"reserve", "loading", "naming", "saving"}

(* What a call knows of the state of its resource.                         *)
StateInv ==
  \A p \in Ptrs :
    /\ at[p] = "entry" => entry[res[p]] = "empty"
    /\ at[p] = "new" => state[res[p]] = "New"
    /\ at[p] \in {"visible", "held", "decrement", "saving"}
         => state[res[p]] \in {"Active", "Releasing"}
    /\ at[p] = "naming" /\ res[p] # NoResource
         => state[res[p]] \in {"Active", "Releasing"}
    /\ at[p] = "release" => state[res[p]] = "Active"
    /\ at[p] \in {"handler", "finish"}
         => state[res[p]] \in {"Releasing", "Deleting"}
    /\ at[p] = "delete" => state[res[p]] = "Deleting"

(* Entries and objects, and who completes what has begun.                  *)
ObjectInv ==
  \A r \in Resources :
    /\ entry[r] \in {"hidden", "visible"} <=> state[r] # "None"
    /\ entry[r] = "visible" => state[r] # "New"
    /\ entry[r] = "empty" => \E p \in Ptrs : at[p] = "entry" /\ res[p] = r
    /\ state[r] = "New" =>
         ref[r] = 1 /\ \E p \in Ptrs : at[p] = "new" /\ res[p] = r
    /\ state[r] = "Releasing" =>
         \E p \in Ptrs : at[p] \in {"handler", "finish"} /\ res[p] = r
    /\ state[r] = "Deleting" =>
         \E p \in Ptrs : at[p] \in {"handler", "finish", "delete"} /\ res[p] = r

(* One call creates a resource.                                            *)
OneCreator ==
  \A p, q \in Ptrs :
    at[p] \in {"entry", "new"} /\ at[q] \in {"entry", "new"} /\ res[p] = res[q]
      => p = q

(* The calls that name resources: no two have the same one, a resource     *)
(* that is being loaded has no name yet, and a name that is being saved    *)
(* stays reserved.                                                         *)
NamingInv ==
  \A p \in Ptrs : name[p] # NoName /\ res[p] # NoResource =>
    /\ \A q \in Ptrs : name[q] # NoName /\ res[q] = res[p] => p = q
    /\ IF at[p] = "saving"
       THEN nameToId[name[p]] = res[p] /\ idToName[res[p]] # name[p]
       ELSE idToName[res[p]] = NoName

(* Only resources that were referenced have names.                         *)
NamedInv ==
  \A r \in Resources : idToName[r] # NoName => state[r] \notin {"None", "New"}

(* Once its manager has ended nothing is in progress but failing loads.    *)
EndedInv == ~registered => \A p \in Ptrs : at[p] \in {"idle", "reserve"}

IInv ==
  /\ TypeOK
  /\ CallInv
  /\ StateInv
  /\ ObjectInv
  /\ OneCreator
  /\ RefAccounting
  /\ OneReleaser
  /\ NamingInv
  /\ NamedInv
  /\ NamesAgree
  /\ LoadedOnce
  /\ EndedInv
  /\ ManagerLeavesNothing

(***************************************************************************)
(* Every action preserves it.                                              *)
(***************************************************************************)
(* A resource that is not created yet, or that some call deletes.          *)
Dead(r) == state[r] \in {"None", "Deleting"}

(* The references to a resource form a finite set, which grows by one with *)
(* a pointer that was not among them and shrinks by one with one that was. *)
LEMMA CountReferences ==
  ASSUME NEW S \in SUBSET Ptrs
  PROVE  /\ Cardinality(S) \in Nat
         /\ Cardinality(S) = 0 <=> S = {}
         /\ \A p \in Ptrs \ S : Cardinality(S \cup {p}) = Cardinality(S) + 1
         /\ \A p \in S : Cardinality(S \ {p}) = Cardinality(S) - 1
         /\ \A p \in S : Cardinality(S) = 1 => S = {p}
<1>1. IsFiniteSet(S)
  BY FS_Subset, ResourceAssumption DEF ResourceAssumption
<1>2. Cardinality(S) \in Nat
  BY <1>1, FS_CardinalityType
<1>3. Cardinality(S) = 0 <=> S = {}
  BY <1>1, FS_EmptySet
<1>4. \A p \in Ptrs \ S : Cardinality(S \cup {p}) = Cardinality(S) + 1
  BY <1>1, FS_AddElement
<1>5. \A p \in S : Cardinality(S \ {p}) = Cardinality(S) - 1
  BY <1>1, FS_RemoveElement
<1>6. \A p \in S : Cardinality(S) = 1 => S = {p}
  BY <1>1, FS_Singleton
<1> QED
  BY <1>2, <1>3, <1>4, <1>5, <1>6

(* What the comparisons of ref_count_ with 1 and 2 say about who refers to *)
(* a resource.                                                             *)
LEMMA CountMeans ==
  ASSUME TypeOK, RefAccounting, NEW r \in Resources, ~ Dead(r)
  PROVE  /\ ref[r] = 1 => References(r) = {}
         /\ \A p \in References(r) : ref[r] >= 2
         /\ \A p \in References(r) : ref[r] = 2 => References(r) = {p}
<1>1. ref[r] = 1 + Cardinality(References(r)) /\ References(r) \in SUBSET Ptrs
  BY DEF RefAccounting, Dead, References
<1> QED
  BY <1>1, CountReferences

(* RefAccounting after a step that changes nothing of it but at resource r.*)
LEMMA OnlyCountOf ==
  ASSUME RefAccounting, NEW r \in Resources,
         \A s \in Resources \ {r} :
           /\ ref'[s] = ref[s] /\ References(s)' = References(s)
           /\ Dead(s)' = Dead(s),
         IF Dead(r)' THEN ref'[r] = 0
                     ELSE ref'[r] = 1 + Cardinality(References(r)')
  PROVE  RefAccounting'
  BY DEF RefAccounting, Dead

LEMMA CountKept ==
  ASSUME RefAccounting, ref' = ref,
         \A s \in Resources :
           References(s)' = References(s) /\ Dead(s)' = Dead(s)
  PROVE  RefAccounting'
  BY DEF RefAccounting, Dead

(* Pointer p becomes a reference to r, and the count is incremented.       *)
LEMMA ReferenceAdded ==
  ASSUME TypeOK, RefAccounting, NEW p \in Ptrs, NEW r \in Resources,
         ~ Dead(r), p \notin References(r),
         ref' = [ref EXCEPT ![r] = ref[r] + 1],
         References(r)' = References(r) \cup {p},
         \A s \in Resources \ {r} : References(s)' = References(s),
         \A s \in Resources : Dead(s)' = Dead(s)
  PROVE  RefAccounting'
<1>1. /\ ref[r] = 1 + Cardinality(References(r))
      /\ References(r) \in SUBSET Ptrs
  BY DEF RefAccounting, Dead, References
<1>2. Cardinality(References(r)') = Cardinality(References(r)) + 1
  BY <1>1, CountReferences
<1>3. ref'[r] = 1 + Cardinality(References(r)')
  BY <1>1, <1>2, CountReferences DEF TypeOK
<1> QED
  BY <1>3, OnlyCountOf

(* Pointer p gives up its reference to r, and the count is decremented.    *)
LEMMA ReferenceRemoved ==
  ASSUME TypeOK, RefAccounting, NEW p \in Ptrs, NEW r \in Resources,
         ~ Dead(r), p \in References(r),
         ref' = [ref EXCEPT ![r] = ref[r] - 1],
         References(r)' = References(r) \ {p},
         \A s \in Resources \ {r} : References(s)' = References(s),
         \A s \in Resources : Dead(s)' = Dead(s)
  PROVE  RefAccounting'
<1>1. /\ ref[r] = 1 + Cardinality(References(r))
      /\ References(r) \in SUBSET Ptrs
  BY DEF RefAccounting, Dead, References
<1>2. Cardinality(References(r)') = Cardinality(References(r)) - 1
  BY <1>1, CountReferences
<1>3. ref'[r] = 1 + Cardinality(References(r)')
  BY <1>1, <1>2, CountReferences DEF TypeOK
<1> QED
  BY <1>3, OnlyCountOf

LEMMA NewResourceEntryStep ==
  ASSUME IInv, NEW p \in Ptrs, NEW r \in Resources,
         NewResourceEntry(p, r)
  PROVE  IInv'
<1> USE ResourceAssumption DEF ResourceAssumption, IInv, NewResourceEntry,
    Go, Set, nameVars, GoWith
<1>1. TypeOK'
  BY DEF TypeOK, Steps
<1>2. CallInv'
  BY DEF TypeOK, CallInv
<1>3. StateInv'
  BY DEF TypeOK, StateInv
<1>4. ObjectInv'
  BY DEF TypeOK, ObjectInv
<1>5. OneCreator'
  BY DEF CallInv, StateInv, ObjectInv, OneCreator
<1>6. RefAccounting'
  <2>1. \A s \in Resources : References(s)' = References(s)
    BY DEF References
  <2> QED
    BY <2>1, CountKept DEF Dead
<1>7. OneReleaser'
  BY DEF OneReleaser
<1>8. NamingInv'
  <2>1. idToName[r] = NoName /\ \A q \in Ptrs : res[q] # r
    BY DEF TypeOK, CallInv, StateInv, ObjectInv, NamesAgree, Steps
  <2> QED
    BY <2>1 DEF NamingInv
<1>9. NamedInv'
  BY DEF NamedInv
<1>10. NamesAgree'
  BY DEF NamesAgree, Saving
<1>11. LoadedOnce'
  BY DEF LoadedOnce, Loading
<1>12. EndedInv'
  BY DEF EndedInv
<1>13. ManagerLeavesNothing'
  BY DEF ManagerLeavesNothing
<1> QED
  BY <1>1, <1>2, <1>3, <1>4, <1>5, <1>6, <1>7, <1>8, <1>9, <1>10, <1>11,
      <1>12, <1>13 DEF IInv

LEMMA ConstructStep ==
  ASSUME IInv, NEW p \in Ptrs,
         Construct(p)
  PROVE  IInv'
<1> USE ResourceAssumption DEF ResourceAssumption, IInv, Construct, Go, Set,
    nameVars
<1>1. TypeOK'
  BY DEF TypeOK, Steps
<1>2. CallInv'
  BY DEF CallInv
<1>3. StateInv'
  BY DEF TypeOK, CallInv, StateInv, ObjectInv, OneCreator
<1>4. ObjectInv'
  BY DEF TypeOK, ObjectInv
<1>5. OneCreator'
  BY DEF OneCreator
<1>6. RefAccounting'
  <2>1. res[p] \in Resources /\ state[res[p]] = "None"
    BY DEF TypeOK, CallInv, StateInv, ObjectInv, Construct
  <2>2. References(res[p])' = {}
    BY <2>1 DEF References, StateInv
  <2>3. ref'[res[p]] = 1 + Cardinality(References(res[p])')
    BY <2>1, <2>2, FS_EmptySet DEF TypeOK
  <2>4. \A s \in Resources \ {res[p]} : References(s)' = References(s)
    BY DEF References
  <2> QED
    BY <2>1, <2>3, <2>4, OnlyCountOf DEF Dead, TypeOK
<1>7. OneReleaser'
  BY DEF OneReleaser
<1>8. NamingInv'
  BY DEF NamingInv
<1>9. NamedInv'
  BY DEF StateInv, NamedInv, ObjectInv
<1>10. NamesAgree'
  BY DEF NamesAgree, Saving
<1>11. LoadedOnce'
  BY DEF LoadedOnce, Loading
<1>12. EndedInv'
  BY DEF EndedInv
<1>13. ManagerLeavesNothing'
  BY DEF EndedInv, ManagerLeavesNothing
<1> QED
  BY <1>1, <1>2, <1>3, <1>4, <1>5, <1>6, <1>7, <1>8, <1>9, <1>10, <1>11,
      <1>12, <1>13 DEF IInv

LEMMA FreeEntryStep ==
  ASSUME IInv, NEW p \in Ptrs,
         FreeEntry(p)
  PROVE  IInv'
<1> USE ResourceAssumption DEF ResourceAssumption, IInv, FreeEntry, Go, Set,
    nameVars, GoWith, RemoveResource, Failed
<1>1. TypeOK'
  BY DEF TypeOK, Steps
<1>2. CallInv'
  BY DEF TypeOK, CallInv
<1>3. StateInv'
  BY DEF TypeOK, StateInv, OneCreator
<1>4. ObjectInv'
  BY DEF TypeOK, StateInv, ObjectInv
<1>5. OneCreator'
  BY DEF CallInv, OneCreator
<1>6. RefAccounting'
  <2>1. \A s \in Resources : References(s)' = References(s)
    BY DEF References, TypeOK
  <2> QED
    BY <2>1, CountKept DEF Dead
<1>7. OneReleaser'
  BY DEF OneReleaser
<1>8. NamingInv'
  BY DEF TypeOK, CallInv, NamingInv, NamesAgree
<1>9. NamedInv'
  BY DEF NamedInv
<1>10. NamesAgree'
  BY DEF TypeOK, CallInv, NamesAgree, Saving
<1>11. LoadedOnce'
  BY DEF TypeOK, CallInv, LoadedOnce, NamesAgree, Loading
<1>12. EndedInv'
  BY DEF EndedInv
<1>13. ManagerLeavesNothing'
  BY DEF ManagerLeavesNothing
<1> QED
  BY <1>1, <1>2, <1>3, <1>4, <1>5, <1>6, <1>7, <1>8, <1>9, <1>10, <1>11,
      <1>12, <1>13 DEF IInv

LEMMA DeleteStep ==
  ASSUME IInv, NEW p \in Ptrs,
         Delete(p)
  PROVE  IInv'
<1> USE ResourceAssumption DEF ResourceAssumption, IInv, Delete, Go, Set,
    nameVars
<1>1. TypeOK'
  BY DEF TypeOK, Steps
<1>2. CallInv'
  BY DEF CallInv
<1>3. StateInv'
  BY DEF TypeOK, CallInv, StateInv, OneCreator
<1>4. ObjectInv'
  BY DEF TypeOK, StateInv, ObjectInv
<1>5. OneCreator'
  BY DEF OneCreator
<1>6. RefAccounting'
  <2>1. res[p] \in Resources
    BY DEF TypeOK, CallInv
  <2>2. \A s \in Resources \ {res[p]} : References(s)' = References(s)
    BY DEF References
  <2> QED
    BY <2>1, <2>2, OnlyCountOf DEF Dead, TypeOK
<1>7. OneReleaser'
  BY DEF StateInv, OneReleaser
<1>8. NamingInv'
  BY DEF NamingInv
<1>9. NamedInv'
  BY DEF NamedInv
<1>10. NamesAgree'
  BY DEF NamesAgree, Saving
<1>11. LoadedOnce'
  BY DEF LoadedOnce, Loading
<1>12. EndedInv'
  BY DEF EndedInv
<1>13. ManagerLeavesNothing'
  BY DEF EndedInv, ManagerLeavesNothing
<1> QED
  BY <1>1, <1>2, <1>3, <1>4, <1>5, <1>6, <1>7, <1>8, <1>9, <1>10, <1>11,
      <1>12, <1>13 DEF IInv

LEMMA PublishStep ==
  ASSUME IInv, NEW p \in Ptrs,
         Publish(p)
  PROVE  IInv'
<1> USE ResourceAssumption DEF ResourceAssumption, IInv, Publish, Go, Set,
    nameVars, GoWith
<1>1. TypeOK'
  BY DEF TypeOK, Steps
<1>2. CallInv'
  BY DEF TypeOK, CallInv
<1>3. StateInv'
  BY DEF TypeOK, StateInv, OneCreator
<1>4. ObjectInv'
  BY DEF TypeOK, ObjectInv
<1>5. OneCreator'
  BY DEF CallInv, OneCreator
<1>6. RefAccounting'
  <2>1. \A s \in Resources : References(s)' = References(s)
    BY DEF References
  <2> QED
    BY <2>1, CountKept DEF Dead, StateInv
<1>7. OneReleaser'
  BY DEF OneReleaser
<1>8. NamingInv'
  BY DEF NamingInv
<1>9. NamedInv'
  BY DEF NamedInv
<1>10. NamesAgree'
  BY DEF NamesAgree, Saving
<1>11. LoadedOnce'
  BY DEF LoadedOnce, Loading
<1>12. EndedInv'
  BY DEF EndedInv
<1>13. ManagerLeavesNothing'
  BY DEF EndedInv, ManagerLeavesNothing
<1> QED
  BY <1>1, <1>2, <1>3, <1>4, <1>5, <1>6, <1>7, <1>8, <1>9, <1>10, <1>11,
      <1>12, <1>13 DEF IInv

LEMMA HoldStep ==
  ASSUME IInv, NEW p \in Ptrs,
         Hold(p)
  PROVE  IInv'
<1> USE ResourceAssumption DEF ResourceAssumption, IInv, Hold, Go, Set,
    nameVars, AddRef
<1>1. TypeOK'
  BY DEF TypeOK, CallInv, Steps
<1>2. CallInv'
  BY DEF CallInv
<1>3. StateInv'
  BY DEF TypeOK, CallInv, StateInv, OneCreator
<1>4. ObjectInv'
  BY DEF TypeOK, StateInv, ObjectInv
<1>5. OneCreator'
  BY DEF OneCreator
<1>6. RefAccounting'
  <2> DEFINE s == res[p]
  <2>1. s \in Resources /\ ~ Dead(s) /\ p \notin References(s)
    BY DEF Dead, References, TypeOK, CallInv, StateInv
  <2>2. PICK t \in Resources : t = s
    BY <2>1
  <2>3. References(t)' = References(t) \cup {p}
    BY <2>1, <2>2 DEF References, TypeOK
  <2>4. \A u \in Resources \ {t} : References(u)' = References(u)
    BY <2>2 DEF References
  <2>5. \A u \in Resources : Dead(u)' = Dead(u)
    BY DEF Dead, StateInv
  <2>6. ref' = [ref EXCEPT ![t] = ref[t] + 1]
    BY <2>2
  <2> QED
    BY <2>1, <2>2, <2>3, <2>4, <2>5, <2>6, ReferenceAdded
<1>7. OneReleaser'
  BY DEF OneReleaser
<1>8. NamingInv'
  BY DEF NamingInv
<1>9. NamedInv'
  BY DEF NamedInv
<1>10. NamesAgree'
  BY DEF NamesAgree, Saving
<1>11. LoadedOnce'
  BY DEF LoadedOnce, Loading
<1>12. EndedInv'
  BY DEF EndedInv
<1>13. ManagerLeavesNothing'
  BY DEF EndedInv, ManagerLeavesNothing
<1> QED
  BY <1>1, <1>2, <1>3, <1>4, <1>5, <1>6, <1>7, <1>8, <1>9, <1>10, <1>11,
      <1>12, <1>13 DEF IInv

LEMMA MakeVisibleStep ==
  ASSUME IInv, NEW p \in Ptrs,
         MakeVisible(p)
  PROVE  IInv'
<1> USE ResourceAssumption DEF ResourceAssumption, IInv, MakeVisible, Go,
    Set, nameVars, Created
<1>1. TypeOK'
  BY DEF TypeOK, Steps
<1>2. CallInv'
  BY DEF CallInv
<1>3. StateInv'
  BY DEF TypeOK, StateInv, ObjectInv
<1>4. ObjectInv'
  BY DEF StateInv, ObjectInv
<1>5. OneCreator'
  BY DEF OneCreator
<1>6. RefAccounting'
  <2>1. \A s \in Resources : References(s)' = References(s)
    BY DEF References
  <2> QED
    BY <2>1, CountKept DEF Dead
<1>7. OneReleaser'
  BY DEF OneReleaser
<1>8. NamingInv'
  BY DEF NamingInv
<1>9. NamedInv'
  BY DEF NamedInv
<1>10. NamesAgree'
  BY DEF NamesAgree, Saving
<1>11. LoadedOnce'
  BY DEF LoadedOnce, Loading
<1>12. EndedInv'
  BY DEF EndedInv
<1>13. ManagerLeavesNothing'
  BY DEF ManagerLeavesNothing
<1> QED
  BY <1>1, <1>2, <1>3, <1>4, <1>5, <1>6, <1>7, <1>8, <1>9, <1>10, <1>11,
      <1>12, <1>13 DEF IInv

LEMMA GetStep ==
  ASSUME IInv, NEW p \in Ptrs, NEW r \in Resources,
         Get(p, r)
  PROVE  IInv'
<1> USE ResourceAssumption DEF ResourceAssumption, IInv, Get, Go, Set,
    nameVars, AddRef, GoWith
<1>1. TypeOK'
  BY DEF TypeOK, Steps
<1>2. CallInv'
  BY DEF TypeOK, CallInv
<1>3. StateInv'
  BY DEF TypeOK, StateInv, ObjectInv, RefAccounting
<1>4. ObjectInv'
  BY DEF ObjectInv
<1>5. OneCreator'
  BY DEF OneCreator
<1>6. RefAccounting'
  <2> DEFINE s == r
  <2>1. s \in Resources /\ ~ Dead(s) /\ p \notin References(s)
    BY DEF Dead, References, RefAccounting
  <2>2. PICK t \in Resources : t = s
    BY <2>1
  <2>3. References(t)' = References(t) \cup {p}
    BY <2>1, <2>2 DEF References, TypeOK
  <2>4. \A u \in Resources \ {t} : References(u)' = References(u)
    BY <2>2 DEF References, CallInv
  <2>5. \A u \in Resources : Dead(u)' = Dead(u)
    BY DEF Dead
  <2>6. ref' = [ref EXCEPT ![t] = ref[t] + 1]
    BY <2>2
  <2> QED
    BY <2>1, <2>2, <2>3, <2>4, <2>5, <2>6, ReferenceAdded
<1>7. OneReleaser'
  BY DEF OneReleaser
<1>8. NamingInv'
  BY DEF CallInv, NamingInv
<1>9. NamedInv'
  BY DEF NamedInv
<1>10. NamesAgree'
  BY DEF NamesAgree, Saving
<1>11. LoadedOnce'
  BY DEF LoadedOnce, Loading
<1>12. EndedInv'
  BY DEF ObjectInv, EndedInv, ManagerLeavesNothing
<1>13. ManagerLeavesNothing'
  BY DEF ManagerLeavesNothing
<1> QED
  BY <1>1, <1>2, <1>3, <1>4, <1>5, <1>6, <1>7, <1>8, <1>9, <1>10, <1>11,
      <1>12, <1>13 DEF IInv

LEMMA CopyStep ==
  ASSUME IInv, NEW p \in Ptrs, NEW q \in Ptrs,
         Copy(p, q)
  PROVE  IInv'
<1> USE ResourceAssumption DEF ResourceAssumption, IInv, Copy, Go, Set,
    nameVars, AddRef, GoWith
<1>1. TypeOK'
  BY DEF TypeOK, CallInv
<1>2. CallInv'
  BY DEF TypeOK, CallInv
<1>3. StateInv'
  BY DEF TypeOK, StateInv
<1>4. ObjectInv'
  BY DEF StateInv, ObjectInv
<1>5. OneCreator'
  BY DEF OneCreator
<1>6. RefAccounting'
  <2> DEFINE s == res[p]
  <2>1. s \in Resources /\ ~ Dead(s) /\ q \notin References(s)
    BY DEF Dead, References, TypeOK, CallInv, StateInv
  <2>2. PICK t \in Resources : t = s
    BY <2>1
  <2>3. References(t)' = References(t) \cup {q}
    BY <2>1, <2>2 DEF References, TypeOK
  <2>4. \A u \in Resources \ {t} : References(u)' = References(u)
    BY <2>2 DEF References, CallInv
  <2>5. \A u \in Resources : Dead(u)' = Dead(u)
    BY DEF Dead
  <2>6. ref' = [ref EXCEPT ![t] = ref[t] + 1]
    BY <2>2
  <2> QED
    BY <2>1, <2>2, <2>3, <2>4, <2>5, <2>6, ReferenceAdded
<1>7. OneReleaser'
  BY DEF OneReleaser
<1>8. NamingInv'
  BY DEF CallInv, NamingInv
<1>9. NamedInv'
  BY DEF NamedInv
<1>10. NamesAgree'
  BY DEF NamesAgree, Saving
<1>11. LoadedOnce'
  BY DEF LoadedOnce, Loading
<1>12. EndedInv'
  BY DEF EndedInv
<1>13. ManagerLeavesNothing'
  BY DEF ManagerLeavesNothing
<1> QED
  BY <1>1, <1>2, <1>3, <1>4, <1>5, <1>6, <1>7, <1>8, <1>9, <1>10, <1>11,
      <1>12, <1>13 DEF IInv

LEMMA SetResourceVisibleStep ==
  ASSUME IInv, NEW p \in Ptrs, NEW v \in BOOLEAN,
         SetResourceVisible(p, v)
  PROVE  IInv'
<1> USE ResourceAssumption DEF ResourceAssumption, IInv, SetResourceVisible,
    Go, Set, nameVars, ptrVars
<1>1. TypeOK'
  BY DEF TypeOK
<1>2. CallInv'
  BY DEF CallInv
<1>3. StateInv'
  BY DEF TypeOK, StateInv, ObjectInv
<1>4. ObjectInv'
  BY DEF StateInv, ObjectInv
<1>5. OneCreator'
  BY DEF OneCreator
<1>6. RefAccounting'
  <2>1. \A s \in Resources : References(s)' = References(s)
    BY DEF References
  <2> QED
    BY <2>1, CountKept DEF Dead
<1>7. OneReleaser'
  BY DEF OneReleaser
<1>8. NamingInv'
  BY DEF NamingInv
<1>9. NamedInv'
  BY DEF NamedInv
<1>10. NamesAgree'
  BY DEF NamesAgree, Saving
<1>11. LoadedOnce'
  BY DEF LoadedOnce, Loading
<1>12. EndedInv'
  BY DEF EndedInv
<1>13. ManagerLeavesNothing'
  BY DEF ManagerLeavesNothing
<1> QED
  BY <1>1, <1>2, <1>3, <1>4, <1>5, <1>6, <1>7, <1>8, <1>9, <1>10, <1>11,
      <1>12, <1>13 DEF IInv

LEMMA RemoveRefStep ==
  ASSUME IInv, NEW p \in Ptrs,
         RemoveRef(p)
  PROVE  IInv'
<1> USE ResourceAssumption DEF ResourceAssumption, IInv, RemoveRef, Go, Set,
    nameVars, objectVars
<1>a. /\ res[p] \in Resources /\ state[res[p]] \in {"Active", "Releasing"}
      /\ ref[res[p]] = 2 => References(res[p]) = {p}
  BY CountMeans DEF RemoveRef, Dead, References, TypeOK, CallInv, StateInv
<1>b. ref[res[p]] = 2 =>
        \A q \in Ptrs : res[q] = res[p] =>
          q = p \/ at[q] \notin {"release", "handler", "finish", "delete"}
  BY <1>a DEF References, StateInv
<1>1. TypeOK'
  BY DEF TypeOK, Steps
<1>2. CallInv'
  BY DEF CallInv
<1>3. StateInv'
  BY <1>a, <1>b DEF StateInv, ObjectInv
<1>4. ObjectInv'
  BY DEF ObjectInv
<1>5. OneCreator'
  BY DEF OneCreator
<1>6. RefAccounting'
  <2>1. \A s \in Resources : References(s)' = References(s)
    BY DEF References
  <2> QED
    BY <2>1, CountKept DEF Dead
<1>7. OneReleaser'
  BY <1>a, <1>b DEF OneReleaser
<1>8. NamingInv'
  BY DEF NamingInv
<1>9. NamedInv'
  BY DEF NamedInv
<1>10. NamesAgree'
  BY DEF NamesAgree, Saving
<1>11. LoadedOnce'
  BY DEF LoadedOnce, Loading
<1>12. EndedInv'
  BY DEF EndedInv
<1>13. ManagerLeavesNothing'
  BY DEF ManagerLeavesNothing
<1> QED
  BY <1>1, <1>2, <1>3, <1>4, <1>5, <1>6, <1>7, <1>8, <1>9, <1>10, <1>11,
      <1>12, <1>13 DEF IInv

LEMMA DecrementStep ==
  ASSUME IInv, NEW p \in Ptrs,
         Decrement(p)
  PROVE  IInv'
<1> USE ResourceAssumption DEF ResourceAssumption, IInv, Decrement, Go, Set,
    nameVars, GoWith
<1>a. res[p] \in Resources /\ ref[res[p]] >= 2
  BY CountMeans DEF Decrement, Dead, References, TypeOK, CallInv, StateInv
<1>1. TypeOK'
  BY <1>a DEF TypeOK, Steps
<1>2. CallInv'
  BY DEF TypeOK, CallInv
<1>3. StateInv'
  BY DEF TypeOK, StateInv
<1>4. ObjectInv'
  BY DEF StateInv, ObjectInv
<1>5. OneCreator'
  BY DEF OneCreator
<1>6. RefAccounting'
  <2>1. PICK r \in Resources : r = res[p] /\ ~ Dead(r) /\ p \in References(r)
    BY DEF Dead, References, TypeOK, CallInv, StateInv
  <2>2. References(r)' = References(r) \ {p}
    BY <2>1 DEF References, TypeOK
  <2>3. \A s \in Resources \ {r} : References(s)' = References(s)
    BY <2>1 DEF References
  <2>4. \A s \in Resources : Dead(s)' = Dead(s)
    BY <2>1 DEF Dead
  <2>5. ref' = [ref EXCEPT ![r] = ref[r] - 1]
    BY <2>1
  <2> QED
    BY <2>1, <2>2, <2>3, <2>4, <2>5, ReferenceRemoved
<1>7. OneReleaser'
  BY DEF OneReleaser
<1>8. NamingInv'
  BY DEF NamingInv
<1>9. NamedInv'
  BY DEF NamedInv
<1>10. NamesAgree'
  BY DEF NamesAgree, Saving
<1>11. LoadedOnce'
  BY DEF LoadedOnce, Loading
<1>12. EndedInv'
  BY DEF EndedInv
<1>13. ManagerLeavesNothing'
  BY DEF ManagerLeavesNothing
<1> QED
  BY <1>1, <1>2, <1>3, <1>4, <1>5, <1>6, <1>7, <1>8, <1>9, <1>10, <1>11,
      <1>12, <1>13 DEF IInv

LEMMA ReleaseStep ==
  ASSUME IInv, NEW p \in Ptrs,
         Release(p)
  PROVE  IInv'
<1> USE ResourceAssumption DEF ResourceAssumption, IInv, Release, Go, Set,
    nameVars
<1>1. TypeOK'
  BY DEF TypeOK, Steps
<1>2. CallInv'
  BY DEF CallInv
<1>3. StateInv'
  BY DEF TypeOK, CallInv, StateInv, OneReleaser
<1>4. ObjectInv'
  BY DEF TypeOK, StateInv, ObjectInv
<1>5. OneCreator'
  BY DEF OneCreator
<1>6. RefAccounting'
  <2>1. \A s \in Resources : References(s)' = References(s)
    BY DEF References
  <2> QED
    BY <2>1, CountKept DEF Dead, StateInv
<1>7. OneReleaser'
  BY DEF OneReleaser
<1>8. NamingInv'
  BY DEF NamingInv
<1>9. NamedInv'
  BY DEF NamedInv
<1>10. NamesAgree'
  BY DEF NamesAgree, Saving
<1>11. LoadedOnce'
  BY DEF LoadedOnce, Loading
<1>12. EndedInv'
  BY DEF EndedInv
<1>13. ManagerLeavesNothing'
  BY DEF EndedInv, ManagerLeavesNothing
<1> QED
  BY <1>1, <1>2, <1>3, <1>4, <1>5, <1>6, <1>7, <1>8, <1>9, <1>10, <1>11,
      <1>12, <1>13 DEF IInv

LEMMA ReleaseResourceStep ==
  ASSUME IInv, NEW p \in Ptrs,
         ReleaseResource(p)
  PROVE  IInv'
<1> USE ResourceAssumption DEF ResourceAssumption, IInv, ReleaseResource, Go,
    Set, nameVars, CanDelete, MarkDeleted
<1>a. CanDelete(res[p]) => References(res[p]) = {p}
  <2>1. res[p] \in Resources /\ state[res[p]] \in {"Releasing", "Deleting"}
    BY DEF ReleaseResource, TypeOK, CallInv, StateInv
  <2>2. CASE state[res[p]] = "Releasing"
    <3>1. ~ Dead(res[p]) /\ p \in References(res[p])
      BY <2>1, <2>2 DEF Dead, References, ReleaseResource
    <3> QED
      BY <2>1, <2>2, <3>1, CountMeans DEF CanDelete
  <2>3. CASE state[res[p]] = "Deleting"
    BY <2>1, <2>3 DEF CanDelete, RefAccounting
  <2> QED
    BY <2>1, <2>2, <2>3
<1>1. TypeOK'
  BY DEF TypeOK, Steps
<1>2. CallInv'
  BY DEF CallInv
<1>3. StateInv'
  BY <1>a DEF TypeOK, CallInv, StateInv, References
<1>4. ObjectInv'
  BY DEF TypeOK, StateInv, ObjectInv
<1>5. OneCreator'
  BY DEF OneCreator
<1>6. RefAccounting'
  <2>1. res[p] \in Resources
    BY DEF TypeOK, CallInv
  <2>2. \A s \in Resources : References(s)' = References(s)
    BY DEF References
  <2>3. CASE res[p] \notin Cached /\ CanDelete(res[p])
    BY <2>1, <2>2, <2>3, OnlyCountOf DEF Dead, TypeOK
  <2>4. CASE ~ (res[p] \notin Cached /\ CanDelete(res[p]))
    BY <2>2, <2>4, CountKept DEF Dead
  <2> QED
    BY <2>3, <2>4
<1>7. OneReleaser'
  BY DEF OneReleaser
<1>8. NamingInv'
  BY DEF NamingInv
<1>9. NamedInv'
  BY DEF TypeOK, NamedInv
<1>10. NamesAgree'
  BY DEF NamesAgree, Saving
<1>11. LoadedOnce'
  BY DEF LoadedOnce, Loading
<1>12. EndedInv'
  BY DEF EndedInv
<1>13. ManagerLeavesNothing'
  BY DEF EndedInv, ManagerLeavesNothing
<1> QED
  BY <1>1, <1>2, <1>3, <1>4, <1>5, <1>6, <1>7, <1>8, <1>9, <1>10, <1>11,
      <1>12, <1>13 DEF IInv

LEMMA FinishReleaseStep ==
  ASSUME IInv, NEW p \in Ptrs,
         FinishRelease(p)
  PROVE  IInv'
<1> USE ResourceAssumption DEF ResourceAssumption, IInv, FinishRelease, Go,
    Set, nameVars, GoWith
<1>a. state[res[p]] # "Deleting" => res[p] \in Resources /\ ref[res[p]] >= 2
  BY CountMeans DEF FinishRelease, Dead, References, TypeOK, CallInv, StateInv
<1>1. TypeOK'
  BY <1>a DEF TypeOK, Steps
<1>2. CallInv'
  BY DEF TypeOK, CallInv
<1>3. StateInv'
  BY DEF TypeOK, CallInv, StateInv, OneReleaser
<1>4. ObjectInv'
  BY DEF TypeOK, StateInv, ObjectInv
<1>5. OneCreator'
  BY DEF TypeOK, OneCreator
<1>6. RefAccounting'
  <2>1. CASE state[res[p]] = "Deleting"
    <3>1. \A s \in Resources \ {res[p]} : References(s)' = References(s)
      BY <2>1 DEF References, TypeOK
    <3> QED
      BY <2>1, <3>1, OnlyCountOf DEF RefAccounting
  <2>2. CASE state[res[p]] # "Deleting"
    <3>1. PICK r \in Resources : r = res[p] /\ ~ Dead(r) /\ p \in References(r)
      BY <2>2 DEF Dead, References, TypeOK, CallInv, StateInv
    <3>2. References(r)' = References(r) \ {p}
      BY <2>2, <3>1 DEF References, TypeOK
    <3>3. \A s \in Resources \ {r} : References(s)' = References(s)
      BY <2>2, <3>1 DEF References, TypeOK
    <3>4. \A s \in Resources : Dead(s)' = Dead(s)
      BY <2>2, <3>1 DEF Dead, TypeOK
    <3>5. ref' = [ref EXCEPT ![r] = ref[r] - 1]
      BY <2>2, <3>1
    <3> QED
      BY <2>2, <3>1, <3>2, <3>3, <3>4, <3>5, ReferenceRemoved
  <2> QED
    BY <2>1, <2>2
<1>7. OneReleaser'
  BY DEF TypeOK, OneReleaser
<1>8. NamingInv'
  BY DEF TypeOK, NamingInv
<1>9. NamedInv'
  BY DEF TypeOK, NamedInv
<1>10. NamesAgree'
  BY DEF TypeOK, NamesAgree, Saving
<1>11. LoadedOnce'
  BY DEF TypeOK, NamingInv, LoadedOnce, NamesAgree, NamedInv, Loading
<1>12. EndedInv'
  BY DEF EndedInv
<1>13. ManagerLeavesNothing'
  BY DEF EndedInv, ManagerLeavesNothing
<1> QED
  BY <1>1, <1>2, <1>3, <1>4, <1>5, <1>6, <1>7, <1>8, <1>9, <1>10, <1>11,
      <1>12, <1>13 DEF IInv

LEMMA MaybeDeleteResourceStep ==
  ASSUME IInv, NEW p \in Ptrs, NEW r \in Resources,
         MaybeDeleteResource(p, r)
  PROVE  IInv'
<1> USE ResourceAssumption DEF ResourceAssumption, IInv, MaybeDeleteResource,
    Go, Set, nameVars, CanDelete, MarkDeleted, ptrVars, GoWith
<1>a. /\ state[r] = "Active" => References(r) = {}
      /\ state[r] = "Releasing" => \E q \in Ptrs :
           at[q] \in {"handler", "finish"} /\ References(r) = {q}
  <2>1. state[r] = "Active" => References(r) = {}
    BY CountMeans DEF MaybeDeleteResource, CanDelete, Dead
  <2>2. ASSUME state[r] = "Releasing"
        PROVE  \E q \in Ptrs :
                  at[q] \in {"handler", "finish"} /\ References(r) = {q}
    BY <2>2, CountMeans DEF MaybeDeleteResource, CanDelete, Dead, References,
        ObjectInv
  <2> QED
    BY <2>1, <2>2
<1>1. TypeOK'
  BY DEF TypeOK, Steps
<1>2. CallInv'
  BY DEF TypeOK, CallInv
<1>3. StateInv'
  BY <1>a DEF TypeOK, StateInv, References
<1>4. ObjectInv'
  BY DEF TypeOK, ObjectInv
<1>5. OneCreator'
  BY DEF TypeOK, OneCreator
<1>6. RefAccounting'
  <2>1. r \in Resources
    OBVIOUS
  <2>2. \A s \in Resources \ {r} : References(s)' = References(s)
    BY DEF References, TypeOK
  <2> QED
    BY <2>1, <2>2, OnlyCountOf DEF Dead, TypeOK
<1>7. OneReleaser'
  BY <1>a DEF TypeOK, StateInv, References, OneReleaser
<1>8. NamingInv'
  BY DEF TypeOK, CallInv, NamingInv
<1>9. NamedInv'
  BY DEF NamedInv
<1>10. NamesAgree'
  BY DEF TypeOK, NamesAgree, Saving
<1>11. LoadedOnce'
  BY SMTT(30) DEF TypeOK, NamingInv, LoadedOnce, StateInv, NamesAgree, NamedInv,
      ObjectInv, Loading
<1>12. EndedInv'
  BY DEF EndedInv, ManagerLeavesNothing
<1>13. ManagerLeavesNothing'
  BY DEF ManagerLeavesNothing
<1> QED
  BY <1>1, <1>2, <1>3, <1>4, <1>5, <1>6, <1>7, <1>8, <1>9, <1>10, <1>11,
      <1>12, <1>13 DEF IInv

LEMMA DestroyStep ==
  ASSUME IInv, NEW p \in Ptrs,
         Destroy(p)
  PROVE  IInv'
<1> USE ResourceAssumption DEF ResourceAssumption, IInv, Destroy, Go, Set,
    nameVars, GoWith, RemoveResource, Failed
<1>1. TypeOK'
  BY DEF TypeOK, Steps
<1>2. CallInv'
  BY DEF TypeOK, CallInv
<1>3. StateInv'
  BY DEF TypeOK, StateInv, ObjectInv, OneReleaser
<1>4. ObjectInv'
  BY DEF TypeOK, ObjectInv
<1>5. OneCreator'
  BY DEF OneCreator
<1>6. RefAccounting'
  <2>1. \A s \in Resources : References(s)' = References(s)
    BY DEF References, TypeOK
  <2> QED
    BY <2>1, CountKept DEF Dead, StateInv
<1>7. OneReleaser'
  BY DEF CallInv, OneReleaser
<1>8. NamingInv'
  BY DEF TypeOK, CallInv, NamingInv, NamesAgree
<1>9. NamedInv'
  BY DEF TypeOK, NamedInv
<1>10. NamesAgree'
  BY DEF TypeOK, CallInv, NamesAgree, Saving
<1>11. LoadedOnce'
  BY DEF TypeOK, CallInv, LoadedOnce, NamesAgree, Loading
<1>12. EndedInv'
  BY DEF EndedInv
<1>13. ManagerLeavesNothing'
  BY DEF ManagerLeavesNothing
<1> QED
  BY <1>1, <1>2, <1>3, <1>4, <1>5, <1>6, <1>7, <1>8, <1>9, <1>10, <1>11,
      <1>12, <1>13 DEF IInv

LEMMA LoadExistingStep ==
  ASSUME IInv, NEW p \in Ptrs, NEW n \in Names,
         LoadExisting(p, n)
  PROVE  IInv'
<1> USE ResourceAssumption DEF ResourceAssumption, IInv, LoadExisting, Go,
    Set, nameVars, AddRef, GoWith
<1>a. /\ nameToId[n] \in Resources
      /\ state[nameToId[n]] \in {"Active", "Releasing"}
  <2>1. nameToId[n] \in Resources /\ state[nameToId[n]] \notin {"None", "New"}
    BY DEF LoadExisting, NamesAgree, Saving, NamedInv, StateInv
  <2>2. state[nameToId[n]] # "Deleting"
    BY <2>1 DEF LoadExisting, RefAccounting
  <2> QED
    BY <2>1, <2>2 DEF TypeOK
<1>1. TypeOK'
  BY DEF TypeOK, Steps
<1>2. CallInv'
  BY DEF TypeOK, CallInv
<1>3. StateInv'
  BY <1>a DEF TypeOK, StateInv
<1>4. ObjectInv'
  BY <1>a DEF ObjectInv
<1>5. OneCreator'
  BY DEF OneCreator
<1>6. RefAccounting'
  <2> DEFINE s == nameToId[n]
  <2>1. s \in Resources /\ ~ Dead(s) /\ p \notin References(s)
    BY DEF Dead, References, RefAccounting
  <2>2. PICK t \in Resources : t = s
    BY <2>1
  <2>3. References(t)' = References(t) \cup {p}
    BY <2>1, <2>2 DEF References, TypeOK
  <2>4. \A u \in Resources \ {t} : References(u)' = References(u)
    BY <2>2 DEF References, CallInv
  <2>5. \A u \in Resources : Dead(u)' = Dead(u)
    BY DEF Dead
  <2>6. ref' = [ref EXCEPT ![t] = ref[t] + 1]
    BY <2>2
  <2> QED
    BY <2>1, <2>2, <2>3, <2>4, <2>5, <2>6, ReferenceAdded
<1>7. OneReleaser'
  BY DEF OneReleaser
<1>8. NamingInv'
  BY DEF CallInv, NamingInv
<1>9. NamedInv'
  BY DEF NamedInv
<1>10. NamesAgree'
  BY DEF NamesAgree, Saving
<1>11. LoadedOnce'
  BY DEF LoadedOnce, Loading
<1>12. EndedInv'
  BY DEF ObjectInv, EndedInv, ManagerLeavesNothing
<1>13. ManagerLeavesNothing'
  BY DEF ManagerLeavesNothing
<1> QED
  BY <1>1, <1>2, <1>3, <1>4, <1>5, <1>6, <1>7, <1>8, <1>9, <1>10, <1>11,
      <1>12, <1>13 DEF IInv

LEMMA LoadNewStep ==
  ASSUME IInv, NEW p \in Ptrs, NEW n \in Names,
         LoadNew(p, n)
  PROVE  IInv'
<1> USE ResourceAssumption DEF ResourceAssumption, IInv, LoadNew, Go, Set,
    nameVars, objectVars
<1>1. TypeOK'
  BY DEF TypeOK, Steps
<1>2. CallInv'
  BY DEF TypeOK, CallInv
<1>3. StateInv'
  BY DEF StateInv
<1>4. ObjectInv'
  BY DEF ObjectInv
<1>5. OneCreator'
  BY DEF OneCreator
<1>6. RefAccounting'
  <2>1. \A s \in Resources : References(s)' = References(s)
    BY DEF References
  <2> QED
    BY <2>1, CountKept DEF Dead
<1>7. OneReleaser'
  BY DEF OneReleaser
<1>8. NamingInv'
  BY DEF CallInv, NamingInv
<1>9. NamedInv'
  BY DEF NamedInv
<1>10. NamesAgree'
  BY DEF NamesAgree, Saving
<1>11. LoadedOnce'
  BY DEF TypeOK, CallInv, LoadedOnce, Loading
<1>12. EndedInv'
  BY DEF EndedInv
<1>13. ManagerLeavesNothing'
  BY DEF ManagerLeavesNothing
<1> QED
  BY <1>1, <1>2, <1>3, <1>4, <1>5, <1>6, <1>7, <1>8, <1>9, <1>10, <1>11,
      <1>12, <1>13 DEF IInv

LEMMA LoadReserveStep ==
  ASSUME IInv, NEW p \in Ptrs,
         LoadReserve(p)
  PROVE  IInv'
<1> USE ResourceAssumption DEF ResourceAssumption, IInv, LoadReserve, Go,
    Set, nameVars, objectVars, CanReserve
<1>1. TypeOK'
  BY DEF TypeOK, Steps
<1>2. CallInv'
  BY DEF TypeOK, CallInv
<1>3. StateInv'
  BY DEF TypeOK, StateInv
<1>4. ObjectInv'
  BY DEF TypeOK, ObjectInv
<1>5. OneCreator'
  BY DEF TypeOK, OneCreator
<1>6. RefAccounting'
  <2>1. \A s \in Resources : References(s)' = References(s)
    BY DEF References, TypeOK
  <2> QED
    BY <2>1, CountKept DEF Dead
<1>7. OneReleaser'
  BY DEF TypeOK, OneReleaser
<1>8. NamingInv'
  BY DEF TypeOK, NamingInv
<1>9. NamedInv'
  BY DEF NamedInv
<1>10. NamesAgree'
  BY DEF TypeOK, NamesAgree, Saving
<1>11. LoadedOnce'
  BY DEF TypeOK, CallInv, NamingInv, LoadedOnce, StateInv, NamesAgree,
      NamedInv, Loading
<1>12. EndedInv'
  BY DEF TypeOK, EndedInv
<1>13. ManagerLeavesNothing'
  BY DEF ManagerLeavesNothing
<1> QED
  BY <1>1, <1>2, <1>3, <1>4, <1>5, <1>6, <1>7, <1>8, <1>9, <1>10, <1>11,
      <1>12, <1>13 DEF IInv

LEMMA LoaderFailsStep ==
  ASSUME IInv, NEW p \in Ptrs,
         LoaderFails(p)
  PROVE  IInv'
<1> USE ResourceAssumption DEF ResourceAssumption, IInv, LoaderFails, Go,
    Set, nameVars, GoWith, objectVars
<1>1. TypeOK'
  BY DEF TypeOK, Steps
<1>2. CallInv'
  BY DEF CallInv
<1>3. StateInv'
  BY DEF CallInv, StateInv
<1>4. ObjectInv'
  BY DEF ObjectInv
<1>5. OneCreator'
  BY DEF OneCreator
<1>6. RefAccounting'
  <2>1. \A s \in Resources : References(s)' = References(s)
    BY DEF References, CallInv
  <2> QED
    BY <2>1, CountKept DEF Dead
<1>7. OneReleaser'
  BY DEF OneReleaser
<1>8. NamingInv'
  BY DEF NamingInv
<1>9. NamedInv'
  BY DEF NamedInv
<1>10. NamesAgree'
  BY DEF NamesAgree, Saving
<1>11. LoadedOnce'
  BY DEF LoadedOnce, Loading
<1>12. EndedInv'
  BY DEF EndedInv
<1>13. ManagerLeavesNothing'
  BY DEF ManagerLeavesNothing
<1> QED
  BY <1>1, <1>2, <1>3, <1>4, <1>5, <1>6, <1>7, <1>8, <1>9, <1>10, <1>11,
      <1>12, <1>13 DEF IInv

LEMMA NameLoadedStep ==
  ASSUME IInv, NEW p \in Ptrs,
         NameLoaded(p)
  PROVE  IInv'
<1> USE ResourceAssumption DEF ResourceAssumption, IInv, NameLoaded, Go, Set,
    nameVars, objectVars
<1>1. TypeOK'
  BY DEF TypeOK, Steps
<1>2. CallInv'
  BY DEF TypeOK, CallInv
<1>3. StateInv'
  BY DEF StateInv
<1>4. ObjectInv'
  BY DEF ObjectInv
<1>5. OneCreator'
  BY DEF OneCreator
<1>6. RefAccounting'
  <2>1. \A s \in Resources : References(s)' = References(s)
    BY DEF References
  <2> QED
    BY <2>1, CountKept DEF Dead
<1>7. OneReleaser'
  BY DEF OneReleaser
<1>8. NamingInv'
  BY DEF TypeOK, NamingInv, LoadedOnce, Loading
<1>9. NamedInv'
  BY DEF TypeOK, StateInv, NamedInv
<1>10. NamesAgree'
  BY DEF TypeOK, CallInv, StateInv, ObjectInv, NamingInv, NamesAgree, Saving,
      LoadedOnce, Loading
<1>11. LoadedOnce'
  BY DEF TypeOK, LoadedOnce, Loading
<1>12. EndedInv'
  BY DEF EndedInv
<1>13. ManagerLeavesNothing'
  BY DEF ManagerLeavesNothing
<1> QED
  BY <1>1, <1>2, <1>3, <1>4, <1>5, <1>6, <1>7, <1>8, <1>9, <1>10, <1>11,
      <1>12, <1>13 DEF IInv

LEMMA ReserveResourceNameStep ==
  ASSUME IInv, NEW p \in Ptrs, NEW n \in Names,
         ReserveResourceName(p, n)
  PROVE  IInv'
<1> USE ResourceAssumption DEF ResourceAssumption, IInv, ReserveResourceName,
    Go, Set, nameVars, SavesAlone, objectVars
<1>1. TypeOK'
  BY DEF TypeOK, Steps
<1>2. CallInv'
  BY DEF TypeOK, CallInv
<1>3. StateInv'
  BY DEF StateInv
<1>4. ObjectInv'
  BY DEF ObjectInv
<1>5. OneCreator'
  BY DEF OneCreator
<1>6. RefAccounting'
  <2>1. \A s \in Resources : References(s)' = References(s)
    BY DEF References
  <2> QED
    BY <2>1, CountKept DEF Dead
<1>7. OneReleaser'
  BY DEF OneReleaser
<1>8. NamingInv'
  BY DEF TypeOK, NamingInv
<1>9. NamedInv'
  BY DEF NamedInv
<1>10. NamesAgree'
  BY DEF TypeOK, NamesAgree, Saving
<1>11. LoadedOnce'
  BY DEF TypeOK, LoadedOnce, Loading
<1>12. EndedInv'
  BY DEF EndedInv
<1>13. ManagerLeavesNothing'
  BY DEF ManagerLeavesNothing
<1> QED
  BY <1>1, <1>2, <1>3, <1>4, <1>5, <1>6, <1>7, <1>8, <1>9, <1>10, <1>11,
      <1>12, <1>13 DEF IInv

LEMMA ApplyResourceNameStep ==
  ASSUME IInv, NEW p \in Ptrs,
         ApplyResourceName(p)
  PROVE  IInv'
<1> USE ResourceAssumption DEF ResourceAssumption, IInv, ApplyResourceName,
    Go, Set, nameVars, DoneSaving, objectVars
<1>1. TypeOK'
  BY DEF TypeOK, Steps
<1>2. CallInv'
  BY DEF TypeOK, CallInv
<1>3. StateInv'
  BY DEF StateInv
<1>4. ObjectInv'
  BY DEF ObjectInv
<1>5. OneCreator'
  BY DEF OneCreator
<1>6. RefAccounting'
  <2>1. \A s \in Resources : References(s)' = References(s)
    BY DEF References
  <2> QED
    BY <2>1, CountKept DEF Dead
<1>7. OneReleaser'
  BY DEF OneReleaser
<1>8. NamingInv'
  BY DEF TypeOK, CallInv, NamingInv, NamesAgree
<1>9. NamedInv'
  BY DEF TypeOK, StateInv, NamedInv
<1>10. NamesAgree'
  BY DEF TypeOK, CallInv, StateInv, ObjectInv, NamingInv, NamesAgree, Saving
<1>11. LoadedOnce'
  BY DEF TypeOK, CallInv, LoadedOnce, NamesAgree, Loading
<1>12. EndedInv'
  BY DEF EndedInv
<1>13. ManagerLeavesNothing'
  BY DEF ManagerLeavesNothing
<1> QED
  BY <1>1, <1>2, <1>3, <1>4, <1>5, <1>6, <1>7, <1>8, <1>9, <1>10, <1>11,
      <1>12, <1>13 DEF IInv

LEMMA ReleaseResourceNameStep ==
  ASSUME IInv, NEW p \in Ptrs,
         ReleaseResourceName(p)
  PROVE  IInv'
<1> USE ResourceAssumption DEF ResourceAssumption, IInv, ReleaseResourceName,
    Go, Set, nameVars, DoneSaving, objectVars
<1>1. TypeOK'
  BY DEF TypeOK, Steps
<1>2. CallInv'
  BY DEF TypeOK, CallInv
<1>3. StateInv'
  BY DEF StateInv
<1>4. ObjectInv'
  BY DEF ObjectInv
<1>5. OneCreator'
  BY DEF OneCreator
<1>6. RefAccounting'
  <2>1. \A s \in Resources : References(s)' = References(s)
    BY DEF References
  <2> QED
    BY <2>1, CountKept DEF Dead
<1>7. OneReleaser'
  BY DEF OneReleaser
<1>8. NamingInv'
  BY DEF TypeOK, CallInv, NamingInv
<1>9. NamedInv'
  BY DEF NamedInv
<1>10. NamesAgree'
  BY DEF TypeOK, CallInv, NamingInv, NamesAgree, Saving
<1>11. LoadedOnce'
  BY DEF TypeOK, CallInv, NamingInv, LoadedOnce, Loading
<1>12. EndedInv'
  BY DEF EndedInv
<1>13. ManagerLeavesNothing'
  BY DEF ManagerLeavesNothing
<1> QED
  BY <1>1, <1>2, <1>3, <1>4, <1>5, <1>6, <1>7, <1>8, <1>9, <1>10, <1>11,
      <1>12, <1>13 DEF IInv

LEMMA RemoveManagerStep ==
  ASSUME IInv, RemoveManager
  PROVE  IInv'
<1> USE ResourceAssumption DEF IInv, ResourceAssumption
<1>1. \A p \in Ptrs : res[p] = NoResource /\ name[p] = NoName
  BY DEF RemoveManager, CallInv
<1>2. \A r \in Resources : References(r) = {} /\ References(r)' = {}
  BY <1>1 DEF RemoveManager, ptrVars, References
<1>3. \A r \in Resources : ref[r] = 1 \/ state[r] = "None"
  <2>1. \A r \in Resources : state[r] \notin {"Releasing", "Deleting"}
    BY <1>1 DEF ObjectInv
  <2> QED
    BY <1>2, <2>1, FS_EmptySet DEF RefAccounting
<1>4. \A r \in Resources : ref'[r] = 0 /\ state'[r] = "None"
  <2>1. \A r \in Resources : state[r] = "None" => ref[r] = 0
    BY DEF RefAccounting
  <2>2. \A r \in Resources : state[r] # "Releasing"
    BY <1>1 DEF ObjectInv
  <2> QED
    BY <1>3, <2>1, <2>2 DEF RemoveManager, CanDelete
<1>5. TypeOK'
  BY <1>4 DEF RemoveManager, ptrVars, TypeOK
<1>6. CallInv' /\ StateInv' /\ ObjectInv' /\ OneCreator' /\ OneReleaser'
  BY <1>1, <1>4 DEF RemoveManager, ptrVars, CallInv, StateInv, ObjectInv,
      OneCreator, OneReleaser
<1>7. RefAccounting'
  BY <1>4 DEF RefAccounting
<1>8. NamingInv' /\ NamedInv' /\ NamesAgree'
  BY <1>1 DEF RemoveManager, ptrVars, NamingInv, NamedInv, NamesAgree
<1>9. LoadedOnce'
  BY <1>1 DEF RemoveManager, ptrVars, LoadedOnce, Loading
<1>10. EndedInv' /\ ManagerLeavesNothing'
  BY <1>4 DEF RemoveManager, ptrVars, EndedInv, ManagerLeavesNothing
<1> QED
  BY <1>5, <1>6, <1>7, <1>8, <1>9, <1>10 DEF IInv

LEMMA StepPreserves ==
  ASSUME IInv, NEW p \in Ptrs, Step(p)
  PROVE  IInv'
<1>1. CASE \/ Construct(p) \/ FreeEntry(p) \/ Delete(p) \/ Publish(p)
           \/ Hold(p) \/ MakeVisible(p) \/ RemoveRef(p) \/ Decrement(p)
  BY <1>1, ConstructStep, FreeEntryStep, DeleteStep, PublishStep, HoldStep,
     MakeVisibleStep, RemoveRefStep, DecrementStep
<1>2. CASE \/ Release(p) \/ ReleaseResource(p) \/ FinishRelease(p)
           \/ Destroy(p)
  BY <1>2, ReleaseStep, ReleaseResourceStep, FinishReleaseStep, DestroyStep
<1>3. CASE \/ LoadReserve(p) \/ LoaderFails(p) \/ NameLoaded(p)
           \/ ApplyResourceName(p) \/ ReleaseResourceName(p)
  BY <1>3, LoadReserveStep, LoaderFailsStep, NameLoadedStep,
     ApplyResourceNameStep, ReleaseResourceNameStep
<1>4. CASE \E q \in Ptrs : Copy(p, q)
  BY <1>4, CopyStep
<1>5. CASE \E visible \in BOOLEAN : SetResourceVisible(p, visible)
  BY <1>5, SetResourceVisibleStep
<1>6. CASE \E n \in Names : \/ LoadExisting(p, n) \/ LoadNew(p, n)
                            \/ ReserveResourceName(p, n)
  BY <1>6, LoadExistingStep, LoadNewStep, ReserveResourceNameStep
<1>7. CASE \E r \in Resources : \/ NewResourceEntry(p, r) \/ Get(p, r)
                                \/ MaybeDeleteResource(p, r)
  BY <1>7, NewResourceEntryStep, GetStep, MaybeDeleteResourceStep
<1> QED
  BY <1>1, <1>2, <1>3, <1>4, <1>5, <1>6, <1>7 DEF Step

LEMMA InitHolds == Init => IInv
<1> SUFFICES ASSUME Init PROVE IInv
  OBVIOUS
<1> USE ResourceAssumption DEF Init, ResourceAssumption
<1>1. TypeOK
  BY DEF TypeOK, Steps
<1>2. CallInv /\ StateInv /\ ObjectInv /\ OneCreator /\ OneReleaser
  BY DEF CallInv, StateInv, ObjectInv, OneCreator, OneReleaser
<1>3. RefAccounting
  BY DEF RefAccounting
<1>4. NamingInv /\ NamedInv /\ NamesAgree
  BY DEF NamingInv, NamedInv, NamesAgree
<1>5. LoadedOnce /\ EndedInv /\ ManagerLeavesNothing
  BY DEF LoadedOnce, Loading, EndedInv, ManagerLeavesNothing
<1> QED
  BY <1>1, <1>2, <1>3, <1>4, <1>5 DEF IInv

LEMMA StutterPreserves ==
  ASSUME IInv, UNCHANGED vars
  PROVE  IInv'
<1> USE DEF IInv, vars, objectVars, nameVars, ptrVars
<1>1. TypeOK' /\ CallInv' /\ StateInv' /\ ObjectInv' /\ OneCreator'
  BY DEF TypeOK, CallInv, StateInv, ObjectInv, OneCreator
<1>2. RefAccounting' /\ OneReleaser' /\ EndedInv' /\ ManagerLeavesNothing'
  BY DEF RefAccounting, References, OneReleaser, EndedInv,
      ManagerLeavesNothing
<1>3. NamingInv' /\ NamedInv' /\ NamesAgree' /\ LoadedOnce'
  BY DEF NamingInv, NamedInv, NamesAgree, Saving, LoadedOnce, Loading
<1> QED
  BY <1>1, <1>2, <1>3

(* Between any two steps of any calls, on any number of pointers, resources*)
(* and names, IInv holds.                                                  *)
THEOREM Invariance == Spec => []IInv
<1>1. IInv /\ [Next]_vars => IInv'
  BY RemoveManagerStep, StepPreserves, StutterPreserves DEF Next
<1> QED
  BY InitHolds, <1>1, PTL DEF Spec

(* ref_count_ is the manager's reference plus one for each pointer that    *)
(* holds the resource or is still to give it up, until it is deleted.      *)
THEOREM ReferenceCounting == Spec => []RefAccounting
<1>1. IInv => RefAccounting
  BY DEF IInv
<1> QED
  BY Invariance, <1>1, PTL

(* No call uses a resource that is gone, or one that another call deletes; *)
(* one call releases and deletes it.                                       *)
THEOREM SafeDeletion == Spec => [](NothingDangles /\ OneReleaser)
<1>1. IInv => NothingDangles /\ OneReleaser
  BY DEF IInv, NothingDangles, TypeOK, Steps, CallInv, StateInv, ObjectInv
<1> QED
  BY Invariance, <1>1, PTL

(* A resource's name leads to it, no name leads to a resource that is gone,*)
(* and no two calls load one name.                                         *)
THEOREM NamesSafety == Spec => [](NamesAgree /\ LoadedOnce)
<1>1. IInv => NamesAgree /\ LoadedOnce
  BY DEF IInv
<1> QED
  BY Invariance, <1>1, PTL

(* A name is marked as long as one call, and no other, loads it.           *)
THEOREM LoadsOnce == Spec => []LoadedOnce
BY NamesSafety, PTL

(* When a manager has ended, all its resources are deleted.                *)
THEOREM ManagerCleanup == Spec => []ManagerLeavesNothing
<1>1. IInv => ManagerLeavesNothing
  BY DEF IInv
<1> QED
  BY Invariance, <1>1, PTL

-----------------------------------------------------------------------------
(***************************************************************************)
(* Resource sets: the inductive invariant.                                 *)
(***************************************************************************)
Holders(r) == {s \in Sets : r \in members[s]}

OfOneSystem(s) ==
  IF members[s] = {} THEN setSystem[s] = NoSystem
  ELSE \A r \in members[s] : SystemOf[r] = setSystem[s]

SetInv ==
  /\ members \in [Sets -> SUBSET SetResources]
  /\ setSystem \in [Sets -> {SystemOf[r] : r \in SetResources} \cup {NoSystem}]
  /\ \A r \in SetResources : setRefs[r] = Cardinality(Holders(r))
  /\ \A s \in Sets : OfOneSystem(s)

(* The sets that hold a resource are finitely many: one more with a set    *)
(* that did not hold it, and one less without a set that did.              *)
LEMMA CountSets ==
  ASSUME NEW S \in SUBSET Sets
  PROVE  /\ Cardinality(S) \in Nat
         /\ \A s : s \notin S => Cardinality(S \cup {s}) = Cardinality(S) + 1
         /\ \A s \in S : Cardinality(S \ {s}) = Cardinality(S) - 1
<1>1. IsFiniteSet(S)
  BY FS_Subset, SetAssumption DEF SetAssumption
<1>2. Cardinality(S) \in Nat
  BY <1>1, FS_CardinalityType
<1>3. \A s : s \notin S => Cardinality(S \cup {s}) = Cardinality(S) + 1
  BY <1>1, FS_AddElement
<1>4. \A s \in S : Cardinality(S \ {s}) = Cardinality(S) - 1
  BY <1>1, FS_RemoveElement
<1> QED
  BY <1>2, <1>3, <1>4

(* How many sets hold a resource after set s was given to hold it or not.  *)
LEMMA CountWith ==
  ASSUME NEW S \in SUBSET Sets, NEW T \in SUBSET Sets, NEW s \in Sets,
         \A t \in Sets \ {s} : t \in T <=> t \in S
  PROVE  Cardinality(T) = (Cardinality(S) + (IF s \in T THEN 1 ELSE 0))
                            - (IF s \in S THEN 1 ELSE 0)
<1>0. Cardinality(S) \in Nat
  BY CountSets
<1>1. CASE s \in S <=> s \in T
  <2>1. T = S
    BY <1>1
  <2> QED
    BY <1>0, <2>1
<1>2. CASE s \in T /\ s \notin S
  <2>1. T = S \cup {s}
    BY <1>2
  <2>2. Cardinality(S \cup {s}) = Cardinality(S) + 1
    BY <1>2, CountSets
  <2> QED
    BY <1>0, <1>2, <2>1, <2>2
<1>3. CASE s \in S /\ s \notin T
  <2>1. T = S \ {s}
    BY <1>3
  <2>2. Cardinality(S \ {s}) = Cardinality(S) - 1
    BY <1>3, CountSets
  <2> QED
    BY <1>0, <1>3, <2>1, <2>2
<1> QED
  BY <1>1, <1>2, <1>3

(* An operation that changes the members of set s alone, and adds and      *)
(* removes the references of those that come and go, keeps the invariant.  *)
LEMMA OneSetChanges ==
  ASSUME SetInv, NEW s \in Sets, NEW new \in SUBSET SetResources,
         NEW sys \in {SystemOf[r] : r \in SetResources} \cup {NoSystem},
         members' = [members EXCEPT ![s] = new],
         setSystem' = [setSystem EXCEPT ![s] = sys],
         IF new = {} THEN sys = NoSystem ELSE \A r \in new : SystemOf[r] = sys,
         \A r \in SetResources :
           setRefs'[r] = (setRefs[r] + (IF r \in new THEN 1 ELSE 0))
                           - (IF r \in members[s] THEN 1 ELSE 0)
  PROVE  SetInv'
<1> USE DEF SetInv
<1>1. members' \in [Sets -> SUBSET SetResources]
  OBVIOUS
<1>2. setSystem' \in [Sets -> {SystemOf[r] : r \in SetResources} \cup {NoSystem}]
  OBVIOUS
<1>3. \A t \in Sets : /\ members'[t] = IF t = s THEN new ELSE members[t]
                      /\ setSystem'[t] = IF t = s THEN sys ELSE setSystem[t]
  OBVIOUS
<1>4. \A r \in SetResources : setRefs'[r] = Cardinality(Holders(r)')
  <2> SUFFICES ASSUME NEW r \in SetResources
               PROVE  setRefs'[r] = Cardinality(Holders(r)')
    OBVIOUS
  <2>1. /\ Holders(r) \in SUBSET Sets
        /\ Holders(r)' \in SUBSET Sets
        /\ \A t \in Sets \ {s} : t \in Holders(r)' <=> t \in Holders(r)
        /\ s \in Holders(r)' <=> r \in new
        /\ s \in Holders(r) <=> r \in members[s]
    BY <1>3 DEF Holders
  <2>2. Cardinality(Holders(r)')
          = (Cardinality(Holders(r)) + (IF s \in Holders(r)' THEN 1 ELSE 0))
              - (IF s \in Holders(r) THEN 1 ELSE 0)
    BY <2>1, CountWith
  <2>3. setRefs[r] = Cardinality(Holders(r))
    OBVIOUS
  <2> HIDE DEF SetInv, Holders
  <2> QED
    BY <2>1, <2>2, <2>3
<1>5. \A t \in Sets : OfOneSystem(t)'
  BY <1>3 DEF OfOneSystem
<1> QED
  BY <1>1, <1>2, <1>4, <1>5

(***************************************************************************)
(* What can be reached.                                                    *)
(***************************************************************************)
(* From some resources, those themselves, others of `in` alone, and        *)
(* whatever in `in` a resource that is reached depends on.                 *)
LEMMA ReachIsClosed ==
  ASSUME NEW from, NEW in
  PROVE  /\ from \subseteq ResourceSet!Reach(from, in)
         /\ ResourceSet!Reach(from, in) \subseteq from \cup in
         /\ \A x \in ResourceSet!Reach(from, in) :
              ResourceSet!DependenciesOf(x) \cap in
                \subseteq ResourceSet!Reach(from, in)
<1>1. from \subseteq ResourceSet!Reach(from, in)
  BY DEF ResourceSet!Reach, ResourceSet!Reaching
<1>2. ResourceSet!Reach(from, in) \subseteq from \cup in
  BY DEF ResourceSet!Reach
<1>3. ASSUME NEW x \in ResourceSet!Reach(from, in),
             NEW d \in ResourceSet!DependenciesOf(x) \cap in
      PROVE  d \in ResourceSet!Reach(from, in)
  <2>1. ASSUME NEW s \in ResourceSet!Reaching(from, in)
        PROVE  d \in s
    <3>1. x \in s
      BY <1>3 DEF ResourceSet!Reach
    <3> QED
      BY <1>3, <3>1 DEF ResourceSet!Reaching, ResourceSet!ClosedIn
  <2> QED
    BY <1>3, <2>1 DEF ResourceSet!Reach
<1> QED
  BY <1>1, <1>2, <1>3

(* What is removed of a set's members with what they depend on is of the   *)
(* resource and what it reaches; nothing that is left depends on it.       *)
LEMMA RemoveAlsoIsClosed ==
  ASSUME NEW s, NEW r \in members[s]
  PROVE  LET removed == ResourceSet!RemoveAlso(s, r)
         IN /\ removed \subseteq ResourceSet!Reach({r}, members[s])
            /\ removed \subseteq members[s]
            /\ \A m \in members[s] \ removed :
                 ResourceSet!DependenciesOf(m) \cap removed = {}
<1> DEFINE M == members[s]
           R == ResourceSet!Reach({r}, M)
           keep == {d \in R : \E m \in M \ R : d \in ResourceSet!DependenciesOf(m)}
           kept == ResourceSet!Reach(keep, M)
           removed == ResourceSet!RemoveAlso(s, r)
<1>1. removed = R \ kept
  BY DEF ResourceSet!RemoveAlso
<1>2. R \subseteq M
  BY ReachIsClosed
<1>3. /\ keep \subseteq kept
      /\ \A x \in kept : ResourceSet!DependenciesOf(x) \cap M \subseteq kept
  <2> HIDE DEF keep
  <2> QED
    BY ReachIsClosed
<1>4. ASSUME NEW m \in M \ removed
      PROVE  ResourceSet!DependenciesOf(m) \cap removed = {}
  <2> HIDE DEF kept, R, M, removed
  <2>1. CASE m \in kept
    BY <1>1, <1>2, <1>3, <2>1
  <2>2. CASE m \notin R
    BY <1>1, <1>3, <1>4, <2>2 DEF keep
  <2> QED
    BY <1>1, <1>4, <2>1, <2>2
<1> HIDE DEF M, R, removed
<1>5. removed \subseteq R /\ removed \subseteq M
  BY <1>1, <1>2
<1> QED
  BY <1>4, <1>5 DEF M, R, removed

(* What has the resources one starts from, and is closed, has all that can *)
(* be reached.                                                             *)
LEMMA ReachIsLeast ==
  ASSUME NEW from, NEW in, NEW s \in SUBSET (from \cup in),
         from \subseteq s, ResourceSet!ClosedIn(s, in)
  PROVE  ResourceSet!Reach(from, in) \subseteq s
  BY DEF ResourceSet!Reach, ResourceSet!Reaching

(* What of a resource's needs stays is what can be reached from a member   *)
(* that is not among them: the way from it enters the needs at a resource  *)
(* that is kept, and does not leave them.                                  *)
LEMMA RemoveAlsoIsExact ==
  ASSUME NEW s, NEW r \in members[s]
  PROVE  LET needs == ResourceSet!Reach({r}, members[s])
         IN ResourceSet!RemoveAlso(s, r) =
              {d \in needs : \A m \in members[s] \ needs :
                               d \notin ResourceSet!Reach({m}, members[s])}
<1> DEFINE M == members[s]
           R == ResourceSet!Reach({r}, M)
           keep == {d \in R : \E m \in M \ R : d \in ResourceSet!DependenciesOf(m)}
           kept == ResourceSet!Reach(keep, M)
           from(m) == ResourceSet!Reach({m}, M)
<1>1. ResourceSet!RemoveAlso(s, r) = R \ kept
  BY DEF ResourceSet!RemoveAlso
<1>2. R \subseteq M /\ \A x \in R : ResourceSet!DependenciesOf(x) \cap M \subseteq R
  <2>1. R \subseteq {r} \cup M /\ \A x \in R : ResourceSet!DependenciesOf(x) \cap M \subseteq R
    <3> HIDE DEF M
    <3> QED
      BY ReachIsClosed
  <2> HIDE DEF R
  <2> QED
    BY <2>1
<1>3. ASSUME NEW m \in M
      PROVE  /\ m \in from(m) /\ from(m) \subseteq M
             /\ \A x \in from(m) : ResourceSet!DependenciesOf(x) \cap M \subseteq from(m)
  <2>1. /\ {m} \subseteq from(m) /\ from(m) \subseteq {m} \cup M
        /\ \A x \in from(m) : ResourceSet!DependenciesOf(x) \cap M \subseteq from(m)
    <3> HIDE DEF M
    <3> QED
      BY ReachIsClosed
  <2> HIDE DEF M, from
  <2> QED
    BY <2>1, <1>3
<1>4. /\ keep \subseteq kept /\ kept \subseteq keep \cup M
      /\ \A x \in kept : ResourceSet!DependenciesOf(x) \cap M \subseteq kept
  <2> HIDE DEF keep
  <2> QED
    BY ReachIsClosed
<1> HIDE DEF R, M, from
<1>5. keep \subseteq R /\ kept \subseteq M
  BY <1>2, <1>4
<1>6. ASSUME NEW m \in M \ R
      PROVE  from(m) \subseteq (M \ R) \cup kept
  <2> DEFINE S == (M \ R) \cup kept
  <2>1. S \in SUBSET ({m} \cup M) /\ {m} \subseteq S
    BY <1>5
  <2>2. \A x \in S : ResourceSet!DependenciesOf(x) \cap M \subseteq S
    <3>1. ASSUME NEW x \in M \ R, NEW d \in ResourceSet!DependenciesOf(x) \cap M, d \in R
          PROVE  d \in kept
      BY <1>4, <3>1
    <3> HIDE DEF kept
    <3> QED
      BY <1>4, <3>1
  <2>3. ResourceSet!ClosedIn(S, M)
    <3> HIDE DEF S
    <3> QED
      BY <2>2 DEF ResourceSet!ClosedIn
  <2> HIDE DEF S
  <2>4. ResourceSet!Reach({m}, M) \subseteq S
    BY <2>1, <2>3, ReachIsLeast
  <2> QED
    BY <2>4 DEF from, S
<1>7. kept \subseteq {x \in M : \E m \in M \ R : x \in from(m)}
  <2> DEFINE T == {x \in M : \E m \in M \ R : x \in from(m)}
  <2>1. T \in SUBSET (keep \cup M) /\ keep \subseteq T
    BY <1>2, <1>3, <1>5
  <2>2. \A x \in T : ResourceSet!DependenciesOf(x) \cap M \subseteq T
    BY <1>3
  <2>3. ResourceSet!ClosedIn(T, M)
    <3> HIDE DEF T
    <3> QED
      BY <2>2 DEF ResourceSet!ClosedIn
  <2> HIDE DEF T, keep
  <2>4. kept \subseteq T
    BY <2>1, <2>3, ReachIsLeast
  <2> QED
    BY <2>4 DEF T
<1>8. R \ kept = {d \in R : \A m \in M \ R : d \notin from(m)}
  <2> HIDE DEF kept, keep
  <2> QED
    BY <1>2, <1>6, <1>7
<1> QED
  BY <1>1, <1>8 DEF R, M, from

LEMMA RemoveOnlyIsClosed ==
  ASSUME NEW s, NEW r \in members[s]
  PROVE  LET removed == ResourceSet!RemoveOnly(s, r)
         IN /\ removed \subseteq ResourceSet!Reach({r}, members[s])
            /\ removed \subseteq members[s]
            /\ \A m \in members[s] \ removed :
                 ResourceSet!DependenciesOf(m) \cap removed = {}
<1>1. r \in ResourceSet!Reach({r}, members[s])
  BY ReachIsClosed
<1> QED
  BY <1>1 DEF ResourceSet!RemoveOnly

(***************************************************************************)
(* The operations.                                                         *)
(***************************************************************************)
LEMMA AddKeeps ==
  ASSUME SetInv, NEW s \in Sets, NEW r \in SetResources, NEW also \in BOOLEAN,
         ResourceSet!Add(s, r, also)
  PROVE  SetInv'
<1> DEFINE sys == IF setSystem[s] = NoSystem THEN SystemOf[r] ELSE setSystem[s]
           new == {d \in SetResources \ members[s] : SystemOf[d] = sys}
           added == ResourceSet!Added(s, r, also)
<1>1. added \subseteq new
  <2>1. CASE r \notin new
    BY <2>1 DEF ResourceSet!Added
  <2>2. CASE r \in new /\ ~ also
    BY <2>2 DEF ResourceSet!Added
  <2>3. CASE r \in new /\ also
    <3>1. added = ResourceSet!Reach({r}, new)
      BY <2>3 DEF ResourceSet!Added
    <3> HIDE DEF new, added
    <3>2. ResourceSet!Reach({r}, new) \subseteq {r} \cup new
      BY ReachIsClosed
    <3> QED
      BY <2>3, <3>1, <3>2
  <2> QED
    BY <2>1, <2>2, <2>3
<1>2. sys # NoSystem /\ sys \in {SystemOf[d] : d \in SetResources} \cup {NoSystem}
  BY SetAssumption DEF SetAssumption, SetInv
<1>3. members[s] = {} => r \in added
  <2>1. CASE members[s] = {}
    <3>1. setSystem[s] = NoSystem
      BY <2>1 DEF SetInv, OfOneSystem
    <3>2. r \in new
      BY <2>1, <3>1
    <3>3. CASE ~ also
      BY <3>2, <3>3 DEF ResourceSet!Added
    <3>4. CASE also
      <4>1. added = ResourceSet!Reach({r}, new)
        BY <3>2, <3>4 DEF ResourceSet!Added
      <4> HIDE DEF new, added
      <4> QED
        BY <4>1, ReachIsClosed
    <3> QED
      BY <3>3, <3>4
  <2> QED
    BY <2>1
<1>4. members' = [members EXCEPT ![s] = members[s] \cup added]
  BY DEF ResourceSet!Add
<1>5. setSystem' = [setSystem EXCEPT ![s] = sys]
  BY DEF ResourceSet!Add, SetInv
<1>6. \A d \in SetResources :
        setRefs'[d] = setRefs[d] + (IF d \in added THEN 1 ELSE 0)
  BY DEF ResourceSet!Add, ResourceSet!AddRefs
<1>7. members[s] \in SUBSET SetResources
  BY DEF SetInv
<1>8. \A d \in members[s] : SystemOf[d] = sys
  BY SetAssumption DEF SetInv, OfOneSystem, SetAssumption
<1>9. \A d \in SetResources : setRefs[d] \in Nat
  BY CountSets DEF SetInv, Holders
<1>10. /\ \A d \in added : d \notin members[s] /\ SystemOf[d] = sys
       /\ added \subseteq SetResources
  BY <1>1
<1> DEFINE all == members[s] \cup added
<1> HIDE DEF sys, new, added
<1>11. /\ all \in SUBSET SetResources
       /\ all # {}
       /\ \A d \in all : SystemOf[d] = sys
  BY <1>3, <1>7, <1>8, <1>10
<1>12. \A d \in SetResources :
         setRefs'[d] = (setRefs[d] + (IF d \in all THEN 1 ELSE 0))
                         - (IF d \in members[s] THEN 1 ELSE 0)
  BY <1>6, <1>9, <1>10
<1>13. members' = [members EXCEPT ![s] = all]
  BY <1>4
<1> HIDE DEF all
<1> QED
  BY <1>2, <1>5, <1>11, <1>12, <1>13, OneSetChanges

LEMMA RemoveKeeps ==
  ASSUME SetInv, NEW s \in Sets, NEW r \in SetResources, NEW also \in BOOLEAN,
         ResourceSet!Remove(s, r, also)
  PROVE  SetInv'
<1> DEFINE removed == IF also THEN ResourceSet!RemoveAlso(s, r)
                              ELSE ResourceSet!RemoveOnly(s, r)
           new == members[s] \ removed
           sys == IF members[s] = removed THEN NoSystem ELSE setSystem[s]
<1>1. r \in members[s]
  BY DEF ResourceSet!Remove
<1>2. removed \subseteq members[s]
  BY <1>1, RemoveAlsoIsClosed, RemoveOnlyIsClosed
<1>3. members' = [members EXCEPT ![s] = new]
  BY DEF ResourceSet!Remove
<1>4. setSystem' = [setSystem EXCEPT ![s] = sys]
  BY DEF ResourceSet!Remove, SetInv
<1>5. \A d \in SetResources :
        setRefs'[d] = setRefs[d] - (IF d \in removed THEN 1 ELSE 0)
  BY DEF ResourceSet!Remove, ResourceSet!RemoveRefs
<1>6. \A d \in SetResources : setRefs[d] \in Nat
  BY CountSets DEF SetInv, Holders
<1> HIDE DEF removed
<1>7. \A d \in SetResources :
        setRefs'[d] = (setRefs[d] + (IF d \in new THEN 1 ELSE 0))
                        - (IF d \in members[s] THEN 1 ELSE 0)
  BY <1>2, <1>5, <1>6
<1>8. /\ new \in SUBSET SetResources
      /\ sys \in {SystemOf[d] : d \in SetResources} \cup {NoSystem}
  BY DEF SetInv
<1>9. IF new = {} THEN sys = NoSystem ELSE \A d \in new : SystemOf[d] = sys
  BY <1>2 DEF SetInv, OfOneSystem
<1> HIDE DEF new, sys
<1> QED
  BY <1>3, <1>4, <1>7, <1>8, <1>9, OneSetChanges

LEMMA RemoveAllKeeps ==
  ASSUME SetInv, NEW s \in Sets, ResourceSet!RemoveAll(s)
  PROVE  SetInv'
<1>1. /\ members' = [members EXCEPT ![s] = {}]
      /\ setSystem' = [setSystem EXCEPT ![s] = NoSystem]
  BY DEF ResourceSet!RemoveAll
<1>2. \A d \in SetResources :
        setRefs'[d] = setRefs[d] - (IF d \in members[s] THEN 1 ELSE 0)
  BY DEF ResourceSet!RemoveAll, ResourceSet!RemoveRefs
<1>3. \A d \in SetResources : setRefs[d] \in Nat
  BY CountSets DEF SetInv, Holders
<1>4. \A d \in SetResources :
        setRefs'[d] = (setRefs[d] + (IF d \in {} THEN 1 ELSE 0))
                        - (IF d \in members[s] THEN 1 ELSE 0)
  BY <1>2, <1>3
<1>5. IF {} = {} THEN NoSystem = NoSystem ELSE \A d \in {} : SystemOf[d] = NoSystem
  OBVIOUS
<1>6. /\ {} \in SUBSET SetResources
      /\ NoSystem \in {SystemOf[d] : d \in SetResources} \cup {NoSystem}
  OBVIOUS
<1> QED
  BY <1>1, <1>4, <1>5, <1>6, OneSetChanges

LEMMA SetCopyKeeps ==
  ASSUME SetInv, NEW s \in Sets, NEW other \in Sets, ResourceSet!Copy(s, other)
  PROVE  SetInv'
<1>1. /\ members' = [members EXCEPT ![s] = members[other]]
      /\ setSystem' = [setSystem EXCEPT ![s] = setSystem[other]]
  BY DEF ResourceSet!Copy
<1>2. \A d \in SetResources :
        setRefs'[d] = (setRefs[d] + (IF d \in members[other] THEN 1 ELSE 0))
                        - (IF d \in members[s] THEN 1 ELSE 0)
  BY DEF ResourceSet!Copy, ResourceSet!CopiedRefs, ResourceSet!AddRefs,
         ResourceSet!RemoveRefs
<1>3. /\ members[other] \in SUBSET SetResources
      /\ setSystem[other] \in {SystemOf[d] : d \in SetResources} \cup {NoSystem}
  BY DEF SetInv
<1>4. IF members[other] = {} THEN setSystem[other] = NoSystem
      ELSE \A d \in members[other] : SystemOf[d] = setSystem[other]
  BY DEF SetInv, OfOneSystem
<1> QED
  BY <1>1, <1>2, <1>3, <1>4, OneSetChanges

(* The set that is moved from gives its references to the one that is      *)
(* moved to: as if the latter copied them and the former then let go.      *)
LEMMA MoveKeeps ==
  ASSUME SetInv, NEW s \in Sets, NEW other \in Sets, ResourceSet!Move(s, other)
  PROVE  SetInv'
<1>1. /\ s # other
      /\ members' = [members EXCEPT ![s] = members[other], ![other] = {}]
      /\ setSystem' = [setSystem EXCEPT ![s] = setSystem[other], ![other] = NoSystem]
  BY DEF ResourceSet!Move
<1>2. \A d \in SetResources :
        setRefs'[d] = setRefs[d] - (IF d \in members[s] THEN 1 ELSE 0)
  BY DEF ResourceSet!Move, ResourceSet!RemoveRefs
<1>3. /\ members' \in [Sets -> SUBSET SetResources]
      /\ setSystem' \in [Sets -> {SystemOf[d] : d \in SetResources} \cup {NoSystem}]
  BY <1>1 DEF SetInv
<1>4. \A t \in Sets :
        /\ members'[t] = IF t = s THEN members[other]
                         ELSE IF t = other THEN {} ELSE members[t]
        /\ setSystem'[t] = IF t = s THEN setSystem[other]
                           ELSE IF t = other THEN NoSystem ELSE setSystem[t]
  BY <1>1 DEF SetInv
<1>5. \A d \in SetResources : setRefs'[d] = Cardinality(Holders(d)')
  <2> SUFFICES ASSUME NEW d \in SetResources
               PROVE  setRefs'[d] = Cardinality(Holders(d)')
    OBVIOUS
  <2> DEFINE between == {t \in Sets : IF t = s THEN d \in members[other]
                                               ELSE d \in members[t]}
  <2>1. /\ Holders(d) \in SUBSET Sets
        /\ Holders(d)' \in SUBSET Sets
        /\ between \in SUBSET Sets
    BY DEF Holders
  <2>2. /\ \A t \in Sets \ {s} : t \in between <=> t \in Holders(d)
        /\ \A t \in Sets \ {other} : t \in Holders(d)' <=> t \in between
        /\ s \in between <=> d \in members[other]
        /\ s \in Holders(d) <=> d \in members[s]
        /\ other \in between <=> d \in members[other]
        /\ other \notin Holders(d)'
    <3>1. s # other
      BY <1>1
    <3>2. \A t \in Sets : t \in Holders(d)' <=> d \in members'[t]
      BY DEF Holders
    <3>3. \A t \in Sets : t \in Holders(d) <=> d \in members[t]
      BY DEF Holders
    <3> QED
      BY <1>4, <3>1, <3>2, <3>3
  <2>3. setRefs[d] = Cardinality(Holders(d)) /\ Cardinality(Holders(d)) \in Nat
    BY <2>1, CountSets DEF SetInv
  <2> HIDE DEF between
  <2>4. Cardinality(between)
          = (Cardinality(Holders(d)) + (IF s \in between THEN 1 ELSE 0))
              - (IF s \in Holders(d) THEN 1 ELSE 0)
    BY <2>1, <2>2, CountWith
  <2>5. Cardinality(Holders(d)')
          = (Cardinality(between) + (IF other \in Holders(d)' THEN 1 ELSE 0))
              - (IF other \in between THEN 1 ELSE 0)
    BY <2>1, <2>2, CountWith
  <2> QED
    BY <1>2, <2>2, <2>3, <2>4, <2>5
<1>6. \A t \in Sets : OfOneSystem(t)'
  BY <1>4 DEF SetInv, OfOneSystem
<1> QED
  BY <1>3, <1>5, <1>6 DEF SetInv

LEMMA SetStepKeeps ==
  ASSUME SetInv, ResourceSet!Next
  PROVE  SetInv'
<1>1. PICK s \in Sets :
        \/ ResourceSet!RemoveAll(s)
        \/ \E other \in Sets : ResourceSet!Copy(s, other) \/ ResourceSet!Move(s, other)
        \/ \E r \in SetResources, also \in BOOLEAN :
             ResourceSet!Add(s, r, also) \/ ResourceSet!Remove(s, r, also)
  BY DEF ResourceSet!Next
<1>2. CASE ResourceSet!RemoveAll(s)
  BY <1>2, RemoveAllKeeps
<1>3. CASE \E other \in Sets : ResourceSet!Copy(s, other) \/ ResourceSet!Move(s, other)
  BY <1>3, SetCopyKeeps, MoveKeeps
<1>4. CASE \E r \in SetResources, also \in BOOLEAN :
             ResourceSet!Add(s, r, also) \/ ResourceSet!Remove(s, r, also)
  BY <1>4, AddKeeps, RemoveKeeps
<1> QED
  BY <1>1, <1>2, <1>3, <1>4

LEMMA SetInitHolds == MCInit => SetInv
<1> SUFFICES ASSUME MCInit PROVE SetInv
  OBVIOUS
<1>1. /\ members = [s \in Sets |-> {}]
      /\ setSystem = [s \in Sets |-> NoSystem]
      /\ setRefs = [r \in SetResources |-> 0]
  BY DEF MCInit, ResourceSet!Init
<1>2. \A r \in SetResources : Holders(r) = {}
  BY <1>1 DEF Holders
<1>3. \A r \in SetResources : setRefs[r] = Cardinality(Holders(r))
  BY <1>1, <1>2, FS_EmptySet
<1>4. \A s \in Sets : OfOneSystem(s)
  BY <1>1 DEF OfOneSystem
<1> QED
  BY <1>1, <1>3, <1>4 DEF SetInv

LEMMA SetStutter ==
  ASSUME SetInv, UNCHANGED <<members, setSystem, setRefs>>
  PROVE  SetInv'
<1>1. /\ \A r \in SetResources : Holders(r)' = Holders(r)
      /\ \A s \in Sets : OfOneSystem(s)' <=> OfOneSystem(s)
  BY DEF Holders, OfOneSystem
<1> QED
  BY <1>1 DEF SetInv

LEMMA SetsInvariance == MCSpec => []SetInv
<1>1. SetInv /\ [MCNext]_allVars => SetInv'
  <2> SUFFICES ASSUME SetInv, [MCNext]_allVars PROVE SetInv'
    OBVIOUS
  <2>1. CASE ResourceSet!Next
    BY <2>1, SetStepKeeps
  <2>2. CASE UNCHANGED setVars
    BY <2>2, SetStutter DEF setVars
  <2> QED
    BY <2>1, <2>2 DEF MCNext, allVars, setVars
<1> QED
  BY SetInitHolds, <1>1, PTL DEF MCSpec

(* Whatever sets are filled, emptied, copied and moved, the references     *)
(* counted are those of their members, which are of one system, and a      *)
(* removal takes along nothing that a resource it leaves depends on; one   *)
(* with dependencies takes all that the resource needs, but what is needed *)
(* by a member the resource does not need.                                 *)
THEOREM ResourceSetsHold == MCSpec => SetsHold
<1>1. SetInv => ResourceSet!SetsAccount
  <2>1. \A S : ResourceSet!Cardinality(S) = Cardinality(S)
    BY DEF ResourceSet!Cardinality, Cardinality
  <2> QED
    BY <2>1 DEF SetInv, Holders, OfOneSystem, ResourceSet!SetsAccount
<1>2. SetInv => [\A s \in Sets : members'[s] # members[s] =>
          \A r \in SetResources, also \in BOOLEAN :
            ResourceSet!Remove(s, r, also) =>
              LET removed == members[s] \ members'[s]
              IN /\ \A m \in members'[s] :
                      ResourceSet!DependenciesOf(m) \cap removed = {}
                 /\ removed \subseteq ResourceSet!Reach({r}, members[s])]_setVars
  <2> SUFFICES ASSUME SetInv, NEW s \in Sets, NEW r \in SetResources,
                      NEW also \in BOOLEAN, ResourceSet!Remove(s, r, also)
               PROVE  LET removed == members[s] \ members'[s]
                      IN /\ \A m \in members'[s] :
                              ResourceSet!DependenciesOf(m) \cap removed = {}
                         /\ removed \subseteq ResourceSet!Reach({r}, members[s])
    OBVIOUS
  <2> DEFINE gone == IF also THEN ResourceSet!RemoveAlso(s, r)
                             ELSE ResourceSet!RemoveOnly(s, r)
  <2>1. r \in members[s] /\ members'[s] = members[s] \ gone
    BY DEF ResourceSet!Remove, SetInv
  <2>2. /\ gone \subseteq ResourceSet!Reach({r}, members[s])
        /\ gone \subseteq members[s]
        /\ \A m \in members[s] \ gone :
             ResourceSet!DependenciesOf(m) \cap gone = {}
    BY <2>1, RemoveAlsoIsClosed, RemoveOnlyIsClosed
  <2> HIDE DEF gone
  <2>3. members[s] \ members'[s] = gone
    BY <2>1, <2>2
  <2> QED
    BY <2>1, <2>2, <2>3
<1>3. ResourceSet!RemovalsAreExact
  BY RemoveAlsoIsExact DEF ResourceSet!RemovalsAreExact
<1> QED
  BY SetsInvariance, <1>1, <1>2, <1>3, PTL DEF SetsHold, ResourceSet!RemovalsAreClosed,
     ResourceSet!vars, setVars
=============================================================================
