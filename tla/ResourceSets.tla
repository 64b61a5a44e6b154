---------------------------- MODULE ResourceSets ----------------------------
(***************************************************************************)
(* gb::ResourceSet: a program adds resources to sets and removes them,     *)
(* with or without what they depend on, and copies and moves the sets.     *)
(*                                                                         *)
(* What a resource depends on is its own affair (GetResourceDependencies), *)
(* chosen once and for all; it is never null.  What becomes of a resource  *)
(* whose count reaches zero is the matter of ResourceSystem: here the      *)
(* program holds a reference to every resource it works with.              *)
(***************************************************************************)
EXTENDS Integers, FiniteSets

CONSTANTS
  Resources,
  SystemOf,        (* GetResourceSystem.                                   *)
  NoSystem,
  Sets,
  MaxDependencies  (* Bound: the dependencies between resources.           *)

VARIABLES
  deps,            (* Pairs: the first depends on the second.              *)
  members,         (* resources_                                           *)
  system,          (* system_                                              *)
  refs             (* The references sets have added to a resource.        *)

vars == <<deps, members, system, refs>>

Init ==
  /\ deps \in {d \in SUBSET {p \in Resources \X Resources : p[1] # p[2]} :
                 Cardinality(d) <= MaxDependencies}
  /\ members = [s \in Sets |-> {}]
  /\ system = [s \in Sets |-> NoSystem]
  /\ refs = [r \in Resources |-> 0]

DependenciesOf(r) == {d \in Resources : <<r, d>> \in deps}

(* What can be reached from the resources in `from` by dependencies that   *)
(* stay within `in`, `from` included: the least set that has them all.     *)
ClosedIn(s, in)  == \A r \in s : DependenciesOf(r) \cap in \subseteq s
Reaching(from, in) == {s \in SUBSET (from \cup in) : from \subseteq s /\ ClosedIn(s, in)}
Reach(from, in) ==
  LET reaching == Reaching(from, in)
  IN {x \in from \cup in : \A s \in reaching : x \in s}

AddRefs(f, added)      == [r \in Resources |-> f[r] + (IF r \in added THEN 1 ELSE 0)]
RemoveRefs(f, removed) == [r \in Resources |-> f[r] - (IF r \in removed THEN 1 ELSE 0)]

-----------------------------------------------------------------------------

(* DoAdd and AddDependencies: what is in the set already is not looked     *)
(* into, and what belongs to another system is left out.                   *)
Added(s, r, withDependencies) ==
  LET sys == IF system[s] = NoSystem THEN SystemOf[r] ELSE system[s]
      new == {d \in Resources \ members[s] : SystemOf[d] = sys}
  IN IF r \notin new THEN {}
     ELSE IF withDependencies THEN Reach({r}, new) ELSE {r}

Add(s, r, withDependencies) ==
  /\ LET added == Added(s, r, withDependencies)
     IN /\ members' = [members EXCEPT ![s] = @ \cup added]
        /\ refs' = AddRefs(refs, added)
  /\ system' = [system EXCEPT ![s] = IF @ = NoSystem THEN SystemOf[r] ELSE @]
  /\ UNCHANGED deps

(* RemoveResourceOnly: nothing that is left may depend on the resource.    *)
RemoveOnly(s, r) ==
  IF \E m \in members[s] \ {r} : r \in DependenciesOf(m) THEN {} ELSE {r}

(* Mutant: what the kept resources depend on is not kept.                  *)
KeepsDirectly(s, r) ==
  LET remove == Reach({r}, members[s])
      keep   == {d \in remove : \E m \in members[s] \ remove : d \in DependenciesOf(m)}
  IN remove \ keep

(* Mutant: what the resource depends on stays.                             *)
RemovesAlone(s, r) == RemoveOnly(s, r)

(* RemoveWithDependencies and AddAllDependencies.                          *)
RemoveAlso(s, r) ==
  LET remove == Reach({r}, members[s])
      keep   == {d \in remove : \E m \in members[s] \ remove : d \in DependenciesOf(m)}
  IN remove \ Reach(keep, members[s])

(* DoRemove of a resource that is in the set.                              *)
Remove(s, r, withDependencies) ==
  /\ r \in members[s]
  /\ LET removed == IF withDependencies THEN RemoveAlso(s, r) ELSE RemoveOnly(s, r)
     IN /\ members' = [members EXCEPT ![s] = @ \ removed]
        /\ refs' = RemoveRefs(refs, removed)
        /\ system' = [system EXCEPT ![s] = IF members[s] = removed THEN NoSystem ELSE @]
  /\ UNCHANGED deps

(* RemoveAll; the destructor leaves as much.                               *)
RemoveAll(s) ==
  /\ members[s] # {}
  /\ refs' = RemoveRefs(refs, members[s])
  /\ members' = [members EXCEPT ![s] = {}]
  /\ system' = [system EXCEPT ![s] = NoSystem]
  /\ UNCHANGED deps

(* The references a copy assignment adds to those it replaces.             *)
CopiedRefs(s, other) == RemoveRefs(AddRefs(refs, members[other]), members[s])

Copy(s, other) ==
  /\ s # other
  /\ members' = [members EXCEPT ![s] = members[other]]
  /\ refs' = CopiedRefs(s, other)
  /\ system' = [system EXCEPT ![s] = system[other]]
  /\ UNCHANGED deps

Move(s, other) ==
  /\ s # other
  /\ members' = [members EXCEPT ![s] = members[other], ![other] = {}]
  /\ refs' = RemoveRefs(refs, members[s])
  /\ system' = [system EXCEPT ![s] = system[other], ![other] = NoSystem]
  /\ UNCHANGED deps

Next ==
  \E s \in Sets :
    \/ RemoveAll(s)
    \/ \E other \in Sets : Copy(s, other) \/ Move(s, other)
    \/ \E r \in Resources, also \in BOOLEAN : Add(s, r, also) \/ Remove(s, r, also)

Spec == Init /\ [][Next]_vars

-----------------------------------------------------------------------------
(* Every reference a set has added is that of one of its members, whatever *)
(* sets were copied or moved over, and the members are of one system.      *)
SetsAccount ==
  /\ \A r \in Resources : refs[r] = Cardinality({s \in Sets : r \in members[s]})
  /\ \A s \in Sets :
       IF members[s] = {} THEN system[s] = NoSystem
       ELSE \A r \in members[s] : SystemOf[r] = system[s]

(* A removal with dependencies takes along all that the resource needs,    *)
(* directly or not, but what something it does not need also needs: itself *)
(* included, and over whatever cycles.                                     *)
RemovalsAreExact ==
  \A s \in Sets : \A r \in members[s] :
    LET needs == Reach({r}, members[s])
    IN RemoveAlso(s, r) =
         {d \in needs : \A m \in members[s] \ needs : d \notin Reach({m}, members[s])}

(* Remove takes nothing that a resource it leaves in the set depends on,   *)
(* and nothing but the resource and what the resource needs.               *)
RemovalsAreClosed ==
  [][\A s \in Sets : members'[s] # members[s] =>
       \A r \in Resources, also \in BOOLEAN :
         Remove(s, r, also) =>
           LET removed == members[s] \ members'[s]
           IN /\ \A m \in members'[s] : DependenciesOf(m) \cap removed = {}
              /\ removed \subseteq Reach({r}, members[s])]_vars
=============================================================================
