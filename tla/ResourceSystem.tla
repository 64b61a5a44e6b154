--------------------------- MODULE ResourceSystem ---------------------------
(***************************************************************************)
(* gb::Resource and gb::ResourceSystem: resources of one type, counted     *)
(* references to them, their names, and the manager that loads them.       *)
(*                                                                         *)
(* Every actor is one ResourcePtr (or one slot of a ResourceSet) with the  *)
(* call that works on it: at[p] is where that call is, res[p] the resource *)
(* and name[p] the name it works with.  Calls on different pointers may    *)
(* come from different threads.  An action is one section under a mutex,   *)
(* or one access of the atomic ref_count_.                                 *)
(*                                                                         *)
(* Resources are identified with their ids, which a loader may use again   *)
(* once the resource is deleted.  They have the default flags.  The caller *)
(* obeys resource.h: a resource is used through a pointer that holds it,   *)
(* a manager ends when no pointer does, and a loader returns a resource it *)
(* has created.                                                            *)
(***************************************************************************)
EXTENDS Naturals, FiniteSets

CONSTANTS
  Resources, NoResource,
  Names, NoName,
  Pending,        (* The id 0, which marks a name that is being loaded.    *)
  Ptrs,
  Cached          (* The resources their manager keeps when it is told to  *)
                  (* release them, to delete them later.  The others have  *)
                  (* the default release handler.                          *)

ASSUME ResourceAssumption ==
  /\ NoResource \notin Resources /\ Pending \notin Resources
  /\ Pending # NoResource /\ NoName \notin Names
  /\ Cached \subseteq Resources /\ IsFiniteSet(Ptrs)

VARIABLES
  entry,          (* resources_: "none"; "empty" without a resource; with  *)
                  (* one, "hidden" or "visible".                           *)
  state,          (* state_, "None" when there is no object.               *)
  ref,            (* ref_count_                                            *)
  nameToId,       (* name_to_id, NoResource where it has no key.           *)
  idToName,       (* id_to_name, NoName where it has no key.               *)
  registered,     (* types_ has the type: its manager exists.              *)
  at, res, name

objectVars == <<entry, state, ref>>
nameVars   == <<nameToId, idToName, registered>>
ptrVars    == <<at, res, name>>
vars       == <<objectVars, nameVars, ptrVars>>

Init ==
  /\ entry = [r \in Resources |-> "none"]
  /\ state = [r \in Resources |-> "None"]
  /\ ref = [r \in Resources |-> 0]
  /\ nameToId = [n \in Names |-> NoResource]
  /\ idToName = [r \in Resources |-> NoName]
  /\ registered = TRUE
  /\ at = [p \in Ptrs |-> "idle"]
  /\ res = [p \in Ptrs |-> NoResource]
  /\ name = [p \in Ptrs |-> NoName]

Go(p, step) == at' = [at EXCEPT ![p] = step]
Set(f, x, v) == [f EXCEPT ![x] = v]

(* Pointer p goes on with resource r, or with none.                        *)
GoWith(p, step, r) == Go(p, step) /\ res' = Set(res, p, r) /\ UNCHANGED name

(* Where a call is once it has created a resource, or failed to: a load    *)
(* goes on to name it.                                                     *)
Created(p) == IF name[p] = NoName THEN "held" ELSE "naming"
Failed(p)  == IF name[p] = NoName THEN "idle" ELSE "naming"

-----------------------------------------------------------------------------
(* Creation.                                                               *)

NewResourceEntry(p, r) ==
  /\ at[p] \in {"idle", "loading"}
  /\ registered
  /\ entry[r] = "none"
  /\ entry' = Set(entry, r, "empty")
  /\ GoWith(p, "entry", r)
  /\ UNCHANGED <<state, ref, nameVars>>

(* The constructor of Resource.                                            *)
Construct(p) ==
  /\ at[p] = "entry"
  /\ entry' = Set(entry, res[p], "hidden")
  /\ state' = Set(state, res[p], "New")
  /\ ref' = Set(ref, res[p], 1)
  /\ Go(p, "new")
  /\ UNCHANGED <<res, name, nameVars>>

(* Mutant: only the entry is forgotten.                                    *)
RemoveEntryOnly(r) ==
  /\ entry' = Set(entry, r, "none")
  /\ UNCHANGED <<idToName, nameToId>>

(* RemoveResource: the entry and the name of r are forgotten.              *)
RemoveResource(r) ==
  /\ entry' = Set(entry, r, "none")
  /\ idToName' = Set(idToName, r, NoName)
  /\ nameToId' = IF idToName[r] = NoName
                 THEN nameToId ELSE Set(nameToId, idToName[r], NoResource)

(* A resource entry that is destroyed without a resource.                  *)
FreeEntry(p) ==
  /\ at[p] = "entry"
  /\ RemoveResource(res[p])
  /\ GoWith(p, Failed(p), NoResource)
  /\ UNCHANGED <<state, ref, registered>>

(* Resource::Delete, of a resource nobody has seen.                        *)
Delete(p) ==
  /\ at[p] = "new"
  /\ state' = Set(state, res[p], "Deleting")
  /\ ref' = Set(ref, res[p], 0)
  /\ Go(p, "delete")
  /\ UNCHANGED <<entry, res, name, nameVars>>

(* A manager makes a resource visible that nobody references, and keeps it.*)
Publish(p) ==
  /\ at[p] = "new" /\ name[p] = NoName /\ res[p] \in Cached
  /\ state' = Set(state, res[p], "Active")
  /\ entry' = Set(entry, res[p], "visible")
  /\ GoWith(p, "idle", NoResource)
  /\ UNCHANGED <<ref, nameVars>>

-----------------------------------------------------------------------------
(* References.  AddRef of the first one is DoAutoVisible; any other may    *)
(* find a count of 1, but not the state New, and only counts.              *)

AddRef(r) == ref' = Set(ref, r, ref[r] + 1)

Hold(p) ==
  /\ at[p] = "new"
  /\ AddRef(res[p])
  /\ state' = Set(state, res[p], "Active")
  /\ Go(p, "visible")
  /\ UNCHANGED <<entry, res, name, nameVars>>

MakeVisible(p) ==
  /\ at[p] = "visible"
  /\ entry' = Set(entry, res[p], "visible")
  /\ Go(p, Created(p))
  /\ UNCHANGED <<state, ref, res, name, nameVars>>

(* Mutant: lookups do not ask whether the resource is being deleted.       *)
GetDeleting(p, r) ==
  /\ at[p] = "idle"
  /\ entry[r] = "visible"
  /\ AddRef(r)
  /\ GoWith(p, "held", r)
  /\ UNCHANGED <<entry, state, nameVars>>

(* DoGet, for a resource that is visible and not being deleted.            *)
Get(p, r) ==
  /\ at[p] = "idle"
  /\ entry[r] = "visible" /\ ref[r] # 0
  /\ AddRef(r)
  /\ GoWith(p, "held", r)
  /\ UNCHANGED <<entry, state, nameVars>>

Copy(p, q) ==
  /\ at[p] = "held" /\ at[q] = "idle"
  /\ AddRef(res[p])
  /\ GoWith(q, "held", res[p])
  /\ UNCHANGED <<entry, state, nameVars>>

SetResourceVisible(p, visible) ==
  /\ at[p] = "held"
  /\ entry' = Set(entry, res[p], IF visible THEN "visible" ELSE "hidden")
  /\ UNCHANGED <<state, ref, nameVars, ptrVars>>

(* RemoveRef reads the count, and acts on what it has read.                *)
RemoveRef(p) ==
  /\ at[p] = "held"
  /\ Go(p, IF ref[res[p]] = 2 THEN "release" ELSE "decrement")
  /\ UNCHANGED <<res, name, objectVars, nameVars>>

Decrement(p) ==
  /\ at[p] = "decrement"
  /\ ref' = Set(ref, res[p], ref[res[p]] - 1)
  /\ GoWith(p, "idle", NoResource)
  /\ UNCHANGED <<entry, state, nameVars>>

-----------------------------------------------------------------------------
(* Mutant: MaybeDelete always expects to be called in a release.           *)
CanDeleteReleased(r) == ref[r] = 2

(* Release and deletion.                                                   *)

(* The comparison in MaybeDelete: one reference is the manager's, and in a *)
(* release one more is the one being removed.                              *)
CanDelete(r) == ref[r] = IF state[r] = "Releasing" THEN 2 ELSE 1

MarkDeleted(r) ==
  /\ ref' = Set(ref, r, 0)
  /\ state' = Set(state, r, "Deleting")

Release(p) ==
  /\ at[p] = "release"
  /\ state' = Set(state, res[p], "Releasing")
  /\ Go(p, "handler")
  /\ UNCHANGED <<entry, ref, res, name, nameVars>>

(* The release handler: the default one calls MaybeDelete.                 *)
ReleaseResource(p) ==
  /\ at[p] = "handler"
  /\ IF res[p] \notin Cached /\ CanDelete(res[p])
     THEN MarkDeleted(res[p]) ELSE UNCHANGED <<state, ref>>
  /\ Go(p, "finish")
  /\ UNCHANGED <<entry, res, name, nameVars>>

(* Mutant: the reference is not given up when the handler kept the resource.*)
FinishReleaseKeeping(p) ==
  /\ at[p] = "finish"
  /\ IF state[res[p]] = "Deleting"
     THEN Go(p, "delete") /\ UNCHANGED <<state, res, name>>
     ELSE state' = Set(state, res[p], "Active") /\ GoWith(p, "idle", NoResource)
  /\ UNCHANGED <<entry, ref, nameVars>>

(* The rest of Release: delete the resource, or give up the reference.     *)
FinishRelease(p) ==
  /\ at[p] = "finish"
  /\ IF state[res[p]] = "Deleting"
     THEN Go(p, "delete") /\ UNCHANGED <<state, ref, res, name>>
     ELSE /\ state' = Set(state, res[p], "Active")
          /\ ref' = Set(ref, res[p], ref[res[p]] - 1)
          /\ GoWith(p, "idle", NoResource)
  /\ UNCHANGED <<entry, nameVars>>

(* The manager tries to delete a resource it keeps, by MaybeDelete.  In a  *)
(* release, the releasing call deletes it.                                 *)
MaybeDeleteResource(p, r) ==
  /\ at[p] = "idle"
  /\ r \in Cached /\ state[r] \in {"Active", "Releasing"}
  /\ CanDelete(r)
  /\ MarkDeleted(r)
  /\ IF state[r] = "Releasing"
     THEN UNCHANGED ptrVars ELSE GoWith(p, "delete", r)
  /\ UNCHANGED <<entry, nameVars>>

(* delete this: the destructor of the entry removes the resource.          *)
Destroy(p) ==
  /\ at[p] = "delete"
  /\ RemoveResource(res[p])
  /\ state' = Set(state, res[p], "None")
  /\ GoWith(p, Failed(p), NoResource)
  /\ UNCHANGED <<ref, registered>>

(* A manager ends, when nothing refers to its resources: those that have   *)
(* other references all the same only lose their entries.                  *)
RemoveManager ==
  /\ registered
  /\ \A p \in Ptrs : at[p] = "idle"
  /\ registered' = FALSE
  /\ LET deleted == {r \in Resources : CanDelete(r)}
     IN  /\ ref' = [r \in Resources |-> IF r \in deleted THEN 0 ELSE ref[r]]
         /\ state' =
              [r \in Resources |-> IF r \in deleted THEN "None" ELSE state[r]]
  /\ entry' = [r \in Resources |-> "none"]
  /\ nameToId' = [n \in Names |-> NoResource]
  /\ idToName' = [r \in Resources |-> NoName]
  /\ UNCHANGED ptrVars

-----------------------------------------------------------------------------
(* DoLoad.                                                                 *)

(* The name has an id: its resource, or null (no step) when it is gone or  *)
(* being deleted.                                                          *)
LoadExisting(p, n) ==
  /\ at[p] = "idle"
  /\ nameToId[n] \in Resources
  /\ entry[nameToId[n]] \in {"hidden", "visible"} /\ ref[nameToId[n]] # 0
  /\ AddRef(nameToId[n])
  /\ GoWith(p, "held", nameToId[n])
  /\ UNCHANGED <<entry, state, nameVars>>

LoadNew(p, n) ==
  /\ at[p] = "idle"
  /\ nameToId[n] \notin Resources
  /\ Go(p, "reserve")
  /\ name' = Set(name, p, n)
  /\ UNCHANGED <<res, objectVars, nameVars>>

(* Mutant: a name is not looked up again under the writer lock.            *)
CanReserveAny(n) == registered

CanReserve(n) == registered /\ nameToId[n] = NoResource

LoadReserve(p) ==
  /\ at[p] = "reserve"
  /\ IF CanReserve(name[p])
     THEN /\ nameToId' = Set(nameToId, name[p], Pending)
          /\ Go(p, "loading")
          /\ UNCHANGED name
     ELSE Go(p, "idle") /\ name' = Set(name, p, NoName) /\ UNCHANGED nameToId
  /\ UNCHANGED <<res, objectVars, idToName, registered>>

(* The loader creates a resource (NewResourceEntry and what follows), or   *)
(* returns null.                                                           *)
LoaderFails(p) ==
  /\ at[p] = "loading"
  /\ GoWith(p, "naming", NoResource)
  /\ UNCHANGED <<objectVars, nameVars>>

NameLoaded(p) ==
  /\ at[p] = "naming"
  /\ nameToId' = Set(nameToId, name[p], res[p])
  /\ IF res[p] = NoResource
     THEN UNCHANGED idToName ELSE idToName' = Set(idToName, res[p], name[p])
  /\ Go(p, IF res[p] = NoResource THEN "idle" ELSE "held")
  /\ name' = Set(name, p, NoName)
  /\ UNCHANGED <<res, registered, objectVars>>

-----------------------------------------------------------------------------
(* ResourceFileWriter::Write, for the name it gives to what it saves: the  *)
(* name is reserved, and applied or released once the file is written.     *)

(* The caller sees to it that the resource is not also being loaded or     *)
(* saved by another call: NamesAgree depends on it.                        *)
SavesAlone(p) == \A q \in Ptrs : name[q] # NoName => res[q] # res[p]

ReserveResourceName(p, n) ==
  /\ at[p] = "held"
  /\ registered /\ n # idToName[res[p]]
  /\ SavesAlone(p)
  /\ nameToId[n] \in {NoResource, res[p]}
  /\ nameToId' = Set(nameToId, n, res[p])
  /\ Go(p, "saving")
  /\ name' = Set(name, p, n)
  /\ UNCHANGED <<res, idToName, registered, objectVars>>

DoneSaving(p) ==
  /\ Go(p, "held")
  /\ name' = Set(name, p, NoName)
  /\ UNCHANGED <<res, registered, objectVars>>

ApplyResourceName(p) ==
  /\ at[p] = "saving"
  /\ LET r == res[p]
         old == idToName[r]
         lost == nameToId[name[p]] = NoResource
     IN  IF lost THEN UNCHANGED <<nameToId, idToName>> ELSE
         /\ idToName' = Set(idToName, r, name[p])
         /\ nameToId' = IF old \in {NoName, name[p]}
                        THEN nameToId ELSE Set(nameToId, old, NoResource)
  /\ DoneSaving(p)

ReleaseResourceName(p) ==
  /\ at[p] = "saving"
  /\ nameToId' = IF idToName[res[p]] = name[p]
                 THEN nameToId ELSE Set(nameToId, name[p], NoResource)
  /\ UNCHANGED idToName
  /\ DoneSaving(p)

-----------------------------------------------------------------------------
Step(p) ==
  \/ Construct(p) \/ FreeEntry(p) \/ Delete(p) \/ Publish(p)
  \/ Hold(p) \/ MakeVisible(p) \/ RemoveRef(p) \/ Decrement(p)
  \/ Release(p) \/ ReleaseResource(p) \/ FinishRelease(p) \/ Destroy(p)
  \/ LoadReserve(p) \/ LoaderFails(p) \/ NameLoaded(p)
  \/ ApplyResourceName(p) \/ ReleaseResourceName(p)
  \/ \E q \in Ptrs : Copy(p, q)
  \/ \E visible \in BOOLEAN : SetResourceVisible(p, visible)
  \/ \E n \in Names : \/ LoadExisting(p, n) \/ LoadNew(p, n)
                      \/ ReserveResourceName(p, n)
  \/ \E r \in Resources : \/ NewResourceEntry(p, r) \/ Get(p, r)
                          \/ MaybeDeleteResource(p, r)

Next == RemoveManager \/ \E p \in Ptrs : Step(p)

Spec == Init /\ [][Next]_vars

-----------------------------------------------------------------------------
Steps == {"idle", "entry", "new", "visible", "held", "decrement", "release",
          "handler", "finish", "delete", "reserve", "loading",
          "naming", "saving"}

TypeOK ==
  /\ entry \in [Resources -> {"none", "empty", "hidden", "visible"}]
  /\ state \in [Resources -> {"None", "New", "Active", "Releasing", "Deleting"}]
  /\ ref \in [Resources -> Nat]
  /\ nameToId \in [Names -> Resources \cup {NoResource, Pending}]
  /\ idToName \in [Resources -> Names \cup {NoName}]
  /\ registered \in BOOLEAN
  /\ at \in [Ptrs -> Steps]
  /\ res \in [Ptrs -> Resources \cup {NoResource}]
  /\ name \in [Ptrs -> Names \cup {NoName}]

(* The pointers that count as references to r: those that hold it, those   *)
(* that are being made to, and those that are still to give it up.         *)
References(r) ==
  {p \in Ptrs : /\ res[p] = r
                /\ at[p] \in {"visible", "held", "decrement", "release",
                              "handler", "finish", "naming", "saving"}}

(* Whatever threads interleave, the count is the manager's reference plus  *)
(* one for every pointer, until MaybeDelete or Delete makes it zero: the   *)
(* comparisons of ref_count_ with 1 and 2 mean what resource.cc takes them *)
(* to mean, and none is ever lost or given up twice.                       *)
RefAccounting ==
  \A r \in Resources :
    IF state[r] \in {"None", "Deleting"}
    THEN ref[r] = 0
    ELSE ref[r] = 1 + Cardinality(References(r))

(* A resource is released by one pointer at a time and deleted by one: of  *)
(* Release and MaybeDelete, on whatever threads, exactly one deletes it.   *)
OneReleaser ==
  \A p, q \in Ptrs :
    /\ at[p] \in {"release", "handler", "finish", "delete"}
    /\ at[q] \in {"release", "handler", "finish", "delete"}
    /\ res[p] = res[q]
    => p = q

(* resource_ptr.h: as long as a pointer exists, its resource is not        *)
(* deleted.  No call works with a resource that is gone, nor with one that *)
(* is to be deleted, except the call that deletes it; and an entry, which  *)
(* lookups dereference, has a resource.                                    *)
NothingDangles ==
  /\ \A p \in Ptrs : res[p] # NoResource =>
       \/ at[p] = "entry"
       \/ state[res[p]] \in {"New", "Active", "Releasing"}
       \/ /\ state[res[p]] = "Deleting"
          /\ at[p] \in {"handler", "finish", "delete"}
  /\ \A r \in Resources :
       entry[r] \in {"hidden", "visible"} <=> state[r] # "None"

Saving(p, r, n) == at[p] = "saving" /\ res[p] = r /\ name[p] = n
Loading(p, n) == name[p] = n /\ at[p] \notin {"reserve", "saving"}

(* The two maps of names agree although loads, saves and deletions change  *)
(* them in several steps: a resource's name leads to it, and a name that   *)
(* leads to a resource is that resource's, or reserved by the call that    *)
(* saves it.  In particular no name leads to a resource that is gone.      *)
NamesAgree ==
  /\ \A r \in Resources : idToName[r] # NoName =>
       nameToId[idToName[r]] = r /\ entry[r] # "none"
  /\ \A n \in Names : nameToId[n] \in Resources =>
       \/ idToName[nameToId[n]] = n
       \/ \E p \in Ptrs : Saving(p, nameToId[n], n)

(* A name is loaded by one call at a time, and marked as long as it is:    *)
(* two loads of one name do not both create a resource.                    *)
LoadedOnce ==
  \A n \in Names :
    /\ \A p \in Ptrs : Loading(p, n) => \A q \in Ptrs : Loading(q, n) => p = q
    /\ (nameToId[n] = Pending) <=> (\E p \in Ptrs : Loading(p, n))

(* Once its manager has ended no resource is left: those nobody references *)
(* are all found, at whatever point the last reference was removed.        *)
ManagerLeavesNothing ==
  ~registered => \A r \in Resources : state[r] = "None"

(* What resource.h says of kAutoRelease: a resource whose last reference   *)
(* has been removed is released, which by default deletes it.  So one that *)
(* is not being created is never left with the manager's reference only.   *)
ReleasedWhenUnreferenced ==
  \A r \in Resources \ Cached : state[r] = "Active" => ref[r] # 1
=============================================================================
