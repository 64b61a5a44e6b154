--------------------------- MODULE ResourceFiles ----------------------------
(***************************************************************************)
(* gb::ResourceFileReader and gb::ResourceFileWriter: resources are        *)
(* written to chunk files and loaded from them into a ResourceSet, with    *)
(* the resources the file names as dependencies.                           *)
(*                                                                         *)
(* A file is a sequence of chunks: <<"load", id, name>> for an entry of    *)
(* its resource load chunk, <<"part", id>> for a resource it embeds,       *)
(* <<"main", id>> for the chunk of the file's own type, and <<"bad">> for  *)
(* what cannot be read.  A load may load other files first: `stack` has    *)
(* the reads that have begun, each a frame.  The program's loaders call    *)
(* Read, its chunk readers use any of the resources they are given and may *)
(* fail, and do so when they are given an entry that is not valid.         *)
(***************************************************************************)
EXTENDS Naturals, Sequences, SequencesExt

CONSTANTS
  Ids,             (* Resources are identified with their ids.             *)
  Names, NoName,
  Pending,         (* The id 0 of a name that is being loaded.             *)
  NoResource,
  InitialFiles     (* Functions from names to sequences of chunks.         *)

VARIABLES
  files,
  object,          (* [deps, visible], or NoResource.                      *)
  idOf, nameOf,    (* name_to_id and id_to_name.                           *)
  set,             (* The members of the ResourceSet of the load.          *)
  stack,
  unused           (* History: the parts of files whose reads succeeded.   *)

vars == <<files, object, idOf, nameOf, set, stack, unused>>

Init ==
  /\ files \in InitialFiles
  /\ object = [r \in Ids |-> NoResource]
  /\ idOf = [n \in Names |-> NoResource]
  /\ nameOf = [r \in Ids |-> NoName]
  /\ set = {}
  /\ stack = <<>>
  /\ unused = {}

Alive   == {r \in Ids : object[r] # NoResource}
Visible == {r \in Alive : object[r].visible}
Top     == Last(stack)
Chunk   == Head(Top.todo)
Kind    == IF stack = <<>> THEN "idle" ELSE IF Top.todo = <<>> THEN "none" ELSE Chunk[1]

(* ResourceSet::Add, with all that the resource depends on.                *)
RECURSIVE Closure(_, _)
Closure(objects, members) ==
  LET more == UNION {objects[r].deps : r \in members} \ members
  IN IF more = {} THEN members ELSE Closure(objects, members \cup more)

(* A member of the set has a reference, which makes it visible.            *)
Seen(objects, members) ==
  [r \in Ids |-> IF r \in members THEN [objects[r] EXCEPT !.visible = TRUE] ELSE objects[r]]

-----------------------------------------------------------------------------
(* Reading.                                                                *)

(* DoLoad reserves the name and calls the loader, which calls Read.        *)
Begin(name) ==
  /\ idOf' = [idOf EXCEPT ![name] = Pending]
  /\ stack' = Append(stack, [name |-> name, todo |-> files[name], found |-> <<>>,
                             made |-> {}])
  /\ UNCHANGED <<files, object, nameOf, set, unused>>

Load(name) ==
  /\ stack = <<>> /\ idOf[name] = NoResource
  /\ Begin(name)

(* Read goes on with the next chunk, and has `r` as resource `id`.         *)
Continue(id, r) ==
  stack' = Front(stack) \o
    <<[Top EXCEPT !.todo = Tail(@), !.found = Append(@, <<id, r>>)]>>

(* Mutant: a name stays reserved for a load that has failed.               *)
KeepsName ==
  /\ object' = [r \in Ids |-> IF r \in Top.made THEN NoResource ELSE object[r]]
  /\ stack' = IF Len(stack) = 1 THEN <<>>
              ELSE SubSeq(stack, 1, Len(stack) - 2) \o
                     <<[stack[Len(stack) - 1] EXCEPT !.todo = <<<<"bad">>>>]>>
  /\ UNCHANGED <<files, idOf, nameOf, set, unused>>

(* Mutant: what the read has found is deleted with what it has created.    *)
DeletesAll ==
  /\ object' = [r \in Ids |-> IF r \in Top.made \cup {g[2] : g \in ToSet(Top.found)}
                              THEN NoResource ELSE object[r]]
  /\ idOf' = [idOf EXCEPT ![Top.name] = NoResource]
  /\ stack' = IF Len(stack) = 1 THEN <<>>
              ELSE SubSeq(stack, 1, Len(stack) - 2) \o
                     <<[stack[Len(stack) - 1] EXCEPT !.todo = <<<<"bad">>>>]>>
  /\ UNCHANGED <<files, nameOf, set, unused>>

(* Mutant: what a failed read has created stays.                           *)
LeavesMade ==
  /\ idOf' = [idOf EXCEPT ![Top.name] = NoResource]
  /\ stack' = IF Len(stack) = 1 THEN <<>>
              ELSE SubSeq(stack, 1, Len(stack) - 2) \o
                     <<[stack[Len(stack) - 1] EXCEPT !.todo = <<<<"bad">>>>]>>
  /\ UNCHANGED <<files, object, nameOf, set, unused>>

(* A read fails: what it has created is deleted, its name is free again,   *)
(* and the read that needed it fails next.                                 *)
Fail ==
  /\ object' = [r \in Ids |-> IF r \in Top.made THEN NoResource ELSE object[r]]
  /\ idOf' = [idOf EXCEPT ![Top.name] = NoResource]
  /\ stack' = IF Len(stack) = 1 THEN <<>>
              ELSE SubSeq(stack, 1, Len(stack) - 2) \o
                     <<[stack[Len(stack) - 1] EXCEPT !.todo = <<<<"bad">>>>]>>
  /\ UNCHANGED <<files, nameOf, set, unused>>

(* An entry of the load chunk: a resource that is visible under this id,   *)
(* or else the one loaded, or to be loaded, under this name.               *)
ReadLoad ==
  /\ Kind = "load"
  /\ LET id == Chunk[2]   name == Chunk[3]
     IN IF id \in Visible
        THEN Continue(id, id) /\ UNCHANGED <<files, object, idOf, nameOf, set, unused>>
        ELSE IF name = NoName \/ idOf[name] = Pending THEN Fail
        ELSE IF idOf[name] = NoResource THEN Begin(name)
        ELSE /\ Continue(id, idOf[name])
             /\ set' = Closure(object, set \cup {idOf[name]})
             /\ object' = Seen(object, set')
             /\ UNCHANGED <<files, idOf, nameOf, unused>>

(* Whether NewResourceEntry has an entry for this id: an id is taken by a  *)
(* resource that is not visible.                                           *)
EntryIsValid(id) == id \notin Alive

ReadPart ==
  /\ Kind = "part"
  /\ LET id == Chunk[2]
     IN IF id \in Visible
        THEN Continue(id, id) /\ UNCHANGED <<files, object, idOf, nameOf, set, unused>>
        ELSE \/ Fail
             \/ /\ EntryIsValid(id)
                /\ object' = [object EXCEPT ![id] = [deps |-> {}, visible |-> FALSE]]
                /\ stack' = Front(stack) \o
                     <<[Top EXCEPT !.todo = Tail(@), !.found = Append(@, <<id, id>>),
                                   !.made = @ \cup {id}]>>
                /\ UNCHANGED <<files, idOf, nameOf, set, unused>>

(* Mutant: a resource that has a name is returned under another one.       *)
RenamesIt(id) == FALSE

(* Whether the file's resource is loaded under a name already.             *)
LoadedAlready(id) == nameOf[id] # NoName

(* The chunk of the file's resource ends the read: the resource is added   *)
(* to the set and has the name of the load.  A read that needed it goes on *)
(* with the resource, whatever id it was to have.                          *)
ReadMain ==
  /\ Kind = "main"
  /\ LET id == Chunk[2]
         below == Front(stack)
     IN \/ (id \notin Visible \/ LoadedAlready(id)) /\ Fail
        \/ /\ IF id \in Visible THEN ~LoadedAlready(id) ELSE EntryIsValid(id)
           /\ \E deps \in IF id \in Visible THEN {object[id].deps}
                          ELSE SUBSET {f[2] : f \in ToSet(Top.found)} :
                LET objects == [object EXCEPT ![id] = [deps |-> deps, visible |-> TRUE]]
                IN /\ set' = Closure(objects, set \cup {id})
                   /\ object' = Seen(objects, set')
           /\ unused' = unused \cup {p \in Top.made : ~object'[p].visible}
           /\ idOf' = [idOf EXCEPT ![Top.name] = id]
           /\ nameOf' = [nameOf EXCEPT ![id] = Top.name]
           /\ stack' = IF below = <<>> THEN <<>>
                       ELSE LET caller == Last(below)
                            IN Front(below) \o
                                 <<[caller EXCEPT !.todo = Tail(@),
                                      !.found = Append(@, <<Head(caller.todo)[2], id>>)]>>
           /\ UNCHANGED files

(* What cannot be read, and a file without the chunk of its type.          *)
ReadBad == Kind \in {"bad", "none"} /\ Fail

-----------------------------------------------------------------------------
(* Writing.                                                                *)

Loads(r, names) ==
  LET deps == SetToSeq(object[r].deps)
  IN [i \in DOMAIN deps |-> <<"load", deps[i], names[deps[i]]>>]

(* Mutant: the name the resource had stays.                                *)
KeepsOldName(r, name) == [idOf EXCEPT ![name] = r]

(* ReserveResourceName and ApplyResourceName, once the file is written.    *)
Renamed(r, name) == [n \in Names |-> IF n = name THEN r
                                     ELSE IF n = nameOf[r] THEN NoResource
                                     ELSE idOf[n]]

(* Write of a member of the set.  The file is reset before anything can    *)
(* fail but the reservation of the name; what fails then leaves it empty   *)
(* and releases the name.                                                  *)
Write(r, name, setName, allowUnnamed) ==
  /\ stack = <<>> /\ r \in set
  /\ setName /\ name # nameOf[r] => idOf[name] = NoResource
  /\ \/ /\ files' = [files EXCEPT ![name] = <<>>]
        /\ UNCHANGED <<idOf, nameOf>>
     \/ /\ allowUnnamed \/ \A d \in object[r].deps : nameOf[d] # NoName
        /\ files' = [files EXCEPT ![name] = Append(Loads(r, nameOf), <<"main", r>>)]
        /\ IF setName
           THEN idOf' = Renamed(r, name) /\ nameOf' = [nameOf EXCEPT ![r] = name]
           ELSE UNCHANGED <<idOf, nameOf>>
  /\ UNCHANGED <<object, set, stack, unused>>

(* The program clears the set, and what was in it is deleted.              *)
ClearSet ==
  /\ stack = <<>> /\ set # {}
  /\ object' = [r \in Ids |-> IF r \in set THEN NoResource ELSE object[r]]
  /\ idOf' = [n \in Names |-> IF idOf[n] \in set THEN NoResource ELSE idOf[n]]
  /\ nameOf' = [r \in Ids |-> IF r \in set THEN NoName ELSE nameOf[r]]
  /\ set' = {}
  /\ UNCHANGED <<files, stack, unused>>

Next ==
  \/ \E name \in Names : Load(name)
  \/ ReadLoad \/ ReadPart \/ ReadMain \/ ReadBad
  \/ \E r \in Ids, name \in Names, setName, allow \in BOOLEAN :
       Write(r, name, setName, allow)
  \/ ClearSet

Spec == Init /\ [][Next]_vars

-----------------------------------------------------------------------------
(* Whatever fails and however deep, the names that are reserved are those  *)
(* of the reads that have not ended, and every other name is that of a     *)
(* resource that exists and that has no second name.                       *)
FileNamesAgree ==
  /\ {n \in Names : idOf[n] = Pending} = {f.name : f \in ToSet(stack)}
  /\ \A i, j \in DOMAIN stack : i # j => stack[i].name # stack[j].name
  /\ \A n \in Names : idOf[n] \in Ids => idOf[n] \in Alive /\ nameOf[idOf[n]] = n
  /\ \A r \in Ids : nameOf[r] # NoName => idOf[nameOf[r]] = r

(* The set holds all that its members depend on; no read, failing or not,  *)
(* deletes what the set holds or what a read further out has found; and    *)
(* nothing is left of what a failed read has made: what nobody can see     *)
(* belongs to a read that goes on, or to one that succeeded without using  *)
(* it, which stays and keeps its id.                                       *)
ReadsKeepWhatIsUsed ==
  /\ \A r \in set : r \in Visible /\ object[r].deps \subseteq set
  /\ \A f \in ToSet(stack) : f.made \cap set = {} /\ {g[2] : g \in ToSet(f.found)} \subseteq Alive
  /\ Alive \ Visible = unused \cup UNION {f.made : f \in ToSet(stack)}
  /\ \A f \in ToSet(stack) : f.made \cap unused = {}
=============================================================================
