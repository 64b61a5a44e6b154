----------------------------- MODULE FileSystem -----------------------------
(***************************************************************************)
(* gb/file/file_system: protocols under names, and the calls of a program  *)
(* on paths: what is checked before a protocol is called, and the copies   *)
(* between two protocols.  The protocols are MemoryFileProtocols; the      *)
(* program's open files are gb::File over MemoryFile.                      *)
(*                                                                         *)
(* One action is one call.  A path is a protocol's name, or NoName for the *)
(* default protocol, and names from the root; a relative path is refused   *)
(* by a protocol without a current path, as a MemoryFileProtocol is.       *)
(*                                                                         *)
(* The first part has the calls of a FileProtocol on a tree of folders and *)
(* files, as functions from a tree to a result and a tree.  Names are      *)
(* numbers there, a path a sequence of them, <<>> for the root, and a tree *)
(* a function from the paths that exist to nodes, which is what            *)
(* MemoryFileProtocol keeps in its map, in this order.  The operators      *)
(* without a prefix are FileProtocol's default calls over the Basic calls  *)
(* of MemoryFileProtocol; those with the prefix Local are                  *)
(* LocalFileProtocol's, over the calls of std::filesystem that it makes    *)
(* (prefix fs).                                                            *)
(***************************************************************************)
EXTENDS Integers, Sequences, SequencesExt, FiniteSets

(* A node, as created: a file is opened by its creation.                   *)
NewNode(type) == [type |-> type, open |-> FALSE, size |-> 0, contents |-> <<>>]

EmptyTree == (<<>> :> NewNode("folder"))

Result(ok, tree) == [ok |-> ok, tree |-> tree]

(* A loop over `items` that returns false at the first step that fails.    *)
EachOf(Step(_, _), tree, items) ==
  FoldLeft(LAMBDA r, x : IF r.ok THEN Step(r.tree, x) ELSE r,
           Result(TRUE, tree), items)

Parent(path)      == IF path = <<>> THEN <<>> ELSE Front(path)
Without(t, path)  == [p \in DOMAIN t \ {path} |-> t[p]]
With(t, path, n)  == (path :> n) @@ t

(* DoGetPathInfo                                                           *)
PathType(t, path) == IF path \in DOMAIN t THEN t[path].type ELSE "invalid"
IsFolder(t, path) == PathType(t, path) = "folder"
IsFile(t, path)   == PathType(t, path) = "file"

(* BasicList, for one type of path: in the order of the map.               *)
BasicList(t, path, types) ==
  SetToSortSeq({p \in DOMAIN t : /\ p # <<>> /\ Parent(p) = path
                                 /\ t[p].type \in types},
               LAMBDA p, q : Last(p) < Last(q))

(* DoList: breadth first, with no pattern.                                 *)
DoList(t, path, recursive, types) ==
  LET RECURSIVE Scan(_)
      Scan(remaining) ==
        IF remaining = <<>> THEN <<>>
        ELSE <<Head(remaining)>>
             \o Scan(Tail(remaining)
                     \o IF recursive /\ IsFolder(t, Head(remaining))
                        THEN BasicList(t, Head(remaining), {"file", "folder"})
                        ELSE <<>>)
  IN IF ~IsFolder(t, path) THEN <<>>
     ELSE SelectSeq(Scan(BasicList(t, path, {"file", "folder"})),
                    LAMBDA p : t[p].type \in types)

BasicCreateFolder(t, path) == Result(TRUE, With(t, path, NewNode("folder")))

(* Mutant: that the first folder there is no file is not tested.           *)
CreatesUnderFiles(t, path, recursive) ==
  CASE path \in DOMAIN t -> Result(IsFolder(t, path), t)
    [] ~recursive /\ Parent(path) \notin DOMAIN t -> Result(FALSE, t)
    [] OTHER -> EachOf(LAMBDA s, n : BasicCreateFolder(s, SubSeq(path, 1, n)), t,
                       SetToSortSeq({n \in 1 .. Len(path) :
                                       SubSeq(path, 1, n) \notin DOMAIN t}, <))

DoCreateFolder(t, path, recursive) ==
  LET missing == SetToSortSeq({n \in 1 .. Len(path) :
                                 SubSeq(path, 1, n) \notin DOMAIN t}, <)
      parent  == SubSeq(path, 1, missing[1] - 1)
  IN CASE path \in DOMAIN t -> Result(IsFolder(t, path), t)
       [] ~recursive /\ ~IsFolder(t, Parent(path)) -> Result(FALSE, t)
       [] ~recursive -> BasicCreateFolder(t, path)
       [] ~IsFolder(t, parent) -> Result(FALSE, t)
       [] OTHER -> EachOf(LAMBDA s, n : BasicCreateFolder(s, SubSeq(path, 1, n)),
                          t, missing)

(* DoDeleteFile with BasicDeleteFile: a file that is open stays.           *)
DoDeleteFile(t, path) ==
  CASE ~IsFile(t, path) -> Result(PathType(t, path) = "invalid", t)
    [] t[path].open     -> Result(FALSE, t)
    [] OTHER            -> Result(TRUE, Without(t, path))

(* Mutant: the subfolders that could not be deleted are passed over.       *)
DeletesOver(t, path, recursive) ==
  LET files == EachOf(DoDeleteFile, t, DoList(t, path, TRUE, {"file"}))
  IN CASE ~IsFolder(t, path) -> Result(PathType(t, path) = "invalid", t)
       [] path = <<>> -> Result(FALSE, t)
       [] ~recursive /\ DoList(t, path, FALSE, {"file", "folder"}) # <<>> ->
            Result(FALSE, t)
       [] OTHER -> Result(TRUE, Without(files.tree, path))

RECURSIVE DoDeleteFolder(_, _, _)
DoDeleteFolder(t, path, recursive) ==
  LET folders == BasicList(t, path, {"folder"})
      files   == BasicList(t, path, {"file"})
      emptied == EachOf(LAMBDA s, p : DoDeleteFolder(s, p, recursive), t, folders)
      cleared == IF emptied.ok THEN EachOf(DoDeleteFile, emptied.tree, files)
                 ELSE emptied
  IN CASE ~IsFolder(t, path) -> Result(PathType(t, path) = "invalid", t)
       [] path = <<>> -> Result(FALSE, t)
       [] ~recursive /\ folders \o files # <<>> -> Result(FALSE, t)
       [] ~cleared.ok -> cleared
       [] OTHER -> Result(TRUE, Without(cleared.tree, path))

(* DoOpenFile with BasicOpenFile: whether a MemoryFile is returned, and    *)
(* the tree.  kReset clears the contents, and not the size.                *)
DoOpenFile(t, path, flags) ==
  LET opened == [t[path] EXCEPT !.open = TRUE,
                                !.contents = IF "reset" \in flags THEN <<>> ELSE @]
      creates == "create" \in flags /\ path # <<>> /\ IsFolder(t, Parent(path))
  IN CASE IsFolder(t, path) -> Result(FALSE, t)
       [] IsFile(t, path) -> IF t[path].open THEN Result(FALSE, t)
                             ELSE Result(TRUE, With(t, path, opened))
       [] OTHER -> IF creates
                   THEN Result(TRUE, With(t, path, [NewNode("file") EXCEPT !.open = TRUE]))
                   ELSE Result(FALSE, t)

CloseFile(t, path) == [t EXCEPT ![path].open = FALSE]

(* MemoryFile::Write of `bytes` at `position`.                             *)
WriteBytes(node, position, bytes) ==
  LET end  == position + Len(bytes)
      grown == [i \in 1 .. end |-> IF i <= position THEN node.contents[i]
                                   ELSE bytes[i - position]]
      kept  == [i \in DOMAIN node.contents |->
                  IF i \in position + 1 .. end THEN bytes[i - position]
                  ELSE node.contents[i]]
  IN IF end > Len(node.contents)
     THEN [node EXCEPT !.contents = grown, !.size = end]
     ELSE [node EXCEPT !.contents = kept]

(* A file read to its end and written to another that was reset: the loop  *)
(* of BasicCopyFile and of FileSystem::GenericCopyFile.  Both are opened   *)
(* by `Open`, and closed again.                                            *)
WriteAll(t, path, bytes) ==
  CloseFile([t EXCEPT ![path] = WriteBytes(@, 0, bytes)], path)

NewFlags == {"write", "create", "reset"}

BasicCopyFile(t, from, to) ==
  LET source == DoOpenFile(t, from, {"read"})
      target == DoOpenFile(source.tree, to, NewFlags)
  IN CASE ~source.ok -> Result(FALSE, t)
       [] ~target.ok -> Result(FALSE, t)
       [] OTHER -> Result(TRUE, CloseFile(WriteAll(target.tree, to, t[from].contents),
                                          from))

DoCopyFile(t, from, to) ==
  CASE ~IsFile(t, from) -> Result(FALSE, t)
    [] IsFolder(t, to) -> Result(FALSE, t)
    [] to \notin DOMAIN t /\ ~IsFolder(t, Parent(to)) -> Result(FALSE, t)
    [] from = to -> Result(TRUE, t)
    [] OTHER -> BasicCopyFile(t, from, to)

(* Mutant: the loops do not stop at the first copy that fails.             *)
RECURSIVE CopiesWhatItCan(_, _, _)
CopiesWhatItCan(t, from, to) ==
  LET made == IF to \in DOMAIN t THEN Result(TRUE, t) ELSE DoCreateFolder(t, to, FALSE)
      Copy(s, p) == Result(TRUE, DoCopyFile(s, p, Append(to, Last(p))).tree)
      files == EachOf(Copy, made.tree, BasicList(t, from, {"file"}))
  IN IF ~made.ok \/ ~IsFolder(t, from) \/ IsFile(t, to) THEN Result(FALSE, t)
     ELSE EachOf(LAMBDA s, p : CopiesWhatItCan(s, p, Append(to, Last(p))),
                 files.tree, BasicList(t, from, {"folder"}))

RECURSIVE DoCopyFolder(_, _, _)
DoCopyFolder(t, from, to) ==
  LET made  == IF to \in DOMAIN t THEN Result(TRUE, t) ELSE DoCreateFolder(t, to, FALSE)
      files == EachOf(LAMBDA s, p : DoCopyFile(s, p, Append(to, Last(p))),
                      made.tree, BasicList(t, from, {"file"}))
  IN CASE IsFile(t, to) \/ ~IsFolder(t, from) -> Result(FALSE, t)
       [] ~made.ok  -> made
       [] ~files.ok -> files
       [] OTHER -> EachOf(LAMBDA s, p : DoCopyFolder(s, p, Append(to, Last(p))),
                          files.tree, BasicList(t, from, {"folder"}))

(***************************************************************************)
(* std::filesystem, as LocalFileProtocol uses it.                          *)
(***************************************************************************)
Descends(p, q) == IsPrefix(q, p) /\ p # q

fsCreateDirectory(t, path) ==
  IF path \in DOMAIN t \/ ~IsFolder(t, Parent(path)) THEN Result(FALSE, t)
  ELSE Result(TRUE, With(t, path, NewNode("folder")))

fsCreateDirectories(t, path) ==
  LET above == {SubSeq(path, 1, n) : n \in 0 .. Len(path)}
  IN IF path \in DOMAIN t \/ \E p \in above : IsFile(t, p) THEN Result(FALSE, t)
     ELSE Result(TRUE, [p \in above \ DOMAIN t |-> NewNode("folder")] @@ t)

Below(t, path) == {p \in DOMAIN t : IsPrefix(path, p)}
OtherThan(t, gone) == [p \in DOMAIN t \ gone |-> t[p]]

(* remove_all, in an order of the host's: it stops at the first entry that *)
(* the host does not remove, one of `held`, with what it has not come to   *)
(* left.  It returns how many it removed, or -1 for an error: a true value *)
(* both times.                                                             *)
Remainders(t, path, held) ==
  {left \in SUBSET Below(t, path) :
     /\ (held \cap Below(t, path) = {}) = (left = {})
     /\ held \cap Below(t, path) \subseteq left
     /\ \A p \in left \ {path} : Parent(p) \in left}

fsRemoveAll(t, path, held) ==
  {Result(TRUE, OtherThan(t, Below(t, path) \ left)) : left \in Remainders(t, path, held)}

(* copy_file with overwrite_existing, of two different regular files.      *)
fsCopyFile(t, from, to) ==
  IF ~IsFile(t, from) \/ IsFolder(t, to) \/ from = to \/ ~IsFolder(t, Parent(to))
  THEN Result(FALSE, t)
  ELSE Result(TRUE, With(t, to, t[from]))

(* copy with overwrite_existing and recursive: a file that meets a folder  *)
(* is copied into it.  The order of the entries is the map's; each error   *)
(* ends the copy.                                                          *)
RECURSIVE fsCopy(_, _, _)
fsCopy(t, from, to) ==
  LET made == IF to \in DOMAIN t THEN Result(TRUE, t) ELSE fsCreateDirectory(t, to)
  IN CASE IsFile(t, from) -> fsCopyFile(t, from, IF IsFolder(t, to)
                                                  THEN Append(to, Last(from)) ELSE to)
       [] IsFile(t, to) \/ ~made.ok -> Result(FALSE, t)
       [] OTHER -> EachOf(LAMBDA s, p : fsCopy(s, p, Append(to, Last(p))), made.tree,
                          BasicList(t, from, {"file", "folder"}))

LocalCreateFolder(t, path, recursive) ==
  CASE recursive -> fsCreateDirectories(t, path)
    [] path \in DOMAIN t -> Result(IsFolder(t, path), t)
    [] OTHER -> fsCreateDirectory(t, path)

(* Mutant: whether the folder is empty is not asked.                       *)
RemovesAny(t, path, recursive, held) ==
  CASE path = <<>> -> {Result(FALSE, t)}
    [] ~IsFolder(t, path) -> {Result(path \notin DOMAIN t, t)}
    [] OTHER -> fsRemoveAll(t, path, held)

(* With all that it may come to.                                           *)
LocalDeleteFolder(t, path, recursive, held) ==
  CASE path = <<>> -> {Result(FALSE, t)}
    [] ~IsFolder(t, path) -> {Result(path \notin DOMAIN t, t)}
    [] recursive -> fsRemoveAll(t, path, held)
    [] Below(t, path) = {path} /\ path \notin held -> {Result(TRUE, Without(t, path))}
    [] OTHER -> {Result(FALSE, t)}

LocalCopyFolder(t, from, to) ==
  IF ~IsFolder(t, from) \/ IsFile(t, to) THEN Result(FALSE, t) ELSE fsCopy(t, from, to)

LocalCopyFile(t, from, to) == fsCopyFile(t, from, to)

LocalDeleteFile(t, path, held) ==
  CASE path \notin DOMAIN t -> Result(TRUE, t)
    [] IsFolder(t, path) \/ path \in held -> Result(FALSE, t)
    [] OTHER -> Result(TRUE, Without(t, path))

(* DoOpenFile of a file that nobody has open: it is created or truncated.  *)
LocalOpenFile(t, path, flags) ==
  CASE IsFile(t, path) ->
         Result(TRUE, IF "reset" \in flags THEN With(t, path, NewNode("file")) ELSE t)
    [] "create" \in flags /\ path \notin DOMAIN t /\ IsFolder(t, Parent(path)) ->
         Result(TRUE, With(t, path, NewNode("file")))
    [] OTHER -> Result(FALSE, t)

(***************************************************************************)
(* LocalFileProtocol on a host, whose tree is `h`: the folder that is its  *)
(* root, and what it makes of paths.  A path of the host has no protocol   *)
(* (that of a drive is left out).                                          *)
(***************************************************************************)
NoFolder == <<0>>

(* A name that the text of another begins with, as every unique name does  *)
(* with the name it was made of.                                           *)
Unique(name, n) == 10 * name + n
BeginsWith(name, start) == name = start \/ name \div 10 = start

RootResult(ok, tree, root) == [ok |-> ok, tree |-> tree, root |-> root]

(* Create, from the current folder `cwd` if the root is relative.  The     *)
(* hundred random names are one that is free, or none is, `free` = FALSE.  *)
CreateRoot(h, cwd, path, relative, unique, free) ==
  LET full == IF relative THEN cwd \o path ELSE path
      base == IF full \in DOMAIN h THEN full ELSE Parent(full)
      sub  == IF full \in DOMAIN h THEN 0 ELSE Last(full)
      name == Unique(sub, CHOOSE n \in 1 .. 9 : Append(base, Unique(sub, n)) \notin DOMAIN h)
      root == CASE unique -> Append(base, name)
                [] ~unique /\ sub # 0 -> Append(base, sub)
                [] OTHER -> base
  IN CASE relative /\ cwd = NoFolder -> RootResult(FALSE, h, NoFolder)
       [] ~IsFolder(h, base) -> RootResult(FALSE, h, NoFolder)
       [] unique /\ ~free -> RootResult(FALSE, h, NoFolder)
       [] root = base -> RootResult(TRUE, h, root)
       [] OTHER -> RootResult(TRUE, With(h, root, NewNode("folder")), root)

(* Mutant: what is deleted at exit is the root itself.                     *)
DeletesRoot(h, root, unique, held) == {r.tree : r \in fsRemoveAll(h, root, held)}

(* The destructor, if it is to delete.  From a root that it has not made   *)
(* it removes each entry, and goes on after one that fails.                *)
AtExit(h, root, unique, held) ==
  IF unique THEN {r.tree : r \in fsRemoveAll(h, root, held)}
  ELSE LET Deleted(trees, p) == UNION {{r.tree : r \in fsRemoveAll(t, p, held)} : t \in trees}
       IN FoldSet(LAMBDA p, trees : Deleted(trees, p), {h},
                  {q \in DOMAIN h : q # <<>> /\ Parent(q) = root})

(* DoList: the entries as paths of the protocol, in an order of the host's.*)
LocalList(h, root, path, recursive, types) ==
  {SubSeq(p, Len(root) + 1, Len(p)) :
     p \in {q \in DOMAIN h : /\ Descends(q, root \o path)
                             /\ recursive \/ Parent(q) = root \o path
                             /\ h[q].type \in types}}

(* DoGetCurrentPath compares and cuts the texts of the two paths: of the   *)
(* root itself nothing is left, which is no current folder, and of a       *)
(* folder whose name begins with the root's a relative path.               *)
Beside == <<-1>>

IsTextPrefix(root, cwd) ==
  /\ Len(root) <= Len(cwd) /\ IsPrefix(Front(root), cwd)
  /\ BeginsWith(cwd[Len(root)], Last(root))

GetCurrentPath(root, cwd) ==
  CASE cwd = NoFolder \/ (cwd = root /\ root # <<>>) -> NoFolder
    [] cwd # NoFolder /\ cwd # root /\ root # <<>> /\ ~IsPrefix(root, cwd) ->
         IF IsTextPrefix(root, cwd) THEN Beside ELSE NoFolder
    [] OTHER -> SubSeq(cwd, Len(root) + 1, Len(cwd))

SetCurrentPath(h, cwd, root, path) ==
  IF IsFolder(h, root \o path) THEN [ok |-> TRUE, cwd |-> root \o path]
  ELSE [ok |-> FALSE, cwd |-> cwd]

(* LocalFile: the position of the std::fstream and whether it has failed,  *)
(* and position_.  A stream that has failed stays so: only Read clears it, *)
(* and only at the end of the file.                                        *)
NewStream == [at |-> 0, failed |-> FALSE, position |-> 0]
Failed(s) == [s EXCEPT !.failed = TRUE, !.position = -1]

LocalSeekTo(s, to) ==
  IF s.failed \/ to < 0 THEN Failed(s) ELSE [s EXCEPT !.at = to, !.position = to]
LocalSeekEnd(s, size) == LocalSeekTo(s, size)

(* Mutant: a read that meets the end leaves the stream as it is then.      *)
FailsAtEnd(s, size, n) ==
  LET there == IF s.at > size THEN 0 ELSE size - s.at
  IN IF s.failed \/ n > there THEN [count |-> 0, stream |-> Failed(s)]
     ELSE [count |-> n, stream |-> [s EXCEPT !.at = @ + n, !.position = @ + n]]

LocalRead(s, size, n) ==
  LET there == IF s.at > size THEN 0 ELSE size - s.at
  IN CASE s.failed -> [count |-> 0, stream |-> Failed(s)]
       [] ~s.failed /\ n > there -> [count |-> there, stream |-> LocalSeekEnd(s, size)]
       [] OTHER -> [count |-> n, stream |-> [s EXCEPT !.at = @ + n, !.position = @ + n]]

(* `taken`: whether the host takes all of the bytes.                       *)
LocalWrite(s, n, taken) ==
  IF s.failed \/ ~taken THEN [count |-> 0, stream |-> Failed(s)]
  ELSE [count |-> n, stream |-> [s EXCEPT !.at = @ + n, !.position = @ + n]]

(***************************************************************************)
(* The file system.                                                        *)
(***************************************************************************)
CONSTANTS
  Protocols,       (* The protocols a program creates.                     *)
  FlagsOf,         (* FlagsOf[p]: the FileProtocolFlags of each.           *)
  Registrations,   (* What a program registers: a protocol and its names.  *)
  Defaults,        (* The names it may set as default.                     *)
  NoName,
  Handles,         (* The File objects of the program.                     *)
  NoFile,
  MaxNodes,        (* Bound: the nodes of all protocols that exist.        *)
  MaxSize          (* Bound: the bytes of a file.                          *)

VARIABLES
  protocols,       (* protocols_: those that are owned, and so exist.      *)
  protocolMap,     (* protocol_map_                                        *)
  defaultName,     (* default_protocol_name_                               *)
  trees,           (* trees[p]: nodes_ of the protocol.                    *)
  file             (* file[h]: what the handle has open.                   *)

vars == <<protocols, protocolMap, defaultName, trees, file>>

Bytes == {1}
Paths == {<<>>, <<1>>, <<1, 1>>, <<1, 2>>, <<2>>}
Flags == {{"read"}, {"write"}, {"write", "create"}, {"write", "reset"},
          {"read", "write", "create", "reset"}, {"read", "create"}, {}}

(* ValidateProtocolFlags                                                   *)
FlagsAreValid(flags) ==
  /\ "list" \in flags => "info" \in flags
  /\ "folderCreate" \in flags => "fileCreate" \in flags
  /\ "fileCreate" \in flags => "fileWrite" \in flags
  /\ flags \cap {"fileRead", "fileWrite"} # {}

Init ==
  /\ protocols = {}
  /\ protocolMap = <<>>
  /\ defaultName = NoName
  /\ trees = [p \in Protocols |-> EmptyTree]
  /\ file = [h \in Handles |-> NoFile]

(* GetNormalizedPath: the protocol a name leads to, if any.                *)
Resolves(name) == name \in DOMAIN protocolMap \/ (name = NoName /\ defaultName # NoName)
NameOf(name)   == IF name = NoName THEN defaultName ELSE name
ProtocolOf(name) == protocolMap[NameOf(name)]
Has(name, flags) == Resolves(name) /\ flags \subseteq FlagsOf[ProtocolOf(name)]

(* Mutant: names are entered as they are found valid.                      *)
EntersAsItGoes(p, names) ==
  LET taken == names \cap DOMAIN protocolMap
  IN /\ p \notin protocols
     /\ names # {} /\ FlagsAreValid(FlagsOf[p])
     /\ protocols' = IF taken = {} THEN protocols \cup {p} ELSE protocols
     /\ protocolMap' = [n \in names \ taken |-> p] @@ protocolMap
     /\ UNCHANGED <<defaultName, trees, file>>

(* Register: a protocol that is refused is destroyed.                      *)
Register(p, names) ==
  /\ p \notin protocols
  /\ names # {} /\ FlagsAreValid(FlagsOf[p])
  /\ names \cap DOMAIN protocolMap = {}
  /\ protocols' = protocols \cup {p}
  /\ protocolMap' = [n \in names |-> p] @@ protocolMap
  /\ UNCHANGED <<defaultName, trees, file>>

SetDefaultProtocol(name) ==
  /\ name \in DOMAIN protocolMap
  /\ defaultName' = name
  /\ UNCHANGED <<protocols, protocolMap, trees, file>>

(***************************************************************************)
(* The calls on paths, as results.                                         *)
(***************************************************************************)
Failure == Result(FALSE, trees)

(* A call of one protocol, which has the flags it needs: done[p] is its    *)
(* result with the tree of p.                                              *)
Call(name, flags, done) ==
  IF ~Has(name, flags) THEN Failure
  ELSE LET p == ProtocolOf(name)
       IN Result(done[p].ok, [trees EXCEPT ![p] = done[p].tree])

CreateFolderCall(name, path, recursive) ==
  Call(name, {"folderCreate"}, [p \in Protocols |-> DoCreateFolder(trees[p], path, recursive)])
DeleteFolderCall(name, path, recursive) ==
  Call(name, {"folderCreate"}, [p \in Protocols |-> DoDeleteFolder(trees[p], path, recursive)])
DeleteFileCall(name, path) ==
  Call(name, {"fileCreate"}, [p \in Protocols |-> DoDeleteFile(trees[p], path)])

(* GenericCopyFile: the two files may be in one tree.                      *)
GenericCopyFile(ts, p, from, q, to) ==
  LET source == DoOpenFile(ts[p], from, {"read"})
      opened == [ts EXCEPT ![p] = source.tree]
      target == DoOpenFile(opened[q], to, NewFlags)
      copied == [opened EXCEPT ![q] = WriteAll(target.tree, to, ts[p][from].contents)]
  IN IF source.ok /\ target.ok
     THEN Result(TRUE, [copied EXCEPT ![p] = CloseFile(@, from)])
     ELSE Result(FALSE, ts)

RECURSIVE GenericCopyFolder(_, _, _, _, _)
GenericCopyFolder(ts, p, from, q, to) ==
  LET made  == DoCreateFolder(ts[q], to, FALSE)
      start == [ts EXCEPT ![q] = made.tree]
      files == EachOf(LAMBDA s, f : GenericCopyFile(s, p, f, q, Append(to, Last(f))),
                      start, DoList(start[p], from, FALSE, {"file"}))
  IN CASE ~made.ok  -> Result(FALSE, ts)
       [] ~files.ok -> files
       [] OTHER -> EachOf(LAMBDA s, f : GenericCopyFolder(s, p, f, q, Append(to, Last(f))),
                          files.tree, DoList(start[p], from, FALSE, {"folder"}))

(* The two names of one protocol are not told apart by what they lead to:  *)
(* a folder copied below itself between them is copied without end.        *)
CopyEnds(from, path, to, path2) ==
  Resolves(from) /\ Resolves(to) /\ ProtocolOf(from) = ProtocolOf(to)
    => ~Descends(path2, path)

CopyFolderCall(from, path, to, path2) ==
  CASE ~Has(to, {"folderCreate"}) \/ ~Resolves(from) -> Failure
    [] NameOf(from) # NameOf(to) ->
         IF Has(from, {"fileRead", "list"}) /\ Has(to, {"fileCreate", "fileWrite"})
         THEN GenericCopyFolder(trees, ProtocolOf(from), path, ProtocolOf(to), path2)
         ELSE Failure
    [] path = <<>> \/ IsPrefix(path, path2) -> Failure
    [] OTHER -> Call(from, {}, [p \in Protocols |-> DoCopyFolder(trees[p], path, path2)])

CopyFileCall(from, path, to, path2) ==
  CASE ~Has(to, {"fileCreate"}) \/ ~Resolves(from) -> Failure
    [] NameOf(from) # NameOf(to) ->
         IF Has(from, {"fileRead"}) /\ Has(to, {"fileWrite"})
         THEN GenericCopyFile(trees, ProtocolOf(from), path, ProtocolOf(to), path2)
         ELSE Failure
    [] OTHER -> Call(from, {}, [p \in Protocols |-> DoCopyFile(trees[p], path, path2)])

(* The checks of OpenFile before the protocol opens the file.              *)
OpenNeeds(flags) ==
  (IF "read" \in flags THEN {"fileRead"} ELSE {})
  \cup (IF "write" \in flags THEN {"fileWrite"} ELSE {})
  \cup (IF "create" \in flags THEN {"fileCreate"} ELSE {})

OpenFileCall(name, path, flags) ==
  IF \/ flags \cap {"read", "write"} = {}
     \/ flags \cap {"create", "reset"} # {} /\ "write" \notin flags
  THEN Failure
  ELSE Call(name, OpenNeeds(flags), [p \in Protocols |-> DoOpenFile(trees[p], path, flags)])

(***************************************************************************)
(* The program: any call at any time.                                      *)
(***************************************************************************)
Size(ts) == FoldFunctionOnSet(LAMBDA t, n : Cardinality(DOMAIN t) + n, 0, ts, protocols)
AnyName == DOMAIN protocolMap \cup {NoName}

Does(call) ==
  /\ Size(call.tree) <= MaxNodes
  /\ trees' = call.tree
  /\ UNCHANGED <<protocols, protocolMap, defaultName>>

Change ==
  /\ UNCHANGED file
  /\ \E name \in AnyName, path \in Paths :
       \/ \E recursive \in BOOLEAN :
            \/ Does(CreateFolderCall(name, path, recursive))
            \/ Does(DeleteFolderCall(name, path, recursive))
       \/ Does(DeleteFileCall(name, path))

Copy ==
  /\ UNCHANGED file
  /\ \E from, to \in DOMAIN protocolMap, path, path2 \in Paths :
       \/ Does(CopyFileCall(from, path, to, path2))
       \/ /\ CopyEnds(from, path, to, path2)
          /\ Does(CopyFolderCall(from, path, to, path2))

OpenFile(h, name, path, flags) ==
  /\ file[h] = NoFile
  /\ OpenFileCall(name, path, flags).ok
  /\ Does(OpenFileCall(name, path, flags))
  /\ file' = [file EXCEPT ![h] = [protocol |-> ProtocolOf(name), path |-> path,
                                  flags |-> flags, position |-> 0, raw |-> 0]]

Node(f) == trees[f.protocol][f.path]

(* ~File                                                                   *)
Close(h) ==
  /\ file[h] # NoFile
  /\ file' = [file EXCEPT ![h] = NoFile]
  /\ trees' = [trees EXCEPT ![file[h].protocol] = CloseFile(@, file[h].path)]
  /\ UNCHANGED <<protocols, protocolMap, defaultName>>

(* File::DoWrite of bytes                                                  *)
Write(h, bytes) ==
  /\ file[h] # NoFile /\ "write" \in file[h].flags
  /\ file[h].raw + Len(bytes) <= MaxSize
  /\ trees' = [trees EXCEPT ![file[h].protocol][file[h].path] =
                 WriteBytes(@, file[h].raw, bytes)]
  /\ file' = [file EXCEPT ![h].position = @ + Len(bytes), ![h].raw = @ + Len(bytes)]
  /\ UNCHANGED <<protocols, protocolMap, defaultName>>

(* File::DoRead of n bytes, or of as many as there are                     *)
Read(h, n) ==
  /\ file[h] # NoFile /\ "read" \in file[h].flags
  /\ LET there == Len(Node(file[h]).contents) - file[h].raw
         got   == IF n < there THEN n ELSE there
     IN file' = [file EXCEPT ![h].position = @ + got, ![h].raw = @ + got]
  /\ UNCHANGED <<protocols, protocolMap, defaultName, trees>>

(* File::SeekTo, SeekBegin and SeekBy: MemoryFile clamps the position.     *)
Clamp(f, n) == CHOOSE m \in 0 .. Len(Node(f).contents) :
                 \A k \in 0 .. Len(Node(f).contents) :
                   (IF m < n THEN n - m ELSE m - n) <= (IF k < n THEN n - k ELSE k - n)

SeekTo(h, n) ==
  /\ file[h] # NoFile
  /\ file' = [file EXCEPT ![h].raw = Clamp(file[h], n), ![h].position = Clamp(file[h], n)]
  /\ UNCHANGED <<protocols, protocolMap, defaultName, trees>>

(* Mutant: the file is left at its end when what remains was counted.      *)
StaysAtEnd(f) == Len(Node(f).contents)

(* File::CalculateRemaining leaves the raw file where it was, with a seek. *)
AfterRemaining(f) == Clamp(f, f.position)

(* File::ReadRemaining of whole values of `size` bytes                     *)
ReadRemaining(h, size) ==
  /\ file[h] # NoFile /\ "read" \in file[h].flags
  /\ LET raw       == AfterRemaining(file[h])
         remaining == Len(Node(file[h]).contents) - file[h].position
         read      == (remaining \div size) * size
     IN file' = [file EXCEPT ![h].position = @ + read, ![h].raw = raw + read]
  /\ UNCHANGED <<protocols, protocolMap, defaultName, trees>>

Next ==
  \/ \E r \in Registrations : Register(r.protocol, r.names)
  \/ \E name \in Defaults : SetDefaultProtocol(name)
  \/ Change
  \/ Copy
  \/ \E h \in Handles :
       \/ \E name \in AnyName, path \in Paths, flags \in Flags : OpenFile(h, name, path, flags)
       \/ Close(h)
       \/ \E b \in Bytes : Write(h, <<b>>)
       \/ \E n \in 0 .. MaxSize + 1 : Read(h, n) \/ SeekTo(h, n)
       \/ \E size \in 1 .. 2 : ReadRemaining(h, size)

Spec == Init /\ [][Next]_vars

(***************************************************************************)
(* Properties                                                              *)
(***************************************************************************)
(* Whatever fails half-way, a tree stays a tree: what exists is in a       *)
(* folder that exists; and the size a file reports is what it holds, or    *)
(* what it held before it was reset.                                       *)
TreesAreTrees ==
  \A p \in Protocols : \A path \in DOMAIN trees[p] :
    LET node == trees[p][path]
    IN /\ IsFolder(trees[p], Parent(path))
       /\ node.type = "folder" => ~node.open /\ node.contents = <<>>
       /\ node.size = Len(node.contents) \/ node.contents = <<>>

(* A file is open exactly while one handle has it, whose two positions     *)
(* agree and are inside the file.                                          *)
HandlesAgree ==
  /\ \A p \in Protocols : \A path \in DOMAIN trees[p] :
       LET holders == {h \in Handles : file[h] # NoFile /\ file[h].protocol = p
                                                        /\ file[h].path = path}
       IN Cardinality(holders) = (IF trees[p][path].open THEN 1 ELSE 0)
  /\ \A h \in Handles : file[h] # NoFile =>
       /\ IsFile(trees[file[h].protocol], file[h].path)
       /\ file[h].position = file[h].raw
       /\ file[h].raw \in 0 .. Len(Node(file[h]).contents)

(* Every name leads to a protocol that exists, the default one too.        *)
NamesLead ==
  /\ \A n \in DOMAIN protocolMap : protocolMap[n] \in protocols
  /\ defaultName # NoName => defaultName \in DOMAIN protocolMap

FilesAgree == TreesAreTrees /\ HandlesAgree /\ NamesLead

(* What is at a path, and below it, as the program sees it.                *)
Seen(t, path) ==
  [s \in {SubSeq(p, Len(path) + 1, Len(p)) : p \in {q \in DOMAIN t : IsPrefix(path, q)}} |->
     <<t[path \o s].type, t[path \o s].contents>>]
KeptOutside(path, before, after) ==
  {<<p, before[p]>> : p \in {q \in DOMAIN before : ~IsPrefix(path, q)}}
  = {<<p, after[p]>> : p \in {q \in DOMAIN after : ~IsPrefix(path, q)}}

(* A copy that succeeds has copied everything, one that fails has changed  *)
(* nothing but the target; a copy of a folder between two names succeeds,  *)
(* and makes the target, when there is no such folder.                     *)
CopiesAreComplete ==
  \A from, to \in DOMAIN protocolMap, path, path2 \in Paths :
      LET source == trees[ProtocolOf(from)]
          target == trees[ProtocolOf(to)]
          Contract(call) ==
            /\ call.ok /\ path \in DOMAIN source =>
                 \A s \in DOMAIN Seen(source, path) :
                   /\ path2 \o s \in DOMAIN call.tree[ProtocolOf(to)]
                   /\ Seen(call.tree[ProtocolOf(to)], path2)[s] = Seen(source, path)[s]
            /\ KeptOutside(path2, target, call.tree[ProtocolOf(to)])
            /\ call.ok /\ NameOf(from) = NameOf(to) => path \in DOMAIN source
      IN /\ Contract(CopyFileCall(from, path, to, path2))
         /\ CopyEnds(from, path, to, path2) /\ ~IsFile(source, path)
              => Contract(CopyFolderCall(from, path, to, path2))

(* A folder that is reported deleted is gone with everything in it; in     *)
(* one that is not, no file that is open is lost, and nothing outside it.  *)
DeletesAreComplete ==
  \A name \in DOMAIN protocolMap, path \in Paths, recursive \in BOOLEAN :
      LET before == trees[ProtocolOf(name)]
          call   == DeleteFolderCall(name, path, recursive)
          after  == call.tree[ProtocolOf(name)]
      IN /\ call.ok => path \notin DOMAIN after
         /\ KeptOutside(path, before, after)
         /\ \A p \in DOMAIN before : before[p].open => p \in DOMAIN after
         /\ ~recursive /\ ~call.ok => after = before

CallsAreComplete == CopiesAreComplete /\ DeletesAreComplete

(* The protocols whose tree a host can have too: no file in it is open.    *)
Hosts == {n \in protocols : \A p \in DOMAIN trees[n] : ~trees[n][p].open}

(* On a tree with no open file, MemoryFileProtocol and LocalFileProtocol   *)
(* do the same, but for three calls: LocalFileProtocol reports failure for *)
(* folders made recursively that are there already and for a file copied   *)
(* onto itself, and copies a file into a folder of the same name.          *)
Alike(r, s) ==
  /\ r.ok = s.ok
  /\ {<<p, r.tree[p].type, r.tree[p].contents>> : p \in DOMAIN r.tree}
     = {<<p, s.tree[p].type, s.tree[p].contents>> : p \in DOMAIN s.tree}

FileMeetsFolder(t, from, to) ==
  \E p \in DOMAIN t : LET q == to \o SubSeq(p, Len(from) + 1, Len(p))
                      IN IsPrefix(from, p) /\ q \in DOMAIN t /\ t[p].type # t[q].type

ProtocolsAgree ==
  \A n \in Hosts :
    LET t == trees[n]
    IN \A path \in Paths :
         /\ Alike(DoDeleteFile(t, path), LocalDeleteFile(t, path, {}))
         /\ \A recursive \in BOOLEAN :
              /\ \A local \in LocalDeleteFolder(t, path, recursive, {}) :
                   Alike(DoDeleteFolder(t, path, recursive), local)
              /\ ~(recursive /\ path \in DOMAIN t) =>
                   Alike(DoCreateFolder(t, path, recursive),
                         LocalCreateFolder(t, path, recursive))
         /\ \A path2 \in Paths :
              /\ path # path2 =>
                   Alike(DoCopyFile(t, path, path2), LocalCopyFile(t, path, path2))
              /\ ~IsPrefix(path, path2) /\ ~FileMeetsFolder(t, path, path2) =>
                   Alike(DoCopyFolder(t, path, path2), LocalCopyFolder(t, path, path2))
         /\ \A flags \in Flags \ {{}, {"read", "create"}} :
              LET opened == DoOpenFile(t, path, flags)
                  closed == IF opened.ok THEN Result(TRUE, CloseFile(opened.tree, path))
                            ELSE opened
              IN Alike(closed, LocalOpenFile(t, path, flags))

(* What deleting a folder of t with `held` may leave.                      *)
PartIsLeft(t, path, held, left) ==
  /\ KeptOutside(path, t, left)
  /\ \A p \in DOMAIN left \ {<<>>} : left[p] = t[p] /\ IsFolder(left, Parent(p))
  /\ held \subseteq DOMAIN left

(* A LocalFileProtocol that meets something which the host does not remove *)
(* deletes a part of the folder: what is left is a tree with what is held, *)
(* and nothing outside the folder is touched.  The result of a delete that *)
(* is not recursive tells whether the folder is gone; that of a recursive  *)
(* one is always success.                                                  *)
PartialDeletesHold(t) ==
  \A path \in DOMAIN t \ {<<>>} : \A held \in SUBSET Below(t, path), recursive \in BOOLEAN :
    \A r \in LocalDeleteFolder(t, path, recursive, held) :
      /\ PartIsLeft(t, path, held, r.tree)
      /\ IF recursive /\ IsFolder(t, path)
         THEN r.ok /\ (held = {} => path \notin DOMAIN r.tree)
         ELSE r.ok = (path \notin DOMAIN r.tree)

(* The root of a LocalFileProtocol is a folder, empty if it was made for   *)
(* it; its creation, the lists, the current folder and the deletion at     *)
(* exit reach nothing that is not below it.  The deletion leaves nothing   *)
(* but the root, unless the host holds something there.                    *)
RootIsMade(h, made, unique) ==
  /\ IsFolder(made.tree, made.root)
  /\ KeptOutside(made.root, h, made.tree)
  /\ unique \/ made.root \notin DOMAIN h =>
       {p \in DOMAIN made.tree : Descends(p, made.root)} = {}
  /\ unique => made.root \notin DOMAIN h
  /\ \A held \in {{}} \cup {{p} : p \in DOMAIN made.tree} :
       \A left \in AtExit(made.tree, made.root, unique, held) :
         /\ KeptOutside(made.root, made.tree, left)
         /\ unique \/ made.root \in DOMAIN left
         /\ held = {} => Below(left, made.root) = (IF unique THEN {} ELSE {made.root})
         /\ \A p \in held : p \in DOMAIN left

RootsHold ==
  \A n \in Hosts, path \in Paths, unique, free \in BOOLEAN :
    LET h == trees[n]
    IN \A cwd \in {<<>>, <<1>>, NoFolder}, relative \in BOOLEAN :
         (relative \/ cwd = <<>>) /\ (unique \/ free) =>
         LET made == CreateRoot(h, cwd, path, relative, unique, free)
         IN IF made.ok THEN RootIsMade(h, made, unique) ELSE made.tree = h

(* What is listed is what is there; and a folder that was made the current *)
(* one is the current one, unless it is the root.                          *)
FoldersAgree ==
  \A n \in Hosts, path \in Paths :
    LET t == trees[n]
    IN /\ IsFolder(t, path) =>
            \A recursive \in BOOLEAN, types \in {{"file"}, {"folder"}, {"file", "folder"}} :
              {SubSeq(p, Len(path) + 1, Len(p)) :
                 p \in ToSet(DoList(t, path, recursive, types))}
              = LocalList(t, path, <<>>, recursive, types)
       /\ \A root \in {<<>>, <<1>>} :
            LET set == SetCurrentPath(t, <<>>, root, path)
            IN set.ok => GetCurrentPath(root, set.cwd)
                         = (IF path = <<>> /\ root # <<>> THEN NoFolder ELSE path)

(* Inside a file, LocalFile and MemoryFile read and write alike: so many   *)
(* bytes, and from then on from there.                                     *)
StreamsAgree ==
  \A h \in Handles : file[h] # NoFile =>
    LET size == Len(Node(file[h]).contents)
        s    == LocalSeekTo(NewStream, file[h].raw)
    IN /\ \A n \in 0 .. MaxSize + 1 :
            LET there == size - file[h].raw
                got   == LocalRead(s, size, n)
            IN /\ got.count = (IF n < there THEN n ELSE there)
               /\ got.stream.position = file[h].raw + got.count
               /\ LocalWrite(got.stream, 1, TRUE).count = 1
               /\ LocalRead(LocalWrite(got.stream, 1, FALSE).stream, size, n).count = 0
       /\ LocalSeekEnd(s, size).position = size

LocalFilesHold ==
  /\ RootsHold /\ FoldersAgree /\ StreamsAgree
  /\ \A n \in Hosts : PartialDeletesHold(trees[n])
=============================================================================
