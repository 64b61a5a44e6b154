------------------------------- MODULE Paths --------------------------------
(***************************************************************************)
(* gb/file/path: the functions on paths that every call of the file system *)
(* goes through.  A path is its parts: a protocol, a root and segments;    *)
(* how they are joined to text, and what text is split into, is left out.  *)
(* A pattern is the pieces between its stars.                              *)
(*                                                                         *)
(* Each behaviour is one call of one function.                             *)
(***************************************************************************)
EXTENDS Integers, Sequences, SequencesExt

CONSTANTS
  MaxSegments,    (* Bound: the segments of a path given to a function.    *)
  DotNames,       (* Whether a segment may begin with a dot (and a path    *)
                  (* that ends in a dot be followed by one in memory).     *)
  MaxText,        (* Bound: the characters of a name matched.              *)
  Failed,         (* The empty path that is returned on failure.           *)
  Endless,        (* The result of a call that does not return.            *)
  NoCall

VARIABLE call     (* The call made, with its result.                       *)

(***************************************************************************)
(* NormalizePath.  A raw path may have an invalid protocol, either of two  *)
(* leading separators, and any segments; "." and ".." are the special      *)
(* ones, ".a" a name that begins with a dot.  `next` is the byte behind    *)
(* the terminator of the text, which the code reads when it has consumed a *)
(* last segment "." or "..".                                               *)
(* Where the flags allow no protocol, what looks like one is the first     *)
(* segment or the beginning of it.                                         *)
(***************************************************************************)
Names     == {"a", "b"}
Protocols == {"", "p", "q"}
Hosts     == {"h", "i"}
Roots     == {"none", "/"} \cup Hosts
Dots      == {".", ".."}
Segments  == Names \cup Dots \cup (IF DotNames THEN {".a"} ELSE {})

Flags == [protocol : {"no", "allow", "require"}, host : {"no", "allow", "require"},
          root : BOOLEAN]
Generic == [protocol |-> "allow", host |-> "allow", root |-> FALSE]

Raw == [protocol : {"", "p", "bad"}, slashes : 0 .. 2,
        segments : SeqOf(Segments, MaxSegments),
        next : {"other"} \cup (IF DotNames THEN {"."} ELSE {})]

NoPath == [protocol |-> "", root |-> "none", segments |-> <<>>]

Parsed(raw, flags) ==
  IF flags.protocol # "no" \/ raw.protocol = "" THEN raw
  ELSE [raw EXCEPT
         !.protocol = "", !.slashes = 0,
         !.segments = IF raw.slashes > 0 \/ @ = <<>> THEN <<raw.protocol \o ":">> \o @
                      ELSE <<raw.protocol \o ":" \o Head(@)>> \o Tail(@)]

(* Mutant: ".." is collapsed when there is nothing before it.              *)
CollapseAtRoot(segments, flags) ==
  LET Step(done, s) ==
        CASE done \in {Failed, Endless} -> done
          [] s = "." -> done
          [] s = ".." -> [done EXCEPT !.out = IF @ = <<>> THEN @ ELSE Front(@)]
          [] OTHER -> [done EXCEPT !.out = Append(@, s)]
  IN FoldLeft(Step, [out |-> <<>>, depth |-> 0], segments)

(* The loop of NormalizePath over segments: `depth` of them are in the     *)
(* vector `segments`, and may be taken back by "..".  A name that begins   *)
(* with a dot matches neither "./" nor "../", and the loop that looks for  *)
(* them does not move on.                                                  *)
Collapse(segments, flags) ==
  LET Step(done, s) ==
        CASE done \in {Failed, Endless} -> done
          [] s = "." -> done
          [] s = ".." /\ done.depth > 0 ->
               [out |-> Front(done.out), depth |-> done.depth - 1]
          [] s = ".." /\ flags.root -> Failed
          [] s = ".." -> [done EXCEPT !.out = Append(@, s)]
          [] s = ".a" -> Endless
          [] OTHER -> [out |-> Append(done.out, s), depth |-> done.depth + 1]
  IN FoldLeft(Step, [out |-> <<>>, depth |-> 0], segments)

NormalizePath(raw, flags) ==
  LET in       == Parsed(raw, flags)
      host     == flags.host # "no" /\ in.slashes = 2
      segments == IF host THEN Tail(in.segments) ELSE in.segments
      done     == Collapse(segments, flags)
      pastEnd  == segments # <<>> /\ Last(segments) \in Dots
  IN CASE in.protocol = "bad" -> Failed
       [] flags.protocol = "require" /\ in.protocol = "" -> Failed
       [] flags.root /\ in.slashes = 0 -> Failed
       [] flags.host = "require" /\ in.slashes # 2 -> Failed
       [] host /\ in.segments = <<>> -> Failed
       [] done \in {Failed, Endless} -> done
       [] pastEnd /\ in.next = "." -> Endless
       [] OTHER ->
            [protocol |-> in.protocol,
             root |-> IF host THEN Head(in.segments)
                      ELSE IF in.slashes > 0 THEN "/" ELSE "none",
             segments |-> done.out]

(* The raw path a normalized path is.                                      *)
AsRaw(path) ==
  [protocol |-> path.protocol,
   slashes  |-> CASE path.root = "none" -> 0 [] path.root = "/" -> 1 [] OTHER -> 2,
   segments |-> IF path.root \in {"none", "/"} THEN path.segments
                ELSE <<path.root>> \o path.segments,
   next     |-> "other"]

(***************************************************************************)
(* The functions on normalized paths, with their default flags.            *)
(***************************************************************************)
RemoveProtocol(path) == [path EXCEPT !.protocol = ""]

RemoveRoot(path) == [path EXCEPT !.protocol = "", !.root = "none"]

GetHostName(path) == IF path.root \in Hosts THEN path.root ELSE ""

RemoveFilename(path) ==
  [path EXCEPT !.segments = IF @ = <<>> THEN @ ELSE Front(@)]

RemoveFolder(path) ==
  [NoPath EXCEPT !.segments = IF path.segments = <<>> THEN <<>> ELSE <<Last(path.segments)>>]

IsPathAbsolute(path) == path.root # "none"

IsRootPath(path) == path.segments = <<>>

(* Mutant: the host of the second path is lost.                            *)
JoinLosesHost(a, b) ==
  IF \/ a.protocol # "" /\ b.protocol # "" /\ a.protocol # b.protocol
     \/ GetHostName(a) # "" /\ GetHostName(b) # "" /\ GetHostName(a) # GetHostName(b)
  THEN Failed
  ELSE [protocol |-> IF a.protocol # "" THEN a.protocol ELSE b.protocol,
        root     |-> IF a.root # "none" \/ a.segments # <<>> THEN a.root ELSE b.root,
        segments |-> a.segments \o b.segments]

(* Whether the path of b is put behind the host of b and a separator while *)
(* what follows begins with a separator too: the joined path has two.      *)
Doubled(a, b) ==
  /\ GetHostName(a) = "" /\ GetHostName(b) # "" /\ b.segments # <<>>
  /\ a.root = "/" \/ a.segments = <<>>

(* The separator that path_b begins with is dropped, unless path_a has     *)
(* nothing but a protocol.  An empty segment stands for a doubled one.     *)
JoinPath(a, b) ==
  IF \/ a.protocol # "" /\ b.protocol # "" /\ a.protocol # b.protocol
     \/ GetHostName(a) # "" /\ GetHostName(b) # "" /\ GetHostName(a) # GetHostName(b)
  THEN Failed
  ELSE [protocol |-> IF a.protocol # "" THEN a.protocol ELSE b.protocol,
        root     |-> CASE GetHostName(a) # "" -> a.root
                       [] GetHostName(b) # "" -> b.root
                       [] a.root # "none" \/ a.segments # <<>> -> a.root
                       [] OTHER -> b.root,
        segments |-> (IF Doubled(a, b) THEN <<"">> ELSE <<>>) \o a.segments \o b.segments]

(***************************************************************************)
(* PathMatchesPattern                                                      *)
(***************************************************************************)
Texts    == SeqOf({"a", "b"}, MaxText)
Patterns == SeqOf(SeqOf({"a", "b"}, 2), 3) \ {<<>>}

Occurs(piece, text, at) ==
  /\ at + Len(piece) <= Len(text)
  /\ SubSeq(text, at + 1, at + Len(piece)) = piece

Mismatch == -1

(* The position in the text behind each piece.  A piece behind a star is   *)
(* looked for with rfind, in the whole text.                               *)
PathMatchesPattern(text, pattern) ==
  LET n == Len(pattern)
      after[i \in 1 .. n] ==
        IF i = 1 THEN IF Occurs(pattern[1], text, 0) THEN Len(pattern[1]) ELSE Mismatch
        ELSE LET found == {at \in 0 .. Len(text) : Occurs(pattern[i], text, at)}
                 last  == CHOOSE at \in found : \A other \in found : other <= at
             IN CASE after[i - 1] = Mismatch -> Mismatch
                  [] pattern[i] = <<>> -> after[i - 1]
                  [] found = {} -> Mismatch
                  [] last < after[i - 1] -> Mismatch
                  [] OTHER -> last + Len(pattern[i])
  IN \/ after[n] = Len(text)
     \/ after[n] # Mismatch /\ n > 1 /\ pattern[n] = <<>>

-----------------------------------------------------------------------------
Init == call = NoCall

Normalize ==
  /\ call = NoCall
  /\ \E raw \in Raw, flags \in Flags :
       /\ Parsed(raw, flags).slashes = 2 /\ flags.host # "no" /\ raw.segments # <<>> =>
            Head(raw.segments) \in Names
       /\ call' = [op |-> "normalize", of |-> raw, flags |-> flags,
                   result |-> NormalizePath(raw, flags)]

Join ==
  /\ call = NoCall
  /\ \E a, b \in [protocol : Protocols, root : Roots, segments : SeqOf(Names, 1)] :
       call' = [op |-> "join", a |-> a, b |-> b, result |-> JoinPath(a, b)]

Match ==
  /\ call = NoCall
  /\ \E text \in Texts, pattern \in Patterns :
       call' = [op |-> "match", text |-> text, pattern |-> pattern,
                result |-> PathMatchesPattern(text, pattern)]

Next == Normalize \/ Join \/ Match

-----------------------------------------------------------------------------
(* Where a path leads from a folder that is deep enough.                   *)
Walk(folder, segments) ==
  LET Go(at, s) == CASE s = "." -> at [] s = ".." -> Front(at) [] OTHER -> Append(at, s)
  IN FoldLeft(Go, folder, segments)

Deep == [i \in 1 .. MaxSegments + 1 |-> i]

(* A normalized path leads where the path led, has "." nowhere and ".."    *)
(* only in front, and normalizing it again changes nothing.                *)
NormalizationIsSound ==
  (call # NoCall /\ call.op = "normalize" /\ call.result \notin {Failed, Endless}) =>
    LET path == call.result
        in   == Parsed(call.of, call.flags).segments
        segments == IF path.root \in Roots \ Hosts THEN in ELSE Tail(in)
    IN /\ Walk(Deep, path.segments) = Walk(Deep, segments)
       /\ \A i \in DOMAIN path.segments :
            /\ path.segments[i] # "."
            /\ path.segments[i] = ".." => \A j \in 1 .. i : path.segments[j] = ".."
       /\ NormalizePath(AsRaw(path), [call.flags EXCEPT !.root = FALSE]) = path

(* Joining two paths keeps the protocol and the host of whichever has one, *)
(* and the folder of a path joined with its file name is the path, unless  *)
(* a rooted path meets a host.                                             *)
JoinsInvert ==
  (call # NoCall /\ call.op = "join" /\ call.result # Failed /\ ~Doubled(call.a, call.b)) =>
    LET a == call.a  b == call.b  path == call.result
    IN /\ path.protocol \in {a.protocol, b.protocol}
       /\ GetHostName(path) = "" => GetHostName(a) = "" /\ GetHostName(b) = ""
       /\ Len(b.segments) = 1 =>
            /\ RemoveFolder(path).segments = b.segments
            /\ RemoveFilename(path).segments = a.segments
       /\ JoinPath(RemoveFilename(path), RemoveFolder(path)) = path

(* Whether the pieces of the pattern occur in the text in order and apart, *)
(* the first at its start and the last at its end.                         *)
Matches(text, pattern) ==
  \E at \in [DOMAIN pattern -> 0 .. Len(text)] :
    /\ at[1] = 0
    /\ at[Len(pattern)] + Len(pattern[Len(pattern)]) = Len(text)
    /\ \A i \in DOMAIN pattern :
         /\ Occurs(pattern[i], text, at[i])
         /\ i > 1 => at[i - 1] + Len(pattern[i - 1]) <= at[i]

(* What is matched is a match; what has one piece behind its stars and is  *)
(* a match is matched.                                                     *)
MatchesAreSound ==
  (call # NoCall /\ call.op = "match") =>
    /\ call.result => Matches(call.text, call.pattern)
    /\ /\ Matches(call.text, call.pattern)
       /\ \A i, j \in 2 .. Len(call.pattern) :
            call.pattern[i] # <<>> /\ call.pattern[j] # <<>> => i = j
       => call.result

(* Every call returns.                                                     *)
NormalizationEnds == (call # NoCall /\ call.op = "normalize") => call.result # Endless
=============================================================================
