------------------------------- MODULE Lexers -------------------------------
(***************************************************************************)
(* gb::Lexer: contents made of lines, the tokens each line caches once     *)
(* they are parsed, and the position each content is read from.            *)
(*                                                                         *)
(* A line is a sequence of pieces, which stand for what the regular        *)
(* expressions of the program tell apart: an identifier, a symbol, a minus *)
(* (a symbol, or the sign of the integer that follows), an integer, a      *)
(* character nothing matches, whitespace, and the two ends of a block      *)
(* comment.  Lines and contents are numbered from 0, as in the code;       *)
(* pieces and tokens from 1.                                               *)
(***************************************************************************)
EXTENDS Integers, SequencesExt

CONSTANTS
  Texts,          (* The texts, sequences of lines, that contents may have. *)
  LineBreaks,     (* Whether LexerFlag::kLineBreak is set.                 *)
  MaxLexerLines,
  MaxContents,    (* Bound: the contents of the lexer.                     *)
  NoToken

VARIABLES
  content,   (* content_: [start, end, line, token, order] of each         *)
  lines,     (* lines_: [id, text, remain, tokens] of each                 *)
  held,      (* A token that NextToken returned and a caller keeps.        *)
  skipped,   (* The contents in which a line was skipped.                  *)
  fault      (* Whether a line outside lines_ was used.                    *)

vars == <<content, lines, held, skipped, fault>>

EndToken == 0   (* kTokenIndexEndToken, which no token of a line has.      *)

-----------------------------------------------------------------------------
(* The regular expressions.                                                *)

TokenEnds == {"space", "symbol", "minus", "open", "close"}

(* re_whitespace: also the comments that end on the line.                  *)
RECURSIVE SkipSpace(_, _)
SkipSpace(text, i) ==
  LET ends == {j \in i + 1 .. Len(text) : text[j] = "close"}
  IN CASE i > Len(text)                    -> i
       [] text[i] = "space"                -> SkipSpace(text, i + 1)
       [] text[i] = "open" /\ ends # {}    ->
            SkipSpace(text, 1 + CHOOSE j \in ends : \A k \in ends : j <= k)
       [] OTHER                            -> i

(* The size of what re_symbol and re_token consume, 0 if nothing.          *)
SymbolSize(text, i) == IF text[i] \in {"symbol", "minus", "close"} THEN 1 ELSE 0

TokenSize(text, i) ==
  LET size == CASE text[i] \in {"id", "int"} -> 1
                [] text[i] = "minus" /\ i < Len(text) /\ text[i + 1] = "int" -> 2
                [] OTHER -> 0
  IN IF i + size <= Len(text) => text[i + size] \in TokenEnds THEN size ELSE 0

(* re_not_token_end                                                        *)
ErrorSize(text, i) ==
  LET ends == {j \in i .. Len(text) : text[j] \in TokenEnds}
  IN (IF ends = {} THEN Len(text) + 1 ELSE CHOOSE j \in ends : \A k \in ends : j <= k) - i

(* The token parsed at a piece, and the order the next one is tried in.    *)
Parsed(text, i, order) ==
  LET symbol == [column |-> i, size |-> SymbolSize(text, i), type |-> "symbol"]
      token  == [column |-> i, size |-> TokenSize(text, i),
                 type |-> IF text[i] = "id" THEN "id" ELSE "int"]
      first  == IF order = "symFirst" THEN symbol ELSE token
      second == IF order = "symFirst" THEN token ELSE symbol
  IN CASE first.size > 0  -> first
       [] second.size > 0 -> second
       [] OTHER -> [column |-> i, size |-> ErrorSize(text, i), type |-> "error"]

(* The order after a token that was parsed, and after one that was cached. *)
OrderAfter(type, order) ==
  CASE type \in {"symbol", "linebreak"} -> "symLast"
    [] type \in {"id", "int"}           -> "symFirst"
    [] OTHER                            -> order

(* Mutant: symbols come first after every cached token.                    *)
SymbolsFirst(type) == "symFirst"

OrderAfterCached(type) == IF type \in {"symbol", "linebreak"} THEN "symLast" ELSE "symFirst"

-----------------------------------------------------------------------------
(* Contents.                                                               *)

Contents == DOMAIN content
Count(c) == content[c].end - content[c].start

GetLine(n) == n \in DOMAIN lines
AtEnd(c) == content[c].line >= Count(c)

GetTokenIndex(c) ==
  IF AtEnd(c) THEN [line |-> content[c].end - 1, token |-> EndToken]
  ELSE [line |-> content[c].start + content[c].line, token |-> content[c].token + 1]

Init ==
  /\ content = <<>>
  /\ lines = <<>>
  /\ held = NoToken
  /\ skipped = {}
  /\ fault = FALSE

NewLine(id, text) == [id |-> id, text |-> text, remain |-> 1, tokens |-> <<>>]

(* A content that exceeds the limit is kept, without lines.                *)
AddFileContent(text) ==
  LET first == Cardinality(DOMAIN lines)
      fits  == first + Len(text) + 1 <= MaxLexerLines
      id    == Len(content) + 1
  IN /\ ~fault /\ Len(content) < MaxContents
     /\ content' = Append(content,
          [start |-> IF fits THEN first ELSE 0,
           end   |-> IF fits THEN first + Len(text) ELSE 0,
           line  |-> 0, token |-> 0, order |-> "symLast"])
     /\ lines' = IF ~fits THEN lines
                 ELSE [n \in 0 .. first + Len(text) |->
                         IF n < first THEN lines[n]
                         ELSE IF n < first + Len(text) THEN NewLine(id, text[n - first + 1])
                         ELSE NewLine(0, <<>>)]
     /\ UNCHANGED <<held, skipped, fault>>

-----------------------------------------------------------------------------
(* NextToken.                                                              *)

(* Where the next token of a content is, once whitespace and comments are  *)
(* skipped: at a cached token, at a line break or a token to be parsed, or *)
(* at the end.  "ls" is lines_ on the way, "n" the line in the content.    *)
RECURSIVE Skip(_, _, _), Comment(_, _, _), NextLineOrEnd(_, _, _)

Skip(c, ls, n) ==
  LET k    == content[c].start + n
      i    == SkipSpace(ls[k].text, ls[k].remain)
      past == [ls EXCEPT ![k].remain = i]
  IN CASE i > Len(ls[k].text) /\ LineBreaks
            /\ (ls[k].tokens = <<>> \/ Last(ls[k].tokens).type # "linebreak") ->
            [at |-> "break", ls |-> past, line |-> n]
       [] i > Len(ls[k].text)
            /\ ~(LineBreaks /\ (ls[k].tokens = <<>> \/ Last(ls[k].tokens).type # "linebreak")) ->
            NextLineOrEnd(c, past, n)
       [] i <= Len(ls[k].text) /\ ls[k].text[i] = "open" ->
            Comment(c, [ls EXCEPT ![k].remain = Len(ls[k].text) + 1], n + 1)
       [] OTHER -> [at |-> "parse", ls |-> past, line |-> n]

NextLineOrEnd(c, ls, n) ==
  CASE n + 1 = Count(c) -> [at |-> "end", ls |-> ls, line |-> n + 1]
    [] n + 1 < Count(c) /\ ls[content[c].start + n + 1].tokens # <<>> ->
         [at |-> "cached", ls |-> ls, line |-> n + 1]
    [] OTHER -> Skip(c, ls, n + 1)

(* The lines of a block comment start over: what was parsed is forgotten.  *)
Comment(c, ls, n) ==
  IF n = Count(c) THEN [at |-> "end", ls |-> ls, line |-> n]
  ELSE LET k    == content[c].start + n
           ends == {j \in DOMAIN ls[k].text : ls[k].text[j] = "close"}
           to(i) == [ls EXCEPT ![k] = [@ EXCEPT !.tokens = <<>>, !.remain = i]]
       IN IF ends = {} THEN Comment(c, to(Len(ls[k].text) + 1), n + 1)
          ELSE Skip(c, to(1 + CHOOSE j \in ends : \A l \in ends : j <= l), n)

Found(c) ==
  LET k == content[c].start + content[c].line
  IN IF content[c].token < Len(lines[k].tokens)
     THEN [at |-> "cached", ls |-> lines, line |-> content[c].line]
     ELSE Skip(c, lines, content[c].line)

(* The token of each of these, appended to the line if it is a new one.    *)
NextToken(c, advance) ==
  /\ ~fault
  /\ \/ /\ AtEnd(c)
        /\ held' = [index |-> GetTokenIndex(c), type |-> "end"]
        /\ UNCHANGED <<content, lines>>
     \/ /\ ~AtEnd(c)
        /\ LET found == Found(c)
               k     == content[c].start + found.line
               line  == found.ls[k]
               from  == IF found.line = content[c].line THEN content[c].token ELSE 0
               token == CASE found.at = "cached" -> line.tokens[from + 1]
                          [] found.at = "break"  ->
                               [column |-> Len(line.text) + 1, size |-> 0, type |-> "linebreak"]
                          [] found.at = "parse"  -> Parsed(line.text, line.remain, content[c].order)
                          [] OTHER -> [column |-> 0, size |-> 0, type |-> "end"]
               next  == [content[c] EXCEPT !.line = found.line,
                           !.token = from + (IF advance /\ found.at # "end" THEN 1 ELSE 0),
                           !.order = IF found.at = "end" \/ (found.at = "cached" /\ ~advance) THEN @
                                     ELSE IF found.at = "cached" THEN OrderAfterCached(token.type)
                                     ELSE OrderAfter(token.type, @)]
           IN /\ content' = [content EXCEPT ![c] = next]
              /\ lines' = IF found.at \in {"end", "cached"} THEN found.ls
                          ELSE [found.ls EXCEPT ![k].tokens = Append(@, token),
                                                ![k].remain = @ + token.size]
              /\ held' = [type  |-> token.type,
                          index |-> IF found.at = "end"
                                    THEN [line |-> content[c].end - 1, token |-> EndToken]
                                    ELSE [line |-> k, token |-> from + 1]]
  /\ UNCHANGED <<skipped, fault>>

-----------------------------------------------------------------------------
(* Going elsewhere.                                                        *)

NextLine(c) ==
  /\ ~fault /\ ~AtEnd(c)
  /\ content' = [content EXCEPT ![c].line = @ + 1, ![c].token = 0]
  /\ skipped' = skipped \union {c}
  /\ UNCHANGED <<lines, held, fault>>

(* The line of the content is compared with a line of lines_.              *)
AtFirstLine(c) == content[c].line <= content[c].start

RewindLine(c) ==
  /\ ~fault
  /\ content' = [content EXCEPT ![c].line = IF content[c].token > 0 \/ AtFirstLine(c)
                                            THEN @ ELSE @ - 1,
                                ![c].token = 0]
  /\ UNCHANGED <<lines, held, skipped, fault>>

RewindContent(c) ==
  /\ ~fault
  /\ content' = [content EXCEPT ![c].line = 0, ![c].token = 0]
  /\ UNCHANGED <<lines, held, skipped, fault>>

(* The last line before line n that has tokens.  Whether the beginning is  *)
(* reached is again decided with a line of lines_.                         *)
BeginsLater(c, n) == n = content[c].start + 1   (* Mutant *)

IsBeginning(c, n) == n = content[c].start

RECURSIVE Back(_, _)
Back(c, n) ==
  IF IsBeginning(c, n) THEN [ok |-> FALSE, line |-> n, token |-> 0]
  ELSE IF ~GetLine(content[c].start + n - 1) THEN [ok |-> TRUE, line |-> n - 1, token |-> -1]
  ELSE LET tokens == lines[content[c].start + n - 1].tokens
       IN IF tokens = <<>> THEN Back(c, n - 1)
          ELSE [ok |-> TRUE, line |-> n - 1, token |-> Len(tokens) - 1]

Rewound(c) ==
  IF content[c].token > 0
  THEN [ok |-> TRUE, line |-> content[c].line, token |-> content[c].token - 1]
  ELSE Back(c, content[c].line)

RewindToken(c) ==
  /\ ~fault
  /\ content' = [content EXCEPT ![c].line = Rewound(c).line, ![c].token = Rewound(c).token]
  /\ fault' = (Rewound(c).token < 0)
  /\ UNCHANGED <<lines, held, skipped>>

(* A token that its line no longer has is refused.                         *)
SetNextToken ==
  /\ ~fault /\ held # NoToken
  /\ LET at == held.index
         c  == lines[at.line].id
     IN /\ GetLine(at.line)
        /\ at.token = EndToken \/ at.token <= Len(lines[at.line].tokens)
        /\ content' = [content EXCEPT
             ![c].line  = IF at.token = EndToken THEN Count(c) ELSE at.line - content[c].start,
             ![c].token = IF at.token = EndToken THEN 0 ELSE at.token - 1]
  /\ UNCHANGED <<lines, held, skipped, fault>>

Next ==
  \/ \E text \in Texts : AddFileContent(text)
  \/ \E c \in Contents : \/ NextToken(c, TRUE)
                         \/ NextToken(c, FALSE)
                         \/ NextLine(c)
                         \/ RewindLine(c)
                         \/ RewindContent(c)
                         \/ RewindToken(c)
  \/ SetNextToken

Spec == Init /\ [][Next]_vars

-----------------------------------------------------------------------------
(* Properties.                                                             *)

(* The tokens of a text in one pass: from piece i of line n, in a comment  *)
(* or not.                                                                 *)
RECURSIVE Lexed(_, _, _, _, _)
Lexed(text, n, i, order, commented) ==
  IF n > Len(text) THEN <<>>
  ELSE LET line == text[n]
           ends == {j \in i .. Len(line) : line[j] = "close"}
           at   == SkipSpace(line, i)
       IN CASE commented /\ ends = {} -> Lexed(text, n + 1, 1, order, TRUE)
            [] commented /\ ends # {} ->
                 Lexed(text, n, 1 + CHOOSE j \in ends : \A k \in ends : j <= k, order, FALSE)
            [] ~commented /\ at > Len(line) ->
                 (IF LineBreaks THEN <<"linebreak">> ELSE <<>>)
                   \o Lexed(text, n + 1, 1, IF LineBreaks THEN "symLast" ELSE order, FALSE)
            [] ~commented /\ at <= Len(line) /\ line[at] = "open" -> Lexed(text, n + 1, 1, order, TRUE)
            [] OTHER ->
                 LET token == Parsed(line, at, order)
                 IN <<token.type>> \o Lexed(text, n, at + token.size,
                                            OrderAfter(token.type, order), FALSE)

LinesOf(c) == [n \in 1 .. Count(c) |-> lines[content[c].start + n - 1]]
TokensOf(c) == FlattenSeq([n \in 1 .. Count(c) |-> LinesOf(c)[n].tokens])
TypesOf(tokens) == [t \in DOMAIN tokens |-> tokens[t].type]

(* However a content is looked ahead in and rewound, its tokens are those  *)
(* of one pass over its text, up to the first error: a sign is never taken *)
(* for an operator, or an operator for a sign, because of where the reader *)
(* came from.                                                              *)
TokensAgree ==
  \A c \in Contents \ skipped :
    LET read  == TypesOf(TokensOf(c))
        error == SelectInSeq(read, LAMBDA type : type = "error")
    IN IsPrefix(IF error = 0 THEN read ELSE SubSeq(read, 1, error),
                Lexed([n \in 1 .. Count(c) |-> LinesOf(c)[n].text], 1, 1, "symLast", FALSE))

(* The tokens of a content before its position.                            *)
Before(c) ==
  SumFunction([n \in 1 .. Count(c) |->
    CASE n - 1 < content[c].line -> Len(LinesOf(c)[n].tokens)
      [] n - 1 = content[c].line -> content[c].token
      [] OTHER -> 0])

(* lexer.h on RewindToken: it goes back to the previous parsed token in    *)
(* the content, and if it would pass the beginning it is clamped to the    *)
(* beginning and returns false.                                            *)
RewindsOneToken ==
  [][\A c \in Contents :
       RewindToken(c) => /\ Rewound(c).ok = (Before(c) > 0)
                         /\ content'[c].line >= 0
                         /\ Before(c)' = IF Before(c) > 0 THEN Before(c) - 1 ELSE 0]_vars
=============================================================================
