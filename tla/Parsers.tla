------------------------------- MODULE Parsers ------------------------------
(***************************************************************************)
(* gb::Parser and gb::ParserProgram: matching the items of a grammar to    *)
(* the tokens of a content, greedily and with backtracking only out of a   *)
(* group, and building a grammar from a text that is itself parsed with a  *)
(* grammar.                                                                *)
(*                                                                         *)
(* The lexer is the sequence of its tokens and a position in it.           *)
(***************************************************************************)
EXTENDS ParserRules, FiniteSetsExt

CONSTANTS
  Grammars,       (* Sets of rules, functions from names to groups.        *)
  Root,           (* The rule that is parsed.                              *)
  TokenStrings,   (* The contents that are parsed.                         *)
  NoScope, NoError, NoItem, NoCall

VARIABLE call     (* The latest call, with its arguments.                  *)

-----------------------------------------------------------------------------
(* Matching.  A state has the position, the items_ of the scope that named *)
(* items are recorded in, and the last error.  A node is a ParsedItem: the *)
(* position of its token, 0 for none, and its named items.                 *)

EndOfFile == Token("end", "")
PeekToken(tokens, state) ==
  IF state.pos > Len(tokens) THEN EndOfFile ELSE tokens[state.pos]

(* The end token is never passed.                                          *)
NextToken(tokens, state) ==
  [state EXCEPT !.pos = IF @ > Len(tokens) THEN @ ELSE @ + 1]

Node(pos, items) == [token |-> pos, items |-> items]
Matched(state, node) == [is |-> "match", state |-> state, node |-> node]
Failed(is, state) == [is |-> is, state |-> state, node |-> Node(0, <<>>)]

(* SetError and MatchError: an error at a later token is kept.             *)
WithError(state, pos, error) ==
  IF state.error # NoError /\ state.error.at > pos THEN state
  ELSE [state EXCEPT !.error = [at |-> pos, what |-> error]]

MatchAbort(state) == Failed("abort", [state EXCEPT !.error = [at |-> 0, what |-> "lexical"]])

MatchTokenItem(tokens, item, state) ==
  LET token == PeekToken(tokens, state)
  IN CASE token.type = "error" -> MatchAbort(state)
       [] token.type # "error"
            /\ (token.type # item.type \/ (item.text # "" /\ token.text # item.text)) ->
            Failed("error", WithError(state, state.pos,
                                      IF item.text # "" THEN item.text ELSE item.type))
       [] OTHER -> Matched(NextToken(tokens, state), Node(state.pos, <<>>))

RECURSIVE MatchItem(_, _, _, _), MatchFrom(_, _, _, _, _, _, _), MatchMore(_, _, _, _)

MatchRuleItem(rules, tokens, item, state) ==
  LET inner == IF item.scoped THEN [state EXCEPT !.scope = NoScope] ELSE state
      match == MatchItem(rules, tokens, rules[item.name], inner)
  IN IF item.scoped THEN [match EXCEPT !.state.scope = state.scope] ELSE match

(* A sub-item: a named one opens a scope of its own and is then recorded.  *)
MatchSubItem(rules, tokens, sub, state) ==
  LET inner == IF sub.name = "" THEN state ELSE [state EXCEPT !.scope = NoScope]
      match == MatchItem(rules, tokens, sub.item, inner)
      after == IF sub.name = "" THEN match.state ELSE [match.state EXCEPT !.scope = state.scope]
  IN CASE match.is = "match" ->
            Matched(IF sub.name = "" THEN after
                    ELSE [after EXCEPT !.scope = Append(@, <<sub.name, match.node>>)], match.node)
       [] match.is = "error" ->
            Failed("error", IF sub.error = "" THEN after
                            ELSE WithError(after, state.pos, sub.error))
       [] OTHER -> Failed("abort", after)

(* The further matches of a sub-item; a comma that nothing follows is      *)
(* given back.                                                             *)
KeepsComma(state) == state     (* Mutant *)
GivesBack(state) == [state EXCEPT !.pos = @ - 1]

MatchMore(rules, tokens, sub, state) ==
  LET comma == "comma" \in sub.repeat
      match == MatchSubItem(rules, tokens, sub,
                            IF comma THEN NextToken(tokens, state) ELSE state)
  IN CASE comma /\ PeekToken(tokens, state) # Symbol(",") -> Matched(state, Node(0, <<>>))
       [] (comma => PeekToken(tokens, state) = Symbol(",")) /\ match.is = "match" ->
            MatchMore(rules, tokens, sub, match.state)
       [] (comma => PeekToken(tokens, state) = Symbol(",")) /\ match.is = "error" ->
            Matched(IF comma THEN GivesBack(match.state) ELSE match.state, Node(0, <<>>))
       [] OTHER -> match

(* The sub-items of a group from the k-th on.  A failed group goes back to *)
(* its first token; the items it recorded in the scope around it stay.     *)
StaysThere(state, first) == state     (* Mutant *)
Rewound(state, first) == [state EXCEPT !.pos = first]

MatchFrom(rules, tokens, group, first, k, state, matched) ==
  IF k > Len(group.subs)
  THEN IF group.type = "alternatives" /\ ~matched THEN Failed("error", state)
       ELSE Matched(state, Node(first, <<>>))
  ELSE LET sub   == group.subs[k]
           match == MatchSubItem(rules, tokens, sub, state)
           more  == IF match.is = "match" /\ "many" \in sub.repeat
                    THEN MatchMore(rules, tokens, sub, match.state) ELSE match
       IN CASE more.is = "abort" \/ (more.is = "error" /\ group.type = "sequence"
                                       /\ "require" \in sub.repeat) ->
                 Failed(more.is, Rewound(more.state, first))
            [] more.is = "match" /\ group.type = "alternatives" ->
                 Matched(more.state, Node(first, <<>>))
            [] OTHER -> MatchFrom(rules, tokens, group, first, k + 1, more.state,
                                  matched \/ more.is = "match")

MatchGroup(rules, tokens, group, state) ==
  IF PeekToken(tokens, state).type = "error" THEN MatchAbort(state)
  ELSE LET own   == state.scope = NoScope
           inner == IF own THEN [state EXCEPT !.scope = <<>>] ELSE state
           match == MatchFrom(rules, tokens, group, state.pos, 1, inner, FALSE)
       IN IF own THEN [match EXCEPT !.node.items = match.state.scope, !.state.scope = NoScope]
          ELSE match

MatchItem(rules, tokens, item, state) ==
  CASE item.kind = "token" -> MatchTokenItem(tokens, item, state)
    [] item.kind = "rule"  -> MatchRuleItem(rules, tokens, item, state)
    [] item.kind = "group" -> MatchGroup(rules, tokens, item, state)

Parse(rules, tokens, rule) ==
  MatchItem(rules, tokens, rules[rule], [pos |-> 1, scope |-> NoScope, error |-> NoError])

-----------------------------------------------------------------------------
(* ParserProgram: the rules of CreateProgramRules.                         *)

One(name, item) == SubItem(name, item, Single, "")
Sequence(subs) == Group("sequence", subs)
Alternatives(subs) == Group("alternatives", subs)
Sym(text) == One("", TokenItem("symbol", text))

ProgramRules == [
  program |-> Sequence(<<
    SubItem("", Alternatives(<<One("tokens", RuleItem("token_def", TRUE)),
                               One("rules", RuleItem("rule_def", TRUE))>>), ZeroOrMore, ""),
    One("", TokenItem("end", ""))>>),
  token_def |-> Sequence(<<One("name", TokenItem("type", "")), Sym("="),
                           One("value", TokenItem("int", "")), Sym(";")>>),
  rule_def |-> Sequence(<<
    One("name", TokenItem("ident", "")), Sym("{"),
    SubItem("", Sequence(<<One("options", RuleItem("group_alternative", TRUE)), Sym(";")>>),
            OneOrMore, ""),
    Sym("}")>>),
  group_alternative |-> Sequence(<<
    One("items", RuleItem("group_sequence", TRUE)),
    SubItem("", Sequence(<<Sym("|"), One("items", RuleItem("group_sequence", TRUE))>>),
            ZeroOrMore, "")>>),
  group_sequence |-> Sequence(<<
    SubItem("items", RuleItem("group_item", TRUE), OneOrMore, "")>>),
  group_item |-> Sequence(<<
    SubItem("", Sequence(<<One("match_name", TokenItem("match", "")), Sym("=")>>), Optional, ""),
    One("item", RuleItem("group_item_inner", TRUE)),
    SubItem("repeat", Alternatives(<<Sym("+"), Sym("*"), Sym(",+"), Sym(",*")>>), Optional, ""),
    SubItem("", Sequence(<<Sym(":"), One("error", TokenItem("string", ""))>>), Optional, "")>>),
  group_item_inner |-> Alternatives(<<
    One("token", TokenItem("type", "")),
    One("literal", TokenItem("string", "")),
    One("scoped_rule", TokenItem("ident", "")),
    One("", Sequence(<<Sym("<"), One("unscoped_rule", TokenItem("ident", "")), Sym(">")>>)),
    One("", Sequence(<<Sym("["), One("optional", RuleItem("group_alternative", TRUE)), Sym("]")>>)),
    One("", Sequence(<<Sym("("), One("group", RuleItem("group_alternative", TRUE)), Sym(")")>>))>>)]

(* ParsedItem: GetItems, GetString and GetMatchName.                       *)
GetItems(node, name) ==
  LET named == SelectSeq(node.items, LAMBDA item : item[1] = name)
  IN [i \in DOMAIN named |-> named[i][2]]

GetString(tokens, node, name) ==
  IF GetItems(node, name) = <<>> THEN "" ELSE tokens[GetItems(node, name)[1].token].text

GetMatchName(node) ==
  LET names == {node.items[i][1] : i \in DOMAIN node.items}
  IN IF Cardinality(names) = 1 THEN node.items[1][1] ELSE ""

(* Groups of what was parsed; a NoItem in one makes a NoItem of all.       *)
GroupOf(type, subs) == IF NoItem \in ToSet(subs) THEN NoItem ELSE Group(type, subs)
AsSubItem(item) == IF item = NoItem THEN NoItem ELSE One("", item)

RepeatOf(text) ==
  CASE text = "+"  -> OneOrMore            [] text = "*"  -> ZeroOrMore
    [] text = ",+" -> WithComma(OneOrMore) [] text = ",*" -> WithComma(ZeroOrMore)
    [] OTHER -> Single

RECURSIVE ParseGroupItem(_, _, _)
ParseSequence(tokens, types, node) ==
  LET parsed == GetItems(node, "items")
  IN GroupOf("sequence", [i \in DOMAIN parsed |-> ParseGroupItem(tokens, types, parsed[i])])

ParseSequenceAsSubItem(tokens, types, node) ==
  IF Len(GetItems(node, "items")) = 1
  THEN ParseGroupItem(tokens, types, GetItems(node, "items")[1])
  ELSE AsSubItem(ParseSequence(tokens, types, node))

ParseAlternative(tokens, types, node) ==
  LET parsed == GetItems(node, "items")
  IN IF Len(parsed) = 1 THEN ParseSequence(tokens, types, parsed[1])
     ELSE GroupOf("alternatives",
            [i \in DOMAIN parsed |-> ParseSequenceAsSubItem(tokens, types, parsed[i])])

ParseAlternativeAsSubItem(tokens, types, node) ==
  IF Len(GetItems(node, "items")) = 1
  THEN ParseSequenceAsSubItem(tokens, types, GetItems(node, "items")[1])
  ELSE AsSubItem(ParseAlternative(tokens, types, node))

(* Mutant: what is optional must appear once.                              *)
ParseRequiredItem(tokens, types, node) ==
  LET inner == GetItems(node, "item")[1]
      is    == GetMatchName(inner)
      text  == GetString(tokens, inner, is)
      item  == CASE is = "token"   -> TokenItem(types[text], "")
                 [] is = "literal" -> TokenItem(LiteralType[text], text)
                 [] is \in {"scoped_rule", "unscoped_rule"} -> RuleItem(text, is = "scoped_rule")
                 [] is \in {"optional", "group"} ->
                      ParseAlternative(tokens, types, GetItems(inner, is)[1])
  IN SubItem(GetString(tokens, node, "match_name"), item,
             RepeatOf(GetString(tokens, node, "repeat")), GetString(tokens, node, "error"))

ParseGroupItem(tokens, types, node) ==
  LET inner  == GetItems(node, "item")[1]
      is     == GetMatchName(inner)
      text   == GetString(tokens, inner, is)
      repeat == RepeatOf(GetString(tokens, node, "repeat"))
      item   == CASE is = "token"   -> IF text \in DOMAIN types
                                       THEN TokenItem(types[text], "") ELSE NoItem
                  [] is = "literal" -> IF text \in DOMAIN LiteralType
                                       THEN TokenItem(LiteralType[text], text) ELSE NoItem
                  [] is = "scoped_rule"   -> RuleItem(text, TRUE)
                  [] is = "unscoped_rule" -> RuleItem(text, FALSE)
                  [] is \in {"optional", "group"} ->
                       ParseAlternative(tokens, types, GetItems(inner, is)[1])
  IN IF item = NoItem THEN NoItem
     ELSE SubItem(GetString(tokens, node, "match_name"), item,
                  IF is = "optional" THEN repeat \ {"require"} ELSE repeat,
                  GetString(tokens, node, "error"))

PredefinedTypes == [t \in {"end", "int", "float", "string", "char", "ident", "linebreak"} |-> t]

(* The rules of a program: the first rule of a name is kept.               *)
ParseRule(tokens, types, node) ==
  LET options == GetItems(node, "options")
  IN IF Len(options) = 1 THEN ParseAlternative(tokens, types, options[1])
     ELSE GroupOf("alternatives",
            [i \in DOMAIN options |-> ParseAlternativeAsSubItem(tokens, types, options[i])])

(* The user types of a program: each is the name of a type of the lexer.   *)
ProgramOf(tokens, order, parsed) ==
  LET defs    == GetItems(parsed.node, "tokens")
      names   == [i \in DOMAIN defs |-> GetString(tokens, defs[i], "name")]
      values  == [i \in DOMAIN defs |-> GetString(tokens, defs[i], "value")]
      user    == [n \in ToSet(names) |-> values[CHOOSE i \in DOMAIN names : names[i] = n]]
      types   == [n \in DOMAIN PredefinedTypes \union ToSet(names) |->
                    IF n \in DOMAIN PredefinedTypes THEN PredefinedTypes[n] ELSE user[n]]
      nodes   == GetItems(parsed.node, "rules")
      ruleOf  == [i \in DOMAIN nodes |-> GetString(tokens, nodes[i], "name")]
      rules   == [n \in ToSet(ruleOf) |->
                    ParseRule(tokens, types, nodes[CHOOSE i \in DOMAIN ruleOf :
                      ruleOf[i] = n /\ \A j \in DOMAIN ruleOf : ruleOf[j] = n => i <= j])]
  IN CASE parsed.is # "match" -> [error |-> "syntax", rules |-> <<>>]
       [] parsed.is = "match"
            /\ (~IsInjective(names) \/ ToSet(names) \intersect DOMAIN PredefinedTypes # {}) ->
            [error |-> "duplicate", rules |-> <<>>]
       [] parsed.is = "match" /\ \E i \in DOMAIN values : values[i] \notin TokenTypes ->
            [error |-> "type", rules |-> <<>>]
       [] parsed.is = "match" /\ nodes = <<>> -> [error |-> "rules", rules |-> <<>>]
       [] parsed.is = "match" /\ NoItem \in {rules[n] : n \in DOMAIN rules} ->
            [error |-> "item", rules |-> <<>>]
       [] OTHER -> [error |-> ValidateRules(rules, order), rules |-> rules]

ParseProgram(tokens, order) ==
  ProgramOf(tokens, order, Parse(ProgramRules, tokens, "program"))

-----------------------------------------------------------------------------
(* The calls.                                                              *)

Init == call = NoCall

CallValidate ==
  \E rules \in Grammars : \E order \in SetToSeqs(DOMAIN rules) :
    call' = [op |-> "validate", rules |-> rules, order |-> order]

(* Only rules that were validated are parsed with.                         *)
CallParse ==
  \E rules \in Grammars : \E tokens \in TokenStrings :
    /\ ~IsLeftRecursive(rules)
    /\ \A order \in SetToSeqs(DOMAIN rules) : ValidateRules(rules, order) = ""
    /\ call' = [op |-> "parse", rules |-> rules, tokens |-> tokens]

CallProgram ==
  \E rules \in Grammars : \E order \in SetToSeqs(DOMAIN rules) :
    call' = [op |-> "program", rules |-> rules, order |-> order]

Next == call = NoCall /\ (CallValidate \/ CallParse \/ CallProgram)

Spec == Init /\ [][Next]_call

-----------------------------------------------------------------------------
(* Properties.                                                             *)

(* parser_rules.h on CreateRuleName: rule names cannot be used to create   *)
(* left-recursive rules, in whatever order the rules are visited.          *)
LeftRecursionIsRefused ==
  call # NoCall /\ call.op = "validate" =>
    (ValidateRules(call.rules, call.order) = "" => ~IsLeftRecursive(call.rules))

(* Rules are refused as left-recursive only if they are.                   *)
RefusedAreRecursive ==
  call # NoCall /\ call.op = "validate" =>
    (ValidateRules(call.rules, call.order) = "left-recursive" => IsLeftRecursive(call.rules))

(* Every way to read an item from a position: the positions behind it.     *)
RECURSIVE Derives(_, _, _, _), Repeats(_, _, _, _)
Repeats(rules, tokens, sub, from) ==
  LET comma == "comma" \in sub.repeat
      next  == UNION {Derives(rules, tokens, sub.item, IF comma THEN p + 1 ELSE p) :
                        p \in {q \in from : comma => q <= Len(tokens) /\ tokens[q] = Symbol(",")}}
  IN IF next \subseteq from THEN from ELSE Repeats(rules, tokens, sub, from \union next)

DerivesSub(rules, tokens, sub, pos) ==
  LET one == Derives(rules, tokens, sub.item, pos)
  IN (IF "many" \in sub.repeat THEN Repeats(rules, tokens, sub, one) ELSE one)
       \union (IF "require" \in sub.repeat THEN {} ELSE {pos})

Derives(rules, tokens, item, pos) ==
  CASE item.kind = "token" ->
         LET token == PeekToken(tokens, [pos |-> pos])
         IN IF token.type = item.type /\ (item.text = "" \/ token.text = item.text)
            THEN {IF pos > Len(tokens) THEN pos ELSE pos + 1} ELSE {}
    [] item.kind = "rule" -> Derives(rules, tokens, rules[item.name], pos)
    [] item.kind = "group" /\ item.type = "alternatives" ->
         UNION {DerivesSub(rules, tokens, item.subs[i], pos) : i \in DOMAIN item.subs}
    [] OTHER -> FoldLeft(LAMBDA from, sub : UNION {DerivesSub(rules, tokens, sub, p) : p \in from},
                         {pos}, item.subs)

(* A parse that succeeds read what the grammar describes, and one that     *)
(* fails leaves the content where it was, with an error to report.         *)
ParsesAreDerivations ==
  call # NoCall /\ call.op = "parse" =>
    LET parsed == Parse(call.rules, call.tokens, Root)
    IN IF parsed.is = "match"
       THEN parsed.state.pos \in Derives(call.rules, call.tokens, call.rules[Root], 1)
       ELSE /\ parsed.state.pos = 1
            /\ parsed.state.error # NoError
            /\ (parsed.is = "abort") = (parsed.state.error.at = 0)

(* An optional token is read back as a group of itself.                    *)
RECURSIVE Normal(_)
Normal(item) ==
  IF item.kind # "group" THEN item
  ELSE [item EXCEPT !.subs = [i \in DOMAIN @ |->
         [@[i] EXCEPT !.item = IF item.subs[i].repeat = Optional /\ @.kind # "group"
                               THEN Sequence(<<One("", @)>>) ELSE Normal(@)]]]

Printed(rules, order) ==
  FlattenSeq([i \in DOMAIN order |->
    <<Token("ident", order[i]), Symbol("{")>> \o ItemToString(rules[order[i]])
      \o <<Symbol(";"), Symbol("}")>>])

(* A grammar that is printed and parsed as a program is the same grammar,  *)
(* and is refused for the same reason, if it is refused.                   *)
IsProgramOf(program, rules, order) ==
  /\ program.rules = [n \in DOMAIN rules |-> Normal(rules[n])]
  /\ program.error = ValidateRules(rules, order)

ProgramsReadBack ==
  call # NoCall /\ call.op = "program" =>
    IsProgramOf(ParseProgram(Printed(call.rules, call.order), call.order), call.rules, call.order)
=============================================================================
