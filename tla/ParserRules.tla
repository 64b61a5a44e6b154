----------------------------- MODULE ParserRules ----------------------------
(***************************************************************************)
(* gb::ParserRules: the tree of items a grammar is made of, its validation *)
(* and its text form.                                                      *)
(*                                                                         *)
(* An item is a token (a type and, unless any will do, a text), the name   *)
(* of a rule, or a group of sub-items, each with a name ("" for none), the *)
(* ways it repeats, and an error message ("" for none).                    *)
(***************************************************************************)
EXTENDS Integers, SequencesExt

CONSTANTS
  TokenTypes,   (* The token types IsValidTokenType accepts.               *)
  LiteralType   (* What ParseTokenText takes each text for.                *)

TokenItem(type, text) == [kind |-> "token", type |-> type, text |-> text]
RuleItem(name, scoped) == [kind |-> "rule", name |-> name, scoped |-> scoped]
Group(type, subs) == [kind |-> "group", type |-> type, subs |-> subs]
SubItem(name, item, repeat, error) ==
  [name |-> name, item |-> item, repeat |-> repeat, error |-> error]

(* ParserRepeatFlags                                                       *)
Optional   == {}
Single     == {"require"}
ZeroOrMore == {"many"}
OneOrMore  == {"require", "many"}
WithComma(repeat) == repeat \union {"comma"}

-----------------------------------------------------------------------------
(* Validation, with the context: the error, the rules that were looked at, *)
(* and those an item would be left-recursive to name.                      *)

Invalid(context, error) == [context EXCEPT !.error = error]
IsInvalid(context) == context.error # ""

ValidateToken(item, context) ==
  CASE item.type \notin TokenTypes -> Invalid(context, "type")
    [] item.type \in {"symbol", "keyword"} /\ item.text = "" -> Invalid(context, "value")
    [] item.text # "" /\ LiteralType[item.text] # item.type -> Invalid(context, "text")
    [] OTHER -> context

(* What a rule may not name first, once a rule is entered.                 *)
Entered(context, name) ==
  [context EXCEPT !.validated = @ \union {name}, !.left = @ \union {name}]

RECURSIVE Validate(_, _, _)
ValidateRule(rules, name, context) ==
  LET after == Validate(rules, rules[name], Entered(context, name))
  IN IF IsInvalid(after) THEN after ELSE [after EXCEPT !.left = @ \ {name}]

ValidateRuleName(rules, item, context) ==
  CASE item.name \notin DOMAIN rules   -> Invalid(context, "undefined")
    [] item.name \in context.left      -> Invalid(context, "left-recursive")
    [] item.name \in context.validated -> context
    [] OTHER                           -> ValidateRule(rules, item.name, context)

(* Mutant: rules stay left-recursive behind the first required item.       *)
ValidateGroupAll(rules, group, context) ==
  LET Step(so, sub) == IF IsInvalid(so) THEN so ELSE Validate(rules, sub.item, so)
  IN FoldLeft(Step, context, group.subs)

(* Behind the first required item of a sequence, any rule may be named.    *)
ValidateGroup(rules, group, context) ==
  LET Step(so, sub) ==
        IF IsInvalid(so.context) THEN so
        ELSE IF group.type = "alternatives" /\ "require" \notin sub.repeat
        THEN [so EXCEPT !.context = Invalid(@, "optional")]
        ELSE LET after == Validate(rules, sub.item, so.context)
                 first == "require" \in sub.repeat /\ group.type = "sequence" /\ ~so.swapped
             IN [context  |-> IF first /\ ~IsInvalid(after)
                              THEN [after EXCEPT !.left = {}] ELSE after,
                 swapped  |-> so.swapped \/ first,
                 left     |-> IF first THEN after.left ELSE so.left,
                 required |-> so.required \/ "require" \in sub.repeat]
      all == FoldLeft(Step, [context |-> context, swapped |-> FALSE, left |-> {},
                             required |-> FALSE], group.subs)
  IN CASE group.subs = <<>> -> Invalid(context, "empty")
       [] IsInvalid(all.context) -> all.context
       [] ~IsInvalid(all.context) /\ group.subs # <<>> /\ ~all.required ->
            Invalid(all.context, "required")
       [] OTHER -> IF all.swapped THEN [all.context EXCEPT !.left = all.left] ELSE all.context

Validate(rules, item, context) ==
  CASE item.kind = "token" -> ValidateToken(item, context)
    [] item.kind = "rule"  -> ValidateRuleName(rules, item, context)
    [] item.kind = "group" -> ValidateGroup(rules, item, context)

(* ParserRules::Validate, with the rules in the order of the hash map.     *)
ValidateRules(rules, order) ==
  LET Step(context, name) ==
        IF IsInvalid(context) \/ name \in context.validated THEN context
        ELSE ValidateRule(rules, name, context)
  IN IF rules = <<>> THEN "empty"
     ELSE FoldLeft(Step, [error |-> "", validated |-> {}, left |-> {}], order).error

-----------------------------------------------------------------------------
(* What validation is for: the rules that can be reached from a rule       *)
(* without a token in between.                                             *)

RECURSIVE NamedFirst(_)
NamedFirst(item) ==
  CASE item.kind = "token" -> {}
    [] item.kind = "rule"  -> {item.name}
    [] item.kind = "group" ->
         LET required == SelectInSeq(item.subs, LAMBDA sub : "require" \in sub.repeat)
             last     == IF item.type = "alternatives" \/ required = 0
                         THEN Len(item.subs) ELSE required
         IN UNION {NamedFirst(item.subs[i].item) : i \in 1 .. last}

RECURSIVE Reached(_, _)
Reached(rules, names) ==
  LET more == names \union UNION {NamedFirst(rules[n]) : n \in names \intersect DOMAIN rules}
  IN IF more = names THEN names ELSE Reached(rules, more)

IsLeftRecursive(rules) ==
  \E n \in DOMAIN rules : n \in Reached(rules, NamedFirst(rules[n]))

-----------------------------------------------------------------------------
(* ToString, as the tokens a program parser reads from it.                 *)

Symbol(text) == [type |-> "symbol", text |-> text]
Quoted(text) == [type |-> "string", text |-> text]
Token(type, text) == [type |-> type, text |-> text]

RepeatToken(repeat) ==
  CASE "many" \notin repeat -> <<>>
    [] repeat = OneOrMore  -> <<Symbol("+")>>
    [] repeat = ZeroOrMore -> <<Symbol("*")>>
    [] repeat = WithComma(OneOrMore)  -> <<Symbol(",+")>>
    [] repeat = WithComma(ZeroOrMore) -> <<Symbol(",*")>>

RECURSIVE ItemToString(_)
SubItemToString(sub) ==
  LET text == ItemToString(sub.item)
  IN (IF sub.name = "" THEN <<>> ELSE <<Token("match", sub.name), Symbol("=")>>)
       \o (CASE sub.repeat = Optional -> <<Symbol("[")>> \o text \o <<Symbol("]")>>
             [] sub.repeat # Optional /\ sub.item.kind = "group" ->
                  <<Symbol("(")>> \o text \o <<Symbol(")")>>
             [] OTHER -> text)
       \o RepeatToken(sub.repeat)
       \o (IF sub.error = "" THEN <<>> ELSE <<Symbol(":"), Quoted(sub.error)>>)

ItemToString(item) ==
  CASE item.kind = "token" ->
         IF item.text # "" THEN <<Quoted(item.text)>> ELSE <<Token("type", item.type)>>
    [] item.kind = "rule" ->
         IF item.scoped THEN <<Token("ident", item.name)>>
         ELSE <<Symbol("<"), Token("ident", item.name), Symbol(">")>>
    [] item.kind = "group" ->
         LET Step(text, sub) ==
               text \o (IF text # <<>> /\ item.type = "alternatives" THEN <<Symbol("|")>> ELSE <<>>)
                    \o SubItemToString(sub)
         IN FoldLeft(Step, <<>>, item.subs)
=============================================================================
