------------------------------- MODULE Configs ------------------------------
(***************************************************************************)
(* gb::Config, a tree of values, and its text form: WriteConfigToText,     *)
(* the grammar of ReadConfigFromText, and the values made of what was      *)
(* parsed.                                                                 *)
(*                                                                         *)
(* A config is a pair of its type and its value.  A float counts halves;   *)
(* it is written with the significant digits of absl::StrCat.  A text is   *)
(* the sequence of its tokens.                                             *)
(***************************************************************************)
EXTENDS Integers, SequencesExt, FiniteSetsExt, TLC

CONSTANTS
  Scalars,        (* The configs that are no maps or arrays.               *)
  KeyOrder,       (* The keys, in the order of strings.                    *)
  Identifiers,    (* The keys that are valid identifiers.                  *)
  Infinity, NaN,  (* Floats that are no number.                            *)
  LowestInt, HighestInt,
  Digits,         (* The significant digits of a float that is written: 6. *)
                  (* Whole numbers of so many digits are in the range of   *)
                  (* integers.                                             *)
  MaxValues,      (* Bound: the values of a config.                        *)
  Unreadable

VARIABLE config

Keys == ToSet(KeyOrder)

P == INSTANCE Parsers WITH
       TokenTypes <- {}, LiteralType <- [text \in {} |-> text], Grammars <- {},
       Root <- "Value", TokenStrings <- {}, NoScope <- NaN, NoError <- NaN, NoItem <- NaN,
       NoCall <- NaN, call <- NaN

None == <<"none", "">>
Bool(value)   == <<"bool", value>>
Integer(value)    == <<"int", value>>
Float(value)  == <<"float", value>>
String(value) == <<"string", value>>
Array(values) == <<"array", values>>
Map(values)   == <<"map", values>>

TypeOf(c) == c[1]
IsMap(c) == TypeOf(c) = "map"
IsArray(c) == TypeOf(c) = "array"
ValueOf(c) == c[2]

KeysOf(map) == SelectSeq(KeyOrder, LAMBDA key : key \in DOMAIN map)
NoEntries == [key \in {} |-> None]

-----------------------------------------------------------------------------
(* Changing values; a value that is not of the type becomes of the type.   *)

SetKey(c, key, value) ==
  Map((key :> value) @@ (IF IsMap(c) THEN ValueOf(c) ELSE NoEntries))

ArrayOf(c) == IF IsArray(c) THEN ValueOf(c) ELSE <<>>

(* An index past the end of the array leaves the config as it is.          *)
SetIndex(c, index, value) ==
  CASE index \notin 0 .. Len(ArrayOf(c)) -> c
    [] index = Len(ArrayOf(c))          -> Array(Append(ArrayOf(c), value))
    [] OTHER                            -> Array([ValueOf(c) EXCEPT ![index + 1] = value])

AppendValue(c, value) == Array(Append(ArrayOf(c), value))

ResizeArray(c, size, value) ==
  Array([i \in 1 .. size |-> IF i \in DOMAIN ArrayOf(c) THEN ArrayOf(c)[i] ELSE value])

PopBack(c) == IF ArrayOf(c) = <<>> THEN c ELSE Array(Front(ValueOf(c)))

DeleteKey(c, key) ==
  IF IsMap(c) /\ key \in DOMAIN ValueOf(c)
  THEN Map([k \in DOMAIN ValueOf(c) \ {key} |-> ValueOf(c)[k]]) ELSE c

-----------------------------------------------------------------------------
(* Coercions.                                                              *)

IsNumber(float) == float \notin {Infinity, NaN}
Truncated(float) == IF float < 0 THEN -((-float) \div 2) ELSE float \div 2

Size(float)  == IF float < 0 THEN -float ELSE float
Signed(n, float) == IF float < 0 THEN -n ELSE n
Whole(size)  == Len(ToString(size \div 2))

(* Mutant: further digits are cut off.                                     *)
CutOff(size, unit) == unit * (size \div unit)

(* To the nearest multiple of a unit, the even one of two.                 *)
ToNearest(size, unit) ==
  unit * (size \div unit + (IF \/ 2 * (size % unit) > unit
                               \/ 2 * (size % unit) = unit /\ (size \div unit) % 2 = 1
                            THEN 1 ELSE 0))

(* What absl::StrCat keeps of a float: its significant digits.  A number   *)
(* with fewer digits before the point keeps its half.                      *)
Rounded(float) ==
  IF Size(float) < 2 \/ Whole(Size(float)) < Digits THEN float
  ELSE Signed(ToNearest(Size(float), 2 * 10 ^ (Whole(Size(float)) - Digits)), float)

(* Of a number that is rounded: more digits before the point than are      *)
(* written, so that an exponent is.                                        *)
HasExponent(n) == n \notin -(2 * 10 ^ Digits - 1) .. 2 * 10 ^ Digits - 1

(* The mantissa before an exponent is a whole number here.                 *)
WithExponent(n, exponent) ==
  ToString(Truncated(n) \div 10 ^ exponent) \o "e+" \o ToString(exponent)

(* A whole number without an exponent has no decimal point.                *)
NumberText(n) ==
  CASE HasExponent(n) ->
         WithExponent(n, Max({e \in 0 .. Whole(Size(n)) : n % (2 * 10 ^ e) = 0}))
    [] ~HasExponent(n) /\ n % 2 = 0 -> ToString(Truncated(n))
    [] n = -1 -> "-0.5"
    [] OTHER  -> ToString(Truncated(n)) \o ".5"

FloatText(float) ==
  CASE float = Infinity -> "inf"
    [] float = NaN      -> "nan"
    [] OTHER            -> NumberText(Rounded(float))

AsString(c) ==
  CASE TypeOf(c) = "bool"   -> IF ValueOf(c) THEN "true" ELSE "false"
    [] TypeOf(c) = "int"    -> ToString(ValueOf(c))
    [] TypeOf(c) = "float"  -> FloatText(ValueOf(c))
    [] TypeOf(c) = "string" -> ValueOf(c)
    [] OTHER -> ""

AsBool(c) ==
  CASE TypeOf(c) = "bool"   -> ValueOf(c)
    [] TypeOf(c) = "int"    -> ValueOf(c) # 0
    [] TypeOf(c) = "float"  -> ValueOf(c) # 0
    [] TypeOf(c) = "string" -> ValueOf(c) \notin {"", "0", "0.0", "false", "False"}
    [] OTHER -> FALSE

(* Mutant: a float is not clamped.                                         *)
Unclamped(float) == IF IsNumber(float) THEN Truncated(float) ELSE 0

Clamped(float) ==
  CASE float = NaN      -> 0
    [] float = Infinity -> HighestInt
    [] OTHER -> Max({LowestInt, Min({HighestInt, Truncated(float)})})

AsInt(c) ==
  CASE TypeOf(c) = "bool"  -> IF ValueOf(c) THEN 1 ELSE 0
    [] TypeOf(c) = "int"   -> ValueOf(c)
    [] TypeOf(c) = "float" -> Clamped(ValueOf(c))
    [] TypeOf(c) = "string" ->
         LET read == {n \in LowestInt .. HighestInt : ToString(n) = ValueOf(c)}
         IN IF read = {} THEN 0 ELSE Min(read)
    [] OTHER -> 0

AsMap(c) ==
  CASE TypeOf(c) = "none" -> NoEntries
    [] IsMap(c)           -> ValueOf(c)
    [] IsArray(c) ->
         [key \in {ToString(i - 1) : i \in DOMAIN ValueOf(c)} |->
            ValueOf(c)[CHOOSE i \in DOMAIN ValueOf(c) : ToString(i - 1) = key]]
    [] OTHER -> "" :> c

(* Mutant: in whatever order the map has its keys.                         *)
AsArrayUnsorted(c) ==
  CASE TypeOf(c) = "none" -> <<>>
    [] IsArray(c)         -> ValueOf(c)
    [] IsMap(c) -> LET keys == Reverse(KeysOf(ValueOf(c)))
                   IN [i \in DOMAIN keys |-> ValueOf(c)[keys[i]]]
    [] OTHER -> <<c>>

AsArray(c) ==
  CASE TypeOf(c) = "none" -> <<>>
    [] IsArray(c)         -> ValueOf(c)
    [] IsMap(c) -> LET keys == KeysOf(ValueOf(c))
                   IN [i \in DOMAIN keys |-> ValueOf(c)[keys[i]]]
    [] OTHER -> <<c>>

-----------------------------------------------------------------------------
(* WriteConfigToText.                                                      *)

Separated(texts) ==
  FlattenSeq([i \in DOMAIN texts |-> IF i = 1 THEN texts[i] ELSE <<P!Symbol(",")>> \o texts[i]])

(* Mutant: any key is written as an identifier.                            *)
WritesAnyKey(key, identifiers) ==
  IF identifiers THEN P!Token("ident", key) ELSE P!Token("ident", key)

(* An identifier where one may be written for the key.                     *)
WriteKey(key, identifiers) ==
  IF identifiers /\ key \in Identifiers THEN P!Token("ident", key) ELSE P!Quoted(key)

(* A float's text has a point or an exponent.                              *)
IsFloat(n) == HasExponent(n) \/ n % 2 = 1

(* The token the lexer makes of what was written for a float.              *)
NumberToken(text, float) ==
  CASE ~IsNumber(float) -> P!Token("ident", text)
    [] IsFloat(Rounded(float)) -> P!Token("float", text)
    [] OTHER -> P!Token("int", text)

RECURSIVE WriteConfig(_, _)
WriteMapValues(map, identifiers) ==
  LET keys == KeysOf(map)
  IN Separated([i \in DOMAIN keys |->
       <<WriteKey(keys[i], identifiers), P!Symbol(":")>> \o WriteConfig(map[keys[i]], identifiers)])

WriteArrayValues(values, identifiers) ==
  Separated([i \in DOMAIN values |-> WriteConfig(values[i], identifiers)])

WriteConfig(c, identifiers) ==
  CASE TypeOf(c) = "none"   -> <<P!Token("ident", "null")>>
    [] TypeOf(c) = "bool"   -> <<P!Token("ident", AsString(c))>>
    [] TypeOf(c) = "int"    -> <<P!Token("int", AsString(c))>>
    [] TypeOf(c) = "float"  -> <<NumberToken(AsString(c), ValueOf(c))>>
    [] TypeOf(c) = "string" -> <<P!Quoted(ValueOf(c))>>
    [] IsArray(c) ->
         <<P!Symbol("[")>> \o WriteArrayValues(ValueOf(c), identifiers) \o <<P!Symbol("]")>>
    [] IsMap(c) ->
         <<P!Symbol("{")>> \o WriteMapValues(ValueOf(c), identifiers) \o <<P!Symbol("}")>>

WriteConfigToText(c, identifiers, rootless) ==
  CASE ~rootless            -> WriteConfig(c, identifiers)
    [] rootless /\ IsMap(c) -> WriteMapValues(ValueOf(c), identifiers)
    [] OTHER                -> <<>>

-----------------------------------------------------------------------------
(* ReadConfigFromText: the rules of kBaseParserProgram and of Key.         *)

Named(name, rule) == P!One(name, P!RuleItem(rule, TRUE))
Type(name, type) == P!One(name, P!TokenItem(type, ""))
Literal(text) == P!One("", P!TokenItem("ident", text))
Listed(name, rule) == P!SubItem(name, P!RuleItem(rule, TRUE), P!WithComma(P!ZeroOrMore), "")

ParserProgram(identifiers) == [
  Rooted |-> P!Sequence(<<P!One("", P!RuleItem("Value", FALSE)),
                          P!SubItem("", P!TokenItem("end", ""), P!Single, "text after value")>>),
  Rootless |-> P!Sequence(<<Named("map", "RootlessMap")>>),
  RootlessMap |-> P!Sequence(<<Listed("values", "MapValue"),
                               P!SubItem("", P!TokenItem("end", ""), P!Single, "invalid key")>>),
  Array |-> P!Sequence(<<P!Sym("["), Listed("values", "Value"), P!Sym("]")>>),
  Map |-> P!Sequence(<<P!Sym("{"), Listed("values", "MapValue"), P!Sym("}")>>),
  MapValue |-> P!Sequence(<<
    P!SubItem("key", P!RuleItem("Key", FALSE), P!Single, "expected key"),
    P!Sym(":"), Named("value", "Value")>>),
  Value |-> P!Alternatives(<<
    P!One("null", P!TokenItem("ident", "null")),
    P!One("bool", P!Alternatives(<<Literal("true"), Literal("false")>>)),
    Type("int", "int"), Type("float", "float"), Type("string", "string"),
    Named("array", "Array"), Named("map", "Map")>>),
  Key |-> IF identifiers
          THEN P!Sequence(<<P!One("", P!Alternatives(<<Type("", "string"), Type("", "ident")>>))>>)
          ELSE P!Sequence(<<Type("", "string")>>)]

(* Bound: the floats a text is looked up in.                               *)
Floats == 4 * LowestInt .. 4 * HighestInt

IntOf(text) == CHOOSE n \in LowestInt .. HighestInt : ToString(n) = text
FloatOf(text) ==
  CHOOSE n \in Floats : n = Rounded(n) /\ FloatText(n) = text

RECURSIVE GetParsedConfig(_, _)
GetParsedConfig(tokens, node) ==
  LET is    == P!GetMatchName(node)
      text  == P!GetString(tokens, node, is)
      items == P!GetItems(P!GetItems(node, is)[1], "values")
      key(i) == P!GetString(tokens, items[i], "key")
      value(i) == GetParsedConfig(tokens, P!GetItems(items[i], "value")[1])
  IN CASE is = "null"   -> None
       [] is = "bool"   -> Bool(text = "true")
       [] is = "int"    -> Integer(IntOf(text))
       [] is = "float"  -> Float(FloatOf(text))
       [] is = "string" -> String(text)
       [] is = "array"  -> Array([i \in DOMAIN items |-> GetParsedConfig(tokens, items[i])])
       [] is = "map"    ->
            Map([k \in {key(i) : i \in DOMAIN items} |->
                   value(Max({i \in DOMAIN items : key(i) = k}))])

ReadConfigFromText(tokens, identifiers, rootless) ==
  LET parsed == P!Parse(ParserProgram(identifiers), tokens,
                        IF rootless THEN "Rootless" ELSE "Rooted")
  IN IF parsed.is = "match" THEN GetParsedConfig(tokens, parsed.node) ELSE Unreadable

-----------------------------------------------------------------------------
(* The calls.                                                              *)

RECURSIVE Count(_)
Count(c) ==
  CASE IsArray(c) -> 1 + FoldLeft(LAMBDA n, value : n + Count(value), 0, ValueOf(c))
    [] IsMap(c)   -> 1 + FoldLeft(LAMBDA n, key : n + Count(ValueOf(c)[key]), 0, KeysOf(ValueOf(c)))
    [] OTHER      -> 1

Becomes(c) == Count(c) <= MaxValues /\ config' = c

(* A copy of the config may be put into it.                                *)
Values == Scalars \union {config}

Init == config = None

Assign   == \E value \in Values : Becomes(value)
Clear    == Becomes(None)
CallSetKey    == \E key \in Keys, value \in Values : Becomes(SetKey(config, key, value))
CallSetIndex  == \E index \in 0 .. 2, value \in Values : Becomes(SetIndex(config, index, value))
CallAppend    == \E value \in Values : Becomes(AppendValue(config, value))
CallResize    == \E size \in 0 .. 2, value \in Values : Becomes(ResizeArray(config, size, value))
CallPopBack   == Becomes(PopBack(config))
CallDeleteKey == \E key \in Keys : Becomes(DeleteKey(config, key))
CallAsMap     == Becomes(Map(AsMap(config)))
CallAsArray   == Becomes(Array(AsArray(config)))

Next == \/ Assign \/ Clear \/ CallSetKey \/ CallSetIndex \/ CallAppend \/ CallResize
        \/ CallPopBack \/ CallDeleteKey \/ CallAsMap \/ CallAsArray

Spec == Init /\ [][Next]_config

-----------------------------------------------------------------------------
(* Properties.                                                             *)

(* What a value is when it was written and read: a float has the digits it *)
(* was written with, without a point or an exponent it is an int, and a    *)
(* value with an infinite one in it cannot be read.                        *)
RECURSIVE IsReadable(_), AsRead(_)
IsReadable(c) ==
  CASE TypeOf(c) = "float" -> IsNumber(ValueOf(c))
    [] IsArray(c)          -> \A i \in DOMAIN ValueOf(c) : IsReadable(ValueOf(c)[i])
    [] IsMap(c)            -> \A key \in DOMAIN ValueOf(c) : IsReadable(ValueOf(c)[key])
    [] OTHER               -> TRUE

AsRead(c) ==
  CASE TypeOf(c) = "float" ->
         LET n == Rounded(ValueOf(c))
         IN IF IsFloat(n) THEN Float(n) ELSE Integer(Truncated(n))
    [] IsArray(c) -> Array([i \in DOMAIN ValueOf(c) |-> AsRead(ValueOf(c)[i])])
    [] IsMap(c)   -> Map([key \in DOMAIN ValueOf(c) |-> AsRead(ValueOf(c)[key])])
    [] OTHER      -> c

Far(m, n) == IF m < n THEN n - m ELSE m - n

(* What is read from the text of a config, which written again has it too. *)
ReadsBack(text, read, identifiers, rootless) ==
  /\ read = IF rootless /\ ~IsMap(config) THEN Map(NoEntries)
            ELSE IF IsReadable(config) THEN AsRead(config) ELSE Unreadable
  /\ read # Unreadable => WriteConfigToText(read, identifiers, rootless) = text

(* A config that is written, with or without identifiers and a root, is    *)
(* read back but for its floats, which become the nearest number that can  *)
(* be written, maybe an integer; without a root, what is no map reads as   *)
(* no entries.  Written again it has the same text.                        *)
ConfigsReadBack ==
  /\ \A identifiers, rootless \in BOOLEAN :
       LET text == WriteConfigToText(config, identifiers, rootless)
       IN ReadsBack(text, ReadConfigFromText(text, identifiers, rootless), identifiers, rootless)
  /\ TypeOf(config) = "float" /\ IsNumber(ValueOf(config)) =>
       \A n \in Floats :
         n = Rounded(n) => Far(Rounded(ValueOf(config)), ValueOf(config)) <= Far(n, ValueOf(config))

(* Coercions agree: a value is true exactly if its text is, an integer is  *)
(* in range and nearest to the number, and an array survives being made a  *)
(* map and an array again.                                                 *)
CoercionsAgree ==
  /\ AsBool(String(AsString(config))) = AsBool(config)
  /\ AsInt(config) \in LowestInt .. HighestInt
  /\ TypeOf(config) = "float" /\ IsNumber(ValueOf(config)) =>
       \A n \in LowestInt .. HighestInt :
         Far(2 * AsInt(config), ValueOf(config)) <= Far(2 * n, ValueOf(config)) + 1
  /\ IsArray(config) => AsArray(Map(AsMap(config))) = ValueOf(config)
=============================================================================
