----------------------------- MODULE TokenValues ----------------------------
(***************************************************************************)
(* The values of tokens: the integers and strings gb::Lexer decodes from   *)
(* their text, and the text WriteConfigToText writes for a string.         *)
(*                                                                         *)
(* Integers are scaled: a word has WordBits bits where the code has 64,    *)
(* and each digit of a literal has a given number of bits (1, 3 and 4 in   *)
(* the code).  Strings are sequences of characters; "ctrl" stands for the  *)
(* character below 0x20 with the hexadecimal digits "0" and "1".           *)
(***************************************************************************)
EXTENDS Integers, SequencesExt

CONSTANTS
  WordBits,       (* 64                                                    *)
  IntBits,        (* The bits an integer may be configured to have.        *)
  DigitBits,      (* The bits a digit may have.                            *)
  MaxDigits,      (* Bound: the digits of a literal.                       *)
  MaxLength,      (* Bound: the characters of a string.                    *)
  Error, NoCall

VARIABLE call

Word == 2 ^ WordBits

-----------------------------------------------------------------------------
(* ParseInt.                                                               *)

MaxInt(bits) == 2 ^ (bits - 1) - 1
MinInt(bits) == -(2 ^ (bits - 1))

(* Mutant: no sign is extended.                                            *)
NotExtended(value, bits) == value

(* int_sign_extend                                                         *)
SignExtend(bits) == Word - 2 ^ bits
Extended(value, bits) ==
  IF bits < WordBits /\ value > MaxInt(bits) THEN (value % 2 ^ bits) + SignExtend(bits) ELSE value

OverflowsLate(value, shift) == value >= Word     (* Mutant *)

(* The digits shifted into a word; no digit may be shifted out.            *)
Overflows(value, shift) == value >= 2 ^ (WordBits - shift)

WordOf(digits, shift) ==
  FoldLeft(LAMBDA value, digit :
             IF value = Error THEN Error
             ELSE IF Overflows(value, shift) THEN Error
             ELSE ((value * 2 ^ shift) % Word) + digit,
           0, digits)

Signed(value) == IF value >= Word \div 2 THEN value - Word ELSE value

ParseInt(digits, shift, bits) ==
  LET word  == WordOf(digits, shift)
      value == Signed(Extended(word, bits))
  IN IF word = Error THEN Error
     ELSE IF value < MinInt(bits) \/ value > MaxInt(bits) THEN Error ELSE value

-----------------------------------------------------------------------------
(* WriteString and ParseString.                                            *)

Characters == {"a", "n", "t", "x", "0", "1", "double", "single", "escape",
               "newline", "tab", "ctrl"}

QuoteFor(value, singleQuotes) ==
  IF singleQuotes /\ ~Contains(value, "single") /\ Contains(value, "double")
  THEN "single" ELSE "double"

(* The characters between the quotes.                                      *)
EscapedChar(c, quote) ==
  CASE c = "newline" -> <<"escape", "n">>
    [] c = "tab"     -> <<"escape", "t">>
    [] c = "escape"  -> <<"escape", "escape">>
    [] c = quote     -> <<"escape", c>>
    [] c = "ctrl"    -> <<"escape", "x", "0", "1">>
    [] OTHER         -> <<c>>

(* Mutant: the digits of a control character are the wrong way round.      *)
WriteLowFirst(value, quote) ==
  FlattenSeq([i \in DOMAIN value |->
    IF value[i] = "ctrl" THEN <<"escape", "x", "1", "0">> ELSE EscapedChar(value[i], quote)])

WriteString(value, quote) ==
  FlattenSeq([i \in DOMAIN value |-> EscapedChar(value[i], quote)])

(* A character from two hexadecimal digits; only one of them is of use.    *)
FromHex(high, low) == IF <<high, low>> = <<"0", "1">> THEN "ctrl" ELSE "other"

RECURSIVE Decoded(_, _)
Decoded(text, quote) ==
  LET at == SelectInSeq(text, LAMBDA c : c \in {quote, "escape"})
      to(c, n) == <<c>> \o Decoded(SubSeq(text, at + n, Len(text)), quote)
  IN IF at = 0 THEN text
     ELSE SubSeq(text, 1, at - 1) \o
          (CASE text[at + 1] = "n" -> to("newline", 2)
             [] text[at + 1] = "t" -> to("tab", 2)
             [] text[at + 1] = "x" -> to(FromHex(text[at + 2], text[at + 3]), 4)
             [] OTHER -> to(text[at + 1], 2))

ParseString(text, quote) == IF Len(text) <= 1 THEN text ELSE Decoded(text, quote)

-----------------------------------------------------------------------------
(* The calls.                                                              *)

CallInt ==
  \E bits \in IntBits : \E shift \in DigitBits : \E n \in 1 .. MaxDigits :
    \E digits \in [1 .. n -> 0 .. 2 ^ shift - 1] :
      call' = [op |-> "int", bits |-> bits, shift |-> shift, digits |-> digits]

CallString ==
  \E singleQuotes \in BOOLEAN : \E n \in 0 .. MaxLength :
    \E value \in [1 .. n -> Characters] :
      call' = [op |-> "string", value |-> value, quote |-> QuoteFor(value, singleQuotes)]

Init == call = NoCall
Next == call = NoCall /\ (CallInt \/ CallString)
Spec == Init /\ [][Next]_call

-----------------------------------------------------------------------------
(* Properties.                                                             *)

NumberOf(digits, shift) ==
  FoldLeft(LAMBDA value, digit : value * 2 ^ shift + digit, 0, digits)

(* An integer literal is the number its digits are in two's complement: it *)
(* is accepted if they fit, and what is accepted has those low bits; a     *)
(* number that a word cannot hold is an error.                             *)
IntegersKeepTheirBits ==
  call # NoCall /\ call.op = "int" =>
    LET value  == ParseInt(call.digits, call.shift, call.bits)
        number == NumberOf(call.digits, call.shift)
    IN /\ number < 2 ^ call.bits => value # Error
       /\ number >= Word => value = Error
       /\ value # Error => /\ value \in MinInt(call.bits) .. MaxInt(call.bits)
                           /\ value % 2 ^ call.bits = number % 2 ^ call.bits

(* A string that is written, whatever quotes and escapes it has in it, is  *)
(* read back as it was.                                                    *)
StringsReadBack ==
  call # NoCall /\ call.op = "string" =>
    ParseString(WriteString(call.value, call.quote), call.quote) = call.value
=============================================================================
