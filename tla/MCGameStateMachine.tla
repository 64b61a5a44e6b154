------------------------- MODULE MCGameStateMachine --------------------------
(* The game state machine, and what deals with texts for TLC.  A behaviour *)
(* is one of one component, `component`; the others stay as they were      *)
(* made.                                                                   *)
EXTENDS GameStateMachine, Integers, TLC

CONSTANTS Menu, Level, Pause, Absent, NoValue, Endless

(* Pause is only ever a child, of either of the others; Menu does not       *)
(* switch to Pause.                                                        *)
MCParents == [s \in States |-> CASE s = Menu  -> {Level}
                                 [] s = Level -> {Menu}
                                 [] s = Pause -> {Menu, Level}]
MCSiblings == [s \in States |-> IF s = Menu THEN {Level} ELSE States]

VARIABLES
  component,
  (* TextFiles, Lexers and Configs *)
  text, position, lines, ended, content, lexerLines, held, skipped, fault, config,
  (* Paths, Parsers and TokenValues *)
  call

-----------------------------------------------------------------------------
(* Paths and texts.                                                        *)

Path == INSTANCE Paths WITH
  MaxSegments <- 3, DotNames <- FALSE, MaxText <- 4, Failed <- NoValue, NoCall <- Absent

TextFile == INSTANCE TextFiles WITH LineBufferSize <- 2, MaxLength <- 5, NoText <- Absent

(* A negative number next to what may end a token, comments over lines,    *)
(* and an error.                                                           *)
MCTexts == {
  <<<<"id", "minus", "int">>, <<"minus", "int", "space", "open">>, <<"id", "close", "id">>>>,
  <<<<"symbol", "minus", "int">>, <<>>, <<"symbol", "bad", "id", "minus", "int">>>>}
Lexer == INSTANCE Lexers WITH
  Texts <- MCTexts, LineBreaks <- FALSE, MaxLexerLines <- 8, MaxContents <- 1, NoToken <- Absent,
  lines <- lexerLines

TokenValue == INSTANCE TokenValues WITH
  WordBits <- 6, IntBits <- {3, 6}, DigitBits <- {1, 2, 3}, MaxDigits <- 4, MaxLength <- 3,
  Error <- Absent, NoCall <- Absent

-----------------------------------------------------------------------------
(* Grammars.                                                               *)

MCTypes == {"symbol", "ident", "end"}
MCLiterals == [t \in {",", "(", ")"} |-> "symbol"]

Rules == INSTANCE ParserRules WITH TokenTypes <- MCTypes, LiteralType <- MCLiterals

One(name, item) == Rules!SubItem(name, item, Rules!Single, "")
Sub(name, item, repeat, error) == Rules!SubItem(name, item, repeat, error)
Sequence(subs) == Rules!Group("sequence", subs)
Alternatives(subs) == Rules!Group("alternatives", subs)
Id == Rules!TokenItem("ident", "")
Sym(t) == One("", Rules!TokenItem("symbol", t))
Rule(name) == Rules!RuleItem(name, TRUE)

(* An optional tail and a repeated group; a list with a comma behind it     *)
(* that nests; rules that name each other behind optional items; rules     *)
(* that cannot be.                                                         *)
Tail1 ==
  [root |-> Sequence(<<One("x", Id),
              Sub("", Sequence(<<Sym("("), One("y", Id)>>), Rules!ZeroOrMore, ""),
              Sub("", Rules!TokenItem("symbol", ")"), Rules!Optional, "closed")>>)]
Nested ==
  [root |-> Sequence(<<Sub("xs", Rule("item"), Rules!WithComma(Rules!OneOrMore), "xs"),
              Sub("", Rules!TokenItem("symbol", ","), Rules!Optional, "")>>),
   item |-> Alternatives(<<One("id", Id),
              One("", Sequence(<<Sym("("), One("in", Rules!RuleItem("root", FALSE)), Sym(")")>>))>>)]
Hidden ==
  [root |-> Sequence(<<Sub("d", Rule("d"), Rules!Optional, ""), One("b", Rule("b"))>>),
   b    |-> Sequence(<<One("a", Rule("root"))>>),
   d    |-> Sequence(<<Sym("("), One("b", Rule("b"))>>)]
Direct == [root |-> Alternatives(<<One("", Id), Sub("", Rule("root"), Rules!OneOrMore, "")>>)]
Inner  == [root |-> Sequence(<<One("", Sequence(<<One("", Id), One("r", Rule("root"))>>)),
                               One("", Rule("root"))>>)]
Undefined == [root |-> Alternatives(<<Sub("", Id, Rules!ZeroOrMore, ""), Sym("(")>>),
              b    |-> Sequence(<<One("", Rule("c"))>>)]
MCGrammars == {Tail1, Nested, Hidden, Direct, Inner, Undefined}

MCTokens == {Rules!Token("ident", "a"), Rules!Symbol(","), Rules!Symbol("("), Rules!Symbol(")"),
             Rules!Token("error", "")}
MCTokenStrings == UNION {[1 .. n -> MCTokens] : n \in 0 .. 4}

Parser == INSTANCE Parsers WITH
  TokenTypes <- MCTypes, LiteralType <- MCLiterals, Grammars <- MCGrammars, Root <- "root",
  TokenStrings <- MCTokenStrings, NoScope <- Absent, NoError <- Absent, NoItem <- Absent,
  NoCall <- Absent

(* Written with one digit: a half, 1.5 which is written as 2, 9.5 which     *)
(* gets an exponent, and 18.5 which is written as 20 and is no integer     *)
(* here.                                                                   *)
MCScalars == {<<"bool", TRUE>>, <<"float", 1>>, <<"float", 3>>, <<"float", 19>>, <<"float", 37>>,
              <<"float", Endless>>, <<"string", "false">>}
Config == INSTANCE Configs WITH
  Scalars <- MCScalars, KeyOrder <- <<"", "0", "1", "a">>, Identifiers <- {"a"},
  Infinity <- Endless, NaN <- NoValue, LowestInt <- -16, HighestInt <- 15, Digits <- 1, MaxValues <- 3,
  Unreadable <- Absent

-----------------------------------------------------------------------------

textVars  == <<text, position, lines, ended>>
lexerVars == <<content, lexerLines, held, skipped, fault>>
otherVars == <<textVars, lexerVars, config, call>>
allVars == <<component, vars, otherVars>>

MCInit ==
  /\ component \in {"game", "text", "lexer", "config", "call"}
  /\ Init /\ TextFile!Init /\ Lexer!Init /\ Config!Init /\ Path!Init

(* A call of a path, of a parser or for a token's value.                   *)
CallNext ==
  /\ \/ Path!Next
     \/ Parser!Next
     \/ TokenValue!Next
  /\ UNCHANGED <<component, vars, textVars, lexerVars, config>>

MCNext ==
  \/ component = "game" /\ Next /\ UNCHANGED <<component, otherVars>>
  \/ /\ component = "text" /\ TextFile!Next
     /\ UNCHANGED <<component, vars, lexerVars, config, call>>
  \/ /\ component = "lexer" /\ Lexer!Next
     /\ UNCHANGED <<component, vars, textVars, config, call>>
  \/ /\ component = "config" /\ Config!Next
     /\ UNCHANGED <<component, vars, textVars, lexerVars, call>>
  \/ component = "call" /\ CallNext

(* Of a game that stays as it was made UpdateStep is not enabled.          *)
MCFairSpec == MCInit /\ [][MCNext]_allVars /\ WF_vars(UpdateStep)

-----------------------------------------------------------------------------
(* The properties of the components, each true of one as it was made.      *)

(* Paths are normalized, joined and matched to what they lead to; and what *)
(* is read from a text is what is in it: the lines of a file, the tokens   *)
(* of a lexer, which go back one at a time, and their values.              *)
TextsAgree ==
  /\ [](component = "call" =>
           Path!NormalizationIsSound /\ Path!JoinsInvert /\ Path!MatchesAreSound)
  /\ [](component = "text" => TextFile!LinesAgree)
  /\ [](component = "lexer" => Lexer!TokensAgree)
  /\ [](component = "call" =>
           TokenValue!IntegersKeepTheirBits /\ TokenValue!StringsReadBack)
  /\ Lexer!RewindsOneToken

(* A parser reads what its grammar describes, and programs and configs     *)
(* read back what was written, floats with the digits they were.           *)
ParsesAgree ==
  /\ component = "call" =>
       Parser!RefusedAreRecursive /\ Parser!ParsesAreDerivations /\ Parser!ProgramsReadBack
  /\ component = "config" => Config!ConfigsReadBack /\ Config!CoercionsAgree
=============================================================================
