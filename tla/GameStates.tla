----------------------------- MODULE GameStates ------------------------------
(***************************************************************************)
(* What gb::GameStateMachine promises: one branch of states is active, it  *)
(* changes only at its end, and the last change requested happens: the     *)
(* states below its parent exit, deepest first, and its state is entered.  *)
(*                                                                         *)
(* Once a state is about to be entered it will be, whatever is requested   *)
(* meanwhile, unless the context it needs is missing; a request is         *)
(* forgotten only when it has happened or when its own state's context is  *)
(* missing.                                                                *)
(***************************************************************************)
EXTENDS SequencesExt

CONSTANTS States, NoState, Parents

VARIABLES
  branch,     (* The active states, from the top.                        *)
  wanted,     (* The change requested, <<parent, state>>, or NoChange.   *)
  entering    (* The state about to be entered, or NoState.              *)

vars == <<branch, wanted, entering>>

NoChange == <<>>
Active(s) == \E i \in DOMAIN branch : branch[i] = s
End == IF branch = <<>> THEN NoState ELSE Last(branch)

Init ==
  /\ branch = <<>>
  /\ wanted = NoChange
  /\ entering = NoState

Request(p, s) ==
  /\ p = NoState \/ Active(p)
  /\ ~Active(s)
  /\ s # NoState /\ p # NoState => p \in Parents[s]
  /\ wanted' = <<p, s>>
  /\ UNCHANGED <<branch, entering>>

(* The deepest state exits, to make place below the wanted parent.         *)
Exit ==
  /\ wanted # NoChange
  /\ entering = NoState
  /\ branch # <<>> /\ End # wanted[1]
  /\ branch' = Front(branch)
  /\ UNCHANGED <<wanted, entering>>

Prepare ==
  /\ wanted # NoChange
  /\ entering = NoState
  /\ End = wanted[1] /\ wanted[2] # NoState
  /\ entering' = wanted[2]
  /\ UNCHANGED <<branch, wanted>>

Enter ==
  /\ entering # NoState
  /\ branch' = Append(branch, entering)
  /\ entering' = NoState
  /\ UNCHANGED wanted

(* The context of the state is missing: its change does not happen.        *)
Refuse ==
  /\ entering # NoState
  /\ entering' = NoState
  /\ IF wanted = <<End, entering>> THEN wanted' = NoChange ELSE UNCHANGED wanted
  /\ UNCHANGED branch

Happened ==
  IF wanted[2] = NoState THEN End = wanted[1]
  ELSE LET n == Len(branch) IN
       /\ n > 0 /\ branch[n] = wanted[2]
       /\ wanted[1] = IF n = 1 THEN NoState ELSE branch[n - 1]

Complete ==
  /\ wanted # NoChange
  /\ Happened
  /\ wanted' = NoChange
  /\ UNCHANGED <<branch, entering>>

Next ==
  \/ \E p \in States \cup {NoState}, s \in States \cup {NoState} : Request(p, s)
  \/ Exit
  \/ Prepare
  \/ Enter
  \/ Refuse
  \/ Complete

Spec == Init /\ [][Next]_vars
=============================================================================
