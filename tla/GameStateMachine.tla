-------------------------- MODULE GameStateMachine ---------------------------
(***************************************************************************)
(* gb::GameStateMachine: a branch of game states, changed by Update while  *)
(* the states' callbacks, and other threads, request changes.              *)
(*                                                                         *)
(* Update releases mutex_ around every callback (a state's construction    *)
(* and destruction included) and around the validation of a context: only  *)
(* there can anything else happen, and one action ChangeState stands for   *)
(* the callback's call and for another thread's.  update_mutex_ makes      *)
(* Update ignore calls while it runs.                                      *)
(*                                                                         *)
(* States are registered by the thread that updates, in a callback or      *)
(* outside.  Names, traces and the getters are left out.                   *)
(***************************************************************************)
EXTENDS Naturals, Sequences, FiniteSets

CONSTANTS
  States, NoState,
  GlobalStates,     (* Lifetime GlobalGameStateLifetime: the others are    *)
                    (* ActiveGameStateLifetime.                            *)
  Parents,          (* ParentStates of each state, the root excepted.      *)
  Siblings,         (* SiblingStates of each state.                        *)
  OtherThreads,     (* Whether other threads request changes too: only     *)
                    (* they can while a context is validated.              *)
  QuietDestroy,     (* Whether nothing requests a change once the machine  *)
                    (* is being destroyed.                                 *)
  MaxChanges,       (* Bound: changes requested.                           *)
  MaxUpdates        (* Bound: calls of Update.                             *)

ASSUME GameAssumption ==
  /\ IsFiniteSet(States) /\ NoState \notin States
  /\ GlobalStates \subseteq States
  /\ Parents \in [States -> SUBSET States]
  /\ Siblings \in [States -> SUBSET States]
  /\ OtherThreads \in BOOLEAN /\ QuietDestroy \in BOOLEAN
  /\ MaxChanges \in Nat /\ MaxUpdates \in Nat

VARIABLES
  registered,     (* The keys of states_.                                  *)
  instance,       (* The states whose instance is not null.                *)
  active, parent, child, top,
  transition,     (* transition_                                           *)
  wanted,         (* <<transition_parent_, transition_state_>>             *)
  pc,             (* The callback Update is in.                            *)
  processing,     (* ProcessTransition's <<parent_info, new_state_info>>.  *)
  exiting,        (* Its exit_info and ...                                 *)
  exitParent,     (* ... exit_parent.                                      *)
  cursor,         (* DoUpdate's state_info.                                *)
  updated,        (* History: the states OnUpdate was called for in this  *)
                  (* Update since its last transition, in order.          *)
  dying,          (* The destructor has begun.                             *)
  changes, updates

treeVars    == <<active, parent, child, top>>
requestVars == <<transition, wanted, changes>>
localVars   == <<processing, exiting, exitParent, cursor>>
vars == <<registered, instance, treeVars, requestVars, pc, localVars, updated,
          dying, updates>>

MaybeStates == States \cup {NoState}
Changes == MaybeStates \X MaybeStates
NoChange == <<NoState, NoState>>

(* Where Update runs without mutex_, in a callback, and where with it.      *)
Callbacks == {"OnUpdate", "OnExit", "delete", "OnChildExit", "OnChildEnter",
              "create", "OnInit", "OnEnter"}
Unlocked  == Callbacks \cup {"idle", "validate", "ending"}
Locked    == {"loop", "visit", "exit", "enter"}

TypeOK ==
  /\ registered \subseteq States
  /\ instance \subseteq registered
  /\ active \in [States -> BOOLEAN]
  /\ parent \in [States -> MaybeStates]
  /\ child \in [States -> MaybeStates]
  /\ top \in MaybeStates
  /\ transition \in BOOLEAN
  /\ wanted \in Changes
  /\ pc \in Unlocked \cup Locked \cup {"destroyed"}
  /\ processing \in Changes
  /\ exiting \in MaybeStates /\ exitParent \in MaybeStates
  /\ cursor \in MaybeStates
  /\ updated \in Seq(States)
  /\ dying \in BOOLEAN

Init ==
  /\ registered = {}
  /\ instance = {}
  /\ active = [s \in States |-> FALSE]
  /\ parent = [s \in States |-> NoState]
  /\ child = [s \in States |-> NoState]
  /\ top = NoState
  /\ transition = FALSE
  /\ wanted = NoChange
  /\ pc = "idle"
  /\ processing = NoChange
  /\ exiting = NoState
  /\ exitParent = NoState
  /\ cursor = NoState
  /\ updated = <<>>
  /\ dying = FALSE
  /\ changes = 0
  /\ updates = 0

(* DoRegister; a global state is constructed at once.                      *)
Register(s) ==
  /\ pc \in Callbacks \cup {"idle"}
  /\ s \notin registered
  /\ registered' = registered \cup {s}
  /\ instance' = IF s \in GlobalStates THEN instance \cup {s} ELSE instance
  /\ UNCHANGED <<treeVars, requestVars, pc, localVars, updated, dying, updates>>

-----------------------------------------------------------------------------
(* ChangeState                                                             *)

ChildOf(p) == IF p = NoState THEN top ELSE child[p]

(* Mutant: the states need not be registered.                              *)
ValidChangeUnregistered(p, s) ==
  /\ p # NoState => active[p]
  /\ s # NoState => ~active[s]
  /\ p # NoState /\ s # NoState => p \in Parents[s]

ValidChange(p, s) ==
  LET sibling == ChildOf(p) IN
  /\ p # NoState => p \in registered /\ active[p]
  /\ s # NoState => s \in registered /\ ~active[s]
  /\ s # NoState /\ sibling # NoState => s \in Siblings[sibling]
  /\ p # NoState /\ s # NoState => p \in Parents[s]

(* A request that is under way already, or would change nothing, is not     *)
(* recorded.                                                               *)
ChangesNothing(p, s) ==
  IF transition THEN wanted = <<p, s>> ELSE ChildOf(p) = s

ChangeState(p, s) ==
  /\ pc \in IF OtherThreads THEN Unlocked ELSE Callbacks \cup {"idle"}
  /\ QuietDestroy => ~dying
  /\ changes < MaxChanges
  /\ ValidChange(p, s)
  /\ ~ChangesNothing(p, s)
  /\ transition' = TRUE
  /\ wanted' = <<p, s>>
  /\ changes' = changes + 1
  /\ UNCHANGED <<registered, instance, treeVars, pc, localVars, updated, dying,
                 updates>>

-----------------------------------------------------------------------------
(* Update                                                                  *)

Goto(l) == pc' = l

ClearTransition ==
  /\ transition' = FALSE
  /\ wanted' = NoChange
  /\ UNCHANGED changes

Update ==
  /\ pc = "idle"
  /\ updates < MaxUpdates
  /\ updates' = updates + 1
  /\ updated' = <<>>
  /\ Goto("loop")
  /\ UNCHANGED <<registered, instance, treeVars, requestVars, localVars, dying>>

Deepest ==
  IF top = NoState THEN NoState
  ELSE CHOOSE s \in States : active[s] /\ child[s] = NoState

(* `while (transition_) ProcessTransition();` and then the updates.        *)
Loop ==
  /\ pc = "loop"
  /\ IF transition
     THEN /\ processing' = wanted
          /\ exiting' = Deepest
          /\ updated' = <<>>
          /\ Goto("exit")
          /\ UNCHANGED cursor
     ELSE /\ cursor' = top
          /\ Goto("visit")
          /\ UNCHANGED <<processing, exiting, updated>>
  /\ UNCHANGED <<registered, instance, treeVars, requestVars, exitParent,
                 dying, updates>>

Visit ==
  /\ pc = "visit"
  /\ cursor # NoState
  /\ updated' = Append(updated, cursor)
  /\ Goto("OnUpdate")
  /\ UNCHANGED <<registered, instance, treeVars, requestVars, localVars, dying,
                 updates>>

(* Mutant: a transition requested by OnUpdate waits for the next Update.   *)
UpdateReturnsLate ==
  /\ pc = "OnUpdate"
  /\ Goto("visit")
  /\ cursor' = child[cursor]
  /\ UNCHANGED <<registered, instance, treeVars, requestVars, processing,
                 exiting, exitParent, updated, dying, updates>>

(* update_id is compared but never assigned, so after a transition every    *)
(* active state is updated again.                                          *)
UpdateReturns ==
  /\ pc = "OnUpdate"
  /\ IF transition THEN Goto("loop") /\ UNCHANGED cursor
                   ELSE Goto("visit") /\ cursor' = child[cursor]
  /\ UNCHANGED <<registered, instance, treeVars, requestVars, processing,
                 exiting, exitParent, updated, dying, updates>>

Finish ==
  /\ pc = "visit"
  /\ cursor = NoState
  /\ Goto(IF dying THEN "ending" ELSE "idle")
  /\ UNCHANGED <<registered, instance, treeVars, requestVars, localVars,
                 updated, dying, updates>>

-----------------------------------------------------------------------------
(* ProcessTransition: exit                                                 *)

(* Mutant: the parent keeps its child.                                     *)
DetachKeeping(s) ==
  /\ active' = [active EXCEPT ![s] = FALSE]
  /\ parent' = [parent EXCEPT ![s] = NoState]
  /\ IF parent[s] = NoState THEN top' = NoState ELSE UNCHANGED top
  /\ UNCHANGED child

Detach(s) ==
  /\ active' = [active EXCEPT ![s] = FALSE]
  /\ parent' = [parent EXCEPT ![s] = NoState]
  /\ IF parent[s] # NoState
     THEN child' = [child EXCEPT ![parent[s]] = NoState] /\ UNCHANGED top
     ELSE top' = NoState /\ UNCHANGED child

Exit ==
  /\ pc = "exit"
  /\ exiting # processing[1]
  /\ exitParent' = parent[exiting]
  /\ Detach(exiting)
  /\ Goto("OnExit")
  /\ UNCHANGED <<registered, instance, requestVars, processing, exiting, cursor,
                 updated, dying, updates>>

(* "If a new transition was queued, start over."                           *)
Exited ==
  IF wanted = processing
  THEN exiting' = exitParent /\ Goto("exit")
  ELSE Goto("loop") /\ UNCHANGED exiting

TellParent ==
  IF exitParent = NoState THEN Exited
  ELSE Goto("OnChildExit") /\ UNCHANGED exiting

ExitReturns ==
  /\ pc = "OnExit"
  /\ IF exiting \in GlobalStates THEN TellParent
     ELSE Goto("delete") /\ UNCHANGED exiting
  /\ UNCHANGED <<registered, instance, treeVars, requestVars, processing,
                 exitParent, cursor, updated, dying, updates>>

Deleted ==
  /\ pc = "delete"
  /\ instance' = instance \ {exiting}
  /\ TellParent
  /\ UNCHANGED <<registered, treeVars, requestVars, processing, exitParent,
                 cursor, updated, dying, updates>>

ChildExitReturns ==
  /\ pc = "OnChildExit"
  /\ Exited
  /\ UNCHANGED <<registered, instance, treeVars, requestVars, processing,
                 exitParent, cursor, updated, dying, updates>>

-----------------------------------------------------------------------------
(* ProcessTransition: enter                                                *)

ParentReached ==
  /\ pc = "exit"
  /\ exiting = processing[1]
  /\ IF processing[2] = NoState THEN ClearTransition /\ Goto("loop")
     ELSE Goto("validate") /\ UNCHANGED requestVars
  /\ UNCHANGED <<registered, instance, treeVars, localVars, updated, dying,
                 updates>>

(* The context is validated without the lock.  When it is not valid the     *)
(* transition is cleared, whatever it is by now.                           *)
Validated ==
  /\ pc = "validate"
  /\ \/ /\ Goto(IF processing[1] = NoState THEN "enter" ELSE "OnChildEnter")
        /\ UNCHANGED requestVars
     \/ /\ ClearTransition
        /\ Goto("loop")
  /\ UNCHANGED <<registered, instance, treeVars, localVars, updated, dying,
                 updates>>

ChildEnterReturns ==
  /\ pc = "OnChildEnter"
  /\ Goto("enter")
  /\ UNCHANGED <<registered, instance, treeVars, requestVars, localVars,
                 updated, dying, updates>>

(* Mutant: an instance is never created.                                   *)
EnterUncreated ==
  LET p == processing[1]  s == processing[2] IN
  /\ pc = "enter"
  /\ active' = [active EXCEPT ![s] = TRUE]
  /\ parent' = [parent EXCEPT ![s] = p]
  /\ IF p # NoState THEN child' = [child EXCEPT ![p] = s] /\ UNCHANGED top
                    ELSE top' = s /\ UNCHANGED child
  /\ Goto("OnEnter")
  /\ UNCHANGED <<registered, instance, requestVars, localVars, updated, dying,
                 updates>>

Enter ==
  LET p == processing[1]  s == processing[2] IN
  /\ pc = "enter"
  /\ active' = [active EXCEPT ![s] = TRUE]
  /\ parent' = [parent EXCEPT ![s] = p]
  /\ IF p # NoState THEN child' = [child EXCEPT ![p] = s] /\ UNCHANGED top
                    ELSE top' = s /\ UNCHANGED child
  /\ Goto(IF s \in GlobalStates THEN "OnEnter" ELSE "create")
  /\ UNCHANGED <<registered, instance, requestVars, localVars, updated, dying,
                 updates>>

(* CreateInstance                                                          *)
Created ==
  /\ pc = "create"
  /\ instance' = instance \cup {processing[2]}
  /\ Goto("OnInit")
  /\ UNCHANGED <<registered, treeVars, requestVars, localVars, updated, dying,
                 updates>>

InitReturns ==
  /\ pc = "OnInit"
  /\ Goto("OnEnter")
  /\ UNCHANGED <<registered, instance, treeVars, requestVars, localVars,
                 updated, dying, updates>>

(* Mutant: the transition is reset although another one was requested.     *)
EnterReturnsClearing ==
  /\ pc = "OnEnter"
  /\ ClearTransition
  /\ Goto("loop")
  /\ UNCHANGED <<registered, instance, treeVars, localVars, updated, dying,
                 updates>>

(* Mutant: the transition is not reset when it is done.                    *)
EnterReturnsForgetting ==
  /\ pc = "OnEnter"
  /\ Goto("loop")
  /\ UNCHANGED <<registered, instance, treeVars, requestVars, localVars,
                 updated, dying, updates>>

EnterReturns ==
  /\ pc = "OnEnter"
  /\ IF wanted = processing THEN ClearTransition ELSE UNCHANGED requestVars
  /\ Goto("loop")
  /\ UNCHANGED <<registered, instance, treeVars, localVars, updated, dying,
                 updates>>

-----------------------------------------------------------------------------
(* Mutant: the destructor only updates.                                    *)
BeginDestroyUpdating ==
  /\ pc = "idle"
  /\ dying' = TRUE
  /\ updated' = <<>>
  /\ Goto("loop")
  /\ UNCHANGED <<registered, instance, treeVars, requestVars, localVars, updates>>

(* The destructor: `ChangeState(kNoGameStateId, kNoGameStateId)`, an update, *)
(* and the end of every instance that is left.                             *)
BeginDestroy ==
  /\ pc = "idle"
  /\ dying' = TRUE
  /\ updated' = <<>>
  /\ Goto("loop")
  /\ IF ChangesNothing(NoState, NoState) THEN UNCHANGED requestVars
     ELSE transition' = TRUE /\ wanted' = NoChange /\ UNCHANGED changes
  /\ UNCHANGED <<registered, instance, treeVars, localVars, updates>>

Destroy ==
  /\ pc = "ending"
  /\ ~transition
  /\ instance' = {}
  /\ registered' = {}
  /\ Goto("destroyed")
  /\ UNCHANGED <<treeVars, requestVars, localVars, updated, dying, updates>>

UpdateStep ==
  \/ Loop \/ Visit \/ UpdateReturns \/ Finish
  \/ Exit \/ ExitReturns \/ Deleted \/ ChildExitReturns
  \/ ParentReached \/ Validated \/ ChildEnterReturns
  \/ Enter \/ Created \/ InitReturns \/ EnterReturns
  \/ Destroy

Next ==
  \/ \E s \in States : Register(s)
  \/ \E p, s \in MaybeStates : ChangeState(p, s)
  \/ Update
  \/ BeginDestroy
  \/ UpdateStep

(* The updating thread runs, and callbacks return.                         *)
Spec == Init /\ [][Next]_vars
FairSpec == Spec /\ WF_vars(UpdateStep)

-----------------------------------------------------------------------------
(* Properties                                                              *)

(* The active states, from the top along the children.                     *)
Branches == UNION {[1 .. n -> States] : n \in 0 .. Cardinality(States)}
IsBranch(b) ==
  /\ top = IF b = <<>> THEN NoState ELSE b[1]
  /\ \A i \in DOMAIN b : child[b[i]] = IF i = Len(b) THEN NoState ELSE b[i + 1]
Branch == CHOOSE b \in Branches : IsBranch(b)

(* One branch is active: parents and children agree, each parent is one the *)
(* state allows, and no other state is active.  When the machine is         *)
(* destroyed every state has exited.                                       *)
OneBranch ==
  /\ \E b \in Branches : IsBranch(b)
  /\ \A s \in States : active[s] <=> \E i \in DOMAIN Branch : Branch[i] = s
  /\ \A s \in States : ~active[s] => parent[s] = NoState /\ child[s] = NoState
  /\ \A i \in DOMAIN Branch :
       parent[Branch[i]] = IF i = 1 THEN NoState ELSE Branch[i - 1]
  /\ \A s \in States : parent[s] # NoState => parent[s] \in Parents[s]
  /\ pc = "destroyed" => top = NoState /\ ~transition

(* Every callback is made on an instance that exists, and the exit loop      *)
(* meets the parent it is to stop at: both are dereferenced unchecked.      *)
CallbacksAreSafe ==
  /\ pc = "OnUpdate" => cursor \in instance
  /\ pc \in {"OnExit", "delete"} => exiting \in instance
  /\ pc = "OnChildExit" => exitParent \in instance
  /\ pc = "OnChildEnter" => processing[1] \in instance
  /\ pc \in {"OnInit", "OnEnter"} => processing[2] \in instance
  /\ pc = "exit" /\ exiting = NoState => processing[1] = NoState

(* The machine implements GameStates: the last change requested happens,    *)
(* one state at a time, and is not forgotten.                              *)
Abstract == INSTANCE GameStates WITH
  branch   <- Branch,
  wanted   <- IF transition THEN wanted ELSE <<>>,
  entering <- IF pc \in {"validate", "OnChildEnter", "enter"}
              THEN processing[2] ELSE NoState
ImplementsGameStates == Abstract!Spec

(* When Update returns nothing is left to change, and after the last        *)
(* transition it made, however many OnUpdate requested, every active state *)
(* was updated once, from the top down, and no other.                      *)
UpdateIsComplete == [][Finish => ~transition /\ updated = Branch]_vars

(* Update and the destructor return, when callbacks do and requests end.    *)
UpdatesEnd == pc \notin {"idle", "destroyed"} ~> pc \in {"idle", "destroyed"}
=============================================================================
