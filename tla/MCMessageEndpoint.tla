-------------------------- MODULE MCMessageEndpoint --------------------------
(* What systems use to talk and to hand things on, for TLC: message        *)
(* endpoints, dispatchers, weak pointers, contexts and their contracts.    *)
(* A behaviour is one of one component, `component`; the others stay as    *)
(* they were made.                                                         *)
EXTENDS MessageEndpoint

CONSTANTS
  Absent,
  (* MessageDispatchers and WeakPtrs *)
  Locks, MaxMessages,
  (* Contexts *)
  ValueTypes, Names, Objects,
  (* ValidatedContexts *)
  Contexts, ParentOf, Keys, Contracts, Validated

VARIABLES
  component,
  (* MessageDispatchers *)
  system, added, messages, exit, batch, at, cancel, dispatched, destroyed,
  (* WeakPtrs *)
  alive, ptr, pending, count, lock, calls, readers,
  (* Contexts and ValidatedContexts *)
  values, names, live, released, contextCalls, has, context, constraints

Dispatcher == INSTANCE MessageDispatchers
Pointer == INSTANCE WeakPtrs WITH Nested <- FALSE, at <- calls
Context == INSTANCE Contexts WITH
  Types <- ValueTypes, NoType <- Absent, NoName <- Absent, NoObject <- Absent,
  calls <- contextCalls
Contract == INSTANCE ValidatedContexts WITH NoContext <- Absent, NoName <- Absent

(* The contracts of validated contexts: of a name and a type, the name with *)
(* another type, and the type without a name.                              *)
kA == <<Absent, "A">>
kN == <<"n", "A">>
kM == <<"n", "B">>
MCKeys == {kA, kN, kM}
Constraint(presence, key, default) == [presence |-> presence, key |-> key, default |-> default]
MCContracts == {
  {Constraint("inRequired", kA, FALSE), Constraint("scoped", kN, FALSE)},
  {Constraint("inRequired", kN, FALSE), Constraint("outRequired", kA, FALSE)},
  {Constraint("inOptional", kM, TRUE), Constraint("outOptional", kA, TRUE)},
  {Constraint("outRequired", kM, FALSE), Constraint("scoped", kA, FALSE)}}
MCParentOf == [c \in Contexts |-> IF c = "child" THEN "parent" ELSE Absent]

ASSUME ContextAssumption ==
  Absent \notin ValueTypes \cup Names \cup Objects \cup Contexts

(* "Value will be added", "cannot exist beyond the completion": a value    *)
(* that is required to come out is not scoped (validated_context.h).       *)
ASSUME ContractAssumption ==
  /\ ParentOf \in [Contexts -> Contexts \cup {Absent}]
  /\ \A cs \in Contracts : \A x \in cs :
       /\ x.key \in Keys
       /\ x.presence = "outRequired" =>
            \A s \in cs : s.presence = "scoped" =>
              s.key # x.key /\ (s.key[1] = x.key[1] => x.key[1] = Absent)

dispatcherVars == <<system, added, messages, exit, batch, at, cancel, dispatched, destroyed>>
pointerVars == <<alive, ptr, pending, count, lock, calls, readers>>
contextVars == <<values, names, live, released, contextCalls>>
contractVars == <<has, context, constraints>>
allVars == <<component, vars, dispatcherVars, pointerVars, contextVars, contractVars>>

MCInit ==
  /\ component \in {"endpoint", "dispatcher", "pointer", "context", "contract"}
  /\ Dispatcher!Init /\ Pointer!Init /\ Context!Init
  /\ Contract!Init /\ (component # "contract" => \A c \in Contexts : has[c] = {})
  /\ Init /\ (component # "endpoint" => \A y \in Types : handlers[y] = CHOOSE h \in Handlers : TRUE)

MCNext ==
  \/ /\ component = "endpoint" /\ Next
     /\ UNCHANGED <<component, dispatcherVars, pointerVars, contextVars, contractVars>>
  \/ /\ component = "dispatcher" /\ Dispatcher!Next
     /\ UNCHANGED <<component, vars, pointerVars, contextVars, contractVars>>
  \/ /\ component = "pointer" /\ Pointer!Next
     /\ UNCHANGED <<component, vars, dispatcherVars, contextVars, contractVars>>
  \/ /\ component = "context" /\ Context!Next
     /\ UNCHANGED <<component, vars, dispatcherVars, pointerVars, contractVars>>
  \/ /\ component = "contract" /\ Contract!Next
     /\ UNCHANGED <<component, vars, dispatcherVars, pointerVars, contextVars>>

(* Of a component that stays as it was made no fair action is enabled.      *)
MCFairSpec ==
  MCInit /\ [][MCNext]_allVars /\ Fairness /\ Dispatcher!Fairness /\ Pointer!Fairness

-----------------------------------------------------------------------------
(* The properties of the components, each true of one as it was made.      *)

(* Once an endpoint's destructor, or the cancellation of a dispatcher, is  *)
(* past its wait, no handler runs and nothing is dispatched; and what is   *)
(* locked through a weak pointer has not been invalidated.                 *)
EndedIsQuiet ==
  /\ DestroyedIsQuiet
  /\ Dispatcher!CancelledIsQuiet
  /\ Pointer!LocksProtect

(* Messages are dispatched once and in order.                              *)
DispatchedInOrder == Dispatcher!DispatchedInOrder

(* What threads set, read and release in a context, its names and its      *)
(* values agree; and the constraints of validated contexts are met.        *)
ContextsHold ==
  /\ [](component = "context" => Context!OneValuePerName /\ Context!OwnedOnce)
  /\ Contract!ContractsHold

(* Every message is handled, dispatched or deleted, and every call that    *)
(* waits for the other threads returns.                                    *)
MessagesArrive == MessagesHandled /\ Dispatcher!DispatchersDeliver
CallsReturn == DestructorReturns /\ Pointer!InvalidateReturns
=============================================================================
