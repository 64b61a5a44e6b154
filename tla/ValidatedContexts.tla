------------------------- MODULE ValidatedContexts --------------------------
(***************************************************************************)
(* gb::ValidatedContext and gb::ContextContract: functions pass a context  *)
(* on under constraints on the values that go in and come out of it.       *)
(*                                                                         *)
(* A value is a key, a name and a type.  has[c] is what context c has of   *)
(* its own; a context also has what its parent has.  Every constraint is   *)
(* [presence, key, default], where default says whether it has one.  The   *)
(* caller obeys validated_context.h: a required value has no default.      *)
(***************************************************************************)
EXTENDS Naturals, FiniteSets

CONSTANTS
  Contexts, NoContext,
  ParentOf,        (* A function from contexts, NoContext for none.        *)
  Keys,            (* Pairs of a name, or NoName, and a type.              *)
  NoName,
  Validated,       (* The ValidatedContexts.                               *)
  Contracts        (* The sets of constraints.                             *)

VARIABLES
  has,
  context,         (* context_                                             *)
  constraints      (* constraints_                                         *)

vars == <<has, context, constraints>>

Init ==
  /\ has \in {h \in [Contexts -> SUBSET Keys] :
       \A c \in Contexts, j, k \in Keys :
         {j, k} \subseteq h[c] /\ j[1] = k[1] /\ j[1] # NoName => j = k}
  /\ context = [v \in Validated |-> NoContext]
  /\ constraints = [v \in Validated |-> {}]

(* Exists and NameExists, with the parent's.                               *)
AllOf(h, c) == h[c] \cup (IF ParentOf[c] = NoContext THEN {} ELSE h[ParentOf[c]])
Exists(h, c, k) == k \in AllOf(h, c)
NameExists(h, c, n) == \E k \in AllOf(h, c) : k[1] = n

(* Set and Clear of a value: only one has a name.                          *)
WithSet(h, c, k) ==
  [h EXCEPT ![c] = {j \in @ : j[1] # k[1] \/ k[1] = NoName} \cup {k}]
WithClear(h, c, k) ==
  [h EXCEPT ![c] = {j \in @ : j # k /\ (j[1] # k[1] \/ k[1] = NoName)}]

Of(cs, presences) == {x \in cs : x.presence \in presences}

(* Whether the values of these constraints are there, as far as they must  *)
(* be, and none of them has another type.                                  *)
Met(h, c, cs, required) ==
  \A x \in cs :
    \/ Exists(h, c, x.key)
    \/ x.presence # required /\ (x.key[1] = NoName \/ ~NameExists(h, c, x.key[1]))

CanComplete(h, v) ==
  context[v] = NoContext
    \/ Met(h, context[v], Of(constraints[v], {"outRequired", "outOptional"}), "outRequired")

Accepts(h, c, cs) == Met(h, c, Of(cs, {"inRequired", "inOptional"}), "inRequired")

(* The defaults of the optional values that are missing.                   *)
Defaults(h, c, cs, presence) ==
  {x.key : x \in {y \in Of(cs, {presence}) : y.default /\ ~Exists(h, c, y.key)}}

(* Mutant: a completion leaves the scoped values.                          *)
KeepsScoped(h, v) ==
  IF context[v] = NoContext THEN h
  ELSE [h EXCEPT ![context[v]] = @ \cup Defaults(h, context[v], constraints[v], "outOptional")]

(* What Complete leaves in the contexts: missing values have defaults and  *)
(* the scoped ones are cleared.  The keys of a contract differ.            *)
Completed(h, v) ==
  IF context[v] = NoContext THEN h
  ELSE LET c == context[v]
           scoped == {x.key : x \in Of(constraints[v], {"scoped"})}
       IN [h EXCEPT ![c] = {k \in @ \cup Defaults(h, c, constraints[v], "outOptional") :
                              \A s \in scoped : k # s /\ (k[1] # s[1] \/ k[1] = NoName)}]

-----------------------------------------------------------------------------

(* Complete, which changes nothing when it fails, and the destructor.      *)
Complete(v) ==
  /\ context[v] # NoContext /\ CanComplete(has, v)
  /\ has' = Completed(has, v)
  /\ context' = [context EXCEPT ![v] = NoContext]
  /\ constraints' = [constraints EXCEPT ![v] = {}]

Destroy(v) ==
  /\ context[v] # NoContext
  /\ has' = IF CanComplete(has, v) THEN Completed(has, v) ELSE has
  /\ context' = [context EXCEPT ![v] = NoContext]
  /\ constraints' = [constraints EXCEPT ![v] = {}]

(* Mutant: the new context is not tested.                                  *)
TakesAny(v, c, cs) == CanComplete(has, v)

(* The tests of Assign, in their order: of the new context, and of the     *)
(* completion of the old one.                                              *)
Assignable(v, c, cs) == Accepts(has, c, cs) /\ CanComplete(has, v)

(* Assign of a context and constraints, also of the context of another     *)
(* ValidatedContext or contract; it changes nothing when it fails.  The    *)
(* program does not assign the context v has, or a child of it: it is      *)
(* tested with the scoped values that are cleared next.                    *)
Assign(v, c, cs) ==
  /\ context[v] \notin {c, ParentOf[c]} \ {NoContext}
  /\ Assignable(v, c, cs)
  /\ LET h == Completed(has, v)
     IN has' = [h EXCEPT ![c] = @ \cup Defaults(h, c, cs, "inOptional")]
  /\ context' = [context EXCEPT ![v] = c]
  /\ constraints' = [constraints EXCEPT ![v] = cs]

(* Assign of another ValidatedContext that is moved from: what v had is    *)
(* completed if it can be, and replaced either way.                        *)
MoveTo(v, other) ==
  /\ v # other /\ context[other] # NoContext
  /\ has' = IF CanComplete(has, v) THEN Completed(has, v) ELSE has
  /\ context' = [context EXCEPT ![v] = context[other], ![other] = NoContext]
  /\ constraints' = [constraints EXCEPT ![v] = constraints[other], ![other] = {}]

CanWriteValue(v, k) ==
  \E x \in Of(constraints[v], {"outOptional", "outRequired", "scoped"}) : x.key = k

(* A value is set, or released or cleared, through the ValidatedContext.   *)
SetValue(v, k) ==
  /\ context[v] # NoContext /\ CanWriteValue(v, k)
  /\ has' = WithSet(has, context[v], k)
  /\ UNCHANGED <<context, constraints>>

ClearValue(v, k) ==
  /\ context[v] # NoContext /\ CanWriteValue(v, k)
  /\ has' = WithClear(has, context[v], k)
  /\ UNCHANGED <<context, constraints>>

Next ==
  \E v \in Validated :
    \/ Complete(v) \/ Destroy(v)
    \/ \E c \in Contexts, cs \in Contracts : Assign(v, c, cs)
    \/ \E other \in Validated : MoveTo(v, other)
    \/ \E k \in Keys : SetValue(v, k) \/ ClearValue(v, k)

Spec == Init /\ [][Next]_vars

-----------------------------------------------------------------------------
(* Caller and callee can rely on a contract, whatever other contracts are  *)
(* under way on the same contexts: an assignment leaves the inputs it      *)
(* requires, a completion the outputs it requires and no scoped value of   *)
(* its context.  Neither changes a value the two contracts do not name; a  *)
(* scoped value takes one of another type with it that has its name.       *)
ContractsHold ==
  [][\A v \in Validated :
       /\ \A c \in Contexts, cs \in Contracts : Assign(v, c, cs) =>
            /\ \A x \in Of(cs, {"inRequired"}) : Exists(has', c, x.key)
            /\ \A d \in Contexts, k \in Keys :
                 (k \in has[d]) # (k \in has'[d]) =>
                   \E x \in constraints[v] \cup cs :
                     x.key = k \/ (k[1] # NoName /\ x.key[1] = k[1])
       /\ Complete(v) =>
            /\ \A x \in Of(constraints[v], {"outRequired"}) : Exists(has', context[v], x.key)
            /\ \A x \in Of(constraints[v], {"scoped"}) : x.key \notin has'[context[v]]]_vars
=============================================================================
