------------------------------ MODULE Contexts ------------------------------
(***************************************************************************)
(* gb::Context: threads set, release and clear the values of one context,  *)
(* which are keyed by a name and a type.  An action is one section under   *)
(* mutex_, with the destruction of a value that follows it.                *)
(*                                                                         *)
(* calls[t] is the stack of SetImpl calls a thread is in, the innermost    *)
(* last, each [name, type, object]; an object is NoObject for a clear.     *)
(* A pointer that is set and not owned has no object of its own here: the  *)
(* value is then "borrowed".                                               *)
(***************************************************************************)
EXTENDS Naturals, Sequences, FiniteSets, SequencesExt

CONSTANTS
  Threads,
  Types, NoType,
  Names, NoName,
  Objects, NoObject

VARIABLES
  values,          (* values_: the objects by name and type, or NoObject.  *)
  names,           (* names_                                               *)
  live,            (* The objects that have been created and not deleted.  *)
  released,        (* Those that Release has returned.                     *)
  calls

vars == <<values, names, live, released, calls>>

AllNames == Names \cup {NoName}

Init ==
  /\ values = [k \in AllNames \X Types |-> NoObject]
  /\ names = [n \in Names |-> NoType]
  /\ live = {} /\ released = {}
  /\ calls = [t \in Threads |-> <<>>]

SetCall(n, type, object) == [name |-> n, type |-> type, object |-> object]

Named(n) == n # NoName

(* SetNew, SetOwned, SetValue and SetAny of a new object, and Clear.       *)
Set(t, n, type, object) ==
  /\ calls[t] = <<>>
  /\ object = NoObject \/ object \notin live
  /\ live' = live \cup ({object} \ {NoObject})
  /\ calls' = [calls EXCEPT ![t] = <<SetCall(n, type, object)>>]
  /\ UNCHANGED <<values, names, released>>

(* ClearName: the type of the name is read under the mutex, and the value  *)
(* cleared after it.                                                       *)
ClearName(t, n) ==
  /\ calls[t] = <<>> /\ names[n] # NoType
  /\ calls' = [calls EXCEPT ![t] = <<SetCall(n, names[n], NoObject)>>]
  /\ UNCHANGED <<values, names, live, released>>

-----------------------------------------------------------------------------
(* SetImpl of the innermost call.                                          *)

In(t)  == Last(calls[t])
Key(t) == <<In(t).name, In(t).type>>

Return(t) == calls' = [calls EXCEPT ![t] = Front(@)]

(* Whether another value has the name.                                     *)
NameTaken(t) == Named(In(t).name) /\ names[In(t).name] # NoType

(* The value exists and is cleared.                                        *)
Erase(t) ==
  /\ calls[t] # <<>> /\ values[Key(t)] # NoObject /\ In(t).object = NoObject
  /\ values' = [values EXCEPT ![Key(t)] = NoObject]
  /\ names' = [n \in Names |-> IF n = In(t).name THEN NoType ELSE names[n]]
  /\ live' = live \ {values[Key(t)]}
  /\ Return(t)
  /\ UNCHANGED released

(* Mutant: the value that was there is forgotten.                          *)
Overwrites(t) == live

LiveWithout(t) == live \ {values[Key(t)]}

(* The value exists and is replaced.                                       *)
Replace(t) ==
  /\ calls[t] # <<>> /\ values[Key(t)] # NoObject /\ In(t).object # NoObject
  /\ values' = [values EXCEPT ![Key(t)] = In(t).object]
  /\ live' = LiveWithout(t)
  /\ Return(t)
  /\ UNCHANGED <<names, released>>

(* Mutant: a name that has a value of another type may be taken.           *)
Shares(t) ==
  /\ calls[t] # <<>> /\ values[Key(t)] = NoObject /\ In(t).object # NoObject
  /\ values' = [values EXCEPT ![Key(t)] = In(t).object]
  /\ names' = [n \in Names |-> IF n = In(t).name THEN In(t).type ELSE names[n]]
  /\ Return(t)
  /\ UNCHANGED <<live, released>>

(* The value is new, and no other has its name.                            *)
Insert(t) ==
  /\ calls[t] # <<>> /\ values[Key(t)] = NoObject /\ In(t).object # NoObject
  /\ ~NameTaken(t)
  /\ values' = [values EXCEPT ![Key(t)] = In(t).object]
  /\ names' = [n \in Names |-> IF n = In(t).name THEN In(t).type ELSE names[n]]
  /\ Return(t)
  /\ UNCHANGED <<live, released>>

(* There is nothing to clear.                                              *)
Nothing(t) ==
  /\ calls[t] # <<>> /\ values[Key(t)] = NoObject /\ In(t).object = NoObject
  /\ ~NameTaken(t)
  /\ Return(t)
  /\ UNCHANGED <<values, names, live, released>>

(* The name has a value of another type, which is cleared first: the mutex *)
(* is unlocked, and then the iterator read, which another thread may have  *)
(* invalidated by then.  What is read is the type there was, or any that   *)
(* an entry in its place has.                                              *)
ClearFirst(t) ==
  /\ calls[t] # <<>> /\ values[Key(t)] = NoObject /\ NameTaken(t)
  /\ \E type \in Types :
       LET clear == SetCall(In(t).name, type, NoObject)
           rest  == IF In(t).object = NoObject THEN Front(calls[t]) ELSE calls[t]
       IN /\ type = names[In(t).name] \/ Cardinality(Threads) > 1
          /\ calls' = [calls EXCEPT ![t] = Append(rest, clear)]
  /\ UNCHANGED <<values, names, live, released>>

-----------------------------------------------------------------------------

(* Release and ReleaseImpl.                                                *)
Release(t, n, type) ==
  /\ calls[t] = <<>> /\ values[<<n, type>>] # NoObject
  /\ released' = released \cup {values[<<n, type>>]}
  /\ values' = [values EXCEPT ![<<n, type>>] = NoObject]
  /\ names' = [m \in Names |-> IF m = n THEN NoType ELSE names[m]]
  /\ UNCHANGED <<live, calls>>

(* The program deletes what it was given.                                  *)
DeleteReleased(object) ==
  /\ object \in released
  /\ released' = released \ {object} /\ live' = live \ {object}
  /\ UNCHANGED <<values, names, calls>>

(* Reset.                                                                  *)
Reset ==
  /\ \E k \in DOMAIN values : values[k] # NoObject
  /\ live' = live \ {values[k] : k \in DOMAIN values}
  /\ values' = [k \in DOMAIN values |-> NoObject]
  /\ names' = [n \in Names |-> NoType]
  /\ UNCHANGED <<released, calls>>

Next ==
  \/ \E t \in Threads :
       \/ \E n \in AllNames, type \in Types :
            \/ \E object \in Objects \cup {NoObject} : Set(t, n, type, object)
            \/ Release(t, n, type)
       \/ \E n \in Names : ClearName(t, n)
       \/ Erase(t) \/ Replace(t) \/ Insert(t) \/ Nothing(t) \/ ClearFirst(t)
  \/ \E object \in Objects : DeleteReleased(object)
  \/ Reset

Spec == Init /\ [][Next]_vars

-----------------------------------------------------------------------------
Stored   == {values[k] : k \in DOMAIN values} \ {NoObject}
Entering == {c.object : c \in UNION {ToSet(calls[t]) : t \in Threads}} \ {NoObject}

(* However the calls of several threads interleave, a name has one value,  *)
(* of the type the context knows it by.                                    *)
OneValuePerName ==
  \A n \in Names : {type \in Types : values[<<n, type>>] # NoObject} = {names[n]} \ {NoType}

(* An object that exists is owned once: by one value, by a call that is to *)
(* set it, or by the program it was released to.  What is owned exists.    *)
OwnedOnce ==
  /\ live = Stored \cup Entering \cup released
  /\ Stored \cap Entering = {} /\ Stored \cap released = {} /\ Entering \cap released = {}
  /\ \A j, k \in DOMAIN values : values[j] = values[k] /\ values[j] # NoObject => j = k
=============================================================================
