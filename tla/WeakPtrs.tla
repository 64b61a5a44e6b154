------------------------------ MODULE WeakPtrs ------------------------------
(***************************************************************************)
(* gb::WeakScope, gb::WeakPtr and gb::WeakLock: threads lock a pointer to  *)
(* a parent Context, by themselves or within a lookup in a child Context,  *)
(* while its owner invalidates the pointer in order to destroy the parent. *)
(*                                                                         *)
(* A thread has several WeakLocks: "none" without data_, else with the     *)
(* pointer it has read.  at[t] is the call a thread is in.                 *)
(***************************************************************************)
EXTENDS Integers, FiniteSets, FiniteSetsExt

CONSTANTS
  Threads, Locks,
  Nested           (* Whether a thread that holds a lock takes another, or *)
                   (* writes to the child, while the owner invalidates.    *)

VARIABLES
  alive,           (* The parent has not been destroyed.                   *)
  ptr,             (* ptr_ is not null.                                    *)
  pending,         (* clear_pending_                                       *)
  count,           (* count_                                               *)
  lock,            (* lock[t][l] \in {"none", "null", "set"}               *)
  at,              (* [call, slot]                                         *)
  readers          (* The threads that hold the child's mutex_ to read.    *)

vars == <<alive, ptr, pending, count, lock, at, readers>>

Idle == [call |-> "idle", slot |-> "none"]

Init ==
  /\ alive = TRUE /\ ptr = TRUE /\ pending = FALSE /\ count = 0
  /\ lock = [t \in Threads |-> [l \in Locks |-> "none"]]
  /\ at = [t \in Threads |-> Idle]
  /\ readers = {}

Holds(t) == \E l \in Locks : lock[t][l] # "none"

(* What a careful program does: see Nested.                                *)
MayBlock(t) == Nested \/ ~Holds(t) \/ ~pending

Call(t, call, slot) == at' = [at EXCEPT ![t] = [call |-> call, slot |-> slot]]

-----------------------------------------------------------------------------

(* WeakPtr::Lock, and Exists, NameExists or GetPtr of the child, which     *)
(* locks the parent while it holds its own mutex_.                         *)
Lock(t, l) ==
  /\ at[t] = Idle /\ lock[t][l] = "none" /\ MayBlock(t)
  /\ Call(t, "lock", l)
  /\ UNCHANGED <<alive, ptr, pending, count, lock, readers>>

Lookup(t, l) ==
  /\ at[t] = Idle /\ lock[t][l] = "none" /\ MayBlock(t)
  /\ Call(t, "lookup", l)
  /\ readers' = readers \cup {t}
  /\ UNCHANGED <<alive, ptr, pending, count, lock>>

(* Mutant: a lock does not wait for an invalidation that has begun.        *)
ReaderLockAlways(t) ==
  /\ at[t].call \in {"lock", "lookup"}
  /\ count' = count + 1
  /\ lock' = [lock EXCEPT ![t][at[t].slot] = IF ptr THEN "set" ELSE "null"]
  /\ at' = [at EXCEPT ![t] = Idle]
  /\ readers' = readers \ {t}
  /\ UNCHANGED <<alive, ptr, pending>>

(* ReaderLock and the constructor of a WeakLock.                           *)
ReaderLock(t) ==
  /\ at[t].call \in {"lock", "lookup"}
  /\ ~pending
  /\ count' = count + 1
  /\ lock' = [lock EXCEPT ![t][at[t].slot] = IF ptr THEN "set" ELSE "null"]
  /\ at' = [at EXCEPT ![t] = Idle]
  /\ readers' = readers \ {t}
  /\ UNCHANGED <<alive, ptr, pending>>

(* The copy constructor and the copy assignment: what the target holds is  *)
(* unlocked, then the copy is locked.                                      *)
Copy(t, from, to) ==
  /\ at[t] = Idle /\ from # to /\ lock[t][from] # "none" /\ MayBlock(t)
  /\ count' = count - (IF lock[t][to] = "none" THEN 0 ELSE 1)
  /\ lock' = [lock EXCEPT ![t][to] = "none"]
  /\ at' = [at EXCEPT ![t] = [call |-> "copy", slot |-> <<from, to>>]]
  /\ UNCHANGED <<alive, ptr, pending, readers>>

CopyLocks(t) ==
  /\ at[t].call = "copy" /\ ~pending
  /\ count' = count + 1
  /\ lock' = [lock EXCEPT ![t][at[t].slot[2]] = lock[t][at[t].slot[1]]]
  /\ at' = [at EXCEPT ![t] = Idle]
  /\ UNCHANGED <<alive, ptr, pending, readers>>

(* Mutant: the lock a move assigns over is not unlocked.                   *)
ForgetsLock(t, to) == count

CountOver(t, to) == count - (IF lock[t][to] = "none" THEN 0 ELSE 1)

(* The move constructor and the move assignment.                           *)
Move(t, from, to) ==
  /\ at[t] = Idle /\ from # to /\ lock[t][from] # "none"
  /\ count' = CountOver(t, to)
  /\ lock' = [lock EXCEPT ![t][to] = lock[t][from], ![t][from] = "none"]
  /\ UNCHANGED <<alive, ptr, pending, at, readers>>

(* ReaderUnlock, by the destructor.                                        *)
Unlock(t, l) ==
  /\ at[t] = Idle /\ lock[t][l] # "none"
  /\ count' = count - 1
  /\ lock' = [lock EXCEPT ![t][l] = "none"]
  /\ UNCHANGED <<alive, ptr, pending, at, readers>>

(* A Set method of the child waits for those who read it.                  *)
Write(t) ==
  /\ at[t] = Idle /\ MayBlock(t)
  /\ Call(t, "write", "none")
  /\ UNCHANGED <<alive, ptr, pending, count, lock, readers>>

WriterLock(t) ==
  /\ at[t].call = "write" /\ readers = {}
  /\ at' = [at EXCEPT ![t] = Idle]
  /\ UNCHANGED <<alive, ptr, pending, count, lock, readers>>

-----------------------------------------------------------------------------
(* InvalidateWeakPtrs, and the destruction that follows.                   *)

Clear ==
  /\ ptr /\ ~pending
  /\ Nested \/ \A t \in Threads : Holds(t) => at[t] = Idle
  /\ pending' = TRUE
  /\ UNCHANGED <<alive, ptr, count, lock, at, readers>>

(* Mutant: the pointer is cleared without waiting for the locks.           *)
ClearsAtOnce ==
  /\ pending
  /\ ptr' = FALSE /\ pending' = FALSE
  /\ UNCHANGED <<alive, count, lock, at, readers>>

Cleared ==
  /\ pending /\ count = 0
  /\ ptr' = FALSE /\ pending' = FALSE
  /\ UNCHANGED <<alive, count, lock, at, readers>>

Destroy ==
  /\ alive /\ ~ptr
  /\ alive' = FALSE
  /\ UNCHANGED <<ptr, pending, count, lock, at, readers>>

Release(t) == \E l \in Locks : Unlock(t, l)

Next ==
  \/ \E t \in Threads :
       \/ \E l \in Locks : Lock(t, l) \/ Lookup(t, l)
       \/ ReaderLock(t) \/ CopyLocks(t) \/ Write(t) \/ WriterLock(t) \/ Release(t)
       \/ \E from, to \in Locks : Copy(t, from, to) \/ Move(t, from, to)
  \/ Clear \/ Cleared \/ Destroy

Spec == Init /\ [][Next]_vars

(* The mutex lets a waiting thread in, in the end; a thread gives up its   *)
(* locks, which it may stop moving about.                                  *)
Fairness ==
  /\ WF_vars(Cleared)
  /\ \A t \in Threads :
       /\ WF_vars(ReaderLock(t)) /\ WF_vars(CopyLocks(t))
       /\ SF_vars(WriterLock(t)) /\ SF_vars(Release(t))

FairSpec == Spec /\ Fairness

-----------------------------------------------------------------------------
(* Whatever locks are copied, moved and assigned over: what a lock points  *)
(* to exists, and the locks counted are those there are.                   *)
LocksProtect ==
  /\ \A t \in Threads, l \in Locks : lock[t][l] = "set" => alive
  /\ count = Cardinality({p \in Threads \X Locks : lock[p[1]][p[2]] # "none"})

(* InvalidateWeakPtrs returns once the locks there were are given up, and  *)
(* so does every call that locks.                                          *)
InvalidateReturns ==
  /\ pending ~> ~pending
  /\ \A t \in Threads : at[t] # Idle ~> at[t] = Idle
=============================================================================
