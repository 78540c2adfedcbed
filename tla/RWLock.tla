------------------------------- MODULE RWLock -------------------------------
(***************************************************************************)
(* The spinning reader-writer lock of rwlock.h, one step for every access  *)
(* to lock->write or lock->read.  It guards the handle table.  Memory is   *)
(* sequentially consistent: each access is a __sync builtin or stands next *)
(* to one.                                                                 *)
(***************************************************************************)
EXTENDS Integers, FiniteSets

CONSTANT Thread

ASSUME ThreadAssumption == IsFiniteSet(Thread)

VARIABLES
    write,      \* lock->write
    read,       \* lock->read
    pc          \* thread -> where it is

lock_vars == <<write, read, pc>>

Label == {"idle",
          "r_spin",     \* rwlock_rlock: while (lock->write)
          "r_add",      \* __sync_add_and_fetch(&lock->read, 1)
          "r_check",    \* if (lock->write)
          "r_undo",     \* __sync_sub_and_fetch(&lock->read, 1), try again
          "reading",
          "w_tas",      \* rwlock_wlock: while (test_and_set(&lock->write, 1))
          "w_drain",    \* while (lock->read)
          "writing"}

LockTypeOK ==
    /\ write \in {0, 1}
    /\ read \in Nat
    /\ pc \in [Thread -> Label]

rwlock_init ==
    /\ write = 0
    /\ read = 0
    /\ pc = [t \in Thread |-> "idle"]

Move(t, from, to) == pc[t] = from /\ pc' = [pc EXCEPT ![t] = to]

WantRead(t) == Move(t, "idle", "r_spin") /\ UNCHANGED <<write, read>>

\* mutant: a reader tries again without waiting for the flag
RSpinNot(t) == Move(t, "r_spin", "r_add") /\ UNCHANGED <<write, read>>

RSpin(t) == write = 0 /\ Move(t, "r_spin", "r_add") /\ UNCHANGED <<write, read>>

RAdd(t) == Move(t, "r_add", "r_check") /\ read' = read + 1 /\ UNCHANGED write

\* mutant: the flag is not looked at again
RCheckNot(t) == Move(t, "r_check", "reading") /\ UNCHANGED <<write, read>>

RCheck(t) ==
    /\ \/ write = 0 /\ Move(t, "r_check", "reading")
       \/ write = 1 /\ Move(t, "r_check", "r_undo")
    /\ UNCHANGED <<write, read>>

RUndo(t) == Move(t, "r_undo", "r_spin") /\ read' = read - 1 /\ UNCHANGED write

rwlock_runlock(t) == Move(t, "reading", "idle") /\ read' = read - 1 /\ UNCHANGED write

WantWrite(t) == Move(t, "idle", "w_tas") /\ UNCHANGED <<write, read>>

(* The test and set succeeds; a failing one changes nothing.               *)
WTas(t) == write = 0 /\ Move(t, "w_tas", "w_drain") /\ write' = 1 /\ UNCHANGED read

WDrain(t) == read = 0 /\ Move(t, "w_drain", "writing") /\ UNCHANGED <<write, read>>

rwlock_wunlock(t) == Move(t, "writing", "idle") /\ write' = 0 /\ UNCHANGED read

(* A thread that is inside goes on, and comes out.                         *)
Step(t) == \/ RSpin(t) \/ RAdd(t) \/ RCheck(t) \/ RUndo(t) \/ rwlock_runlock(t)
           \/ WTas(t) \/ WDrain(t) \/ rwlock_wunlock(t)

LockNext == \E t \in Thread : WantRead(t) \/ WantWrite(t) \/ Step(t)

LockSpec == rwlock_init /\ [][LockNext]_lock_vars

(* Every thread runs, and no critical section is left locked.              *)
FairSpec == LockSpec /\ \A t \in Thread : WF_lock_vars(Step(t))

-----------------------------------------------------------------------------
(* A writer is alone (rwlock_wlock against rwlock_rlock and itself).       *)
Exclusion == \A t, u \in Thread :
    t # u /\ pc[t] = "writing" => pc[u] \notin {"reading", "writing"}

(* read counts the threads between their increment and their decrement, so *)
(* it is never negative and is 0 when no reader is inside.                 *)
CountIsReaders ==
    read = Cardinality({t \in Thread : pc[t] \in {"r_check", "r_undo", "reading"}})

(* Readers that arrive late cannot keep out a writer that has set the flag *)
(* (each of them raises the count at most once more).                      *)
WriterEnters == \A t \in Thread : pc[t] = "w_drain" ~> pc[t] = "writing"
=============================================================================
