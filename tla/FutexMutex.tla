----------------------------- MODULE FutexMutex ------------------------------
(***************************************************************************)
(* The lock of one half of the shared header: ShmemFutexControl::lock, the *)
(* Drop of its guard, futex_wait and futex_wake                            *)
(* (src/src/control/shmem_futex.rs).  The lock word is 0 when free, 1 when *)
(* held, 2 when held and perhaps contended.  Each atomic access to the     *)
(* word and each system call is a step of its own.                         *)
(***************************************************************************)
EXTENDS Integers

CONSTANTS
  Procs,        \* the threads, of any process, that share the header
  Spurious      \* may futex_wait return without a wake (a signal)?

ASSUME SpuriousAssumption == Spurious \in BOOLEAN

VARIABLES
  futex,        \* Half::lock
  pc            \* where each thread is

vars == <<futex, pc>>

Stages == {"idle", "swap", "futexWait", "asleep", "critical", "wake"}

TypeOK ==
  /\ futex \in {0, 1, 2}
  /\ pc \in [Procs -> Stages]

Init ==
  /\ futex = 0
  /\ pc = [p \in Procs |-> "idle"]

Asleep == {p \in Procs : pc[p] = "asleep"}

Goto(p, stage) == pc' = [pc EXCEPT ![p] = stage]

-----------------------------------------------------------------------------
(* lock: the uncontended path and its failure. *)

\* compare_exchange(0, 1) succeeds.
LockFast(p) ==
  /\ pc[p] = "idle"
  /\ futex = 0
  /\ futex' = 1
  /\ Goto(p, "critical")

\* compare_exchange(0, 1) fails: enter the loop.
LockSlow(p) ==
  /\ pc[p] = "idle"
  /\ futex # 0
  /\ Goto(p, "swap")
  /\ UNCHANGED futex

\* A faulty loop that also stops on the uncontended mark.
MutSwapTest(p) ==
  /\ pc[p] = "swap"
  /\ futex' = 2
  /\ Goto(p, IF futex = 2 THEN "futexWait" ELSE "critical")

\* swap(2): the lock is ours if it was free, and is marked contended anyway.
Swap(p) ==
  /\ pc[p] = "swap"
  /\ futex' = 2
  /\ Goto(p, IF futex = 0 THEN "critical" ELSE "futexWait")

\* A faulty `if` in place of the loop: no second swap after futex_wait.
MutFutexWait(p) ==
  /\ pc[p] = "futexWait"
  /\ Goto(p, IF futex = 2 THEN "asleep" ELSE "critical")
  /\ UNCHANGED futex

\* futex_wait(futex, 2): the kernel compares and queues in one step.
FutexWait(p) ==
  /\ pc[p] = "futexWait"
  /\ Goto(p, IF futex = 2 THEN "asleep" ELSE "swap")
  /\ UNCHANGED futex

\* futex_wait returns although nobody called futex_wake.
SpuriousWake(p) ==
  /\ Spurious
  /\ pc[p] = "asleep"
  /\ Goto(p, "swap")
  /\ UNCHANGED futex

-----------------------------------------------------------------------------
(* Dropping the guard. *)

\* A faulty drop that wakes when the word was 1 instead of 2.
MutUnlock(p) ==
  /\ pc[p] = "critical"
  /\ futex' = 0
  /\ Goto(p, IF futex = 1 THEN "wake" ELSE "idle")

\* swap(0): the lock is free; a contended word obliges the caller to wake.
Unlock(p) ==
  /\ pc[p] = "critical"
  /\ futex' = 0
  /\ Goto(p, IF futex = 2 THEN "wake" ELSE "idle")

\* A faulty wake that reaches nobody.
MutWake(p) ==
  /\ pc[p] = "wake"
  /\ Goto(p, "idle")
  /\ UNCHANGED futex

\* futex_wake(futex, 1): one sleeper, if there is any, goes back to its swap.
Wake(p) ==
  /\ pc[p] = "wake"
  /\ \/ Asleep = {} /\ Goto(p, "idle")
     \/ \E q \in Asleep : pc' = [pc EXCEPT ![p] = "idle", ![q] = "swap"]
  /\ UNCHANGED futex

-----------------------------------------------------------------------------
Step(p) == Swap(p) \/ FutexWait(p) \/ Unlock(p) \/ Wake(p)

Next == \E p \in Procs :
  LockFast(p) \/ LockSlow(p) \/ SpuriousWake(p) \/ Step(p)

Spec == Init /\ [][Next]_vars

(***************************************************************************)
(* Fairness: a thread inside lock or drop that can run is run eventually,  *)
(* and guards are dropped.  Nobody is obliged to call lock.                *)
(***************************************************************************)
FairSpec == Spec /\ \A p \in Procs : WF_vars(Step(p))

-----------------------------------------------------------------------------
(* Properties. *)

(* At most one thread holds the guard, and the lock word is 0 exactly when *)
(* nobody does: the word cannot be freed under a holder or leak.           *)
MutualExclusion ==
  /\ \A p, q \in Procs :
       pc[p] = "critical" /\ pc[q] = "critical" => p = q
  /\ futex = 0 <=> \A p \in Procs : pc[p] # "critical"

(* No sleeper is forgotten: while a thread sleeps in futex_wait, the word  *)
(* still says 2 (so the next drop wakes), or a wake is under way, or       *)
(* another thread is about to mark the word contended.                     *)
NoLostWakeup ==
  Asleep # {} =>
    \/ futex = 2
    \/ \E p \in Procs : pc[p] \in {"wake", "swap"}

Waiting(p) == pc[p] \in {"swap", "futexWait", "asleep"}

(* A lock that was dropped while threads were queued for it is taken       *)
(* again; the code does not promise which of them gets it.                 *)
ReleasedLockIsTaken ==
  (futex = 0 /\ \E p \in Procs : Waiting(p)) ~> futex # 0

\* The abstract lock that this one implements.
Lock == INSTANCE Mutex WITH holders <- {p \in Procs : pc[p] = "critical"}

(* Every step of the futex protocol is an acquisition, a release or a      *)
(* stutter of the abstract lock.                                           *)
ImplementsMutex == Lock!Spec
==============================================================================
