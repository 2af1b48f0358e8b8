--------------------------- MODULE FutexMutexProofs ---------------------------
(***************************************************************************)
(* What the futex lock guarantees for every set of threads.                *)
(***************************************************************************)
EXTENDS FutexMutex, TLAPS

(* The lock word and the threads' stages keep their types.                 *)
THEOREM TypeCorrect == Spec => []TypeOK
<1>1. Init => TypeOK
  BY DEF Init, TypeOK, Stages
<1>2. TypeOK /\ [Next]_vars => TypeOK'
  <2> SUFFICES ASSUME TypeOK, [Next]_vars PROVE TypeOK'
    OBVIOUS
  <2> USE DEF TypeOK, Stages, Goto
  <2>1. ASSUME NEW p \in Procs, LockFast(p) PROVE TypeOK'
    BY <2>1 DEF LockFast
  <2>2. ASSUME NEW p \in Procs, LockSlow(p) PROVE TypeOK'
    BY <2>2 DEF LockSlow
  <2>3. ASSUME NEW p \in Procs, SpuriousWake(p) PROVE TypeOK'
    BY <2>3 DEF SpuriousWake
  <2>4. ASSUME NEW p \in Procs, Swap(p) PROVE TypeOK'
    BY <2>4 DEF Swap
  <2>5. ASSUME NEW p \in Procs, FutexWait(p) PROVE TypeOK'
    BY <2>5 DEF FutexWait
  <2>6. ASSUME NEW p \in Procs, Unlock(p) PROVE TypeOK'
    BY <2>6 DEF Unlock
  <2>7. ASSUME NEW p \in Procs, Wake(p) PROVE TypeOK'
    BY <2>7 DEF Wake, Asleep
  <2>8. CASE UNCHANGED vars
    BY <2>8 DEF vars
  <2> QED
    BY <2>1, <2>2, <2>3, <2>4, <2>5, <2>6, <2>7, <2>8 DEF Next, Step
<1> QED
  BY <1>1, <1>2, PTL DEF Spec

(* At most one guard exists, and the lock word is 0 exactly when none      *)
(* does.  The second conjunct of MutualExclusion is what makes the first   *)
(* inductive: a swap or compare_exchange that finds 0 finds nobody inside. *)
THEOREM MutualExclusionHolds == Spec => []MutualExclusion
<1>1. Init => MutualExclusion
  BY DEF Init, MutualExclusion
<1>2. TypeOK /\ MutualExclusion /\ [Next]_vars => MutualExclusion'
  <2> SUFFICES ASSUME TypeOK, MutualExclusion, [Next]_vars
               PROVE  MutualExclusion'
    OBVIOUS
  <2> USE DEF TypeOK, Stages, MutualExclusion, Goto
  <2>1. ASSUME NEW p \in Procs, LockFast(p) PROVE MutualExclusion'
    BY <2>1 DEF LockFast
  <2>2. ASSUME NEW p \in Procs, LockSlow(p) PROVE MutualExclusion'
    BY <2>2 DEF LockSlow
  <2>3. ASSUME NEW p \in Procs, SpuriousWake(p) PROVE MutualExclusion'
    BY <2>3 DEF SpuriousWake
  <2>4. ASSUME NEW p \in Procs, Swap(p) PROVE MutualExclusion'
    BY <2>4 DEF Swap
  <2>5. ASSUME NEW p \in Procs, FutexWait(p) PROVE MutualExclusion'
    BY <2>5 DEF FutexWait
  <2>6. ASSUME NEW p \in Procs, Unlock(p) PROVE MutualExclusion'
    BY <2>6 DEF Unlock
  <2>7. ASSUME NEW p \in Procs, Wake(p) PROVE MutualExclusion'
    BY <2>7 DEF Wake, Asleep
  <2>8. CASE UNCHANGED vars
    BY <2>8 DEF vars
  <2> QED
    BY <2>1, <2>2, <2>3, <2>4, <2>5, <2>6, <2>7, <2>8 DEF Next, Step
<1> QED
  BY <1>1, <1>2, TypeCorrect, PTL DEF Spec

(* No sleeper is ever forgotten by the protocol of lock and drop.          *)
THEOREM NoLostWakeupHolds == Spec => []NoLostWakeup
<1>1. Init => NoLostWakeup
  BY DEF Init, NoLostWakeup, Asleep
<1>2. TypeOK /\ MutualExclusion /\ NoLostWakeup /\ [Next]_vars
        => NoLostWakeup'
  <2> SUFFICES ASSUME TypeOK, MutualExclusion, NoLostWakeup, [Next]_vars
               PROVE  NoLostWakeup'
    OBVIOUS
  <2> USE DEF TypeOK, Stages, NoLostWakeup, Asleep, Goto
  <2>1. ASSUME NEW p \in Procs, LockFast(p) PROVE NoLostWakeup'
    BY <2>1 DEF LockFast
  <2>2. ASSUME NEW p \in Procs, LockSlow(p) PROVE NoLostWakeup'
    BY <2>2 DEF LockSlow
  <2>3. ASSUME NEW p \in Procs, SpuriousWake(p) PROVE NoLostWakeup'
    BY <2>3 DEF SpuriousWake
  <2>4. ASSUME NEW p \in Procs, Swap(p) PROVE NoLostWakeup'
    BY <2>4 DEF Swap
  <2>5. ASSUME NEW p \in Procs, FutexWait(p) PROVE NoLostWakeup'
    BY <2>5 DEF FutexWait
  <2>6. ASSUME NEW p \in Procs, Unlock(p) PROVE NoLostWakeup'
    BY <2>6 DEF Unlock
  <2>7. ASSUME NEW p \in Procs, Wake(p) PROVE NoLostWakeup'
    BY <2>7 DEF Wake
  <2>8. CASE UNCHANGED vars
    BY <2>8 DEF vars
  <2> QED
    BY <2>1, <2>2, <2>3, <2>4, <2>5, <2>6, <2>7, <2>8 DEF Next, Step
<1> QED
  BY <1>1, <1>2, TypeCorrect, MutualExclusionHolds, PTL DEF Spec

(* The futex protocol implements the abstract lock: LockFast and a Swap    *)
(* that finds 0 acquire, Unlock releases, every other step stutters.       *)
THEOREM Refinement == Spec => ImplementsMutex
<1>1. Init => Lock!Init
  BY DEF Init, Lock!Init
<1>2. TypeOK /\ MutualExclusion /\ [Next]_vars
        => [Lock!Next]_({p \in Procs : pc[p] = "critical"})
  <2> DEFINE H == {p \in Procs : pc[p] = "critical"}
  <2> SUFFICES ASSUME TypeOK, MutualExclusion, [Next]_vars
               PROVE  Lock!Next \/ H' = H
    OBVIOUS
  <2> USE DEF TypeOK, Stages, Goto
  <2>1. ASSUME NEW p \in Procs, pc[p] # "critical", H = {},
               pc' = [pc EXCEPT ![p] = "critical"]
        PROVE  Lock!Next
    <3>1. H' = {p}
      BY <2>1
    <3> QED
      BY <2>1, <3>1 DEF Lock!Next, Lock!Acquire
  <2>2. ASSUME NEW p \in Procs, LockFast(p) PROVE Lock!Next
    BY <2>1, <2>2 DEF LockFast, MutualExclusion
  <2>3. ASSUME NEW p \in Procs, LockSlow(p) PROVE H' = H
    BY <2>3 DEF LockSlow
  <2>4. ASSUME NEW p \in Procs, SpuriousWake(p) PROVE H' = H
    BY <2>4 DEF SpuriousWake
  <2>5. ASSUME NEW p \in Procs, Swap(p) PROVE Lock!Next \/ H' = H
    <3>1. CASE futex = 0
      BY <2>1, <2>5, <3>1 DEF Swap, MutualExclusion
    <3>2. CASE futex # 0
      BY <2>5, <3>2 DEF Swap
    <3> QED
      BY <3>1, <3>2
  <2>6. ASSUME NEW p \in Procs, FutexWait(p) PROVE H' = H
    BY <2>6 DEF FutexWait
  <2>7. ASSUME NEW p \in Procs, Unlock(p) PROVE Lock!Next
    <3>1. H = {p}
      BY <2>7 DEF Unlock, MutualExclusion
    <3>2. H' = {}
      BY <2>7, <3>1 DEF Unlock
    <3> QED
      BY <3>1, <3>2 DEF Lock!Next, Lock!Release
  <2>8. ASSUME NEW p \in Procs, Wake(p) PROVE H' = H
    BY <2>8 DEF Wake, Asleep
  <2>9. CASE UNCHANGED vars
    BY <2>9 DEF vars
  <2> QED
    BY <2>2, <2>3, <2>4, <2>5, <2>6, <2>7, <2>8, <2>9 DEF Next, Step
<1> QED
  BY <1>1, <1>2, TypeCorrect, MutualExclusionHolds, PTL
  DEF Spec, ImplementsMutex, Lock!Spec
==============================================================================
