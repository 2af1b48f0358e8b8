------------------------ MODULE ShmemFutexQueueProofs ------------------------
(***************************************************************************)
(* Proofs about ShmemFutexQueue, for any threads, sizes and payload        *)
(* lengths, with and without a store buffer, as long as twice the queue    *)
(* size fits in a u32 (NoOverflow).  What holds of the ring whatever       *)
(* control it is used with comes from MemeQueueProofs; here are the steps  *)
(* of wait and notify, the count of the waiters, and why no sender is left *)
(* asleep.                                                                 *)
(***************************************************************************)
EXTENDS ShmemFutexQueue, FifoQueueProofs, FiniteSetTheorems

USE LayoutAssumption, ProcsAssumption
USE DEF WaitStages, NotifyStages

IInv ==
  /\ TypeOK
  /\ RingInv
  /\ WaitersCounted

Queued == {"futexWait", "asleep", "leave"}

-----------------------------------------------------------------------------
(* The count of the waiters.                                               *)

(* A step that neither counts nor queues anybody leaves the count right.   *)
LEMMA CountUnchanged ==
  ASSUME WaitersCounted, UNCHANGED waiters,
         \A p \in Procs : pc'[p] \in Queued <=> pc[p] \in Queued
  PROVE  WaitersCounted'
<1> SUFFICES ASSUME NEW s \in Side
             PROVE  waiters'[s] = Cardinality({p \in Procs :
                      WaitSide(p) = s /\ pc'[p] \in Queued})
  BY DEF WaitersCounted, Queued, WaitSide
<1>1. {p \in Procs : WaitSide(p) = s /\ pc'[p] \in Queued}
      = {p \in Procs : WaitSide(p) = s /\ pc[p] \in Queued}
  OBVIOUS
<1> QED
  BY <1>1 DEF WaitersCounted, Queued

(* Who is queued on a side.                                                *)
QueuedOn(s) == {q \in Procs : WaitSide(q) = s /\ pc[q] \in Queued}

LEMMA CountedOnSide ==
  WaitersCounted <=> \A s \in Side : waiters[s] = Cardinality(QueuedOn(s))
BY DEF WaitersCounted, QueuedOn, Queued

(* The type invariant follows the ring's, except for the stages.           *)
LEMMA Stays ==
  ASSUME RingInv', pc' \in [Procs -> Stages \cup FutexStages], WaitersCounted'
  PROVE  IInv'
BY DEF IInv, TypeOK, RingInv, RingTyped

-----------------------------------------------------------------------------
(* Every action preserves the invariant.                                   *)

LEMMA InitIInv ==
  ASSUME NoOverflow, Init
  PROVE  IInv
<1> USE DEF Init, QueueInit
<1>1. RingInv
  BY InitRing
<1>2. TypeOK
  BY <1>1 DEF RingInv, RingTyped, TypeOK, Stages
<1>3. WaitersCounted
  <2> SUFFICES ASSUME NEW s \in Side
               PROVE  waiters[s] = Cardinality({p \in Procs :
                        WaitSide(p) = s /\ pc[p] \in Queued})
    BY DEF WaitersCounted, Queued
  <2>1. {p \in Procs : WaitSide(p) = s /\ pc[p] \in Queued} = {}
    BY DEF Queued
  <2> QED
    BY <2>1, FS_EmptySet
<1> QED
  BY <1>1, <1>2, <1>3 DEF IInv

LEMMA QueueIInv ==
  ASSUME NoOverflow, IInv, QueueNext
  PROVE  IInv'
<1>1. RingInv'
  BY QueueRing DEF IInv
<1>2. /\ UNCHANGED waiters
      /\ \A p \in Procs :
           \/ pc'[p] = pc[p]
           \/ pc[p] \notin Elsewhere /\ pc'[p] \in Stages
      /\ pc' \in [Procs -> AllStages]
  BY QueueStages DEF IInv, RingInv, RingTyped
<1>3. pc' \in [Procs -> Stages \cup FutexStages]
  BY <1>2 DEF IInv, TypeOK
<1>4. WaitersCounted'
  <2>1. \A p \in Procs : pc'[p] \in Queued <=> pc[p] \in Queued
    BY <1>2 DEF Queued, Elsewhere, Stages
  <2> QED
    BY <1>2, <2>1, CountUnchanged DEF IInv
<1> QED
  BY <1>1, <1>3, <1>4, Stays

(* What a step of wait or notify by p keeps, unless it drains.             *)
LEMMA StepOfWaiting ==
  ASSUME NoOverflow, IInv, NEW p \in Procs, NEW stage,
         UNCHANGED <<offset, buffered, unchangedByWaiting>>,
         Goto(p, stage), waiters' \in [Side -> Nat],
         \/ pc[p] \in Queued \cup {"wait"} /\ stage \in Queued
         \/ /\ pc[p] \in {"wait", "leave"}
            /\ stage = (IF p \in Writers THEN "write" ELSE "idle")
         \/ /\ pc[p] = "notify"
            /\ stage \in {"wake", Finished(p)},
         seen' = seen \/ seen' = [seen EXCEPT ![p] = 0]
  PROVE  /\ pc' \in [Procs -> Stages \cup FutexStages]
         /\ RingInv'
<1>1. stage \in AllStages /\ stage \in Stages \cup FutexStages
  BY DEF AllStages, Stages, FutexStages, Finished, Queued
<1>2. UNCHANGED WaitKeeps
  BY DEF WaitKeeps, unchangedByWaiting, ring
<1>3. p \in Writers =>
        \/ pc[p] \in WaitStages /\ stage \in WaitStages \cup {"write"}
        \/ pc[p] \in NotifyStages /\ stage \in NotifyStages \cup {"unlock"}
  BY DEF Finished, Queued
<1>4. p \in Readers =>
        /\ pc[p] \in WaitStages \cup NotifyStages
        /\ stage \in WaitStages \cup NotifyStages \cup {"idle", "dead"}
  BY DEF Finished, Queued
<1>5. seen' \in {seen, [seen EXCEPT ![p] = 0]}
  OBVIOUS
<1>6. RingInv'
  BY <1>1, <1>2, <1>3, <1>4, <1>5, WaitingRing DEF IInv
<1>7. pc' \in [Procs -> Stages \cup FutexStages]
  BY <1>1 DEF Goto, IInv, TypeOK
<1> QED
  BY <1>6, <1>7

LEMMA SpinSeesIInv ==
  ASSUME NoOverflow, IInv, NEW p \in Procs, SpinSees(p)
  PROVE  IInv'
<1>1. /\ UNCHANGED <<offset, buffered, unchangedByWaiting>>
      /\ UNCHANGED waiters
  BY DEF SpinSees
<1>2. /\ pc[p] = "wait"
      /\ Goto(p, IF p \in Writers THEN "write" ELSE "idle")
      /\ seen' = [seen EXCEPT ![p] = 0]
      /\ waiters' \in [Side -> Nat]
  BY DEF SpinSees, Resume, IInv, TypeOK, QueueTypeOK
<1>3. pc' \in [Procs -> Stages \cup FutexStages] /\ RingInv'
  BY <1>1, <1>2, StepOfWaiting
<1>4. WaitersCounted'
  BY <1>1, <1>2, CountUnchanged DEF IInv, TypeOK, Queued, Goto
<1> QED
  BY <1>3, <1>4, Stays

(* p announces itself: one more on its side.                               *)
LEMMA WaitEnterIInv ==
  ASSUME NoOverflow, IInv, NEW p \in Procs, WaitEnter(p)
  PROVE  IInv'
<1>1. UNCHANGED <<offset, buffered, unchangedByWaiting>> /\ UNCHANGED seen
  BY DEF WaitEnter
<1>2. /\ pc[p] = "wait"
      /\ Goto(p, "futexWait")
      /\ waiters' = [waiters EXCEPT ![WaitSide(p)] = @ + 1]
  BY DEF WaitEnter
<1>3. waiters' \in [Side -> Nat]
  BY <1>2 DEF IInv, TypeOK, QueueTypeOK, WaitSide, Side
<1>4. pc' \in [Procs -> Stages \cup FutexStages] /\ RingInv'
  BY <1>1, <1>2, <1>3, StepOfWaiting DEF Queued
<1>5. WaitersCounted'
  <2> SUFFICES ASSUME NEW s \in Side
               PROVE  waiters'[s] = Cardinality(QueuedOn(s)')
    BY DEF WaitersCounted, QueuedOn, Queued
  <2>1. waiters[s] = Cardinality(QueuedOn(s))
    BY CountedOnSide DEF IInv
  <2>2. pc'[p] = "futexWait" /\ \A q \in Procs \ {p} : pc'[q] = pc[q]
    BY <1>2 DEF IInv, TypeOK, Goto
  <2>3. CASE s = WaitSide(p)
    <3>1. QueuedOn(s)' = QueuedOn(s) \cup {p} /\ p \notin QueuedOn(s)
      BY <1>2, <2>2, <2>3 DEF QueuedOn, Queued, WaitSide
    <3>2. IsFiniteSet(QueuedOn(s))
      BY FiniteAssumption, FS_Subset DEF QueuedOn
    <3>3. Cardinality(QueuedOn(s)') = Cardinality(QueuedOn(s)) + 1
      BY <3>1, <3>2, FS_AddElement
    <3> QED
      BY <1>2, <2>1, <2>3, <3>3 DEF IInv, TypeOK, QueueTypeOK
  <2>4. CASE s # WaitSide(p)
    <3>1. QueuedOn(s)' = QueuedOn(s)
      BY <2>2, <2>4 DEF QueuedOn, WaitSide
    <3> QED
      BY <1>2, <2>1, <2>4, <3>1 DEF IInv, TypeOK, QueueTypeOK
  <2> QED
    BY <2>3, <2>4
<1> QED
  BY <1>4, <1>5, Stays

LEMMA FutexWaitIInv ==
  ASSUME NoOverflow, IInv, NEW p \in Procs, FutexWait(p) \/ SpuriousWake(p)
  PROVE  IInv'
<1>1. /\ UNCHANGED <<offset, buffered, unchangedByWaiting>>
      /\ UNCHANGED <<waiters, seen>>
  BY DEF FutexWait, SpuriousWake
<1>2. /\ pc[p] \in {"futexWait", "asleep"}
      /\ \E stage \in {"asleep", "leave"} : Goto(p, stage)
      /\ waiters' \in [Side -> Nat]
  BY DEF FutexWait, SpuriousWake, IInv, TypeOK, QueueTypeOK
<1>3. pc' \in [Procs -> Stages \cup FutexStages] /\ RingInv'
  BY <1>1, <1>2, StepOfWaiting DEF Queued
<1>4. WaitersCounted'
  BY <1>1, <1>2, CountUnchanged DEF IInv, TypeOK, Queued, Goto
<1> QED
  BY <1>3, <1>4, Stays

(* p leaves: one less on its side.                                         *)
LEMMA WaitLeaveIInv ==
  ASSUME NoOverflow, IInv, NEW p \in Procs, WaitLeave(p)
  PROVE  IInv'
<1>1. UNCHANGED <<offset, buffered, unchangedByWaiting>>
  BY DEF WaitLeave
<1>2. /\ pc[p] = "leave"
      /\ Goto(p, IF p \in Writers THEN "write" ELSE "idle")
      /\ seen' = [seen EXCEPT ![p] = 0]
      /\ waiters' = [waiters EXCEPT ![WaitSide(p)] = @ - 1]
  BY DEF WaitLeave, Resume
<1>5. \A s \in Side : /\ waiters'[s] = Cardinality(QueuedOn(s)')
                      /\ waiters'[s] \in Nat
  <2> SUFFICES ASSUME NEW s \in Side
               PROVE  /\ waiters'[s] = Cardinality(QueuedOn(s)')
                      /\ waiters'[s] \in Nat
    OBVIOUS
  <2>1. waiters[s] = Cardinality(QueuedOn(s)) /\ waiters[s] \in Nat
    BY CountedOnSide DEF IInv, TypeOK, QueueTypeOK
  <2>2. pc'[p] \notin Queued /\ \A q \in Procs \ {p} : pc'[q] = pc[q]
    BY <1>2 DEF IInv, TypeOK, Goto, Queued
  <2>3. CASE s = WaitSide(p)
    <3>1. QueuedOn(s)' = QueuedOn(s) \ {p} /\ p \in QueuedOn(s)
      BY <1>2, <2>2, <2>3 DEF QueuedOn, Queued, WaitSide
    <3>2. IsFiniteSet(QueuedOn(s))
      BY FiniteAssumption, FS_Subset DEF QueuedOn
    <3>3. /\ Cardinality(QueuedOn(s)') = Cardinality(QueuedOn(s)) - 1
          /\ Cardinality(QueuedOn(s)') \in Nat
      BY <3>1, <3>2, FS_RemoveElement, FS_CardinalityType
    <3> QED
      BY <1>2, <2>1, <2>3, <3>3 DEF IInv, TypeOK, QueueTypeOK
  <2>4. CASE s # WaitSide(p)
    <3>1. QueuedOn(s)' = QueuedOn(s)
      BY <2>2, <2>4 DEF QueuedOn, WaitSide
    <3> QED
      BY <1>2, <2>1, <2>4, <3>1 DEF IInv, TypeOK, QueueTypeOK
  <2> QED
    BY <2>3, <2>4
<1>4. waiters' \in [Side -> Nat]
  BY <1>2, <1>5 DEF IInv, TypeOK, QueueTypeOK
<1>6. pc' \in [Procs -> Stages \cup FutexStages] /\ RingInv'
  BY <1>1, <1>2, <1>4, StepOfWaiting
<1>7. WaitersCounted'
  BY <1>5 DEF WaitersCounted, QueuedOn, Queued
<1> QED
  BY <1>6, <1>7, Stays

LEMMA NotifyLoadIInv ==
  ASSUME NoOverflow, IInv, NEW p \in Procs, NotifyLoad(p)
  PROVE  IInv'
<1>1. /\ UNCHANGED <<offset, buffered, unchangedByWaiting>>
      /\ UNCHANGED <<waiters, seen>>
  BY DEF NotifyLoad
<1>2. /\ pc[p] = "notify"
      /\ \E stage \in {"wake", Finished(p)} : Goto(p, stage)
      /\ waiters' \in [Side -> Nat]
  BY DEF NotifyLoad, IInv, TypeOK, QueueTypeOK
<1>3. pc' \in [Procs -> Stages \cup FutexStages] /\ RingInv'
  BY <1>1, <1>2, StepOfWaiting
<1>4. WaitersCounted'
  BY <1>1, <1>2, CountUnchanged DEF IInv, TypeOK, Queued, Goto, Finished
<1> QED
  BY <1>3, <1>4, Stays

(* Whoever is woken stays queued; a sender that makes the system call has  *)
(* its store visible.                                                      *)
LEMMA NotifyWakeIInv ==
  ASSUME NoOverflow, IInv, NEW p \in Procs, NotifyWake(p)
  PROVE  IInv'
<1> USE DEF unchangedByWaiting, writerLocals, readerLocals, history
<1>1. /\ pc[p] = "wake"
      /\ UNCHANGED <<waiters, seen, cached, lock, mem, left_offset, size,
                     right_offset, total_written, body>>
      /\ IF p \in Writers THEN Drain(p) ELSE UNCHANGED <<offset, buffered>>
  BY DEF NotifyWake
<1>2. PICK Woken \in SUBSET Procs :
        /\ \A q \in Woken : pc[q] = "asleep" /\ pc'[q] = "leave" /\ q # p
        /\ pc'[p] = Finished(p)
        /\ \A q \in Procs \ (Woken \cup {p}) : pc'[q] = pc[q]
  <2>1. CASE Goto(p, Finished(p))
    <3>1. /\ \A q \in {} : pc[q] = "asleep" /\ pc'[q] = "leave" /\ q # p
          /\ pc'[p] = Finished(p)
          /\ \A q \in Procs \ ({} \cup {p}) : pc'[q] = pc[q]
      BY <2>1 DEF Goto, IInv, TypeOK
    <3> QED
      BY <3>1
  <2>2. ASSUME NEW v \in Asleep(NotifySide(p)),
               pc' = [pc EXCEPT ![p] = Finished(p), ![v] = "leave"]
        PROVE  \E Woken \in SUBSET Procs :
                 /\ \A q \in Woken :
                      pc[q] = "asleep" /\ pc'[q] = "leave" /\ q # p
                 /\ pc'[p] = Finished(p)
                 /\ \A q \in Procs \ (Woken \cup {p}) : pc'[q] = pc[q]
    <3>1. v \in Procs /\ pc[v] = "asleep" /\ v # p
      BY <1>1 DEF Asleep
    <3>2. /\ \A q \in {v} : pc[q] = "asleep" /\ pc'[q] = "leave" /\ q # p
          /\ pc'[p] = Finished(p)
          /\ \A q \in Procs \ ({v} \cup {p}) : pc'[q] = pc[q]
      BY <2>2, <3>1 DEF IInv, TypeOK
    <3>3. {v} \in SUBSET Procs
      BY <3>1
    <3> QED
      BY <3>2, <3>3
  <2> QED
    BY <2>1, <2>2 DEF NotifyWake
<1>3. pc' \in [Procs -> Stages \cup FutexStages]
  <2>1. Finished(p) \in Stages
    BY DEF Finished, Stages
  <2> QED
    BY <2>1 DEF IInv, TypeOK, NotifyWake, Goto, FutexStages
<1>4. LocksHeld'
  BY <1>1, <1>2 DEF IInv, RingInv, LocksHeld, Procs, Outside, BeforeCommit,
     AfterCommit, Finished
<1>5. \A r \in Readers : pc'[r] = "read" => pc[r] = "read"
  BY <1>2 DEF Procs, Finished
<1>6. WaitersCounted'
  BY <1>1, <1>2, CountUnchanged DEF IInv, Queued, Finished
<1>7. RingInv'
  <2>1. pc' \in [Procs -> AllStages]
    BY <1>3 DEF Stages, FutexStages, AllStages
  <2>2. CASE p \in Writers
    <3>1. pc[p] \in AfterCommit /\ pc[p] \notin Outside
      BY <1>1 DEF AfterCommit, Outside
    <3>2. Drain(p) /\ UNCHANGED <<mem, cached, left_offset, size>>
      BY <1>1, <2>2
    <3>3. RingInv
      BY DEF IInv
    <3>4. /\ offset'["Left"] = offset["Left"]
          /\ offset' \in [Side -> Offsets]
          /\ buffered' \in [Writers -> Offsets \cup {NoStore}]
          /\ Framed'
      BY <2>2, <3>1, <3>2, <3>3, DrainLemma
    <3>5. CachesLag' /\ BufferedInv' /\ ReaderInv'
      BY <1>5, <2>2, <3>1, <3>2, <3>3, DrainKeeps
    <3>6. WriterInv'
      <4>1. \A v \in Writers \ {p} : pc'[v] \in Outside
        BY <1>2, <2>2, <3>1, <3>3, OthersOutside DEF RingInv, Procs, Outside
      <4>2. pc'[p] = "unlock"
        BY <1>2, <2>2 DEF Finished
      <4> QED
        BY <1>1, <2>2, <3>1, <3>3, <3>4, <4>1, <4>2
        DEF RingInv, WriterInv, BeforeCommit
    <3>7. RingTyped'
      BY <2>1, <3>3, <3>4 DEF NotifyWake, RingInv, RingTyped, QueueTypeOK
    <3> QED
      BY <1>4, <3>4, <3>5, <3>6, <3>7 DEF RingInv
  <2>3. CASE p \notin Writers
    <3>1. UNCHANGED <<offset, buffered>>
      BY <1>1, <2>3
    <3>2. Framed'
      BY <1>1, <3>1, FramedUnchanged DEF IInv, RingInv
    <3>3. CachesLag' /\ ReaderInv'
      BY <1>1, <1>5, <3>1 DEF IInv, RingInv, CachesLag, ReaderInv
    <3>4. \A w \in Writers :
            \/ pc'[w] = pc[w]
            \/ pc[w] = "asleep" /\ pc'[w] = "leave"
      BY <1>2, <2>3 DEF Procs
    <3>5. BufferedInv'
      BY <1>1, <3>1, <3>4 DEF IInv, RingInv, BufferedInv, AfterCommit
    <3>6. WriterInv'
      BY <1>1, <3>1, <3>4 DEF IInv, RingInv, WriterInv, BufLen,
         BeforeCommit, Outside
    <3>7. RingTyped'
      BY <2>1, <3>1 DEF NotifyWake, IInv, RingInv, RingTyped, QueueTypeOK
    <3> QED
      BY <1>4, <3>2, <3>3, <3>5, <3>6, <3>7 DEF RingInv
  <2> QED
    BY <2>2, <2>3
<1> QED
  BY <1>3, <1>6, <1>7, Stays

LEMMA NextIInv ==
  ASSUME NoOverflow, IInv, [Next]_vars
  PROVE  IInv'
<1>1. CASE UNCHANGED vars
  <2>1. pc' = pc /\ waiters' = waiters
    BY <1>1 DEF vars, queueVars, header
  <2>2. RingInv'
    BY <1>1, StutterRing DEF vars, IInv
  <2>3. WaitersCounted'
    BY <2>1, CountUnchanged DEF IInv
  <2> QED
    BY <2>1, <2>2, <2>3, Stays DEF IInv, TypeOK
<1>2. ASSUME NEW p \in Procs, WaitStep(p) \/ SpuriousWake(p) \/ NotifyStep(p)
      PROVE  IInv'
  BY <1>2, SpinSeesIInv, WaitEnterIInv, FutexWaitIInv, WaitLeaveIInv,
     NotifyLoadIInv, NotifyWakeIInv DEF WaitStep, NotifyStep
<1> QED
  BY <1>1, <1>2, QueueIInv DEF Next, Quiescent

(* Offsets only ever move forward, or both back in a wrap.                 *)
LEMMA NextOffsets ==
  ASSUME NoOverflow, IInv, [Next]_vars
  PROVE  Forward \/ Wrap
<1>0. RingInv
  BY DEF IInv
<1>1. CASE UNCHANGED vars
  BY <1>0, <1>1, StillForward DEF vars, queueVars, header
<1>2. ASSUME NEW p \in Procs, WaitStep(p) \/ SpuriousWake(p) \/ NotifyStep(p)
      PROVE  Forward
  <2>1. CASE NotifyWake(p) /\ p \in Writers
    <3>1. pc[p] \notin Outside /\ Drain(p) /\ UNCHANGED mem
      BY <2>1 DEF NotifyWake, Outside, unchangedByWaiting
    <3> QED
      BY <1>0, <2>1, <3>1, DrainForward
  <2>2. CASE ~(NotifyWake(p) /\ p \in Writers)
    <3>1. UNCHANGED offset
      BY <1>2, <2>2 DEF WaitStep, NotifyStep, SpinSees, WaitEnter, FutexWait,
         WaitLeave, SpuriousWake, NotifyLoad, NotifyWake
    <3> QED
      BY <1>0, <3>1, StillForward
  <2> QED
    BY <2>1, <2>2
<1> QED
  BY <1>0, <1>1, <1>2, QueueOffsets DEF Next, Quiescent

-----------------------------------------------------------------------------
(* What the invariant is for.                                              *)

(* The inductive invariant holds in every reachable state.                 *)
THEOREM Inductive ==
  ASSUME NoOverflow
  PROVE  Spec => []IInv
<1>1. Init => IInv
  BY InitIInv
<1>2. IInv /\ [Next]_vars => IInv'
  BY NextIInv
<1> QED
  BY <1>1, <1>2, PTL DEF Spec

(* Every variable has its type; the counts of waiters never go below zero. *)
THEOREM TypeCorrect ==
  ASSUME NoOverflow
  PROVE  Spec => []TypeOK
<1>1. IInv => TypeOK
  BY DEF IInv
<1> QED
  BY <1>1, Inductive, PTL

(* "We keep offsets in-bounds" (src/src/lib.rs), for every queue size,     *)
(* number of threads and message length: no message is read or written     *)
(* beyond the double mapping, and nothing unread is ever overtaken.        *)
THEOREM OffsetsInBoundsHolds ==
  ASSUME NoOverflow
  PROVE  Spec => []OffsetsInBounds
<1>1. IInv => RingInv /\ DeadAtRest
  BY DEF IInv, TypeOK, Stages, FutexStages, DeadAtRest, Procs
<1>2. IInv => OffsetsInBounds
  BY <1>1, OffsetsInBoundsHere
<1> QED
  BY <1>2, Inductive, PTL

(* "We currently own all the space after the right pointer"                *)
(* (src/src/lib.rs): a writer never touches an unread message.             *)
THEOREM WriterOwnsSpaceHolds ==
  ASSUME NoOverflow
  PROVE  Spec => []WriterOwnsSpace
<1>1. IInv => WriterOwnsSpace
  BY WriterOwnsSpaceHere DEF IInv
<1> QED
  BY <1>1, Inductive, PTL

(* The slice a recv callback sees is a whole committed message, and stays  *)
(* so until the callback returns.                                          *)
THEOREM ReaderOwnsSliceHolds ==
  ASSUME NoOverflow
  PROVE  Spec => []ReaderOwnsSlice
<1>1. IInv => ReaderOwnsSlice
  BY ReaderOwnsSliceHere DEF IInv
<1> QED
  BY <1>1, Inductive, PTL

(* No subtraction of write or fix_offsets underflows, however stale the    *)
(* cached left offset is.                                                  *)
THEOREM NoUnderflowHolds ==
  ASSUME NoOverflow
  PROVE  Spec => []NoUnderflow
<1>1. IInv => NoUnderflow
  BY NoUnderflowHere DEF IInv
<1> QED
  BY <1>1, Inductive, PTL

(* A cached offset is never ahead of the real one.                         *)
THEOREM CachesLagHolds ==
  ASSUME NoOverflow
  PROVE  Spec => []CachesLag
<1>1. IInv => CachesLag
  BY DEF IInv, RingInv
<1> QED
  BY <1>1, Inductive, PTL

(* notify goes by an exact count of the threads that wait.                 *)
THEOREM WaitersCountedHolds ==
  ASSUME NoOverflow
  PROVE  Spec => []WaitersCounted
<1>1. IInv => WaitersCounted
  BY DEF IInv
<1> QED
  BY <1>1, Inductive, PTL

(* fix_offsets moves both offsets at once, past no reader and no store.    *)
THEOREM WrapIsAtomicHolds ==
  ASSUME NoOverflow
  PROVE  Spec => WrapIsAtomic
<1>1. IInv /\ [Next]_vars =>
        [(\E s \in Side : offset'[s] < offset[s]) =>
           /\ \A s \in Side : offset'[s] = offset[s] - QueueSize
           /\ \A r \in Readers : pc[r] \notin {"load", "read", "unlock"}
           /\ \A w \in Writers : buffered[w] = NoStore]_offset
  <2> SUFFICES ASSUME IInv, [Next]_vars
               PROVE  [(\E s \in Side : offset'[s] < offset[s]) =>
           /\ \A s \in Side : offset'[s] = offset[s] - QueueSize
           /\ \A r \in Readers : pc[r] \notin {"load", "read", "unlock"}
           /\ \A w \in Writers : buffered[w] = NoStore]_offset
    OBVIOUS
  <2>1. RingInv /\ RingInv' /\ (Forward \/ Wrap)
    BY NextIInv, NextOffsets DEF IInv
  <2> QED
    BY <2>1, WrapIsAtomicHere
<1> QED
  BY <1>1, Inductive, PTL DEF Spec, WrapIsAtomic

-----------------------------------------------------------------------------
(* No sender is left asleep.                                               *)

(* A sender that sleeps is counted, so the receiver that moves the left    *)
(* offset finds it; it is the only one asleep on that side, so it is the   *)
(* one woken.                                                              *)
LEMMA SleeperCounted ==
  ASSUME IInv, NEW w \in Writers, pc[w] = "asleep"
  PROVE  /\ waiters["Left"] # 0
         /\ Asleep("Left") = {w}
<1>1. w \in QueuedOn("Left") /\ IsFiniteSet(QueuedOn("Left"))
  BY FiniteAssumption, FS_Subset DEF QueuedOn, WaitSide, Queued, Procs
<1>2. waiters["Left"] = Cardinality(QueuedOn("Left"))
  BY CountedOnSide DEF IInv, Side
<1>3. waiters["Left"] # 0
  BY <1>1, <1>2, FS_EmptySet
<1>4. \A v \in Writers \ {w} : pc[v] # "asleep"
  <2>1. LocksHeld /\ pc[w] \notin Outside
    BY DEF IInv, RingInv, Outside
  <2>2. \A v \in Writers \ {w} : pc[v] \in Outside
    BY <2>1, OthersOutside
  <2> QED
    BY <2>2 DEF Outside
<1>5. Asleep("Left") = {w}
  BY <1>4 DEF Asleep, WaitSide, Procs
<1> QED
  BY <1>3, <1>5

OnItsWay == \E r \in Readers : pc[r] \in {"unlock", "notify", "wake"}

(* Falling asleep is the kernel's doing, and it compares first.            *)
LEMMA FallsAsleep ==
  ASSUME IInv, Next, NEW w \in Writers, pc[w] # "asleep", pc'[w] = "asleep"
  PROVE  offset'["Left"] = seen'[w]
<1> USE DEF IInv, TypeOK, Goto, Procs
<1>1. ASSUME NEW p \in Procs, New(p)
      PROVE  FALSE
  BY <1>1 DEF New
<1>2. ASSUME NEW v \in Writers, SendLock(v) \/ WriterStep(v)
      PROVE  FALSE
  BY <1>2 DEF WriterStep, SendLock, WriteLoad, WriteCopy, LockLeft,
     FixOffsets, SendCommit, SendAbort, Flush, SendUnlock, LeaveSend
<1>3. ASSUME NEW r \in Readers, ReaderStep(r) \/ RecvPanic(r)
      PROVE  FALSE
  BY <1>3 DEF ReaderStep, RecvLock, RecvTake, RecvEmpty, RecvCommit,
     RecvUnlock, RecvPanic, LeaveRecv
<1>4. ASSUME NEW p \in Procs, WaitStep(p) \/ SpuriousWake(p) \/ NotifyStep(p)
      PROVE  offset'["Left"] = seen'[w]
  <2>1. CASE FutexWait(p)
    BY <2>1 DEF FutexWait, WaitSide
  <2>2. CASE SpinSees(p) \/ WaitEnter(p) \/ WaitLeave(p) \/ SpuriousWake(p)
             \/ NotifyStep(p)
    BY <2>2 DEF SpinSees, WaitEnter, WaitLeave, SpuriousWake, NotifyStep,
       NotifyLoad, NotifyWake, Resume, Finished
  <2> QED
    BY <1>4, <2>1, <2>2 DEF WaitStep
<1>5. CASE Quiescent
  BY <1>5 DEF Quiescent, vars, queueVars
<1> QED
  BY <1>1, <1>2, <1>3, <1>4, <1>5 DEF Next, QueueNext

(* While a sender sleeps, no other writer moves; the receiver that moves   *)
(* the left offset is on its way, and stays so until it wakes the sender.  *)
LEMMA StaysAsleep ==
  ASSUME NoOverflow, IInv, Next,
         NEW w \in Writers, pc[w] = "asleep", pc'[w] = "asleep",
         offset["Left"] = seen[w] \/ OnItsWay
  PROVE  offset'["Left"] = seen'[w] \/ OnItsWay'
<1> USE DEF Goto, Procs
<1>0. pc \in [Procs -> Stages \cup FutexStages] /\ seen \in [Procs -> Offsets]
      /\ offset \in [Side -> Offsets]
  BY DEF IInv, TypeOK, QueueTypeOK
<1>1. /\ \A v \in Writers \ {w} : pc[v] \in {"new", "idle"}
      /\ lock["Right"] = w
      /\ \A v \in Writers : buffered[v] = NoStore
      /\ Free # w
  <2>1. RingInv /\ LocksHeld /\ pc[w] \notin Outside /\ pc[w] \in BeforeCommit
    BY DEF IInv, RingInv, Outside, BeforeCommit
  <2>2. \A v \in Writers \ {w} : pc[v] \in Outside /\ pc[v] # "dead"
    BY <1>0, <2>1, OthersOutside DEF Stages, FutexStages
  <2>3. \A v \in Writers : buffered[v] = NoStore
    BY <2>1, BeforeTheCommit
  <2>4. lock["Right"] = w
    BY <2>1 DEF LocksHeld
  <2> QED
    BY <2>2, <2>3, <2>4 DEF Outside
<1>2. ASSUME UNCHANGED offset, seen'[w] = seen[w],
             \A r \in Readers : pc[r] \in {"unlock", "notify", "wake"} =>
               pc'[r] \in {"unlock", "notify", "wake"}
      PROVE  offset'["Left"] = seen'[w] \/ OnItsWay'
  BY <1>2 DEF OnItsWay
<1>3. ASSUME NEW p \in Procs, New(p)
      PROVE  offset'["Left"] = seen'[w] \/ OnItsWay'
  BY <1>0, <1>2, <1>3 DEF New
<1>4. ASSUME NEW v \in Writers, SendLock(v) \/ WriterStep(v)
      PROVE  FALSE
  <2>1. ~SendLock(v)
    BY <1>1 DEF SendLock, Take
  <2>2. ~Flush(v)
    BY <1>1 DEF Flush
  <2> QED
    BY <1>1, <1>4, <2>1, <2>2 DEF WriterStep, WriteLoad, WriteCopy, LockLeft,
       FixOffsets, SendCommit, SendAbort, SendUnlock, LeaveSend
<1>5. ASSUME NEW r \in Readers, ReaderStep(r) \/ RecvPanic(r)
      PROVE  offset'["Left"] = seen'[w] \/ OnItsWay'
  <2>1. r # w
    BY ProcsAssumption
  <2>2. CASE RecvLock(r) \/ RecvTake(r) \/ RecvEmpty(r)
    BY <1>0, <1>2, <2>1, <2>2 DEF RecvLock, RecvTake, RecvEmpty, LoadRight
  <2>3. CASE RecvCommit(r) \/ RecvUnlock(r)
    BY <1>0, <2>3 DEF RecvCommit, RecvUnlock, LeaveRecv, OnItsWay
  <2>4. CASE RecvPanic(r)
    BY <1>0, <1>2, <2>1, <2>4 DEF RecvPanic, LeaveRecv
  <2> QED
    BY <1>5, <2>2, <2>3, <2>4 DEF ReaderStep
<1>6. ASSUME NEW p \in Procs, WaitStep(p) \/ SpuriousWake(p)
      PROVE  offset'["Left"] = seen'[w] \/ OnItsWay'
  <2>1. p # w
    BY <1>0, <1>6 DEF WaitStep, SpinSees, WaitEnter, FutexWait, WaitLeave,
       SpuriousWake, Resume
  <2> QED
    BY <1>0, <1>2, <1>6, <2>1 DEF WaitStep, SpinSees, WaitEnter, FutexWait,
       WaitLeave, SpuriousWake, Resume
<1>7. ASSUME NEW p \in Procs, NotifyStep(p)
      PROVE  offset'["Left"] = seen'[w] \/ OnItsWay'
  <2>1. p \in Readers /\ NotifySide(p) = "Left"
    BY <1>1, <1>7 DEF NotifyStep, NotifyLoad, NotifyWake, NotifySide
  <2>2. waiters["Left"] # 0 /\ Asleep("Left") = {w}
    BY SleeperCounted
  <2>3. ~NotifyWake(p)
    <3>1. ASSUME NotifyWake(p)
          PROVE  FALSE
      <4>1. pc' = [pc EXCEPT ![p] = Finished(p), ![w] = "leave"]
        BY <2>1, <2>2, <3>1 DEF NotifyWake
      <4> QED
        BY <1>0, <4>1
    <3> QED
      BY <3>1
  <2>4. pc'[p] = "wake"
    BY <1>0, <1>7, <2>1, <2>2, <2>3 DEF NotifyStep, NotifyLoad
  <2> QED
    BY <2>1, <2>4 DEF OnItsWay
<1>8. CASE Quiescent
  BY <1>2, <1>8 DEF Quiescent, vars, queueVars, header
<1> QED
  BY <1>3, <1>4, <1>5, <1>6, <1>7, <1>8 DEF Next, QueueNext

(* A sender never sleeps on a left offset that has moved unless a receiver *)
(* is about to wake it, with or without a store buffer.                    *)
THEOREM NoStrandedWriterHolds ==
  ASSUME NoOverflow
  PROVE  Spec => []NoStrandedWriter
<1>1. Init => NoStrandedWriter
  BY DEF Init, QueueInit, NoStrandedWriter, Procs
<1>2. ASSUME IInv, NoStrandedWriter, [Next]_vars
      PROVE  NoStrandedWriter'
  <2>1. CASE UNCHANGED vars
    BY <1>2, <2>1 DEF vars, queueVars, header, NoStrandedWriter
  <2>2. CASE Next
    BY <1>2, <2>2, FallsAsleep, StaysAsleep DEF NoStrandedWriter, OnItsWay
  <2> QED
    BY <1>2, <2>1, <2>2
<1> QED
  BY <1>1, <1>2, Inductive, PTL DEF Spec

-----------------------------------------------------------------------------
(* The queue is a bounded channel.                                         *)

(* Sleeping and waking are invisible; the wake only makes a store visible. *)
LEMMA SleepingFifo ==
  ASSUME NoOverflow, IInv, FifoInv, NEW p \in Procs,
         WaitStep(p) \/ SpuriousWake(p) \/ NotifyStep(p)
  PROVE  FifoInv' /\ UNCHANGED Channel
<1>0. RingInv /\ pc \in [Procs -> Stages \cup FutexStages]
  BY DEF IInv, TypeOK
<1>1. UNCHANGED <<mem, sent, received, started, right_offset, total_written>>
  BY DEF WaitStep, SpinSees, WaitEnter, FutexWait, WaitLeave, SpuriousWake,
     NotifyStep, NotifyLoad, NotifyWake, unchangedByWaiting, writerLocals,
     history
<1>2. RightEnd' = RightEnd /\ offset'["Left"] = offset["Left"]
  <2>1. CASE p \in Writers /\ NotifyWake(p)
    <3>1. Drain(p) /\ UNCHANGED mem /\ pc[p] \notin Outside
      BY <1>1, <2>1 DEF NotifyWake, Outside
    <3> QED
      BY <1>0, <2>1, <3>1, DrainLemma
  <2>2. CASE UNCHANGED <<offset, buffered>>
    BY <2>2 DEF RightEnd
  <2> QED
    BY <2>1, <2>2 DEF WaitStep, SpinSees, WaitEnter, FutexWait, WaitLeave,
       SpuriousWake, NotifyStep, NotifyLoad, NotifyWake
<1>3. \A w \in Writers : pc'[w] \in BeforeCommit => pc[w] \in BeforeCommit
  BY <1>0 DEF WaitStep, SpinSees, WaitEnter, FutexWait, WaitLeave,
     SpuriousWake, NotifyStep, NotifyLoad, NotifyWake, Goto, Resume,
     Finished, Asleep, BeforeCommit, Procs
<1> QED
  BY <1>0, <1>1, <1>2, <1>3, QuietFifo

LEMMA NextFifo ==
  ASSUME NoOverflow, IInv, FifoInv, [Next]_vars
  PROVE  FifoInv' /\ [Fifo!Next]_Channel
<1>0. RingInv
  BY DEF IInv
<1>1. CASE UNCHANGED vars
  <2>1. UNCHANGED <<mem, sent, received, started, offset, buffered, pc,
                    right_offset, total_written>>
    BY <1>1 DEF vars, queueVars, header, ring, writerLocals, history
  <2>2. RightEnd' = RightEnd
    BY <2>1 DEF RightEnd
  <2> QED
    BY <1>0, <2>1, <2>2, QuietFifo
<1> QED
  BY <1>0, <1>1, SleepingFifo, QueueFifo DEF Next, Quiescent

(* The queue implements the bounded channel, for every queue size, number  *)
(* of threads, payload lengths and wraps, with and without a store buffer: *)
(* each message is accepted whole if there is room for it, and is handed   *)
(* to one recv callback whole, unchanged and in its turn.                  *)
THEOREM ImplementsFifoHolds ==
  ASSUME NoOverflow
  PROVE  Spec => ImplementsFifo
<1>1. Init => FifoInv /\ Fifo!Init
  BY InitFifo DEF Init
<1>2. IInv /\ FifoInv /\ [Next]_vars => FifoInv' /\ [Fifo!Next]_Channel
  BY NextFifo
<1> QED
  BY <1>1, <1>2, Inductive, PTL DEF Spec, ImplementsFifo, Fifo!Spec, Channel

-----------------------------------------------------------------------------
(* No message is left to receivers that sleep, as long as the messages do  *)
(* not fill the ring to the last unit and no commit stays in a store       *)
(* buffer.  Without these two conditions it is false: the runs aba and     *)
(* storebuffer.                                                            *)

Down == {"wait", "futexWait", "asleep"}

Waking == \E w \in Writers : pc[w] \in {"notify", "wake"}

(* When all receivers are down, the last one that looked knows the left    *)
(* offset: if there is a message by now, it finds out before it sleeps, or *)
(* a sender is about to wake one.                                          *)
Looks ==
  (\A r \in Readers : pc[r] \in Down) =>
    \E r \in Readers :
      /\ Behind(r)
      /\ offset["Left"] < offset["Right"] => pc[r] # "asleep" \/ Waking

(* A receiver that sleeps is counted.                                      *)
LEMMA ReceiverCounted ==
  ASSUME IInv, NEW r \in Readers, pc[r] = "asleep"
  PROVE  waiters["Right"] # 0 /\ r \in Asleep("Right")
<1>1. r \in QueuedOn("Right") /\ IsFiniteSet(QueuedOn("Right"))
  BY FiniteAssumption, FS_Subset DEF QueuedOn, WaitSide, Queued, Procs
<1>2. waiters["Right"] = Cardinality(QueuedOn("Right"))
  BY CountedOnSide DEF IInv, Side
<1> QED
  BY <1>1, <1>2, FS_EmptySet DEF Asleep, QueuedOn

(* One step of one thread in wait or in notify.                            *)
LEMMA SleepingLooks ==
  ASSUME NoOverflow, IInv, NoBuffer, Looks, NeverFull, NEW p \in Procs,
         WaitStep(p) \/ SpuriousWake(p) \/ NotifyStep(p)
  PROVE  NoBuffer' /\ Looks'
<1> USE DEF Goto
<1>0. /\ pc \in [Procs -> Stages \cup FutexStages]
      /\ seen \in [Procs -> Offsets] /\ offset \in [Side -> Offsets]
      /\ buffered \in [Writers -> Offsets \cup {NoStore}]
      /\ RingTyped /\ Framed
  BY DEF IInv, TypeOK, QueueTypeOK, RingInv
<1>1. NoBuffer' /\ UNCHANGED offset
  <2>1. CASE NotifyWake(p) /\ p \in Writers
    BY <1>0, <2>1 DEF NotifyWake, Drain, Drained, NoBuffer
  <2>2. CASE UNCHANGED <<offset, buffered>>
    BY <2>2 DEF NoBuffer
  <2> QED
    BY <2>1, <2>2 DEF WaitStep, SpinSees, WaitEnter, FutexWait, WaitLeave,
       SpuriousWake, NotifyStep, NotifyLoad, NotifyWake
<1>2. SUFFICES ASSUME \A r \in Readers : pc'[r] \in Down
               PROVE  \E r \in Readers :
                        /\ Behind(r)'
                        /\ offset'["Left"] < offset'["Right"] =>
                             pc'[r] # "asleep" \/ Waking'
  BY <1>1 DEF Looks
<1>3. \A r \in Readers :
        /\ r \in Procs /\ r \notin Writers
        /\ WaitSide(r) = "Right" /\ Finished(r) = "idle"
  BY DEF Procs, WaitSide, Finished
\* Nobody has come down in this step: only recv's own steps do that.
<1>4. /\ \A r \in Readers : pc[r] \in Down
      /\ ~(p \in Readers /\ (NotifyStep(p) \/ SpinSees(p) \/ WaitLeave(p)
                               \/ SpuriousWake(p)))
  <2>1. CASE SpinSees(p) \/ WaitEnter(p) \/ FutexWait(p) \/ WaitLeave(p)
             \/ SpuriousWake(p) \/ NotifyLoad(p)
    BY <1>0, <1>2, <1>3, <2>1 DEF SpinSees, WaitEnter, FutexWait, WaitLeave,
       SpuriousWake, NotifyStep, NotifyLoad, NotifyWake, Resume, Down
  <2>2. CASE NotifyWake(p)
    BY <1>0, <1>2, <1>3, <2>2 DEF SpinSees, WaitLeave, SpuriousWake,
       NotifyStep, NotifyLoad, NotifyWake, Down
  <2> QED
    BY <2>1, <2>2 DEF WaitStep, NotifyStep
<1>5. PICK r \in Readers :
        /\ Behind(r)
        /\ offset["Left"] < offset["Right"] => pc[r] # "asleep" \/ Waking
  BY <1>4 DEF Looks
<1>6. Behind(r)'
  <2>1. seen'[r] = seen[r]
    BY <1>0, <1>3, <1>4 DEF WaitStep, SpinSees, WaitEnter, FutexWait,
       WaitLeave, SpuriousWake, NotifyStep, NotifyLoad, NotifyWake, Resume,
       Procs
  <2> QED
    BY <1>1, <1>5, <2>1 DEF Behind
<1>7. SUFFICES ASSUME offset["Left"] < offset["Right"], pc'[r] = "asleep"
               PROVE  Waking'
  BY <1>1, <1>6
<1>8. CASE NotifyStep(p)
  <2>1. p \in Writers /\ NotifySide(p) = "Right"
    BY <1>4, <1>8 DEF Procs, NotifySide
  <2>2. pc[r] = "asleep"
    BY <1>0, <1>3, <1>7, <1>8, <2>1 DEF NotifyStep, NotifyLoad, NotifyWake
  <2>3. waiters["Right"] # 0 /\ r \in Asleep("Right")
    BY <2>2, ReceiverCounted
  <2>4. ~NotifyWake(p)
    <3>1. ASSUME NotifyWake(p)
          PROVE  FALSE
      <4>1. PICK q \in Asleep("Right") :
              pc' = [pc EXCEPT ![p] = Finished(p), ![q] = "leave"]
        BY <2>1, <2>3, <3>1 DEF NotifyWake
      <4>2. q \in Readers
        BY <4>1 DEF Asleep, WaitSide, Procs
      <4>3. pc'[q] = "leave"
        BY <1>0, <4>1 DEF Asleep
      <4> QED
        BY <1>2, <4>2, <4>3 DEF Down
    <3> QED
      BY <3>1
  <2>5. pc'[p] = "wake"
    BY <1>0, <1>8, <2>1, <2>3, <2>4 DEF NotifyStep, NotifyLoad
  <2> QED
    BY <2>1, <2>5 DEF Waking
<1>9. CASE FutexWait(p) /\ p = r
  <2>1. offset["Right"] = seen[r]
    BY <1>0, <1>3, <1>7, <1>9 DEF FutexWait
  <2>2. ~(offset["Left"] < offset["Right"])
    BY <1>0, <1>5, <2>1, SameMeansEmpty
  <2> QED
    BY <1>7, <2>2
<1>10. CASE ~NotifyStep(p) /\ ~(FutexWait(p) /\ p = r)
  <2>1. pc[r] = "asleep"
    BY <1>0, <1>3, <1>7, <1>10 DEF WaitStep, SpinSees, WaitEnter, FutexWait,
       WaitLeave, SpuriousWake, Resume
  <2>2. PICK w \in Writers : pc[w] \in {"notify", "wake"}
    BY <1>5, <1>7, <2>1 DEF Waking
  <2>3. pc'[w] = pc[w]
    BY <1>0, <1>10, <2>2 DEF WaitStep, SpinSees, WaitEnter, FutexWait,
       WaitLeave, SpuriousWake, Resume, Procs
  <2> QED
    BY <2>2, <2>3 DEF Waking
<1> QED
  BY <1>8, <1>9, <1>10

LEMMA NextLooks ==
  ASSUME NoOverflow, StoreBuffering = FALSE, IInv, NoBuffer, Looks, NeverFull,
         [Next]_vars
  PROVE  NoBuffer' /\ Looks'
<1>1. CASE UNCHANGED vars
  BY <1>1 DEF vars, queueVars, header, ring, NoBuffer, Looks, Behind, Waking
<1>2. ASSUME QueueNext
      PROVE  NoBuffer' /\ Looks'
  <2>0. RingInv /\ RingTyped /\ Framed /\ pc \in [Procs -> AllStages]
    BY DEF IInv, RingInv, RingTyped
  <2>1. /\ NoBuffer'
        /\ \/ \E r \in Readers : pc'[r] \in ReaderUp
           \/ \E r \in Readers : /\ pc'[r] = "wait"
                                 /\ seen'[r] = offset'["Left"]
                                 /\ offset'["Right"] = offset'["Left"]
           \/ /\ \A r \in Readers : pc'[r] = pc[r] /\ seen'[r] = seen[r]
              /\ \/ UNCHANGED offset
                 \/ /\ offset'["Left"] = offset["Left"]
                    /\ \E w \in Writers : pc'[w] = "notify"
                 \/ Wrap /\ QueueSize <= offset["Left"]
    BY <1>2, <2>0, QueueMoves, QueueBuffersNothing DEF NoBuffer
  <2>2. CASE \E r \in Readers : pc'[r] \in ReaderUp
    BY <2>1, <2>2 DEF Looks, ReaderUp, Down
  <2>3. ASSUME NEW r \in Readers, pc'[r] = "wait",
               seen'[r] = offset'["Left"], offset'["Right"] = offset'["Left"]
        PROVE  Looks'
    <3>1. RingTyped' /\ Framed'
      BY <1>2, <2>0, QueueRing DEF RingInv
    <3>2. offset'["Left"] \in 0 .. 2 * QueueSize
      <4>1. offset'["Right"] \in 0 .. 2 * QueueSize
        BY <3>1 DEF Framed, Framing
      <4> QED
        BY <2>3, <4>1
    <3>3. Behind(r)'
      BY <2>3, <3>2 DEF Behind
    <3> QED
      BY <2>3, <3>3 DEF Looks
  <2>4. ASSUME \A r \in Readers : pc'[r] = pc[r] /\ seen'[r] = seen[r],
               \/ UNCHANGED offset
               \/ /\ offset'["Left"] = offset["Left"]
                  /\ \E w \in Writers : pc'[w] = "notify"
               \/ Wrap /\ QueueSize <= offset["Left"]
        PROVE  Looks'
    <3>1. SUFFICES ASSUME \A r \in Readers : pc[r] \in Down
                   PROVE  \E r \in Readers :
                            /\ Behind(r)'
                            /\ offset'["Left"] < offset'["Right"] =>
                                 pc'[r] # "asleep" \/ Waking'
      BY <2>4 DEF Looks
    <3>2. PICK r \in Readers :
            /\ Behind(r)
            /\ offset["Left"] < offset["Right"] => pc[r] # "asleep" \/ Waking
      BY <3>1 DEF Looks
    <3>3. Waking => Waking'
      <4>1. \A w \in Writers :
              pc[w] \in {"notify", "wake"} => pc'[w] = pc[w]
        BY <1>2, <2>0, QueueStages DEF Elsewhere, Procs
      <4> QED
        BY <4>1 DEF Waking
    <3>4. pc'[r] = pc[r] /\ seen'[r] = seen[r]
      BY <2>4
    <3>5. CASE UNCHANGED offset
      BY <3>2, <3>3, <3>4, <3>5 DEF Behind
    <3>6. CASE /\ offset'["Left"] = offset["Left"]
               /\ \E w \in Writers : pc'[w] = "notify"
      BY <3>2, <3>4, <3>6 DEF Behind, Waking
    <3>7. CASE Wrap /\ QueueSize <= offset["Left"]
      <4>1. Behind(r)' /\ (offset'["Left"] < offset'["Right"] =>
                             offset["Left"] < offset["Right"])
        BY <2>0, <3>2, <3>4, <3>7, BehindWraps
      <4> QED
        BY <3>2, <3>3, <3>4, <4>1
    <3> QED
      BY <2>4, <3>5, <3>6, <3>7
  <2> QED
    BY <2>1, <2>2, <2>3, <2>4
<1>3. CASE Quiescent
  BY <1>1, <1>3 DEF Quiescent
<1> QED
  BY <1>1, <1>2, <1>3, SleepingLooks DEF Next

(* As long as the messages never fill the ring to the last unit, a         *)
(* receiver is up whenever there is a message, or a sender is about to     *)
(* wake one: one wake per message is enough, whatever threads contend.     *)
THEOREM NoStrandedReadersUnlessFull ==
  ASSUME NoOverflow, StoreBuffering = FALSE, Readers # {}
  PROVE  Spec /\ []NeverFull => []NoStrandedReaders
<1>1. Init => NoBuffer /\ Looks
  BY DEF Init, QueueInit, NoBuffer, Looks, Down, Procs
<1>2. IInv /\ NoBuffer /\ Looks /\ NeverFull /\ [Next]_vars
        => NoBuffer' /\ Looks'
  BY NextLooks
<1>3. Looks => NoStrandedReaders
  BY DEF Looks, NoStrandedReaders, Down, Waking
<1> QED
  BY <1>1, <1>2, <1>3, Inductive, PTL DEF Spec

(* Sleeping, waking and the end of a send commit nothing.                  *)
LEMMA NextMeasured ==
  ASSUME NoOverflow, IInv, FifoInv, NEW g, Measured(g), MeasuredInv(g),
         [Next]_vars
  PROVE  MeasuredInv(g)'
<1>0. RingInv /\ pc \in [Procs -> Stages \cup FutexStages]
  BY DEF IInv, TypeOK
<1>1. CASE UNCHANGED vars
  BY <1>1 DEF vars, queueVars, header, ring, history, writerLocals,
     MeasuredInv, RightEnd
<1>2. ASSUME NEW p \in Procs, WaitStep(p) \/ SpuriousWake(p) \/ NotifyStep(p)
      PROVE  MeasuredInv(g)'
  <2>1. UNCHANGED <<mem, sent, body>>
    BY <1>2 DEF WaitStep, SpinSees, WaitEnter, FutexWait, WaitLeave,
       SpuriousWake, NotifyStep, NotifyLoad, NotifyWake, unchangedByWaiting,
       writerLocals, history
  <2>2. RightEnd' = RightEnd /\ offset'["Left"] = offset["Left"]
    <3>1. CASE p \in Writers /\ NotifyWake(p)
      <4>1. Drain(p) /\ pc[p] \notin Outside
        BY <3>1 DEF NotifyWake, Outside
      <4> QED
        BY <1>0, <2>1, <3>1, <4>1, DrainLemma
    <3>2. CASE UNCHANGED <<offset, buffered>>
      BY <3>2 DEF RightEnd
    <3> QED
      BY <1>2, <3>1, <3>2 DEF WaitStep, SpinSees, WaitEnter, FutexWait,
         WaitLeave, SpuriousWake, NotifyStep, NotifyLoad, NotifyWake
  <2>3. \A w \in Writers : pc'[w] \notin Outside => pc[w] \notin Outside
    BY <1>0, <1>2 DEF WaitStep, SpinSees, WaitEnter, FutexWait, WaitLeave,
       SpuriousWake, NotifyStep, NotifyLoad, NotifyWake, Goto, Resume,
       Finished, Asleep, Outside, Procs
  <2> QED
    BY <2>1, <2>2, <2>3, QuietMeasured
<1> QED
  BY <1>0, <1>1, <1>2, QueueMeasured DEF Next, Quiescent

(* So it is, then, for messages that are all of a length that does not     *)
(* divide the ring, or of lengths with a common divisor the ring has not.  *)
THEOREM NoStrandedReadersHolds ==
  ASSUME NoOverflow, StoreBuffering = FALSE, Readers # {},
         NEW g, Measured(g)
  PROVE  Spec => []NoStrandedReaders
<1>1. Init => FifoInv /\ MeasuredInv(g) /\ NoBuffer
  BY InitFifo, InitMeasured DEF Init, Measured, QueueInit, NoBuffer
<1>2. IInv /\ FifoInv /\ MeasuredInv(g) /\ [Next]_vars
        => FifoInv' /\ MeasuredInv(g)'
  BY NextFifo, NextMeasured
<1>3. IInv /\ NoBuffer /\ MeasuredInv(g) => NeverFull
  BY MeasuredNeverFull DEF IInv, RingInv
<1>4. Init => Looks
  BY DEF Init, QueueInit, Looks, Down, Procs
<1>5. IInv /\ NoBuffer /\ Looks /\ NeverFull /\ [Next]_vars
        => NoBuffer' /\ Looks'
  BY NextLooks
<1>6. Looks => NoStrandedReaders
  BY DEF Looks, NoStrandedReaders, Down, Waking
<1> QED
  BY <1>1, <1>2, <1>3, <1>4, <1>5, <1>6, Inductive, PTL DEF Spec
==============================================================================
