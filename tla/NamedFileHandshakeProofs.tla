----------------------- MODULE NamedFileHandshakeProofs -----------------------
(***************************************************************************)
(* What the flock handshake guarantees for every set of processes, sizes   *)
(* and bounds.                                                             *)
(***************************************************************************)
EXTENDS NamedFileHandshake, TLAPS

(* Whatever a step does to a mapping, it leaves a view of every part.      *)
LEMMA ViewTypeCorrect ==
  ASSUME ViewOK, [Next]_vars
  PROVE  ViewOK'
<1> USE DEF ViewOK, Parts
<1>1. ASSUME NEW p \in Procs, NEW parts,
             NEW what \in {"none", "anon", "file"}, Map(p, parts, what)
      PROVE  ViewOK'
  BY <1>1 DEF Map
<1>2. CASE UNCHANGED view
  BY <1>2
<1>3. ASSUME NEW p \in Procs,
             \/ Reserve(p) \/ MapLeft(p) \/ MapRight(p) \/ MapHeader(p)
             \/ Undo(p) \/ Unmap(p)
      PROVE  ViewOK'
  BY <1>1, <1>3 DEF Reserve, MapLeft, MapRight, MapHeader, Undo, Unmap
<1> QED
  BY <1>2, <1>3 DEF vars, Next, Step, Open, BecomeOwner, BecomeJoiner, SetLen,
     LockShared, ReadLen, ReadLenPanics, MapPart, MapLast, SetUp,
     JoinerReady, OwnerReady, Drop, Unlock, MapFails, Fail

(* Lengths, sizes, locks and stages keep their types: the joiner's         *)
(* subtraction is only made when it cannot underflow.                      *)
THEOREM TypeCorrect == Spec => []TypeOK
<1>1. Init => TypeOK
  <2> SUFFICES ASSUME Init PROVE TypeOK
    OBVIOUS
  <2>1. len \in Nat /\ calls \in 0 .. MaxCalls /\ failures \in 0 .. MaxFailures
    BY SizesAssumption, BoundsAssumption DEF Init, HeaderPages
  <2>2. queue_size \in [Procs -> Nat]
    BY DEF Init
  <2>3. owner \in [Procs -> BOOLEAN] /\ ready \in BOOLEAN
    BY Zenon DEF Init
  <2>4. flock \in [Procs -> {"none", "shared", "exclusive"}]
        /\ pc \in [Procs -> Stages]
    BY DEF Init, Stages
  <2>5. ViewOK
    BY DEF Init, ViewOK, NoView
  <2> QED
    BY <2>1, <2>2, <2>3, <2>4, <2>5 DEF TypeOK
<1>2. TypeOK /\ [Next]_vars => TypeOK'
  <2> SUFFICES ASSUME TypeOK, [Next]_vars PROVE TypeOK'
    OBVIOUS
  <2>0. ViewOK'
    BY ViewTypeCorrect DEF TypeOK
  <2> USE <2>0, SizesAssumption, BoundsAssumption
      DEF TypeOK, Stages, HeaderPages, Goto, Hold, Close
  <2>1. ASSUME NEW p \in Procs, NEW n \in Sizes, Open(p, n) PROVE TypeOK'
    BY <2>1 DEF Open
  <2>2. ASSUME NEW p \in Procs, BecomeOwner(p) PROVE TypeOK'
    BY <2>2 DEF BecomeOwner
  <2>3. ASSUME NEW p \in Procs, BecomeJoiner(p) PROVE TypeOK'
    BY <2>3 DEF BecomeJoiner
  <2>4. ASSUME NEW p \in Procs, SetLen(p) PROVE TypeOK'
    <3>1. len' \in Nat
      BY <2>4 DEF SetLen
    <3> QED
      BY <2>4, <3>1, Zenon DEF SetLen
  <2>5. ASSUME NEW p \in Procs, LockShared(p) PROVE TypeOK'
    BY <2>5 DEF LockShared
  <2>6. ASSUME NEW p \in Procs, ReadLen(p) PROVE TypeOK'
    BY <2>6 DEF ReadLen
  <2>7. ASSUME NEW p \in Procs, ReadLenPanics(p) PROVE TypeOK'
    BY <2>7 DEF ReadLenPanics
  <2>8. ASSUME NEW p \in Procs,
               MapPart(p) \/ MapLast(p) \/ SetUp(p) \/ JoinerReady(p)
        PROVE  TypeOK'
    BY <2>8 DEF MapPart, MapLast, SetUp, JoinerReady
  <2>9. ASSUME NEW p \in Procs, OwnerReady(p) PROVE TypeOK'
    BY <2>9 DEF OwnerReady
  <2>10. ASSUME NEW p \in Procs, Drop(p) PROVE TypeOK'
    BY <2>10 DEF Drop
  <2>11. ASSUME NEW p \in Procs, Unlock(p) PROVE TypeOK'
    BY <2>11 DEF Unlock
  <2>12. ASSUME NEW p \in Procs, MapFails(p) \/ Fail(p) PROVE TypeOK'
    BY <2>12 DEF MapFails, Fail, Failure
  <2>13. CASE UNCHANGED vars
    BY <2>13 DEF vars
  <2> QED
    BY <2>1, <2>2, <2>3, <2>4, <2>5, <2>6, <2>7, <2>8, <2>9, <2>10,
       <2>11, <2>12, <2>13 DEF Next, Step
<1> QED
  BY <1>1, <1>2, PTL DEF Spec

-----------------------------------------------------------------------------
(* The lock that a process holds at each stage; an exclusive lock excludes *)
(* every other lock.                                                       *)
LockOfStage ==
  \A p \in Procs :
    /\ owner[p] => pc[p] \in {"setLen", "map", "setUp", "markReady", "using",
                             "unlock"}
    /\ pc[p] = "setLen" => owner[p]
    /\ failures = 0 /\ pc[p] = "unlock" => flock[p] = "shared"
    /\ pc[p] # "unlock" =>
       flock[p] = CASE pc[p] = "setLen" -> "exclusive"
                    [] pc[p] \in {"readLen", "using"} -> "shared"
                    [] pc[p] \in {"map", "setUp", "markReady"} ->
                         (IF owner[p] THEN "exclusive" ELSE "shared")
                    [] OTHER -> "none"

ExclusiveAlone ==
  \A p, q \in Procs : flock[p] = "exclusive" /\ p # q => flock[q] = "none"

Locked == TypeOK /\ LockOfStage /\ ExclusiveAlone

LEMMA LockedHolds == Spec => []Locked
<1>1. Init => LockOfStage /\ ExclusiveAlone
  BY DEF Init, LockOfStage, ExclusiveAlone
<1>2. Locked /\ [Next]_vars => LockOfStage' /\ ExclusiveAlone'
  <2> SUFFICES ASSUME Locked, [Next]_vars
               PROVE  LockOfStage' /\ ExclusiveAlone'
    OBVIOUS
  <2> DEFINE Goal == LockOfStage' /\ ExclusiveAlone'
  <2> USE DEF Locked, TypeOK, Stages, LockOfStage, ExclusiveAlone, Goto, Hold,
              Close, Grants
  <2>1. ASSUME NEW p \in Procs, NEW n \in Sizes, Open(p, n) PROVE Goal
    BY <2>1 DEF Open
  <2>2. ASSUME NEW p \in Procs, BecomeOwner(p) PROVE Goal
    BY <2>2 DEF BecomeOwner
  <2>3. ASSUME NEW p \in Procs, BecomeJoiner(p) PROVE Goal
    BY <2>3 DEF BecomeJoiner
  <2>4. ASSUME NEW p \in Procs, SetLen(p) PROVE Goal
    BY <2>4 DEF SetLen
  <2>5. ASSUME NEW p \in Procs, LockShared(p) PROVE Goal
    BY <2>5 DEF LockShared
  <2>6. ASSUME NEW p \in Procs, ReadLen(p) PROVE Goal
    BY <2>6 DEF ReadLen
  <2>7. ASSUME NEW p \in Procs, ReadLenPanics(p) PROVE Goal
    BY <2>7 DEF ReadLenPanics
  <2>8. ASSUME NEW p \in Procs, MapPart(p) \/ MapLast(p) \/ SetUp(p)
        PROVE  Goal
    BY <2>8 DEF MapPart, MapLast, SetUp
  <2>9. ASSUME NEW p \in Procs, JoinerReady(p) PROVE Goal
    BY <2>9 DEF JoinerReady
  <2>10. ASSUME NEW p \in Procs, OwnerReady(p) PROVE Goal
    BY <2>10 DEF OwnerReady
  <2>11. ASSUME NEW p \in Procs, Drop(p) \/ Unlock(p) PROVE Goal
    BY <2>11 DEF Drop, Unlock
  <2>12. ASSUME NEW p \in Procs, MapFails(p) \/ Fail(p) PROVE Goal
    BY <2>12 DEF MapFails, Fail, Failure
  <2>13. CASE UNCHANGED vars
    BY <2>13 DEF vars
  <2> QED
    BY <2>1, <2>2, <2>3, <2>4, <2>5, <2>6, <2>7, <2>8, <2>9, <2>10, <2>11,
       <2>12, <2>13 DEF Next, Step
<1> QED
  BY <1>1, <1>2, TypeCorrect, PTL DEF Spec, Locked

-----------------------------------------------------------------------------
(* No process is ever without a lock while it has a result, so owner, size *)
(* and header are never pulled from under anybody.                         *)
Contract == OneOwner /\ SizeIsFileSize

LEMMA ContractHolds == Spec => []Contract
<1>1. Init => Contract
  BY DEF Init, Contract, OneOwner, SizeIsFileSize, HasResult
<1>2. Locked /\ Contract /\ [Next]_vars => Contract'
  <2> SUFFICES ASSUME Locked, Contract, [Next]_vars PROVE Contract'
    OBVIOUS
  <2> USE DEF Locked, TypeOK, Stages, LockOfStage, ExclusiveAlone, Goto, Hold,
              Close, Grants, Contract, OneOwner, SizeIsFileSize,
              HasResult, HeaderPages
  <2>1. ASSUME NEW p \in Procs, NEW n \in Sizes, Open(p, n) PROVE Contract'
    BY <2>1 DEF Open
  <2>2. ASSUME NEW p \in Procs, BecomeOwner(p) PROVE Contract'
    BY <2>2 DEF BecomeOwner
  <2>3. ASSUME NEW p \in Procs, BecomeJoiner(p) PROVE Contract'
    BY <2>3 DEF BecomeJoiner
  <2>4. ASSUME NEW p \in Procs, SetLen(p) PROVE Contract'
    \* The exclusive lock leaves p as the only process with a result.
    BY <2>4 DEF SetLen
  <2>5. ASSUME NEW p \in Procs, LockShared(p) PROVE Contract'
    BY <2>5 DEF LockShared
  <2>6. ASSUME NEW p \in Procs, ReadLen(p) PROVE Contract'
    BY <2>6 DEF ReadLen
  <2>7. ASSUME NEW p \in Procs, ReadLenPanics(p) PROVE Contract'
    BY <2>7 DEF ReadLenPanics
  <2>8. ASSUME NEW p \in Procs, MapPart(p) \/ MapLast(p) \/ SetUp(p)
        PROVE  Contract'
    BY <2>8 DEF MapPart, MapLast, SetUp
  <2>9. ASSUME NEW p \in Procs, JoinerReady(p) PROVE Contract'
    BY <2>9 DEF JoinerReady
  <2>10. ASSUME NEW p \in Procs, OwnerReady(p) PROVE Contract'
    BY <2>10 DEF OwnerReady
  <2>11. ASSUME NEW p \in Procs, Drop(p) \/ Unlock(p) PROVE Contract'
    BY <2>11 DEF Drop, Unlock
  <2>12. ASSUME NEW p \in Procs, MapFails(p) \/ Fail(p) PROVE Contract'
    BY <2>12 DEF MapFails, Fail, Failure
  <2>13. CASE UNCHANGED vars
    BY <2>13 DEF vars
  <2> QED
    BY <2>1, <2>2, <2>3, <2>4, <2>5, <2>6, <2>7, <2>8, <2>9, <2>10, <2>11,
       <2>12, <2>13 DEF Next, Step
<1> QED
  BY <1>1, <1>2, LockedHolds, PTL DEF Spec

(* is_owner is true for one side at a time.                                *)
THEOREM OneOwnerHolds == Spec => []OneOwner
<1>1. Contract => OneOwner
  BY DEF Contract
<1> QED
  BY <1>1, ContractHolds, PTL

(* Whoever holds a result maps exactly the file that is there.             *)
THEOREM SizeIsFileSizeHolds == Spec => []SizeIsFileSize
<1>1. Contract => SizeIsFileSize
  BY DEF Contract
<1> QED
  BY <1>1, ContractHolds, PTL

-----------------------------------------------------------------------------
(* While from_fd runs, the header is still missing, and the upper half is  *)
(* mapped over after the lower one; at every other stage there is all of   *)
(* it or nothing.                                                          *)
ViewOfStage ==
  /\ AllOrNothing
  /\ \A p \in Procs : pc[p] = "map" =>
       /\ view[p]["header"] = "none"
       /\ view[p]["right"] = "file" => view[p]["left"] = "file"

LEMMA MapEffect ==
  ASSUME ViewOK, NEW p \in Procs, NEW parts, NEW what, Map(p, parts, what)
  PROVE  /\ view'[p] = [part \in Parts |->
                         IF part \in parts THEN what ELSE view[p][part]]
         /\ \A q \in Procs : q # p => view'[q] = view[q]
  BY DEF Map, ViewOK

LEMMA ViewOfStageHolds == Spec => []ViewOfStage
<1>1. Init => ViewOfStage
  BY DEF Init, ViewOfStage, AllOrNothing
<1>2. TypeOK /\ ViewOfStage /\ [Next]_vars => ViewOfStage'
  <2> SUFFICES ASSUME TypeOK, ViewOfStage, [Next]_vars PROVE ViewOfStage'
    OBVIOUS
  <2> USE DEF TypeOK, Stages, ViewOfStage, AllOrNothing, Goto, Close
  <2>1. ASSUME NEW p \in Procs, NEW n \in Sizes, Open(p, n)
        PROVE  ViewOfStage'
    BY <2>1 DEF Open
  <2>2. ASSUME NEW p \in Procs, BecomeOwner(p) \/ BecomeJoiner(p)
        PROVE  ViewOfStage'
    BY <2>2 DEF BecomeOwner, BecomeJoiner
  <2>3. ASSUME NEW p \in Procs,
               \/ SetLen(p) \/ LockShared(p) \/ ReadLen(p) \/ ReadLenPanics(p)
        PROVE  ViewOfStage'
    <3>1. NoView["header"] = "none" /\ NoView["right"] = "none"
      BY DEF NoView, Parts
    <3> QED
      BY <2>3, <3>1 DEF SetLen, LockShared, ReadLen, ReadLenPanics
  <2>4. ASSUME NEW p \in Procs, MapPart(p) PROVE ViewOfStage'
    <3>1. /\ view'[p]["header"] = "none"
          /\ view'[p]["right"] = "file" => view'[p]["left"] = "file"
      <4> DEFINE Updated(parts, what) ==
            [part \in Parts |-> IF part \in parts THEN what ELSE view[p][part]]
      <4>1. /\ view[p]["header"] = "none"
            /\ view[p]["right"] = "file" => view[p]["left"] = "file"
        BY <2>4 DEF MapPart
      <4>2. CASE Reserve(p)
        <5>1. view'[p] = Updated({"left", "right"}, "anon")
          BY <4>2, MapEffect DEF Reserve
        <5> QED
          BY <5>1, <4>1 DEF Parts
      <4>3. CASE MapLeft(p)
        <5>1. view'[p] = Updated({"left"}, "file")
          BY <4>3, MapEffect DEF MapLeft
        <5> QED
          BY <5>1, <4>1 DEF Parts
      <4>4. CASE MapRight(p)
        <5>1. view'[p] = Updated({"right"}, "file") /\ view[p]["left"] = "file"
          BY <4>4, MapEffect DEF MapRight
        <5> QED
          BY <5>1, <4>1 DEF Parts
      <4> QED
        BY <2>4, <4>2, <4>3, <4>4 DEF MapPart
    <3>2. \A q \in Procs : q # p => view'[q] = view[q]
      BY <2>4, MapEffect DEF MapPart, Reserve, MapLeft, MapRight
    <3> QED
      BY <2>4, <3>1, <3>2 DEF MapPart
  <2>5. ASSUME NEW p \in Procs, MapLast(p) PROVE ViewOfStage'
    <3>1. view'[p] = FullView
      BY <2>5, MapEffect DEF MapLast, MapHeader, FullView, Parts
    <3>2. \A q \in Procs : q # p => view'[q] = view[q]
      BY <2>5, MapEffect DEF MapLast, MapHeader
    <3> QED
      BY <2>5, <3>1, <3>2 DEF MapLast
  <2>6. ASSUME NEW p \in Procs,
               SetUp(p) \/ JoinerReady(p) \/ OwnerReady(p) \/ Unlock(p)
        PROVE  ViewOfStage'
    BY <2>6 DEF SetUp, JoinerReady, OwnerReady, Unlock
  <2>7. ASSUME NEW p \in Procs, Drop(p) \/ MapFails(p) \/ Fail(p)
        PROVE  ViewOfStage'
    <3>1. PICK parts \in {{"left", "right"}, Parts} :
            /\ Map(p, parts, "none")
            /\ parts = Parts \/ view[p]["header"] = "none"
      BY <2>7 DEF Drop, Fail, MapFails, Undo, Unmap
    <3>2. view'[p] = NoView
      BY <3>1, MapEffect DEF NoView, Parts
    <3>3. \A q \in Procs : q # p => view'[q] = view[q]
      BY <3>1, MapEffect
    <3> QED
      BY <2>7, <3>2, <3>3 DEF Drop, Fail, MapFails
  <2>8. CASE UNCHANGED vars
    BY <2>8 DEF vars
  <2> QED
    BY <2>1, <2>2, <2>3, <2>4, <2>5, <2>6, <2>7, <2>8 DEF Next, Step
<1> QED
  BY <1>1, <1>2, TypeCorrect, PTL DEF Spec

(* Whichever mmap fails, nothing stays mapped.                             *)
THEOREM AllOrNothingHolds == Spec => []AllOrNothing
<1>1. ViewOfStage => AllOrNothing
  BY DEF ViewOfStage
<1> QED
  BY <1>1, ViewOfStageHolds, PTL

(* The lock outlives the mappings.                                         *)
THEOREM MappedUnderLockHolds == Spec => []MappedUnderLock
<1>1. Locked /\ ViewOfStage => MappedUnderLock
  BY DEF Locked, TypeOK, Stages, LockOfStage, ViewOfStage, AllOrNothing,
         MappedUnderLock, Mapped, NoView, Parts
<1> QED
  BY <1>1, LockedHolds, ViewOfStageHolds, PTL

(* Setting up never happens under the eyes of another process.             *)
THEOREM SetUpAloneHolds == Spec => []SetUpAlone
<1>1. Locked /\ MappedUnderLock => SetUpAlone
  BY DEF Locked, TypeOK, Stages, LockOfStage, ExclusiveAlone, SetUpAlone,
         MappedUnderLock, HasResult
<1> QED
  BY <1>1, LockedHolds, MappedUnderLockHolds, PTL

-----------------------------------------------------------------------------
(* Without failures the queue is ready whenever somebody shares the file,  *)
(* and while it is not, whoever waits to share it waits for the owner.     *)
ReadyOrExclusive ==
  failures = 0 /\ ~ready =>
    /\ \A p \in Procs : flock[p] # "shared"
    /\ (\E p \in Procs : pc[p] = "waitShared") =>
         \E q \in Procs : flock[q] = "exclusive"

(* A joiner never sees a queue that is not set up unless something failed. *)
THEOREM OwnerIsDoneUnlessFailedHolds == Spec => []OwnerIsDoneUnlessFailed
<1>1. Init => ReadyOrExclusive
  BY DEF Init, ReadyOrExclusive
<1>2. Locked /\ ReadyOrExclusive /\ [Next]_vars => ReadyOrExclusive'
  <2> SUFFICES ASSUME Locked, ReadyOrExclusive, [Next]_vars
               PROVE  ReadyOrExclusive'
    OBVIOUS
  <2> USE DEF Locked, TypeOK, Stages, LockOfStage, ExclusiveAlone, Goto, Hold,
              Close, Grants, ReadyOrExclusive
  <2>1. ASSUME NEW p \in Procs, NEW n \in Sizes, Open(p, n)
        PROVE  ReadyOrExclusive'
    BY <2>1 DEF Open
  <2>2. ASSUME NEW p \in Procs, BecomeOwner(p) PROVE ReadyOrExclusive'
    BY <2>2 DEF BecomeOwner
  <2>3. ASSUME NEW p \in Procs, BecomeJoiner(p) PROVE ReadyOrExclusive'
    BY <2>3 DEF BecomeJoiner
  <2>4. ASSUME NEW p \in Procs, SetLen(p) PROVE ReadyOrExclusive'
    BY <2>4 DEF SetLen
  <2>5. ASSUME NEW p \in Procs, LockShared(p) PROVE ReadyOrExclusive'
    BY <2>5 DEF LockShared
  <2>6. ASSUME NEW p \in Procs, ReadLen(p) PROVE ReadyOrExclusive'
    BY <2>6 DEF ReadLen
  <2>7. ASSUME NEW p \in Procs, ReadLenPanics(p) PROVE ReadyOrExclusive'
    BY <2>7 DEF ReadLenPanics
  <2>8. ASSUME NEW p \in Procs, MapPart(p) \/ MapLast(p) \/ SetUp(p)
        PROVE  ReadyOrExclusive'
    BY <2>8 DEF MapPart, MapLast, SetUp
  <2>9. ASSUME NEW p \in Procs, JoinerReady(p) PROVE ReadyOrExclusive'
    BY <2>9 DEF JoinerReady
  <2>10. ASSUME NEW p \in Procs, OwnerReady(p) PROVE ReadyOrExclusive'
    BY <2>10 DEF OwnerReady
  <2>11. ASSUME NEW p \in Procs, Drop(p) \/ Unlock(p) PROVE ReadyOrExclusive'
    BY <2>11 DEF Drop, Unlock
  <2>12. ASSUME NEW p \in Procs, MapFails(p) \/ Fail(p)
         PROVE  ReadyOrExclusive'
    BY <2>12 DEF MapFails, Fail, Failure
  <2>13. CASE UNCHANGED vars
    BY <2>13 DEF vars
  <2> QED
    BY <2>1, <2>2, <2>3, <2>4, <2>5, <2>6, <2>7, <2>8, <2>9, <2>10, <2>11,
       <2>12, <2>13 DEF Next, Step
<1>3. Locked /\ ReadyOrExclusive => OwnerIsDoneUnlessFailed
  BY DEF Locked, TypeOK, Stages, LockOfStage, ReadyOrExclusive,
         OwnerIsDoneUnlessFailed, OwnerIsDone, HasResult
<1> QED
  BY <1>1, <1>2, <1>3, LockedHolds, PTL DEF Spec
==============================================================================
