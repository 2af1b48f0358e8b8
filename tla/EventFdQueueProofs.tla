-------------------------- MODULE EventFdQueueProofs --------------------------
(***************************************************************************)
(* What a panicking wait leaves behind, and why a sender does not block in *)
(* it, for every set of writers and readers, every size and bound; then,   *)
(* with NoOverflow, what MemeQueueProofs says of the ring for this control *)
(* too, why no sender that polls is forgotten, and in which ways alone a   *)
(* receiver may be.                                                        *)
(***************************************************************************)
EXTENDS EventFdQueue, FifoQueueProofs, FiniteSetTheorems

USE LayoutAssumption, ProcsAssumption
USE DEF WaitStages, NotifyStages

Typed ==
  /\ pc \in [Procs -> Stages \cup EventStages]
  /\ lock \in [Side -> Procs \cup {Free}]
  /\ event \in [Side -> Nat]

(* Where a thread is says which locks it holds, and the other way round.   *)
HoldersKnown ==
  /\ \A w \in Writers :
       /\ lock["Right"] = w <=> pc[w] \notin {"new", "idle", "dead"}
       /\ lock["Left"] = w <=> pc[w] = "fix"
       /\ pc[w] \notin {"load", "read"}
  /\ \A r \in Readers :
       /\ lock["Right"] # r
       /\ lock["Left"] = r <=> pc[r] \in {"load", "read", "unlock"}
       /\ pc[r] \notin {"write", "copy", "lockLeft", "fix"}

IInv == Typed /\ HoldersKnown

LEMMA SidesDiffer ==
  /\ "Left" \in Side /\ "Right" \in Side
  /\ \A p \in Procs : WaitSide(p) \in Side /\ NotifySide(p) \in Side
  /\ \A p \in Readers : WaitSide(p) = "Right"
  /\ \A p \in Writers : WaitSide(p) = "Left"
BY ProcsAssumption DEF Side, WaitSide, NotifySide

(* A step of p that leaves the locks alone, between stages where it holds  *)
(* the same ones.                                                          *)
LEMMA Goes ==
  ASSUME IInv, NEW p \in Procs, NEW to \in Stages \cup EventStages,
         Goto(p, to), lock' = lock, event' \in [Side -> Nat],
         p \in Writers =>
           /\ pc[p] \notin {"new", "idle", "dead", "fix"}
           /\ to \notin {"new", "idle", "dead", "fix", "load", "read"},
         p \in Readers =>
           /\ pc[p] \in {"load", "read", "unlock"} <=>
                to \in {"load", "read", "unlock"}
           /\ to \notin {"write", "copy", "lockLeft", "fix"}
  PROVE  IInv'
<1>1. Typed'
  BY DEF IInv, Typed, Goto
<1>2. \A q \in Procs : pc'[q] = IF q = p THEN to ELSE pc[q]
  BY DEF IInv, Typed, Goto
<1>3. HoldersKnown'
  BY <1>2 DEF IInv, HoldersKnown, Procs
<1> QED
  BY <1>1, <1>3 DEF IInv

(* A step of p that takes or frees the lock of one side.                   *)
LEMMA Locks ==
  ASSUME IInv, NEW p \in Procs, NEW to \in Stages \cup EventStages,
         NEW side \in Side, NEW holder \in {p, Free}, Goto(p, to),
         lock[side] \in {p, Free}, lock' = [lock EXCEPT ![side] = holder],
         event' \in [Side -> Nat],
         p \in Writers =>
           /\ lock'["Right"] = p <=> to \notin {"new", "idle", "dead"}
           /\ lock'["Left"] = p <=> to = "fix"
           /\ to \notin {"load", "read"},
         p \in Readers =>
           /\ lock'["Right"] # p
           /\ lock'["Left"] = p <=> to \in {"load", "read", "unlock"}
           /\ to \notin {"write", "copy", "lockLeft", "fix"}
  PROVE  IInv'
<1>1. Typed'
  BY DEF IInv, Typed, Goto
<1>2. \A q \in Procs : pc'[q] = IF q = p THEN to ELSE pc[q]
  BY DEF IInv, Typed, Goto
<1>3. \A q \in Procs \ {p} : \A s \in Side : lock'[s] = q <=> lock[s] = q
  BY ProcsAssumption DEF IInv, Typed
<1>4. HoldersKnown'
  BY <1>2, <1>3, SidesDiffer DEF IInv, HoldersKnown, Procs
<1> QED
  BY <1>1, <1>4 DEF IInv

LEMMA QueueIInv == IInv /\ QueueNext /\ UNCHANGED eventVars => IInv'
<1> SUFFICES ASSUME IInv, QueueNext, UNCHANGED eventVars PROVE IInv'
  OBVIOUS
<1>0. event' \in [Side -> Nat]
  BY DEF eventVars, IInv, Typed
<1> USE SidesDiffer, ProcsAssumption
    DEF Stages, Procs, header, ring, writerLocals, readerLocals, history
<1>1. ASSUME NEW p \in Procs, New(p) PROVE IInv'
  <2>1. /\ pc[p] = "new" /\ lock' = lock
        /\ \A q \in Procs : pc'[q] = IF q = p THEN "idle" ELSE pc[q]
    BY <1>1 DEF New, Goto, IInv, Typed
  <2>2. Typed'
    BY <1>0, <1>1 DEF New, Goto, IInv, Typed
  <2> QED
    BY <2>1, <2>2 DEF IInv, HoldersKnown
<1>2. ASSUME NEW w \in Writers, SendLock(w) PROVE IInv'
  <2>1. /\ lock["Right"] = Free /\ lock' = [lock EXCEPT !["Right"] = w]
        /\ pc[w] = "idle" /\ Goto(w, "write")
    BY <1>2 DEF SendLock, Take
  <2>2. lock'["Right"] = w /\ lock'["Left"] = lock["Left"]
    BY <2>1 DEF IInv, Typed
  <2>3. lock["Left"] # w
    BY <2>1 DEF IInv, HoldersKnown
  <2> QED
    BY <1>0, <2>1, <2>2, <2>3, Locks
<1>3. ASSUME NEW w \in Writers, WriteLoad(w) PROVE IInv'
  <2>1. pc[w] = "write" /\ lock' = lock
    BY <1>3 DEF WriteLoad
  <2>2. PICK to \in {"copy", "lockLeft", "wait"} : Goto(w, to)
    BY <1>3 DEF WriteLoad
  <2> QED
    BY <1>0, <2>1, <2>2, Goes
<1>4. ASSUME NEW w \in Writers, WriteCopy(w) PROVE IInv'
  <2>1. pc[w] = "copy" /\ lock' = lock /\ Goto(w, "write")
    BY <1>4 DEF WriteCopy
  <2> QED
    BY <1>0, <2>1, Goes
<1>5. ASSUME NEW w \in Writers, LockLeft(w) PROVE IInv'
  <2>1. /\ lock["Left"] = Free /\ lock' = [lock EXCEPT !["Left"] = w]
        /\ pc[w] = "lockLeft" /\ Goto(w, "fix")
    BY <1>5 DEF LockLeft, Take
  <2>2. lock'["Left"] = w /\ lock'["Right"] = w
    BY <2>1 DEF IInv, Typed, HoldersKnown
  <2> QED
    BY <1>0, <2>1, <2>2, Locks
<1>6. ASSUME NEW w \in Writers, FixOffsets(w) PROVE IInv'
  <2>1. /\ lock' = [lock EXCEPT !["Left"] = Free]
        /\ pc[w] = "fix" /\ Goto(w, "write")
    BY <1>6 DEF FixOffsets, GiveBack
  <2>2. lock["Left"] = w /\ lock'["Left"] = Free /\ lock'["Right"] = w
    BY <2>1 DEF IInv, Typed, HoldersKnown
  <2> QED
    BY <1>0, <2>1, <2>2, Locks
<1>7. ASSUME NEW w \in Writers, SendCommit(w) PROVE IInv'
  <2>1. pc[w] = "write" /\ lock' = lock /\ Goto(w, "notify")
    BY <1>7 DEF SendCommit
  <2> QED
    BY <1>0, <2>1, Goes
<1>8. ASSUME NEW w \in Writers, SendAbort(w) PROVE IInv'
  <2>1. pc[w] = "write" /\ lock' = lock /\ Goto(w, "unlock")
    BY <1>8 DEF SendAbort
  <2> QED
    BY <1>0, <2>1, Goes
<1>9. ASSUME NEW w \in Writers, Flush(w) PROVE IInv'
  BY <1>0, <1>9 DEF Flush, IInv, Typed, HoldersKnown
<1>10. ASSUME NEW w \in Writers, SendUnlock(w) PROVE IInv'
  <2>1. /\ lock' = [lock EXCEPT !["Right"] = Free]
        /\ pc[w] = "unlock" /\ Goto(w, "idle")
    BY <1>10 DEF SendUnlock, LeaveSend, GiveBack
  <2>2. lock["Right"] = w /\ lock'["Right"] = Free /\ lock'["Left"] # w
    BY <2>1 DEF IInv, Typed, HoldersKnown
  <2> QED
    BY <1>0, <2>1, <2>2, Locks
<1>11. ASSUME NEW r \in Readers, RecvLock(r) PROVE IInv'
  <2>1. /\ lock["Left"] = Free /\ lock' = [lock EXCEPT !["Left"] = r]
        /\ pc[r] = "idle" /\ Goto(r, "load")
    BY <1>11 DEF RecvLock, Take
  <2>2. lock'["Left"] = r /\ lock'["Right"] # r
    BY <2>1 DEF IInv, Typed, HoldersKnown
  <2> QED
    BY <1>0, <2>1, <2>2, Locks
<1>12. ASSUME NEW r \in Readers, RecvTake(r) PROVE IInv'
  <2>1. pc[r] = "load" /\ lock' = lock /\ Goto(r, "read")
    BY <1>12 DEF RecvTake, LoadRight
  <2> QED
    BY <1>0, <2>1, Goes
<1>13. ASSUME NEW r \in Readers, NEW from \in {"load", "read", "unlock"},
              NEW to \in {"wait", "notify", "idle"},
              pc[r] = from, GiveBack("Left"), Goto(r, to)
       PROVE  IInv'
  <2>1. lock' = [lock EXCEPT !["Left"] = Free]
    BY <1>13 DEF GiveBack
  <2>2. lock["Left"] = r /\ lock'["Left"] = Free /\ lock'["Right"] # r
    BY <1>13, <2>1 DEF IInv, Typed, HoldersKnown
  <2> QED
    BY <1>0, <1>13, <2>1, <2>2, Locks
<1>14. ASSUME NEW r \in Readers, RecvEmpty(r) \/ RecvUnlock(r) \/ RecvPanic(r)
       PROVE  IInv'
  BY <1>13, <1>14 DEF RecvEmpty, LoadRight, RecvUnlock, RecvPanic, LeaveRecv
<1>15. ASSUME NEW r \in Readers, RecvCommit(r) PROVE IInv'
  <2>1. pc[r] = "read" /\ lock' = lock /\ Goto(r, "unlock")
    BY <1>15 DEF RecvCommit
  <2> QED
    BY <1>0, <2>1, Goes
<1> QED
  BY <1>1, <1>2, <1>3, <1>4, <1>5, <1>6, <1>7, <1>8, <1>9, <1>10, <1>11, <1>12,
     <1>14, <1>15 DEF QueueNext, WriterStep, ReaderStep

(* Inside wait a thread holds what it held on entry; a panic frees it.     *)
InWait == {"wait", "check", "poll", "giveUp", "readEvent", "leave"}

LEMMA Continues ==
  ASSUME IInv, NEW p \in Procs, event' \in [Side -> Nat],
         pc[p] \in InWait \cup {"notify", "writeEvent"},
         NEW to \in (InWait \cup {"notify", "writeEvent"}) \ {"wait"},
         Continue(p, to)
  PROVE  IInv'
<1>1. to \in Stages \cup EventStages
  BY DEF InWait, Stages, EventStages
<1>2. Goto(p, to) /\ lock' = lock
  BY DEF Continue
<1> QED
  BY <1>1, <1>2, Goes DEF InWait

LEMMA PanicIInv ==
  ASSUME IInv, NEW p \in Procs, event' \in [Side -> Nat], pc[p] \in InWait,
         Panic(p)
  PROVE  IInv'
<1>0. "dead" \in Stages \cup EventStages /\ "Right" \in Side
  BY SidesDiffer DEF EventStages
<1>1. CASE p \in Writers /\ LeaveSend(p, "dead")
  <2>1. lock' = [lock EXCEPT !["Right"] = Free] /\ Goto(p, "dead")
    BY <1>1 DEF LeaveSend, GiveBack
  <2>2. lock["Right"] = p /\ lock'["Right"] = Free /\ lock'["Left"] # p
    BY <1>1, <2>1, SidesDiffer, ProcsAssumption
    DEF IInv, Typed, HoldersKnown, InWait
  <2> QED
    BY <1>0, <1>1, <2>1, <2>2, Locks, ProcsAssumption
<1>2. CASE p \in Readers /\ Continue(p, "dead")
  <2>1. lock' = lock /\ Goto(p, "dead") /\ p \notin Writers
    BY <1>2, ProcsAssumption DEF Continue
  <2> QED
    BY <1>0, <1>2, <2>1, Goes DEF InWait
<1> QED
  BY <1>1, <1>2 DEF Panic

(* wait returns to write or to recv, notify to send or to recv.            *)
LEMMA Returns ==
  ASSUME IInv, NEW p \in Procs, event' \in [Side -> Nat], lock' = lock,
         \/ pc[p] \in InWait /\ Resume(p)
         \/ pc[p] \in {"notify", "writeEvent"} /\ Goto(p, Finished(p))
  PROVE  IInv'
<1>1. CASE p \in Writers
  <2>1. PICK to \in {"write", "unlock"} : Goto(p, to)
    BY <1>1 DEF Resume, Finished
  <2>2. p \notin Readers /\ pc[p] \in InWait \cup {"notify", "writeEvent"}
    BY <1>1, ProcsAssumption
  <2> QED
    BY <1>1, <2>1, <2>2, Goes DEF Stages, InWait
<1>2. CASE p \in Readers
  <2>1. Goto(p, "idle") /\ p \notin Writers
    BY <1>2, ProcsAssumption DEF Resume, Finished
  <2> QED
    BY <1>2, <2>1, Goes DEF Stages, InWait
<1> QED
  BY <1>1, <1>2 DEF Procs

LEMMA AddToTypes ==
  ASSUME IInv, NEW side \in Side, NEW n \in Nat, AddTo(side, n)
  PROVE  event' \in [Side -> Nat]
BY DEF IInv, Typed, AddTo

LEMMA EventIInv ==
  ASSUME IInv, NEW p \in Procs,
         \/ WaitStep(p) \/ NotifyStep(p)
         \/ PollTimesOut(p) \/ PollInterrupted(p) \/ ReadInterrupted(p)
  PROVE  IInv'
<1>0. event \in [Side -> Nat] /\ WaitSide(p) \in Side /\ NotifySide(p) \in Side
  BY SidesDiffer DEF IInv, Typed
<1>1. CASE WaitEnter(p)
  <2>1. Goto(p, "check") /\ lock' = lock /\ pc[p] = "wait" /\ event' = event
    BY <1>1 DEF WaitEnter, eventVars
  <2> QED
    BY <1>0, <2>1, Goes DEF EventStages
<1>2. CASE Check(p)
  BY <1>0, <1>2, Continues DEF Check, InWait, eventVars
<1>3. CASE PollReady(p) \/ PollTimesOut(p) \/ PollInterrupted(p)
  BY <1>0, <1>3, Continues
     DEF PollReady, PollTimesOut, PollInterrupted, InWait, eventVars
<1>4. CASE GiveUp(p)
  <2>1. event' \in [Side -> Nat]
    BY <1>0, <1>4, AddToTypes, DeadAssumption DEF GiveUp
  <2> QED
    BY <1>4, <2>1, PanicIInv DEF GiveUp, InWait
<1>5. CASE ReadEvent(p)
  <2>1. event' \in [Side -> Nat]
    BY <1>0, <1>5 DEF ReadEvent
  <2>2. pc[p] = "readEvent" /\ (Panic(p) \/ Continue(p, "leave"))
    BY <1>5 DEF ReadEvent
  <2> QED
    BY <2>1, <2>2, PanicIInv, Continues DEF InWait
<1>6. CASE ReadInterrupted(p)
  BY <1>0, <1>6, Returns DEF ReadInterrupted, InWait
<1>7. CASE WaitLeave(p)
  BY <1>0, <1>7, Returns DEF WaitLeave, InWait, eventVars
<1>8. CASE NotifyLoad(p)
  <2>1. CASE Continue(p, "writeEvent")
    BY <1>0, <1>8, <2>1, Continues DEF NotifyLoad, eventVars
  <2>2. CASE Continue(p, Finished(p))
    BY <1>0, <1>8, <2>2, Returns DEF NotifyLoad, Continue, eventVars
  <2> QED
    BY <1>8, <2>1, <2>2 DEF NotifyLoad
<1>9. CASE NotifyWrite(p)
  <2>1. event' \in [Side -> Nat]
    BY <1>0, <1>9, AddToTypes DEF NotifyWrite
  <2> QED
    BY <1>9, <2>1, Returns DEF NotifyWrite, Continue
<1> QED
  BY <1>1, <1>2, <1>3, <1>4, <1>5, <1>6, <1>7, <1>8, <1>9
  DEF WaitStep, NotifyStep

(* send and recv count nobody, and take nobody into wait.                  *)
LEMMA QueueGoes ==
  ASSUME IInv, QueueNext
  PROVE  /\ waiters' = waiters
         /\ \A p \in Procs :
              \/ pc'[p] = pc[p]
              \/ pc[p] \notin Elsewhere /\ pc'[p] \in Stages
<1>1. pc \in [Procs -> AllStages]
  BY DEF IInv, Typed, Stages, EventStages, AllStages
<1> QED
  BY <1>1, QueueStages

LEMMA InitIInv == Init => IInv
BY SidesDiffer, ProcsAssumption
   DEF Init, QueueInit, IInv, Typed, HoldersKnown, Stages, Procs

LEMMA NextIInv == IInv /\ [Next]_vars => IInv'
<1> SUFFICES ASSUME IInv, [Next]_vars PROVE IInv'
  OBVIOUS
<1>1. CASE UNCHANGED vars
  BY <1>1 DEF vars, queueVars, eventVars, header, IInv, Typed, HoldersKnown
<1> QED
  BY <1>1, QueueIInv, EventIInv DEF Next

LEMMA IInvHolds == Spec => []IInv
BY InitIInv, NextIInv, PTL DEF Spec

(* However often polls time out, receive 0xDEAD or are interrupted: no     *)
(* thread that has panicked in wait still holds a lock.                    *)
THEOREM DeadHoldNoLockHolds == Spec => []DeadHoldNoLock
<1>1. IInv => DeadHoldNoLock
  <2> SUFFICES ASSUME IInv, NEW s \in Side, NEW q \in Procs, lock[s] = q
               PROVE  pc[q] # "dead"
    BY DEF DeadHoldNoLock, IInv, Typed
  <2>1. s = "Left" \/ s = "Right"
    BY DEF Side
  <2> QED
    BY <2>1 DEF IInv, HoldersKnown, Procs
<1> QED
  BY IInvHolds, <1>1, PTL

(* The right lock makes a sender the only thread that reads the left event, *)
(* so what its poll has seen is still there when it reads.                  *)
THEOREM SenderReadsAtOnceHolds == Spec => []SenderReadsAtOnce
<1>1. Init => SenderReadsAtOnce
  BY DEF Init, QueueInit, SenderReadsAtOnce, Procs
<1>2. IInv /\ SenderReadsAtOnce /\ [Next]_vars => SenderReadsAtOnce'
  <2> SUFFICES ASSUME IInv, SenderReadsAtOnce, [Next]_vars,
                      NEW w \in Writers, pc'[w] = "readEvent"
               PROVE  event'["Left"] > 0
    BY DEF SenderReadsAtOnce
  <2>0. /\ w \in Procs /\ w \notin Readers /\ WaitSide(w) = "Left"
        /\ event["Left"] \in Nat /\ "Left" \in Side
    BY SidesDiffer, ProcsAssumption DEF Procs, IInv, Typed
  <2>1. CASE QueueNext /\ UNCHANGED eventVars
    <3>1. pc[w] = "readEvent"
      BY <2>0, <2>1, QueueGoes DEF Stages
    <3> QED
      BY <2>1, <3>1 DEF SenderReadsAtOnce, eventVars
  <2>2. ASSUME NEW p \in Procs, WaitStep(p) \/ NotifyStep(p)
        PROVE  event'["Left"] > 0
    <3>1. CASE PollReady(p)
      <4>1. CASE p = w
        BY <2>0, <3>1, <4>1 DEF PollReady, Mine, eventVars
      <4>2. CASE p # w
        BY <2>0, <3>1, <4>2
           DEF PollReady, Continue, Goto, eventVars, SenderReadsAtOnce, IInv,
               Typed
      <4> QED
        BY <4>1, <4>2
    <3>2. CASE ReadEvent(p)
      <4>1. p # w /\ pc[w] = "readEvent" /\ pc[p] = "readEvent"
        BY <2>0, <3>2
           DEF ReadEvent, Panic, LeaveSend, Continue, Goto, IInv, Typed
      <4>2. p \in Readers
        BY <4>1 DEF IInv, HoldersKnown, Procs
      <4> QED
        BY <2>0, <3>2, <4>1, <4>2, SidesDiffer
        DEF ReadEvent, SenderReadsAtOnce,
           IInv, Typed, Side
    <3>3. CASE GiveUp(p) \/ NotifyWrite(p)
      <4>1. pc[w] = "readEvent"
        BY <2>0, <3>3
           DEF GiveUp, NotifyWrite, Panic, LeaveSend, Continue, Goto, Finished,
               IInv, Typed
      <4>2. event'["Left"] \in Nat /\ event'["Left"] >= event["Left"]
        BY <2>0, <3>3, SidesDiffer, DeadAssumption
        DEF GiveUp, NotifyWrite, AddTo, IInv, Typed
      <4> QED
        BY <2>0, <4>1, <4>2 DEF SenderReadsAtOnce
    <3>4. CASE WaitEnter(p) \/ Check(p) \/ WaitLeave(p) \/ NotifyLoad(p)
      <4>1. pc[w] = "readEvent"
        BY <2>0, <3>4
           DEF WaitEnter, Check, WaitLeave, NotifyLoad, Resume, Continue, Goto,
               Finished, IInv, Typed
      <4> QED
        BY <3>4, <4>1 DEF WaitEnter, Check, WaitLeave, NotifyLoad, eventVars,
           SenderReadsAtOnce
    <3> QED
      BY <2>2, <3>1, <3>2, <3>3, <3>4 DEF WaitStep, NotifyStep
  <2>3. ASSUME NEW p \in Procs,
               PollTimesOut(p) \/ PollInterrupted(p) \/ ReadInterrupted(p)
        PROVE  event'["Left"] > 0
    BY <2>0, <2>3
       DEF PollTimesOut, PollInterrupted, ReadInterrupted, Resume, Continue,
           Goto, eventVars, SenderReadsAtOnce, IInv, Typed
  <2>4. CASE UNCHANGED vars
    BY <2>4 DEF vars, queueVars, eventVars, SenderReadsAtOnce
  <2> QED
    BY <2>1, <2>2, <2>3, <2>4 DEF Next
<1> QED
  BY IInvHolds, <1>1, <1>2, PTL DEF Spec

(* The threads that have counted themselves and not taken themselves off   *)
(* again: those between fetch_add and fetch_sub, and those that panicked.  *)
OwedStages == {"check", "poll", "giveUp", "readEvent", "leave", "dead"}

Owed(side) == {p \in Procs : WaitSide(p) = side /\ pc[p] \in OwedStages}

(* The count covers them after a step that adds none.                      *)
LEMMA NoneOwed ==
  ASSUME NEW s \in Side, waiters[s] >= Cardinality(Owed(s)),
         waiters[s] \in Nat, waiters'[s] = waiters[s],
         Owed(s)' \subseteq Owed(s)
  PROVE  waiters'[s] >= Cardinality(Owed(s)')
<1>1. IsFiniteSet(Owed(s))
  BY FiniteAssumption, FS_Subset DEF Owed
<1>2. /\ Cardinality(Owed(s)') <= Cardinality(Owed(s))
      /\ Cardinality(Owed(s)') \in Nat /\ Cardinality(Owed(s)) \in Nat
  BY <1>1, FS_Subset, FS_CardinalityType
<1> QED
  BY <1>2

Counted ==
  /\ waiters \in [Side -> Nat]
  /\ \A s \in Side : waiters[s] >= Cardinality(Owed(s))

LEMMA InitCounted == Init => Counted
<1> USE DEF Counted
<1> SUFFICES ASSUME Init PROVE Counted
  OBVIOUS
<1>1. \A s \in Side : Owed(s) = {}
  BY DEF Init, QueueInit, Owed, OwedStages
<1>2. Cardinality({}) = 0
  BY FS_EmptySet
<1>3. waiters = [s \in Side |-> 0]
  BY DEF Init, QueueInit
<1> QED
  BY <1>1, <1>2, <1>3 DEF Counted

(* Every step keeps the count on the safe side.                            *)
LEMMA NextCounted == IInv /\ Counted /\ [Next]_vars => Counted'
<1> USE DEF Counted
<1> SUFFICES ASSUME IInv, Counted, [Next]_vars PROVE Counted'
  OBVIOUS
<1>1. ASSUME waiters' = waiters,
             \A s \in Side : Owed(s)' \subseteq Owed(s)
      PROVE  Counted'
  BY <1>1, NoneOwed DEF Counted
<1>2. CASE QueueNext /\ UNCHANGED eventVars
  <2>1. /\ waiters' = waiters
        /\ \A q \in Procs : pc'[q] = pc[q] \/ pc'[q] \in Stages
    BY <1>2, QueueGoes
  <2>2. \A q \in Procs : pc'[q] \in OwedStages => pc'[q] = pc[q]
    BY <2>1 DEF OwedStages, Stages
  <2>3. \A s \in Side : Owed(s)' \subseteq Owed(s)
    BY <2>2 DEF Owed, WaitSide
  <2> QED
    BY <1>1, <2>1, <2>3
<1>3. ASSUME NEW p \in Procs, WaitEnter(p) PROVE Counted'
  <2>1. /\ waiters' = [waiters EXCEPT ![WaitSide(p)] = @ + 1]
        /\ \A q \in Procs : pc'[q] = IF q = p THEN "check" ELSE pc[q]
    BY <1>3 DEF WaitEnter, Goto, IInv, Typed
  <2>2. WaitSide(p) \in Side /\ waiters' \in [Side -> Nat]
    BY <2>1, SidesDiffer
  <2>3. ASSUME NEW s \in Side, s # WaitSide(p)
        PROVE  waiters'[s] >= Cardinality(Owed(s)')
    <3>1. waiters'[s] = waiters[s] /\ Owed(s)' \subseteq Owed(s)
      BY <2>1, <2>3 DEF Owed, OwedStages, WaitSide
    <3> QED
      BY <3>1, NoneOwed DEF Counted
  <2>4. ASSUME NEW s \in Side, s = WaitSide(p)
        PROVE  waiters'[s] >= Cardinality(Owed(s)')
    <3>1. /\ Owed(s)' = Owed(s) \cup {p} /\ p \notin Owed(s)
          /\ waiters'[s] = waiters[s] + 1
      BY <1>3, <2>1, <2>4 DEF WaitEnter, Owed, OwedStages, WaitSide
    <3>2. IsFiniteSet(Owed(s))
      BY FiniteAssumption, FS_Subset DEF Owed
    <3>3. /\ Cardinality(Owed(s)') = Cardinality(Owed(s)) + 1
          /\ Cardinality(Owed(s)) \in Nat
      BY <3>1, <3>2, FS_AddElement, FS_CardinalityType
    <3> QED
      BY <3>1, <3>3 DEF Counted
  <2> QED
    BY <2>2, <2>3, <2>4 DEF Counted
<1>4. ASSUME NEW p \in Procs, WaitLeave(p) PROVE Counted'
  <2>1. /\ waiters' = [waiters EXCEPT ![WaitSide(p)] = @ - 1]
        /\ pc'[p] \in {"write", "idle"} /\ pc[p] = "leave"
        /\ \A q \in Procs \ {p} : pc'[q] = pc[q]
    BY <1>4 DEF WaitLeave, Resume, Goto, IInv, Typed
  <2>2. WaitSide(p) \in Side
    BY SidesDiffer
  <2>3. ASSUME NEW s \in Side, s # WaitSide(p)
        PROVE  /\ waiters'[s] >= Cardinality(Owed(s)')
               /\ waiters'[s] \in Nat
    <3>1. waiters'[s] = waiters[s] /\ Owed(s)' \subseteq Owed(s)
      BY <2>1, <2>3 DEF Owed, OwedStages, WaitSide
    <3> QED
      BY <3>1, NoneOwed DEF Counted
  <2>4. ASSUME NEW s \in Side, s = WaitSide(p)
        PROVE  /\ waiters'[s] >= Cardinality(Owed(s)')
               /\ waiters'[s] \in Nat
    <3>1. /\ Owed(s)' = Owed(s) \ {p} /\ p \in Owed(s)
          /\ waiters'[s] = waiters[s] - 1
      BY <2>1, <2>4 DEF Owed, OwedStages, WaitSide
    <3>2. IsFiniteSet(Owed(s))
      BY FiniteAssumption, FS_Subset DEF Owed
    <3>3. /\ Cardinality(Owed(s)') = Cardinality(Owed(s)) - 1
          /\ Cardinality(Owed(s)') \in Nat
          /\ Cardinality(Owed(s)) \in Nat
      BY <3>1, <3>2, FS_RemoveElement, FS_CardinalityType
    <3> QED
      BY <3>1, <3>3 DEF Counted
  <2> QED
    BY <2>1, <2>3, <2>4 DEF Counted
<1>5. ASSUME NEW p \in Procs,
             \/ Check(p) \/ PollReady(p) \/ GiveUp(p) \/ ReadEvent(p)
             \/ NotifyStep(p) \/ PollTimesOut(p) \/ PollInterrupted(p)
             \/ ReadInterrupted(p)
      PROVE  Counted'
  <2>1. waiters' = waiters
    BY <1>5 DEF Check, PollReady, GiveUp, ReadEvent, NotifyStep, NotifyLoad,
       NotifyWrite, PollTimesOut, PollInterrupted, ReadInterrupted, Panic,
       LeaveSend, Continue
  <2>2. ASSUME NEW q \in Procs,
               pc'[q] \in OwedStages
        PROVE  pc[q] \in OwedStages
    BY <1>5, <2>2
       DEF Check, PollReady, GiveUp, ReadEvent, NotifyStep, NotifyLoad,
       NotifyWrite, PollTimesOut, PollInterrupted, ReadInterrupted, Panic,
       LeaveSend, Continue, Goto, Finished, Resume, OwedStages, IInv, Typed
  <2>3. \A s \in Side : Owed(s)' \subseteq Owed(s)
    BY <2>2 DEF Owed, WaitSide
  <2> QED
    BY <1>1, <2>1, <2>3
<1>6. CASE UNCHANGED vars
  <2>1. waiters' = waiters /\ pc' = pc
    BY <1>6 DEF vars, queueVars, header
  <2>2. \A s \in Side : Owed(s)' \subseteq Owed(s)
    BY <2>1 DEF Owed, WaitSide
  <2> QED
    BY <1>1, <2>1, <2>2
<1> QED
  BY <1>2, <1>3, <1>4, <1>5, <1>6 DEF Next, WaitStep

(* So no thread that waits is missing from it.                             *)
LEMMA CountedCovers == Counted => NoWaiterUncounted
<1> SUFFICES ASSUME Counted, NEW s \in Side
             PROVE  waiters[s] >= Cardinality(Announced(s))
  BY DEF NoWaiterUncounted
<1>1. Announced(s) \subseteq Owed(s) /\ IsFiniteSet(Owed(s))
  BY FiniteAssumption, FS_Subset DEF Announced, Owed, OwedStages
<1>2. /\ Cardinality(Announced(s)) <= Cardinality(Owed(s))
      /\ Cardinality(Announced(s)) \in Nat /\ Cardinality(Owed(s)) \in Nat
  BY <1>1, FS_Subset, FS_CardinalityType
<1> QED
  BY <1>2 DEF Counted

(* Errors and panics that leave wait early leave a count behind, but no    *)
(* thread between fetch_add and fetch_sub is ever missing from it.         *)
THEOREM NoWaiterUncountedHolds == Spec => []NoWaiterUncounted
BY IInvHolds, InitCounted, NextCounted, CountedCovers, PTL DEF Spec

-----------------------------------------------------------------------------
(* The ring with this control, as long as twice the queue size fits in a   *)
(* u32.  The count of the waiters, which steps of wait take from, stays    *)
(* natural because it covers those who are announced.                      *)

EInv ==
  /\ IInv
  /\ Counted
  /\ RingInv
  /\ DeadAtRest
  /\ signals \in 0 .. MaxSignals
  /\ notes \in Nat
  /\ lapse \in Lapses

LEMMA InitEInv ==
  ASSUME NoOverflow, Init
  PROVE  EInv
<1>1. RingInv
  BY InitRing DEF Init
<1>2. /\ DeadAtRest /\ signals \in 0 .. MaxSignals
      /\ notes \in Nat /\ lapse \in Lapses
  BY MaxSignalsAssumption DEF Init, QueueInit, DeadAtRest, Procs, Lapses
<1> QED
  BY <1>1, <1>2, InitIInv, InitCounted DEF EInv

(* send and recv leave the offsets of the dead alone.                      *)
LEMMA QueueLeavesTheDead ==
  ASSUME EInv, QueueNext
  PROVE  DeadAtRest'
<1> SUFFICES ASSUME NEW w \in Writers, pc'[w] = "dead"
             PROVE  right_offset'[w] = 0 /\ total_written'[w] = 0
  BY DEF DeadAtRest
<1>1. pc[w] = "dead"
  <2>1. \/ pc'[w] = pc[w]
        \/ pc'[w] \in Stages
    BY QueueGoes DEF EInv, Procs
  <2> QED
    BY <2>1 DEF Stages
<1>2. /\ right_offset'[w] = right_offset[w]
      /\ total_written'[w] = total_written[w]
  <2>1. /\ right_offset \in [Writers -> Offsets]
        /\ total_written \in [Writers -> Offsets]
    BY DEF EInv, RingInv, RingTyped, QueueTypeOK
  <2>2. ASSUME NEW p \in Procs, New(p)
        PROVE  UNCHANGED writerLocals
    BY <2>2 DEF New
  <2>3. ASSUME NEW r \in Readers, ReaderStep(r) \/ RecvPanic(r)
        PROVE  UNCHANGED writerLocals
    BY <2>3 DEF ReaderStep, RecvLock, RecvTake, RecvEmpty, RecvCommit,
       RecvUnlock, RecvPanic, LeaveRecv
  <2>4. ASSUME NEW v \in Writers, SendLock(v) \/ WriterStep(v)
        PROVE  UNCHANGED writerLocals
               \/ /\ v # w
                  /\ \A u \in Writers \ {v} :
                       /\ right_offset'[u] = right_offset[u]
                       /\ total_written'[u] = total_written[u]
    BY <1>1, <2>1, <2>4 DEF WriterStep, SendLock, WriteLoad, WriteCopy,
       LockLeft, FixOffsets, SendCommit, SendAbort, Flush, SendUnlock,
       LeaveSend, writerLocals
  <2> QED
    BY <2>2, <2>3, <2>4 DEF QueueNext, writerLocals
<1> QED
  BY <1>1, <1>2 DEF EInv, DeadAtRest

\* A step of wait or notify, but for poll that can fail.
EventStep(p) ==
  \/ WaitStep(p) \/ NotifyStep(p)
  \/ PollTimesOut(p) \/ PollInterrupted(p) \/ ReadInterrupted(p)

\* A receiver has nothing in its store buffer for write to drain.
LEMMA ReaderNotifies ==
  ASSUME NEW p \in Procs, NotifyWrite(p), p \notin Writers
  PROVE  Continue(p, Finished(p))
BY DEF NotifyWrite, Continue, kept, ring

(* Whatever wait and notify do, panic included, the ring stays in order.   *)
LEMMA EventRing ==
  ASSUME NoOverflow, EInv, Counted', NEW p \in Procs, EventStep(p)
  PROVE  RingInv' /\ DeadAtRest'
<1>0. waiters' \in [Side -> Nat] /\ p \in Writers \cup Readers
  BY DEF Counted, Procs
<1>1. ASSUME NEW stage \in AllStages, Goto(p, stage),
             UNCHANGED <<lock, kept>>,
             seen' \in {seen, [seen EXCEPT ![p] = 0]},
             p \in Writers =>
               \/ pc[p] \in WaitStages /\ stage \in WaitStages \cup {"write"}
               \/ /\ pc[p] \in NotifyStages
                  /\ stage \in NotifyStages \cup {"unlock"},
             p \in Readers =>
               /\ pc[p] \in WaitStages \cup NotifyStages
               /\ stage \in WaitStages \cup NotifyStages \cup {"idle", "dead"}
      PROVE  RingInv' /\ DeadAtRest'
  <2>1. UNCHANGED WaitKeeps
    BY <1>1 DEF kept, WaitKeeps
  <2>2. RingInv'
    BY <1>0, <1>1, <2>1, WaitingRing DEF EInv
  <2>3. \A w \in Writers : pc'[w] = "dead" => pc[w] = "dead"
    BY <1>1 DEF Goto, EInv, IInv, Typed, Procs
  <2>4. DeadAtRest'
    BY <1>1, <2>3 DEF EInv, DeadAtRest, kept, writerLocals
  <2> QED
    BY <2>2, <2>4
<1>2. ASSUME Panic(p), pc[p] \in {"giveUp", "readEvent"}
      PROVE  RingInv' /\ DeadAtRest'
  <2>1. CASE p \in Writers /\ LeaveSend(p, "dead")
    <3>1. RingInv'
      BY <1>2, <2>1, LeaveSendRing DEF EInv, Outside
    <3>2. DeadAtRest'
      <4>1. /\ right_offset' = [right_offset EXCEPT ![p] = 0]
            /\ total_written' = [total_written EXCEPT ![p] = 0]
            /\ \A w \in Writers \ {p} : pc'[w] = pc[w]
        BY <2>1 DEF LeaveSend, Goto, EInv, IInv, Typed, Procs
      <4>2. /\ right_offset \in [Writers -> Offsets]
            /\ total_written \in [Writers -> Offsets]
        BY DEF EInv, RingInv, RingTyped, QueueTypeOK
      <4> QED
        BY <4>1, <4>2 DEF EInv, DeadAtRest
    <3> QED
      BY <3>1, <3>2
  <2>2. CASE p \in Readers /\ Continue(p, "dead")
    <3>1. "dead" \in AllStages /\ p \notin Writers
      BY <2>2 DEF AllStages
    <3> QED
      BY <1>1, <1>2, <2>2, <3>1 DEF Continue
  <2> QED
    BY <1>2, <2>1, <2>2 DEF Panic
<1>3. CASE WaitEnter(p)
  BY <1>1, <1>3 DEF WaitEnter, AllStages
<1>4. ASSUME NEW stage \in {"poll", "leave", "readEvent", "giveUp"},
             Continue(p, stage), pc[p] \in {"check", "poll", "readEvent"}
      PROVE  RingInv' /\ DeadAtRest'
  <2>1. stage \in AllStages
    BY DEF AllStages
  <2> QED
    BY <1>1, <1>4, <2>1 DEF Continue
<1>5. CASE Check(p) \/ PollReady(p) \/ PollTimesOut(p) \/ PollInterrupted(p)
  BY <1>4, <1>5 DEF Check, PollReady, PollTimesOut, PollInterrupted
<1>6. CASE GiveUp(p) \/ ReadEvent(p)
  BY <1>2, <1>4, <1>6 DEF GiveUp, ReadEvent
<1>7. CASE ReadInterrupted(p) \/ WaitLeave(p)
  <2>1. /\ Resume(p) /\ UNCHANGED <<lock, kept>>
        /\ pc[p] \in {"readEvent", "leave"}
    BY <1>7 DEF ReadInterrupted, WaitLeave
  <2>2. CASE p \in Writers
    BY <1>1, <2>1, <2>2 DEF Resume, AllStages
  <2>3. CASE p \in Readers
    BY <1>1, <2>1, <2>3 DEF Resume, AllStages
  <2> QED
    BY <1>0, <2>2, <2>3
<1>8. CASE NotifyWrite(p) /\ p \in Writers
  <2>1. /\ pc[p] \in NotifyStages /\ Drain(p) /\ Goto(p, "unlock")
        /\ UNCHANGED <<cached, waiters, lock, mem, seen, writerLocals,
                       readerLocals, history>>
    BY <1>8, ProcsAssumption DEF NotifyWrite, Finished
  <2>2. RingInv'
    BY <1>8, <2>1, NotifyDrainsRing DEF EInv
  <2>3. DeadAtRest'
    BY <2>1 DEF Goto, EInv, IInv, Typed, DeadAtRest, writerLocals, Procs
  <2> QED
    BY <2>2, <2>3
<1>9. CASE NotifyLoad(p) \/ (NotifyWrite(p) /\ p \notin Writers)
  <2>1. /\ \E stage \in {"writeEvent", Finished(p)} : Continue(p, stage)
        /\ pc[p] \in {"notify", "writeEvent"}
    BY <1>9, ReaderNotifies DEF NotifyLoad, NotifyWrite
  <2>2. CASE p \in Writers
    BY <1>1, <2>1, <2>2 DEF Continue, Finished, AllStages
  <2>3. CASE p \in Readers
    BY <1>1, <2>1, <2>3 DEF Continue, Finished, AllStages
  <2> QED
    BY <1>0, <2>2, <2>3
<1> QED
  BY <1>3, <1>5, <1>6, <1>7, <1>8, <1>9 DEF EventStep, WaitStep, NotifyStep

LEMMA NextEInv ==
  ASSUME NoOverflow, EInv, [Next]_vars
  PROVE  EInv'
<1>1. IInv' /\ Counted'
  BY NextIInv, NextCounted DEF EInv
<1>2. signals' \in 0 .. MaxSignals
  <2>1. signals' = signals \/ Signal
    BY DEF Next, EventStep, WaitStep, NotifyStep, WaitEnter, Check, PollReady,
       GiveUp, ReadEvent, WaitLeave, NotifyLoad, NotifyWrite, PollTimesOut,
       PollInterrupted, ReadInterrupted, vars, eventVars
  <2> QED
    BY <2>1, MaxSignalsAssumption DEF Signal, EInv
<1>3. notes' \in Nat /\ lapse' \in Lapses
  BY DEF Next, EventStep, WaitStep, NotifyStep, WaitEnter, Check, PollReady,
     GiveUp, ReadEvent, WaitLeave, NotifyLoad, NotifyWrite, PollTimesOut,
     PollInterrupted, ReadInterrupted, vars, eventVars, wakeups, Lapses, EInv
<1>4. CASE UNCHANGED vars
  <2>1. RingInv'
    BY <1>4, StutterRing DEF vars, EInv
  <2>2. DeadAtRest'
    BY <1>4 DEF vars, queueVars, writerLocals, EInv, DeadAtRest
  <2> QED
    BY <1>1, <1>2, <1>3, <2>1, <2>2 DEF EInv
<1>5. CASE QueueNext
  BY <1>1, <1>2, <1>3, <1>5, QueueRing, QueueLeavesTheDead DEF EInv
<1>6. ASSUME NEW p \in Procs, EventStep(p)
      PROVE  EInv'
  BY <1>1, <1>2, <1>3, <1>6, EventRing DEF EInv
<1> QED
  BY <1>4, <1>5, <1>6 DEF Next, EventStep

LEMMA EInvHolds ==
  ASSUME NoOverflow
  PROVE  Spec => []EInv
<1>1. Init => EInv
  BY InitEInv
<1>2. EInv /\ [Next]_vars => EInv'
  BY NextEInv
<1> QED
  BY <1>1, <1>2, PTL DEF Spec

(* Every variable has its type; in particular no wait, however it ends,    *)
(* takes the count of the waiters below zero.                              *)
THEOREM TypeCorrect ==
  ASSUME NoOverflow
  PROVE  Spec => []TypeOK
<1>1. EInv => TypeOK
  BY DEF EInv, IInv, Typed, RingInv, RingTyped, TypeOK
<1> QED
  BY <1>1, EInvHolds, PTL

(* What makes the ring safe holds with this control as well, through       *)
(* panics in wait and interrupted system calls: the offsets stay in        *)
(* bounds, a writer overwrites nothing unread, the slice of a callback     *)
(* stays put, no subtraction underflows and no cache runs ahead.           *)
THEOREM RingIsSafe ==
  ASSUME NoOverflow
  PROVE  Spec => [](/\ OffsetsInBounds /\ WriterOwnsSpace /\ ReaderOwnsSlice
                    /\ NoUnderflow /\ CachesLag)
<1>1. EInv => /\ OffsetsInBounds /\ WriterOwnsSpace /\ ReaderOwnsSlice
              /\ NoUnderflow /\ CachesLag
  BY OffsetsInBoundsHere, WriterOwnsSpaceHere, ReaderOwnsSliceHere,
     NoUnderflowHere DEF EInv, RingInv
<1> QED
  BY <1>1, EInvHolds, PTL

(* Offsets only ever move forward, or both back in a wrap.                 *)
LEMMA NextOffsets ==
  ASSUME NoOverflow, EInv, [Next]_vars
  PROVE  Forward \/ Wrap
<1>0. RingInv
  BY DEF EInv
<1>1. CASE UNCHANGED vars
  BY <1>0, <1>1, StillForward DEF vars, queueVars, header
<1>2. ASSUME NEW p \in Procs, EventStep(p)
      PROVE  Forward
  <2>1. ASSUME p \in Writers, LeaveSend(p, "dead"),
               pc[p] \in {"giveUp", "readEvent"}
        PROVE  Forward
    BY <1>0, <2>1, DrainForward DEF LeaveSend, Outside
  <2>2. CASE UNCHANGED offset
    BY <1>0, <2>2, StillForward
  <2>3. CASE NotifyWrite(p)
    <3>1. CASE p \in Writers /\ Drain(p)
      BY <1>0, <2>3, <3>1, DrainForward DEF NotifyWrite, Outside
    <3> QED
      BY <2>2, <2>3, <3>1 DEF NotifyWrite
  <2> QED
    BY <1>2, <2>1, <2>2, <2>3 DEF EventStep, WaitStep, NotifyStep, WaitEnter,
       Check, PollReady, GiveUp, ReadEvent, WaitLeave, NotifyLoad,
       PollTimesOut, PollInterrupted, ReadInterrupted, Panic, Continue, kept
<1> QED
  BY <1>0, <1>1, <1>2, QueueOffsets DEF Next, EventStep

(* fix_offsets moves both offsets at once, past no reader and no store.    *)
THEOREM WrapIsAtomicHolds ==
  ASSUME NoOverflow
  PROVE  Spec => WrapIsAtomic
<1>1. EInv /\ [Next]_vars =>
        [(\E s \in Side : offset'[s] < offset[s]) =>
           /\ \A s \in Side : offset'[s] = offset[s] - QueueSize
           /\ \A r \in Readers : pc[r] \notin {"load", "read", "unlock"}
           /\ \A w \in Writers : buffered[w] = NoStore]_offset
  <2> SUFFICES ASSUME EInv, [Next]_vars
               PROVE  [(\E s \in Side : offset'[s] < offset[s]) =>
           /\ \A s \in Side : offset'[s] = offset[s] - QueueSize
           /\ \A r \in Readers : pc[r] \notin {"load", "read", "unlock"}
           /\ \A w \in Writers : buffered[w] = NoStore]_offset
    OBVIOUS
  <2>1. RingInv /\ RingInv' /\ (Forward \/ Wrap)
    BY NextEInv, NextOffsets DEF EInv
  <2> QED
    BY <2>1, WrapIsAtomicHere
<1> QED
  BY <1>1, EInvHolds, PTL DEF Spec, WrapIsAtomic

-----------------------------------------------------------------------------
(* No sender that polls is forgotten.                                      *)

OnItsWay == \E r \in Readers : pc[r] \in {"unlock", "notify", "writeEvent"}

Awaited(w) == offset["Left"] = seen[w] \/ event["Left"] > 0 \/ OnItsWay

(* A thread that polls has checked the offset a moment before.             *)
LEMMA StartsToPoll ==
  ASSUME IInv, Next, NEW w \in Writers, pc[w] # "poll", pc'[w] = "poll"
  PROVE  offset'["Left"] = seen'[w]
<1>1. w \in Procs /\ pc \in [Procs -> Stages \cup EventStages]
  BY DEF Procs, IInv, Typed
<1>2. ~QueueNext
  BY <1>1, QueueGoes DEF Stages
<1>3. PICK p \in Procs : EventStep(p)
  BY <1>2 DEF Next, EventStep
<1>4. Check(p) /\ p = w
  BY <1>1, <1>3 DEF EventStep, WaitStep, NotifyStep, WaitEnter, Check,
     PollReady, GiveUp, ReadEvent, WaitLeave, NotifyLoad, NotifyWrite,
     PollTimesOut, PollInterrupted, ReadInterrupted, Panic, LeaveSend,
     Continue, Resume, Finished, Goto
<1>5. Check(p) => offset[WaitSide(p)] = seen[p]
  BY <1>1, <1>4 DEF Check, Continue, Goto
<1> QED
  BY <1>4, <1>5 DEF Check, Continue, kept, WaitSide

(* While a sender polls it has the right lock, so no other writer moves    *)
(* and nobody else reads the left event; the receiver that moves the left  *)
(* offset finds it counted, and so comes to write the event.               *)
LEMMA StaysAwaited ==
  ASSUME NoOverflow, EInv, Next,
         NEW w \in Writers, pc[w] = "poll", pc'[w] = "poll", Awaited(w)
  PROVE  Awaited(w)'
<1> USE DEF Goto, Procs
<1>0. /\ pc \in [Procs -> Stages \cup EventStages]
      /\ seen \in [Procs -> Offsets]
      /\ event \in [Side -> Nat] /\ "Left" \in Side
      /\ w \notin Readers
  BY SidesDiffer DEF EInv, IInv, Typed, RingInv, RingTyped, QueueTypeOK
<1>1. /\ \A v \in Writers \ {w} : pc[v] \in Outside
      /\ \A v \in Writers : buffered[v] = NoStore
      /\ lock["Right"] = w /\ Free # w
  <2>1. /\ RingInv /\ LocksHeld
        /\ pc[w] \notin Outside /\ pc[w] \in BeforeCommit
    BY DEF EInv, RingInv, Outside, BeforeCommit
  <2>2. \A v \in Writers \ {w} : pc[v] \in Outside
    BY <2>1, OthersOutside
  <2>3. \A v \in Writers : buffered[v] = NoStore
    BY <2>1, BeforeTheCommit
  <2> QED
    BY <2>1, <2>2, <2>3 DEF LocksHeld
<1>2. ASSUME UNCHANGED offset, seen'[w] = seen[w],
             event'["Left"] >= event["Left"], event'["Left"] \in Nat,
             \A r \in Readers : pc[r] \in {"unlock", "notify", "writeEvent"} =>
               pc'[r] \in {"unlock", "notify", "writeEvent"}
      PROVE  Awaited(w)'
  BY <1>0, <1>2 DEF Awaited, OnItsWay
<1>3. CASE QueueNext /\ UNCHANGED eventVars
  <2>0. event' = event
    BY <1>3 DEF eventVars
  <2>1. ASSUME NEW p \in Procs, New(p)
        PROVE  Awaited(w)'
    BY <1>0, <1>2, <2>0, <2>1 DEF New
  <2>2. ASSUME NEW v \in Writers, SendLock(v) \/ WriterStep(v)
        PROVE  FALSE
    <3>1. ~SendLock(v)
      BY <1>1 DEF SendLock, Take
    <3>2. ~Flush(v)
      BY <1>1 DEF Flush
    <3> QED
      BY <1>1, <2>2, <3>1, <3>2 DEF WriterStep, WriteLoad, WriteCopy,
         LockLeft, FixOffsets, SendCommit, SendAbort, SendUnlock, LeaveSend,
         Outside
  <2>3. ASSUME NEW r \in Readers, ReaderStep(r) \/ RecvPanic(r)
        PROVE  Awaited(w)'
    <3>1. CASE RecvLock(r) \/ RecvTake(r) \/ RecvEmpty(r)
      BY <1>0, <1>2, <2>0, <3>1 DEF RecvLock, RecvTake, RecvEmpty, LoadRight
    <3>2. CASE RecvCommit(r) \/ RecvUnlock(r)
      BY <1>0, <3>2 DEF RecvCommit, RecvUnlock, LeaveRecv, Awaited, OnItsWay
    <3>3. CASE RecvPanic(r)
      BY <1>0, <1>2, <2>0, <3>3 DEF RecvPanic, LeaveRecv
    <3> QED
      BY <2>3, <3>1, <3>2, <3>3 DEF ReaderStep
  <2> QED
    BY <1>3, <2>1, <2>2, <2>3 DEF QueueNext
<1>4. ASSUME NEW p \in Procs, EventStep(p)
      PROVE  Awaited(w)'
  <2>1. p \in Readers
    <3>1. p # w
      BY <1>0, <1>4 DEF EventStep, WaitStep, NotifyStep, WaitEnter, Check,
         PollReady, GiveUp, ReadEvent, WaitLeave, NotifyLoad, NotifyWrite,
         PollTimesOut, PollInterrupted, ReadInterrupted, Continue, Resume,
         Finished
    <3>2. pc[p] \notin Outside
      BY <1>4 DEF EventStep, WaitStep, NotifyStep, WaitEnter, Check,
         PollReady, GiveUp, ReadEvent, WaitLeave, NotifyLoad, NotifyWrite,
         PollTimesOut, PollInterrupted, ReadInterrupted, Outside
    <3> QED
      BY <1>1, <3>1, <3>2
  <2>2. p # w /\ p \notin Writers
        /\ WaitSide(p) = "Right" /\ NotifySide(p) = "Left"
    BY <1>0, <2>1 DEF WaitSide, NotifySide
  <2>3. CASE WaitStep(p) \/ PollTimesOut(p) \/ PollInterrupted(p)
             \/ ReadInterrupted(p)
    <3>1. UNCHANGED offset /\ seen'[w] = seen[w]
      BY <1>0, <2>2, <2>3 DEF WaitStep, WaitEnter, Check, PollReady, GiveUp,
         ReadEvent, WaitLeave, PollTimesOut, PollInterrupted,
         ReadInterrupted, Continue, Resume, Panic, kept
    <3>2. event'["Left"] >= event["Left"] /\ event'["Left"] \in Nat
      BY <1>0, <2>2, <2>3, DeadAssumption
      DEF WaitStep, WaitEnter, Check, PollReady, GiveUp,
         ReadEvent, WaitLeave, PollTimesOut, PollInterrupted,
         ReadInterrupted, AddTo, eventVars
    <3>3. \A r \in Readers : pc[r] \in {"unlock", "notify", "writeEvent"} =>
            pc'[r] \in {"unlock", "notify", "writeEvent"}
      BY <1>0, <2>2, <2>3 DEF WaitStep, WaitEnter, Check, PollReady, GiveUp,
         ReadEvent, WaitLeave, PollTimesOut, PollInterrupted,
         ReadInterrupted, Continue, Resume, Panic
    <3> QED
      BY <1>2, <3>1, <3>2, <3>3
  <2>4. CASE NotifyLoad(p)
    <3>1. waiters["Left"] # 0
      <4>1. w \in Announced("Left") /\ IsFiniteSet(Announced("Left"))
        BY FiniteAssumption, FS_Subset DEF Announced, WaitSide
      <4>2. Cardinality(Announced("Left")) \in Nat
            /\ Cardinality(Announced("Left")) # 0
        BY <4>1, FS_EmptySet, FS_CardinalityType
      <4> QED
        BY <1>0, <4>2, CountedCovers DEF EInv, Counted, NoWaiterUncounted
    <3>2. pc'[p] = "writeEvent"
      BY <1>0, <2>2, <2>4, <3>1 DEF NotifyLoad, Continue
    <3> QED
      BY <2>1, <3>2 DEF Awaited, OnItsWay
  <2>5. CASE NotifyWrite(p)
    BY <1>0, <2>2, <2>5 DEF NotifyWrite, AddTo, Awaited
  <2> QED
    BY <1>4, <2>3, <2>4, <2>5 DEF EventStep, NotifyStep
<1> QED
  BY <1>3, <1>4 DEF Next, EventStep

(* A sender that polls has seen the latest left offset, or has an event to *)
(* read, or a receiver is about to write it one, whoever panics meanwhile. *)
THEOREM NoStrandedWriterHolds ==
  ASSUME NoOverflow
  PROVE  Spec => []NoStrandedWriter
<1>1. Init => NoStrandedWriter
  BY DEF Init, QueueInit, NoStrandedWriter, Procs
<1>2. ASSUME EInv, NoStrandedWriter, [Next]_vars
      PROVE  NoStrandedWriter'
  <2>1. CASE UNCHANGED vars
    BY <1>2, <2>1 DEF vars, queueVars, header, eventVars, NoStrandedWriter
  <2>2. CASE Next
    <3> SUFFICES ASSUME NEW w \in Writers, pc'[w] = "poll"
                 PROVE  Awaited(w)'
      BY DEF NoStrandedWriter, Awaited, OnItsWay
    <3>1. CASE pc[w] = "poll"
      <4>1. Awaited(w)
        BY <1>2, <3>1 DEF NoStrandedWriter, Awaited, OnItsWay
      <4> QED
        BY <1>2, <2>2, <3>1, <4>1, StaysAwaited
    <3>2. CASE pc[w] # "poll"
      <4>1. offset'["Left"] = seen'[w]
        BY <1>2, <2>2, <3>2, StartsToPoll DEF EInv
      <4> QED
        BY <4>1 DEF Awaited
    <3> QED
      BY <3>1, <3>2
  <2> QED
    BY <1>2, <2>1, <2>2
<1> QED
  BY <1>1, <1>2, EInvHolds, PTL DEF Spec

-----------------------------------------------------------------------------
(* The queue is a bounded channel.                                         *)

(* wait and notify are invisible, even when wait panics in the middle of a *)
(* message.                                                                *)
LEMMA EventFifo ==
  ASSUME NoOverflow, EInv, FifoInv, NEW p \in Procs, EventStep(p)
  PROVE  FifoInv' /\ UNCHANGED Channel
<1>0. RingInv /\ pc \in [Procs -> Stages \cup EventStages]
  BY DEF EInv, IInv, Typed
<1>1. CASE UNCHANGED kept
  <2>1. \A w \in Writers : pc'[w] \in BeforeCommit => pc[w] \in BeforeCommit
    BY <1>0, <1>1 DEF EventStep, WaitStep, NotifyStep, WaitEnter, Check,
       PollReady, GiveUp, ReadEvent, WaitLeave, NotifyLoad, NotifyWrite,
       PollTimesOut, PollInterrupted, ReadInterrupted, Panic, Continue,
       LeaveSend, Resume, Finished, Goto, BeforeCommit, Procs
  <2>2. RightEnd' = RightEnd
    BY <1>1 DEF RightEnd, kept, ring
  <2> QED
    BY <1>0, <1>1, <2>1, <2>2, QuietFifo DEF kept, ring, writerLocals, history
<1>2. ASSUME p \in Writers, LeaveSend(p, "dead"),
             pc[p] \in {"giveUp", "readEvent"}
      PROVE  FifoInv' /\ UNCHANGED Channel
  BY <1>0, <1>2, LeaveSendFifo DEF Outside
<1>3. CASE NotifyWrite(p) /\ p \in Writers
  <2>1. RightEnd' = RightEnd /\ offset'["Left"] = offset["Left"]
    BY <1>0, <1>3, DrainLemma DEF NotifyWrite, Outside
  <2>2. \A w \in Writers : pc'[w] \in BeforeCommit => pc[w] \in BeforeCommit
    BY <1>0, <1>3 DEF NotifyWrite, Finished, Goto, BeforeCommit, Procs
  <2> QED
    BY <1>0, <1>3, <2>1, <2>2, QuietFifo
    DEF NotifyWrite, writerLocals, history
<1>4. CASE NotifyWrite(p) /\ p \notin Writers
  BY <1>1, <1>4, ReaderNotifies DEF Continue
<1> QED
  BY <1>1, <1>2, <1>3, <1>4 DEF EventStep, WaitStep, NotifyStep, WaitEnter,
     Check, PollReady, GiveUp, ReadEvent, WaitLeave, NotifyLoad,
     PollTimesOut, PollInterrupted, ReadInterrupted, Panic, Continue

LEMMA NextFifo ==
  ASSUME NoOverflow, EInv, FifoInv, [Next]_vars
  PROVE  FifoInv' /\ [Fifo!Next]_Channel
<1>0. RingInv
  BY DEF EInv
<1>1. CASE UNCHANGED vars
  <2>1. UNCHANGED <<mem, sent, received, started, offset, buffered, pc,
                    right_offset, total_written>>
    BY <1>1 DEF vars, queueVars, header, ring, writerLocals, history
  <2>2. RightEnd' = RightEnd
    BY <2>1 DEF RightEnd
  <2> QED
    BY <1>0, <2>1, <2>2, QuietFifo
<1> QED
  BY <1>0, <1>1, EventFifo, QueueFifo DEF Next, EventStep

(* The queue implements the bounded channel with this control too: a send  *)
(* that ends in a panic of wait leaves nothing of its message behind, and  *)
(* the messages of the others are delivered whole, unchanged and in order. *)
THEOREM ImplementsFifoHolds ==
  ASSUME NoOverflow
  PROVE  Spec => ImplementsFifo
<1>1. Init => FifoInv /\ Fifo!Init
  BY InitFifo DEF Init
<1>2. EInv /\ FifoInv /\ [Next]_vars => FifoInv' /\ [Fifo!Next]_Channel
  BY NextFifo
<1> QED
  BY <1>1, <1>2, EInvHolds, PTL DEF Spec, ImplementsFifo, Fifo!Spec, Channel

-----------------------------------------------------------------------------
(* No message is left to receivers that poll, but for the three ways in    *)
(* which a wakeup is lost: lapse tells of each of them.                    *)

Down == {"wait", "check", "poll", "readEvent", "giveUp", "dead"}

Notifying == \E w \in Writers : pc[w] \in {"notify", "writeEvent"}

(* When all receivers are down or dead, the last one that looked knows the *)
(* left offset: if there is a message by now, it finds out before it polls *)
(* or it is notified, or a sender is about to notify it, or the wakeup is  *)
(* lost.                                                                   *)
Looks ==
  Readers # {} /\ (\A r \in Readers : pc[r] \in Down) =>
    \E r \in Readers :
      /\ Behind(r)
      /\ offset["Left"] < offset["Right"] =>
           \/ pc[r] \in {"wait", "check"}
           \/ notes > 0
           \/ Notifying
           \/ lapse # "none"

(* A commit still in the store buffer after notify has overtaken it is     *)
(* recorded before it shows.                                               *)
LookInv ==
  /\ notes <= event["Right"]
  /\ \A w \in Writers :
       pc[w] = "unlock" /\ buffered[w] # NoStore => lapse # "none"
  /\ Looks

LEMMA InitLook == Init => LookInv
BY SidesDiffer
   DEF Init, QueueInit, LookInv, Looks, Down, Procs

(* A receiver that has counted itself is counted, dead or alive.           *)
LEMMA ReceiverCounted ==
  ASSUME EInv, NEW r \in Readers, pc[r] \in OwedStages
  PROVE  waiters["Right"] # 0
<1>1. r \in Owed("Right") /\ IsFiniteSet(Owed("Right"))
  BY FiniteAssumption, FS_Subset, SidesDiffer DEF Owed, Procs
<1>2. Cardinality(Owed("Right")) \in Nat /\ Cardinality(Owed("Right")) # 0
  BY <1>1, FS_EmptySet, FS_CardinalityType
<1> QED
  BY <1>2, SidesDiffer DEF EInv, Counted

(* Tokens are read by receivers and all at once, and nothing but notify    *)
(* adds to notes.                                                          *)
LEMMA EventNotes ==
  ASSUME EInv, LookInv, NEW p \in Procs, EventStep(p)
  PROVE  /\ notes' <= event'["Right"]
         /\ \/ notes' = notes
            \/ NotifyWrite(p) /\ p \in Writers /\ notes' > 0
            \/ ReadEvent(p) /\ p \in Readers
<1>0. /\ event \in [Side -> Nat] /\ notes \in Nat /\ notes <= event["Right"]
      /\ "Left" \in Side /\ "Right" \in Side /\ DEAD \in Nat
  BY SidesDiffer, DeadAssumption DEF EInv, IInv, Typed, LookInv
<1>1. CASE NotifyWrite(p)
  <2>1. CASE p \in Writers
    <3>1. NotifySide(p) = "Right" /\ p \notin Readers
      BY <2>1, ProcsAssumption DEF NotifySide
    <3> QED
      BY <1>0, <1>1, <2>1, <3>1 DEF NotifyWrite, AddTo
  <2>2. CASE p \in Readers
    <3>1. NotifySide(p) = "Left" /\ p \notin Writers
      BY <2>2, ProcsAssumption DEF NotifySide
    <3> QED
      BY <1>0, <1>1, <2>2, <3>1 DEF NotifyWrite, AddTo
  <2> QED
    BY <2>1, <2>2 DEF Procs
<1>2. CASE GiveUp(p)
  BY <1>0, <1>2 DEF GiveUp, AddTo, wakeups, NotifySide
<1>3. CASE ReadEvent(p)
  <2>1. CASE p \in Readers
    BY <1>0, <1>3, <2>1, SidesDiffer DEF ReadEvent
  <2>2. CASE p \in Writers
    <3>1. WaitSide(p) = "Left" /\ p \notin Readers
      BY <2>2, SidesDiffer, ProcsAssumption
    <3> QED
      BY <1>0, <1>3, <3>1 DEF ReadEvent
  <2> QED
    BY <2>1, <2>2 DEF Procs
<1>4. CASE ~(NotifyWrite(p) \/ GiveUp(p) \/ ReadEvent(p))
  BY <1>0, <1>4
  DEF EventStep, WaitStep, NotifyStep, WaitEnter, Check, PollReady, WaitLeave,
     NotifyLoad, PollTimesOut, PollInterrupted, ReadInterrupted, eventVars,
     wakeups
<1> QED
  BY <1>1, <1>2, <1>3, <1>4

(* A lapse is forgotten only by the next load of the waiters that is in    *)
(* order.                                                                  *)
LEMMA LapseStays ==
  ASSUME EInv, NEW p \in Procs, EventStep(p), lapse # "none"
  PROVE  \/ lapse' # "none"
         \/ NotifyLoad(p) /\ p \in Writers /\ ~Overtaken(p)
BY ProcsAssumption
DEF EventStep, WaitStep, NotifyStep, WaitEnter, Check, PollReady, GiveUp,
   ReadEvent, WaitLeave, NotifyLoad, NotifyWrite, PollTimesOut,
   PollInterrupted, ReadInterrupted, eventVars, wakeups, Procs

(* One step of one thread in wait or in notify: no commit becomes visible  *)
(* in it but in notify's write.                                            *)
LEMMA EventOffsets ==
  ASSUME NoOverflow, EInv, NEW p \in Procs, EventStep(p)
  PROVE  /\ offset'["Left"] = offset["Left"]
         /\ \/ /\ ~(NotifyWrite(p) /\ p \in Writers)
               /\ UNCHANGED <<offset, buffered>>
            \/ /\ NotifyWrite(p) /\ p \in Writers
               /\ \A w \in Writers : buffered'[w] = NoStore
<1>1. RingInv /\ offset \in [Side -> Offsets]
      /\ buffered \in [Writers -> Offsets \cup {NoStore}]
  BY DEF EInv, RingInv, RingTyped, QueueTypeOK
<1>2. CASE NotifyWrite(p) /\ p \in Writers
  BY <1>1, <1>2, DrainLemma DEF NotifyWrite, Outside
<1>3. CASE NotifyWrite(p) /\ p \notin Writers
  BY <1>3, ReaderNotifies DEF Continue, kept, ring
<1>4. ASSUME p \in Writers, LeaveSend(p, "dead"),
             pc[p] \in {"giveUp", "readEvent"}
      PROVE  ~NotifyWrite(p) /\ UNCHANGED <<offset, buffered>>
  <2>1. buffered[p] = NoStore
    BY <1>1, <1>4 DEF RingInv, BufferedInv, AfterCommit
  <2> QED
    BY <1>1, <1>4, <2>1 DEF LeaveSend, Drain, Drained, NotifyWrite
<1> QED
  BY <1>2, <1>3, <1>4 DEF EventStep, WaitStep, NotifyStep, WaitEnter, Check,
     PollReady, GiveUp, ReadEvent, WaitLeave, NotifyLoad, PollTimesOut,
     PollInterrupted, ReadInterrupted, Panic, Continue, kept, ring

LEMMA EventOvertakes ==
  ASSUME NoOverflow, EInv, LookInv, NEW p \in Procs, EventStep(p),
         NEW w \in Writers, pc'[w] = "unlock", buffered'[w] # NoStore
  PROVE  lapse' # "none"
<1>0. pc \in [Procs -> Stages \cup EventStages] /\ RingInv /\ w \in Procs
  BY DEF EInv, IInv, Typed, Procs
<1>1. buffered[w] # NoStore /\ pc[w] \in AfterCommit
  BY <1>0, EventOffsets DEF RingInv, BufferedInv
<1>2. ~(NotifyWrite(p) /\ p \in Writers)
  BY EventOffsets
<1>3. CASE p = w
  <2>1. NotifyLoad(p)
    BY <1>0, <1>1, <1>2, <1>3
    DEF EventStep, WaitStep, NotifyStep, WaitEnter, Check, PollReady, GiveUp,
       ReadEvent, WaitLeave, PollTimesOut, PollInterrupted, ReadInterrupted,
       AfterCommit
  <2>2. waiters["Right"] = 0
    BY <1>0, <1>3, <2>1 DEF NotifyLoad, NotifySide, Continue, Goto
  <2> QED
    BY <1>1, <1>3, <2>1, <2>2, ProcsAssumption DEF NotifyLoad, Overtaken
<1>4. CASE p # w
  <2>1. pc[w] = "unlock"
    BY <1>0, <1>4 DEF EventStep, WaitStep, NotifyStep, WaitEnter, Check,
       PollReady, GiveUp, ReadEvent, WaitLeave, NotifyLoad, NotifyWrite,
       PollTimesOut, PollInterrupted, ReadInterrupted, Panic, LeaveSend,
       Continue, Resume, Goto
  <2>2. lapse # "none"
    BY <1>1, <2>1 DEF LookInv
  <2>3. pc[p] # "notify" \/ p \notin Writers
    BY <1>0, <1>4, <2>1, OthersOutside DEF RingInv, Outside
  <2> QED
    BY <2>2, <2>3, LapseStays DEF NotifyLoad
<1> QED
  BY <1>3, <1>4

(* What the last receiver to look knows survives such a step.              *)
LEMMA EventLooks ==
  ASSUME NoOverflow, EInv, LookInv, NEW p \in Procs, EventStep(p)
  PROVE  Looks'
<1> USE DEF Goto
<1>0. /\ pc \in [Procs -> Stages \cup EventStages] /\ RingInv
      /\ seen \in [Procs -> Offsets] /\ offset \in [Side -> Offsets]
      /\ notes \in Nat
  BY DEF EInv, IInv, Typed, RingInv, RingTyped, QueueTypeOK
<1>1. SUFFICES ASSUME Readers # {}, \A r \in Readers : pc'[r] \in Down
               PROVE  \E r \in Readers :
                        /\ Behind(r)'
                        /\ offset'["Left"] < offset'["Right"] =>
                             \/ pc'[r] \in {"wait", "check"}
                             \/ notes' > 0
                             \/ Notifying'
                             \/ lapse' # "none"
  BY DEF Looks
<1>2. \A r \in Readers :
        /\ r \in Procs /\ r \notin Writers
        /\ WaitSide(r) = "Right" /\ Finished(r) = "idle"
  BY ProcsAssumption DEF Procs, WaitSide, Finished
\* A receiver that acts stays in wait or panics.
<1>3. p \in Readers =>
        /\ pc[p] \in Down
        /\ seen'[p] = seen[p]
        /\ ~ReadInterrupted(p) /\ ~WaitLeave(p) /\ ~NotifyStep(p)
  <2>1. p \in Readers => ~ReadInterrupted(p) /\ ~WaitLeave(p) /\ ~NotifyStep(p)
    BY <1>0, <1>1, <1>2 DEF ReadInterrupted, WaitLeave, NotifyStep,
       NotifyLoad, NotifyWrite, Continue, Resume, Down
  <2> QED
    BY <1>0, <1>1, <1>2, <2>1 DEF EventStep, WaitStep, WaitEnter, Check,
       PollReady, GiveUp, ReadEvent, PollTimesOut, PollInterrupted, Panic,
       Continue, Down
<1>4. \A r \in Readers \ {p} : pc'[r] = pc[r] /\ seen'[r] = seen[r]
  BY <1>0, <1>2 DEF EventStep, WaitStep, NotifyStep, WaitEnter, Check,
     PollReady, GiveUp, ReadEvent, WaitLeave, NotifyLoad, NotifyWrite,
     PollTimesOut, PollInterrupted, ReadInterrupted, Panic, Continue, Resume,
     LeaveSend
<1>5. PICK r \in Readers :
        /\ Behind(r)
        /\ offset["Left"] < offset["Right"] =>
             \/ pc[r] \in {"wait", "check"}
             \/ notes > 0
             \/ Notifying
             \/ lapse # "none"
  BY <1>1, <1>3, <1>4 DEF LookInv, Looks
<1>6. Behind(r)' /\ pc[r] \in Down
  <2>1. seen'[r] = seen[r] /\ offset'["Left"] = offset["Left"]
    BY <1>3, <1>4, EventOffsets
  <2> QED
    BY <1>1, <1>3, <1>4, <1>5, <2>1 DEF Behind
<1>7. CASE NotifyWrite(p) /\ p \in Writers
  BY <1>0, <1>6, <1>7 DEF NotifyWrite
<1>8. CASE ~(NotifyWrite(p) /\ p \in Writers)
  <2>1. SUFFICES ASSUME offset["Left"] < offset["Right"],
                        pc'[r] \notin {"wait", "check"}, ~(notes' > 0),
                        lapse' = "none"
                 PROVE  Notifying'
    BY <1>6, <1>8, EventOffsets
  \* An offset that has not changed has deceived r.
  <2>2. pc[r] \notin {"wait", "check"}
    <3>1. CASE p = r /\ Check(p)
      BY <1>0, <1>1, <1>2, <2>1, <3>1 DEF Check, Continue, Down, Deceived
    <3>2. CASE p = r /\ ~Check(p)
      BY <1>0, <1>2, <1>3, <2>1, <3>2 DEF EventStep, WaitStep, WaitEnter,
         PollReady, GiveUp, ReadEvent, PollTimesOut, PollInterrupted
    <3>3. CASE p # r
      BY <1>4, <2>1, <3>3
    <3> QED
      BY <3>1, <3>2, <3>3
  \* Whoever reads notifications for 0xDEAD is mistaken.
  <2>3. ~(notes > 0)
    <3>1. CASE ReadEvent(p) /\ p \in Readers
      <4>1. Mine(p) = DEAD
        BY <1>0, <1>1, <1>2, <3>1 DEF ReadEvent, Continue, Down
      <4> QED
        BY <2>1, <3>1, <4>1 DEF ReadEvent, Mistaken
    <3> QED
      BY <2>1, <3>1, EventNotes, <1>8
  <2>4. CASE NotifyLoad(p) /\ p \in Writers
    <3>1. waiters["Right"] # 0
      BY <1>6, <2>2, ReceiverCounted DEF Down, OwedStages
    <3>2. pc'[p] = "writeEvent"
      BY <1>0, <2>4, <3>1 DEF NotifyLoad, NotifySide, Continue
    <3> QED
      BY <2>4, <3>2 DEF Notifying
  <2>5. CASE ~(NotifyLoad(p) /\ p \in Writers)
    <3>1. PICK w \in Writers : pc[w] \in {"notify", "writeEvent"}
      BY <1>5, <2>1, <2>2, <2>3, <2>5, LapseStays DEF Notifying
    <3>2. pc'[w] = pc[w]
      BY <1>0, <1>2, <1>8, <2>5, <3>1 DEF EventStep, WaitStep, NotifyStep,
         WaitEnter, Check, PollReady, GiveUp, ReadEvent, WaitLeave, NotifyLoad,
         NotifyWrite, PollTimesOut, PollInterrupted, ReadInterrupted, Panic,
         Continue, Resume, LeaveSend, Procs
    <3> QED
      BY <3>1, <3>2 DEF Notifying
  <2> QED
    BY <2>4, <2>5
<1> QED
  BY <1>7, <1>8

(* send does not take a commit that is still buffered to unlock.           *)
LEMMA QueueUnlocks ==
  ASSUME EInv, QueueNext,
         NEW w \in Writers, pc'[w] = "unlock", buffered'[w] # NoStore
  PROVE  pc[w] = "unlock" /\ buffered[w] # NoStore
<1> USE DEF Goto
<1>1. /\ pc \in [Procs -> Stages \cup EventStages] /\ w \in Procs
      /\ buffered \in [Writers -> Offsets \cup {NoStore}] /\ w \notin Readers
      /\ buffered[w] # NoStore => pc[w] \in AfterCommit
  BY ProcsAssumption
  DEF EInv, IInv, Typed, RingInv, RingTyped, QueueTypeOK, BufferedInv, Procs
<1>2. ASSUME NEW p \in Procs, New(p)
      PROVE  pc[w] = "unlock" /\ buffered[w] # NoStore
  BY <1>1, <1>2 DEF New, header, ring
<1>3. ASSUME NEW v \in Writers, SendLock(v) \/ WriterStep(v)
      PROVE  pc[w] = "unlock" /\ buffered[w] # NoStore
  BY <1>1, <1>3 DEF SendLock, WriterStep, WriteLoad, WriteCopy, LockLeft,
     FixOffsets, SendCommit, SendAbort, Flush, SendUnlock, LeaveSend, Drain,
     AfterCommit, Procs, header, ring
<1>4. ASSUME NEW r \in Readers, ReaderStep(r) \/ RecvPanic(r)
      PROVE  pc[w] = "unlock" /\ buffered[w] # NoStore
  BY <1>1, <1>4 DEF ReaderStep, RecvLock, RecvTake, RecvEmpty, RecvCommit,
     RecvUnlock, RecvPanic, LeaveRecv, LoadRight, Procs, header, ring
<1> QED
  BY <1>2, <1>3, <1>4 DEF QueueNext

LEMMA NextLook ==
  ASSUME NoOverflow, EInv, LookInv, [Next]_vars
  PROVE  LookInv'
<1>1. CASE UNCHANGED vars
  BY <1>1 DEF vars, queueVars, eventVars, wakeups, header, ring, LookInv,
     Looks, Behind, Notifying
<1>2. ASSUME NEW p \in Procs, EventStep(p)
      PROVE  LookInv'
  BY <1>2, EventNotes, EventOvertakes, EventLooks DEF LookInv
<1>3. CASE QueueNext /\ UNCHANGED eventVars
  <2>0. /\ RingInv /\ RingTyped /\ Framed /\ pc \in [Procs -> AllStages]
        /\ pc \in [Procs -> Stages \cup EventStages]
        /\ UNCHANGED <<event, notes, lapse>>
    BY <1>3 DEF EInv, IInv, Typed, RingInv, RingTyped, eventVars, wakeups
  <2>1. RingInv'
    BY <1>3, <2>0, QueueRing
  \* Only notify takes a commit that is still buffered to unlock.
  <2>2. ASSUME NEW w \in Writers, pc'[w] = "unlock", buffered'[w] # NoStore
        PROVE  lapse # "none"
    BY <1>3, <2>0, <2>2, QueueUnlocks DEF LookInv
  <2>3. \/ \E r \in Readers : pc'[r] \in ReaderUp
        \/ \E r \in Readers : /\ pc'[r] = "wait"
                              /\ seen'[r] = offset'["Left"]
                              /\ offset'["Right"] = offset'["Left"]
        \/ /\ \A r \in Readers : pc'[r] = pc[r] /\ seen'[r] = seen[r]
           /\ \/ UNCHANGED offset
              \/ /\ offset'["Left"] = offset["Left"]
                 /\ \E w \in Writers :
                      \/ pc'[w] = "notify"
                      \/ buffered[w] # NoStore /\ pc[w] \in AfterCommit
              \/ Wrap /\ QueueSize <= offset["Left"]
    BY <1>3, <2>0, QueueMoves
  <2>4. ASSUME \E r \in Readers : pc'[r] \in ReaderUp
        PROVE  Looks'
    BY <2>4 DEF Looks, ReaderUp, Down
  <2>5. ASSUME NEW r \in Readers, pc'[r] = "wait",
               seen'[r] = offset'["Left"], offset'["Right"] = offset'["Left"]
        PROVE  Looks'
    <3>1. offset'["Left"] \in 0 .. 2 * QueueSize
      <4>1. offset'["Right"] \in 0 .. 2 * QueueSize
        BY <2>1 DEF RingInv, Framed, Framing
      <4> QED
        BY <2>5, <4>1
    <3>2. Behind(r)'
      BY <2>5, <3>1 DEF Behind
    <3> QED
      BY <2>5, <3>2 DEF Looks
  <2>6. ASSUME \A r \in Readers : pc'[r] = pc[r] /\ seen'[r] = seen[r],
               \/ UNCHANGED offset
               \/ /\ offset'["Left"] = offset["Left"]
                  /\ \E w \in Writers :
                       \/ pc'[w] = "notify"
                       \/ buffered[w] # NoStore /\ pc[w] \in AfterCommit
               \/ Wrap /\ QueueSize <= offset["Left"]
        PROVE  Looks'
    <3>1. SUFFICES ASSUME Readers # {}, \A r \in Readers : pc[r] \in Down
                   PROVE  \E r \in Readers :
                            /\ Behind(r)'
                            /\ offset'["Left"] < offset'["Right"] =>
                                 \/ pc'[r] \in {"wait", "check"}
                                 \/ notes' > 0
                                 \/ Notifying'
                                 \/ lapse' # "none"
      BY <2>6 DEF Looks
    <3>2. PICK r \in Readers :
            /\ Behind(r)
            /\ offset["Left"] < offset["Right"] =>
                 \/ pc[r] \in {"wait", "check"}
                 \/ notes > 0
                 \/ Notifying
                 \/ lapse # "none"
      BY <3>1 DEF LookInv, Looks
    <3>3. Notifying => Notifying'
      <4>1. \A w \in Writers :
              pc[w] \in {"notify", "writeEvent"} => pc'[w] = pc[w]
        BY <1>3, <2>0, QueueStages DEF Elsewhere, Procs
      <4> QED
        BY <4>1 DEF Notifying
    <3>4. pc'[r] = pc[r] /\ seen'[r] = seen[r]
      BY <2>6
    <3>5. CASE UNCHANGED offset
      BY <2>0, <3>2, <3>3, <3>4, <3>5 DEF Behind
    <3>6. ASSUME offset'["Left"] = offset["Left"], NEW w \in Writers,
                 \/ pc'[w] = "notify"
                 \/ buffered[w] # NoStore /\ pc[w] \in AfterCommit
          PROVE  Behind(r)' /\ (Notifying' \/ lapse' # "none")
      <4>1. Behind(r)'
        BY <3>2, <3>4, <3>6 DEF Behind
      <4>2. CASE pc'[w] = "notify"
        BY <4>1, <4>2 DEF Notifying
      <4>3. CASE buffered[w] # NoStore /\ pc[w] \in AfterCommit
        <5>1. pc[w] \in {"notify", "writeEvent", "unlock"}
          BY <2>0, <4>3 DEF AfterCommit, Stages, EventStages, Procs
        <5> QED
          BY <2>0, <3>3, <4>1, <4>3, <5>1 DEF Notifying, LookInv
      <4> QED
        BY <3>6, <4>2, <4>3
    <3>7. CASE Wrap /\ QueueSize <= offset["Left"]
      <4>1. Behind(r)' /\ (offset'["Left"] < offset'["Right"] =>
                             offset["Left"] < offset["Right"])
        BY <2>0, <3>2, <3>4, <3>7, BehindWraps
      <4> QED
        BY <2>0, <3>2, <3>3, <3>4, <4>1
    <3> QED
      BY <2>6, <3>5, <3>6, <3>7
  <2>7. Looks'
    BY <2>3, <2>4, <2>5, <2>6
  <2> QED
    BY <2>0, <2>2, <2>7 DEF LookInv
<1> QED
  BY <1>1, <1>2, <1>3 DEF Next, EventStep

(* A notification is an event to read.                                     *)
LEMMA LooksSuffices ==
  ASSUME EInv, LookInv
  PROVE  NoStrandedReaders
<1> SUFFICES ASSUME NEW live,
                    live = {r \in Readers : pc[r] \notin {"dead", "giveUp"}},
                    offset["Left"] < offset["Right"], live # {},
                    ~\E r \in live : pc[r] \notin {"poll", "readEvent"},
                    ~Notifying, lapse = "none"
             PROVE  event["Right"] > 0
  BY DEF NoStrandedReaders, Notifying
<1>1. /\ Readers # {}
      /\ \A r \in Readers : pc[r] \in {"poll", "readEvent", "giveUp", "dead"}
  OBVIOUS
<1>2. notes > 0 /\ notes <= event["Right"]
  BY <1>1 DEF LookInv, Looks, Down
<1>3. event["Right"] \in Nat /\ notes \in Nat
  BY SidesDiffer DEF EInv, IInv, Typed
<1> QED
  BY <1>2, <1>3

(* While there is a message, a live receiver is up, or has an event to     *)
(* read, or a sender is about to write it one, or the wakeup of the last   *)
(* send was lost in one of the three ways of lapse: whoever times out, is  *)
(* interrupted or dies, with as many sends as one likes, of any lengths,   *)
(* with commits that stay in a store buffer or not.                        *)
THEOREM NoStrandedReadersHolds ==
  ASSUME NoOverflow
  PROVE  Spec => []NoStrandedReaders
<1>1. Init => LookInv
  BY InitLook
<1>2. EInv /\ LookInv /\ [Next]_vars => LookInv'
  BY NextLook
<1>3. EInv /\ LookInv => NoStrandedReaders
  BY LooksSuffices
<1> QED
  BY <1>1, <1>2, <1>3, EInvHolds, PTL DEF Spec
==============================================================================
