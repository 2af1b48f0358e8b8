--------------------------- MODULE ShmemFutexQueue ---------------------------
(***************************************************************************)
(* A MemeQueue whose threads sleep and wake with ShmemFutexControl: wait   *)
(* and notify of src/src/control/shmem_futex.rs, on the futex that is the  *)
(* offset itself.  A sender sleeps on the left offset with the right lock  *)
(* in its hands; a receiver sleeps on the right offset and holds nothing.  *)
(***************************************************************************)
EXTENDS MemeQueue, FiniteSets

CONSTANTS
  Spins,        \* is spin_on_wait > 0?
  Spurious      \* may futex_wait return without a wake (a signal)?

ASSUME WaitAssumption == Spins \in BOOLEAN /\ Spurious \in BOOLEAN
ASSUME FiniteAssumption == IsFiniteSet(Procs)

vars == queueVars

FutexStages == {"futexWait", "asleep", "leave", "wake"}

TypeOK == QueueTypeOK /\ pc \in [Procs -> Stages \cup FutexStages]

Init == QueueInit

unchangedByWaiting ==
  <<cached, lock, mem, writerLocals, readerLocals, history>>

-----------------------------------------------------------------------------
(* wait *)

\* The spin sees the offset change.
SpinSees(p) ==
  /\ Spins
  /\ pc[p] = "wait"
  /\ offset[WaitSide(p)] # seen[p]
  /\ Resume(p)
  /\ UNCHANGED <<offset, waiters, buffered, unchangedByWaiting>>

\* A faulty wait that does not announce itself.
MutWaitEnter(p) ==
  /\ pc[p] = "wait"
  /\ Goto(p, "futexWait")
  /\ UNCHANGED <<offset, waiters, buffered, seen, unchangedByWaiting>>

\* No spin, or it saw nothing: announce a waiter.
WaitEnter(p) ==
  /\ pc[p] = "wait"
  /\ waiters' = [waiters EXCEPT ![WaitSide(p)] = @ + 1]
  /\ Goto(p, "futexWait")
  /\ UNCHANGED <<offset, buffered, seen, unchangedByWaiting>>

\* A faulty futex_wait that does not compare.
MutFutexWait(p) ==
  /\ pc[p] = "futexWait"
  /\ Goto(p, "asleep")
  /\ UNCHANGED <<offset, waiters, buffered, seen, unchangedByWaiting>>

\* futex_wait(offset, expected): the kernel compares and queues in one step.
FutexWait(p) ==
  /\ pc[p] = "futexWait"
  /\ Goto(p, IF offset[WaitSide(p)] = seen[p] THEN "asleep" ELSE "leave")
  /\ UNCHANGED <<offset, waiters, buffered, seen, unchangedByWaiting>>

SpuriousWake(p) ==
  /\ Spurious
  /\ pc[p] = "asleep"
  /\ Goto(p, "leave")
  /\ UNCHANGED <<offset, waiters, buffered, seen, unchangedByWaiting>>

\* A faulty wait that leaves without taking itself off the count.
MutWaitLeave(p) ==
  /\ pc[p] = "leave"
  /\ Resume(p)
  /\ UNCHANGED <<offset, waiters, buffered, unchangedByWaiting>>

WaitLeave(p) ==
  /\ pc[p] = "leave"
  /\ waiters' = [waiters EXCEPT ![WaitSide(p)] = @ - 1]
  /\ Resume(p)
  /\ UNCHANGED <<offset, buffered, unchangedByWaiting>>

-----------------------------------------------------------------------------
(* notify *)

\* The load of the waiters, which a buffered store does not hold up.
NotifyLoad(p) ==
  /\ pc[p] = "notify"
  /\ Goto(p, IF waiters[NotifySide(p)] # 0 THEN "wake" ELSE Finished(p))
  /\ UNCHANGED <<offset, waiters, buffered, seen, unchangedByWaiting>>

Asleep(side) ==
  {q \in Procs : WaitSide(q) = side /\ pc[q] = "asleep"}

\* futex_wake(offset, 1): the system call drains the store buffer, then
\* one of the sleepers, if there is any, leaves futex_wait.
NotifyWake(p) ==
  /\ pc[p] = "wake"
  /\ IF p \in Writers THEN Drain(p) ELSE UNCHANGED <<offset, buffered>>
  /\ \/ Asleep(NotifySide(p)) = {} /\ Goto(p, Finished(p))
     \/ \E q \in Asleep(NotifySide(p)) :
          pc' = [pc EXCEPT ![p] = Finished(p), ![q] = "leave"]
  /\ UNCHANGED <<waiters, seen, unchangedByWaiting>>

-----------------------------------------------------------------------------
WaitStep(p) ==
  SpinSees(p) \/ WaitEnter(p) \/ FutexWait(p) \/ WaitLeave(p)

NotifyStep(p) == NotifyLoad(p) \/ NotifyWake(p)

(* Every send has been made and every message received: the receivers      *)
(* sleep until somebody sends again.                                       *)
Quiescent ==
  /\ started = MaxSends
  /\ \A w \in Writers : pc[w] = "idle"
  /\ \A r \in Readers : pc[r] = "asleep"
  /\ offset["Left"] = offset["Right"]
  /\ UNCHANGED vars

Next ==
  \/ QueueNext
  \/ \E p \in Procs : WaitStep(p) \/ SpuriousWake(p) \/ NotifyStep(p)
  \/ Quiescent

Spec == Init /\ [][Next]_vars

(***************************************************************************)
(* Fairness: a thread that can take a step inside the library takes one    *)
(* eventually, callbacks return, and buffered stores become visible.  A    *)
(* receiver calls recv again, as the examples and benchmarks do; nobody is *)
(* obliged to call send, and no spurious wake is owed.                     *)
(***************************************************************************)
Fairness ==
  /\ \A p \in Procs : WF_vars(New(p) \/ WaitStep(p) \/ NotifyStep(p))
  /\ \A w \in Writers : WF_vars(WriterStep(w)) /\ WF_vars(Flush(w))
  /\ \A r \in Readers : WF_vars(ReaderStep(r))

FairSpec == Spec /\ Fairness

-----------------------------------------------------------------------------
(* Properties. *)

(* left_waiters and right_waiters count the threads between announcing     *)
(* themselves and leaving: notify skips the wake only if there is none.    *)
WaitersCounted ==
  \A s \in Side :
    waiters[s] = Cardinality({p \in Procs :
      WaitSide(p) = s /\ pc[p] \in {"futexWait", "asleep", "leave"}})

(* While there is a message to read, some receiver is up, or a sender is   *)
(* about to wake one.                                                      *)
NoStrandedReaders ==
  offset["Left"] < offset["Right"] =>
    \/ \E r \in Readers : pc[r] # "asleep"
    \/ \E w \in Writers : pc[w] \in {"notify", "wake"}

(* A sender sleeps only while the left offset is the one it saw, or a      *)
(* receiver is about to wake it.                                           *)
NoStrandedWriter ==
  \A w \in Writers : pc[w] = "asleep" =>
    \/ offset["Left"] = seen[w]
    \/ \E r \in Readers : pc[r] \in {"unlock", "notify", "wake"}

(* Every message that was committed is received: the benchmarks receive    *)
(* exactly as many messages as they send.                                  *)
AllReceived ==
  \A k \in 1 .. MaxSends : Len(sent) >= k ~> Len(received) >= k

(* Every send that took the lock returns, even when it has to wait for     *)
(* space in the middle of its message.                                     *)
SendsReturn ==
  \A w \in Writers : pc[w] = "write" ~> pc[w] = "idle"
==============================================================================
