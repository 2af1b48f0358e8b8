----------------------------- MODULE EventFdQueue -----------------------------
(***************************************************************************)
(* A MemeQueue whose threads sleep and wake with EventFdControl: wait and  *)
(* notify of src/src/control/eventfd.rs.  Each side has an event counter:  *)
(* notify adds 1 to it, a waiter polls it for five or six seconds and then *)
(* reads it, which takes all of it.  A poll that fails is taken for a      *)
(* deadlock: the waiter adds 0xDEAD to the event of the other side and     *)
(* panics.                                                                 *)
(*                                                                         *)
(* Receivers may be left asleep with a message in the queue.  The history  *)
(* variable lapse records each of the three ways in which that happens, so *)
(* that the properties can say that there is no other.                     *)
(***************************************************************************)
EXTENDS MemeQueue, FiniteSets

CONSTANTS
  DEAD,               \* 0xDEAD
  MaxSignals          \* bound on the number of system calls that signals interrupt

ASSUME DeadAssumption == DEAD \in Nat \ {0, 1}
ASSUME MaxSignalsAssumption == MaxSignals \in Nat
ASSUME FiniteAssumption == IsFiniteSet(Procs)

VARIABLES
  event,              \* the counters of left_event and right_event
  signals,            \* how many system calls a signal has interrupted
  (* history *)
  notes,              \* how much of the right event notify has put there
  lapse               \* what became of the last wakeup of a receiver

wakeups == <<notes, lapse>>
eventVars == <<event, signals, wakeups>>
vars == <<queueVars, eventVars>>

EventStages ==
  {"check", "poll", "giveUp", "readEvent", "leave", "writeEvent", "dead"}

Lapses == {"none", "overtaken", "deceived", "mistaken"}

TypeOK ==
  /\ QueueTypeOK
  /\ pc \in [Procs -> Stages \cup EventStages]
  /\ event \in [Side -> Nat]
  /\ signals \in 0 .. MaxSignals
  /\ notes \in Nat
  /\ lapse \in Lapses

Init ==
  /\ QueueInit
  /\ event = [s \in Side |-> 0]
  /\ signals = 0
  /\ notes = 0
  /\ lapse = "none"

\* The event that p waits for.
Mine(p) == event[WaitSide(p)]

AddTo(side, n) == event' = [event EXCEPT ![side] = @ + n]

Signal == signals < MaxSignals /\ signals' = signals + 1

kept == <<offset, cached, ring, writerLocals, readerLocals, history>>

\* A call of wait or notify goes on.
Continue(p, stage) ==
  /\ Goto(p, stage)
  /\ UNCHANGED <<waiters, lock, seen, kept>>

\* A faulty unwinding that forgets the guard of send.
MutPanic(p) == Continue(p, "dead")

\* wait panics.  Unwinding takes a sender out of send, which drops the right
\* guard; nobody takes the waiter off the count.
Panic(p) ==
  \/ p \in Writers /\ LeaveSend(p, "dead")
  \/ p \in Readers /\ Continue(p, "dead")

-----------------------------------------------------------------------------
(* wait *)

\* A faulty wait that does not announce itself.
MutWaitEnter(p) ==
  /\ pc[p] = "wait"
  /\ Continue(p, "check")
  /\ UNCHANGED eventVars

\* fetch_add: announce a waiter.
WaitEnter(p) ==
  /\ pc[p] = "wait"
  /\ waiters' = [waiters EXCEPT ![WaitSide(p)] = @ + 1]
  /\ Goto(p, "check")
  /\ UNCHANGED <<lock, seen, kept, eventVars>>

\* A faulty wait that polls whatever the offset is by now.
MutCheck(p) ==
  /\ pc[p] = "check"
  /\ Continue(p, "poll")
  /\ UNCHANGED eventVars

\* A receiver finds the right offset where it was, although there is a
\* message: a wrap has brought it back.
Deceived(p) ==
  /\ p \in Readers
  /\ offset["Right"] = seen[p]
  /\ offset["Left"] < offset["Right"]

\* The offset is loaded once more; poll only if it has not changed.
Check(p) ==
  /\ pc[p] = "check"
  /\ Continue(p, IF offset[WaitSide(p)] = seen[p] THEN "poll" ELSE "leave")
  /\ lapse' = IF Deceived(p) THEN "deceived" ELSE lapse
  /\ UNCHANGED <<event, signals, notes>>

\* A faulty wait that takes any result of poll for an event.
MutPollReady(p) ==
  /\ pc[p] = "poll"
  /\ Continue(p, "readEvent")
  /\ UNCHANGED eventVars

\* poll returns 1.
PollReady(p) ==
  /\ pc[p] = "poll"
  /\ Mine(p) > 0
  /\ Continue(p, "readEvent")
  /\ UNCHANGED eventVars

\* A faulty wait that polls again after a timeout.
MutPollTimesOut(p) ==
  /\ pc[p] = "poll"
  /\ Mine(p) = 0
  /\ Continue(p, "check")
  /\ UNCHANGED eventVars

\* poll returns 0 after its timeout ...
PollTimesOut(p) ==
  /\ pc[p] = "poll"
  /\ Mine(p) = 0
  /\ Continue(p, "giveUp")
  /\ UNCHANGED eventVars

\* ... or -1 because of a signal, which is treated alike.
PollInterrupted(p) ==
  /\ pc[p] = "poll"
  /\ Mine(p) = 0
  /\ Signal
  /\ Continue(p, "giveUp")
  /\ UNCHANGED <<event, wakeups>>

\* The other side is sent its 0xDEAD.
GiveUp(p) ==
  /\ pc[p] = "giveUp"
  /\ AddTo(NotifySide(p), DEAD)
  /\ Panic(p)
  /\ UNCHANGED <<signals, wakeups>>

\* A receiver takes as many notifications for the other side's 0xDEAD.
Mistaken(p) == p \in Readers /\ Mine(p) = DEAD /\ notes > 0

\* read takes the whole counter, and blocks while that is zero, as it may be
\* again after the poll.  Only 0xDEAD sharp is understood.
ReadEvent(p) ==
  /\ pc[p] = "readEvent"
  /\ Mine(p) > 0
  /\ event' = [event EXCEPT ![WaitSide(p)] = 0]
  /\ IF Mine(p) = DEAD THEN Panic(p) ELSE Continue(p, "leave")
  /\ notes' = IF p \in Readers THEN 0 ELSE notes
  /\ lapse' = IF Mistaken(p) THEN "mistaken" ELSE lapse
  /\ UNCHANGED signals

\* A signal interrupts a read that blocks.  wait returns an error without
\* fetch_sub; a write_all in the send callback goes on writing, recv returns.
ReadInterrupted(p) ==
  /\ pc[p] = "readEvent"
  /\ Mine(p) = 0
  /\ Signal
  /\ Resume(p)
  /\ UNCHANGED <<waiters, lock, kept, event, wakeups>>

\* fetch_sub, and wait returns.
WaitLeave(p) ==
  /\ pc[p] = "leave"
  /\ waiters' = [waiters EXCEPT ![WaitSide(p)] = @ - 1]
  /\ Resume(p)
  /\ UNCHANGED <<lock, kept, eventVars>>

-----------------------------------------------------------------------------
(* notify *)

\* A sender has loaded the waiters, and found none, before its commit is
\* visible: a receiver may still announce itself and see the old offset.
Overtaken(w) == buffered[w] # NoStore /\ waiters["Right"] = 0

\* The load of the waiters, which a buffered store does not hold up.
NotifyLoad(p) ==
  /\ pc[p] = "notify"
  /\ Continue(p, IF waiters[NotifySide(p)] # 0 THEN "writeEvent"
                 ELSE Finished(p))
  /\ lapse' = IF p \in Readers THEN lapse
              ELSE IF Overtaken(p) THEN "overtaken" ELSE "none"
  /\ UNCHANGED <<event, signals, notes>>

\* write adds 1 to the counter; a sender's store buffer is drained on the
\* way, as by every system call.
NotifyWrite(p) ==
  /\ pc[p] = "writeEvent"
  /\ AddTo(NotifySide(p), 1)
  /\ \/ p \in Writers /\ Drain(p) /\ notes' = notes + 1
     \/ p \in Readers /\ UNCHANGED <<offset, buffered, notes>>
  /\ Goto(p, Finished(p))
  /\ UNCHANGED <<cached, waiters, lock, mem, seen, writerLocals,
                 readerLocals, history, signals, lapse>>

-----------------------------------------------------------------------------
WaitStep(p) ==
  WaitEnter(p) \/ Check(p) \/ PollReady(p) \/ GiveUp(p) \/ ReadEvent(p)
    \/ WaitLeave(p)

NotifyStep(p) == NotifyLoad(p) \/ NotifyWrite(p)

Next ==
  \/ QueueNext /\ UNCHANGED eventVars
  \/ \E p \in Procs :
       \/ WaitStep(p) \/ NotifyStep(p)
       \/ PollTimesOut(p) \/ PollInterrupted(p) \/ ReadInterrupted(p)

Spec == Init /\ [][Next]_vars

(***************************************************************************)
(* Fairness as in ShmemFutexQueue.  The timeout of poll is owed to a       *)
(* sender only: it ends, where a receiver that nobody sends to may wait.   *)
(***************************************************************************)
Fairness ==
  /\ \A p \in Procs :
       /\ WF_vars(New(p) /\ UNCHANGED eventVars)
       /\ WF_vars(WaitStep(p) \/ NotifyStep(p))
  /\ \A w \in Writers :
       /\ WF_vars(WriterStep(w) /\ UNCHANGED eventVars)
       /\ WF_vars(Flush(w) /\ UNCHANGED eventVars)
       /\ WF_vars(PollTimesOut(w))
  /\ \A r \in Readers : WF_vars(ReaderStep(r) /\ UNCHANGED eventVars)

FairSpec == Spec /\ Fairness

-----------------------------------------------------------------------------
(* Properties. *)

\* The threads between fetch_add and fetch_sub.
Announced(side) ==
  {p \in Procs : WaitSide(p) = side /\
     pc[p] \in {"check", "poll", "giveUp", "readEvent", "leave"}}

(* However waits end (in an error or a panic they leak a count), no thread  *)
(* between fetch_add and fetch_sub is ever missing from the waiters, so     *)
(* notify skips its write only if nobody needs it.                          *)
NoWaiterUncounted == \A s \in Side : waiters[s] >= Cardinality(Announced(s))

(* While there is a message, one of the live receivers is up, or has an     *)
(* event to read, or a sender is about to write it one.  A load that        *)
(* overtakes the commit, an offset that comes back, and notifications that  *)
(* add up to 0xDEAD lose a wakeup; nothing else does, and the next send     *)
(* makes up for it if its load of the waiters is in order.                  *)
NoStrandedReaders ==
  LET live == {r \in Readers : pc[r] \notin {"dead", "giveUp"}}
  IN  offset["Left"] < offset["Right"] /\ live # {} =>
        \/ \E r \in live : pc[r] \notin {"poll", "readEvent"}
        \/ event["Right"] > 0
        \/ \E w \in Writers : pc[w] \in {"notify", "writeEvent"}
        \/ lapse # "none"

(* "Oh no, we deadlocked" (src/src/control/eventfd.rs:120): when the poll   *)
(* of a receiver times out there is no message for it to receive, or a      *)
(* sender is about to notify it.                                            *)
DeadlockIsReal ==
  [][\A r \in Readers : pc[r] = "poll" /\ pc'[r] = "giveUp" =>
       \/ offset["Left"] = offset["Right"]
       \/ \E w \in Writers : pc[w] \in {"notify", "writeEvent"}]_vars

(* A sender that polls has seen the latest left offset, or has an event to  *)
(* read, or a receiver is about to write it one.                            *)
NoStrandedWriter ==
  \A w \in Writers : pc[w] = "poll" =>
    \/ offset["Left"] = seen[w]
    \/ event["Left"] > 0
    \/ \E r \in Readers : pc[r] \in {"unlock", "notify", "writeEvent"}

(* A sender never blocks in read, where no timeout would end its wait:      *)
(* nobody else can have read the event that its poll has seen.              *)
SenderReadsAtOnce ==
  \A w \in Writers : pc[w] = "readEvent" => event["Left"] > 0

(* A thread that panics in wait leaves no lock behind.                      *)
DeadHoldNoLock == \A s \in Side : lock[s] = Free \/ pc[lock[s]] # "dead"

(* Every message that was committed is received, unless all receivers die   *)
(* of a poll or of 0xDEAD, or the wakeup of the last send is lost in one of *)
(* the three ways of lapse: then it stays where it is.                      *)
ReceivedUnlessLapse ==
  \A k \in 1 .. MaxSends :
    Len(sent) >= k ~>
      \/ Len(received) >= k
      \/ \A r \in Readers : pc[r] = "dead"
      \/ [](lapse # "none")

(* "Oh no, we deadlocked": thanks to the timeout a send always ends, though *)
(* perhaps in a panic, even if there is nobody left to make space.          *)
SendsEnd == \A w \in Writers : pc[w] = "write" ~> pc[w] \in {"idle", "dead"}
==============================================================================
