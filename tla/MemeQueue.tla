------------------------------ MODULE MemeQueue ------------------------------
(***************************************************************************)
(* The queue proper: MemeQueue::send and recv, MemeWriter::write and the   *)
(* offset operations of the control (src/src/lib.rs,                       *)
(* src/src/control/shmem_futex.rs).  Any number of writers and readers, in *)
(* any processes, share one header and one ring.  How they sleep and wake  *)
(* (Control::wait and notify) is left to the modules that extend this one: *)
(* an action here that needs to wait or to notify stops at the stage       *)
(* "wait" or "notify" and those modules take over.                         *)
(*                                                                         *)
(* A lock is taken and freed in one step: FutexMutex shows that the futex  *)
(* lock implements that.                                                   *)
(***************************************************************************)
EXTENDS RingLayout, Sequences

CONSTANTS
  Writers, Readers,   \* threads that call send, threads that call recv
  Free,               \* the holder of a lock that nobody holds
  Lens,               \* the payload lengths callbacks write
  MaxSends,           \* bound on the number of calls of send
  Panics,             \* may recv callbacks panic?
  StoreBuffering      \* may a committed right offset stay in a store buffer?

Procs == Writers \cup Readers
Side == {"Left", "Right"}

ASSUME ProcsAssumption == Writers \cap Readers = {} /\ Free \notin Procs
ASSUME LensAssumption == Lens \subseteq Nat
ASSUME MaxSendsAssumption == MaxSends \in Nat
ASSUME ChoicesAssumption == Panics \in BOOLEAN /\ StoreBuffering \in BOOLEAN

VARIABLES
  (* the shared header *)
  offset,         \* Half::offset of each side
  cached,         \* Half::cached_other_offset of each side
  waiters,        \* Header::left_waiters, right_waiters
  lock,           \* the thread holding Half::lock of each side, or Free
  (* the shared ring *)
  mem,            \* the queue_size units behind both mappings
  buffered,       \* a right offset not yet visible to the other threads
  (* the threads *)
  pc,             \* where each thread is
  seen,           \* the offset of the other side it acts on, awaits
  right_offset,   \* MemeWriter::right_offset
  total_written,  \* MemeWriter::total_written
  body,           \* the payload length the send callback writes
  left_offset,    \* recv's left_offset
  size,           \* recv's size
  (* history *)
  started,        \* how many calls of send took the lock
  sent,           \* the payloads committed, in order
  received        \* the payloads handed to recv callbacks and committed

header == <<offset, cached, waiters, lock>>
ring == <<mem, buffered>>
writerLocals == <<right_offset, total_written, body>>
readerLocals == <<left_offset, size>>
history == <<started, sent, received>>
queueVars == <<header, ring, pc, seen, writerLocals, readerLocals, history>>

NoStore == -1

\* A unit of the ring is a pair: <<0, n>> in a size word that says n, and
\* <<i, k>> for the k-th payload unit of the i-th message started.
Units == Nat \X Nat

SizeUnit(n) == <<0, n>>

Stages ==
  {"new", "idle", "write", "copy", "lockLeft", "fix", "load", "read",
   "unlock", "wait", "notify"}

QueueTypeOK ==
  /\ offset \in [Side -> Offsets]
  /\ cached \in [Side -> Offsets]
  /\ waiters \in [Side -> Nat]
  /\ lock \in [Side -> Procs \cup {Free}]
  /\ mem \in [Cells -> Units]
  /\ buffered \in [Writers -> Offsets \cup {NoStore}]
  /\ seen \in [Procs -> Offsets]
  /\ right_offset \in [Writers -> Offsets]
  /\ total_written \in [Writers -> Offsets]
  /\ body \in [Writers -> Nat]
  /\ left_offset \in [Readers -> Offsets]
  /\ size \in [Readers -> Nat]
  /\ started \in Nat
  /\ sent \in Seq(Seq(Units))
  /\ received \in Seq(Seq(Units))

(***************************************************************************)
(* The owner has zeroed the header and cleared both caches; every thread   *)
(* is still to create its own MemeQueue on it.                             *)
(***************************************************************************)
QueueInit ==
  /\ offset = [s \in Side |-> 0]
  /\ cached = [s \in Side |-> NoOffset]
  /\ waiters = [s \in Side |-> 0]
  /\ lock = [s \in Side |-> Free]
  /\ mem = [c \in Cells |-> <<0, 0>>]
  /\ buffered = [w \in Writers |-> NoStore]
  /\ pc = [p \in Procs |-> "new"]
  /\ seen = [p \in Procs |-> 0]
  /\ right_offset = [w \in Writers |-> 0]
  /\ total_written = [w \in Writers |-> 0]
  /\ body = [w \in Writers |-> 0]
  /\ left_offset = [r \in Readers |-> 0]
  /\ size = [r \in Readers |-> 0]
  /\ started = 0
  /\ sent = <<>>
  /\ received = <<>>

Goto(p, stage) == pc' = [pc EXCEPT ![p] = stage]

Take(side, p) == lock[side] = Free /\ lock' = [lock EXCEPT ![side] = p]

GiveBack(side) == lock' = [lock EXCEPT ![side] = Free]

(* ShmemFutexControl::new clears both caches, whoever calls it and however *)
(* busy the queue already is.                                              *)
New(p) ==
  /\ pc[p] = "new"
  /\ Goto(p, "idle")
  /\ cached' = [s \in Side |-> NoOffset]
  /\ UNCHANGED <<offset, waiters, lock, ring, seen, writerLocals,
                 readerLocals, history>>

-----------------------------------------------------------------------------
(* send, up to the commit. *)

\* lock(Right), then a MemeWriter at the right offset just loaded.
SendLock(w) ==
  /\ pc[w] = "idle"
  /\ started < MaxSends
  /\ Take("Right", w)
  /\ \E n \in Lens : body' = [body EXCEPT ![w] = n]
  /\ right_offset' = [right_offset EXCEPT ![w] = offset["Right"]]
  /\ total_written' = [total_written EXCEPT ![w] = 0]
  /\ started' = started + 1
  /\ Goto(w, "write")
  /\ UNCHANGED <<offset, cached, waiters, ring, seen, readerLocals, sent,
                 received>>

\* What is left of the buffer of the current write_all: first the zeroed
\* size word, then the payload.
BufLen(w) ==
  IF total_written[w] < WordSize
  THEN WordSize - total_written[w]
  ELSE WordSize + body[w] - total_written[w]

WritePos(w) == AddU32(right_offset[w], total_written[w])

Refused(w) == TooMuch(total_written[w], BufLen(w))

\* write reads the cached left offset and, if that does not suffice, the
\* left offset itself, which it caches; then it knows what it can do.
WriteLoad(w) ==
  LET pos == WritePos(w)
      hit == CacheSuffices(cached["Right"], pos, BufLen(w))
      left == IF hit THEN cached["Right"] ELSE offset["Left"]
  IN  /\ pc[w] = "write"
      /\ BufLen(w) > 0
      /\ ~Refused(w)
      /\ cached' = IF hit THEN cached ELSE [cached EXCEPT !["Right"] = left]
      /\ seen' = [seen EXCEPT ![w] = left]
      /\ \/ /\ SpaceLeft(left, pos) > 0
            /\ Goto(w, "copy")
         \/ /\ SpaceLeft(left, pos) = 0
            /\ left >= QueueSize
            /\ Goto(w, "lockLeft")
         \/ /\ SpaceLeft(left, pos) = 0
            /\ left < QueueSize
            /\ Goto(w, "wait")
      /\ UNCHANGED <<offset, waiters, lock, ring, writerLocals,
                     readerLocals, history>>

\* The k-th unit, from 0, of what the writer writes: zeroes, then payload.
Unit(k) == IF k < WordSize THEN SizeUnit(0) ELSE <<started, k - WordSize + 1>>

\* A faulty copy that takes any space for enough space.
MutCopyLen(w) == BufLen(w)

CopyLen(w) == Least(SpaceLeft(seen[w], WritePos(w)), BufLen(w))

\* copy_nonoverlapping of as much of the buffer as there is space for.
WriteCopy(w) ==
  /\ pc[w] = "copy"
  /\ mem' = [c \in Cells |->
               LET k == Ahead(WritePos(w), c)
               IN  IF k < CopyLen(w)
                   THEN Unit(total_written[w] + k)
                   ELSE mem[c]]
  /\ total_written' = [total_written EXCEPT ![w] = @ + CopyLen(w)]
  /\ Goto(w, "write")
  /\ UNCHANGED <<header, buffered, seen, right_offset, body, readerLocals,
                 history>>

\* A faulty wrap that does without the left lock.
MutLockLeft(w) ==
  /\ pc[w] = "lockLeft"
  /\ Goto(w, "fix")
  /\ UNCHANGED <<header, ring, seen, writerLocals, readerLocals, history>>

\* The end of the second mapping is reached: lock(Left) under lock(Right).
LockLeft(w) ==
  /\ pc[w] = "lockLeft"
  /\ Take("Left", w)
  /\ Goto(w, "fix")
  /\ UNCHANGED <<offset, cached, waiters, ring, seen, writerLocals,
                 readerLocals, history>>

\* A faulty fix_offsets that moves the offsets but not the caches.
MutFixBoth(left, right) ==
  /\ offset' = [s \in Side |-> IF s = "Left" THEN left ELSE right]
  /\ UNCHANGED cached

\* fix_offsets stores both offsets, and each in the cache of the other side.
FixBoth(left, right) ==
  /\ offset' = [s \in Side |-> IF s = "Left" THEN left ELSE right]
  /\ cached' = [s \in Side |-> IF s = "Left" THEN right ELSE left]

\* Both offsets go back by one mapping; the left guard is dropped and write
\* tries again.
FixOffsets(w) ==
  LET newLeft == SubU32(offset["Left"], QueueSize)
      newRight == SubU32(right_offset[w], QueueSize)
  IN  /\ pc[w] = "fix"
      /\ FixBoth(newLeft, newRight)
      /\ right_offset' = [right_offset EXCEPT ![w] = newRight]
      /\ GiveBack("Left")
      /\ Goto(w, "write")
      /\ UNCHANGED <<waiters, ring, seen, total_written, body, readerLocals,
                     history>>

-----------------------------------------------------------------------------
(* send, the end. *)

\* The callback returns Ok: it has written everything, or it hides the
\* error of a write that was refused.
CallbackOk(w) == BufLen(w) = 0 \/ (total_written[w] >= WordSize /\ Refused(w))

Payload(w) == [k \in 1 .. total_written[w] - WordSize |-> <<started, k>>]

\* A faulty size word that counts itself.
MutMessageSize(w) == total_written[w]

MessageSize(w) == total_written[w] - WordSize

\* The size word is filled in and commit_offset(Right) stores the offset:
\* at once, or into the store buffer, since no fence separates the store
\* from the load of the waiters in notify.
SendCommit(w) ==
  LET next == WritePos(w)
  IN  /\ pc[w] = "write"
      /\ CallbackOk(w)
      /\ mem' = [c \in Cells |->
                   IF Ahead(right_offset[w], c) < WordSize
                   THEN SizeUnit(MessageSize(w))
                   ELSE mem[c]]
      /\ \/ /\ StoreBuffering
            /\ buffered' = [buffered EXCEPT ![w] = next]
            /\ UNCHANGED offset
         \/ /\ ~StoreBuffering
            /\ offset' = [offset EXCEPT !["Right"] = next]
            /\ UNCHANGED buffered
      /\ sent' = Append(sent, Payload(w))
      /\ Goto(w, "notify")
      /\ UNCHANGED <<cached, waiters, lock, seen, writerLocals, readerLocals,
                     started, received>>

\* The callback returns Err or panics, whatever it has written: nothing is
\* committed.
SendAbort(w) ==
  /\ pc[w] = "write"
  /\ total_written[w] >= WordSize
  /\ Goto(w, "unlock")
  /\ UNCHANGED <<header, ring, seen, writerLocals, readerLocals, history>>

\* offset once the stores that w has buffered are visible.
Drained(w) ==
  IF buffered[w] = NoStore
  THEN offset
  ELSE [offset EXCEPT !["Right"] = buffered[w]]

Drain(w) ==
  /\ offset' = Drained(w)
  /\ buffered' = [buffered EXCEPT ![w] = NoStore]

\* The processor makes a buffered store visible, at a time of its own.
Flush(w) ==
  /\ buffered[w] # NoStore
  /\ Drain(w)
  /\ UNCHANGED <<cached, waiters, lock, mem, pc, seen, writerLocals,
                 readerLocals, history>>

\* The right guard is dropped, whose swap drains the store buffer, and the
\* MemeWriter goes out of scope.
LeaveSend(w, stage) ==
  /\ Drain(w)
  /\ GiveBack("Right")
  /\ seen' = [seen EXCEPT ![w] = 0]
  /\ right_offset' = [right_offset EXCEPT ![w] = 0]
  /\ total_written' = [total_written EXCEPT ![w] = 0]
  /\ body' = [body EXCEPT ![w] = 0]
  /\ Goto(w, stage)
  /\ UNCHANGED <<cached, waiters, mem, readerLocals, history>>

SendUnlock(w) == pc[w] = "unlock" /\ LeaveSend(w, "idle")

-----------------------------------------------------------------------------
(* recv. *)

RecvLock(r) ==
  /\ pc[r] = "idle"
  /\ Take("Left", r)
  /\ Goto(r, "load")
  /\ UNCHANGED <<offset, cached, waiters, ring, seen, writerLocals,
                 readerLocals, history>>

\* recv trusts a cached right offset that is ahead of the left one.
RightHit == cached["Left"] # NoOffset /\ cached["Left"] > offset["Left"]

RightSeen == IF RightHit THEN cached["Left"] ELSE offset["Right"]

LoadRight(r) ==
  /\ pc[r] = "load"
  /\ cached' = IF RightHit THEN cached
               ELSE [cached EXCEPT !["Left"] = offset["Right"]]
  /\ seen' = [seen EXCEPT ![r] = RightSeen]

\* A faulty recv that gives the message's space back before its callback.
MutRecvTake(r) ==
  /\ LoadRight(r)
  /\ RightSeen > offset["Left"]
  /\ LET a == offset["Left"]
         n == mem[Cell(a)][2]
     IN  /\ left_offset' = [left_offset EXCEPT ![r] = a]
         /\ size' = [size EXCEPT ![r] = n]
         /\ offset' = [offset EXCEPT !["Left"] = a + WordSize + n]
  /\ Goto(r, "read")
  /\ UNCHANGED <<waiters, lock, ring, writerLocals, history>>

\* There is a message: read its size word and run the callback on it.
RecvTake(r) ==
  /\ LoadRight(r)
  /\ RightSeen > offset["Left"]
  /\ left_offset' = [left_offset EXCEPT ![r] = offset["Left"]]
  /\ size' = [size EXCEPT ![r] = mem[Cell(offset["Left"])][2]]
  /\ Goto(r, "read")
  /\ UNCHANGED <<offset, waiters, lock, ring, writerLocals, history>>

\* There is none: drop the guard and wait for the right offset to change.
RecvEmpty(r) ==
  /\ LoadRight(r)
  /\ RightSeen <= offset["Left"]
  /\ GiveBack("Left")
  /\ Goto(r, "wait")
  /\ UNCHANGED <<offset, waiters, ring, writerLocals, readerLocals, history>>

Slice(a, n) == [k \in 1 .. n |-> mem[Cell(a + k - 1)]]

\* The callback has returned, Ok or Err: the left offset moves past the
\* message either way.
RecvCommit(r) ==
  LET data == left_offset[r] + WordSize
      next == AddU32(AddU32(left_offset[r], WordSize), size[r])
  IN  /\ pc[r] = "read"
      /\ received' = Append(received, Slice(data, size[r]))
      /\ offset' = [offset EXCEPT !["Left"] = next]
      /\ Goto(r, "unlock")
      /\ UNCHANGED <<cached, waiters, lock, ring, seen, writerLocals,
                     readerLocals, started, sent>>

\* The guard is dropped, and what recv has read goes out of scope.
LeaveRecv(r, stage) ==
  /\ GiveBack("Left")
  /\ seen' = [seen EXCEPT ![r] = 0]
  /\ left_offset' = [left_offset EXCEPT ![r] = 0]
  /\ size' = [size EXCEPT ![r] = 0]
  /\ Goto(r, stage)
  /\ UNCHANGED <<offset, cached, waiters, ring, writerLocals, history>>

\* drop(guard), before notify.
RecvUnlock(r) == pc[r] = "unlock" /\ LeaveRecv(r, "notify")

\* The callback panics: unwinding drops the guard, and no offset has moved.
RecvPanic(r) == Panics /\ pc[r] = "read" /\ LeaveRecv(r, "idle")

-----------------------------------------------------------------------------
(* Around wait and notify, which are not in this module. *)

\* The side whose offset p waits for, and the side p notifies about.
WaitSide(p) == IF p \in Writers THEN "Left" ELSE "Right"

\* A faulty pair that notifies the side it waits for.
MutNotifySide(p) == WaitSide(p)

NotifySide(p) == IF p \in Writers THEN "Right" ELSE "Left"

\* After wait, write goes round its loop and so does recv.
Resume(p) ==
  /\ Goto(p, IF p \in Writers THEN "write" ELSE "idle")
  /\ seen' = [seen EXCEPT ![p] = 0]

\* After notify, send still has its guard to drop; recv returns.
Finished(p) == IF p \in Writers THEN "unlock" ELSE "idle"

-----------------------------------------------------------------------------
WriterStep(w) ==
  \/ WriteLoad(w) \/ WriteCopy(w) \/ LockLeft(w) \/ FixOffsets(w)
  \/ SendCommit(w) \/ SendAbort(w) \/ Flush(w) \/ SendUnlock(w)

ReaderStep(r) ==
  RecvLock(r) \/ RecvTake(r) \/ RecvEmpty(r) \/ RecvCommit(r) \/ RecvUnlock(r)

QueueNext ==
  \/ \E p \in Procs : New(p)
  \/ \E w \in Writers : SendLock(w) \/ WriterStep(w)
  \/ \E r \in Readers : ReaderStep(r) \/ RecvPanic(r)

-----------------------------------------------------------------------------
(* Properties. *)

\* The right offset committed last, visible or not.
RightEnd ==
  IF \E w \in Writers : buffered[w] # NoStore
  THEN buffered[CHOOSE w \in Writers : buffered[w] # NoStore]
  ELSE offset["Right"]

\* The cells behind n units from address a.
Span(a, n) == {Cell(a + k) : k \in 0 .. n - 1}

(* "We keep offsets in-bounds" (src/src/lib.rs): the committed messages     *)
(* never exceed the ring, both offsets stay within the double mapping, and  *)
(* so does the message that a writer is in the middle of.                   *)
OffsetsInBounds ==
  /\ offset["Left"] <= offset["Right"]
  /\ offset["Right"] <= RightEnd
  /\ RightEnd <= offset["Left"] + QueueSize
  /\ RightEnd <= 2 * QueueSize
  /\ \A w \in Writers : pc[w] \notin {"new", "idle"} =>
       /\ right_offset[w] + total_written[w] <= offset["Left"] + QueueSize
       /\ right_offset[w] + total_written[w] <= 2 * QueueSize

(* "We currently own all the space after the right pointer" (the comment    *)
(* on copy_nonoverlapping): what a writer copies over, and the size word it *)
(* fills in, is no part of a committed message that is still unread.        *)
WriterOwnsSpace ==
  LET unread == Span(offset["Left"], RightEnd - offset["Left"])
  IN  \A w \in Writers :
        /\ pc[w] = "copy" =>
             Span(WritePos(w), CopyLen(w)) \cap unread = {}
        /\ pc[w] = "write" /\ CallbackOk(w) =>
             Span(right_offset[w], WordSize) \cap unread = {}

(* The slice a recv callback is looking at is a whole message, and stays    *)
(* committed and unread under its eyes.                                     *)
ReaderOwnsSlice ==
  \A r \in Readers : pc[r] = "read" =>
    /\ left_offset[r] = offset["Left"]
    /\ left_offset[r] + WordSize + size[r] <= offset["Right"]

(* However stale the cached left offset is, the pointer difference that     *)
(* write computes from it does not underflow, and neither do the            *)
(* subtractions of fix_offsets.                                             *)
NoUnderflow ==
  \A w \in Writers :
    /\ pc[w] = "write" /\ BufLen(w) > 0 /\ ~Refused(w) =>
         LET hit == CacheSuffices(cached["Right"], WritePos(w), BufLen(w))
             left == IF hit THEN cached["Right"] ELSE offset["Left"]
         IN  SpaceLeft(left, WritePos(w)) >= 0
    /\ pc[w] = "fix" =>
         offset["Left"] >= QueueSize /\ right_offset[w] >= QueueSize

(* A cached offset lags behind the offset it was read from and never runs   *)
(* ahead of it, through every wrap and every late ShmemFutexControl::new.   *)
CachesLag ==
  /\ cached["Right"] # NoOffset => cached["Right"] <= offset["Left"]
  /\ cached["Left"] # NoOffset => cached["Left"] <= offset["Right"]

(* Offsets go back only together, by exactly one mapping, and while no      *)
(* reader is inside its critical section and no store is buffered.          *)
WrapIsAtomic ==
  [][(\E s \in Side : offset'[s] < offset[s]) =>
       /\ \A s \in Side : offset'[s] = offset[s] - QueueSize
       /\ \A r \in Readers : pc[r] \notin {"load", "read", "unlock"}
       /\ \A w \in Writers : buffered[w] = NoStore]_offset

\* What a callback may have written and send committed.
Messages ==
  {[k \in 1 .. n |-> <<i, k>>] : i \in 1 .. MaxSends, n \in 0 .. QueueSize}

Fifo == INSTANCE FifoQueue WITH
  Overhead <- WordSize,
  Capacity <- QueueSize,
  pending <- SubSeq(sent, Len(received) + 1, Len(sent)),
  used <- RightEnd - offset["Left"],
  delivered <- received

(* The ring, its offsets and its two locks implement a bounded channel:     *)
(* each commit appends one whole message, each recv delivers the oldest     *)
(* one as it was written, everything else (partial writes, aborted sends,   *)
(* wraps, sleeping and waking) is invisible.                                *)
ImplementsFifo == Fifo!Spec
==============================================================================
