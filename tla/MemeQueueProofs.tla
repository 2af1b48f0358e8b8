--------------------------- MODULE MemeQueueProofs ---------------------------
(***************************************************************************)
(* Proofs about the ring, its offsets and its two locks, for any threads,  *)
(* sizes and payload lengths, with and without a store buffer, whatever    *)
(* control they sleep with, as long as twice the queue size fits in a u32  *)
(* (NoOverflow).  ShmemFutexQueueProofs and EventFdQueueProofs build on    *)
(* them.                                                                   *)
(*                                                                         *)
(* OffsetsInBounds is far from inductive: that recv does not run past the  *)
(* right offset rests on the size words in the ring being those of whole   *)
(* messages, laid out end to end from the left offset to the right one     *)
(* (Framed); that rests on no writer touching them (WriterInv), and that   *)
(* on the locks (LocksHeld) and on stale caches being on the safe side     *)
(* (CachesLag).                                                            *)
(***************************************************************************)
EXTENDS MemeQueue, TLAPS

USE LayoutAssumption, ProcsAssumption, LensAssumption

\* The stages of a thread in wait or in notify, of whichever control.
WaitStages ==
  {"wait", "futexWait", "asleep", "leave", "check", "poll", "giveUp",
   "readEvent"}
NotifyStages == {"notify", "wake", "writeEvent"}

USE DEF WaitStages, NotifyStages

Outside == {"new", "idle", "dead"}
BeforeCommit == {"write", "copy", "lockLeft", "fix"} \cup WaitStages
AfterCommit == NotifyStages \cup {"unlock"}
AllStages ==
  {"new", "idle", "dead", "write", "copy", "lockLeft", "fix", "wait",
   "futexWait", "asleep", "leave", "check", "poll", "giveUp", "readEvent",
   "notify", "wake", "writeEvent", "unlock", "load", "read"}

RingTyped == QueueTypeOK /\ pc \in [Procs -> AllStages]

\* Who holds which lock, by where they are.
LocksHeld ==
  /\ lock["Right"] \in Writers \cup {Free}
  /\ \A w \in Writers :
       /\ lock["Right"] = w <=> pc[w] \notin Outside
       /\ lock["Left"] = w <=> pc[w] = "fix"
       /\ pc[w] \in Outside \cup BeforeCommit \cup AfterCommit
  /\ \A r \in Readers :
       lock["Left"] = r <=> pc[r] \in {"load", "read", "unlock"}

\* The message in the making lies between the right offset and the left
\* offset one ring further on.
WriterInv ==
  \A w \in Writers : pc[w] \notin Outside =>
    /\ right_offset[w] + total_written[w] <= offset["Left"] + QueueSize
    /\ right_offset[w] + total_written[w] <= 2 * QueueSize
    /\ pc[w] \in BeforeCommit => right_offset[w] = offset["Right"]
    /\ pc[w] = "copy" =>
         /\ seen[w] <= offset["Left"]
         /\ SpaceLeft(seen[w], right_offset[w] + total_written[w]) > 0
         /\ BufLen(w) > 0
    /\ pc[w] \in {"lockLeft", "fix"} => QueueSize <= offset["Left"]

\* A buffered right offset is that of the message just committed.
BufferedInv ==
  \A w \in Writers : buffered[w] # NoStore =>
    /\ pc[w] \in AfterCommit
    /\ buffered[w] = right_offset[w] + total_written[w]

ReaderInv ==
  \A r \in Readers : pc[r] = "read" =>
    /\ left_offset[r] = offset["Left"]
    /\ offset["Left"] < offset["Right"]
    /\ size[r] = mem[Cell(offset["Left"])][2]

\* The address after the message at address a.
After(a) == a + WordSize + mem[Cell(a)][2]

\* F is the set of the addresses where unread messages start, and end.
Framing(F) ==
  /\ {offset["Left"], offset["Right"], RightEnd} \subseteq F
  /\ \A a \in F : offset["Left"] <= a /\ a <= RightEnd
  /\ \A a \in F : a < RightEnd => After(a) \in F
  /\ \A a, b \in F : a < b => After(a) <= b

Framed ==
  /\ RightEnd <= offset["Left"] + QueueSize
  /\ RightEnd <= 2 * QueueSize
  /\ \E F \in SUBSET (0 .. 2 * QueueSize) : Framing(F)

RingInv ==
  /\ RingTyped
  /\ LocksHeld
  /\ WriterInv
  /\ BufferedInv
  /\ ReaderInv
  /\ CachesLag
  /\ Framed

-----------------------------------------------------------------------------
(* Facts about the layout and the state functions.                         *)

(* The n cells from address pos on do not include the cell of a smaller    *)
(* address a, as long as they end within one ring of a or before.          *)
LEMMA Apart ==
  ASSUME NEW a \in Nat, NEW pos \in Nat, NEW n \in Nat,
         a < pos, pos <= 2 * QueueSize, pos + n <= a + QueueSize
  PROVE  ~(Ahead(pos, Cell(a)) < n)
BY DEF Ahead, Cell

(* An address below the end of the second mapping has a cell.              *)
LEMMA CellInRing ==
  ASSUME NEW a \in Nat, a < 2 * QueueSize
  PROVE  Cell(a) \in Cells
BY DEF Cell, Cells

(* The payload of a message that ends in the double mapping is in it.      *)
LEMMA InsideMessage ==
  ASSUME NEW a \in Nat, NEW n \in Nat, NEW k \in 1 .. n,
         a + WordSize + n <= 2 * QueueSize
  PROVE  /\ a + WordSize + k - 1 \in Nat
         /\ a + WordSize + k - 1 < 2 * QueueSize
OBVIOUS

(* No buffered store: the right offset is what everybody sees.             *)
LEMMA NothingBuffered ==
  ASSUME \A w \in Writers : buffered[w] = NoStore
  PROVE  RightEnd = offset["Right"]
BY DEF RightEnd

(* Only the holder of the right lock has a buffered store.                 *)
LEMMA OneBuffered ==
  ASSUME LocksHeld, BufferedInv, NEW w \in Writers, pc[w] \notin Outside
  PROVE  /\ \A v \in Writers \ {w} : buffered[v] = NoStore
         /\ RightEnd = IF buffered[w] = NoStore
                       THEN offset["Right"] ELSE buffered[w]
<1>1. \A v \in Writers \ {w} : buffered[v] = NoStore
  BY DEF LocksHeld, BufferedInv, Outside, AfterCommit
<1>2. CASE buffered[w] = NoStore
  BY <1>1, <1>2 DEF RightEnd
<1>3. CASE buffered[w] # NoStore
  BY <1>1, <1>3 DEF RightEnd
<1> QED
  BY <1>1, <1>2, <1>3

(* One writer at a time is inside send.                                    *)
LEMMA OthersOutside ==
  ASSUME LocksHeld, NEW w \in Writers, pc[w] \notin Outside
  PROVE  \A v \in Writers \ {w} : pc[v] \in Outside
BY DEF LocksHeld

(* A step that leaves offsets, ring and store buffers alone leaves the     *)
(* messages where they are.                                                *)
LEMMA FramedUnchanged ==
  ASSUME Framed, UNCHANGED <<offset, mem, buffered>>
  PROVE  Framed'
BY DEF Framed, Framing, RightEnd, After

(* What the messages say about the offsets.                                *)
LEMMA Ordered ==
  ASSUME RingTyped, Framed
  PROVE  /\ offset["Left"] \in 0 .. 2 * QueueSize
         /\ offset["Right"] \in 0 .. 2 * QueueSize
         /\ RightEnd \in 0 .. 2 * QueueSize
         /\ offset["Left"] <= offset["Right"]
         /\ offset["Right"] <= RightEnd
         /\ RightEnd <= offset["Left"] + QueueSize
BY DEF Framed, Framing

(* Offsets that move forward leave the caches behind.                      *)
LEMMA CachesFollow ==
  ASSUME RingInv, UNCHANGED cached,
         offset["Left"] <= offset'["Left"], offset'["Left"] \in Int,
         offset["Right"] <= offset'["Right"], offset'["Right"] \in Int
  PROVE  CachesLag'
<1>1. cached["Left"] \in Int /\ cached["Right"] \in Int
  BY DEF RingInv, RingTyped, QueueTypeOK, Offsets, Side
<1>2. offset["Left"] \in Int /\ offset["Right"] \in Int
  BY Ordered DEF RingInv
<1> QED
  BY <1>1, <1>2 DEF RingInv, CachesLag

-----------------------------------------------------------------------------
(* Every action preserves the invariant.  An offset moves forward, or both *)
(* go back by one mapping.                                                 *)

Forward == \A s \in Side : offset[s] <= offset'[s]

Wrap ==
  /\ \A s \in Side : offset'[s] = offset[s] - QueueSize
  /\ \A r \in Readers : pc[r] \notin {"load", "read", "unlock"}
  /\ \A w \in Writers : buffered[w] = NoStore

LEMMA InitRing ==
  ASSUME NoOverflow, QueueInit
  PROVE  RingInv
<1> USE DEF QueueInit
<1>1. RingTyped
  BY DEF RingTyped, QueueTypeOK, Side, Offsets, NoOffset, NoStore, Procs,
     Units, AllStages
<1>2. LocksHeld /\ WriterInv /\ BufferedInv /\ ReaderInv /\ CachesLag
  BY DEF LocksHeld, WriterInv, BufferedInv, ReaderInv, CachesLag, Outside,
     NoOffset, Side, Procs
<1>3. Framed
  <2>1. RightEnd = 0 /\ offset["Left"] = 0 /\ offset["Right"] = 0
    BY NothingBuffered DEF Side
  <2>2. Framing({0})
    BY <2>1 DEF Framing
  <2> QED
    BY <2>1, <2>2 DEF Framed
<1> QED
  BY <1>1, <1>2, <1>3 DEF RingInv

LEMMA NewRing ==
  ASSUME NoOverflow, RingInv, NEW p \in Procs, New(p)
  PROVE  RingInv'
<1> USE DEF New, Goto, header, ring, writerLocals, readerLocals, history
<1>1. RingTyped'
  BY DEF RingInv, RingTyped, QueueTypeOK, Offsets, NoOffset, AllStages
<1>2. LocksHeld' /\ WriterInv' /\ BufferedInv' /\ ReaderInv' /\ CachesLag'
  BY DEF RingInv, RingTyped, QueueTypeOK, LocksHeld, WriterInv, BufferedInv,
     ReaderInv, CachesLag, Outside, BeforeCommit, AfterCommit, Side, Procs,
     BufLen, SpaceLeft
<1>3. Framed'
  BY FramedUnchanged DEF RingInv
<1> QED
  BY <1>1, <1>2, <1>3 DEF RingInv

LEMMA SendLockRing ==
  ASSUME NoOverflow, RingInv, NEW w \in Writers, SendLock(w)
  PROVE  RingInv'
<1> USE DEF SendLock, Take, Goto, ring, readerLocals
<1>1. RingTyped'
  <2>1. body' \in [Writers -> Nat]
    BY DEF RingInv, RingTyped, QueueTypeOK
  <2>2. lock' \in [Side -> Procs \cup {Free}]
    BY DEF RingInv, RingTyped, QueueTypeOK, Procs
  <2>3. right_offset' \in [Writers -> Offsets]
        /\ total_written' \in [Writers -> Offsets]
    BY DEF RingInv, RingTyped, QueueTypeOK, Offsets, Side
  <2> QED
    BY <2>1, <2>2, <2>3 DEF RingInv, RingTyped, QueueTypeOK, AllStages, Procs
<1>2. LocksHeld' /\ BufferedInv' /\ ReaderInv' /\ CachesLag'
  BY DEF RingInv, RingTyped, QueueTypeOK, LocksHeld, BufferedInv, ReaderInv,
     CachesLag, Outside, BeforeCommit, AfterCommit, Side, Procs
<1>3. WriterInv'
  <2>1. offset["Right"] <= offset["Left"] + QueueSize
        /\ offset["Right"] <= 2 * QueueSize
    BY Ordered DEF RingInv
  <2>2. \A v \in Writers \ {w} : pc'[v] \in Outside
    BY DEF RingInv, RingTyped, LocksHeld, Procs
  <2>3. /\ pc'[w] = "write"
        /\ right_offset'[w] = offset["Right"]
        /\ total_written'[w] = 0
        /\ offset' = offset
    BY DEF RingInv, RingTyped, QueueTypeOK, Procs
  <2> QED
    BY <2>1, <2>2, <2>3, Ordered DEF RingInv, WriterInv
<1>4. Framed'
  BY FramedUnchanged DEF RingInv
<1> QED
  BY <1>1, <1>2, <1>3, <1>4 DEF RingInv

(* A writer inside send is at most one ring past the left offset, and its  *)
(* u32 addition does not wrap.                                             *)
LEMMA WritePosition ==
  ASSUME NoOverflow, RingInv, NEW w \in Writers, pc[w] \notin Outside
  PROVE  /\ WritePos(w) = right_offset[w] + total_written[w]
         /\ WritePos(w) \in 0 .. 2 * QueueSize
         /\ WritePos(w) <= offset["Left"] + QueueSize
BY DEF RingInv, RingTyped, QueueTypeOK, WriterInv, WritePos, AddU32,
     NoOverflow, Offsets

(* Before the commit nothing is buffered, so the messages end at the right *)
(* offset, where the message in the making starts.                         *)
LEMMA BeforeTheCommit ==
  ASSUME RingInv, NEW w \in Writers, pc[w] \in BeforeCommit
  PROVE  /\ \A v \in Writers : buffered[v] = NoStore
         /\ RightEnd = offset["Right"]
         /\ right_offset[w] = offset["Right"]
<1>1. pc[w] \notin Outside
  BY DEF BeforeCommit, Outside
<1>2. buffered[w] = NoStore
  BY DEF RingInv, BufferedInv, BeforeCommit, AfterCommit
<1> QED
  BY <1>1, <1>2, OneBuffered DEF RingInv, WriterInv

LEMMA WriteLoadRing ==
  ASSUME NoOverflow, RingInv, NEW w \in Writers, WriteLoad(w)
  PROVE  RingInv'
<1> USE DEF WriteLoad, Goto, ring, readerLocals, writerLocals, history
<1> DEFINE hit == CacheSuffices(cached["Right"], WritePos(w), BufLen(w))
           left == IF hit THEN cached["Right"] ELSE offset["Left"]
<1>1. RingTyped'
  BY DEF RingInv, RingTyped, QueueTypeOK, Offsets, AllStages, Side, Procs
<1>0. pc' \in {[pc EXCEPT ![w] = x] : x \in {"copy", "lockLeft", "wait"}}
  OBVIOUS
<1>2. LocksHeld' /\ BufferedInv' /\ ReaderInv'
  BY <1>0 DEF RingInv, RingTyped, LocksHeld, BufferedInv, ReaderInv, Outside,
     BeforeCommit, AfterCommit, Procs
<1>6. CachesLag'
  BY DEF RingInv, RingTyped, QueueTypeOK, CachesLag, Side, Offsets
<1>3. WriterInv'
  <2>1. left <= offset["Left"] /\ left \in Nat
    BY DEF RingInv, RingTyped, QueueTypeOK, CachesLag, CacheSuffices, Side,
       Offsets
  <2>2. WritePos(w) = right_offset[w] + total_written[w]
    BY WritePosition DEF Outside
  <2>3. pc'[w] = "copy" =>
          SpaceLeft(left, right_offset[w] + total_written[w]) > 0
    BY <2>2 DEF RingInv, RingTyped
  <2>4. pc'[w] = "lockLeft" => QueueSize <= left
    BY DEF RingInv, RingTyped
  <2> HIDE DEF left
  <2>5. /\ seen' = [seen EXCEPT ![w] = left]
        /\ pc' \in {[pc EXCEPT ![w] = x] :
                       x \in {"copy", "lockLeft", "wait"}}
        /\ pc[w] = "write"
        /\ BufLen(w) > 0
    BY DEF left
  <2> QED
    <3>1. \A v \in Writers \ {w} : pc'[v] \in Outside
      BY <2>5, OthersOutside DEF RingInv, RingTyped, Procs, Outside
    <3>2. seen'[w] = left /\ pc'[w] \in {"copy", "lockLeft", "wait"}
      BY <2>5 DEF RingInv, RingTyped, QueueTypeOK, Procs
    <3>3. /\ right_offset[w] + total_written[w] <= offset["Left"] + QueueSize
          /\ right_offset[w] + total_written[w] <= 2 * QueueSize
          /\ right_offset[w] = offset["Right"]
      BY <2>5 DEF RingInv, WriterInv, Outside, BeforeCommit
    <3>4. BufLen(w)' = BufLen(w)
      BY DEF BufLen
    <3>5. QueueSize <= left => QueueSize <= offset["Left"]
      BY <2>1, Ordered DEF RingInv
    <3> QED
      BY <2>1, <2>3, <2>4, <2>5, <3>1, <3>2, <3>3, <3>4, <3>5 DEF WriterInv
<1>4. Framed'
  BY FramedUnchanged DEF RingInv
<1> QED
  BY <1>1, <1>2, <1>3, <1>4, <1>6 DEF RingInv

(* What a writer may write over are the cells from the right offset up to  *)
(* one ring past the left one: the messages do not notice.                 *)
LEMMA MessagesUntouched ==
  ASSUME RingInv, NEW w \in Writers, pc[w] \in BeforeCommit,
         NEW pos \in 0 .. 2 * QueueSize, NEW n \in Nat,
         offset["Right"] <= pos, pos + n <= offset["Left"] + QueueSize,
         \A c \in Cells : Ahead(pos, c) < n \/ mem'[c] = mem[c]
  PROVE  \A a \in offset["Left"] .. RightEnd - 1 : mem'[Cell(a)] = mem[Cell(a)]
<1> SUFFICES ASSUME NEW a \in offset["Left"] .. RightEnd - 1
             PROVE  mem'[Cell(a)] = mem[Cell(a)]
  OBVIOUS
<1>1. RightEnd = offset["Right"]
  BY BeforeTheCommit
<1>2. a \in Nat /\ offset["Left"] \in Nat /\ a < pos /\ a < 2 * QueueSize
      /\ pos + n <= a + QueueSize
  BY <1>1, Ordered DEF RingInv
<1>3. ~(Ahead(pos, Cell(a)) < n)
  BY <1>2, Apart
<1>4. Cell(a) \in Cells
  BY <1>2, CellInRing
<1> QED
  BY <1>3, <1>4

LEMMA FramedUntouched ==
  ASSUME RingTyped, Framed, UNCHANGED <<offset, buffered>>,
         \A a \in offset["Left"] .. RightEnd - 1 : mem'[Cell(a)] = mem[Cell(a)]
  PROVE  Framed'
<1>1. PICK F \in SUBSET (0 .. 2 * QueueSize) : Framing(F)
  BY DEF Framed
<1>2. RightEnd' = RightEnd
  BY DEF RightEnd
<1>3. \A a \in F : a < RightEnd => After(a)' = After(a)
  BY <1>1, Ordered DEF After, Framing
<1>4. \A a, b \in F : a < b => a < RightEnd
  BY <1>1, Ordered DEF Framing
<1>5. Framing(F)'
  BY <1>1, <1>2, <1>3, <1>4 DEF Framing
<1> QED
  BY <1>2, <1>5 DEF Framed

(* What a writer copies fits behind what it has written, and goes over no  *)
(* unread message.                                                         *)
LEMMA WriteCopyEffect ==
  ASSUME NoOverflow, RingInv, NEW w \in Writers, WriteCopy(w)
  PROVE  /\ WritePos(w) = right_offset[w] + total_written[w]
         /\ WritePos(w) \in 0 .. 2 * QueueSize
         /\ right_offset[w] \in Nat /\ total_written[w] \in Nat
         /\ body[w] \in Nat /\ seen[w] \in Nat /\ offset["Left"] \in Nat
         /\ CopyLen(w) \in Nat
         /\ WritePos(w) + CopyLen(w) <= offset["Left"] + QueueSize
         /\ WritePos(w) + CopyLen(w) <= 2 * QueueSize
         /\ \A a \in offset["Left"] .. RightEnd - 1 :
              mem'[Cell(a)] = mem[Cell(a)]
<1> USE DEF WriteCopy, Goto, header, readerLocals, history
<1>1. /\ WritePos(w) = right_offset[w] + total_written[w]
      /\ WritePos(w) \in 0 .. 2 * QueueSize
  BY WritePosition DEF Outside
<1>0. /\ right_offset[w] \in Nat /\ total_written[w] \in Nat
      /\ body[w] \in Nat /\ seen[w] \in Nat /\ offset["Left"] \in Nat
  BY DEF RingInv, RingTyped, QueueTypeOK, Offsets, Procs, Side
<1>2. /\ CopyLen(w) \in Nat
      /\ WritePos(w) + CopyLen(w) <= offset["Left"] + QueueSize
      /\ WritePos(w) + CopyLen(w) <= 2 * QueueSize
  <2>1. /\ seen[w] <= offset["Left"]
        /\ SpaceLeft(seen[w], WritePos(w)) > 0
        /\ BufLen(w) > 0
    BY <1>1 DEF RingInv, WriterInv, Outside
  <2>2. BufLen(w) \in Int
    BY <1>0 DEF BufLen
  <2> QED
    BY <1>0, <1>1, <2>1, <2>2 DEF CopyLen, Least, SpaceLeft, WriteEnd
<1>4. \A a \in offset["Left"] .. RightEnd - 1 : mem'[Cell(a)] = mem[Cell(a)]
  <2>1. pc[w] \in BeforeCommit /\ offset["Right"] <= WritePos(w)
    <3>1. pc[w] \in BeforeCommit
      BY DEF BeforeCommit
    <3>2. right_offset[w] = offset["Right"]
      BY <3>1, BeforeTheCommit
    <3> QED
      BY <1>0, <1>1, <3>1, <3>2
  <2>2. \A c \in Cells :
          Ahead(WritePos(w), c) < CopyLen(w) \/ mem'[c] = mem[c]
    OBVIOUS
  <2> QED
    BY <1>1, <1>2, <2>1, <2>2, MessagesUntouched
<1> QED
  BY <1>0, <1>1, <1>2, <1>4

LEMMA WriteCopyRing ==
  ASSUME NoOverflow, RingInv, NEW w \in Writers, WriteCopy(w)
  PROVE  RingInv'
<1> USE DEF WriteCopy, Goto, header, readerLocals, history
<1>1. /\ WritePos(w) = right_offset[w] + total_written[w]
      /\ WritePos(w) \in 0 .. 2 * QueueSize
  BY WriteCopyEffect
<1>0. /\ right_offset[w] \in Nat /\ total_written[w] \in Nat
      /\ body[w] \in Nat /\ seen[w] \in Nat /\ offset["Left"] \in Nat
  BY WriteCopyEffect
<1>2. /\ CopyLen(w) \in Nat
      /\ WritePos(w) + CopyLen(w) <= offset["Left"] + QueueSize
      /\ WritePos(w) + CopyLen(w) <= 2 * QueueSize
  BY WriteCopyEffect
<1>3. RingTyped'
  <2>1. total_written' \in [Writers -> Offsets]
    <3>1. total_written[w] + CopyLen(w) \in Offsets
      BY <1>0, <1>1, <1>2 DEF Offsets, NoOverflow
    <3> QED
      BY <3>1 DEF RingInv, RingTyped, QueueTypeOK
  <2>2. mem' \in [Cells -> Units]
    <3>1. ASSUME NEW c \in Cells, Ahead(WritePos(w), c) < CopyLen(w)
          PROVE  Unit(total_written[w] + Ahead(WritePos(w), c)) \in Units
      <4>1. Ahead(WritePos(w), c) \in Nat
        BY <1>1 DEF Ahead, Cell, Cells
      <4>2. started \in Nat
        BY DEF RingInv, RingTyped, QueueTypeOK
      <4> QED
        BY <1>0, <4>1, <4>2 DEF Unit, SizeUnit, Units
    <3> QED
      BY <3>1 DEF RingInv, RingTyped, QueueTypeOK
  <2> QED
    BY <2>1, <2>2 DEF RingInv, RingTyped, QueueTypeOK, AllStages, Procs
<1>4. \A a \in offset["Left"] .. RightEnd - 1 : mem'[Cell(a)] = mem[Cell(a)]
  BY WriteCopyEffect
<1>5. LocksHeld' /\ BufferedInv' /\ CachesLag'
  BY DEF RingInv, RingTyped, QueueTypeOK, LocksHeld, BufferedInv, CachesLag,
     Outside, BeforeCommit, AfterCommit, Side, Procs
<1>6. ReaderInv'
  <2>1. offset["Left"] < offset["Right"] =>
          mem'[Cell(offset["Left"])] = mem[Cell(offset["Left"])]
    <3>1. offset["Left"] < offset["Right"] =>
            offset["Left"] \in offset["Left"] .. RightEnd - 1
      BY Ordered DEF RingInv
    <3> QED
      BY <1>4, <3>1
  <2>2. \A r \in Readers : pc'[r] = pc[r]
    BY DEF RingInv, RingTyped, Procs
  <2> QED
    BY <2>1, <2>2 DEF RingInv, ReaderInv
<1>7. WriterInv'
  <2>1. \A v \in Writers \ {w} : pc'[v] \in Outside
    BY OthersOutside DEF RingInv, RingTyped, Procs, Outside
  <2>2. pc'[w] = "write" /\ total_written'[w] = total_written[w] + CopyLen(w)
    BY DEF RingInv, RingTyped, QueueTypeOK, Procs
  <2>3. right_offset[w] = offset["Right"]
    BY BeforeTheCommit DEF BeforeCommit
  <2> QED
    BY <1>0, <1>1, <1>2, <2>1, <2>2, <2>3 DEF WriterInv
<1>8. Framed'
  BY <1>4, FramedUntouched DEF RingInv
<1> QED
  BY <1>3, <1>5, <1>6, <1>7, <1>8 DEF RingInv

LEMMA LockLeftRing ==
  ASSUME NoOverflow, RingInv, NEW w \in Writers, LockLeft(w)
  PROVE  RingInv'
<1> USE DEF LockLeft, Take, Goto, ring, readerLocals, writerLocals, history
<1>1. RingTyped'
  BY DEF RingInv, RingTyped, QueueTypeOK, AllStages, Procs
<1>2. LocksHeld'
  BY DEF RingInv, RingTyped, QueueTypeOK, LocksHeld, Outside, BeforeCommit,
     AfterCommit, Side, Procs
<1>3. BufferedInv' /\ ReaderInv' /\ CachesLag'
  BY DEF RingInv, RingTyped, BufferedInv, ReaderInv, CachesLag, AfterCommit,
     Procs
<1>4. WriterInv'
  BY DEF RingInv, RingTyped, WriterInv, BufLen, BeforeCommit, Outside, Procs
<1>5. Framed'
  BY FramedUnchanged DEF RingInv
<1> QED
  BY <1>1, <1>2, <1>3, <1>4, <1>5 DEF RingInv

(* fix_offsets: one mapping back, nobody reads and nothing is buffered.    *)
LEMMA FixOffsetsRing ==
  ASSUME NoOverflow, RingInv, NEW w \in Writers, FixOffsets(w)
  PROVE  RingInv' /\ Wrap
<1> USE DEF FixOffsets, FixBoth, GiveBack, Goto, ring, readerLocals, history
<1>1. /\ RightEnd = offset["Right"]
      /\ right_offset[w] = offset["Right"]
      /\ \A v \in Writers : buffered[v] = NoStore
  BY BeforeTheCommit DEF BeforeCommit
<1>2. QueueSize <= offset["Left"]
  BY DEF RingInv, WriterInv, Outside
<1>3. /\ offset'["Left"] = offset["Left"] - QueueSize
      /\ offset'["Right"] = offset["Right"] - QueueSize
      /\ right_offset'[w] = offset["Right"] - QueueSize
      /\ cached'["Left"] = offset["Right"] - QueueSize
      /\ cached'["Right"] = offset["Left"] - QueueSize
      /\ RightEnd' = offset["Right"] - QueueSize
  <2>1. /\ SubU32(offset["Left"], QueueSize) = offset["Left"] - QueueSize
        /\ SubU32(right_offset[w], QueueSize) = offset["Right"] - QueueSize
    BY <1>1, <1>2, Ordered DEF RingInv, SubU32
  <2>2. RightEnd' = offset'["Right"]
    BY <1>1 DEF RightEnd
  <2> QED
    BY <2>1, <2>2 DEF RingInv, RingTyped, QueueTypeOK, Side
<1>4. RingTyped'
  <2>1. /\ offset["Left"] - QueueSize \in Offsets
        /\ offset["Right"] - QueueSize \in Offsets
    BY <1>2, Ordered DEF RingInv, Offsets, NoOverflow
  <2>2. /\ offset' \in [Side -> Offsets]
        /\ cached' \in [Side -> Offsets]
        /\ right_offset' \in [Writers -> Offsets]
    BY <1>1, <1>3, <2>1 DEF Side, RingInv, RingTyped, QueueTypeOK
  <2>3. lock' \in [Side -> Procs \cup {Free}]
    BY DEF RingInv, RingTyped, QueueTypeOK
  <2> QED
    BY <2>2, <2>3 DEF RingInv, RingTyped, QueueTypeOK, AllStages, Procs
<1>5. \A r \in Readers :
        pc'[r] = pc[r] /\ pc[r] \notin {"load", "read", "unlock"}
  BY DEF RingInv, RingTyped, LocksHeld, Procs
<1>6. \A v \in Writers \ {w} : pc'[v] = pc[v] /\ pc[v] \in Outside
  BY OthersOutside DEF RingInv, RingTyped, Outside, Procs
<1>7. pc'[w] = "write"
  BY DEF RingInv, RingTyped, Procs
<1>8. LocksHeld'
  <2>1. lock'["Left"] = Free /\ lock'["Right"] = lock["Right"]
    BY DEF RingInv, RingTyped, QueueTypeOK, Side
  <2> QED
    BY <2>1, <1>5, <1>6, <1>7 DEF RingInv, LocksHeld, Outside, BeforeCommit,
       Procs
<1>9. BufferedInv' /\ ReaderInv'
  BY <1>1, <1>5 DEF BufferedInv, ReaderInv
<1>10. CachesLag'
  BY <1>2, <1>3, Ordered DEF CachesLag, RingInv
<1>11. WriterInv'
  <2>1. /\ right_offset[w] + total_written[w] <= offset["Left"] + QueueSize
        /\ right_offset[w] \in Nat /\ total_written[w] \in Nat
        /\ offset["Left"] \in 0 .. 2 * QueueSize
    <3>1. right_offset[w] + total_written[w] <= offset["Left"] + QueueSize
      BY DEF RingInv, WriterInv, Outside
    <3>2. right_offset[w] \in Nat /\ total_written[w] \in Nat
      BY DEF RingInv, RingTyped, QueueTypeOK, Offsets
    <3> QED
      BY <3>1, <3>2, Ordered DEF RingInv
  <2> QED
    BY <1>1, <1>2, <1>3, <1>6, <1>7, <2>1 DEF WriterInv
<1>12. Framed'
  <2>1. PICK F \in SUBSET (0 .. 2 * QueueSize) : Framing(F)
    BY DEF RingInv, Framed
  <2> DEFINE G == {a - QueueSize : a \in F}
  <2>2. \A a \in F : a \in Int /\ QueueSize <= a
    BY <1>2, <2>1, Ordered DEF Framing, RingInv
  <2>3. \A a \in F : a < RightEnd =>
          After(a - QueueSize)' = After(a) - QueueSize
    <3> SUFFICES ASSUME NEW a \in F, a < RightEnd
                 PROVE  After(a - QueueSize)' = After(a) - QueueSize
      OBVIOUS
    <3>1. a < 2 * QueueSize
      BY <2>2, Ordered DEF RingInv
    <3>2. Cell(a - QueueSize) = Cell(a) /\ Cell(a) \in Cells
      BY <2>2, <3>1, CellInRing DEF Cell
    <3>3. mem[Cell(a)][2] \in Nat
      BY <3>2 DEF RingInv, RingTyped, QueueTypeOK, Units
    <3> QED
      BY <2>2, <3>2, <3>3 DEF After
  <2>4. Framing(G)'
    <3>1. {offset'["Left"], offset'["Right"], RightEnd'} \subseteq G
      BY <1>1, <1>3, <2>1 DEF Framing
    <3>2. \A a \in G : offset'["Left"] <= a /\ a <= RightEnd'
      BY <1>1, <1>3, <2>1, <2>2, Ordered DEF Framing, RingInv
    <3>3. \A a \in G : a < RightEnd' => After(a)' \in G
      <4> SUFFICES ASSUME NEW a \in F, a - QueueSize < RightEnd'
                   PROVE  After(a - QueueSize)' \in G
        OBVIOUS
      <4>1. a < RightEnd
        BY <1>1, <1>3, <2>2, Ordered DEF RingInv
      <4> QED
        BY <4>1, <2>1, <2>3 DEF Framing
    <3>4. \A a, b \in G : a < b => After(a)' <= b
      <4> SUFFICES ASSUME NEW a \in F, NEW b \in F,
                          a - QueueSize < b - QueueSize
                   PROVE  After(a - QueueSize)' <= b - QueueSize
        OBVIOUS
      <4>1. a < b /\ a < RightEnd /\ After(a) <= b
        BY <2>1, <2>2, Ordered DEF Framing, RingInv
      <4>2. After(a) \in Int
        BY <4>1, <2>1, <2>2 DEF Framing
      <4> QED
        BY <4>1, <4>2, <2>2, <2>3
    <3> QED
      BY <3>1, <3>2, <3>3, <3>4 DEF Framing
  <2>5. G \in SUBSET (0 .. 2 * QueueSize)
    BY <2>2
  <2>6. RightEnd' <= offset'["Left"] + QueueSize /\ RightEnd' <= 2 * QueueSize
    BY <1>1, <1>3, Ordered DEF RingInv
  <2> QED
    BY <2>4, <2>5, <2>6 DEF Framed
<1>14. Wrap
  BY <1>1, <1>3, <1>5 DEF Wrap, Side
<1> QED
  BY <1>4, <1>8, <1>9, <1>10, <1>11, <1>12, <1>14 DEF RingInv

(* The commit: one more message, from the old end of the messages to what  *)
(* the writer has written, its size word telling its length.               *)
LEMMA SendCommitEffect ==
  ASSUME NoOverflow, RingInv, NEW w \in Writers, SendCommit(w),
         NEW top, top = right_offset[w] + total_written[w]
  PROVE  /\ WritePos(w) = top
         /\ top \in 0 .. 2 * QueueSize
         /\ top <= offset["Left"] + QueueSize
         /\ RightEnd = offset["Right"]
         /\ right_offset[w] = offset["Right"]
         /\ \A v \in Writers : buffered[v] = NoStore
         /\ right_offset[w] \in Nat /\ total_written[w] \in Nat
         /\ body[w] \in Nat
         /\ WordSize <= total_written[w]
         /\ MessageSize(w) \in Nat
         /\ MessageSize(w) = total_written[w] - WordSize
         /\ \A a \in offset["Left"] .. RightEnd - 1 :
              mem'[Cell(a)] = mem[Cell(a)]
         /\ mem'[Cell(right_offset[w])][2] = MessageSize(w)
         /\ offset'["Left"] = offset["Left"]
         /\ offset'["Right"] \in {offset["Right"], top}
         /\ RightEnd' = top
<1> USE DEF SendCommit, Goto, writerLocals, readerLocals
<1>0. pc[w] \in BeforeCommit /\ pc[w] \notin Outside
  BY DEF BeforeCommit, Outside
<1>1. /\ WritePos(w) = top
      /\ top \in 0 .. 2 * QueueSize
      /\ top <= offset["Left"] + QueueSize
  BY <1>0, WritePosition
<1>2. /\ RightEnd = offset["Right"]
      /\ right_offset[w] = offset["Right"]
      /\ \A v \in Writers : buffered[v] = NoStore
  BY <1>0, BeforeTheCommit
<1>3. right_offset[w] \in Nat /\ total_written[w] \in Nat /\ body[w] \in Nat
  BY DEF RingInv, RingTyped, QueueTypeOK, Offsets
<1>4. WordSize <= total_written[w]
  BY <1>3 DEF CallbackOk, BufLen
<1>5. MessageSize(w) \in Nat /\ MessageSize(w) = total_written[w] - WordSize
  BY <1>3, <1>4 DEF MessageSize
<1>6. \A c \in Cells : Ahead(right_offset[w], c) < WordSize \/ mem'[c] = mem[c]
  OBVIOUS
<1>7. \A a \in offset["Left"] .. RightEnd - 1 : mem'[Cell(a)] = mem[Cell(a)]
  <2>1. right_offset[w] \in 0 .. 2 * QueueSize
    BY <1>2, Ordered DEF RingInv
  <2>2. right_offset[w] + WordSize <= offset["Left"] + QueueSize
    BY <1>1, <1>3, <1>4, Ordered DEF RingInv
  <2>3. offset["Right"] <= right_offset[w]
    BY <1>2, Ordered DEF RingInv
  <2> QED
    BY <1>0, <1>6, <2>1, <2>2, <2>3, MessagesUntouched
<1>8. mem'[Cell(right_offset[w])][2] = MessageSize(w)
  <2>1. right_offset[w] < 2 * QueueSize
    BY <1>1, <1>3, <1>4
  <2>2. Cell(right_offset[w]) \in Cells
    BY <1>3, <2>1, CellInRing
  <2>3. Ahead(right_offset[w], Cell(right_offset[w])) = 0
    BY <1>3, <2>2 DEF Ahead, Cells
  <2> QED
    BY <2>2, <2>3 DEF SizeUnit
<1>9. /\ offset'["Left"] = offset["Left"]
      /\ offset'["Right"] \in {offset["Right"], top}
      /\ RightEnd' = top
  <2>1. CASE StoreBuffering
    <3>1. /\ offset' = offset
          /\ buffered' = [buffered EXCEPT ![w] = top]
      BY <1>1, <2>1
    <3>2. /\ buffered'[w] = top /\ top # NoStore
          /\ \A v \in Writers \ {w} : buffered'[v] = NoStore
      BY <1>1, <1>2, <3>1 DEF RingInv, RingTyped, QueueTypeOK, NoStore
    <3> QED
      BY <3>1, <3>2 DEF RightEnd
  <2>2. CASE ~StoreBuffering
    <3>1. /\ offset' = [offset EXCEPT !["Right"] = top]
          /\ buffered' = buffered
      BY <1>1, <2>2
    <3> QED
      BY <1>2, <3>1 DEF RightEnd, RingInv, RingTyped, QueueTypeOK, Side
  <2> QED
    BY <2>1, <2>2
<1> QED
  BY <1>1, <1>2, <1>3, <1>4, <1>5, <1>7, <1>8, <1>9

(* A function on 1 .. n is a sequence.                                     *)
LEMMA FunctionAsSeq ==
  ASSUME NEW S, NEW n \in Nat, NEW f \in [1 .. n -> S]
  PROVE  f \in Seq(S)
OBVIOUS

(* The commit of a message extends the frame by that message.              *)
LEMMA SendCommitRing ==
  ASSUME NoOverflow, RingInv, NEW w \in Writers, SendCommit(w)
  PROVE  RingInv' /\ Forward
<1> USE DEF SendCommit, Goto, writerLocals, readerLocals
<1>0. pc[w] \in BeforeCommit /\ pc[w] \notin Outside
  BY DEF BeforeCommit, Outside
<1> DEFINE top == right_offset[w] + total_written[w]
<1>1. /\ WritePos(w) = top
      /\ top \in 0 .. 2 * QueueSize
      /\ top <= offset["Left"] + QueueSize
  BY SendCommitEffect
<1>2. /\ RightEnd = offset["Right"]
      /\ right_offset[w] = offset["Right"]
      /\ \A v \in Writers : buffered[v] = NoStore
  BY SendCommitEffect
<1>3. right_offset[w] \in Nat /\ total_written[w] \in Nat /\ body[w] \in Nat
  BY SendCommitEffect
<1>4. WordSize <= total_written[w]
  BY SendCommitEffect
<1>5. MessageSize(w) \in Nat /\ MessageSize(w) = total_written[w] - WordSize
  BY SendCommitEffect
<1>7. \A a \in offset["Left"] .. RightEnd - 1 : mem'[Cell(a)] = mem[Cell(a)]
  BY SendCommitEffect
<1>8. mem'[Cell(right_offset[w])][2] = MessageSize(w)
  BY SendCommitEffect
<1>9. /\ offset'["Left"] = offset["Left"]
      /\ offset'["Right"] \in {offset["Right"], top}
      /\ RightEnd' = top
  BY SendCommitEffect
<1>10. buffered' \in [Writers -> Offsets \cup {NoStore}]
       /\ offset' \in [Side -> Offsets]
  <2>1. top \in Offsets
    BY <1>1 DEF Offsets, NoOverflow
  <2>2. buffered \in [Writers -> Offsets \cup {NoStore}]
        /\ offset \in [Side -> Offsets]
    BY DEF RingInv, RingTyped, QueueTypeOK
  <2> HIDE DEF top
  <2>3. \/ offset' = offset /\ buffered' = [buffered EXCEPT ![w] = top]
        \/ offset' = [offset EXCEPT !["Right"] = top] /\ buffered' = buffered
    BY <1>1
  <2> QED
    BY <2>1, <2>2, <2>3
<1>11. RingTyped'
  <2>1. mem' \in [Cells -> Units]
    BY <1>5 DEF RingInv, RingTyped, QueueTypeOK, SizeUnit, Units
  <2>2. sent' \in Seq(Seq(Units))
    <3>1. \A k \in 1 .. total_written[w] - WordSize : <<started, k>> \in Units
      BY DEF RingInv, RingTyped, QueueTypeOK, Units
    <3>2. Payload(w) \in Seq(Units)
      <4> HIDE DEF SendCommit, Goto
      <4>1. total_written[w] - WordSize \in Nat
        BY <1>5
      <4>2. Payload(w) \in [1 .. total_written[w] - WordSize -> Units]
        BY <3>1 DEF Payload
      <4> QED
        BY <4>1, <4>2, FunctionAsSeq
    <3> QED
      BY <3>2 DEF RingInv, RingTyped, QueueTypeOK
  <2> QED
    BY <1>10, <2>1, <2>2 DEF RingInv, RingTyped, QueueTypeOK, AllStages,
       Procs
<1>12. LocksHeld'
  BY DEF RingInv, RingTyped, LocksHeld, Outside, BeforeCommit, AfterCommit,
     Procs
<1>13. \A v \in Writers \ {w} : pc'[v] \in Outside
  BY <1>0, OthersOutside DEF RingInv, RingTyped, Procs
<1>14. pc'[w] = "notify"
  BY DEF RingInv, RingTyped, Procs
<1>15. WriterInv'
  BY <1>1, <1>9, <1>13, <1>14, Ordered DEF WriterInv, BeforeCommit
<1>16. BufferedInv'
  BY <1>1, <1>2, <1>14 DEF RingInv, RingTyped, QueueTypeOK, BufferedInv,
     AfterCommit
<1>17. offset["Right"] <= offset'["Right"]
  BY <1>2, <1>3, <1>9, Ordered DEF RingInv
<1>18. ReaderInv'
  <2> SUFFICES ASSUME NEW r \in Readers, pc'[r] = "read"
               PROVE  /\ left_offset'[r] = offset'["Left"]
                      /\ offset'["Left"] < offset'["Right"]
                      /\ size'[r] = mem'[Cell(offset'["Left"])][2]
    BY DEF ReaderInv
  <2>1. pc[r] = "read"
    BY DEF RingInv, RingTyped, Procs
  <2>2. offset["Left"] < offset["Right"]
    BY <2>1 DEF RingInv, ReaderInv
  <2>3. mem'[Cell(offset["Left"])] = mem[Cell(offset["Left"])]
    <3>1. offset["Left"] \in offset["Left"] .. RightEnd - 1
      BY <2>2, Ordered DEF RingInv
    <3> QED
      BY <1>7, <3>1
  <2> QED
    BY <1>9, <1>17, <2>1, <2>2, <2>3, Ordered DEF RingInv, ReaderInv
<1>19. CachesLag'
  <2>1. offset["Left"] <= offset'["Left"]
    BY <1>9, Ordered DEF RingInv
  <2>2. offset'["Left"] \in Int /\ offset'["Right"] \in Int
    BY <1>1, <1>9, Ordered DEF RingInv
  <2> QED
    BY <1>17, <2>1, <2>2, CachesFollow
<1>20. Framed'
  <2>1. PICK F \in SUBSET (0 .. 2 * QueueSize) : Framing(F)
    BY DEF RingInv, Framed
  <2> DEFINE G == F \cup {top}
  <2>2. \A a \in F : a \in Int /\ a <= RightEnd /\ offset["Left"] <= a
    BY <2>1 DEF Framing
  <2>10. \A a \in F : a < RightEnd => After(a)' = After(a)
    <3> SUFFICES ASSUME NEW a \in F, a < RightEnd
                 PROVE  After(a)' = After(a)
      OBVIOUS
    <3>1. a \in offset["Left"] .. RightEnd - 1
      BY <2>2, Ordered DEF RingInv
    <3>2. mem'[Cell(a)] = mem[Cell(a)]
      BY <1>7, <3>1
    <3> QED
      BY <3>2 DEF After
  <2>3. RightEnd < top
    BY <1>2, <1>3, <1>4
  <2>4. \A a \in F : a = RightEnd => After(a)' = top
    BY <1>2, <1>3, <1>5, <1>8 DEF After
  <2>11. \A a \in F : a = RightEnd \/ a < RightEnd
    BY <2>2, Ordered DEF RingInv
  <2>5. \A a \in F : After(a)' \in G
    BY <2>1, <2>4, <2>10, <2>11 DEF Framing
  <2>6. \A a, b \in F : a < b => After(a)' <= b
    BY <2>1, <2>2, <2>10, Ordered DEF Framing, RingInv
  <2>7. \A a \in F : After(a)' <= top
    <3> SUFFICES ASSUME NEW a \in F PROVE After(a)' <= top
      OBVIOUS
    <3>1. CASE a = RightEnd
      BY <1>1, <2>4, <3>1
    <3>2. CASE a < RightEnd
      <4>1. After(a) \in F
        BY <2>1, <3>2 DEF Framing
      <4>2. After(a) \in Int /\ After(a) <= RightEnd /\ After(a)' = After(a)
        BY <2>2, <2>10, <3>2, <4>1
      <4>3. RightEnd \in Int /\ top \in Int
        BY <1>1, Ordered DEF RingInv
      <4> QED
        BY <2>3, <4>2, <4>3
    <3> QED
      BY <2>11, <3>1, <3>2
  <2>8. Framing(G)'
    <3>1. {offset'["Left"], offset'["Right"], RightEnd'} \subseteq G
      BY <1>9, <2>1 DEF Framing
    <3>2. \A a \in G : offset'["Left"] <= a /\ a <= RightEnd'
      <4>1. /\ RightEnd \in Int /\ offset["Left"] \in Int /\ top \in Int
            /\ offset["Left"] <= RightEnd
        BY <1>1, Ordered DEF RingInv
      <4> HIDE DEF top
      <4> QED
        BY <1>9, <2>2, <2>3, <4>1
    <3>3. \A a \in G : a < RightEnd' => After(a)' \in G
      BY <1>1, <1>9, <2>5
    <3>4. \A a, b \in G : a < b => After(a)' <= b
      BY <1>1, <2>2, <2>3, <2>6, <2>7, Ordered DEF RingInv
    <3> QED
      BY <3>1, <3>2, <3>3, <3>4 DEF Framing
  <2>9. G \in SUBSET (0 .. 2 * QueueSize)
    BY <1>1
  <2> QED
    BY <1>1, <1>9, <2>8, <2>9 DEF Framed
<1>22. Forward
  BY <1>9, <1>17, Ordered DEF RingInv, Forward, Side
<1> QED
  BY <1>11, <1>12, <1>15, <1>16, <1>18, <1>19, <1>20, <1>22 DEF RingInv

LEMMA SendAbortRing ==
  ASSUME NoOverflow, RingInv, NEW w \in Writers, SendAbort(w)
  PROVE  RingInv'
<1> USE DEF SendAbort, Goto, header, ring, readerLocals, writerLocals, history
<1>1. RingTyped'
  BY DEF RingInv, RingTyped, QueueTypeOK, AllStages, Procs
<1>2. LocksHeld' /\ BufferedInv' /\ ReaderInv' /\ CachesLag'
  BY DEF RingInv, RingTyped, LocksHeld, BufferedInv, ReaderInv, CachesLag,
     Outside, BeforeCommit, AfterCommit, Procs
<1>3. WriterInv'
  BY DEF RingInv, RingTyped, WriterInv, BufLen, BeforeCommit, Outside, Procs
<1>4. Framed'
  BY FramedUnchanged DEF RingInv
<1> QED
  BY <1>1, <1>2, <1>3, <1>4 DEF RingInv

(* A writer whose store becomes visible, or that has none: the right       *)
(* offset is then the end of the messages, which stays where it is.        *)
LEMMA DrainLemma ==
  ASSUME NoOverflow, RingInv, NEW w \in Writers,
         pc[w] \notin Outside, Drain(w), UNCHANGED mem
  PROVE  /\ offset'["Left"] = offset["Left"]
         /\ offset'["Right"] = RightEnd
         /\ RightEnd' = RightEnd
         /\ offset["Right"] <= RightEnd
         /\ \A v \in Writers : buffered'[v] = NoStore
         /\ offset' \in [Side -> Offsets]
         /\ buffered' \in [Writers -> Offsets \cup {NoStore}]
         /\ Framed'
<1>1. /\ \A v \in Writers \ {w} : buffered[v] = NoStore
      /\ RightEnd = IF buffered[w] = NoStore
                    THEN offset["Right"] ELSE buffered[w]
  BY OneBuffered DEF RingInv
<1>2. /\ offset'["Left"] = offset["Left"]
      /\ offset'["Right"] = RightEnd
      /\ offset' \in [Side -> Offsets]
  BY <1>1 DEF RingInv, RingTyped, QueueTypeOK, Drain, Drained, Side
<1>3. /\ \A v \in Writers : buffered'[v] = NoStore
      /\ buffered' \in [Writers -> Offsets \cup {NoStore}]
  BY <1>1 DEF RingInv, RingTyped, QueueTypeOK, Drain
<1>4. RightEnd' = RightEnd
  BY <1>2, <1>3 DEF RightEnd
<1>5. Framed'
  BY <1>2, <1>4 DEF RingInv, Framed, Framing, After
<1> QED
  BY <1>2, <1>3, <1>4, <1>5, Ordered DEF RingInv

(* What a step that drains does to the rest of the invariant.              *)
LEMMA DrainKeeps ==
  ASSUME NoOverflow, RingInv, NEW w \in Writers,
         pc[w] \notin Outside, Drain(w), UNCHANGED <<mem, cached>>
  PROVE  /\ CachesLag'
         /\ BufferedInv'
         /\ \/ ~UNCHANGED <<left_offset, size>>
            \/ ~\A r \in Readers : pc'[r] = "read" => pc[r] = "read"
            \/ ReaderInv'
<1>1. /\ offset'["Left"] = offset["Left"]
      /\ offset["Right"] <= offset'["Right"]
      /\ offset'["Right"] \in Int
      /\ \A v \in Writers : buffered'[v] = NoStore
  BY DrainLemma, Ordered DEF RingInv
<1>2. CachesLag'
  <2>1. /\ offset["Left"] <= offset'["Left"]
        /\ offset'["Left"] \in Int
    BY <1>1, Ordered DEF RingInv
  <2> QED
    BY <1>1, <2>1, CachesFollow
<1>3. BufferedInv'
  BY <1>1 DEF BufferedInv
<1>4. ASSUME UNCHANGED <<left_offset, size>>,
             \A r \in Readers : pc'[r] = "read" => pc[r] = "read"
      PROVE  ReaderInv'
  BY <1>1, <1>4, Ordered DEF RingInv, ReaderInv
<1> QED
  BY <1>2, <1>3, <1>4

LEMMA FlushRing ==
  ASSUME NoOverflow, RingInv, NEW w \in Writers, Flush(w)
  PROVE  RingInv'
<1> USE DEF Flush, readerLocals, writerLocals, history
<1>1. pc[w] \in AfterCommit /\ pc[w] \notin Outside
  BY DEF RingInv, BufferedInv, AfterCommit, Outside
<1>2. RingTyped'
  BY <1>1, DrainLemma DEF RingInv, RingTyped, QueueTypeOK
<1>3. LocksHeld'
  BY DEF RingInv, LocksHeld
<1>4. CachesLag' /\ BufferedInv' /\ ReaderInv'
  BY <1>1, DrainKeeps
<1>5. WriterInv'
  <2>1. \A v \in Writers \ {w} : pc[v] \in Outside
    BY <1>1, OthersOutside DEF RingInv, AfterCommit, Outside
  <2>2. offset'["Left"] = offset["Left"]
    BY <1>1, DrainLemma
  <2> QED
    BY <1>1, <2>1, <2>2 DEF RingInv, WriterInv, AfterCommit, BeforeCommit,
       Outside
<1>6. Framed'
  BY <1>1, DrainLemma
<1> QED
  BY <1>2, <1>3, <1>4, <1>5, <1>6 DEF RingInv

(* A writer that drops the right guard, at the end of send or in a panic,  *)
(* leaves everything in order.                                             *)
LEMMA LeaveSendRing ==
  ASSUME NoOverflow, RingInv, NEW w \in Writers,
         pc[w] \notin Outside \cup {"fix"},
         NEW stage \in {"idle", "dead"}, LeaveSend(w, stage)
  PROVE  RingInv'
<1> USE DEF LeaveSend, GiveBack, Goto, readerLocals, history
<1>1. pc[w] \notin Outside
  OBVIOUS
<1>2. RingTyped'
  <2>1. 0 \in Offsets
    BY DEF Offsets
  <2>2. offset' \in [Side -> Offsets]
        /\ buffered' \in [Writers -> Offsets \cup {NoStore}]
    BY <1>1, DrainLemma
  <2>3. pc' \in [Procs -> AllStages]
    BY DEF RingInv, RingTyped, AllStages, Procs
  <2> QED
    BY <2>1, <2>2, <2>3 DEF RingInv, RingTyped, QueueTypeOK, Procs
<1>3. LocksHeld'
  <2>1. /\ lock'["Right"] = Free /\ lock'["Left"] = lock["Left"]
        /\ lock["Right"] = w /\ lock["Left"] # w
    BY DEF RingInv, RingTyped, QueueTypeOK, LocksHeld, Side
  <2>2. pc'[w] = stage /\ \A q \in Procs \ {w} : pc'[q] = pc[q]
    BY DEF RingInv, RingTyped, Procs
  <2> QED
    BY <2>1, <2>2 DEF RingInv, LocksHeld, Procs, Outside
<1>4. CachesLag' /\ BufferedInv' /\ ReaderInv'
  <2>1. \A r \in Readers : pc'[r] = pc[r]
    BY DEF RingInv, RingTyped, Procs
  <2> QED
    BY <1>1, <2>1, DrainKeeps
<1>5. WriterInv'
  <2>1. \A v \in Writers : pc'[v] \in Outside
    BY OthersOutside DEF RingInv, RingTyped, Outside, Procs
  <2> QED
    BY <2>1 DEF WriterInv
<1>6. Framed'
  BY <1>1, DrainLemma
<1> QED
  BY <1>2, <1>3, <1>4, <1>5, <1>6 DEF RingInv

LEMMA RecvLockRing ==
  ASSUME NoOverflow, RingInv, NEW r \in Readers, RecvLock(r)
  PROVE  RingInv'
<1> USE DEF RecvLock, Take, Goto, ring, readerLocals, writerLocals, history
<1>1. RingTyped'
  BY DEF RingInv, RingTyped, QueueTypeOK, AllStages, Procs
<1>2. LocksHeld'
  <2>1. /\ lock["Left"] = Free /\ lock'["Left"] = r
        /\ lock'["Right"] = lock["Right"]
    BY DEF RingInv, RingTyped, QueueTypeOK, Side
  <2>2. pc'[r] = "load" /\ \A q \in Procs \ {r} : pc'[q] = pc[q]
    BY DEF RingInv, RingTyped, Procs
  <2>3. lock' \in [Side -> Procs \cup {Free}]
    BY <1>1 DEF RingTyped, QueueTypeOK
  <2> QED
    BY <2>1, <2>2, <2>3 DEF RingInv, LocksHeld, Procs
<1>3. BufferedInv' /\ ReaderInv' /\ CachesLag'
  BY DEF RingInv, RingTyped, BufferedInv, ReaderInv, CachesLag, AfterCommit,
     Procs
<1>4. WriterInv'
  BY DEF RingInv, RingTyped, WriterInv, BufLen, BeforeCommit, Outside, Procs
<1>5. Framed'
  BY FramedUnchanged DEF RingInv
<1> QED
  BY <1>1, <1>2, <1>3, <1>4, <1>5 DEF RingInv

(* The right offset a receiver goes by is never ahead of the real one.     *)
LEMMA RightSeenLemma ==
  ASSUME RingInv
  PROVE  /\ RightSeen \in Offsets
         /\ RightSeen > offset["Left"] => offset["Left"] < offset["Right"]
BY Ordered DEF RingInv, RingTyped, QueueTypeOK, CachesLag, RightSeen,
   RightHit,
   Offsets, Side

LEMMA RecvTakeRing ==
  ASSUME NoOverflow, RingInv, NEW r \in Readers, RecvTake(r)
  PROVE  RingInv'
<1> USE DEF RecvTake, LoadRight, Goto, ring, writerLocals, history
<1>1. offset["Left"] < offset["Right"] /\ RightSeen \in Offsets
  BY RightSeenLemma
<1>2. /\ offset["Left"] \in Offsets
      /\ mem[Cell(offset["Left"])][2] \in Nat
  <2>1. Cell(offset["Left"]) \in Cells
    BY <1>1, Ordered, CellInRing DEF RingInv
  <2> QED
    BY <2>1 DEF RingInv, RingTyped, QueueTypeOK, Units, Side
<1>3. RingTyped'
  <2>1. cached' \in [Side -> Offsets]
    BY DEF RingInv, RingTyped, QueueTypeOK, Side
  <2> HIDE DEF Cell, Units
  <2> QED
    BY <1>1, <1>2, <2>1 DEF RingInv, RingTyped, QueueTypeOK, AllStages, Procs
<1>4. LocksHeld' /\ BufferedInv'
  BY DEF RingInv, RingTyped, LocksHeld, BufferedInv, Outside, BeforeCommit,
     AfterCommit, Procs
<1>5. ReaderInv'
  BY <1>1 DEF RingInv, RingTyped, QueueTypeOK, ReaderInv, Procs
<1>6. CachesLag'
  BY DEF RingInv, CachesLag, RingTyped, QueueTypeOK, Side, Offsets
<1>7. WriterInv'
  BY DEF RingInv, RingTyped, QueueTypeOK, WriterInv, BufLen, BeforeCommit,
     Outside, Procs
<1>8. Framed'
  BY FramedUnchanged DEF RingInv
<1> QED
  BY <1>3, <1>4, <1>5, <1>6, <1>7, <1>8 DEF RingInv

LEMMA RecvEmptyRing ==
  ASSUME NoOverflow, RingInv, NEW r \in Readers, RecvEmpty(r)
  PROVE  RingInv'
<1> USE DEF RecvEmpty, LoadRight, GiveBack, Goto, ring, readerLocals,
            writerLocals, history
<1>1. RingTyped'
  <2>1. cached' \in [Side -> Offsets] /\ seen' \in [Procs -> Offsets]
    BY RightSeenLemma DEF RingInv, RingTyped, QueueTypeOK, Side
  <2>2. lock' \in [Side -> Procs \cup {Free}]
    BY DEF RingInv, RingTyped, QueueTypeOK
  <2> QED
    BY <2>1, <2>2 DEF RingInv, RingTyped, QueueTypeOK, AllStages, Procs
<1>2. LocksHeld'
  <2>1. lock'["Left"] = Free /\ lock'["Right"] = lock["Right"]
        /\ lock["Left"] = r
    BY DEF RingInv, RingTyped, QueueTypeOK, LocksHeld, Side
  <2>2. pc'[r] = "wait" /\ \A q \in Procs \ {r} : pc'[q] = pc[q]
    BY DEF RingInv, RingTyped, Procs
  <2> QED
    BY <2>1, <2>2 DEF RingInv, LocksHeld, Procs
<1>3. BufferedInv' /\ ReaderInv'
  BY DEF RingInv, RingTyped, BufferedInv, ReaderInv, AfterCommit, Procs
<1>4. CachesLag'
  BY DEF RingInv, CachesLag, RingTyped, QueueTypeOK, Side, Offsets
<1>5. WriterInv'
  BY DEF RingInv, RingTyped, QueueTypeOK, WriterInv, BufLen, BeforeCommit,
     Outside, Procs
<1>6. Framed'
  BY FramedUnchanged DEF RingInv
<1> QED
  BY <1>1, <1>2, <1>3, <1>4, <1>5, <1>6 DEF RingInv

(* A slice of units is a sequence of units.                                *)
LEMMA SliceOfUnits ==
  ASSUME NEW a, NEW n \in Nat,
         \A k \in 1 .. n : mem[Cell(a + k - 1)] \in Units
  PROVE  Slice(a, n) \in Seq(Units)
<1> DEFINE unit(k) == mem[Cell(a + k - 1)]
<1>1. Slice(a, n) = [k \in 1 .. n |-> unit(k)]
  BY DEF Slice
<1> HIDE DEF unit
<1>2. [k \in 1 .. n |-> unit(k)] \in Seq(Units)
  BY DEF unit
<1> QED
  BY <1>1, <1>2

(* The left offset moves on to where the next message starts, or where the *)
(* messages end.                                                           *)
LEMMA RecvCommitEffect ==
  ASSUME NoOverflow, RingInv, NEW r \in Readers, RecvCommit(r)
  PROVE  /\ left_offset[r] = offset["Left"]
         /\ offset["Left"] < offset["Right"]
         /\ size[r] = mem[Cell(offset["Left"])][2]
         /\ size[r] \in Nat
         /\ After(offset["Left"]) = offset["Left"] + WordSize + size[r]
         /\ After(offset["Left"]) \in 0 .. 2 * QueueSize
         /\ After(offset["Left"]) <= offset["Right"]
         /\ offset["Left"] < After(offset["Left"])
         /\ AddU32(AddU32(left_offset[r], WordSize), size[r])
              = After(offset["Left"])
         /\ offset'["Left"] = After(offset["Left"])
         /\ offset'["Right"] = offset["Right"]
         /\ RightEnd' = RightEnd
<1> USE DEF RecvCommit, Goto, ring, readerLocals, writerLocals
<1> DEFINE next == After(offset["Left"])
<1>1. /\ left_offset[r] = offset["Left"]
      /\ offset["Left"] < offset["Right"]
      /\ size[r] = mem[Cell(offset["Left"])][2]
      /\ size[r] \in Nat
  BY DEF RingInv, ReaderInv, RingTyped, QueueTypeOK
<1>2. PICK F \in SUBSET (0 .. 2 * QueueSize) : Framing(F)
  BY DEF RingInv, Framed
<1>3. /\ next = offset["Left"] + WordSize + size[r]
      /\ next \in F
      /\ next \in 0 .. 2 * QueueSize
      /\ next <= offset["Right"]
      /\ offset["Left"] < next
  <2>1. next = offset["Left"] + WordSize + size[r]
    BY <1>1 DEF After
  <2>2. next \in F
    BY <1>1, <1>2, Ordered DEF Framing, RingInv
  <2>3. next <= offset["Right"]
    BY <1>1, <1>2 DEF Framing
  <2> QED
    BY <1>1, <2>1, <2>2, <2>3, Ordered DEF RingInv
<1>4. AddU32(AddU32(left_offset[r], WordSize), size[r]) = next
  <2>1. offset["Left"] \in Nat
    BY Ordered DEF RingInv
  <2>2. AddU32(left_offset[r], WordSize) = offset["Left"] + WordSize
    BY <1>1, <1>3, <2>1 DEF AddU32, NoOverflow
  <2> QED
    BY <1>1, <1>3, <2>1, <2>2 DEF AddU32, NoOverflow
<1>5. /\ offset'["Left"] = next
      /\ offset'["Right"] = offset["Right"]
      /\ RightEnd' = RightEnd
  BY <1>4 DEF RingInv, RingTyped, QueueTypeOK, Side, RightEnd
<1> QED
  BY <1>1, <1>3, <1>4, <1>5

LEMMA RecvCommitRing ==
  ASSUME NoOverflow, RingInv, NEW r \in Readers, RecvCommit(r)
  PROVE  RingInv' /\ Forward
<1> USE DEF RecvCommit, Goto, ring, readerLocals, writerLocals
<1> DEFINE next == After(offset["Left"])
<1>1. /\ left_offset[r] = offset["Left"]
      /\ offset["Left"] < offset["Right"]
      /\ size[r] = mem[Cell(offset["Left"])][2]
      /\ size[r] \in Nat
  BY RecvCommitEffect
<1>2. PICK F \in SUBSET (0 .. 2 * QueueSize) : Framing(F)
  BY DEF RingInv, Framed
<1>3. /\ next = offset["Left"] + WordSize + size[r]
      /\ next \in F
      /\ next \in 0 .. 2 * QueueSize
      /\ next <= offset["Right"]
      /\ offset["Left"] < next
  <2>1. next \in F
    BY <1>1, <1>2, Ordered DEF Framing, RingInv
  <2> QED
    BY <2>1, RecvCommitEffect
<1>4. AddU32(AddU32(left_offset[r], WordSize), size[r]) = next
  BY RecvCommitEffect
<1>5. /\ offset'["Left"] = next
      /\ offset'["Right"] = offset["Right"]
      /\ RightEnd' = RightEnd
  BY RecvCommitEffect
<1>6. RingTyped'
  <2>1. offset' \in [Side -> Offsets]
    <3>1. next \in Offsets
      BY <1>3 DEF Offsets, NoOverflow
    <3> QED
      BY <1>4, <3>1 DEF RingInv, RingTyped, QueueTypeOK
  <2>2. received' \in Seq(Seq(Units))
    <3>1. \A k \in 1 .. size[r] :
            mem[Cell(left_offset[r] + WordSize + k - 1)] \in Units
      <4> SUFFICES ASSUME NEW k \in 1 .. size[r]
                   PROVE  mem[Cell(left_offset[r] + WordSize + k - 1)]
                            \in Units
        OBVIOUS
      <4>1. /\ left_offset[r] + WordSize + k - 1 \in Nat
            /\ left_offset[r] + WordSize + k - 1 < 2 * QueueSize
        <5>1. /\ left_offset[r] \in Nat
              /\ left_offset[r] + WordSize + size[r] <= 2 * QueueSize
          BY <1>1, <1>3, Ordered DEF RingInv
        <5> QED
          BY <1>1, <5>1, InsideMessage
      <4> QED
        BY <4>1, CellInRing DEF RingInv, RingTyped, QueueTypeOK
    <3>2. Slice(left_offset[r] + WordSize, size[r]) \in Seq(Units)
      BY <1>1, <3>1, SliceOfUnits
    <3> QED
      BY <3>2 DEF RingInv, RingTyped, QueueTypeOK
  <2>3. pc' \in [Procs -> AllStages]
    BY DEF RingInv, RingTyped, AllStages, Procs
  <2> HIDE DEF next
  <2>4. QueueTypeOK'
    BY <2>1, <2>2 DEF RingInv, RingTyped, QueueTypeOK
  <2> QED
    BY <2>3, <2>4 DEF RingTyped
<1>7. LocksHeld'
  BY DEF RingInv, RingTyped, LocksHeld, Procs
<1>8. BufferedInv'
  BY DEF RingInv, RingTyped, BufferedInv, AfterCommit, Procs
<1>9. \A q \in Readers : pc'[q] # "read"
  BY DEF RingInv, RingTyped, LocksHeld, Procs
<1>10. ReaderInv'
  BY <1>9 DEF ReaderInv
<1>11. CachesLag'
  BY <1>3, <1>5, Ordered DEF RingInv, CachesLag, RingTyped, QueueTypeOK,
     Side, Offsets
<1>12. WriterInv'
  <2>1. \A w \in Writers : /\ pc'[w] = pc[w]
                           /\ BufLen(w)' = BufLen(w)
                           /\ right_offset[w] + total_written[w] \in Int
                           /\ seen[w] \in Int
    BY DEF RingInv, RingTyped, QueueTypeOK, BufLen, Procs, Offsets
  <2>2. offset["Left"] \in Int /\ next \in Int
    BY <1>3, Ordered DEF RingInv
  <2> HIDE DEF next
  <2> QED
    BY <1>3, <1>5, <2>1, <2>2 DEF RingInv, WriterInv
<1>13. Framed'
  <2>6. PICK G \in SUBSET (0 .. 2 * QueueSize) : G = {a \in F : next <= a}
    OBVIOUS
  <2>1. \A a \in F : a \in Int /\ offset["Left"] <= a /\ a <= RightEnd
    BY <1>2 DEF Framing
  <2>2. \A a \in F : After(a)' = After(a)
    BY DEF After
  <2>3. \A a \in G : a < RightEnd => After(a) \in G
    <3> SUFFICES ASSUME NEW a \in F, next <= a, a < RightEnd
                 PROVE  After(a) \in F /\ next <= After(a)
      BY <2>6
    <3>1. After(a) \in F
      BY <1>2 DEF Framing
    <3>2. a < After(a)
      <4>1. Cell(a) \in Cells
        BY <2>1, <1>3, Ordered, CellInRing DEF RingInv
      <4>2. mem[Cell(a)][2] \in Nat
        BY <4>1 DEF RingInv, RingTyped, QueueTypeOK, Units
      <4> QED
        BY <2>1, <4>2 DEF After
    <3> QED
      BY <1>3, <2>1, <3>1, <3>2
  <2>4. Framing(G)'
    <3>1. {offset'["Left"], offset'["Right"], RightEnd'} \subseteq G
      BY <1>2, <1>3, <1>5, <2>6, Ordered DEF Framing, RingInv
    <3>2. \A a \in G : offset'["Left"] <= a /\ a <= RightEnd'
      BY <1>5, <2>1, <2>6
    <3>3. \A a \in G : a < RightEnd' => After(a)' \in G
      BY <1>5, <2>2, <2>3, <2>6
    <3>4. \A a, b \in G : a < b => After(a)' <= b
      BY <1>2, <2>2, <2>6 DEF Framing
    <3> QED
      BY <3>1, <3>2, <3>3, <3>4 DEF Framing
  <2>5. RightEnd' <= offset'["Left"] + QueueSize /\ RightEnd' <= 2 * QueueSize
    BY <1>3, <1>5, Ordered DEF RingInv
  <2> QED
    BY <2>4, <2>5 DEF Framed
<1>15. Forward
  BY <1>3, <1>5, Ordered DEF RingInv, Forward, Side
<1> QED
  BY <1>6, <1>7, <1>8, <1>10, <1>11, <1>12, <1>13, <1>15
  DEF RingInv

(* A receiver that drops its guard, after its commit or in a panic, leaves *)
(* everything in order.                                                    *)
LEMMA LeaveRecvRing ==
  ASSUME RingInv, NEW r \in Readers, pc[r] \in {"read", "unlock"},
         NEW stage \in {"notify", "idle"}, LeaveRecv(r, stage)
  PROVE  RingInv'
<1> USE DEF LeaveRecv, GiveBack, Goto, ring, writerLocals, history
<1>1. RingTyped'
  <2>1. 0 \in Offsets
    BY DEF Offsets
  <2>2. lock' \in [Side -> Procs \cup {Free}]
    BY DEF RingInv, RingTyped, QueueTypeOK
  <2> QED
    BY <2>1, <2>2 DEF RingInv, RingTyped, QueueTypeOK, AllStages, Procs
<1>2. LocksHeld'
  <2>1. lock'["Left"] = Free /\ lock'["Right"] = lock["Right"]
        /\ lock["Left"] = r
    BY DEF RingInv, RingTyped, QueueTypeOK, LocksHeld, Side
  <2>2. pc'[r] = stage /\ \A q \in Procs \ {r} : pc'[q] = pc[q]
    BY DEF RingInv, RingTyped, Procs
  <2> QED
    BY <2>1, <2>2 DEF RingInv, LocksHeld, Procs
<1>3. BufferedInv' /\ CachesLag'
  BY DEF RingInv, RingTyped, BufferedInv, CachesLag, AfterCommit, Procs
<1>4. ReaderInv'
  BY DEF RingInv, RingTyped, QueueTypeOK, ReaderInv, Procs
<1>5. WriterInv'
  BY DEF RingInv, RingTyped, QueueTypeOK, WriterInv, BufLen, BeforeCommit,
     Outside, Procs
<1>6. Framed'
  BY FramedUnchanged DEF RingInv
<1> QED
  BY <1>1, <1>2, <1>3, <1>4, <1>5, <1>6 DEF RingInv

-----------------------------------------------------------------------------
(* A step of wait or notify by p: wherever it takes p, it stays on the     *)
(* same side of every critical section.                                    *)
WaitKeeps ==
  <<offset, cached, lock, ring, writerLocals, readerLocals, history>>

LEMMA WaitingRing ==
  ASSUME NoOverflow, RingInv, NEW p \in Procs, NEW stage \in AllStages,
         UNCHANGED WaitKeeps, Goto(p, stage), waiters' \in [Side -> Nat],
         seen' \in {seen, [seen EXCEPT ![p] = 0]},
         p \in Writers =>
           \/ pc[p] \in WaitStages /\ stage \in WaitStages \cup {"write"}
           \/ /\ pc[p] \in NotifyStages
              /\ stage \in NotifyStages \cup {"unlock"},
         p \in Readers =>
           /\ pc[p] \in WaitStages \cup NotifyStages
           /\ stage \in WaitStages \cup NotifyStages \cup {"idle", "dead"}
  PROVE  RingInv'
<1> USE DEF WaitKeeps, ring, writerLocals, readerLocals, history, Goto
<1>1. /\ pc' \in [Procs -> AllStages]
      /\ seen' \in [Procs -> Offsets]
  <2>1. 0 \in Offsets
    BY DEF Offsets
  <2>2. pc \in [Procs -> AllStages] /\ seen \in [Procs -> Offsets]
    BY DEF RingInv, RingTyped, QueueTypeOK
  <2>3. pc' \in [Procs -> AllStages]
    BY <2>2
  <2>4. seen' \in [Procs -> Offsets]
    BY <2>1, <2>2
  <2> QED
    BY <2>3, <2>4
<1>2. RingTyped'
  BY <1>1 DEF RingInv, RingTyped, QueueTypeOK
<1>3. pc'[p] = stage /\ \A q \in Procs \ {p} : pc'[q] = pc[q]
  BY DEF RingInv, RingTyped
<1>4. p \in Writers =>
        \/ /\ pc[p] \in BeforeCommit \ {"copy", "fix", "lockLeft"}
           /\ stage \in BeforeCommit \ {"copy", "fix", "lockLeft"}
        \/ pc[p] \in AfterCommit /\ stage \in AfterCommit
  BY DEF BeforeCommit, AfterCommit
<1>5. p \in Readers =>
        /\ pc[p] \notin {"load", "read", "unlock"}
        /\ stage \notin {"load", "read", "unlock"}
  OBVIOUS
<1>6. LocksHeld'
  BY <1>3, <1>4, <1>5
  DEF RingInv, LocksHeld, Procs, Outside, BeforeCommit, AfterCommit
<1>7. WriterInv'
  BY <1>3, <1>4 DEF RingInv, WriterInv, BufLen, Procs, Outside, BeforeCommit,
     AfterCommit, RingTyped, QueueTypeOK
<1>8. BufferedInv'
  BY <1>3, <1>4 DEF RingInv, BufferedInv, Procs, BeforeCommit, AfterCommit
<1>9. ReaderInv'
  BY <1>3, <1>5 DEF RingInv, ReaderInv, Procs
<1>10. CachesLag'
  BY DEF RingInv, CachesLag
<1>11. Framed'
  BY FramedUnchanged DEF RingInv
<1> QED
  BY <1>2, <1>6, <1>7, <1>8, <1>9, <1>10, <1>11 DEF RingInv

(* The system call at the end of a sender's notify drains its store buffer. *)
LEMMA NotifyDrainsRing ==
  ASSUME NoOverflow, RingInv, NEW w \in Writers, pc[w] \in NotifyStages,
         Drain(w), Goto(w, "unlock"),
         UNCHANGED <<cached, waiters, lock, mem, seen, writerLocals,
                     readerLocals, history>>
  PROVE  RingInv'
<1> USE DEF Goto, writerLocals, readerLocals, history
<1>1. /\ pc[w] \in AfterCommit /\ pc[w] \notin Outside
      /\ "unlock" \in AfterCommit /\ pc \in [Procs -> AllStages]
  BY DEF AfterCommit, Outside, RingInv, RingTyped
<1>2. pc'[w] = "unlock" /\ \A q \in Procs \ {w} : pc'[q] = pc[q]
  BY <1>1 DEF Procs
<1>3. RingTyped'
  BY <1>1, DrainLemma DEF RingInv, RingTyped, QueueTypeOK, AllStages
<1>4. LocksHeld'
  BY <1>1, <1>2 DEF RingInv, LocksHeld, Procs, Outside, BeforeCommit,
     AfterCommit
<1>5. CachesLag' /\ BufferedInv' /\ ReaderInv'
  <2>1. \A r \in Readers : pc'[r] = "read" => pc[r] = "read"
    BY <1>2 DEF Procs
  <2> QED
    BY <1>1, <2>1, DrainKeeps
<1>6. WriterInv'
  <2>1. \A v \in Writers \ {w} : pc'[v] \in Outside
    BY <1>1, <1>2, OthersOutside DEF RingInv, Procs
  <2>2. offset'["Left"] = offset["Left"]
    BY <1>1, DrainLemma
  <2> QED
    BY <1>1, <1>2, <2>1, <2>2 DEF RingInv, WriterInv, BeforeCommit
<1>7. Framed'
  BY <1>1, DrainLemma
<1> QED
  BY <1>3, <1>4, <1>5, <1>6, <1>7 DEF RingInv

LEMMA StutterRing ==
  ASSUME RingInv, UNCHANGED queueVars
  PROVE  RingInv'
<1> USE DEF queueVars, header, ring, writerLocals, readerLocals, history
<1>1. RingTyped' /\ LocksHeld' /\ BufferedInv' /\ ReaderInv' /\ CachesLag'
  BY DEF RingInv, RingTyped, QueueTypeOK, LocksHeld, BufferedInv, ReaderInv,
     CachesLag
<1>2. WriterInv'
  BY DEF RingInv, WriterInv, BufLen
<1>3. Framed'
  BY FramedUnchanged DEF RingInv
<1> QED
  BY <1>1, <1>2, <1>3 DEF RingInv

-----------------------------------------------------------------------------
(* What every control can rely on.                                         *)

(* send and recv keep the invariant of the ring.                           *)
LEMMA QueueRing ==
  ASSUME NoOverflow, RingInv, QueueNext
  PROVE  RingInv'
<1>1. ASSUME NEW w \in Writers, SendLock(w) \/ WriterStep(w)
      PROVE  RingInv'
  <2>1. CASE SendUnlock(w)
    BY <2>1, LeaveSendRing DEF SendUnlock, Outside
  <2> QED
    BY <1>1, <2>1, SendLockRing, WriteLoadRing, WriteCopyRing, LockLeftRing,
       FixOffsetsRing, SendCommitRing, SendAbortRing, FlushRing
    DEF WriterStep
<1>2. ASSUME NEW r \in Readers, ReaderStep(r) \/ RecvPanic(r)
      PROVE  RingInv'
  <2>1. CASE RecvUnlock(r) \/ RecvPanic(r)
    BY <2>1, LeaveRecvRing DEF RecvUnlock, RecvPanic
  <2> QED
    BY <1>2, <2>1, RecvLockRing, RecvTakeRing, RecvEmptyRing, RecvCommitRing
    DEF ReaderStep
<1> QED
  BY <1>1, <1>2, NewRing DEF QueueNext

(* A step that drains moves no offset back.                                *)
LEMMA DrainForward ==
  ASSUME NoOverflow, RingInv, NEW w \in Writers, pc[w] \notin Outside,
         Drain(w), UNCHANGED mem
  PROVE  Forward
BY DrainLemma, Ordered DEF RingInv, Forward, Side

LEMMA StillForward ==
  ASSUME RingInv, UNCHANGED offset
  PROVE  Forward
BY Ordered DEF RingInv, Forward, Side

(* send and recv move the offsets forward, or both back in a wrap.         *)
LEMMA QueueOffsets ==
  ASSUME NoOverflow, RingInv, QueueNext
  PROVE  Forward \/ Wrap
<1>1. ASSUME NEW p \in Procs, New(p)
      PROVE  Forward
  BY <1>1, StillForward DEF New
<1>2. ASSUME NEW w \in Writers, SendLock(w) \/ WriterStep(w)
      PROVE  Forward \/ Wrap
  <2>1. CASE SendLock(w) \/ WriteLoad(w) \/ WriteCopy(w) \/ LockLeft(w)
             \/ SendAbort(w)
    BY <2>1, StillForward
    DEF SendLock, WriteLoad, WriteCopy, LockLeft, SendAbort, header
  <2>2. CASE Flush(w) \/ SendUnlock(w)
    <3>1. pc[w] \notin Outside /\ Drain(w) /\ UNCHANGED mem
      BY <2>2 DEF Flush, SendUnlock, LeaveSend, AfterCommit, RingInv,
         BufferedInv, Outside
    <3> QED
      BY <3>1, DrainForward
  <2> QED
    BY <1>2, <2>1, <2>2, SendCommitRing, FixOffsetsRing DEF WriterStep
<1>3. ASSUME NEW r \in Readers, ReaderStep(r) \/ RecvPanic(r)
      PROVE  Forward
  BY <1>3, StillForward, RecvCommitRing
  DEF ReaderStep, RecvLock, RecvTake, RecvEmpty, RecvUnlock, RecvPanic,
      LeaveRecv
<1> QED
  BY <1>1, <1>2, <1>3 DEF QueueNext

(* No step of send or recv counts a waiter, starts or ends a wait or a     *)
(* notify, except that some stop at "wait" and at "notify".                *)
Elsewhere == WaitStages \cup NotifyStages \cup {"dead"}

LEMMA QueueStages ==
  ASSUME pc \in [Procs -> AllStages], QueueNext
  PROVE  /\ UNCHANGED waiters
         /\ \A p \in Procs :
              \/ pc'[p] = pc[p]
              \/ pc[p] \notin Elsewhere /\ pc'[p] \in Stages
         /\ pc' \in [Procs -> AllStages]
<1> USE DEF Goto, Stages, AllStages, Procs, header, Elsewhere
<1>1. ASSUME NEW p \in Procs, NEW to \in Stages, Goto(p, to),
             pc[p] \notin Elsewhere
      PROVE  /\ \A q \in Procs :
                  \/ pc'[q] = pc[q]
                  \/ pc[q] \notin Elsewhere /\ pc'[q] \in Stages
             /\ pc' \in [Procs -> AllStages]
  BY <1>1
<1>2. ASSUME NEW p \in Procs, New(p)
      PROVE  UNCHANGED waiters /\ Goto(p, "idle") /\ pc[p] = "new"
  BY <1>2 DEF New
<1>3. ASSUME NEW w \in Writers, SendLock(w) \/ WriterStep(w)
      PROVE  /\ UNCHANGED waiters
             /\ \/ UNCHANGED pc
                \/ /\ \E to \in Stages : Goto(w, to)
                   /\ pc[w] \notin Elsewhere
  BY <1>3 DEF WriterStep, SendLock, WriteLoad, WriteCopy, LockLeft,
     FixOffsets, SendCommit, SendAbort, Flush, SendUnlock, LeaveSend
<1>4. ASSUME NEW r \in Readers, ReaderStep(r) \/ RecvPanic(r)
      PROVE  /\ UNCHANGED waiters
             /\ \E to \in Stages : Goto(r, to)
             /\ pc[r] \notin Elsewhere
  BY <1>4 DEF ReaderStep, RecvLock, RecvTake, RecvEmpty, RecvCommit,
     RecvUnlock, RecvPanic, LoadRight, LeaveRecv
<1>5. CASE UNCHANGED pc /\ UNCHANGED waiters
  BY <1>5
<1> QED
  BY <1>1, <1>2, <1>3, <1>4, <1>5 DEF QueueNext

-----------------------------------------------------------------------------
(* What the invariant says of a state.                                     *)

\* The MemeWriter of a writer that has panicked is gone.
DeadAtRest ==
  \A w \in Writers : pc[w] = "dead" =>
    right_offset[w] = 0 /\ total_written[w] = 0

(* "We keep offsets in-bounds" (src/src/lib.rs), for every queue size,     *)
(* number of threads and message length: no message is read or written     *)
(* beyond the double mapping, and nothing unread is ever overtaken.        *)
LEMMA OffsetsInBoundsHere ==
  ASSUME NoOverflow, RingInv, DeadAtRest
  PROVE  OffsetsInBounds
<1>1. /\ offset["Left"] <= offset["Right"]
      /\ offset["Right"] <= RightEnd
      /\ RightEnd <= offset["Left"] + QueueSize
      /\ RightEnd <= 2 * QueueSize
      /\ offset["Left"] \in Nat
  BY Ordered DEF RingInv
<1>2. ASSUME NEW w \in Writers, pc[w] \notin {"new", "idle"}
      PROVE  /\ right_offset[w] + total_written[w]
                  <= offset["Left"] + QueueSize
             /\ right_offset[w] + total_written[w] <= 2 * QueueSize
  BY <1>1, <1>2 DEF RingInv, WriterInv, DeadAtRest, Outside
<1> QED
  BY <1>1, <1>2 DEF OffsetsInBounds

(* Two addresses less than one ring apart have different cells.            *)
LEMMA CellsDiffer ==
  ASSUME NEW a \in Nat, NEW b \in Nat,
         a < b, b < a + QueueSize, b < 2 * QueueSize
  PROVE  Cell(a) # Cell(b)
BY DEF Cell

(* "We currently own all the space after the right pointer"                *)
(* (src/src/lib.rs): a writer never touches an unread message.             *)
LEMMA WriterOwnsSpaceHere ==
  ASSUME NoOverflow, RingInv
  PROVE  WriterOwnsSpace
<1>1. ASSUME NEW w \in Writers, pc[w] \in {"write", "copy"},
             NEW pos \in Nat, NEW n \in Int, offset["Right"] <= pos,
             pos + n <= offset["Left"] + QueueSize, pos + n <= 2 * QueueSize
      PROVE  Span(pos, n)
             \cap Span(offset["Left"], RightEnd - offset["Left"]) = {}
  <2>1. RightEnd = offset["Right"]
    BY <1>1, BeforeTheCommit DEF BeforeCommit
  <2>2. offset["Left"] \in Nat /\ offset["Right"] \in Nat
    BY <1>1, Ordered DEF RingInv
  <2>3. ASSUME NEW j \in 0 .. RightEnd - offset["Left"] - 1,
               NEW k \in 0 .. n - 1
        PROVE  Cell(offset["Left"] + j) # Cell(pos + k)
    <3>1. /\ offset["Left"] + j \in Nat /\ pos + k \in Nat
          /\ offset["Left"] + j < pos + k
          /\ pos + k < offset["Left"] + j + QueueSize
          /\ pos + k < 2 * QueueSize
      BY <1>1, <2>1, <2>2
    <3> QED
      BY <3>1, CellsDiffer
  <2> QED
    BY <2>3 DEF Span
<1>2. ASSUME NEW w \in Writers, pc[w] = "copy"
      PROVE  Span(WritePos(w), CopyLen(w))
             \cap Span(offset["Left"], RightEnd - offset["Left"]) = {}
  <2>1. /\ WritePos(w) = right_offset[w] + total_written[w]
        /\ WritePos(w) \in Nat
    BY <1>2, WritePosition DEF Outside
  <2>6. /\ right_offset[w] \in Nat /\ total_written[w] \in Nat
        /\ body[w] \in Nat /\ seen[w] \in Nat /\ offset["Left"] \in Nat
    BY <1>2 DEF RingInv, RingTyped, QueueTypeOK, Offsets, Procs, Side
  <2>2. /\ seen[w] <= offset["Left"] /\ BufLen(w) > 0
        /\ SpaceLeft(seen[w], WritePos(w)) > 0
    BY <1>2, <2>1 DEF RingInv, WriterInv, Outside
  <2>3. BufLen(w) \in Int
    BY <2>6 DEF BufLen
  <2>4. /\ CopyLen(w) \in Int
        /\ WritePos(w) + CopyLen(w) <= offset["Left"] + QueueSize
        /\ WritePos(w) + CopyLen(w) <= 2 * QueueSize
    BY <2>1, <2>2, <2>3, <2>6 DEF CopyLen, Least, SpaceLeft, WriteEnd
  <2>5. offset["Right"] <= WritePos(w)
    BY <1>2, <2>1, <2>6, BeforeTheCommit DEF BeforeCommit
  <2> QED
    BY <1>1, <1>2, <2>1, <2>4, <2>5
<1>3. ASSUME NEW w \in Writers, pc[w] = "write", CallbackOk(w)
      PROVE  Span(right_offset[w], WordSize)
             \cap Span(offset["Left"], RightEnd - offset["Left"]) = {}
  <2>1. right_offset[w] \in Nat /\ total_written[w] \in Nat /\ body[w] \in Nat
    BY <1>3 DEF RingInv, RingTyped, QueueTypeOK, Offsets
  <2>2. WordSize <= total_written[w]
    BY <1>3, <2>1 DEF CallbackOk, BufLen
  <2>3. /\ right_offset[w] + total_written[w] <= offset["Left"] + QueueSize
        /\ right_offset[w] + total_written[w] <= 2 * QueueSize
    BY <1>3 DEF RingInv, WriterInv, Outside
  <2>4. right_offset[w] = offset["Right"]
    BY <1>3, BeforeTheCommit DEF BeforeCommit
  <2>5. offset["Left"] \in Nat
    BY <1>3, Ordered DEF RingInv
  <2> QED
    BY <1>1, <1>3, <2>1, <2>2, <2>3, <2>4, <2>5
<1> QED
  BY <1>2, <1>3 DEF WriterOwnsSpace

(* The slice a recv callback sees is a whole committed message, and stays  *)
(* so until the callback returns.                                          *)
LEMMA ReaderOwnsSliceHere ==
  ASSUME NoOverflow, RingInv
  PROVE  ReaderOwnsSlice
<1>1. ASSUME NEW r \in Readers, pc[r] = "read"
      PROVE  /\ left_offset[r] = offset["Left"]
             /\ left_offset[r] + WordSize + size[r] <= offset["Right"]
  <2>1. PICK F \in SUBSET (0 .. 2 * QueueSize) : Framing(F)
    BY <1>1 DEF RingInv, Framed
  <2>2. After(offset["Left"]) <= offset["Right"]
    BY <1>1, <2>1 DEF Framing, RingInv, ReaderInv
  <2> QED
    BY <1>1, <2>2 DEF RingInv, ReaderInv, After
<1> QED
  BY <1>1 DEF ReaderOwnsSlice

(* No subtraction of write or fix_offsets underflows, however stale the    *)
(* cached left offset is.                                                  *)
LEMMA NoUnderflowHere ==
  ASSUME NoOverflow, RingInv
  PROVE  NoUnderflow
<1>1. ASSUME NEW w \in Writers, pc[w] = "write", BufLen(w) > 0
      PROVE  LET hit ==
                   CacheSuffices(cached["Right"], WritePos(w), BufLen(w))
                 left == IF hit THEN cached["Right"] ELSE offset["Left"]
             IN  SpaceLeft(left, WritePos(w)) >= 0
  <2>1. /\ WritePos(w) \in 0 .. 2 * QueueSize
        /\ WritePos(w) <= offset["Left"] + QueueSize
    BY <1>1, WritePosition DEF Outside
  <2>2. /\ cached["Right"] \in Nat /\ offset["Left"] \in Nat
        /\ body[w] \in Nat /\ total_written[w] \in Nat
    BY <1>1 DEF RingInv, RingTyped, QueueTypeOK, Offsets, Side
  <2>3. BufLen(w) \in Int
    BY <2>2 DEF BufLen
  <2> QED
    BY <1>1, <2>1, <2>2, <2>3 DEF CacheSuffices, SpaceLeft, WriteEnd
<1>2. ASSUME NEW w \in Writers, pc[w] = "fix"
      PROVE  offset["Left"] >= QueueSize /\ right_offset[w] >= QueueSize
  <2>1. right_offset[w] = offset["Right"]
    BY <1>2, BeforeTheCommit DEF BeforeCommit
  <2>2. QueueSize <= offset["Left"]
    BY <1>2 DEF RingInv, WriterInv, Outside
  <2> QED
    BY <1>2, <2>1, <2>2, Ordered DEF RingInv
<1> QED
  BY <1>1, <1>2 DEF NoUnderflow

(* A step either moves both offsets forward or wraps, so if one goes back  *)
(* it is a wrap.                                                           *)
LEMMA WrapIsAtomicHere ==
  ASSUME RingInv, RingInv', Forward \/ Wrap
  PROVE  [(\E s \in Side : offset'[s] < offset[s]) =>
            /\ \A s \in Side : offset'[s] = offset[s] - QueueSize
            /\ \A r \in Readers : pc[r] \notin {"load", "read", "unlock"}
            /\ \A w \in Writers : buffered[w] = NoStore]_offset
<1>1. \A s \in Side : offset[s] \in Int /\ offset'[s] \in Int
  BY DEF RingInv, RingTyped, QueueTypeOK, Offsets
<1>2. CASE Forward
  BY <1>1, <1>2 DEF Forward
<1>3. CASE Wrap
  BY <1>3 DEF Wrap
<1> QED
  BY <1>2, <1>3

-----------------------------------------------------------------------------
(* What a receiver that waits knows of the offsets.                        *)

\* The committed messages do not fill the ring to the last unit.  If they
\* did, the right offset could come back, by a wrap, to where a receiver saw
\* it when there was no message at all.
NeverFull == offset["Right"] # offset["Left"] + QueueSize

\* r saw the left offset that is still there, but for the wraps since.
Behind(r) ==
  /\ seen[r] <= 2 * QueueSize
  /\ seen[r] \in {offset["Left"], offset["Left"] + QueueSize,
                  offset["Left"] + 2 * QueueSize}

NoBuffer == \A w \in Writers : buffered[w] = NoStore

\* The stages of recv, before wait and after it.
ReaderUp == {"new", "idle", "load", "read", "unlock", "notify"}

(* A right offset that is still the one such a receiver saw says that      *)
(* there is no message.                                                    *)
LEMMA SameMeansEmpty ==
  ASSUME RingTyped, Framed, NeverFull, NEW r \in Readers, Behind(r),
         offset["Right"] = seen[r]
  PROVE  ~(offset["Left"] < offset["Right"])
<1>1. /\ offset["Left"] \in Nat /\ offset["Right"] \in Nat
      /\ offset["Left"] <= offset["Right"]
      /\ offset["Right"] <= offset["Left"] + QueueSize
  BY Ordered
<1>2. QueueSize \in Nat \ {0}
  OBVIOUS
<1> QED
  BY <1>1, <1>2 DEF NeverFull, Behind

(* A wrap takes the left offset away from under it by one mapping.         *)
LEMMA BehindWraps ==
  ASSUME RingTyped, Framed, NEW r \in Readers, Behind(r), Wrap,
         QueueSize <= offset["Left"], seen'[r] = seen[r]
  PROVE  Behind(r)' /\ (offset'["Left"] < offset'["Right"] =>
                          offset["Left"] < offset["Right"])
<1>1. offset["Left"] \in Nat /\ offset["Right"] \in Nat
  BY Ordered
<1>2. /\ offset'["Left"] = offset["Left"] - QueueSize
      /\ offset'["Right"] = offset["Right"] - QueueSize
  BY DEF Wrap, Side
<1> QED
  BY <1>1, <1>2 DEF Behind

(* A step of send or recv leaves a receiver in recv; or has one find       *)
(* nothing, and know both offsets; or is a sender's, which wraps, or       *)
(* commits or makes a commit visible before it notifies or drops its       *)
(* guard, or leaves the offsets alone.                                     *)
LEMMA QueueMoves ==
  ASSUME NoOverflow, RingInv, QueueNext
  PROVE  \/ \E r \in Readers : pc'[r] \in ReaderUp
         \/ \E r \in Readers : /\ pc'[r] = "wait"
                               /\ seen'[r] = offset'["Left"]
                               /\ offset'["Right"] = offset'["Left"]
         \/ /\ \A r \in Readers : pc'[r] = pc[r] /\ seen'[r] = seen[r]
            /\ \/ UNCHANGED offset
               \/ /\ offset'["Left"] = offset["Left"]
                  /\ \E w \in Writers :
                       \/ pc'[w] = "notify"
                       \/ buffered[w] # NoStore /\ pc[w] \in AfterCommit
               \/ Wrap /\ QueueSize <= offset["Left"]
<1> USE DEF Goto
<1>0. /\ pc \in [Procs -> AllStages] /\ seen \in [Procs -> Offsets]
      /\ offset \in [Side -> Offsets]
      /\ buffered \in [Writers -> Offsets \cup {NoStore}]
  BY DEF RingInv, RingTyped, QueueTypeOK
<1>1. ASSUME NEW p \in Procs, New(p)
      PROVE  \/ \E r \in Readers : pc'[r] \in ReaderUp
             \/ /\ \A r \in Readers : pc'[r] = pc[r] /\ seen'[r] = seen[r]
                /\ UNCHANGED offset
  BY <1>0, <1>1 DEF New, ReaderUp, Procs
<1>2. ASSUME NEW w \in Writers, SendLock(w) \/ WriterStep(w)
      PROVE  /\ \A r \in Readers : pc'[r] = pc[r] /\ seen'[r] = seen[r]
             /\ \/ UNCHANGED offset
                \/ /\ offset'["Left"] = offset["Left"]
                   /\ \E v \in Writers :
                        \/ pc'[v] = "notify"
                        \/ buffered[v] # NoStore /\ pc[v] \in AfterCommit
                \/ Wrap /\ QueueSize <= offset["Left"]
  <2>1. \A r \in Readers : r # w /\ r \in Procs
    BY DEF Procs
  <2>2. \A r \in Readers : pc'[r] = pc[r] /\ seen'[r] = seen[r]
    BY <1>0, <1>2, <2>1
    DEF WriterStep, SendLock, WriteLoad, WriteCopy, LockLeft, FixOffsets,
        SendCommit, SendAbort, Flush, SendUnlock, LeaveSend
  <2>3. CASE SendLock(w) \/ WriteLoad(w) \/ WriteCopy(w) \/ LockLeft(w)
             \/ SendAbort(w)
    <3>1. UNCHANGED offset
      BY <2>3 DEF SendLock, WriteLoad, WriteCopy, LockLeft, SendAbort, header
    <3> QED
      BY <2>2, <3>1
  <2>4. CASE Flush(w) \/ SendUnlock(w)
    <3>1. Drain(w) /\ offset'["Left"] = offset["Left"]
      BY <1>0, <2>4 DEF Flush, SendUnlock, LeaveSend, Drain, Drained, Side
    <3>2. CASE buffered[w] = NoStore
      BY <2>2, <3>1, <3>2 DEF Drain, Drained
    <3>3. CASE buffered[w] # NoStore
      BY <2>2, <3>1, <3>3 DEF RingInv, BufferedInv
    <3> QED
      BY <3>2, <3>3
  <2>5. CASE FixOffsets(w)
    <3>1. Wrap
      BY <2>5, FixOffsetsRing
    <3>2. QueueSize <= offset["Left"]
      BY <2>5 DEF FixOffsets, RingInv, WriterInv, Outside
    <3> QED
      BY <2>2, <3>1, <3>2
  <2>6. CASE SendCommit(w)
    <3>1. pc'[w] = "notify"
      BY <1>0, <2>6 DEF SendCommit, Procs
    <3>2. offset'["Left"] = offset["Left"]
      BY <1>0, <2>6 DEF SendCommit, Side
    <3> QED
      BY <2>2, <3>1, <3>2
  <2> QED
    BY <1>2, <2>3, <2>4, <2>5, <2>6 DEF WriterStep
<1>3. ASSUME NEW r \in Readers, ReaderStep(r) \/ RecvPanic(r)
      PROVE  \/ pc'[r] \in ReaderUp
             \/ /\ pc'[r] = "wait"
                /\ seen'[r] = offset'["Left"]
                /\ offset'["Right"] = offset'["Left"]
  <2>0. r \in Procs
    BY DEF Procs
  <2>1. CASE RecvLock(r) \/ RecvTake(r) \/ RecvCommit(r) \/ RecvUnlock(r)
             \/ RecvPanic(r)
    BY <1>0, <2>0, <2>1
    DEF RecvLock, RecvTake, RecvCommit, RecvUnlock, RecvPanic, LeaveRecv,
        ReaderUp
  <2>2. CASE RecvEmpty(r)
    <3>1. /\ UNCHANGED offset /\ pc'[r] = "wait"
          /\ seen'[r] = RightSeen /\ RightSeen <= offset["Left"]
      BY <1>0, <2>0, <2>2 DEF RecvEmpty, LoadRight
    <3>2. /\ offset["Left"] \in Nat /\ offset["Right"] \in Nat
          /\ offset["Left"] <= offset["Right"]
      BY Ordered DEF RingInv
    <3>3. RightSeen = offset["Right"]
      BY <1>0, <3>1, <3>2 DEF RightSeen, RightHit, RingInv, RingTyped,
         QueueTypeOK, Side, Offsets
    <3> QED
      BY <3>1, <3>2, <3>3
  <2> QED
    BY <1>3, <2>1, <2>2 DEF ReaderStep
<1> QED
  BY <1>1, <1>2, <1>3 DEF QueueNext

(* Without a store buffer nothing is ever buffered.                        *)
LEMMA QueueBuffersNothing ==
  ASSUME StoreBuffering = FALSE, RingTyped, NoBuffer, QueueNext
  PROVE  NoBuffer'
<1>0. /\ offset \in [Side -> Offsets]
      /\ buffered \in [Writers -> Offsets \cup {NoStore}]
  BY DEF RingTyped, QueueTypeOK
<1>1. ASSUME NEW w \in Writers, Drain(w)
      PROVE  NoBuffer'
  BY <1>0, <1>1 DEF Drain, NoBuffer
<1>2. CASE UNCHANGED buffered
  BY <1>2 DEF NoBuffer
<1> QED
  BY <1>1, <1>2 DEF QueueNext, New, WriterStep, SendLock, WriteLoad,
     WriteCopy, LockLeft, FixOffsets, SendCommit, SendAbort, Flush,
     SendUnlock, LeaveSend, ReaderStep, RecvLock, RecvTake, RecvEmpty,
     RecvCommit, RecvUnlock, RecvPanic, LeaveRecv, ring
==============================================================================
