--------------------------- MODULE FifoQueueProofs ---------------------------
(***************************************************************************)
(* Proof that the ring implements the bounded channel of FifoQueue, for    *)
(* any threads, sizes and payload lengths, with and without a store        *)
(* buffer, as long as twice the queue size fits in a u32 (NoOverflow).     *)
(*                                                                         *)
(* That the offsets are those of whole messages is in MemeQueueProofs; it  *)
(* says nothing of what is in them.  Here the cells are tied to the        *)
(* history: the messages sent and not yet received lie in the ring end to  *)
(* end, each behind its size word (Laid), and what a writer has written of *)
(* the next one is in place behind them (WrittenInv).                      *)
(***************************************************************************)
EXTENDS MemeQueueProofs, SequenceTheorems

USE LayoutAssumption, ProcsAssumption, MaxSendsAssumption
USE DEF WaitStages, NotifyStages

\* Message m lies at address a.
Holds(a, m) ==
  /\ mem[Cell(a)][2] = Len(m)
  /\ \A j \in 1 .. Len(m) : mem[Cell(a + WordSize + j - 1)] = m[j]

\* at[k] is the address of the k-th message sent, for those not received,
\* and one further on the address where the next one will be.
Laid(at) ==
  /\ at[Len(received) + 1] = offset["Left"]
  /\ at[Len(sent) + 1] = RightEnd
  /\ \A k \in Len(received) + 1 .. Len(sent) :
       /\ at[k + 1] = at[k] + WordSize + Len(sent[k])
       /\ Holds(at[k], sent[k])
  /\ \A j, k \in Len(received) + 1 .. Len(sent) + 1 :
       j <= k => at[j] <= at[k]

WrittenInv ==
  \A w \in Writers : pc[w] \in BeforeCommit =>
    /\ started \in 1 .. MaxSends
    /\ \A j \in WordSize .. total_written[w] - 1 :
         mem[Cell(right_offset[w] + j)] = <<started, j - WordSize + 1>>

FifoInv ==
  /\ Len(received) <= Len(sent)
  /\ \E at \in [Nat -> Int] : Laid(at)
  /\ WrittenInv

\* The state of the channel, as Fifo in MemeQueue sees it.
Channel ==
  <<SubSeq(sent, Len(received) + 1, Len(sent)), RightEnd - offset["Left"],
    received>>

-----------------------------------------------------------------------------
(* Facts about the messages in the ring.                                   *)

LEMMA HistoryTyped ==
  ASSUME RingTyped
  PROVE  /\ Len(sent) \in Nat /\ Len(received) \in Nat
         /\ \A k \in 1 .. Len(sent) :
              sent[k] \in Seq(Units) /\ Len(sent[k]) \in Nat
<1>1. sent \in Seq(Seq(Units)) /\ received \in Seq(Seq(Units))
  BY DEF RingTyped, QueueTypeOK
<1>2. Len(sent) \in Nat /\ Len(received) \in Nat
  BY <1>1, LenProperties
<1>3. ASSUME NEW k \in 1 .. Len(sent)
      PROVE  sent[k] \in Seq(Units) /\ Len(sent[k]) \in Nat
  <2>1. sent[k] \in Seq(Units)
    BY <1>1, ElementOfSeq
  <2> QED
    BY <2>1, LenProperties
<1> QED
  BY <1>2, <1>3

(* The units of an unread message lie between the left offset and the end  *)
(* of the messages.                                                        *)
LEMMA InsideUnread ==
  ASSUME RingInv, NEW at \in [Nat -> Int], Laid(at),
         NEW k \in Len(received) + 1 .. Len(sent)
  PROVE  /\ at[k] \in offset["Left"] .. RightEnd - 1
         /\ \A j \in 1 .. Len(sent[k]) :
              at[k] + WordSize + j - 1 \in offset["Left"] .. RightEnd - 1
<1>1. /\ Len(sent) \in Nat /\ Len(received) \in Nat
      /\ Len(sent[k]) \in Nat /\ k \in Nat /\ k + 1 \in Nat
  BY HistoryTyped DEF RingInv
<1>2. at[Len(received) + 1] <= at[k] /\ at[k + 1] <= at[Len(sent) + 1]
  <2>1. \A i, j \in Len(received) + 1 .. Len(sent) + 1 :
          i <= j => at[i] <= at[j]
    BY DEF Laid
  <2>2. /\ Len(received) + 1 \in Len(received) + 1 .. Len(sent) + 1
        /\ Len(sent) + 1 \in Len(received) + 1 .. Len(sent) + 1
        /\ k \in Len(received) + 1 .. Len(sent) + 1
        /\ k + 1 \in Len(received) + 1 .. Len(sent) + 1
        /\ Len(received) + 1 <= k /\ k + 1 <= Len(sent) + 1
    BY <1>1
  <2> QED
    BY <2>1, <2>2
<1>3. /\ offset["Left"] <= at[k]
      /\ at[k] + WordSize + Len(sent[k]) <= RightEnd
  BY <1>2 DEF Laid
<1>4. at[k] \in Int /\ offset["Left"] \in Int /\ RightEnd \in Int
  BY <1>1, Ordered DEF RingInv
<1> DEFINE a == at[k]
           n == Len(sent[k])
           left == offset["Left"]
<1>5. a \in Int /\ n \in Nat /\ left \in Int /\ RightEnd \in Int
      /\ left <= a /\ a + WordSize + n <= RightEnd
  BY <1>1, <1>3, <1>4
<1> HIDE DEF a, n, left
<1>6. /\ a \in left .. RightEnd - 1
      /\ \A j \in 1 .. n : a + WordSize + j - 1 \in left .. RightEnd - 1
  BY <1>5
<1> QED
  BY <1>6 DEF a, n, left

(* A message stays where it is as long as its cells do.                    *)
LEMMA StillHeld ==
  ASSUME RingInv, NEW at \in [Nat -> Int], Laid(at),
         NEW k \in Len(received) + 1 .. Len(sent),
         \A a \in offset["Left"] .. RightEnd - 1 :
           mem'[Cell(a)] = mem[Cell(a)]
  PROVE  /\ mem'[Cell(at[k])][2] = Len(sent[k])
         /\ \A j \in 1 .. Len(sent[k]) :
              mem'[Cell(at[k] + WordSize + j - 1)] = sent[k][j]
<1>1. /\ at[k] \in offset["Left"] .. RightEnd - 1
      /\ \A j \in 1 .. Len(sent[k]) :
           at[k] + WordSize + j - 1 \in offset["Left"] .. RightEnd - 1
  BY InsideUnread
<1>2. Holds(at[k], sent[k])
  BY DEF Laid
<1> QED
  BY <1>1, <1>2 DEF Holds

(* Messages stay where they are as long as their cells and both their ends *)
(* do.                                                                     *)
LEMMA StillLaid ==
  ASSUME RingInv, FifoInv, UNCHANGED <<sent, received>>,
         offset'["Left"] = offset["Left"], RightEnd' = RightEnd,
         \A a \in offset["Left"] .. RightEnd - 1 :
           mem'[Cell(a)] = mem[Cell(a)]
  PROVE  /\ Len(received') <= Len(sent')
         /\ \E at \in [Nat -> Int] : Laid(at)'
<1>1. PICK at \in [Nat -> Int] : Laid(at)
  BY DEF FifoInv
<1>2. \A k \in Len(received) + 1 .. Len(sent) : Holds(at[k], sent[k])'
  <2> SUFFICES ASSUME NEW k \in Len(received) + 1 .. Len(sent)
               PROVE  Holds(at[k], sent[k])'
    OBVIOUS
  <2>1. /\ mem'[Cell(at[k])][2] = Len(sent[k])
        /\ \A j \in 1 .. Len(sent[k]) :
             mem'[Cell(at[k] + WordSize + j - 1)] = sent[k][j]
    BY <1>1, StillHeld
  <2> QED
    BY <2>1 DEF Holds
<1>3. Laid(at)'
  BY <1>1, <1>2 DEF Laid
<1> QED
  BY <1>1, <1>3 DEF FifoInv

(* A step that neither touches the ring nor its history is invisible.      *)
LEMMA QuietFifo ==
  ASSUME RingInv, FifoInv, UNCHANGED <<mem, sent, received, started>>,
         offset'["Left"] = offset["Left"], RightEnd' = RightEnd,
         \A w \in Writers : pc'[w] \in BeforeCommit =>
           /\ pc[w] \in BeforeCommit
           /\ right_offset'[w] = right_offset[w]
           /\ total_written'[w] = total_written[w]
  PROVE  FifoInv' /\ UNCHANGED Channel
<1>1. /\ Len(received') <= Len(sent')
      /\ \E at \in [Nat -> Int] : Laid(at)'
  BY StillLaid
<1>2. WrittenInv'
  BY DEF FifoInv, WrittenInv
<1>3. FifoInv'
  BY <1>1, <1>2 DEF FifoInv
<1>4. UNCHANGED Channel
  BY DEF Channel
<1> QED
  BY <1>3, <1>4

(* The cell k addresses further on is k cells ahead.                       *)
LEMMA AheadOf ==
  ASSUME NEW pos \in Nat, NEW k \in Nat, k < QueueSize,
         pos + k < 2 * QueueSize
  PROVE  Cell(pos + k) \in Cells /\ Ahead(pos, Cell(pos + k)) = k
BY DEF Ahead, Cell, Cells

(* What is pending after one more message was accepted.                    *)
LEMMA AppendedTail ==
  ASSUME NEW S, NEW s \in Seq(S), NEW m \in S, NEW l \in 0 .. Len(s)
  PROVE  SubSeq(Append(s, m), l + 1, Len(s) + 1)
           = Append(SubSeq(s, l + 1, Len(s)), m)
<1> DEFINE n == Len(s)
           t == Append(s, m)
           x == SubSeq(t, l + 1, n + 1)
           y == SubSeq(s, l + 1, n)
           z == Append(y, m)
<1>1. /\ n \in Nat /\ l \in Nat /\ l <= n
      /\ \A i \in 1 .. n : s[i] \in S
  BY LenProperties, ElementOfSeq
<1>2. /\ Len(t) = n + 1
      /\ \A i \in 1 .. n : t[i] = s[i]
      /\ t[n + 1] = m
  BY AppendProperties
<1> HIDE DEF n, t
<1>3. /\ x \in Seq(S)
      /\ Len(x) = n - l + 1
      /\ \A i \in 1 .. n - l + 1 : x[i] = t[l + i]
  <2> DEFINE from == l + 1
             to == n + 1
  <2>1. /\ from \in Int /\ to \in Int
        /\ \A i \in from .. to : t[i] \in S
    BY <1>1, <1>2
  <2> HIDE DEF from, to
  <2>2. /\ SubSeq(t, from, to) \in Seq(S)
        /\ Len(SubSeq(t, from, to)) = IF from <= to THEN to - from + 1 ELSE 0
        /\ \A i \in 1 .. to - from + 1 :
             SubSeq(t, from, to)[i] = t[from + i - 1]
    BY <2>1, SubSeqProperties
  <2> QED
    BY <1>1, <2>2 DEF from, to
<1>4. /\ y \in Seq(S)
      /\ Len(y) = n - l
      /\ \A i \in 1 .. n - l : y[i] = s[l + i]
  <2> DEFINE from == l + 1
  <2>1. from \in Int /\ n \in Int /\ \A i \in from .. n : s[i] \in S
    BY <1>1
  <2> HIDE DEF from
  <2>2. /\ SubSeq(s, from, n) \in Seq(S)
        /\ Len(SubSeq(s, from, n)) = IF from <= n THEN n - from + 1 ELSE 0
        /\ \A i \in 1 .. n - from + 1 :
             SubSeq(s, from, n)[i] = s[from + i - 1]
    BY <2>1, SubSeqProperties
  <2>3. y = SubSeq(s, from, n)
    BY DEF from
  <2>4. n - from + 1 = n - l /\ (from <= n \/ n - from + 1 = 0)
    BY <1>1 DEF from
  <2>5. ASSUME NEW i \in 1 .. n - l
        PROVE  from + i - 1 = l + i
    BY <1>1 DEF from
  <2> HIDE DEF y
  <2> QED
    BY <2>2, <2>3, <2>4, <2>5
<1> HIDE DEF x, y
<1>5. /\ z \in Seq(S)
      /\ Len(z) = n - l + 1
      /\ \A i \in 1 .. n - l : z[i] = y[i]
      /\ z[n - l + 1] = m
  <2>1. /\ Append(y, m) \in Seq(S)
        /\ Len(Append(y, m)) = Len(y) + 1
        /\ \A i \in 1 .. Len(y) : Append(y, m)[i] = y[i]
        /\ Append(y, m)[Len(y) + 1] = m
    BY <1>4, AppendProperties
  <2> QED
    BY <1>4, <2>1
<1> HIDE DEF z
<1>6. \A i \in 1 .. Len(x) : x[i] = z[i]
  <2> SUFFICES ASSUME NEW i \in 1 .. n - l + 1 PROVE x[i] = z[i]
    BY <1>3
  <2>1. CASE i <= n - l
    <3>1. i \in 1 .. n - l /\ l + i \in 1 .. n
      BY <1>1, <2>1
    <3> QED
      BY <1>2, <1>3, <1>4, <1>5, <3>1
  <2>2. CASE i = n - l + 1
    <3>1. l + i = n + 1
      BY <1>1, <2>2
    <3> QED
      BY <1>2, <1>3, <1>5, <2>2, <3>1
  <2> QED
    BY <1>1, <2>1, <2>2
<1>7. x = z
  BY <1>3, <1>5, <1>6, SeqEqual
<1> QED
  BY <1>7 DEF x, y, z, t, n

(* One writer at a time has a message in the making.                       *)
LEMMA OneWritten ==
  ASSUME NEW w \in Writers, \A v \in Writers \ {w} : pc'[v] \in Outside,
         started' \in 1 .. MaxSends, NEW pos, NEW n,
         right_offset'[w] = pos, total_written'[w] = n,
         \A j \in WordSize .. n - 1 :
           mem'[Cell(pos + j)] = <<started', j - WordSize + 1>>
  PROVE  WrittenInv'
<1>1. ASSUME NEW v \in Writers, pc'[v] \in BeforeCommit
      PROVE  v = w
  BY <1>1 DEF BeforeCommit, Outside
<1> QED
  BY <1>1 DEF WrittenInv

-----------------------------------------------------------------------------
(* Every action of the queue keeps the messages in place, and is one of    *)
(* the channel's or invisible.                                             *)

LEMMA SendLockFifo ==
  ASSUME NoOverflow, RingInv, FifoInv, NEW w \in Writers, SendLock(w)
  PROVE  FifoInv' /\ UNCHANGED Channel
<1> USE DEF SendLock, ring
<1>1. RightEnd' = RightEnd
  BY DEF RightEnd
<1>2. /\ Len(received') <= Len(sent')
      /\ \E at \in [Nat -> Int] : Laid(at)'
  BY <1>1, StillLaid
<1>3. WrittenInv'
  <2>1. started' \in 1 .. MaxSends
    BY DEF RingInv, RingTyped, QueueTypeOK
  <2>2. total_written'[w] = 0
    BY DEF RingInv, RingTyped, QueueTypeOK
  <2>3. \A v \in Writers \ {w} : pc'[v] \in Outside
    BY DEF RingInv, RingTyped, LocksHeld, Procs, Take, Goto
  <2> QED
    BY <2>1, <2>2, <2>3 DEF WrittenInv, BeforeCommit, Outside
<1> QED
  BY <1>1, <1>2, <1>3 DEF FifoInv, Channel

LEMMA WriteCopyFifo ==
  ASSUME NoOverflow, RingInv, FifoInv, NEW w \in Writers, WriteCopy(w)
  PROVE  FifoInv' /\ UNCHANGED Channel
<1>1. RightEnd' = RightEnd
  BY DEF WriteCopy, RightEnd, header
<1>2. UNCHANGED <<offset, sent, received, started, right_offset>>
  BY DEF WriteCopy, header, history
<1>3. /\ Len(received') <= Len(sent')
      /\ \E at \in [Nat -> Int] : Laid(at)'
  <2>1. \A a \in offset["Left"] .. RightEnd - 1 :
          mem'[Cell(a)] = mem[Cell(a)]
    BY WriteCopyEffect
  <2> QED
    BY <1>1, <1>2, <2>1, StillLaid
<1>4. WrittenInv'
  <2>1. \A v \in Writers \ {w} : pc'[v] \in Outside
    <3>1. pc[w] \notin Outside
      BY DEF WriteCopy, Outside
    <3> QED
      BY <3>1, OthersOutside
      DEF RingInv, RingTyped, Procs, Outside, WriteCopy, Goto
  <2> DEFINE pos == right_offset[w]
             old == total_written[w]
             n == CopyLen(w)
  <2>2. /\ WritePos(w) = pos + old /\ pos \in Nat /\ old \in Nat /\ n \in Nat
        /\ pos + old + n <= offset["Left"] + QueueSize
        /\ pos + old + n <= 2 * QueueSize
    BY WriteCopyEffect
  <2>3. total_written'[w] = old + n
    BY DEF WriteCopy, RingInv, RingTyped, QueueTypeOK
  <2>4. /\ started \in 1 .. MaxSends
        /\ \A j \in WordSize .. old - 1 :
             mem[Cell(pos + j)] = <<started, j - WordSize + 1>>
    BY DEF FifoInv, WrittenInv, WriteCopy, BeforeCommit
  <2>5. \A c \in Cells :
          mem'[c] = IF Ahead(pos + old, c) < n
                    THEN Unit(old + Ahead(pos + old, c)) ELSE mem[c]
    BY <2>2 DEF WriteCopy
  <2>6. pos = offset["Right"] /\ offset["Left"] <= offset["Right"]
        /\ offset["Left"] \in Int /\ offset["Right"] \in Int
    <3>1. pc[w] \in BeforeCommit
      BY DEF WriteCopy, BeforeCommit
    <3> QED
      BY <3>1, BeforeTheCommit, Ordered DEF RingInv
  <2> HIDE DEF pos, old, n
  <2>7. ASSUME NEW j \in WordSize .. old + n - 1
        PROVE  mem'[Cell(pos + j)] = <<started, j - WordSize + 1>>
    <3>1. j \in Nat /\ pos + j \in Nat /\ pos + j < 2 * QueueSize
      BY <2>2, <2>7
    <3>2. Cell(pos + j) \in Cells
      BY <3>1, CellInRing
    <3>3. CASE j < old
      <4>1. ~(Ahead(pos + old, Cell(pos + j)) < n)
        BY <2>2, <2>6, <3>1, <3>3, Apart
      <4> QED
        BY <2>2, <2>4, <2>5, <2>7, <3>1, <3>2, <3>3, <4>1
    <3>4. CASE old <= j
      <4>1. /\ j - old \in Nat /\ j - old < QueueSize /\ j - old < n
            /\ pos + old \in Nat
            /\ (pos + old) + (j - old) = pos + j
        BY <2>2, <2>6, <2>7, <3>1, <3>4
      <4>2. Ahead(pos + old, Cell((pos + old) + (j - old))) = j - old
        BY <4>1, <3>1, AheadOf
      <4>3. Ahead(pos + old, Cell(pos + j)) = j - old
        BY <4>1, <4>2
      <4>4. mem'[Cell(pos + j)] = Unit(old + (j - old))
        BY <2>5, <3>2, <4>1, <4>3
      <4> QED
        BY <2>2, <2>7, <4>4 DEF Unit
    <3> QED
      BY <2>2, <3>1, <3>3, <3>4
  <2>8. right_offset'[w] = pos /\ started' = started
    BY <1>2 DEF pos
  <2> DEFINE new == old + n
  <2>9. \A j \in WordSize .. new - 1 :
          mem'[Cell(pos + j)] = <<started', j - WordSize + 1>>
    <3>1. WordSize .. new - 1 = WordSize .. old + n - 1
      BY <2>2
    <3>2. \A j \in WordSize .. old + n - 1 :
            mem'[Cell(pos + j)] = <<started, j - WordSize + 1>>
      BY <2>7
    <3> QED
      BY <2>8, <3>1, <3>2, Zenon
  <2>10. total_written'[w] = new /\ started' \in 1 .. MaxSends
    BY <2>3, <2>4, <2>8
  <2> HIDE DEF new
  <2> QED
    BY <2>1, <2>8, <2>9, <2>10, OneWritten
<1> QED
  BY <1>1, <1>2, <1>3, <1>4 DEF FifoInv, Channel

(* A wrap moves every address back by one mapping; the cells are the same. *)
LEMMA FixOffsetsFifo ==
  ASSUME NoOverflow, RingInv, FifoInv, NEW w \in Writers, FixOffsets(w)
  PROVE  FifoInv' /\ UNCHANGED Channel
<1>0. pc[w] \in BeforeCommit /\ pc[w] \notin Outside /\ pc[w] = "fix"
  BY DEF FixOffsets, BeforeCommit, Outside
<1>1. /\ RightEnd = offset["Right"]
      /\ right_offset[w] = offset["Right"]
      /\ \A v \in Writers : buffered[v] = NoStore
  BY <1>0, BeforeTheCommit
<1>2. UNCHANGED <<mem, buffered, sent, received, started, total_written>>
  BY DEF FixOffsets, FixBoth, ring, history
<1>3. /\ offset'["Left"] = offset["Left"] - QueueSize
      /\ offset'["Right"] = offset["Right"] - QueueSize
  BY FixOffsetsRing DEF Wrap, Side
<1>4. RightEnd' = RightEnd - QueueSize
  <2>1. RightEnd' = offset'["Right"]
    BY <1>1, <1>2 DEF RightEnd
  <2> QED
    BY <1>1, <1>3, <2>1
<1>5. /\ QueueSize <= offset["Left"] /\ offset["Left"] \in Int
      /\ RightEnd \in Int /\ RightEnd <= 2 * QueueSize
  BY <1>0, Ordered DEF RingInv, WriterInv
<1>6. \A a \in QueueSize .. 2 * QueueSize - 1 : Cell(a - QueueSize) = Cell(a)
  BY DEF Cell
<1>7. PICK at \in [Nat -> Int] : Laid(at)
  BY DEF FifoInv
<1> DEFINE back == [k \in Nat |-> at[k] - QueueSize]
<1>8. Laid(back)'
  <2>1. /\ Len(sent) \in Nat /\ Len(received) \in Nat
        /\ \A k \in 1 .. Len(sent) : Len(sent[k]) \in Nat
    BY HistoryTyped DEF RingInv
  <2>2. /\ back[Len(received) + 1] = offset'["Left"]
        /\ back[Len(sent) + 1] = RightEnd'
    <3>1. Len(received) + 1 \in Nat /\ Len(sent) + 1 \in Nat
      BY <2>1
    <3>2. /\ at[Len(received) + 1] = offset["Left"]
          /\ at[Len(sent) + 1] = RightEnd
      BY <1>7 DEF Laid
    <3> QED
      BY <1>3, <1>4, <3>1, <3>2
  <2>3. \A j, k \in Len(received) + 1 .. Len(sent) + 1 :
          j <= k => back[j] <= back[k]
    <3> SUFFICES ASSUME NEW j \in Len(received) + 1 .. Len(sent) + 1,
                        NEW k \in Len(received) + 1 .. Len(sent) + 1,
                        j <= k
                 PROVE  back[j] <= back[k]
      OBVIOUS
    <3>1. j \in Nat /\ k \in Nat
      BY <2>1
    <3>2. at[j] \in Int /\ at[k] \in Int /\ at[j] <= at[k]
      BY <1>7, <3>1 DEF Laid
    <3> QED
      BY <3>1, <3>2
  <2>4. ASSUME NEW k \in Len(received) + 1 .. Len(sent)
        PROVE  /\ back[k + 1] = back[k] + WordSize + Len(sent[k])
               /\ Holds(back[k], sent[k])'
    <3>1. /\ at[k] \in offset["Left"] .. RightEnd - 1
          /\ \A j \in 1 .. Len(sent[k]) :
               at[k] + WordSize + j - 1 \in offset["Left"] .. RightEnd - 1
      BY <1>7, InsideUnread
    <3>2. /\ at[k + 1] = at[k] + WordSize + Len(sent[k])
          /\ Holds(at[k], sent[k])
      BY <1>7 DEF Laid
    <3>3. /\ k \in Nat /\ k + 1 \in Nat
          /\ back[k] = at[k] - QueueSize
          /\ back[k + 1] = at[k + 1] - QueueSize
          /\ at[k] \in Int
      BY <2>1
    <3>4. Len(sent[k]) \in Nat
      BY <2>1
    <3> HIDE DEF back
    <3>5. Cell(back[k]) = Cell(at[k])
      <4>1. at[k] \in QueueSize .. 2 * QueueSize - 1
        <5> DEFINE a == at[k]
        <5>1. a \in offset["Left"] .. RightEnd - 1
          BY <3>1
        <5> HIDE DEF a
        <5>2. a \in QueueSize .. 2 * QueueSize - 1
          BY <1>5, <5>1
        <5> QED
          BY <5>2 DEF a
      <4>2. Cell(at[k] - QueueSize) = Cell(at[k])
        BY <1>6, <4>1
      <4> QED
        BY <3>3, <4>2
    <3>6. \A j \in 1 .. Len(sent[k]) :
            Cell(back[k] + WordSize + j - 1) = Cell(at[k] + WordSize + j - 1)
      <4> SUFFICES ASSUME NEW j \in 1 .. Len(sent[k])
                   PROVE  Cell(back[k] + WordSize + j - 1)
                            = Cell(at[k] + WordSize + j - 1)
        OBVIOUS
      <4> DEFINE x == at[k] + WordSize + j - 1
      <4>1. x \in offset["Left"] .. RightEnd - 1
        BY <3>1
      <4>2. back[k] + WordSize + j - 1 = x - QueueSize
        BY <3>3, <3>4
      <4> HIDE DEF x
      <4>3. Cell(x - QueueSize) = Cell(x)
        BY <1>5, <1>6, <4>1
      <4> QED
        BY <4>2, <4>3 DEF x
    <3>7. Holds(back[k], sent[k])'
      BY <1>2, <3>2, <3>5, <3>6 DEF Holds
    <3>8. at[k + 1] \in Int
      BY <3>3
    <3>9. back[k + 1] = back[k] + WordSize + Len(sent[k])
      <4> DEFINE a == at[k]
                 b == at[k + 1]
                 n == Len(sent[k])
      <4>1. a \in Int /\ b \in Int /\ n \in Nat /\ b = a + WordSize + n
        BY <3>2, <3>3, <3>4, <3>8
      <4>2. back[k] = a - QueueSize /\ back[k + 1] = b - QueueSize
        BY <3>3
      <4> HIDE DEF a, b, n
      <4>3. back[k + 1] = back[k] + WordSize + n
        BY <4>1, <4>2
      <4> QED
        BY <4>3 DEF n
    <3> QED
      BY <3>7, <3>9
  <2> HIDE DEF back
  <2> QED
    BY <1>2, <2>2, <2>3, <2>4 DEF Laid
<1>9. WrittenInv'
  <2>1. \A v \in Writers \ {w} : pc'[v] \in Outside
    BY <1>0, OthersOutside
    DEF RingInv, RingTyped, Procs, Outside, FixOffsets, Goto
  <2>2. /\ right_offset'[w] = right_offset[w] - QueueSize
        /\ right_offset[w] \in Nat /\ total_written[w] \in Nat
    <3>1. right_offset'[w] = SubU32(right_offset[w], QueueSize)
      BY DEF FixOffsets, RingInv, RingTyped, QueueTypeOK
    <3>2. right_offset[w] \in Nat /\ total_written[w] \in Nat
      BY DEF RingInv, RingTyped, QueueTypeOK, Offsets
    <3> QED
      BY <1>1, <1>5, <3>1, <3>2, Ordered DEF SubU32, RingInv
  <2>3. right_offset[w] + total_written[w] <= 2 * QueueSize
        /\ QueueSize <= right_offset[w]
    BY <1>0, <1>1, <1>5, Ordered DEF RingInv, WriterInv
  <2>4. /\ started \in 1 .. MaxSends
        /\ \A j \in WordSize .. total_written[w] - 1 :
             mem[Cell(right_offset[w] + j)] = <<started, j - WordSize + 1>>
    BY <1>0 DEF FifoInv, WrittenInv
  <2>5. ASSUME NEW j \in WordSize .. total_written[w] - 1
        PROVE  Cell(right_offset'[w] + j) = Cell(right_offset[w] + j)
    <3> DEFINE x == right_offset[w] + j
    <3>1. x \in QueueSize .. 2 * QueueSize - 1
      BY <2>2, <2>3
    <3>2. right_offset'[w] + j = x - QueueSize
      BY <2>2
    <3> HIDE DEF x
    <3>3. Cell(x - QueueSize) = Cell(x)
      BY <1>6, <3>1
    <3> QED
      BY <3>2, <3>3 DEF x
  <2>6. /\ started' \in 1 .. MaxSends
        /\ total_written'[w] = total_written[w]
        /\ \A j \in WordSize .. total_written[w] - 1 :
             mem'[Cell(right_offset'[w] + j)] = <<started', j - WordSize + 1>>
    BY <1>2, <2>4, <2>5
  <2> QED
    BY <2>1, <2>6, OneWritten
<1>10. back \in [Nat -> Int]
  BY DEF back
<1>11. UNCHANGED Channel
  <2>1. RightEnd' - offset'["Left"] = RightEnd - offset["Left"]
    BY <1>3, <1>4, <1>5
  <2> QED
    BY <1>2, <2>1 DEF Channel
<1> HIDE DEF back
<1> QED
  BY <1>2, <1>8, <1>9, <1>10, <1>11 DEF FifoInv

(* What the i-th callback may have written.                                *)
LEMMA InMessages ==
  ASSUME NEW i \in 1 .. MaxSends, NEW n \in 0 .. QueueSize
  PROVE  [k \in 1 .. n |-> <<i, k>>] \in Messages
<1> DEFINE message(x, y) == [k \in 1 .. y |-> <<x, k>>]
<1>1. Messages = {message(x, y) : x \in 1 .. MaxSends, y \in 0 .. QueueSize}
  BY DEF Messages
<1>2. message(i, n) = [k \in 1 .. n |-> <<i, k>>]
  OBVIOUS
<1> HIDE DEF message
<1>3. message(i, n) \in Messages
  BY <1>1
<1> QED
  BY <1>2, <1>3

(* The commit puts one whole message behind the others and accepts it.     *)
LEMMA SendCommitFifo ==
  ASSUME NoOverflow, RingInv, FifoInv, NEW w \in Writers, SendCommit(w)
  PROVE  FifoInv' /\ Fifo!Next
<1> DEFINE start == right_offset[w]
           top == right_offset[w] + total_written[w]
           m == Payload(w)
           n == total_written[w] - WordSize
           N == Len(sent)
           L == Len(received)
<1>1. /\ top \in 0 .. 2 * QueueSize
      /\ top <= offset["Left"] + QueueSize
      /\ RightEnd = start
      /\ start = offset["Right"]
      /\ start \in Nat /\ n \in Nat
      /\ MessageSize(w) = n
      /\ top = start + WordSize + n
      /\ total_written[w] = WordSize + n
      /\ \A a \in offset["Left"] .. RightEnd - 1 :
           mem'[Cell(a)] = mem[Cell(a)]
      /\ mem'[Cell(start)][2] = n
      /\ offset'["Left"] = offset["Left"]
      /\ RightEnd' = top
  <2>1. /\ top \in 0 .. 2 * QueueSize
        /\ top <= offset["Left"] + QueueSize
        /\ RightEnd = offset["Right"]
        /\ start = offset["Right"]
        /\ start \in Nat /\ total_written[w] \in Nat
        /\ WordSize <= total_written[w]
        /\ MessageSize(w) \in Nat
        /\ MessageSize(w) = n
        /\ \A a \in offset["Left"] .. RightEnd - 1 :
             mem'[Cell(a)] = mem[Cell(a)]
        /\ mem'[Cell(start)][2] = MessageSize(w)
        /\ offset'["Left"] = offset["Left"]
        /\ RightEnd' = top
    BY SendCommitEffect
  <2> QED
    BY <2>1
<1>2. /\ started \in 1 .. MaxSends
      /\ \A j \in WordSize .. total_written[w] - 1 :
           mem[Cell(start + j)] = <<started, j - WordSize + 1>>
  BY DEF FifoInv, WrittenInv, SendCommit, BeforeCommit
<1>3. m = [k \in 1 .. n |-> <<started, k>>]
  BY DEF Payload
<1>4. n <= QueueSize /\ offset["Left"] \in Nat /\ offset["Left"] <= start
  BY <1>1, Ordered DEF RingInv
<1>5. m \in Messages
  <2> HIDE DEF m, n
  <2>1. n \in 0 .. QueueSize
    BY <1>1, <1>4
  <2> QED
    BY <1>2, <1>3, <2>1, InMessages, Zenon
<1>6. /\ m \in Seq(Units) /\ Len(m) = n
      /\ \A k \in 1 .. n : m[k] = <<started, k>>
  <2>1. \A k \in 1 .. n : <<started, k>> \in Units
    BY <1>2 DEF Units
  <2> HIDE DEF m, n
  <2>2. n \in Nat
    BY <1>1
  <2>3. m \in Seq(Units)
    BY <1>3, <2>1, <2>2
  <2>4. DOMAIN m = 1 .. n /\ \A k \in 1 .. n : m[k] = <<started, k>>
    BY <1>3
  <2>5. Len(m) = n
    BY <2>2, <2>3, <2>4, LenProperties
  <2> QED
    BY <2>3, <2>4, <2>5
<1>7. \A c \in Cells : Ahead(start, c) < WordSize \/ mem'[c] = mem[c]
  BY DEF SendCommit
<1>8. /\ sent' = Append(sent, m) /\ received' = received
      /\ sent \in Seq(Seq(Units))
      /\ N \in Nat /\ L \in Nat /\ L <= N
      /\ \A k \in 1 .. N : Len(sent[k]) \in Nat
  BY HistoryTyped DEF RingInv, RingTyped, QueueTypeOK, FifoInv, SendCommit
<1>9. /\ Len(sent') = N + 1
      /\ \A k \in 1 .. N : sent'[k] = sent[k]
      /\ sent'[N + 1] = m
  <2> HIDE DEF m
  <2>1. m \in Seq(Units)
    BY <1>6
  <2> QED
    BY <1>8, <2>1, AppendProperties
<1>10. \A v \in Writers : pc'[v] \notin BeforeCommit
  <2>1. pc[w] \notin Outside /\ pc[w] = "write"
    BY DEF SendCommit, Outside
  <2>2. pc' = [pc EXCEPT ![w] = "notify"] /\ pc \in [Procs -> AllStages]
    BY DEF SendCommit, Goto, RingInv, RingTyped
  <2> QED
    BY <2>1, <2>2, OthersOutside DEF RingInv, Procs, Outside, BeforeCommit
<1> HIDE DEF m, n, N, L, start, top
<1>11. /\ mem'[Cell(start)][2] = Len(m)
       /\ \A j \in 1 .. n : mem'[Cell(start + WordSize + j - 1)] = m[j]
  <2> SUFFICES ASSUME NEW j \in 1 .. n
               PROVE  mem'[Cell(start + WordSize + j - 1)] = m[j]
    BY <1>1, <1>6
  <2> DEFINE k == WordSize + j - 1
  <2>1. /\ k \in Nat /\ start + k < 2 * QueueSize /\ k < QueueSize
        /\ WordSize <= k /\ k <= total_written[w] - 1
        /\ k - WordSize + 1 = j
        /\ start + WordSize + j - 1 = start + k
    BY <1>1, <1>4
  <2> HIDE DEF k
  <2>2. Cell(start + k) \in Cells /\ Ahead(start, Cell(start + k)) = k
    BY <1>1, <2>1, AheadOf
  <2>3. mem'[Cell(start + k)] = mem[Cell(start + k)]
    BY <1>7, <2>1, <2>2
  <2>4. k \in WordSize .. total_written[w] - 1
    BY <1>1, <2>1 DEF n
  <2>5. mem[Cell(start + k)] = <<started, k - WordSize + 1>>
    BY <1>2, <2>4
  <2>6. mem'[Cell(start + k)] = m[j]
    BY <1>6, <2>1, <2>3, <2>5
  <2> QED
    BY <2>1, <2>6
<1>12. PICK at \in [Nat -> Int] : Laid(at)
  BY DEF FifoInv
<1>13. PICK next \in [Nat -> Int] :
         /\ next[N + 2] = top
         /\ \A k \in 1 .. N + 1 : next[k] = at[k] /\ at[k] \in Int
  <2> DEFINE f == [at EXCEPT ![N + 2] = top]
  <2>1. N + 2 \in Nat /\ top \in Int
    BY <1>1, <1>8
  <2>2. f \in [Nat -> Int] /\ f[N + 2] = top
    BY <2>1
  <2>3. \A k \in 1 .. N + 1 : f[k] = at[k] /\ at[k] \in Int
    <3> SUFFICES ASSUME NEW k \in 1 .. N + 1
                 PROVE  f[k] = at[k] /\ at[k] \in Int
      OBVIOUS
    <3>1. k \in Nat /\ k # N + 2
      BY <1>8
    <3> QED
      BY <2>1, <3>1
  <2> HIDE DEF f
  <2> QED
    BY <2>2, <2>3
<1>14. /\ at[L + 1] = offset["Left"]
       /\ at[N + 1] = start
       /\ \A k \in L + 1 .. N :
            at[k + 1] = at[k] + WordSize + Len(sent[k])
       /\ \A j, k \in L + 1 .. N + 1 : j <= k => at[j] <= at[k]
  BY <1>1, <1>12 DEF Laid, N, L
<1>15. Laid(next)'
  <2>1. /\ next[L + 1] = offset'["Left"]
        /\ next[N + 2] = RightEnd'
    <3>1. L + 1 \in 1 .. N + 1
      BY <1>8
    <3> QED
      BY <1>1, <1>13, <1>14, <3>1
  <2>2. ASSUME NEW k \in L + 1 .. N + 1
        PROVE  /\ next[k + 1] = next[k] + WordSize + Len(sent'[k])
               /\ mem'[Cell(next[k])][2] = Len(sent'[k])
               /\ \A j \in 1 .. Len(sent'[k]) :
                    mem'[Cell(next[k] + WordSize + j - 1)] = sent'[k][j]
    <3>1. CASE k \in L + 1 .. N
      <4>1. /\ k \in 1 .. N + 1 /\ k + 1 \in 1 .. N + 1
            /\ sent'[k] = sent[k]
        <5>1. k \in 1 .. N /\ k + 1 \in 1 .. N + 1
          BY <1>8, <3>1
        <5>2. k \in 1 .. N + 1
          BY <1>8, <5>1
        <5> QED
          BY <1>9, <5>1, <5>2
      <4>2. next[k] = at[k] /\ next[k + 1] = at[k + 1]
        BY <1>13, <4>1
      <4>3. /\ mem'[Cell(at[k])][2] = Len(sent[k])
            /\ \A j \in 1 .. Len(sent[k]) :
                 mem'[Cell(at[k] + WordSize + j - 1)] = sent[k][j]
        BY <1>1, <1>12, <3>1, StillHeld DEF N, L
      <4>4. at[k + 1] = at[k] + WordSize + Len(sent[k])
        BY <1>14, <3>1
      <4> QED
        BY <4>1, <4>2, <4>3, <4>4
    <3>2. CASE k = N + 1
      <4>1. /\ next[k] = start /\ k + 1 = N + 2 /\ next[k + 1] = top
            /\ sent'[k] = m
        BY <1>8, <1>9, <1>13, <1>14, <3>2
      <4> QED
        BY <1>1, <1>6, <1>11, <4>1
    <3>3. k \in L + 1 .. N \/ k = N + 1
      BY <1>8
    <3> QED
      BY <3>1, <3>2, <3>3
  <2>3. ASSUME NEW j \in L + 1 .. N + 2, NEW k \in L + 1 .. N + 2, j <= k
        PROVE  next[j] <= next[k]
    <3>1. \A i \in L + 1 .. N + 1 :
            next[i] = at[i] /\ at[i] \in Int /\ at[i] <= start
      <4> SUFFICES ASSUME NEW i \in L + 1 .. N + 1
                   PROVE  next[i] = at[i] /\ at[i] \in Int /\ at[i] <= start
        OBVIOUS
      <4>1. i \in 1 .. N + 1 /\ N + 1 \in L + 1 .. N + 1 /\ i <= N + 1
        BY <1>8
      <4> QED
        BY <1>13, <1>14, <4>1
    <3>2. start <= top
      BY <1>1
    <3>3. CASE k \in L + 1 .. N + 1
      <4>1. j \in L + 1 .. N + 1
        BY <1>8, <2>3, <3>3
      <4> QED
        BY <1>14, <2>3, <3>1, <3>3, <4>1
    <3>4. CASE k = N + 2 /\ j \in L + 1 .. N + 1
      BY <1>1, <1>13, <3>1, <3>2, <3>4
    <3>5. CASE k = N + 2 /\ j = N + 2
      BY <1>1, <1>13, <3>5
    <3> QED
      BY <1>8, <2>3, <3>3, <3>4, <3>5
  <2>4. Len(sent') = N + 1 /\ Len(received') = L /\ (N + 1) + 1 = N + 2
    BY <1>8, <1>9 DEF L
  <2> QED
    BY <2>1, <2>2, <2>3, <2>4 DEF Laid, Holds
<1>16. FifoInv'
  <2>1. Len(received') <= Len(sent')
    BY <1>8, <1>9 DEF L
  <2>2. WrittenInv'
    BY <1>10 DEF WrittenInv
  <2> QED
    BY <1>13, <1>15, <2>1, <2>2 DEF FifoInv
<1>17. Fifo!Accept(m)
  <2>1. SubSeq(Append(sent, m), L + 1, N + 1)
          = Append(SubSeq(sent, L + 1, N), m)
    <3>1. L \in 0 .. Len(sent) /\ m \in Seq(Units)
      BY <1>6, <1>8 DEF N
    <3> QED
      BY <1>8, <3>1, AppendedTail DEF N
  <2>2. SubSeq(sent', Len(received') + 1, Len(sent'))
          = Append(SubSeq(sent, Len(received) + 1, Len(sent)), m)
    BY <1>8, <1>9, <2>1 DEF N, L
  <2>3. /\ RightEnd - offset["Left"] + (WordSize + Len(m)) <= QueueSize
        /\ RightEnd' - offset'["Left"]
             = RightEnd - offset["Left"] + (WordSize + Len(m))
    <3>1. top - offset["Left"]
            = start - offset["Left"] + (WordSize + Len(m))
      <4> DEFINE left == offset["Left"]
      <4>1. left \in Nat /\ start \in Nat /\ n \in Nat
            /\ top = start + WordSize + n /\ Len(m) = n
        BY <1>1, <1>4, <1>6
      <4> HIDE DEF left
      <4>2. (start + WordSize + n) - left = start - left + (WordSize + n)
        BY <4>1
      <4> QED
        BY <4>1, <4>2 DEF left
    <3>2. top - offset["Left"] <= QueueSize
      BY <1>1, <1>4
    <3> QED
      BY <1>1, <3>1, <3>2
  <2> QED
    BY <1>8, <2>2, <2>3 DEF Fifo!Accept, Fifo!Occupies
<1> QED
  BY <1>5, <1>16, <1>17 DEF Fifo!Next

(* recv hands out the oldest message as it was committed.                  *)
LEMMA RecvCommitFifo ==
  ASSUME NoOverflow, RingInv, FifoInv, NEW r \in Readers, RecvCommit(r)
  PROVE  FifoInv' /\ Fifo!Next
<1> DEFINE left == offset["Left"]
           n == size[r]
           N == Len(sent)
           L == Len(received)
<1>1. /\ left_offset[r] = left
      /\ n = mem[Cell(left)][2] /\ n \in Nat
      /\ offset'["Left"] = left + WordSize + n
      /\ RightEnd' = RightEnd
      /\ left \in Nat /\ RightEnd \in Nat /\ left < RightEnd
  <2>1. /\ left_offset[r] = left
        /\ left < offset["Right"]
        /\ n = mem[Cell(left)][2] /\ n \in Nat
        /\ After(left) = left + WordSize + n
        /\ offset'["Left"] = After(left)
        /\ RightEnd' = RightEnd
    BY RecvCommitEffect
  <2>2. /\ left \in Nat /\ RightEnd \in Nat
        /\ offset["Right"] \in Nat /\ offset["Right"] <= RightEnd
    BY Ordered DEF RingInv
  <2>3. left < RightEnd
    BY <2>1, <2>2
  <2> QED
    BY <2>1, <2>2, <2>3
<1>2. /\ UNCHANGED <<mem, sent, started, right_offset, total_written>>
      /\ received' = Append(received, Slice(left_offset[r] + WordSize, n))
  BY DEF RecvCommit, ring, writerLocals
<1>3. /\ sent \in Seq(Seq(Units)) /\ received \in Seq(Seq(Units))
      /\ N \in Nat /\ L \in Nat /\ L <= N
      /\ \A k \in 1 .. N : sent[k] \in Seq(Units) /\ Len(sent[k]) \in Nat
  BY HistoryTyped DEF RingInv, RingTyped, QueueTypeOK, FifoInv
<1>4. PICK at \in [Nat -> Int] : Laid(at)
  BY DEF FifoInv
<1>5. /\ at[L + 1] = left
      /\ at[N + 1] = RightEnd
      /\ \A k \in L + 1 .. N :
           /\ at[k + 1] = at[k] + WordSize + Len(sent[k])
           /\ Holds(at[k], sent[k])
      /\ \A j, k \in L + 1 .. N + 1 : j <= k => at[j] <= at[k]
  BY <1>4 DEF Laid
<1>6. WrittenInv'
  <2>1. \A w \in Writers : pc'[w] = pc[w]
    BY DEF RecvCommit, Goto, RingInv, RingTyped, Procs
  <2> QED
    BY <1>2, <2>1 DEF FifoInv, WrittenInv
<1> HIDE DEF left, n, N, L
<1>7. L < N
  <2>1. L # N
    BY <1>1, <1>5
  <2> QED
    BY <1>3, <2>1
<1> DEFINE k == L + 1
           m == sent[k]
<1>8. /\ k \in L + 1 .. N /\ k \in 1 .. N /\ k \in Nat
      /\ at[k] = left
      /\ m \in Seq(Units) /\ Len(m) \in Nat
  BY <1>3, <1>5, <1>7
<1>9. /\ at[k + 1] = left + WordSize + Len(m)
      /\ Holds(left, m)
  BY <1>5, <1>8
<1> HIDE DEF k, m
<1>10. n = Len(m) /\ at[k + 1] = offset'["Left"]
  BY <1>1, <1>9 DEF Holds
<1>11. Slice(left_offset[r] + WordSize, n) = m
  <2>1. \A j \in 1 .. n : mem[Cell(left + WordSize + j - 1)] = m[j]
    BY <1>9, <1>10 DEF Holds
  <2>2. Slice(left_offset[r] + WordSize, n)
          = [j \in 1 .. n |-> mem[Cell(left + WordSize + j - 1)]]
    BY <1>1 DEF Slice
  <2>3. Slice(left_offset[r] + WordSize, n) = [j \in 1 .. n |-> m[j]]
    BY <2>1, <2>2
  <2>4. m = [j \in 1 .. n |-> m[j]]
    BY <1>8, <1>10, LenProperties
  <2> QED
    BY <2>3, <2>4
<1>12. received' = Append(received, m) /\ Len(received') = k
  <2>1. received' = Append(received, m)
    BY <1>2, <1>11
  <2>2. Len(Append(received, m)) = Len(received) + 1
    BY <1>3, <1>8, AppendProperties
  <2> QED
    BY <2>1, <2>2 DEF k, L
<1>13. FifoInv'
  <2>1. \A i \in k + 1 .. N :
          /\ at[i + 1] = at[i] + WordSize + Len(sent[i])
          /\ Holds(at[i], sent[i])'
    <3>1. \A i \in k + 1 .. N : i \in L + 1 .. N
      BY <1>3, <1>8
    <3>2. \A i \in k + 1 .. N :
            /\ at[i + 1] = at[i] + WordSize + Len(sent[i])
            /\ Holds(at[i], sent[i])
      BY <1>5, <3>1
    <3> QED
      BY <1>2, <3>2 DEF Holds
  <2>2. \A i, j \in k + 1 .. N + 1 : i <= j => at[i] <= at[j]
    <3>1. \A i \in k + 1 .. N + 1 : i \in L + 1 .. N + 1
      BY <1>3, <1>8
    <3> QED
      BY <1>5, <3>1
  <2>3. Laid(at)'
    BY <1>1, <1>2, <1>5, <1>10, <1>12, <2>1, <2>2 DEF Laid, N
  <2>4. Len(received') <= Len(sent')
    BY <1>2, <1>8, <1>12 DEF N
  <2> QED
    BY <1>6, <2>3, <2>4 DEF FifoInv
<1>14. Fifo!Deliver
  <2> DEFINE pending == SubSeq(sent, k, N)
  <2>1. /\ Head(pending) = m
        /\ Tail(pending) = SubSeq(sent, k + 1, N)
    <3>1. N \in k .. N /\ k \in 1 .. Len(sent) /\ N = Len(sent)
      BY <1>8 DEF N
    <3>2. N \in k .. Len(sent)
      BY <3>1
    <3> QED
      BY <1>3, <3>1, <3>2, HeadTailOfSubSeq DEF m
  <2>2. pending # <<>>
    <3>1. \A i \in k .. N : sent[i] \in Seq(Units)
      BY <1>3, <1>8
    <3>2. Len(pending) = IF k <= N THEN N - k + 1 ELSE 0
      BY <1>3, <1>8, <3>1, SubSeqProperties
    <3>3. Len(pending) # 0
      BY <1>3, <1>8, <3>2
    <3>4. Len(<<>>) = 0
      OBVIOUS
    <3> QED
      BY <3>3, <3>4
  <2>3. /\ pending = SubSeq(sent, Len(received) + 1, Len(sent))
        /\ SubSeq(sent, Len(received) + 1, Len(sent))'
             = SubSeq(sent, k + 1, N)
    BY <1>2, <1>12 DEF k, L, N
  <2>4. RightEnd' - offset'["Left"]
          = RightEnd - offset["Left"] - (WordSize + Len(m))
    <3>1. RightEnd - (left + WordSize + n)
            = RightEnd - left - (WordSize + n)
      BY <1>1
    <3> QED
      BY <1>1, <1>10, <3>1 DEF left
  <2> HIDE DEF pending
  <2> QED
    BY <1>12, <2>1, <2>2, <2>3, <2>4 DEF Fifo!Deliver, Fifo!Occupies
<1> QED
  BY <1>13, <1>14 DEF Fifo!Next

-----------------------------------------------------------------------------
(* What every control can rely on.                                         *)

(* A writer that drops the right guard, at the end of send or in a panic.  *)
LEMMA LeaveSendFifo ==
  ASSUME NoOverflow, RingInv, FifoInv, NEW w \in Writers,
         pc[w] \notin Outside, NEW stage \in Outside, LeaveSend(w, stage)
  PROVE  FifoInv' /\ UNCHANGED Channel
<1>1. RightEnd' = RightEnd /\ offset'["Left"] = offset["Left"]
  BY DrainLemma DEF LeaveSend
<1>2. pc' = [pc EXCEPT ![w] = stage] /\ pc \in [Procs -> AllStages]
  BY DEF LeaveSend, Goto, RingInv, RingTyped
<1>3. \A v \in Writers : pc'[v] \notin BeforeCommit
  BY <1>2, OthersOutside DEF RingInv, Procs, Outside, BeforeCommit
<1> QED
  BY <1>1, <1>3, QuietFifo DEF LeaveSend, history

(* Every step of send and recv keeps the messages in place, and is one of  *)
(* the channel's or invisible.                                             *)
LEMMA QueueFifo ==
  ASSUME NoOverflow, RingInv, FifoInv, QueueNext
  PROVE  FifoInv' /\ [Fifo!Next]_Channel
<1> USE DEF Goto, ring, header, history, writerLocals
<1>1. pc \in [Procs -> AllStages]
  BY DEF RingInv, RingTyped
<1>2. ASSUME UNCHANGED <<offset, mem, buffered, sent, received, started>>,
             \A w \in Writers : pc'[w] \in BeforeCommit =>
               /\ pc[w] \in BeforeCommit
               /\ right_offset'[w] = right_offset[w]
               /\ total_written'[w] = total_written[w]
      PROVE  FifoInv' /\ UNCHANGED Channel
  <2>1. RightEnd' = RightEnd
    BY <1>2 DEF RightEnd
  <2> QED
    BY <1>2, <2>1, QuietFifo
<1>3. ASSUME NEW p \in Procs, New(p)
      PROVE  FifoInv' /\ UNCHANGED Channel
  BY <1>1, <1>2, <1>3 DEF New, BeforeCommit, Procs
<1>4. ASSUME NEW w \in Writers, WriteLoad(w) \/ LockLeft(w) \/ SendAbort(w)
      PROVE  FifoInv' /\ UNCHANGED Channel
  <2>1. pc[w] \in BeforeCommit /\ \A v \in Writers \ {w} : pc'[v] = pc[v]
    BY <1>1, <1>4 DEF WriteLoad, LockLeft, SendAbort, BeforeCommit, Procs
  <2> QED
    BY <1>2, <1>4, <2>1 DEF WriteLoad, LockLeft, SendAbort
<1>5. ASSUME NEW w \in Writers, Flush(w)
      PROVE  FifoInv' /\ UNCHANGED Channel
  <2>1. pc[w] \notin Outside
    BY <1>5 DEF Flush, RingInv, BufferedInv, AfterCommit, Outside
  <2>2. RightEnd' = RightEnd /\ offset'["Left"] = offset["Left"]
    BY <1>5, <2>1, DrainLemma DEF Flush
  <2> QED
    BY <1>5, <2>2, QuietFifo DEF Flush
<1>6. ASSUME NEW w \in Writers, SendUnlock(w)
      PROVE  FifoInv' /\ UNCHANGED Channel
  BY <1>6, LeaveSendFifo DEF SendUnlock, Outside
<1>7. ASSUME NEW r \in Readers,
             \/ RecvLock(r) \/ RecvTake(r) \/ RecvEmpty(r)
             \/ RecvUnlock(r) \/ RecvPanic(r)
      PROVE  FifoInv' /\ UNCHANGED Channel
  <2>1. \A w \in Writers : pc'[w] = pc[w]
    BY <1>1, <1>7 DEF RecvLock, RecvTake, RecvEmpty, RecvUnlock, RecvPanic,
       LoadRight, LeaveRecv, Procs
  <2> QED
    BY <1>2, <1>7, <2>1 DEF RecvLock, RecvTake, RecvEmpty, RecvUnlock,
       RecvPanic, LeaveRecv
<1> QED
  BY <1>3, <1>4, <1>5, <1>6, <1>7, SendLockFifo, WriteCopyFifo,
     FixOffsetsFifo, SendCommitFifo, RecvCommitFifo
  DEF QueueNext, WriterStep, ReaderStep

LEMMA InitFifo ==
  ASSUME NoOverflow, QueueInit
  PROVE  FifoInv /\ Fifo!Init
<1>1. sent = <<>> /\ received = <<>> /\ Len(<<>>) = 0
  BY DEF QueueInit
<1>2. RightEnd = 0 /\ offset["Left"] = 0
  BY NothingBuffered DEF QueueInit, Side
<1>3. WrittenInv
  BY DEF QueueInit, WrittenInv, BeforeCommit, Procs
<1> DEFINE at == [k \in Nat |-> 0]
<1>4. at \in [Nat -> Int] /\ at[1] = 0
  OBVIOUS
<1> HIDE DEF at
<1>5. Laid(at)
  BY <1>1, <1>2, <1>4 DEF Laid
<1>6. FifoInv
  BY <1>1, <1>3, <1>4, <1>5 DEF FifoInv
<1>7. SubSeq(sent, Len(received) + 1, Len(sent)) = <<>>
  BY <1>1, SubSeqEmpty
<1> QED
  BY <1>1, <1>2, <1>6, <1>7 DEF Fifo!Init

-----------------------------------------------------------------------------
(* Messages that cannot fill the ring to the last unit.                    *)

Multiples(g) == {g * k : k \in Int}

\* Every message fits, and occupies a multiple of g units, and the ring has
\* no multiple of g: so have messages of one length that does not divide it.
Measured(g) ==
  /\ g \in Nat
  /\ \A n \in Lens : /\ 2 * WordSize + n <= QueueSize
                     /\ WordSize + n \in Multiples(g)
  /\ QueueSize \notin Multiples(g)

\* Then all that lies in the ring, and all that a callback may still commit,
\* occupies a multiple of g.
MeasuredInv(g) ==
  /\ RightEnd - offset["Left"] \in Multiples(g)
  /\ \A k \in 1 .. Len(sent) : WordSize + Len(sent[k]) \in Multiples(g)
  /\ \A w \in Writers : pc[w] \notin Outside => body[w] \in Lens

LEMMA MultiplesClosed ==
  ASSUME NEW g \in Nat, NEW a \in Multiples(g), NEW b \in Multiples(g)
  PROVE  a + b \in Multiples(g) /\ a - b \in Multiples(g)
<1>1. PICK j \in Int : a = g * j
  BY DEF Multiples
<1>2. PICK k \in Int : b = g * k
  BY DEF Multiples
<1>3. j + k \in Int /\ j - k \in Int
  BY <1>1, <1>2
<1>4. g * (j + k) = g * j + g * k /\ g * (j - k) = g * j - g * k
  BY <1>1, <1>2
<1> QED
  BY <1>1, <1>2, <1>3, <1>4 DEF Multiples

LEMMA NoneIsMeasured ==
  ASSUME NEW g \in Nat
  PROVE  0 \in Multiples(g)
<1>1. 0 \in Int /\ g * 0 = 0
  OBVIOUS
<1> QED
  BY <1>1 DEF Multiples

LEMMA InitMeasured ==
  ASSUME NEW g \in Nat, QueueInit
  PROVE  MeasuredInv(g)
<1>1. RightEnd = 0 /\ offset["Left"] = 0
  BY NothingBuffered DEF QueueInit, Side
<1>2. RightEnd - offset["Left"] \in Multiples(g)
  BY <1>1, NoneIsMeasured
<1>3. Len(sent) = 0
  BY DEF QueueInit
<1>4. \A w \in Writers : pc[w] \in Outside
  BY DEF QueueInit, Procs, Outside
<1> QED
  BY <1>2, <1>3, <1>4 DEF MeasuredInv

(* It keeps the ring from being full.                                      *)
LEMMA MeasuredNeverFull ==
  ASSUME RingTyped, Framed, NoBuffer, NEW g, Measured(g), MeasuredInv(g)
  PROVE  NeverFull
<1>1. RightEnd = offset["Right"]
  BY NothingBuffered DEF NoBuffer
<1>2. offset["Left"] \in Int /\ offset["Right"] \in Int
  BY Ordered
<1>3. offset["Right"] - offset["Left"] # QueueSize
  BY <1>1 DEF Measured, MeasuredInv
<1> QED
  BY <1>2, <1>3 DEF NeverFull

LEMMA QuietMeasured ==
  ASSUME NEW g, MeasuredInv(g), UNCHANGED sent,
         RightEnd' = RightEnd, offset'["Left"] = offset["Left"],
         \A w \in Writers : pc'[w] \notin Outside =>
           pc[w] \notin Outside /\ body'[w] = body[w]
  PROVE  MeasuredInv(g)'
BY DEF MeasuredInv

(* What is committed is the whole payload, since no write is refused.      *)
LEMMA SendCommitMeasured ==
  ASSUME NoOverflow, RingInv, NEW g, Measured(g), MeasuredInv(g),
         NEW w \in Writers, SendCommit(w)
  PROVE  MeasuredInv(g)'
<1> DEFINE top == right_offset[w] + total_written[w]
           n == total_written[w] - WordSize
           m == Payload(w)
<1>1. /\ RightEnd = right_offset[w]
      /\ right_offset[w] \in Nat /\ total_written[w] \in Nat
      /\ body[w] \in Nat
      /\ WordSize <= total_written[w]
      /\ offset'["Left"] = offset["Left"]
      /\ RightEnd' = top
  <2>1. /\ RightEnd = offset["Right"]
        /\ right_offset[w] = offset["Right"]
        /\ right_offset[w] \in Nat /\ total_written[w] \in Nat
        /\ body[w] \in Nat
        /\ WordSize <= total_written[w]
        /\ offset'["Left"] = offset["Left"]
        /\ RightEnd' = top
    BY SendCommitEffect
  <2> QED
    BY <2>1
<1>2. body[w] \in Lens
  BY DEF MeasuredInv, SendCommit, Outside
<1>3. n = body[w]
  <2>1. BufLen(w) = WordSize + body[w] - total_written[w]
    BY <1>1 DEF BufLen
  <2>2. 2 * WordSize + body[w] <= QueueSize
    BY <1>2 DEF Measured
  <2>3. ~Refused(w)
    BY <1>1, <2>1, <2>2 DEF Refused, TooMuch
  <2>4. BufLen(w) = 0
    BY <2>3 DEF SendCommit, CallbackOk
  <2> QED
    BY <1>1, <2>1, <2>4
<1>4. WordSize + n \in Multiples(g) /\ g \in Nat
  BY <1>2, <1>3 DEF Measured
<1>5. RightEnd' - offset'["Left"] \in Multiples(g)
  <2>1. RightEnd - offset["Left"] \in Multiples(g)
    BY DEF MeasuredInv
  <2>2. (RightEnd - offset["Left"]) + (WordSize + n) \in Multiples(g)
    BY <1>4, <2>1, MultiplesClosed
  <2>3. offset["Left"] \in Int
    BY Ordered DEF RingInv
  <2>4. RightEnd' - offset'["Left"]
          = (RightEnd - offset["Left"]) + (WordSize + n)
    BY <1>1, <2>3
  <2> QED
    BY <2>2, <2>4
<1>6. \A k \in 1 .. Len(sent') : WordSize + Len(sent'[k]) \in Multiples(g)
  <2>1. n \in Nat /\ m = [k \in 1 .. n |-> <<started, k>>]
    BY <1>1 DEF Payload
  <2>2. started \in Nat /\ sent \in Seq(Seq(Units))
    BY DEF RingInv, RingTyped, QueueTypeOK
  <2>3. m \in Seq(Units) /\ Len(m) = n
    <3> HIDE DEF m, n
    <3>1. \A k \in 1 .. n : <<started, k>> \in Units
      BY <2>1, <2>2 DEF Units
    <3>2. m \in Seq(Units)
      BY <2>1, <3>1
    <3>3. DOMAIN m = 1 .. n
      BY <2>1
    <3> QED
      BY <2>1, <3>2, <3>3, LenProperties
  <2>4. sent' = Append(sent, m)
    BY DEF SendCommit
  <2>5. /\ Len(sent) \in Nat
        /\ Len(sent') = Len(sent) + 1
        /\ \A k \in 1 .. Len(sent) : sent'[k] = sent[k]
        /\ sent'[Len(sent) + 1] = m
    <3> HIDE DEF m
    <3> QED
      BY <2>2, <2>3, <2>4, AppendProperties, LenProperties
  <2>6. \A k \in 1 .. Len(sent) : WordSize + Len(sent[k]) \in Multiples(g)
    BY DEF MeasuredInv
  <2>7. WordSize + Len(m) \in Multiples(g)
    <3> HIDE DEF m
    <3> QED
      BY <1>4, <2>3
  <2> HIDE DEF m, n
  <2>8. ASSUME NEW k \in 1 .. Len(sent')
        PROVE  WordSize + Len(sent'[k]) \in Multiples(g)
    <3>1. CASE k \in 1 .. Len(sent)
      BY <2>5, <2>6, <3>1
    <3>2. CASE k = Len(sent) + 1
      BY <2>5, <2>7, <3>2
    <3>3. k \in 1 .. Len(sent) \/ k = Len(sent) + 1
      BY <2>5
    <3> QED
      BY <3>1, <3>2, <3>3
  <2> QED
    BY <2>8
<1>7. \A v \in Writers : pc'[v] \notin Outside => body'[v] \in Lens
  <2>1. UNCHANGED body /\ pc[w] \notin Outside
    BY DEF SendCommit, writerLocals, Outside
  <2>2. \A v \in Writers \ {w} : pc'[v] = pc[v]
    BY DEF SendCommit, Goto, RingInv, RingTyped, Procs
  <2> QED
    BY <2>1, <2>2 DEF MeasuredInv
<1> QED
  BY <1>5, <1>6, <1>7 DEF MeasuredInv

(* recv gives back the space of one message.                               *)
LEMMA RecvCommitMeasured ==
  ASSUME NoOverflow, RingInv, FifoInv, NEW g \in Nat, MeasuredInv(g),
         NEW r \in Readers, RecvCommit(r)
  PROVE  MeasuredInv(g)'
<1> DEFINE left == offset["Left"]
           N == Len(sent)
           L == Len(received)
           n == mem[Cell(left)][2]
<1>1. /\ left < offset["Right"]
      /\ offset'["Left"] = left + WordSize + n
      /\ RightEnd' = RightEnd
  BY RecvCommitEffect DEF After
<1>2. left \in Int /\ RightEnd \in Int /\ left < RightEnd
  BY <1>1, Ordered DEF RingInv
<1>3. n = Len(sent[L + 1]) /\ L + 1 \in 1 .. N
  <2>1. PICK at \in [Nat -> Int] : Laid(at)
    BY DEF FifoInv
  <2>2. /\ N \in Nat /\ L \in Nat /\ L <= N
    BY HistoryTyped DEF RingInv, FifoInv
  <2>3. at[L + 1] = left /\ at[N + 1] = RightEnd
    BY <2>1 DEF Laid
  <2>4. L # N
    BY <1>2, <2>3
  <2>5. L + 1 \in L + 1 .. N
    BY <2>2, <2>4
  <2>6. Holds(at[L + 1], sent[L + 1])
    BY <2>1, <2>5 DEF Laid
  <2> QED
    BY <2>2, <2>3, <2>5, <2>6 DEF Holds
<1>4. WordSize + n \in Multiples(g)
  BY <1>3 DEF MeasuredInv
<1>5. RightEnd' - offset'["Left"] \in Multiples(g)
  <2>1. (RightEnd - left) - (WordSize + n) \in Multiples(g)
    BY <1>4, MultiplesClosed DEF MeasuredInv
  <2>2. n \in Int
    BY <1>3, HistoryTyped DEF RingInv
  <2> HIDE DEF n
  <2>3. RightEnd' - offset'["Left"] = (RightEnd - left) - (WordSize + n)
    BY <1>1, <1>2, <2>2
  <2> QED
    BY <2>1, <2>3
<1>6. \A w \in Writers : pc'[w] = pc[w] /\ body'[w] = body[w]
  BY DEF RecvCommit, Goto, writerLocals, RingInv, RingTyped, Procs
<1>7. sent' = sent
  BY DEF RecvCommit
<1> QED
  BY <1>5, <1>6, <1>7 DEF MeasuredInv

LEMMA QueueMeasured ==
  ASSUME NoOverflow, RingInv, FifoInv, NEW g, Measured(g), MeasuredInv(g),
         QueueNext
  PROVE  MeasuredInv(g)'
<1> USE DEF Goto, ring, header, history, writerLocals
<1>0. pc \in [Procs -> AllStages] /\ body \in [Writers -> Nat] /\ g \in Nat
  BY DEF RingInv, RingTyped, QueueTypeOK, Measured
<1>1. ASSUME UNCHANGED <<sent, offset, buffered>>,
             \A w \in Writers : pc'[w] \notin Outside =>
               pc[w] \notin Outside /\ body'[w] = body[w]
      PROVE  MeasuredInv(g)'
  <2>1. RightEnd' = RightEnd
    BY <1>1 DEF RightEnd
  <2> QED
    BY <1>1, <2>1, QuietMeasured
<1>2. ASSUME NEW p \in Procs, New(p)
      PROVE  MeasuredInv(g)'
  BY <1>0, <1>1, <1>2 DEF New, Outside, Procs
<1>3. ASSUME NEW w \in Writers, SendLock(w)
      PROVE  MeasuredInv(g)'
  <2>1. UNCHANGED <<sent, offset, buffered>>
    BY <1>3 DEF SendLock
  <2>2. body'[w] \in Lens
    BY <1>0, <1>3 DEF SendLock
  <2>3. \A v \in Writers \ {w} : pc'[v] = pc[v] /\ body'[v] = body[v]
    BY <1>0, <1>3 DEF SendLock, Procs
  <2>4. RightEnd' = RightEnd
    BY <2>1 DEF RightEnd
  <2> QED
    BY <2>1, <2>2, <2>3, <2>4 DEF MeasuredInv
<1>4. ASSUME NEW w \in Writers,
             WriteLoad(w) \/ WriteCopy(w) \/ LockLeft(w) \/ SendAbort(w)
      PROVE  MeasuredInv(g)'
  <2>1. UNCHANGED <<sent, offset, buffered, body>> /\ pc[w] \notin Outside
    BY <1>4 DEF WriteLoad, WriteCopy, LockLeft, SendAbort, Outside
  <2>2. \A v \in Writers \ {w} : pc'[v] = pc[v]
    BY <1>0, <1>4 DEF WriteLoad, WriteCopy, LockLeft, SendAbort, Procs
  <2> QED
    BY <1>1, <2>1, <2>2
<1>5. ASSUME NEW w \in Writers, FixOffsets(w)
      PROVE  MeasuredInv(g)'
  <2>1. UNCHANGED <<sent, buffered, body>> /\ pc[w] \notin Outside
    BY <1>5 DEF FixOffsets, Outside
  <2>2. \A v \in Writers \ {w} : pc'[v] = pc[v]
    BY <1>0, <1>5 DEF FixOffsets, Procs
  <2>3. /\ offset'["Left"] = offset["Left"] - QueueSize
        /\ offset'["Right"] = offset["Right"] - QueueSize
        /\ \A v \in Writers : buffered[v] = NoStore
    BY <1>5, FixOffsetsRing DEF Wrap, Side
  <2>4. RightEnd = offset["Right"] /\ RightEnd' = offset'["Right"]
    BY <2>1, <2>3 DEF RightEnd
  <2>5. offset["Left"] \in Int /\ offset["Right"] \in Int /\ QueueSize \in Int
    BY Ordered DEF RingInv
  <2>6. RightEnd' - offset'["Left"] = RightEnd - offset["Left"]
    BY <2>3, <2>4, <2>5
  <2> QED
    BY <2>1, <2>2, <2>6 DEF MeasuredInv
<1>6. ASSUME NEW w \in Writers, Flush(w) \/ SendUnlock(w)
      PROVE  MeasuredInv(g)'
  <2>1. pc[w] \notin Outside /\ Drain(w) /\ UNCHANGED <<mem, sent>>
    BY <1>6 DEF Flush, SendUnlock, LeaveSend, RingInv, BufferedInv,
       AfterCommit, Outside
  <2>2. RightEnd' = RightEnd /\ offset'["Left"] = offset["Left"]
    BY <2>1, DrainLemma
  <2>3. \A v \in Writers : pc'[v] \notin Outside =>
          pc[v] \notin Outside /\ body'[v] = body[v]
    BY <1>0, <1>6 DEF Flush, SendUnlock, LeaveSend, Outside, Procs
  <2> QED
    BY <2>1, <2>2, <2>3, QuietMeasured
<1>7. ASSUME NEW r \in Readers,
             \/ RecvLock(r) \/ RecvTake(r) \/ RecvEmpty(r)
             \/ RecvUnlock(r) \/ RecvPanic(r)
      PROVE  MeasuredInv(g)'
  <2>1. \A w \in Writers : pc'[w] = pc[w]
    BY <1>0, <1>7 DEF RecvLock, RecvTake, RecvEmpty, RecvUnlock, RecvPanic,
       LoadRight, LeaveRecv, Procs
  <2> QED
    BY <1>1, <1>7, <2>1 DEF RecvLock, RecvTake, RecvEmpty, RecvUnlock,
       RecvPanic, LeaveRecv
<1> QED
  BY <1>0, <1>2, <1>3, <1>4, <1>5, <1>6, <1>7, SendCommitMeasured,
     RecvCommitMeasured DEF QueueNext, WriterStep, ReaderStep
==============================================================================
