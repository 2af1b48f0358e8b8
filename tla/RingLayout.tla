----------------------------- MODULE RingLayout ------------------------------
(***************************************************************************)
(* The arithmetic of the ring: u32 offsets into a buffer that is mapped    *)
(* twice, back to back, so that an access that starts in the first mapping *)
(* may run into the second (src/src/mmap.rs, src/src/lib.rs).  Sizes and   *)
(* offsets count units; a message is a size word of WordSize units         *)
(* followed by its payload.                                                *)
(***************************************************************************)
EXTENDS Integers

CONSTANTS
  QueueSize,    \* Mmap::size of each of the two mappings of the buffer
  WordSize,     \* mem::size_of::<usize>(), the size word of a message
  U32Max        \* u32::MAX

(* named_file and uds_memfd round the size up to whole pages, so the queue *)
(* holds more than two size words; that it fits a u32 is a weaker demand   *)
(* than the one under which offsets are safe, NoOverflow below.            *)
ASSUME LayoutAssumption ==
  /\ WordSize \in Nat \ {0}
  /\ QueueSize \in Nat
  /\ 2 * WordSize < QueueSize
  /\ U32Max \in Nat
  /\ QueueSize <= U32Max

Offsets == 0 .. U32Max
Cells == 0 .. QueueSize - 1

\* Nothing in the code checks this; offsets are stored as u32 all the same.
NoOverflow == 2 * QueueSize < U32Max

\* cached_other_offset holds u32::MAX when nothing is cached.
NoOffset == U32Max

\* u32 addition and subtraction as a release build does them.
AddU32(a, b) == IF a + b > U32Max THEN a + b - (U32Max + 1) ELSE a + b

SubU32(a, b) == IF a < b THEN a - b + (U32Max + 1) ELSE a - b

\* The byte of the file behind an address of the double mapping.
Cell(a) == IF a < QueueSize THEN a ELSE a - QueueSize

\* How many cells c lies ahead of address a, going round the ring.
Ahead(a, c) ==
  IF c >= Cell(a) THEN c - Cell(a) ELSE c + QueueSize - Cell(a)

\* A faulty end that forgets the end of the second mapping.
MutWriteEnd(left) == left + QueueSize

\* One past the last address a writer that saw the offset left may use.
WriteEnd(left) ==
  IF left + QueueSize < 2 * QueueSize THEN left + QueueSize ELSE 2 * QueueSize

SpaceLeft(left, pos) == WriteEnd(left) - pos

\* write trusts a cached left offset only when all of len is sure to fit.
CacheSuffices(left, pos, len) ==
  left # NoOffset /\ left + QueueSize > pos + len

\* write refuses a message that could not leave room for a size word.
TooMuch(total, len) ==
  total + len > U32Max \/ total + len > QueueSize - WordSize

Least(a, b) == IF a < b THEN a ELSE b
==============================================================================
