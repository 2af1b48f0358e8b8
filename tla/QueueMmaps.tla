------------------------------ MODULE QueueMmaps ------------------------------
(***************************************************************************)
(* The address space of each process, as far as QueueMmaps::from_fd and    *)
(* the Drop of Mmap change it (src/src/mmap.rs): a reserved region whose   *)
(* two halves are mapped over, one after the other, with the ring, and the *)
(* header elsewhere.  What the double mapping means is in RingLayout.      *)
(***************************************************************************)
CONSTANT Procs

VARIABLE view         \* what each process has at each part of a QueueMmaps

Parts == {"left", "right", "header"}

NoView == [part \in Parts |-> "none"]
FullView == [part \in Parts |-> "file"]

ViewOK == view \in [Procs -> [Parts -> {"none", "anon", "file"}]]

Map(p, parts, what) ==
  view' = [view EXCEPT ![p] =
             [part \in Parts |-> IF part \in parts THEN what ELSE @[part]]]

\* The anonymous mapping of twice the size.
Reserve(p) ==
  /\ view[p] = NoView
  /\ Map(p, {"left", "right"}, "anon")

\* MAP_FIXED over the lower half, then over the upper half.
MapLeft(p) ==
  /\ view[p]["left"] = "anon"
  /\ Map(p, {"left"}, "file")

MapRight(p) ==
  /\ view[p]["left"] = "file"
  /\ view[p]["right"] = "anon"
  /\ Map(p, {"right"}, "file")

\* The header, which completes them.
MapHeader(p) ==
  /\ view[p]["right"] = "file"
  /\ Map(p, {"header"}, "file")

\* A faulty clean-up that forgets what remains of the reserved region.
MutUndo(p) == Map(p, {"left"}, "none")

\* One of the mmaps has failed: munmap of both halves, whatever they hold, by
\* hand or by the destructors of left and right.
Undo(p) == Map(p, {"left", "right"}, "none")

\* The three destructors.
Unmap(p) == Map(p, Parts, "none")
==============================================================================
