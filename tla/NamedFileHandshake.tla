-------------------------- MODULE NamedFileHandshake --------------------------
(***************************************************************************)
(* How processes agree on a queue through a file: named_file and           *)
(* mark_ready (src/src/handshake/named_file.rs), called by with_config     *)
(* around QueueMmaps::from_fd and ShmemFutexControl::new.  Whoever gets    *)
(* LOCK_EX owns the file and sets it up; the others wait for LOCK_SH,      *)
(* which the owner's mark_ready lets through.  A process that fails or     *)
(* dies loses its mappings, then its lock with its descriptor.             *)
(***************************************************************************)
EXTENDS Integers, QueueMmaps

CONSTANTS
  Sizes,            \* the queue sizes they ask for, in pages
  MaxCalls,         \* bound on the number of calls of named_file
  MaxFailures       \* bound on the number of failed calls and dead processes

ASSUME SizesAssumption == Sizes \subseteq Nat \ {0}
ASSUME BoundsAssumption == MaxCalls \in Nat /\ MaxFailures \in Nat

VARIABLES
  (* the file, as the kernel keeps it *)
  len,          \* its length in pages
  flock,        \* the lock that each process holds on it
  ready,        \* has an owner finished setting up what the file holds?
  (* the processes *)
  pc,           \* how far each has come
  owner,        \* NamedFileHandshakeResult::owner
  queue_size,   \* NamedFileHandshakeResult::queue_size, in pages
  (* bounds *)
  calls, failures

vars == <<len, flock, ready, view, pc, owner, queue_size, calls, failures>>

Stages ==
  {"idle", "tryLock", "setLen", "waitShared", "readLen", "map", "setUp",
   "markReady", "using", "unlock"}

TypeOK ==
  /\ len \in Nat
  /\ flock \in [Procs -> {"none", "shared", "exclusive"}]
  /\ ready \in BOOLEAN
  /\ ViewOK
  /\ pc \in [Procs -> Stages]
  /\ owner \in [Procs -> BOOLEAN]
  /\ queue_size \in [Procs -> Nat]
  /\ calls \in 0 .. MaxCalls
  /\ failures \in 0 .. MaxFailures

HeaderPages == 1

(* The file is new and empty, or left behind by an earlier queue.          *)
Init ==
  /\ len \in {0} \cup {HeaderPages + n : n \in Sizes}
  /\ flock = [p \in Procs |-> "none"]
  /\ ready = FALSE
  /\ view = [p \in Procs |-> NoView]
  /\ pc = [p \in Procs |-> "idle"]
  /\ owner = [p \in Procs |-> FALSE]
  /\ queue_size = [p \in Procs |-> 0]
  /\ calls = 0
  /\ failures = 0

Goto(p, stage) == pc' = [pc EXCEPT ![p] = stage]

Hold(p, mode) == flock' = [flock EXCEPT ![p] = mode]

\* flock grants a mode if no other process holds one that conflicts with it.
Grants(p, mode) ==
  \A q \in Procs \ {p} :
    flock[q] = "none" \/ (flock[q] = "shared" /\ mode = "shared")

\* The result is dropped: lock and descriptor go.
Close(p) ==
  /\ Goto(p, "idle")
  /\ Hold(p, "none")
  /\ owner' = [owner EXCEPT ![p] = FALSE]
  /\ queue_size' = [queue_size EXCEPT ![p] = 0]

-----------------------------------------------------------------------------
(* named_file *)

Open(p, n) ==
  /\ pc[p] = "idle"
  /\ calls < MaxCalls
  /\ calls' = calls + 1
  /\ queue_size' = [queue_size EXCEPT ![p] = n]
  /\ Goto(p, "tryLock")
  /\ UNCHANGED <<view, len, flock, ready, owner, failures>>

\* flock(LOCK_EX | LOCK_NB) succeeds: p is the owner.
BecomeOwner(p) ==
  /\ pc[p] = "tryLock"
  /\ Grants(p, "exclusive")
  /\ Hold(p, "exclusive")
  /\ owner' = [owner EXCEPT ![p] = TRUE]
  /\ Goto(p, "setLen")
  /\ UNCHANGED <<view, len, ready, queue_size, calls, failures>>

\* It fails with WouldBlock: p is to join.
BecomeJoiner(p) ==
  /\ pc[p] = "tryLock"
  /\ ~Grants(p, "exclusive")
  /\ Goto(p, "waitShared")
  /\ UNCHANGED <<view, len, flock, ready, owner, queue_size, calls, failures>>

\* A faulty owner that leaves a file alone that is long enough.
MutSetLen(p) ==
  /\ pc[p] = "setLen"
  /\ len' = IF len > HeaderPages + queue_size[p] THEN len
            ELSE HeaderPages + queue_size[p]
  /\ ready' = FALSE
  /\ Goto(p, "map")
  /\ UNCHANGED <<view, flock, owner, queue_size, calls, failures>>

\* The owner's set_len: from here on the file is not what it was.
SetLen(p) ==
  /\ pc[p] = "setLen"
  /\ len' = HeaderPages + queue_size[p]
  /\ ready' = FALSE
  /\ Goto(p, "map")
  /\ UNCHANGED <<view, flock, owner, queue_size, calls, failures>>

\* A faulty joiner that does without the lock.
MutLockShared(p) ==
  /\ pc[p] = "waitShared"
  /\ Goto(p, "readLen")
  /\ UNCHANGED <<view, len, flock, ready, owner, queue_size, calls, failures>>

\* flock(LOCK_SH) returns: the owner is done, or gone.
LockShared(p) ==
  /\ pc[p] = "waitShared"
  /\ Grants(p, "shared")
  /\ Hold(p, "shared")
  /\ Goto(p, "readLen")
  /\ UNCHANGED <<view, len, ready, owner, queue_size, calls, failures>>

\* A faulty joiner whose subtraction is not checked.
MutReadLen(p) ==
  /\ pc[p] = "readLen"
  /\ queue_size' = [queue_size EXCEPT ![p] = len - HeaderPages]
  /\ Goto(p, "map")
  /\ UNCHANGED <<view, len, flock, ready, owner, calls, failures>>

\* The joiner takes the size of the queue from the file.
ReadLen(p) ==
  /\ pc[p] = "readLen"
  /\ len >= HeaderPages
  /\ queue_size' = [queue_size EXCEPT ![p] = len - HeaderPages]
  /\ Goto(p, "map")
  /\ UNCHANGED <<view, len, flock, ready, owner, calls, failures>>

\* A file that is too short for a header makes it panic.
ReadLenPanics(p) ==
  /\ pc[p] = "readLen"
  /\ len < HeaderPages
  /\ Close(p)
  /\ UNCHANGED <<view, len, ready, calls, failures>>

-----------------------------------------------------------------------------
(* with_config *)

\* from_fd makes its mappings one by one.
MapPart(p) ==
  /\ pc[p] = "map"
  /\ Reserve(p) \/ MapLeft(p) \/ MapRight(p)
  /\ UNCHANGED <<len, flock, ready, pc, owner, queue_size, calls, failures>>

MapLast(p) ==
  /\ pc[p] = "map"
  /\ MapHeader(p)
  /\ Goto(p, "setUp")
  /\ UNCHANGED <<len, flock, ready, owner, queue_size, calls, failures>>

\* ShmemFutexControl::new zeroes the header if p is the owner, and clears
\* both caches.
SetUp(p) ==
  /\ pc[p] = "setUp"
  /\ Goto(p, "markReady")
  /\ UNCHANGED <<view, len, flock, ready, owner, queue_size, calls, failures>>

\* mark_ready has nothing to do for a joiner.
JoinerReady(p) ==
  /\ pc[p] = "markReady"
  /\ ~owner[p]
  /\ Goto(p, "using")
  /\ UNCHANGED <<view, len, flock, ready, owner, queue_size, calls, failures>>

\* A faulty mark_ready that frees the lock instead of sharing it.
MutOwnerReady(p) ==
  /\ pc[p] = "markReady"
  /\ owner[p]
  /\ Hold(p, "none")
  /\ ready' = TRUE
  /\ Goto(p, "using")
  /\ UNCHANGED <<view, len, owner, queue_size, calls, failures>>

\* For the owner it turns LOCK_EX into LOCK_SH, which the kernel does in one
\* step: no other lock is there to conflict with.
OwnerReady(p) ==
  /\ pc[p] = "markReady"
  /\ owner[p]
  /\ Hold(p, "shared")
  /\ ready' = TRUE
  /\ Goto(p, "using")
  /\ UNCHANGED <<view, len, owner, queue_size, calls, failures>>

-----------------------------------------------------------------------------
\* A faulty MemeQueue whose first field is its handshake result.
MutDrop(p) ==
  /\ pc[p] = "using"
  /\ Hold(p, "none")
  /\ Goto(p, "unlock")
  /\ UNCHANGED <<len, ready, view, owner, queue_size, calls, failures>>

\* A MemeQueue is dropped, its fields in their order: the mappings ...
Drop(p) ==
  /\ pc[p] = "using"
  /\ Unmap(p)
  /\ Goto(p, "unlock")
  /\ UNCHANGED <<len, flock, ready, owner, queue_size, calls, failures>>

\* A faulty drop that forgets the lock.
MutUnlock(p) ==
  /\ pc[p] = "unlock"
  /\ Goto(p, "idle")
  /\ UNCHANGED <<len, flock, ready, view, owner, queue_size, calls, failures>>

\* ... and the handshake result last.
Unlock(p) ==
  /\ pc[p] = "unlock"
  /\ Close(p)
  /\ UNCHANGED <<len, ready, view, calls, failures>>

Failure == failures < MaxFailures /\ failures' = failures + 1

\* One of the mmaps of from_fd fails.
MapFails(p) ==
  /\ pc[p] = "map"
  /\ Failure
  /\ Undo(p)
  /\ Goto(p, "unlock")
  /\ UNCHANGED <<len, flock, ready, owner, queue_size, calls>>

\* Any other call fails and the error is propagated, or the process dies,
\* wherever it is: either way it loses its mappings before its descriptor.
Fail(p) ==
  /\ pc[p] \notin {"idle", "unlock"}
  /\ Failure
  /\ Unmap(p)
  /\ Goto(p, "unlock")
  /\ UNCHANGED <<len, flock, ready, owner, queue_size, calls>>

Step(p) ==
  \/ BecomeOwner(p) \/ BecomeJoiner(p) \/ SetLen(p) \/ LockShared(p)
  \/ ReadLen(p) \/ ReadLenPanics(p) \/ MapPart(p) \/ MapLast(p) \/ SetUp(p)
  \/ JoinerReady(p) \/ OwnerReady(p) \/ Unlock(p)

Next == \E p \in Procs :
  \/ \E n \in Sizes : Open(p, n)
  \/ Step(p) \/ Drop(p) \/ MapFails(p) \/ Fail(p)

Spec == Init /\ [][Next]_vars

(***************************************************************************)
(* Fairness: a process inside named_file or with_config that can go on     *)
(* does.  Nobody is obliged to call, to drop a queue, or to fail.          *)
(***************************************************************************)
FairSpec == Spec /\ \A p \in Procs : WF_vars(Step(p))

-----------------------------------------------------------------------------
(* Properties. *)

\* p has a handshake result in its hands.
HasResult(p) == pc[p] \in {"map", "setUp", "markReady", "using"}

(* "is_owner must be true for only one side at a time" (the contract of    *)
(* HandshakeResult in src/src/handshake.rs).                               *)
OneOwner ==
  \A p, q \in Procs :
    HasResult(p) /\ owner[p] /\ HasResult(q) /\ owner[q] => p = q

(* "shmem_fd must point to a mmapable object of size page_size +           *)
(* queue_size" (same contract): as long as anybody holds a result, the     *)
(* file has the size that this process maps, whoever joined or took over.  *)
SizeIsFileSize ==
  \A p \in Procs : HasResult(p) => len = HeaderPages + queue_size[p]

Mapped(p) == \E part \in Parts : view[p][part] = "file"

(* An owner resizes the file and zeroes the header only while no other     *)
(* process has a result or any mapping of the file, so nobody's pages,     *)
(* offsets or locks vanish under use.                                      *)
SetUpAlone ==
  \A p, q \in Procs :
    owner[p] /\ pc[p] \in {"setLen", "map", "setUp"}
      /\ (HasResult(q) \/ Mapped(q)) => p = q

(* "Field order is important, as it ensures proper drop order" (MemeQueue  *)
(* in src/src/lib.rs): whoever maps the file holds a lock on it.           *)
MappedUnderLock == \A p \in Procs : Mapped(p) => flock[p] # "none"

(* Whichever mmap fails, a process is left with all of the mappings or     *)
(* none, not even the anonymous one that the halves are mapped over.       *)
AllOrNothing ==
  \A p \in Procs : pc[p] # "map" =>
    view[p] = IF pc[p] \in {"setUp", "markReady", "using"} THEN FullView
              ELSE NoView

(* "The owner is already done setting everything up" (the safety comment   *)
(* on NamedFileHandshakeResult) by the time a joiner has a result.         *)
OwnerIsDone == \A p \in Procs : HasResult(p) /\ ~owner[p] => ready

(* The same, as long as no call has failed and no process died.            *)
OwnerIsDoneUnlessFailed == failures = 0 => OwnerIsDone

(* Every call of named_file and with_config ends, in a queue or an error:  *)
(* joiners are never left waiting, not even by an owner that fails.        *)
HandshakeEnds ==
  \A p \in Procs : pc[p] = "tryLock" ~> pc[p] \in {"using", "idle"}
==============================================================================
