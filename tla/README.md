# A TLA+ model of memequeue

memequeue passes messages between processes through a ring buffer in shared
memory.  The ring is mapped twice, back to back, so that a message that runs
over the end of the first mapping is still contiguous; two u32 offsets, one per
side, say where it is read and where it is written; a lock per side keeps
readers and writers apart among themselves; futexes put them to sleep.

This directory holds the model: TLA+ modules translated from the source, the
configurations TLC checks them with, and proofs that TLAPS checks.  Source
paths below start at the repository's root (`src/lib.rs`, ...); the tables in
`PROJECT.json` write them with one more `src/` in front.

## 1. Inventory

| part | state | operations | interacts with |
|---|---|---|---|
| `MemeQueue` and `MemeWriter` (`src/lib.rs`) | locals of `send` and `recv`: the offset loaded, `total_written`, the size read | `with_config`, `send`, `recv`, `MemeWriter::write` | the control for locks, offsets, sleeping; the mappings for data; user callbacks, which run under a lock |
| `ShmemFutexControl` (`src/control/shmem_futex.rs`) | the shared header: per side a lock word, an offset, a cached copy of the other offset, a count of waiters | `new`, `lock`, drop of the guard, `wait`, `notify`, `load/sync_load/cached/commit_offset`, `fix_offsets` | the kernel's futex queues |
| `EventFdControl` (`src/control/eventfd.rs`) | the same header, two eventfd counters, `last_notify` (only printed) | `new`, which exchanges the two descriptors; `wait` with a `poll` of 5 or 6 s that panics, `notify`; the rest delegated | the kernel, the other side's panic, the handshake's `send_fd` and `recv_fd` |
| `Mmap`, `QueueMmaps` (`src/mmap.rs`) | the mappings of one process | `from_fd`, drop | the kernel; the handshake, whose lock must outlive them |
| `named_file` (`src/handshake/named_file.rs`) | file length, the flocks on the file, `owner`, `queue_size` | `named_file`, `mark_ready`, drop | other processes, through flock only |
| `uds_memfd` (`src/handshake/uds_memfd.rs`) | the socket file, the stream, the counter and the queue of exchanged descriptors | `uds_memfd`, `mark_ready`, `send_fd`, `recv_fd` | other processes, through the file system and the stream |
| `Stats` (`src/stats.rs`) | four relaxed counters | none that control flow reads | - |
| benchmarks, examples | loops around `send` and `recv` | - | the callers whose assumptions (as many `recv` as `send`) the liveness property takes over |

What is hard in this code:

* any number of threads of any number of processes act on one header, with
  atomic orderings marked TODO;
* an offset that was read under a lock is compared after the lock is dropped
  (`recv` before `wait`), and offsets go *back* when the ring wraps;
* a message, even its size word, is written in pieces, with waits for space and
  wraps in between, under the right lock and sometimes both locks;
* cached offsets are trusted for a while and cleared by whoever joins;
* callbacks fail and panic; processes die; queue files and socket files outlive
  their users;
* one event counter serves all receivers, whose `read` takes everything in it;
  a timeout, a signal and a message 0xDEAD all end in a panic inside `send` or
  `recv`;
* `bind`, `listen`, `accept`, `connect` and `remove_file` are separate calls on a
  path that anybody may bind anew in between.

What makes the parts correct:

* lock: mutual exclusion, no sleeper forgotten (section 3, `FutexMutex`);
* queue: writers only touch space that is free, readers only whole committed
  messages, offsets in bounds, wraps invisible, FIFO delivery, no lost wakeup;
* handshake: one owner at a time, everybody maps what the file holds, nobody
  uses a queue before its owner is done, nobody waits for ever;
* event counters: which wakeups can be lost and that no other is, a wait that
  panics frees its lock, a send always ends;
* socket handshake: one owner and one joiner per memory file, with the file's
  own descriptors in the right order, and no end waiting for the other for ever;
* mappings: all or none, and none outlives the lock on the file.

`PROJECT.json` lists the hazards one by one with the line where each bites and
the property that watches it.

## 2. Modules

| module | what it is |
|---|---|
| `Mutex` | the promise of `Control::lock`: at most one holder |
| `FutexMutex` | `ShmemFutexControl::lock` and the guard's drop, one step per atomic access or system call; implements `Mutex` |
| `RingLayout` | the arithmetic: u32 addition and subtraction, the double mapping, the end a writer may reach, the cache test |
| `FifoQueue` | the promise of the queue: a bounded FIFO channel of whole messages |
| `MemeQueue` | `send`, `recv`, `MemeWriter::write` and the offsets, for sets `Writers` and `Readers`; stops at the stages "wait" and "notify"; implements `FifoQueue` |
| `ShmemFutexQueue` | `MemeQueue` plus `wait` and `notify` of `ShmemFutexControl`: a complete specification |
| `EventFdQueue` | `MemeQueue` plus `wait` and `notify` of `EventFdControl`: the other complete specification |
| `QueueMmaps` | `QueueMmaps::from_fd` and the drop of its mappings, as operators on the mappings of one process |
| `NamedFileHandshake` | `named_file`, `from_fd`, `mark_ready`, the drops, as `with_config` and the drop of a `MemeQueue` order them; uses `QueueMmaps` |
| `UdsMemfdHandshake` | `uds_memfd`, the descriptors that `EventFdControl::new` exchanges, `mark_ready`, the drop |
| `MemeQueueProofs` | what is true of the ring, its offsets and its locks whatever control is used: the invariant, and one lemma per action of `MemeQueue` |
| `FifoQueueProofs` | the same for the messages: each action of `MemeQueue` is a step of `FifoQueue` or none |
| `ShmemFutexQueueProofs`, `EventFdQueueProofs` | the theorems on either complete specification of the queue |
| `FutexMutexProofs`, `NamedFileHandshakeProofs` | the theorems on the lock and on the first handshake |
| `UdsMemfdHandshakeProofs`, `UdsMemfdStreamProofs` | the theorems on the second one; the latter on the descriptors |

How they fit: `MemeQueue` takes and frees a lock in one step, which is what
`FutexMutex` implements (`ImplementsMutex`).  `MemeQueue` starts from a header
that the owner has zeroed, with every thread still to run
`ShmemFutexControl::new` (`New`) at a time of its own: the state in which the
handshake leaves a queue according to `SetUpAlone` and
`OwnerIsDoneUnlessFailed`, or, with `uds_memfd`, `OwnerIsDone`.
`EventFdQueue` takes for granted that both processes mean the same counters by
left and right, which is `FdsInOrder` of the socket handshake.

`FifoQueue` has the messages accepted and not yet delivered (`pending`), the
room they take (`used`) and what was delivered.  `ImplementsFifo` maps `pending`
to the messages that `send` has committed and `recv` not yet consumed
(`sent` from `Len(received) + 1` on), `delivered` to `received`, which holds what
the callbacks were *shown*, unit by unit out of the ring, and `used` to the
distance of the left offset from the right one.  So it says that what a callback
sees is the next message that was sent, unchanged, and that the two offsets are
as far apart as the messages between them are long.

### How the queue's state corresponds to the code

`offset`, `cached`, `waiters` and `lock` are the header, indexed by the side
("Left" is read from, "Right" is written to); `cached["Right"]` is
`right.cached_other_offset`, a copy of the left offset, used by writers.  `mem`
is the ring.  A payload unit is a pair that names its message and its place in
it, so that any byte delivered from the wrong place shows; a size word holds the
number it says in each of its units.  `seen` is the offset of the other side a
thread acts on: the writer's `left_offset` variable, the reader's
`right_offset`, and the `expected` of `wait`.  `pc` says between which two
statements the thread stands.  `right_offset`, `total_written`, `left_offset`
and `size` are the variables of those names.  `started`, `sent` and `received`
are history, the first one also a bound (`MaxSends`).

A step ends where another thread can see or disturb something: at every lock,
unlock, offset load that goes to shared memory, copy into the ring, commit,
system call.  Deliberate groupings, each of steps nobody else can interleave
with harmfully:

* `SendLock` takes the right lock and loads the right offset, which only the
  holder of that lock changes.
* `FixOffsets` does the four relaxed stores of `fix_offsets` under both locks
  and drops the left guard.  `wait` and `notify` read offsets without a lock,
  so a spinning or sleeping thread might see one store before the other; it
  compares one offset only, for inequality, and each single offset takes only
  its old or its new value.
* `New` stores u32::MAX in both caches in one step: readers and writers look at
  one cache each.
* `RecvTake` reads offset, cache and size word in one step, under the left lock:
  the cache of the left half is written under that lock, by `New`, or by
  `FixOffsets`, which holds it too.

Callbacks: a send callback writes one payload of a length in `Lens` and returns
`Ok`, or returns `Err` at any point after the size word (`SendAbort`), or hides
the error of a write that was refused for being too long (`CallbackOk`).  A recv
callback returns `Ok` or `Err`; `recv` commits in both cases.  A send callback
that panics does what one that fails does: the guard is dropped, nothing is
committed.  A recv callback that panics (`RecvPanic`, where `Panics` allows it)
drops the guard *without* commit, so the message is received again.

Memory model: sequential consistency, plus with `StoreBuffering` the one
reordering of x86-TSO that this code is open to, the commit of the right offset
staying in the writer's store buffer while its `notify` loads the waiters.
Atomic read-modify-writes (the guard's swap) and system calls drain the buffer.
`recv` needs no buffer: the swap of `drop(guard)` lies between its commit and its
load of the waiters.  Reorderings of weaker processors (ARM) are not modelled.

### How the event counters correspond to the code

`event[s]` is the counter of the eventfd that those wait on who wait for the
offset of side `s`: senders for "Left", receivers for "Right".  Between the
stages of `MemeQueue` there are those of `wait` ("check", "poll", "giveUp",
"readEvent", "leave") and "writeEvent" of `notify`; "dead" is a thread that has
panicked in `wait`.  A sender that panics holds the right lock and leaves a
message half written: unwinding is `LeaveSend`, the same steps as for an
aborted send.  A receiver waits without a lock.

`poll` may time out whenever the counter is zero, since the model has no clock;
`signals` bounds how often a signal interrupts `poll` or `read` (EINTR).  An
interrupted `poll` counts as a deadlock.  An interrupted `read` returns an
error from `wait`: `Read` and `Write` take `ErrorKind::Interrupted` as a
reason to try again, so `write_all` does, while `recv` returns.  In both cases
`left_waiters` or `right_waiters` keeps the count of the waiter that left.

The repository's `README.md:6` says that "eventfd synchronization is totally
broken", and in one respect the model agrees: a receiver may be left in `poll`
with a message in the queue, until its timeout makes it panic.  `lapse` is a
history variable that records how, in the three ways there are:

* "overtaken": `notify` has loaded the waiters, and found none, while its commit
  was still in the store buffer (`src/control/eventfd.rs:180`; the run
  `eventfdlost`);
* "deceived": the receiver has compared the offset (line 98) after a wrap had
  brought it back to the value it knew, the ABA of section 4;
* "mistaken": notifications had added up to 0xDEAD sharp by the time they were
  read (line 156).  `notes` counts those in the right event, apart from what
  senders that gave up have added.

A later `notify` that loads the waiters in order makes up for any of these, and
`lapse` is "none" again.  What is not broken, in the same model: the ring, FIFO
delivery, the locks that panics leave, the wakeups of senders, and the end of
every `send`.  The write of `notify` drains the store buffer like every system
call.

### How the handshakes' state corresponds to the code

`len` is the file's length in pages, one of them the header; `flock` the lock
each process holds; `ready` whether an owner has finished setting up what the
file now holds (it becomes false with `set_len`).  `view` is what each process
has mapped: of the reservation, the two halves and the header, which exist so
far.  `from_fd` maps one part per step, and each of them may fail
(`MapFails`), which undoes the others while the lock is still held; a queue
that is dropped loses its mappings in one step and its lock in the next
(`Unlock`), in the order of the fields of `MemeQueue`.  `Fail` is any other
error propagated out of `named_file` or `with_config`, and the death of a
process, at every stage: the mappings and the lock go.  `OwnerReady`
converts the lock in one step.  flock(2) does not promise that in general; Linux
replaces an exclusive by a shared lock without a gap, because no other lock can
be there to conflict, and the contract of `HandshakeResult` depends on it.

In the socket handshake `path` says whose socket the path leads to, `listening`
and `backlog` are the listeners, `peer` and `inbox` the two ends of each
stream with the messages on their way; `memfds` are all memory files ever made.
A descriptor is the pair of a memory file and a number, so that one that comes
from another pair, or in another order, shows.  Binding and listening are two
steps although `UnixListener::bind` is one call, because the kernel does them
apart: a process that connects in between is refused.  A process that ends
closes its ends (`Close`); what it has sent stays readable; its socket file
stays.

## 3. Runs

All runs finish in two minutes on two workers.

| run | module | instance | shows |
|---|---|---|---|
| `mutex` | FutexMutex | 4 threads, spurious wakes | `MutualExclusion`, `NoLostWakeup`, the refinement of `Mutex`, and that a freed lock is taken again |
| `ring` | ShmemFutexQueue | 1 writer, 1 reader, ring of 6, size word of 2, payloads of 0 to 3, 5 sends, store buffer, spurious wakes, panics of recv callbacks | bounds, ownership of space and slices, no underflow, caches, no sender stranded, atomic wraps, and FIFO delivery; 954,132 states |
| `contention` | ShmemFutexQueue | 2 writers, 2 readers, ring of 4, messages of 3, 3 sends, spinning | waiter counts under contention; one wake per message is enough; every send returns, every message is received, no deadlock; 260,653 states |
| `eventfd` | EventFdQueue | 1 writer, 2 readers, ring of 4, messages of 3, 2 sends, store buffer, 2 signals, 2 for 0xDEAD | no waiter uncounted, no sender stranded, and a receiver only after a lapse, FIFO delivery, no lock left by a panic, every send ends, every message is received unless all receivers die or a lapse lasts; 167,511 states |
| `handshake` | NamedFileHandshake | 3 processes, 2 sizes, 4 calls, 2 failures | the contract of `HandshakeResult`, mappings all or none and only under the lock, and that every call ends; 75,576 states |
| `uds` | UdsMemfdHandshake | 3 processes, 2 sizes, 4 calls, 2 descriptors, 1 failure | one owner and one joiner per memory file, set up before it is handed over, descriptors in order, every call ends, stale sockets are removed; 150,923 states |
| `aba`, `storebuffer`, `eventfdlost`, `overflow`, `orphan`, `udsremove` | | small | the findings of section 4 |

Bounds.  `MaxSends` bounds the number of messages; with five sends of up to
four units on a ring of six (longer ones are refused), the offsets wrap several
times, the writer waits for space in the middle of a size word and of a
payload, sends are aborted before and after a wrap, and each of the two caches
is used while stale.  A size word of two units is the smallest that can be
split, a ring of six the smallest that holds one with room on both sides of the
wrap.  `U32Max` is out of reach except in `overflow`.  Four threads on the lock
cover a holder, a sleeper, a thread that barges in and one between its test and
its sleep.  Three processes cover an owner, a joiner, and one that comes while
the other two change places; on the socket they cover a pair and one that gets
between, before or after the path is removed, and with four calls one that
comes back.  Two descriptors are what `EventFdControl` exchanges, and enough to
be swapped.  In `contention` three sends over a ring that holds one message
make each writer wait for space while the other cannot take the lock;
spurious wakes and panicking callbacks are left to `ring` and, for its two
invariants, to the proofs.  In `eventfd` two sends over a ring that holds one
message make the sender wait, and wake receivers twice with tokens that may add
up; two receivers are the least of which one can take the other's token.  Two
signals allow one on either side, and one after another.  A run cannot count to
57005, so there two notifications add up to `DEAD`; "overtaken" and "mistaken"
happen with these bounds, while "deceived" takes four sends that fill the ring,
and is left to `aba` and to the proof.

Deadlock.  It is checked in `contention`, where `Quiescent` stands for the legitimate
end: all sends made, everything received, receivers asleep.  The other runs of
the queue include what really stops it (lost wakeups, threads that are never
scheduled again, all dead in `eventfd`); the lock and the handshakes stop when
nobody calls any more.

Fairness.  A thread inside the library that can take a step takes one
eventually (the scheduler runs it), callbacks return, a buffered store becomes
visible at some time.  Readers call `recv` again, as benchmarks and examples
do.  There is no fairness on `send`, on `lock` calls, on spurious wakes, on
failures.  The lock is not fair, and `ReleasedLockIsTaken` does not say that
each contender gets it.  `SendsReturn` in `contention` is about senders that
have the lock; and a receiver that finds nothing goes to sleep, so no receiver
keeps the left lock from the others for ever, unless spurious wakes never end
(`Spurious` is off there).  Its messages of 3 on a ring of 4 exclude the ABA
problem below: no messages that are in the ring together add up to its size.
The store buffer is off there too, as `storebuffer` shows it must be.
`HandshakeEnds` counts on owners not coming and going for ever (`MaxCalls`).

With event counters buffered commits become visible as well, and the timeout is
owed to a sender only (`PollTimesOut(w)`): `SendsEnd` is about a send that has
nobody to make space for it.  A receiver that nobody sends to may time out or
wait.  Signals are never owed.  On the socket every process inside a call that
can go on does; nobody has to call, drop a queue, or fail, and an owner may
wait in `accept` for ever.

## 4. Findings

* **ABA in `recv`** (`aba`; `src/lib.rs:116`).  `recv` compares the right offset
  with the value it saw, in `futex_wait`, after it dropped the left lock.  If the
  receiver is held up in between while the writer commits exactly one ring of
  messages, having to wrap on the way, the right offset is back at that value.
  The receiver sleeps on a full ring, the writer sleeps as soon as it needs
  space, and neither wakes the other.
* **Lost wakeup in `send`** (`storebuffer`; `src/control/shmem_futex.rs:159`, with
  the TODO above it).  The commit may be buffered when `notify` loads the
  waiters.  A full fence between them is missing.
* **The same with event counters** (`eventfdlost`; `src/control/eventfd.rs:180`).
  The load is SeqCst, but a load is no fence on x86: a receiver announces
  itself, sees the old offset, polls, and nobody notifies it.  "Oh no, we
  deadlocked", it says after its timeout (line 120), with a message in the queue
  (`DeadlockIsReal`), and panics.  The sender may be idle by then; with
  `examples/send_seq.rs` and `examples/recv_seq.rs`, which use this control, the
  receiver of the last message dies before it has read it.
* **u32 offsets** (`overflow`; `src/lib.rs:145`).  Offsets reach twice the queue
  size; nothing stops a queue of 2 GiB or more.
* **Orphaned joiners** (`orphan`; `src/handshake/named_file.rs:95`).  A joiner that
  waits for the owner proceeds as well when the owner fails or dies.  It
  notices an empty file (it panics), not one left by an earlier queue, whose
  stale locks and offsets it takes over.
* **A late `remove_file`** (`udsremove`; `src/handshake/uds_memfd.rs:100`, with
  the comment above it).  Two processes connect to the first owner's socket.
  One removes the path, another owner binds it and listens, the second joiner
  now removes the new socket.  Its owner waits in `accept`, and nobody can
  connect.

Two observations that no run is spent on: an empty message is exactly one size
word long, which the `debug_assert` at `src/lib.rs:92` rejects although `send`
commits it (in a release build it is delivered, and `ring` includes it); and
`EventFdControl` never closes its two descriptors.

## 5. Proofs

`FutexMutexProofs`, for any set of threads, with or without spurious wakes: type
correctness, `MutualExclusion`, `NoLostWakeup`, and that the lock implements
`Mutex`.  These invariants are inductive as they stand, given the earlier ones.

**The ring.**  `MemeQueueProofs`, for any set of writers and readers, any sizes
and payload lengths, any number of sends, with or without a store buffer, under
the assumption `NoOverflow` (twice the queue size is less than u32::MAX; the run
`overflow` shows that it is needed).  It has no theorem on a specification of its
own, since `MemeQueue` is none: its lemmas are about `QueueNext`, and both
controls use them.  The controls' own steps move threads between the stages of
`wait` and `notify` and leave the ring alone (`WaitingRing`).

`OffsetsInBounds` is not inductive: `recv` moves the left offset by whatever a
size word in the ring says, so the invariant has to know that it is the size word
of a message.  The inductive invariant `RingInv` has these parts:

* `LocksHeld`: where a thread is decides which lock it holds;
* `WriterInv`: the message in the making begins at the right offset and ends
  within one ring of the left one; `BufferedInv`: a buffered commit is that of
  the lock's holder;
* `Framed`: there is a set of addresses, from the left offset to the committed
  right offset, such that each size word leads from one to the next and none is
  skipped.  It stands in for the recursion "decode the messages one by one",
  over which the provers cannot do induction;
* `ReaderInv`, `CachesLag` and the types.

There is one lemma per action (`WriteCopyRing`, ...).  The interesting ones are
`WriteCopyRing` and `SendCommitRing`, where `Apart` shows that the cells written
differ from those of unread size words, `FixOffsetsRing`, which shifts the frame
by one mapping, and `RecvCommitRing`, which drops its first address.
`WrapIsAtomic` follows from the same lemmas.

**The channel.**  `FifoQueueProofs` adds `FifoInv`: there is a function `at` from the
numbers of the unread messages to addresses at which they lie end to end, from
the left offset to the right one, each with its size word and its payload
(`Laid`); and the part of a message that is written so far is in its place
(`WrittenInv`).  `at` loses its first value with `RecvCommit`, gains one with
`SendCommit` and moves by one mapping with `FixOffsets`; that `WriteCopy` does
not touch it is `Apart` again.  `ImplementsFifoHolds` is the refinement, proved for
both controls: `SendCommit` is `Accept`, `RecvCommit` is `Deliver`, everything else
stutters, `Flush` and the panic of a callback included.

**Futexes.**  `ShmemFutexQueueProofs`, for any finite set of threads, with spins and
spurious wakes: `TypeOK`, `OffsetsInBounds`, `WriterOwnsSpace`, `ReaderOwnsSlice`,
`NoUnderflow`, `CachesLag`, `WaitersCounted`, `NoStrandedWriter`, the action property
`WrapIsAtomic`, and `ImplementsFifo`.  `NoStrandedWriter` has its own induction on
top of `IInv`: the left offset cannot return to a value seen by a sleeping writer,
since it only goes back when that very writer, awake, wraps.

**Event counters.**  `EventFdQueueProofs`, for any finite set of threads and any
bounds: `NoWaiterUncounted`, `DeadHoldNoLock` and `SenderReadsAtOnce`, and, under
`NoOverflow`, `TypeOK`, the ring's properties (`RingIsSafe`: those that the run
`ring` checks with futexes), `WrapIsAtomic`, `NoStrandedWriter` and `ImplementsFifo`.
`LocksHeld` says which locks a thread at each stage holds *and* that nobody else
holds them.  So a sender is alone among those that read the left event, and what
its `poll` saw is still there; and a thread at "dead" is at no stage that holds a
lock.  The count of waiters is a lower bound only, since waits that end early do
not take themselves off it: it covers those in `wait` and the dead (`Owed`).

**Receivers.** With futexes `NoStrandedReaders` is false of the code in
general, as the runs `aba` and `storebuffer` show.
`NoStrandedReadersUnlessFull` says that these two are all there is: without a
store buffer and with at least one receiver, in a behaviour in which the
committed messages never fill the ring to its last unit (`[]NeverFull`), it
holds.  `NoStrandedReadersHolds` puts a condition on the parameters in the
place of the one on the behaviour: `Measured(g)`, all messages occupy multiples
of `g` units, and the ring has no multiple of `g`.  Messages of one length that
does not divide the ring's are of this kind, those of `contention` with `g =
3`; that a write of one more word still fits keeps a callback from hiding the
error of a refused write and committing a part.

With event counters `NoStrandedReadersHolds` has no such condition: any
messages, any number of sends, with or without a store buffer, under
`NoOverflow` alone.  It says that `lapse` knows all the ways of losing a
receiver's wakeup.

Both invariants are about the receiver that looked last (`Looks`): when all
receivers are down, one of them saw the left offset that is still there, or one
or two mappings further on if the ring has wrapped since (`Behind`).  If a
message has come in the meantime, that receiver finds out when it compares, or
a sender is about to wake it.  With futexes this is because the right offset is
none of these values unless the ring is full (`SameMeansEmpty`), and one wake
is enough, because whoever is woken looks anew.  With event counters a receiver
that compares equal although there is a message is "deceived", one that takes
notifications for 0xDEAD "mistaken", and whoever else reads some looks anew; a
receiver that panics stays counted, so that the next `notify` writes one all
the same; and a commit that is still buffered when its sender goes on to unlock
has been "overtaken" by then (the second conjunct of `LookInv`).

`NamedFileHandshakeProofs`, for any processes, sizes and bounds: `TypeOK`,
`OneOwner`, `SizeIsFileSize`, `SetUpAlone`, `OwnerIsDoneUnlessFailed`,
`AllOrNothing` and `MappedUnderLock`.  The strengthening ties the lock a process
holds, and what it has mapped, to its stage (`LockOfStage`, `ViewOfStage`) and
says that an exclusive lock is alone (`ExclusiveAlone`), and that a file that is
not ready is shared by nobody while whoever waits for it waits for an owner
(`ReadyOrExclusive`).

`UdsMemfdHandshakeProofs`, for any processes, sizes, bounds and numbers of
descriptors: `TypeOK`, `OwnerIsDone` and `OneOwner`.  `OwnerIsDone` needs to know
what is on its way: `InboxInv` says that a message names a file that was made,
and a zeroed one if it is the last, which `mark_ready` sends.  `OneOwner` needs
more (`Alone`): the message that hands over a memory file is sent once
(`GivenOnce`); while it is on its way, or still to be sent, nobody has joined
(`GivenBefore`, `JoinersApart`).  A step moves messages forward in the streams;
`Old` states that each one there now was there before, some places later, and
`NobodyJoins` settles with it all steps but three: `Create`, `MarkReady` and
`ReceiveMemfd`.

`UdsMemfdStreamProofs`: `FdsInOrder`.  Its invariant describes the streams from end
to end (`FdsInv`).  The messages about a memory file have numbers; what a joiner
has taken out and what is still on its way to it are a prefix of them
(`StreamInv`), exactly those the owner has sent (`LinkedInv`), while the owner's own
descriptors are the first ones of its file (`OwnInv`).  That no other stream gets
in between is because a process is in one backlog at most and once
(`WaitingInv`), only of an owner at "accept", with nothing received so far
(`FreshInv`), and because only an owner at "accept" listens (`ListeningInv`).

Only model-checked: everything under fairness (`AllReceived`, `SendsReturn`,
`ReleasedLockIsTaken`, `HandshakeEnds`, `ReceivedUnlessLapse`, `SendsEnd`,
`StaleSocketIsRemoved`), which is out of the provers' reach, and the absence of
deadlock in `contention`.

## 6. Not modelled

Left out for good: `Stats`, the benchmarks and the examples (no state of their
own that the queue depends on), wording of errors, the `Read`/`Write` plumbing
of the standard library beyond `write_all`, and reorderings of processors
weaker than x86.

Callbacks that call the queue again: they need a stack of calls per thread.  A
recv callback that sends to its own queue takes the right lock inside the left
one, the reverse of what `write` does at a wrap; the source shows the deadlock
and no text promises its absence.  For this reason `MemeQueue` is listed as
partly modelled.

A process that dies with a lock in its hands is a thread that takes no more
steps, which every safety property allows for.  That the others then block is
not something the code claims to prevent.

The exact seconds of the timeouts, the size checks of `from_fd` (both handshakes
round up to whole pages), and descriptors running out.

What could come next: the repair of the second and third finding, a fence in
`notify`, for which the futex proof's condition on the buffer would go, and
"overtaken" with event counters; and a repair of the first one, a right offset
that does not come back (a count of commits for `futex_wait` to compare).
