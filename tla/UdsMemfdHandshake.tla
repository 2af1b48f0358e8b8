--------------------------- MODULE UdsMemfdHandshake ---------------------------
(***************************************************************************)
(* How two processes agree on a queue in anonymous memory: uds_memfd and   *)
(* its exchange of descriptors (src/src/handshake/uds_memfd.rs), with what *)
(* with_config and EventFdControl::new do in between.  Whoever binds the   *)
(* path owns the queue and accepts one connection; whoever finds the path  *)
(* taken connects, removes the path, and takes descriptors from the stream *)
(* until the one of the queue itself arrives, which mark_ready sends last. *)
(***************************************************************************)
EXTENDS Integers, Sequences

CONSTANTS
  Procs,            \* the processes that call uds_memfd on one path
  None,             \* no process
  Sizes,            \* the queue sizes they ask for, in pages
  NumFds,           \* how many descriptors Control::new exchanges
  MaxCalls,         \* bound on the number of calls of uds_memfd
  MaxFailures       \* bound on the number of failed calls and dead processes

ASSUME NoneAssumption == None \notin Procs
ASSUME SizesAssumption == Sizes \subseteq Nat \ {0}
ASSUME BoundsAssumption ==
  NumFds \in Nat /\ MaxCalls \in Nat /\ MaxFailures \in Nat

VARIABLES
  (* the kernel *)
  path,             \* whose socket is at the path, dead or alive
  listening,        \* the processes whose listener is open
  backlog,          \* the connections that each listener has yet to accept
  peer,             \* the process at the other end of each one's stream
  inbox,            \* the messages in that stream, on their way to it
  memfds,           \* all the memory files made so far
  (* the processes *)
  pc,               \* how far each has come
  owner,            \* UdsMemfdHandshakeResult::owner
  queue_size,       \* UdsMemfdHandshakeResult::queue_size, in pages
  memfd,            \* UdsMemfdHandshakeResult::file, as an index of memfds
  fds,              \* the descriptors exchanged, exchange_fd_counter of them
  (* bounds *)
  calls, failures

sockets == <<path, listening, backlog>>
streams == <<peer, inbox>>
result == <<owner, queue_size, memfd, fds>>
bounds == <<calls, failures>>
vars == <<sockets, streams, memfds, pc, result, bounds>>

Stages ==
  {"idle", "bind", "listen", "accept", "create", "share", "markReady",
   "connect", "remove", "receive", "using"}

NEGOTIATION == 0

\* The k-th descriptor that goes with memory file f; f itself is the 0-th.
Fd(f, k) == <<f, k>>

Messages == [payload : Nat, fd : Nat \X Nat]

TypeOK ==
  /\ path \in Procs \cup {None}
  /\ listening \subseteq Procs
  /\ backlog \in [Procs -> Seq(Procs \cup {None})]
  /\ peer \in [Procs -> Procs \cup {None}]
  /\ inbox \in [Procs -> Seq(Messages)]
  /\ memfds \in Seq([len : Nat, zeroed : BOOLEAN])
  /\ pc \in [Procs -> Stages]
  /\ owner \in [Procs -> BOOLEAN]
  /\ queue_size \in [Procs -> Nat]
  /\ memfd \in [Procs -> 0 .. Len(memfds)]
  /\ fds \in [Procs -> Seq(Nat \X Nat)]
  /\ calls \in 0 .. MaxCalls
  /\ failures \in 0 .. MaxFailures

Init ==
  /\ path = None
  /\ listening = {}
  /\ backlog = [p \in Procs |-> <<>>]
  /\ peer = [p \in Procs |-> None]
  /\ inbox = [p \in Procs |-> <<>>]
  /\ memfds = <<>>
  /\ pc = [p \in Procs |-> "idle"]
  /\ owner = [p \in Procs |-> FALSE]
  /\ queue_size = [p \in Procs |-> 0]
  /\ memfd = [p \in Procs |-> 0]
  /\ fds = [p \in Procs |-> <<>>]
  /\ calls = 0
  /\ failures = 0

HeaderPages == 1

Goto(p, stage) == pc' = [pc EXCEPT ![p] = stage]

\* An error is returned, the result is dropped or the process is gone: its
\* listener and its end of the stream are closed.  What has been sent stays
\* readable, and a path that it has bound stays bound.
Close(p) ==
  /\ Goto(p, "idle")
  /\ listening' = listening \ {p}
  /\ backlog' = [q \in Procs |->
       IF q = p THEN <<>>
       ELSE [i \in DOMAIN backlog[q] |->
               IF backlog[q][i] = p THEN None ELSE backlog[q][i]]]
  /\ peer' = [q \in Procs |-> IF p \in {q, peer[q]} THEN None ELSE peer[q]]
  /\ inbox' = [inbox EXCEPT ![p] = <<>>]
  /\ owner' = [owner EXCEPT ![p] = FALSE]
  /\ queue_size' = [queue_size EXCEPT ![p] = 0]
  /\ memfd' = [memfd EXCEPT ![p] = 0]
  /\ fds' = [fds EXCEPT ![p] = <<>>]
  /\ UNCHANGED <<path, memfds>>

-----------------------------------------------------------------------------
(* uds_memfd: who is the owner *)

Call(p, n) ==
  /\ pc[p] = "idle"
  /\ calls < MaxCalls
  /\ calls' = calls + 1
  /\ queue_size' = [queue_size EXCEPT ![p] = n]
  /\ Goto(p, "bind")
  /\ UNCHANGED <<sockets, streams, memfds, owner, memfd, fds, failures>>

\* UnixListener::bind: the socket is at the path before it listens.
Bind(p) ==
  /\ pc[p] = "bind"
  /\ path = None
  /\ path' = p
  /\ Goto(p, "listen")
  /\ UNCHANGED <<listening, backlog, streams, memfds, result, bounds>>

\* A faulty uds_memfd that takes everybody for the owner.
MutAddrInUse(p) ==
  /\ pc[p] = "bind"
  /\ path # None
  /\ owner' = [owner EXCEPT ![p] = TRUE]
  /\ Goto(p, "connect")
  /\ UNCHANGED <<sockets, streams, memfds, queue_size, memfd, fds, bounds>>

AddrInUse(p) ==
  /\ pc[p] = "bind"
  /\ path # None
  /\ Goto(p, "connect")
  /\ UNCHANGED <<sockets, streams, memfds, result, bounds>>

Listen(p) ==
  /\ pc[p] = "listen"
  /\ listening' = listening \cup {p}
  /\ Goto(p, "accept")
  /\ UNCHANGED <<path, backlog, streams, memfds, result, bounds>>

\* A faulty owner that keeps its listener.
MutDropped(p) == {}

\* The connections that nobody will accept once p's listener is dropped.
Dropped(p) == {backlog[p][i] : i \in 2 .. Len(backlog[p])}

\* accept returns the first connection, whose other end may be closed by now,
\* and the listener is dropped.
Accept(p) ==
  /\ pc[p] = "accept"
  /\ backlog[p] # <<>>
  /\ peer' = [q \in Procs |-> IF q = p THEN Head(backlog[p])
                              ELSE IF q \in Dropped(p) THEN None
                              ELSE peer[q]]
  /\ backlog' = [backlog EXCEPT ![p] = <<>>]
  /\ listening' = listening \ {p}
  /\ owner' = [owner EXCEPT ![p] = TRUE]
  /\ Goto(p, "create")
  /\ UNCHANGED <<path, inbox, memfds, queue_size, memfd, fds, bounds>>

\* connect does not wait to be accepted.
Connect(p) ==
  /\ pc[p] = "connect"
  /\ path \in listening
  /\ backlog' = [backlog EXCEPT ![path] = Append(@, p)]
  /\ peer' = [peer EXCEPT ![p] = path]
  /\ Goto(p, "remove")
  /\ UNCHANGED <<path, listening, inbox, memfds, result, bounds>>

\* A faulty joiner that leaves the path alone.
MutRemove(p) ==
  /\ pc[p] = "remove"
  /\ Goto(p, "receive")
  /\ UNCHANGED <<sockets, streams, memfds, result, bounds>>

\* remove_file, whoever's socket it is by now.
Remove(p) ==
  /\ pc[p] = "remove"
  /\ path # None
  /\ path' = None
  /\ Goto(p, "receive")
  /\ UNCHANGED <<listening, backlog, streams, memfds, result, bounds>>

-----------------------------------------------------------------------------
(* The owner *)

\* A faulty owner that forgets set_len.
MutCreate(p) ==
  /\ pc[p] = "create"
  /\ memfds' = Append(memfds, [len |-> 0, zeroed |-> FALSE])
  /\ memfd' = [memfd EXCEPT ![p] = Len(memfds')]
  /\ Goto(p, "share")
  /\ UNCHANGED <<sockets, streams, owner, queue_size, fds, bounds>>

\* memfd_create and set_len.
Create(p) ==
  /\ pc[p] = "create"
  /\ memfds' =
       Append(memfds, [len |-> HeaderPages + queue_size[p], zeroed |-> FALSE])
  /\ memfd' = [memfd EXCEPT ![p] = Len(memfds')]
  /\ Goto(p, "share")
  /\ UNCHANGED <<sockets, streams, owner, queue_size, fds, bounds>>

Send(p, payload, fd) ==
  /\ peer[p] # None
  /\ inbox' = [inbox EXCEPT ![peer[p]] =
                 Append(@, [payload |-> payload, fd |-> fd])]

\* Control::new sends its next descriptor; send_fd numbers them from 1.
SendFd(p) ==
  LET next == Len(fds[p]) + 1
  IN  /\ pc[p] = "share"
      /\ next <= NumFds
      /\ Send(p, next, Fd(memfd[p], next))
      /\ fds' = [fds EXCEPT ![p] = Append(@, Fd(memfd[p], next))]
      /\ UNCHANGED <<sockets, peer, memfds, pc, owner, queue_size, memfd, bounds>>

\* Control::new zeroes the header.
ZeroHeader(p) ==
  /\ pc[p] = "share"
  /\ Len(fds[p]) = NumFds
  /\ memfds' = [memfds EXCEPT ![memfd[p]].zeroed = TRUE]
  /\ Goto(p, "markReady")
  /\ UNCHANGED <<sockets, streams, result, bounds>>

\* A faulty with_config that marks the queue ready before Control::new.
MutMarkReady(p) ==
  /\ pc[p] = "share"
  /\ Len(fds[p]) = NumFds
  /\ Send(p, NEGOTIATION, Fd(memfd[p], 0))
  /\ Goto(p, "using")
  /\ UNCHANGED <<sockets, peer, memfds, result, bounds>>

MarkReady(p) ==
  /\ pc[p] = "markReady"
  /\ Send(p, NEGOTIATION, Fd(memfd[p], 0))
  /\ Goto(p, "using")
  /\ UNCHANGED <<sockets, peer, memfds, result, bounds>>

-----------------------------------------------------------------------------
(* The joiner *)

\* The next message, and what is left in the stream behind it.
Receive(p) ==
  /\ pc[p] = "receive"
  /\ inbox[p] # <<>>
  /\ inbox' = [inbox EXCEPT ![p] = Tail(@)]

\* A faulty queue of descriptors that is a stack.
MutReceiveFd(p) ==
  LET m == Head(inbox[p])
  IN  /\ Receive(p)
      /\ m.payload = Len(fds[p]) + 1
      /\ fds' = [fds EXCEPT ![p] = <<m.fd>> \o @]
      /\ UNCHANGED <<sockets, peer, memfds, pc, owner, queue_size, memfd, bounds>>

\* A descriptor with the payload that is expected next is queued; any other
\* payload would be an error (FdsInOrder).
ReceiveFd(p) ==
  LET m == Head(inbox[p])
  IN  /\ Receive(p)
      /\ m.payload = Len(fds[p]) + 1
      /\ fds' = [fds EXCEPT ![p] = Append(@, m.fd)]
      /\ UNCHANGED <<sockets, peer, memfds, pc, owner, queue_size, memfd, bounds>>

\* The memory file itself: its length says how large the queue is.  Then
\* Control::new takes its descriptors from recv_fd_queue, oldest first.
ReceiveMemfd(p) ==
  LET m == Head(inbox[p])
      f == m.fd[1]
  IN  /\ Receive(p)
      /\ m.payload = NEGOTIATION
      /\ memfd' = [memfd EXCEPT ![p] = f]
      /\ queue_size' = [queue_size EXCEPT ![p] = memfds[f].len - HeaderPages]
      /\ Goto(p, "using")
      /\ UNCHANGED <<sockets, peer, memfds, owner, fds, bounds>>

-----------------------------------------------------------------------------
(* The end *)

\* There is no socket to connect to, or one that does not listen (yet).
Refused(p) == pc[p] = "connect" /\ path \notin listening

\* Somebody else has removed it.
NotFound(p) == pc[p] = "remove" /\ path = None

\* Nobody is at the other end to send to, or to receive from.
BrokenPipe(p) ==
  /\ peer[p] = None
  /\ \/ pc[p] = "share" /\ Len(fds[p]) < NumFds
     \/ pc[p] = "markReady"
     \/ pc[p] = "receive" /\ inbox[p] = <<>>

\* A system call fails because of what others have done.
Error(p) ==
  /\ Refused(p) \/ NotFound(p) \/ BrokenPipe(p)
  /\ Close(p)
  /\ UNCHANGED bounds

\* A MemeQueue is dropped.
Drop(p) ==
  /\ pc[p] = "using"
  /\ Close(p)
  /\ UNCHANGED bounds

\* Any other system call of uds_memfd, from_fd or Control::new fails and its
\* error is returned, or the process dies, wherever it is.
Fail(p) ==
  /\ pc[p] # "idle"
  /\ failures < MaxFailures
  /\ failures' = failures + 1
  /\ Close(p)
  /\ UNCHANGED calls

Step(p) ==
  \/ Bind(p) \/ AddrInUse(p) \/ Listen(p) \/ Accept(p)
  \/ Connect(p) \/ Remove(p) \/ ReceiveFd(p) \/ ReceiveMemfd(p)
  \/ Create(p) \/ SendFd(p) \/ ZeroHeader(p) \/ MarkReady(p) \/ Error(p)

Next == \E p \in Procs :
  \/ \E n \in Sizes : Call(p, n)
  \/ Step(p) \/ Drop(p) \/ Fail(p)

Spec == Init /\ [][Next]_vars

(***************************************************************************)
(* Fairness: a process inside uds_memfd or with_config that can go on      *)
(* does.  Nobody is obliged to call, to drop a queue, or to fail.          *)
(***************************************************************************)
FairSpec == Spec /\ \A p \in Procs : WF_vars(Step(p))

-----------------------------------------------------------------------------
(* Properties. *)

(* "is_owner must be true for only one side at a time" (the contract of    *)
(* HandshakeResult in src/src/handshake.rs): of two processes that hold    *)
(* the same memory file one is the owner, so there is never a third.       *)
OneOwner ==
  \A p, q \in Procs :
    memfd[p] # 0 /\ memfd[p] = memfd[q] /\ p # q => owner[p] # owner[q]

(* A joiner gets the memory file only after its owner has zeroed the       *)
(* header, whoever fails or dies on the way; and with the size it has.     *)
OwnerIsDone ==
  \A p \in Procs : memfd[p] # 0 =>
    /\ memfds[memfd[p]].len = HeaderPages + queue_size[p]
    /\ ~owner[p] => memfds[memfd[p]].zeroed

(* The descriptors that Control::new finds are all there and are those of  *)
(* the owner of the same memory file, in its order: left and right events  *)
(* are not swapped, nor mixed up with those of another pair or attempt;    *)
(* and no joiner is ever sent a payload that it would reject.              *)
FdsInOrder ==
  \A p \in Procs :
    /\ pc[p] \in {"markReady", "using"} =>
         fds[p] = [k \in 1 .. NumFds |-> Fd(memfd[p], k)]
    /\ pc[p] = "receive" /\ inbox[p] # <<>> =>
         Head(inbox[p]).payload \in {NEGOTIATION, Len(fds[p]) + 1}

InCall(p) == pc[p] \notin {"idle", "using", "accept"}

(* Every call of uds_memfd and with_config ends, in a queue or an error,   *)
(* except that an owner waits in accept for as long as nobody connects.    *)
HandshakeEnds ==
  \A p \in Procs : InCall(p) ~> ~InCall(p)

\* The socket at the path belongs to nobody who will accept.
Stale == path # None /\ pc[path] \notin {"listen", "accept"}

(* A socket whose listener is gone does not block the path for ever, as    *)
(* long as no call has failed and no process died: its joiner removes it.  *)
StaleSocketIsRemoved == failures = 0 /\ Stale ~> failures > 0 \/ ~Stale

(* An owner waits for a joiner that can come: its socket is at the path,   *)
(* or somebody has connected already.                                      *)
AcceptorReachable ==
  \A p \in Procs : failures = 0 /\ pc[p] = "accept" =>
    path = p \/ backlog[p] # <<>>
==============================================================================
