------------------------ MODULE UdsMemfdHandshakeProofs ------------------------
(***************************************************************************)
(* What the socket handshake guarantees for every set of processes, sizes, *)
(* numbers of descriptors and bounds.                                      *)
(***************************************************************************)
EXTENDS UdsMemfdHandshake, SequenceTheorems, TLAPS

(* The stage of a process says what it has; a memory file that is sent as  *)
(* such, or held by a process about to send it, has been zeroed; and what  *)
(* is on its way names a file that exists.                                 *)
StageInv ==
  \A p \in Procs :
    /\ pc[p] \in {"create", "share", "markReady"} => owner[p]
    /\ owner[p] => pc[p] \in {"create", "share", "markReady", "using"}
    /\ pc[p] \in {"share", "markReady"} => memfd[p] # 0
    /\ pc[p] \notin {"share", "markReady", "using"} => memfd[p] = 0
    /\ pc[p] = "markReady" => memfds[memfd[p]].zeroed

FilesInv ==
  \A f \in 1 .. Len(memfds) : memfds[f].len >= HeaderPages

Sound(m) ==
  /\ m.fd[1] \in 1 .. Len(memfds)
  /\ m.payload = NEGOTIATION => memfds[m.fd[1]].zeroed

InboxInv ==
  \A p \in Procs : \A i \in 1 .. Len(inbox[p]) : Sound(inbox[p][i])

IInv == TypeOK /\ StageInv /\ FilesInv /\ InboxInv /\ OwnerIsDone

(* Memory files are only ever added or zeroed.                             *)
Grows ==
  /\ Len(memfds) <= Len(memfds')
  /\ \A f \in 1 .. Len(memfds) :
       /\ memfds'[f].len = memfds[f].len
       /\ memfds[f].zeroed => memfds'[f].zeroed

LEMMA InitIInv == Init => IInv
<1> SUFFICES ASSUME Init PROVE IInv
  OBVIOUS
<1>1. \A S : <<>> \in Seq(S) /\ Len(<<>>) = 0
  OBVIOUS
<1>2. TypeOK
  BY <1>1, BoundsAssumption DEF Init, TypeOK, Stages
<1> QED
  BY <1>1, <1>2 DEF Init, IInv, StageInv, FilesInv, InboxInv, OwnerIsDone

(* The streams of the others get over a process that closes its end.       *)
LEMMA CloseTypes ==
  ASSUME TypeOK, NEW p \in Procs, Close(p)
  PROVE  /\ path' = path /\ memfds' = memfds
         /\ listening' \subseteq Procs
         /\ backlog' \in [Procs -> Seq(Procs \cup {None})]
         /\ peer' \in [Procs -> Procs \cup {None}]
         /\ inbox' \in [Procs -> Seq(Messages)]
         /\ pc' \in [Procs -> Stages]
         /\ owner' \in [Procs -> BOOLEAN]
         /\ queue_size' \in [Procs -> Nat]
         /\ memfd' \in [Procs -> 0 .. Len(memfds')]
         /\ fds' \in [Procs -> Seq(Nat \X Nat)]
<1> USE DEF TypeOK, Close
<1>1. path' = path /\ memfds' = memfds /\ listening' \subseteq Procs
  OBVIOUS
<1>2. backlog' \in [Procs -> Seq(Procs \cup {None})]
  <2>1. ASSUME NEW q \in Procs
        PROVE  [k \in DOMAIN backlog[q] |->
                  IF backlog[q][k] = p THEN None ELSE backlog[q][k]]
                 \in Seq(Procs \cup {None})
    <3> DEFINE b(k) == IF backlog[q][k] = p THEN None ELSE backlog[q][k]
    <3>1. /\ Len(backlog[q]) \in Nat /\ DOMAIN backlog[q] = 1 .. Len(backlog[q])
          /\ \A k \in 1 .. Len(backlog[q]) : b(k) \in Procs \cup {None}
      BY LenProperties, ElementOfSeq
    <3> HIDE DEF b
    <3>2. [k \in 1 .. Len(backlog[q]) |-> b(k)] \in Seq(Procs \cup {None})
      BY <3>1
    <3> QED
      BY <3>1, <3>2 DEF b
  <2>2. <<>> \in Seq(Procs \cup {None})
    OBVIOUS
  <2> QED
    BY <2>1, <2>2
<1>3. peer' \in [Procs -> Procs \cup {None}]
  OBVIOUS
<1>4. inbox' \in [Procs -> Seq(Messages)] /\ fds' \in [Procs -> Seq(Nat \X Nat)]
  <2>1. <<>> \in Seq(Messages) /\ <<>> \in Seq(Nat \X Nat)
    OBVIOUS
  <2> QED
    BY <2>1
<1>5. pc' \in [Procs -> Stages]
  BY DEF Goto, Stages
<1>6. owner' \in [Procs -> BOOLEAN]
  BY Zenon
<1>7. queue_size' \in [Procs -> Nat]
  OBVIOUS
<1>8. memfd' \in [Procs -> 0 .. Len(memfds')]
  <2>1. 0 \in 0 .. Len(memfds) /\ memfd \in [Procs -> 0 .. Len(memfds)]
    BY LenProperties
  <2> QED
    BY <1>1, <2>1
<1> QED
  BY <1>1, <1>2, <1>3, <1>4, <1>5, <1>6, <1>7, <1>8

(* What Close does to the result of each process.                          *)
LEMMA Closed ==
  ASSUME TypeOK, NEW p \in Procs, Error(p) \/ Drop(p) \/ Fail(p)
  PROVE  /\ memfds' = memfds
         /\ \A q \in Procs :
              IF q = p
              THEN /\ pc'[q] = "idle" /\ owner'[q] = FALSE /\ memfd'[q] = 0
                   /\ queue_size'[q] = 0
              ELSE /\ pc'[q] = pc[q] /\ owner'[q] = owner[q]
                   /\ memfd'[q] = memfd[q] /\ queue_size'[q] = queue_size[q]
<1>1. Close(p)
  BY DEF Error, Drop, Fail
<1>2. /\ memfds' = memfds
      /\ pc' = [pc EXCEPT ![p] = "idle"]
      /\ owner' = [owner EXCEPT ![p] = FALSE]
      /\ memfd' = [memfd EXCEPT ![p] = 0]
      /\ queue_size' = [queue_size EXCEPT ![p] = 0]
  BY <1>1 DEF Close, Goto
<1> QED
  BY <1>2 DEF TypeOK

LEMMA ZeroedFile ==
  ASSUME TypeOK, NEW f \in 1 .. Len(memfds),
         memfds' = [memfds EXCEPT ![f].zeroed = TRUE]
  PROVE  /\ memfds' \in Seq([len : Nat, zeroed : BOOLEAN])
         /\ Len(memfds') = Len(memfds)
         /\ \A g \in 1 .. Len(memfds) :
              /\ memfds'[g].len = memfds[g].len
              /\ memfds[g].zeroed \/ g = f => memfds'[g].zeroed
<1> DEFINE Files == [len : Nat, zeroed : BOOLEAN]
           new == [memfds[f] EXCEPT !.zeroed = TRUE]
<1>1. memfds[f] \in Files
  BY ElementOfSeq DEF TypeOK
<1>2. new \in Files /\ new.len = memfds[f].len /\ new.zeroed
  BY <1>1
<1>3. memfds' = [memfds EXCEPT ![f] = new]
  OBVIOUS
<1> HIDE DEF new
<1> DEFINE file(g) == IF g = f THEN new ELSE memfds[g]
<1>4. Len(memfds) \in Nat /\ \A g \in 1 .. Len(memfds) : file(g) \in Files
  BY <1>2, LenProperties, ElementOfSeq DEF TypeOK
<1>5. memfds' = [g \in 1 .. Len(memfds) |-> file(g)]
  BY <1>3, LenProperties DEF TypeOK
<1> HIDE DEF file, Files
<1>6. memfds' \in Seq(Files) /\ Len(memfds') = Len(memfds)
  <2>1. [g \in 1 .. Len(memfds) |-> file(g)] \in Seq(Files)
    BY <1>4
  <2>2. Len([g \in 1 .. Len(memfds) |-> file(g)]) = Len(memfds)
    BY <1>4
  <2> QED
    BY <1>5, <2>1, <2>2
<1> QED
  BY <1>2, <1>5, <1>6 DEF file, Files

LEMMA SendTypes ==
  ASSUME TypeOK, NEW p \in Procs, NEW payload \in Nat, NEW f \in Nat,
         NEW k \in Nat, Send(p, payload, Fd(f, k))
  PROVE  inbox' \in [Procs -> Seq(Messages)]
<1>1. [payload |-> payload, fd |-> Fd(f, k)] \in Messages
  BY DEF Messages, Fd
<1>2. \A q \in Procs :
        Append(inbox[q], [payload |-> payload, fd |-> Fd(f, k)]) \in Seq(Messages)
  BY <1>1, AppendProperties DEF TypeOK
<1> QED
  BY <1>2 DEF TypeOK, Send

LEMMA ReceiveTypes ==
  ASSUME TypeOK, NEW p \in Procs, Receive(p)
  PROVE  /\ inbox' \in [Procs -> Seq(Messages)]
         /\ Head(inbox[p]) \in Messages
         /\ Head(inbox[p]) = inbox[p][1]
         /\ 1 \in 1 .. Len(inbox[p])
<1>1. inbox[p] \in Seq(Messages) /\ inbox[p] # <<>>
  BY DEF TypeOK, Receive
<1>2. /\ Head(inbox[p]) \in Messages /\ Tail(inbox[p]) \in Seq(Messages)
      /\ Head(inbox[p]) = inbox[p][1] /\ 1 \in 1 .. Len(inbox[p])
  BY <1>1, HeadTailProperties, EmptySeq, LenProperties
<1> QED
  BY <1>2 DEF TypeOK, Receive

LEMMA TypeStep == IInv /\ [Next]_vars => TypeOK'
<1> SUFFICES ASSUME IInv, [Next]_vars PROVE TypeOK'
  OBVIOUS
<1> USE SizesAssumption, BoundsAssumption
    DEF IInv, TypeOK, Stages, Goto, sockets, streams, result, bounds
<1>1. ASSUME NEW p \in Procs, NEW n \in Sizes, Call(p, n) PROVE TypeOK'
  <2>1. queue_size' \in [Procs -> Nat] /\ calls' \in 0 .. MaxCalls
    BY <1>1 DEF Call
  <2>2. pc' \in [Procs -> Stages]
    BY <1>1 DEF Call
  <2> QED
    BY <1>1, <2>1, <2>2 DEF Call
<1>2. ASSUME NEW p \in Procs, Bind(p) PROVE TypeOK'
  BY <1>2 DEF Bind
<1>3. ASSUME NEW p \in Procs, AddrInUse(p) PROVE TypeOK'
  BY <1>3 DEF AddrInUse
<1>4. ASSUME NEW p \in Procs, Listen(p) PROVE TypeOK'
  BY <1>4 DEF Listen
<1>5. ASSUME NEW p \in Procs, Accept(p) PROVE TypeOK'
  <2>1. Head(backlog[p]) \in Procs \cup {None}
    BY <1>5, HeadTailProperties DEF Accept
  <2>2. peer' \in [Procs -> Procs \cup {None}]
    BY <1>5, <2>1 DEF Accept
  <2>3. backlog' \in [Procs -> Seq(Procs \cup {None})]
    BY <1>5 DEF Accept
  <2>4. owner' \in [Procs -> BOOLEAN]
    BY <1>5, Zenon DEF Accept
  <2> QED
    BY <1>5, <2>2, <2>3, <2>4 DEF Accept
<1>6. ASSUME NEW p \in Procs, Connect(p) PROVE TypeOK'
  <2>1. path \in Procs /\ Append(backlog[path], p) \in Seq(Procs \cup {None})
    BY <1>6, AppendProperties DEF Connect
  <2>2. backlog' \in [Procs -> Seq(Procs \cup {None})]
    BY <1>6, <2>1 DEF Connect
  <2>3. peer' \in [Procs -> Procs \cup {None}] /\ pc' \in [Procs -> Stages]
    BY <1>6, <2>1 DEF Connect
  <2> QED
    BY <1>6, <2>2, <2>3 DEF Connect
<1>7. ASSUME NEW p \in Procs, Remove(p) PROVE TypeOK'
  BY <1>7 DEF Remove
<1>8. ASSUME NEW p \in Procs, Create(p) PROVE TypeOK'
  <2>1. /\ memfds' \in Seq([len : Nat, zeroed : BOOLEAN])
        /\ Len(memfds') = Len(memfds) + 1 /\ Len(memfds) \in Nat
    <3>1. [len |-> HeaderPages + queue_size[p], zeroed |-> FALSE]
            \in [len : Nat, zeroed : BOOLEAN]
      BY DEF HeaderPages
    <3> QED
      BY <1>8, <3>1, AppendProperties, LenProperties DEF Create
  <2>2. memfd' \in [Procs -> 0 .. Len(memfds')]
    BY <1>8, <2>1 DEF Create
  <2> QED
    BY <1>8, <2>1, <2>2 DEF Create
<1>9. ASSUME NEW p \in Procs, SendFd(p) PROVE TypeOK'
  <2> DEFINE next == Len(fds[p]) + 1
  <2>1. next \in Nat /\ memfd[p] \in Nat
    BY LenProperties
  <2>2. inbox' \in [Procs -> Seq(Messages)]
    BY <1>9, <2>1, SendTypes DEF SendFd
  <2>3. fds' \in [Procs -> Seq(Nat \X Nat)]
    <3>1. Append(fds[p], Fd(memfd[p], next)) \in Seq(Nat \X Nat)
      BY <2>1, AppendProperties DEF Fd
    <3> QED
      BY <1>9, <3>1 DEF SendFd
  <2> QED
    BY <1>9, <2>2, <2>3 DEF SendFd
<1>10. ASSUME NEW p \in Procs, ZeroHeader(p) PROVE TypeOK'
  <2>1. memfd[p] \in 1 .. Len(memfds)
    BY <1>10, LenProperties DEF ZeroHeader, StageInv
  <2>2. /\ memfds' \in Seq([len : Nat, zeroed : BOOLEAN])
        /\ Len(memfds') = Len(memfds)
    BY <1>10, <2>1, ZeroedFile DEF ZeroHeader
  <2> QED
    BY <1>10, <2>2 DEF ZeroHeader
<1>11. ASSUME NEW p \in Procs, MarkReady(p) PROVE TypeOK'
  <2>1. inbox' \in [Procs -> Seq(Messages)]
    <3>1. memfd[p] \in Nat /\ NEGOTIATION \in Nat
      BY LenProperties DEF NEGOTIATION
    <3>2. Send(p, NEGOTIATION, Fd(memfd[p], 0))
      BY <1>11 DEF MarkReady
    <3> HIDE DEF TypeOK
    <3> QED
      BY <3>1, <3>2, SendTypes
  <2> QED
    BY <1>11, <2>1 DEF MarkReady
<1>12. ASSUME NEW p \in Procs, ReceiveFd(p) PROVE TypeOK'
  <2>1. inbox' \in [Procs -> Seq(Messages)] /\ Head(inbox[p]) \in Messages
    BY <1>12, ReceiveTypes DEF ReceiveFd
  <2>2. fds' \in [Procs -> Seq(Nat \X Nat)]
    <3>1. Append(fds[p], Head(inbox[p]).fd) \in Seq(Nat \X Nat)
      BY <2>1, AppendProperties DEF Messages
    <3> QED
      BY <1>12, <3>1 DEF ReceiveFd
  <2> QED
    BY <1>12, <2>1, <2>2 DEF ReceiveFd, Receive
<1>13. ASSUME NEW p \in Procs, ReceiveMemfd(p) PROVE TypeOK'
  <2> DEFINE f == Head(inbox[p]).fd[1]
  <2>1. inbox' \in [Procs -> Seq(Messages)] /\ f \in 1 .. Len(memfds)
    BY <1>13, ReceiveTypes DEF ReceiveMemfd, InboxInv, Sound
  <2> HIDE DEF f
  <2>2. memfds[f].len - HeaderPages \in Nat
    <3>1. memfds[f] \in [len : Nat, zeroed : BOOLEAN]
      BY <2>1, ElementOfSeq
    <3>2. memfds[f].len \in Nat /\ memfds[f].len >= HeaderPages
      BY <2>1, <3>1 DEF FilesInv
    <3> HIDE DEF IInv, TypeOK
    <3> QED
      BY <3>2 DEF HeaderPages
  <2>3. queue_size' \in [Procs -> Nat] /\ memfd' \in [Procs -> 0 .. Len(memfds)]
    <3>1. f \in 0 .. Len(memfds)
      BY <2>1
    <3> QED
      BY <1>13, <2>2, <3>1 DEF ReceiveMemfd, f
  <2> QED
    BY <1>13, <2>1, <2>3 DEF ReceiveMemfd
<1>14. ASSUME NEW p \in Procs, Error(p) PROVE TypeOK'
  BY <1>14, CloseTypes DEF Error
<1>15. ASSUME NEW p \in Procs, Drop(p) PROVE TypeOK'
  BY <1>15, CloseTypes DEF Drop
<1>16. ASSUME NEW p \in Procs, Fail(p) PROVE TypeOK'
  <2>1. failures' \in 0 .. MaxFailures
    BY <1>16 DEF Fail
  <2> QED
    BY <1>16, <2>1, CloseTypes DEF Fail
<1>17. CASE UNCHANGED vars
  BY <1>17 DEF vars
<1> QED
  BY <1>1, <1>2, <1>3, <1>4, <1>5, <1>6, <1>7, <1>8, <1>9, <1>10, <1>11, <1>12, <1>13, <1>14, <1>15, <1>16, <1>17 DEF Next, Step

LEMMA FilesStep == IInv /\ [Next]_vars => Grows /\ FilesInv'
<1> SUFFICES ASSUME IInv, [Next]_vars PROVE Grows /\ FilesInv'
  OBVIOUS
<1>0. Len(memfds) \in Nat
  BY LenProperties DEF IInv, TypeOK
<1>1. ASSUME NEW p \in Procs, Create(p) PROVE Grows /\ FilesInv'
  <2> DEFINE new == [len |-> HeaderPages + queue_size[p], zeroed |-> FALSE]
  <2>1. new.len >= HeaderPages
    BY DEF IInv, TypeOK, HeaderPages
  <2>2. new \in [len : Nat, zeroed : BOOLEAN]
    BY DEF IInv, TypeOK, HeaderPages
  <2>3. memfds' = Append(memfds, new)
    BY <1>1 DEF Create
  <2> HIDE DEF new
  <2>4. /\ Len(memfds') = Len(memfds) + 1
        /\ memfds'[Len(memfds) + 1] = new
        /\ \A f \in 1 .. Len(memfds) : memfds'[f] = memfds[f]
    BY <2>2, <2>3, AppendProperties DEF IInv, TypeOK
  <2> QED
    BY <1>0, <2>1, <2>4 DEF IInv, Grows, FilesInv
<1>2. ASSUME NEW p \in Procs, ZeroHeader(p) PROVE Grows /\ FilesInv'
  <2>1. memfd[p] \in 1 .. Len(memfds)
    BY <1>0, <1>2 DEF IInv, TypeOK, StageInv, ZeroHeader
  <2> QED
    BY <1>0, <1>2, <2>1, ZeroedFile DEF IInv, ZeroHeader, Grows, FilesInv
<1>3. CASE UNCHANGED memfds
  BY <1>0, <1>3 DEF IInv, Grows, FilesInv
<1> QED
  BY <1>1, <1>2, <1>3 DEF Next, Step, vars, Call, Bind, AddrInUse, Listen,
     Accept, Connect, Remove, SendFd, MarkReady, ReceiveFd, ReceiveMemfd,
     Error, Drop, Fail, Close

LEMMA StageStep == IInv /\ [Next]_vars => StageInv'
<1> SUFFICES ASSUME IInv, [Next]_vars PROVE StageInv'
  OBVIOUS
<1>0. Len(memfds) \in Nat /\ Grows
  BY FilesStep, LenProperties DEF IInv, TypeOK
<1> USE DEF IInv, TypeOK, Stages, StageInv, Goto, sockets, streams, result,
            bounds
<1>1. ASSUME NEW p \in Procs, NEW n \in Sizes, Call(p, n) PROVE StageInv'
  BY <1>1 DEF Call
<1>2. ASSUME NEW p \in Procs, Bind(p) PROVE StageInv'
  BY <1>2 DEF Bind
<1>3. ASSUME NEW p \in Procs, AddrInUse(p) PROVE StageInv'
  BY <1>3 DEF AddrInUse
<1>4. ASSUME NEW p \in Procs, Listen(p) PROVE StageInv'
  BY <1>4 DEF Listen
<1>5. ASSUME NEW p \in Procs, Accept(p) PROVE StageInv'
  BY <1>5 DEF Accept
<1>6. ASSUME NEW p \in Procs, Connect(p) PROVE StageInv'
  BY <1>6 DEF Connect
<1>7. ASSUME NEW p \in Procs, Remove(p) PROVE StageInv'
  BY <1>7 DEF Remove
<1>8. ASSUME NEW p \in Procs, Create(p) PROVE StageInv'
  <2>1. /\ pc[p] = "create" /\ pc' = [pc EXCEPT ![p] = "share"]
        /\ owner' = owner /\ memfd' = [memfd EXCEPT ![p] = Len(memfds')]
    BY <1>8 DEF Create
  <2>2. Len(memfds') # 0
    <3> DEFINE new == [len |-> HeaderPages + queue_size[p], zeroed |-> FALSE]
    <3>1. new \in [len : Nat, zeroed : BOOLEAN] /\ memfds' = Append(memfds, new)
      BY <1>8 DEF Create, HeaderPages
    <3> HIDE DEF new
    <3> QED
      BY <1>0, <3>1, AppendProperties
  <2>3. \A q \in Procs \ {p} :
          /\ pc'[q] = pc[q] /\ owner'[q] = owner[q] /\ memfd'[q] = memfd[q]
          /\ pc[q] = "markReady" => memfds'[memfd[q]].zeroed
    <3>1. \A q \in Procs : pc[q] = "markReady" => memfd[q] \in 1 .. Len(memfds)
      BY <1>0
    <3> QED
      BY <1>0, <2>1, <3>1 DEF Grows
  <2>4. /\ pc'[p] = "share" /\ owner'[p] /\ memfd'[p] = Len(memfds')
    BY <2>1
  <2>5. StageInv
    OBVIOUS
  <2> HIDE DEF TypeOK, IInv
  <2> QED
    BY <2>2, <2>3, <2>4, <2>5
<1>9. ASSUME NEW p \in Procs, SendFd(p) PROVE StageInv'
  BY <1>9 DEF SendFd
<1>10. ASSUME NEW p \in Procs, ZeroHeader(p) PROVE StageInv'
  <2>1. memfd[p] \in 1 .. Len(memfds)
    BY <1>0, <1>10 DEF ZeroHeader
  <2>2. memfds'[memfd[p]].zeroed
    BY <1>10, <2>1, ZeroedFile DEF ZeroHeader
  <2>3. \A q \in Procs : pc[q] = "markReady" => memfds'[memfd[q]].zeroed
    <3>1. \A q \in Procs : pc[q] = "markReady" => memfd[q] \in 1 .. Len(memfds)
      BY <1>0
    <3> QED
      BY <1>0, <3>1 DEF Grows
  <2> QED
    BY <1>10, <2>2, <2>3 DEF ZeroHeader
<1>11. ASSUME NEW p \in Procs, MarkReady(p) PROVE StageInv'
  BY <1>11 DEF MarkReady
<1>12. ASSUME NEW p \in Procs, ReceiveFd(p) PROVE StageInv'
  BY <1>12 DEF ReceiveFd
<1>13. ASSUME NEW p \in Procs, ReceiveMemfd(p) PROVE StageInv'
  BY <1>13 DEF ReceiveMemfd
<1>14. ASSUME NEW p \in Procs, Error(p) \/ Drop(p) \/ Fail(p) PROVE StageInv'
  <2>1. TypeOK /\ StageInv
    OBVIOUS
  <2> HIDE DEF TypeOK, IInv
  <2> QED
    BY <1>14, <2>1, Closed
<1>15. CASE UNCHANGED vars
  BY <1>15 DEF vars
<1> QED
  BY <1>1, <1>2, <1>3, <1>4, <1>5, <1>6, <1>7, <1>8, <1>9, <1>10, <1>11, <1>12, <1>13, <1>14, <1>15 DEF Next, Step

LEMMA OwnerIsDoneStep == IInv /\ [Next]_vars => OwnerIsDone'
<1> SUFFICES ASSUME IInv, [Next]_vars PROVE OwnerIsDone'
  OBVIOUS
<1>0. Len(memfds) \in Nat /\ Grows
  BY FilesStep, LenProperties DEF IInv, TypeOK
<1>00. \A q \in Procs : memfd[q] # 0 =>
          /\ memfd[q] \in 1 .. Len(memfds)
          /\ memfds'[memfd[q]].len = HeaderPages + queue_size[q]
          /\ ~owner[q] => memfds'[memfd[q]].zeroed
  <2>1. \A q \in Procs : memfd[q] # 0 => memfd[q] \in 1 .. Len(memfds)
    BY <1>0 DEF IInv, TypeOK
  <2> QED
    BY <1>0, <2>1 DEF IInv, OwnerIsDone, Grows
<1> USE DEF IInv, TypeOK, StageInv, OwnerIsDone, Goto, sockets, streams, result,
            bounds
<1>1. ASSUME NEW p \in Procs, NEW n \in Sizes, Call(p, n) PROVE OwnerIsDone'
  BY <1>1 DEF Call
<1>2. ASSUME NEW p \in Procs, Bind(p) PROVE OwnerIsDone'
  BY <1>2 DEF Bind
<1>3. ASSUME NEW p \in Procs, AddrInUse(p) PROVE OwnerIsDone'
  BY <1>3 DEF AddrInUse
<1>4. ASSUME NEW p \in Procs, Listen(p) PROVE OwnerIsDone'
  BY <1>4 DEF Listen
<1>5. ASSUME NEW p \in Procs, Accept(p) PROVE OwnerIsDone'
  BY <1>5 DEF Accept
<1>6. ASSUME NEW p \in Procs, Connect(p) PROVE OwnerIsDone'
  BY <1>6 DEF Connect
<1>7. ASSUME NEW p \in Procs, Remove(p) PROVE OwnerIsDone'
  BY <1>7 DEF Remove
<1>8. ASSUME NEW p \in Procs, Create(p) PROVE OwnerIsDone'
  <2> DEFINE new == [len |-> HeaderPages + queue_size[p], zeroed |-> FALSE]
  <2>1. new \in [len : Nat, zeroed : BOOLEAN]
    BY DEF HeaderPages
  <2>2. memfds' = Append(memfds, new) /\ memfd' = [memfd EXCEPT ![p] = Len(memfds')]
    BY <1>8 DEF Create
  <2>3. new.len = HeaderPages + queue_size[p]
    OBVIOUS
  <2> HIDE DEF new
  <2>4. Len(memfds') = Len(memfds) + 1 /\ memfds'[Len(memfds) + 1] = new
    BY <2>1, <2>2, AppendProperties
  <2>5. owner[p] /\ owner' = owner /\ queue_size' = queue_size
    BY <1>8 DEF Create
  <2> QED
    BY <1>00, <2>2, <2>3, <2>4, <2>5
<1>9. ASSUME NEW p \in Procs, SendFd(p) PROVE OwnerIsDone'
  BY <1>9 DEF SendFd
<1>10. ASSUME NEW p \in Procs, ZeroHeader(p) PROVE OwnerIsDone'
  BY <1>00, <1>10 DEF ZeroHeader
<1>11. ASSUME NEW p \in Procs, MarkReady(p) PROVE OwnerIsDone'
  BY <1>11 DEF MarkReady
<1>12. ASSUME NEW p \in Procs, ReceiveFd(p) PROVE OwnerIsDone'
  BY <1>12 DEF ReceiveFd
<1>13. ASSUME NEW p \in Procs, ReceiveMemfd(p) PROVE OwnerIsDone'
  <2> DEFINE m == Head(inbox[p])
  <2>1. m.fd[1] \in 1 .. Len(memfds) /\ memfds[m.fd[1]].zeroed
    BY <1>13, ReceiveTypes DEF ReceiveMemfd, InboxInv, Sound
  <2> DEFINE f == m.fd[1]
             n == memfds[f].len - HeaderPages
  <2>2. f \in 1 .. Len(memfds) /\ memfds[f].zeroed
    BY <2>1
  <2>3. /\ memfd' = [memfd EXCEPT ![p] = f]
        /\ queue_size' = [queue_size EXCEPT ![p] = n]
        /\ memfds' = memfds /\ owner' = owner
    BY <1>13 DEF ReceiveMemfd
  <2> HIDE DEF f, m
  <2>4. memfds[f].len = HeaderPages + n
    <3>1. memfds[f] \in [len : Nat, zeroed : BOOLEAN]
      BY <2>2, ElementOfSeq
    <3> QED
      BY <3>1 DEF HeaderPages
  <2> HIDE DEF n
  <2> QED
    BY <2>2, <2>3, <2>4
<1>14. ASSUME NEW p \in Procs, Error(p) \/ Drop(p) \/ Fail(p) PROVE OwnerIsDone'
  <2>1. TypeOK /\ OwnerIsDone
    OBVIOUS
  <2> HIDE DEF TypeOK, IInv, StageInv
  <2> QED
    BY <1>14, <2>1, Closed
<1>15. CASE UNCHANGED vars
  BY <1>15 DEF vars
<1> QED
  BY <1>1, <1>2, <1>3, <1>4, <1>5, <1>6, <1>7, <1>8, <1>9, <1>10, <1>11, <1>12, <1>13, <1>14, <1>15 DEF Next, Step

(* Sound in the next state, of a message of either state.                  *)
SoundAfter(m) ==
  /\ m.fd[1] \in 1 .. Len(memfds')
  /\ m.payload = NEGOTIATION => memfds'[m.fd[1]].zeroed

(* A message that is sent, if it names a zeroed file as NEGOTIATION does,  *)
(* leaves all that is on its way sound.                                    *)
LEMMA SendInbox ==
  ASSUME IInv, Grows, NEW p \in Procs, NEW payload \in Nat, NEW k \in Nat,
         Send(p, payload, Fd(memfd[p], k)),
         memfd[p] \in 1 .. Len(memfds),
         payload = NEGOTIATION => memfds[memfd[p]].zeroed,
         Len(memfds) \in Nat, Len(memfds') \in Nat
  PROVE  InboxInv'
<1> DEFINE m == [payload |-> payload, fd |-> Fd(memfd[p], k)]
<1>1. m \in Messages /\ m.payload = payload /\ m.fd[1] = memfd[p]
  BY DEF Messages, Fd
<1>2. inbox' = [inbox EXCEPT ![peer[p]] = Append(@, m)]
  BY DEF Send
<1> HIDE DEF m
<1>3. SoundAfter(m)
  BY <1>1 DEF SoundAfter, Grows
<1>4. ASSUME NEW q \in Procs, NEW i \in 1 .. Len(inbox'[q])
      PROVE  SoundAfter(inbox'[q][i])
  <2>1. inbox[q] \in Seq(Messages) /\ Len(inbox[q]) \in Nat
    BY LenProperties DEF IInv, TypeOK
  <2>2. ASSUME i \in 1 .. Len(inbox[q]), inbox'[q][i] = inbox[q][i]
        PROVE  SoundAfter(inbox'[q][i])
    <3>1. Sound(inbox[q][i])
      BY <2>2 DEF IInv, InboxInv
    <3>2. Len(memfds) <= Len(memfds')
      BY DEF Grows
    <3> DEFINE f == inbox[q][i].fd[1]
    <3>3. f \in 1 .. Len(memfds) /\ f \in 1 .. Len(memfds')
      BY <3>1, <3>2 DEF Sound
    <3>4. inbox[q][i].payload = NEGOTIATION => memfds'[f].zeroed
      BY <3>1, <3>3 DEF Sound, Grows
    <3> QED
      BY <2>2, <3>3, <3>4 DEF SoundAfter
  <2>3. CASE inbox'[q] = inbox[q]
    BY <2>2, <2>3
  <2>4. CASE inbox'[q] = Append(inbox[q], m)
    <3>1. /\ i \in 1 .. Len(inbox[q]) + 1
          /\ i <= Len(inbox[q]) => inbox'[q][i] = inbox[q][i]
          /\ i = Len(inbox[q]) + 1 => inbox'[q][i] = m
      BY <1>1, <2>1, <2>4, AppendProperties
    <3> QED
      BY <1>3, <2>1, <2>2, <3>1
  <2> QED
    BY <1>2, <2>3, <2>4 DEF IInv, TypeOK
<1> QED
  BY <1>4 DEF InboxInv, Sound, SoundAfter

(* Streams that only lose messages stay sound.                             *)
LEMMA ShrinkInbox ==
  ASSUME IInv, memfds' = memfds,
         \A q \in Procs : inbox'[q] \in {inbox[q], Tail(inbox[q]), <<>>},
         \A q \in Procs : inbox'[q] = Tail(inbox[q]) => inbox'[q] = inbox[q] \/ inbox[q] # <<>>
  PROVE  InboxInv'
<1> SUFFICES ASSUME NEW q \in Procs, NEW i \in 1 .. Len(inbox'[q])
             PROVE  SoundAfter(inbox'[q][i])
  BY DEF InboxInv, Sound, SoundAfter
<1>1. inbox[q] \in Seq(Messages) /\ Len(inbox[q]) \in Nat
  BY LenProperties DEF IInv, TypeOK
<1>2. ASSUME NEW j \in 1 .. Len(inbox[q]), inbox'[q][i] = inbox[q][j]
      PROVE  SoundAfter(inbox'[q][i])
  BY <1>2 DEF IInv, InboxInv, Sound, SoundAfter
<1>3. CASE inbox'[q] = inbox[q]
  BY <1>2, <1>3
<1>4. CASE inbox'[q] = Tail(inbox[q]) /\ inbox[q] # <<>>
  <2>1. /\ Len(inbox'[q]) = Len(inbox[q]) - 1
        /\ \A j \in 1 .. Len(inbox'[q]) : inbox'[q][j] = inbox[q][j + 1]
    BY <1>1, <1>4, HeadTailProperties
  <2>2. i + 1 \in 1 .. Len(inbox[q]) /\ inbox'[q][i] = inbox[q][i + 1]
    BY <1>1, <2>1
  <2> QED
    BY <1>2, <2>2
<1>5. CASE inbox'[q] = <<>>
  BY <1>5
<1> QED
  BY <1>3, <1>4, <1>5

LEMMA InboxStep == IInv /\ [Next]_vars => InboxInv'
<1> SUFFICES ASSUME IInv, [Next]_vars PROVE InboxInv'
  OBVIOUS
<1>0. Len(memfds) \in Nat /\ Len(memfds') \in Nat /\ Grows
  BY FilesStep, TypeStep, LenProperties DEF IInv, TypeOK
<1>1. ASSUME UNCHANGED inbox PROVE InboxInv'
  <2> SUFFICES ASSUME NEW q \in Procs, NEW i \in 1 .. Len(inbox[q])
               PROVE  SoundAfter(inbox[q][i])
    BY <1>1 DEF InboxInv, Sound, SoundAfter
  <2>1. Sound(inbox[q][i])
    BY DEF IInv, InboxInv
  <2>2. Len(memfds) <= Len(memfds')
    BY <1>0 DEF Grows
  <2> QED
    BY <1>0, <2>1, <2>2 DEF Sound, SoundAfter, Grows
<1>2. ASSUME NEW p \in Procs,
             \/ \E n \in Sizes : Call(p, n)
             \/ Bind(p) \/ AddrInUse(p) \/ Listen(p) \/ Accept(p)
             \/ Connect(p) \/ Remove(p) \/ Create(p) \/ ZeroHeader(p)
      PROVE  InboxInv'
  BY <1>1, <1>2 DEF Call, Bind, AddrInUse, Listen, Accept, Connect, Remove,
                    Create, ZeroHeader, streams
<1>3. ASSUME NEW p \in Procs, SendFd(p) PROVE InboxInv'
  <2> DEFINE next == Len(fds[p]) + 1
  <2>1. next \in Nat /\ next # NEGOTIATION
    BY LenProperties DEF IInv, TypeOK, NEGOTIATION
  <2>2. memfd[p] \in 1 .. Len(memfds)
    BY <1>0, <1>3 DEF SendFd, IInv, TypeOK, StageInv
  <2>3. Send(p, next, Fd(memfd[p], next))
    BY <1>3 DEF SendFd
  <2> HIDE DEF next
  <2> QED
    BY <1>0, <2>1, <2>2, <2>3, SendInbox
<1>4. ASSUME NEW p \in Procs, MarkReady(p) PROVE InboxInv'
  <2>1. memfd[p] \in 1 .. Len(memfds) /\ memfds[memfd[p]].zeroed
    BY <1>0, <1>4 DEF MarkReady, IInv, TypeOK, StageInv
  <2>2. Send(p, NEGOTIATION, Fd(memfd[p], 0)) /\ NEGOTIATION \in Nat
    BY <1>4 DEF MarkReady, NEGOTIATION
  <2> QED
    BY <1>0, <2>1, <2>2, SendInbox
<1>5. ASSUME NEW p \in Procs, ReceiveFd(p) \/ ReceiveMemfd(p) PROVE InboxInv'
  <2>1. Receive(p) /\ memfds' = memfds
    BY <1>5 DEF ReceiveFd, ReceiveMemfd
  <2> QED
    BY <2>1, ShrinkInbox DEF Receive, IInv, TypeOK
<1>6. ASSUME NEW p \in Procs, Error(p) \/ Drop(p) \/ Fail(p) PROVE InboxInv'
  <2>1. Close(p)
    BY <1>6 DEF Error, Drop, Fail
  <2>2. memfds' = memfds /\ \A q \in Procs : inbox'[q] \in {inbox[q], <<>>}
    BY <2>1 DEF Close, IInv, TypeOK
  <2>3. \A q \in Procs : inbox[q] \in Seq(Messages)
    BY DEF IInv, TypeOK
  <2> QED
    BY <2>2, <2>3, ShrinkInbox
<1>7. CASE UNCHANGED vars
  BY <1>1, <1>7 DEF vars, streams
<1> QED
  BY <1>2, <1>3, <1>4, <1>5, <1>6, <1>7 DEF Next, Step

LEMMA IInvHolds == Spec => []IInv
<1>1. IInv /\ [Next]_vars => IInv'
  BY TypeStep, StageStep, FilesStep, InboxStep, OwnerIsDoneStep DEF IInv
<1> QED
  BY InitIInv, <1>1, PTL DEF Spec

(***************************************************************************)
(* One owner and one joiner per memory file.  The file itself is sent only *)
(* once: as long as the message is on its way nobody has joined, and an    *)
(* owner that has yet to send it has no joiner.                            *)
(***************************************************************************)
Given(q, i) == inbox[q][i].payload = NEGOTIATION

OwnersApart ==
  \A p, q \in Procs :
    memfd[p] # 0 /\ memfd[p] = memfd[q] /\ owner[p] /\ owner[q] => p = q

JoinersApart ==
  \A p, q \in Procs :
    memfd[p] # 0 /\ memfd[p] = memfd[q] /\ ~owner[p] /\ p # q =>
      owner[q] /\ pc[q] = "using"

GivenBefore ==
  \A p, q \in Procs : \A i \in 1 .. Len(inbox[p]) :
    Given(p, i) /\ inbox[p][i].fd[1] = memfd[q] => owner[q] /\ pc[q] = "using"

GivenOnce ==
  \A p, q \in Procs : \A i \in 1 .. Len(inbox[p]) : \A j \in 1 .. Len(inbox[q]) :
    /\ Given(p, i) /\ Given(q, j)
    /\ inbox[p][i].fd[1] = inbox[q][j].fd[1]
    => p = q /\ i = j

Alone == OwnersApart /\ JoinersApart /\ GivenBefore /\ GivenOnce

(* Each memory file that is on its way now was so before, d places later.  *)
Old(d) ==
  /\ d \in [Procs -> Nat]
  /\ \A q \in Procs : \A i \in 1 .. Len(inbox'[q]) :
       inbox'[q][i].payload = NEGOTIATION =>
         /\ i + d[q] \in 1 .. Len(inbox[q])
         /\ inbox'[q][i] = inbox[q][i + d[q]]

LEMMA OldOnce ==
  ASSUME IInv, Alone, NEW d, Old(d)
  PROVE  GivenOnce'
<1> SUFFICES ASSUME NEW p \in Procs, NEW q \in Procs,
                    NEW i \in 1 .. Len(inbox'[p]), NEW j \in 1 .. Len(inbox'[q]),
                    inbox'[p][i].payload = NEGOTIATION,
                    inbox'[q][j].payload = NEGOTIATION,
                    inbox'[p][i].fd[1] = inbox'[q][j].fd[1]
             PROVE  p = q /\ i = j
  BY DEF GivenOnce, Given
<1>1. /\ i + d[p] \in 1 .. Len(inbox[p]) /\ inbox'[p][i] = inbox[p][i + d[p]]
      /\ j + d[q] \in 1 .. Len(inbox[q]) /\ inbox'[q][j] = inbox[q][j + d[q]]
  BY DEF Old
<1>2. p = q /\ i + d[p] = j + d[q]
  BY <1>1 DEF Alone, GivenOnce, Given
<1> QED
  BY <1>2 DEF Old

(* A step that gives no memory file to anybody.                            *)
LEMMA NobodyJoins ==
  ASSUME IInv, Alone, NEW d, Old(d),
         \A q \in Procs : memfd'[q] # 0 =>
           /\ memfd'[q] = memfd[q] /\ owner'[q] = owner[q]
           /\ pc[q] = "using" => pc'[q] = "using"
  PROVE  Alone'
<1>1. OwnersApart' /\ JoinersApart'
  BY DEF Alone, OwnersApart, JoinersApart
<1>2. GivenBefore'
  <2> SUFFICES ASSUME NEW p \in Procs, NEW q \in Procs,
                      NEW i \in 1 .. Len(inbox'[p]),
                      inbox'[p][i].payload = NEGOTIATION,
                      inbox'[p][i].fd[1] = memfd'[q]
               PROVE  owner'[q] /\ pc'[q] = "using"
    BY DEF GivenBefore, Given
  <2>1. /\ i + d[p] \in 1 .. Len(inbox[p])
        /\ inbox'[p][i] = inbox[p][i + d[p]]
    BY DEF Old
  <2>2. memfd'[q] # 0
    BY <2>1 DEF IInv, InboxInv, Sound
  <2> QED
    BY <2>1, <2>2 DEF Alone, GivenBefore, Given
<1> QED
  BY <1>1, <1>2, OldOnce DEF Alone

(* Streams that only lose messages, or get one that gives no memory file.  *)
LEMMA OldKept ==
  ASSUME IInv, \A q \in Procs : inbox'[q] \in {inbox[q], <<>>}
  PROVE  Old([q \in Procs |-> 0])
<1> SUFFICES ASSUME NEW q \in Procs, NEW i \in 1 .. Len(inbox'[q])
             PROVE  i + 0 \in 1 .. Len(inbox[q]) /\ inbox'[q][i] = inbox[q][i + 0]
  BY DEF Old
<1>1. Len(inbox[q]) \in Nat
  BY LenProperties DEF IInv, TypeOK
<1>2. inbox'[q] = inbox[q]
  OBVIOUS
<1> QED
  BY <1>1, <1>2

LEMMA OldReceived ==
  ASSUME IInv, NEW p \in Procs, Receive(p)
  PROVE  Old([q \in Procs |-> IF q = p THEN 1 ELSE 0])
<1> DEFINE d == [q \in Procs |-> IF q = p THEN 1 ELSE 0]
<1> SUFFICES ASSUME NEW q \in Procs, NEW i \in 1 .. Len(inbox'[q])
             PROVE  i + d[q] \in 1 .. Len(inbox[q]) /\ inbox'[q][i] = inbox[q][i + d[q]]
  BY DEF Old
<1>1. inbox[q] \in Seq(Messages) /\ Len(inbox[q]) \in Nat
  BY LenProperties DEF IInv, TypeOK
<1>2. CASE q = p
  <2>1. inbox'[q] = Tail(inbox[q]) /\ inbox[q] # <<>>
    BY <1>2 DEF Receive, IInv, TypeOK
  <2>2. /\ Len(inbox'[q]) = Len(inbox[q]) - 1
        /\ \A j \in 1 .. Len(inbox'[q]) : inbox'[q][j] = inbox[q][j + 1]
    BY <1>1, <2>1, HeadTailProperties
  <2> QED
    BY <1>1, <1>2, <2>2
<1>3. CASE q # p
  BY <1>1, <1>3 DEF Receive, IInv, TypeOK
<1> QED
  BY <1>2, <1>3

(* What a message that is sent adds to a stream.                           *)
LEMMA Sent ==
  ASSUME IInv, NEW p \in Procs, NEW payload \in Nat, NEW k \in Nat,
         Send(p, payload, Fd(memfd[p], k))
  PROVE  \A q \in Procs :
           /\ Len(inbox[q]) \in Nat
           /\ Len(inbox'[q]) =
                Len(inbox[q]) + (IF q = peer[p] THEN 1 ELSE 0)
           /\ \A i \in 1 .. Len(inbox[q]) : inbox'[q][i] = inbox[q][i]
           /\ q = peer[p] =>
                /\ inbox'[q][Len(inbox[q]) + 1].payload = payload
                /\ inbox'[q][Len(inbox[q]) + 1].fd[1] = memfd[p]
<1> DEFINE m == [payload |-> payload, fd |-> Fd(memfd[p], k)]
<1>1. m \in Messages /\ m.payload = payload /\ m.fd[1] = memfd[p]
  <2>1. memfd[p] \in Nat
    BY LenProperties DEF IInv, TypeOK
  <2> QED
    BY <2>1 DEF Messages, Fd
<1>2. inbox' = [inbox EXCEPT ![peer[p]] = Append(@, m)]
  BY DEF Send
<1> HIDE DEF m
<1> SUFFICES ASSUME NEW q \in Procs
             PROVE  /\ Len(inbox[q]) \in Nat
                    /\ Len(inbox'[q]) =
                         Len(inbox[q]) + (IF q = peer[p] THEN 1 ELSE 0)
                    /\ \A i \in 1 .. Len(inbox[q]) : inbox'[q][i] = inbox[q][i]
                    /\ q = peer[p] =>
                         /\ inbox'[q][Len(inbox[q]) + 1].payload = payload
                         /\ inbox'[q][Len(inbox[q]) + 1].fd[1] = memfd[p]
  OBVIOUS
<1>3. inbox[q] \in Seq(Messages) /\ Len(inbox[q]) \in Nat
  BY LenProperties DEF IInv, TypeOK
<1>4. CASE q = peer[p]
  <2>1. inbox'[q] = Append(inbox[q], m)
    BY <1>2, <1>4 DEF IInv, TypeOK
  <2>2. /\ Len(inbox'[q]) = Len(inbox[q]) + 1
        /\ \A i \in 1 .. Len(inbox[q]) : inbox'[q][i] = inbox[q][i]
        /\ inbox'[q][Len(inbox[q]) + 1] = m
    BY <1>1, <1>3, <2>1, AppendProperties
  <2> QED
    BY <1>1, <1>3, <1>4, <2>2
<1>5. CASE q # peer[p]
  BY <1>2, <1>3, <1>5 DEF IInv, TypeOK
<1> QED
  BY <1>4, <1>5

LEMMA AloneStep == IInv /\ Alone /\ [Next]_vars => Alone'
<1> SUFFICES ASSUME IInv, Alone, [Next]_vars PROVE Alone'
  OBVIOUS
<1>0. /\ Len(memfds) \in Nat
      /\ \A q \in Procs : memfd[q] \in 0 .. Len(memfds)
      /\ \A q \in Procs : \A i \in 1 .. Len(inbox[q]) :
           inbox[q][i].fd[1] \in 1 .. Len(memfds)
  BY LenProperties DEF IInv, TypeOK, InboxInv, Sound
<1> DEFINE Same(q) == /\ memfd'[q] = memfd[q] /\ owner'[q] = owner[q]
                      /\ pc[q] = "using" => pc'[q] = "using"
<1>1. ASSUME \A q \in Procs : inbox'[q] \in {inbox[q], <<>>},
             \A q \in Procs : memfd'[q] # 0 => Same(q)
      PROVE  Alone'
  BY <1>1, OldKept, NobodyJoins
<1>2. ASSUME NEW p \in Procs,
             \/ \E n \in Sizes : Call(p, n)
             \/ Bind(p) \/ AddrInUse(p) \/ Listen(p) \/ Accept(p)
             \/ Connect(p) \/ Remove(p) \/ ZeroHeader(p)
      PROVE  Alone'
  <2>1. inbox' = inbox
    BY <1>2 DEF Call, Bind, AddrInUse, Listen, Accept, Connect, Remove,
                ZeroHeader, streams
  <2>2. \A q \in Procs : memfd'[q] # 0 => Same(q)
    BY <1>2 DEF Call, Bind, AddrInUse, Listen, Accept, Connect, Remove,
                ZeroHeader, result, Goto, IInv, TypeOK, StageInv
  <2> QED
    BY <1>1, <2>1, <2>2
<1>3. ASSUME NEW p \in Procs, Create(p) PROVE Alone'
  <2>1. /\ inbox' = inbox /\ owner' = owner
        /\ pc' = [pc EXCEPT ![p] = "share"] /\ pc[p] = "create"
        /\ memfd' = [memfd EXCEPT ![p] = Len(memfds) + 1]
    <3>1. Len(memfds') = Len(memfds) + 1
      <4> DEFINE new == [len |-> HeaderPages + queue_size[p], zeroed |-> FALSE]
      <4>1. new \in [len : Nat, zeroed : BOOLEAN]
        BY DEF HeaderPages, IInv, TypeOK
      <4>2. memfds' = Append(memfds, new)
        BY <1>3 DEF Create
      <4> HIDE DEF new
      <4> QED
        BY <4>1, <4>2, AppendProperties DEF IInv, TypeOK
    <3> QED
      BY <1>3, <3>1 DEF Create, Goto, streams
  <2>2. /\ memfd'[p] = Len(memfds) + 1 /\ owner[p]
        /\ \A q \in Procs \ {p} : memfd'[q] = memfd[q] /\ pc'[q] = pc[q]
    BY <2>1 DEF IInv, TypeOK, StageInv
  <2>3. OwnersApart' /\ JoinersApart'
    BY <1>0, <2>1, <2>2 DEF Alone, OwnersApart, JoinersApart
  <2>4. GivenBefore' /\ GivenOnce'
    BY <1>0, <2>1, <2>2 DEF Alone, GivenBefore, GivenOnce, Given
  <2> QED
    BY <2>3, <2>4 DEF Alone
<1>4. ASSUME NEW p \in Procs, SendFd(p) PROVE Alone'
  <2> DEFINE next == Len(fds[p]) + 1
             d == [q \in Procs |-> 0]
  <2>1. next \in Nat /\ next # NEGOTIATION
    BY LenProperties DEF IInv, TypeOK, NEGOTIATION
  <2>2. Send(p, next, Fd(memfd[p], next))
    BY <1>4 DEF SendFd
  <2> HIDE DEF next
  <2>30. \A q \in Procs :
           /\ Len(inbox[q]) \in Nat
           /\ Len(inbox'[q]) =
                Len(inbox[q]) + (IF q = peer[p] THEN 1 ELSE 0)
           /\ \A i \in 1 .. Len(inbox[q]) : inbox'[q][i] = inbox[q][i]
           /\ q = peer[p] =>
                /\ inbox'[q][Len(inbox[q]) + 1].payload = next
                /\ inbox'[q][Len(inbox[q]) + 1].fd[1] = memfd[p]
    BY <2>1, <2>2, Sent
  <2>3. ASSUME NEW q \in Procs, NEW i \in 1 .. Len(inbox'[q]),
               inbox'[q][i].payload = NEGOTIATION
        PROVE  i + 0 \in 1 .. Len(inbox[q]) /\ inbox'[q][i] = inbox[q][i + 0]
    <3>1. /\ Len(inbox[q]) \in Nat
          /\ Len(inbox'[q]) = Len(inbox[q]) + (IF q = peer[p] THEN 1 ELSE 0)
          /\ \A j \in 1 .. Len(inbox[q]) : inbox'[q][j] = inbox[q][j]
          /\ q = peer[p] => inbox'[q][Len(inbox[q]) + 1].payload = next
      BY <2>30
    <3>2. i \in 1 .. Len(inbox[q])
      <4>1. CASE q = peer[p]
        <5>1. i \in 1 .. Len(inbox[q]) + 1
          BY <3>1, <4>1
        <5>2. i # Len(inbox[q]) + 1
          BY <2>1, <2>3, <3>1, <4>1
        <5> QED
          BY <3>1, <5>1, <5>2
      <4>2. CASE q # peer[p]
        BY <3>1, <4>2
      <4> QED
        BY <4>1, <4>2
    <3> QED
      BY <3>1, <3>2
  <2>4. Old(d)
    BY <2>3 DEF Old
  <2>5. UNCHANGED <<memfd, owner, pc>>
    BY <1>4 DEF SendFd
  <2> HIDE DEF d
  <2> QED
    BY <2>4, <2>5, NobodyJoins
<1>5. ASSUME NEW p \in Procs, MarkReady(p) PROVE Alone'
  <2>1. /\ memfd' = memfd /\ owner' = owner
        /\ pc' = [pc EXCEPT ![p] = "using"] /\ pc[p] = "markReady"
        /\ owner[p] /\ memfd[p] # 0
    BY <1>5 DEF MarkReady, Goto, result, IInv, StageInv
  <2>2. Send(p, NEGOTIATION, Fd(memfd[p], 0)) /\ NEGOTIATION \in Nat
    BY <1>5 DEF MarkReady, NEGOTIATION
  <2>3. \A q \in Procs : pc[q] = "using" \/ q = p => pc'[q] = "using"
    BY <2>1 DEF IInv, TypeOK
  <2>4. OwnersApart' /\ JoinersApart'
    BY <2>1, <2>3 DEF Alone, OwnersApart, JoinersApart
  <2>5. ASSUME NEW q \in Procs, memfd[q] = memfd[p]
        PROVE  q = p
    BY <2>1, <2>5 DEF Alone, OwnersApart, JoinersApart
  <2>6. ASSUME NEW q \in Procs, NEW i \in 1 .. Len(inbox[q]), Given(q, i)
        PROVE  inbox[q][i].fd[1] # memfd[p]
    BY <2>1, <2>6 DEF Alone, GivenBefore
  <2>30. \A q \in Procs :
           /\ Len(inbox[q]) \in Nat
           /\ Len(inbox'[q]) =
                Len(inbox[q]) + (IF q = peer[p] THEN 1 ELSE 0)
           /\ \A i \in 1 .. Len(inbox[q]) : inbox'[q][i] = inbox[q][i]
           /\ q = peer[p] =>
                /\ inbox'[q][Len(inbox[q]) + 1].payload = NEGOTIATION
                /\ inbox'[q][Len(inbox[q]) + 1].fd[1] = memfd[p]
    BY <2>1, <2>2, Sent
  <2>7. ASSUME NEW q \in Procs, NEW i \in 1 .. Len(inbox'[q])
        PROVE  \/ i \in 1 .. Len(inbox[q]) /\ inbox'[q][i] = inbox[q][i]
               \/ /\ q = peer[p] /\ i = Len(inbox[q]) + 1
                  /\ inbox'[q][i].fd[1] = memfd[p]
    <3>1. /\ Len(inbox[q]) \in Nat
          /\ Len(inbox'[q]) = Len(inbox[q]) + (IF q = peer[p] THEN 1 ELSE 0)
          /\ \A j \in 1 .. Len(inbox[q]) : inbox'[q][j] = inbox[q][j]
          /\ q = peer[p] => inbox'[q][Len(inbox[q]) + 1].fd[1] = memfd[p]
      BY <2>30
    <3>2. CASE q = peer[p]
      BY <3>1, <3>2
    <3>3. CASE q # peer[p]
      BY <3>1, <3>3
    <3> QED
      BY <3>2, <3>3
  <2>8. GivenBefore'
    BY <2>1, <2>3, <2>5, <2>7 DEF Alone, GivenBefore, Given
  <2>9. GivenOnce'
    <3> SUFFICES ASSUME NEW q \in Procs, NEW r \in Procs,
                        NEW i \in 1 .. Len(inbox'[q]),
                        NEW j \in 1 .. Len(inbox'[r]),
                        inbox'[q][i].payload = NEGOTIATION,
                        inbox'[r][j].payload = NEGOTIATION,
                        inbox'[q][i].fd[1] = inbox'[r][j].fd[1]
                 PROVE  q = r /\ i = j
      BY DEF GivenOnce, Given
    <3>1. CASE inbox'[q][i].fd[1] = memfd[p]
      <4>0. ASSUME NEW t \in Procs, NEW k \in 1 .. Len(inbox'[t]),
                   inbox'[t][k].payload = NEGOTIATION,
                   inbox'[t][k].fd[1] = memfd[p]
            PROVE  t = peer[p] /\ k = Len(inbox[t]) + 1
        <5>1. CASE k \in 1 .. Len(inbox[t]) /\ inbox'[t][k] = inbox[t][k]
          BY <2>6, <4>0, <5>1 DEF Given
        <5>2. CASE t = peer[p] /\ k = Len(inbox[t]) + 1
          BY <5>2
        <5> QED
          BY <2>7, <5>1, <5>2
      <4>1. q = peer[p] /\ i = Len(inbox[q]) + 1
        BY <3>1, <4>0
      <4>2. r = peer[p] /\ j = Len(inbox[r]) + 1
        BY <3>1, <4>0
      <4> QED
        BY <4>1, <4>2
    <3>2. CASE inbox'[q][i].fd[1] # memfd[p]
      <4>1. /\ i \in 1 .. Len(inbox[q]) /\ inbox'[q][i] = inbox[q][i]
            /\ j \in 1 .. Len(inbox[r]) /\ inbox'[r][j] = inbox[r][j]
        BY <2>7, <3>2
      <4> QED
        BY <4>1 DEF Alone, GivenOnce, Given
    <3> QED
      BY <3>1, <3>2
  <2> QED
    BY <2>4, <2>8, <2>9 DEF Alone
<1>6. ASSUME NEW p \in Procs, ReceiveFd(p) PROVE Alone'
  <2>1. Receive(p) /\ UNCHANGED <<memfd, owner, pc>>
    BY <1>6 DEF ReceiveFd
  <2> QED
    BY <2>1, OldReceived, NobodyJoins
<1>7. ASSUME NEW p \in Procs, ReceiveMemfd(p) PROVE Alone'
  <2> DEFINE f == Head(inbox[p]).fd[1]
             d == [q \in Procs |-> IF q = p THEN 1 ELSE 0]
  <2>1. /\ 1 \in 1 .. Len(inbox[p]) /\ Given(p, 1) /\ f = inbox[p][1].fd[1]
        /\ Receive(p)
    BY <1>7, ReceiveTypes DEF ReceiveMemfd, Given, IInv
  <2>2. /\ memfd' = [memfd EXCEPT ![p] = f] /\ owner' = owner /\ ~owner[p]
        /\ pc' = [pc EXCEPT ![p] = "using"]
    BY <1>7 DEF ReceiveMemfd, Receive, Goto, IInv, StageInv
  <2> HIDE DEF f
  <2>3. Old(d) /\ \A q \in Procs : d[q] = IF q = p THEN 1 ELSE 0
    BY <2>1, OldReceived
  <2> HIDE DEF d
  <2>4. /\ memfd'[p] = f /\ pc'[p] = "using"
        /\ \A q \in Procs \ {p} : memfd'[q] = memfd[q] /\ pc'[q] = pc[q]
    BY <2>2 DEF IInv, TypeOK
  <2>5. \A q \in Procs \ {p} :
          memfd[q] = f => owner[q] /\ pc[q] = "using"
    BY <2>1 DEF Alone, GivenBefore
  <2>6. OwnersApart' /\ JoinersApart'
    BY <2>2, <2>4, <2>5 DEF Alone, OwnersApart, JoinersApart
  <2>7. GivenBefore'
    <3> SUFFICES ASSUME NEW q \in Procs, NEW r \in Procs,
                        NEW i \in 1 .. Len(inbox'[q]),
                        inbox'[q][i].payload = NEGOTIATION,
                        inbox'[q][i].fd[1] = memfd'[r]
                 PROVE  owner'[r] /\ pc'[r] = "using"
      BY DEF GivenBefore, Given
    <3>1. /\ i + d[q] \in 1 .. Len(inbox[q]) /\ d[q] \in Nat
          /\ inbox'[q][i] = inbox[q][i + d[q]]
      BY <2>3 DEF Old
    <3>2. inbox[q][i + d[q]].fd[1] # f
      <4>1. q = p => i + d[q] # 1
        BY <2>3
      <4> QED
        BY <2>1, <3>1, <4>1 DEF Alone, GivenOnce, Given
    <3> QED
      BY <2>2, <2>4, <3>1, <3>2 DEF Alone, GivenBefore, Given
  <2>8. GivenOnce'
    BY <2>3, OldOnce
  <2> QED
    BY <2>6, <2>7, <2>8 DEF Alone
<1>8. ASSUME NEW p \in Procs, Error(p) \/ Drop(p) \/ Fail(p) PROVE Alone'
  <2>1. Close(p)
    BY <1>8 DEF Error, Drop, Fail
  <2>2. \A q \in Procs : inbox'[q] \in {inbox[q], <<>>}
    BY <2>1 DEF Close, IInv, TypeOK
  <2>3. \A q \in Procs : memfd'[q] # 0 => Same(q)
    BY <2>1 DEF Close, Goto, IInv, TypeOK
  <2> QED
    BY <1>1, <2>2, <2>3
<1>9. CASE UNCHANGED vars
  BY <1>1, <1>9 DEF vars, streams, result
<1> QED
  BY <1>2, <1>3, <1>4, <1>5, <1>6, <1>7, <1>8, <1>9 DEF Next, Step

(* The kernel's state and that of the processes stay within their types:   *)
(* whatever arrives is a message, and names a memory file that was made.   *)
THEOREM TypeCorrect == Spec => []TypeOK
<1>1. IInv => TypeOK
  BY DEF IInv
<1> QED
  BY IInvHolds, <1>1, PTL

(* Whoever holds a memory file knows its size, and holds it as a joiner    *)
(* only after its owner has zeroed the header.                             *)
THEOREM OwnerIsDoneHolds == Spec => []OwnerIsDone
<1>1. IInv => OwnerIsDone
  BY DEF IInv
<1> QED
  BY IInvHolds, <1>1, PTL

(* However many processes race for the path, fail and come again: of those *)
(* that hold the same memory file exactly one is the owner.                *)
THEOREM OneOwnerHolds == Spec => []OneOwner
<1>1. Init => Alone
  BY DEF Init, Alone, OwnersApart, JoinersApart, GivenBefore, GivenOnce
<1>2. Alone => OneOwner
  BY DEF Alone, OwnersApart, JoinersApart, OneOwner
<1> QED
  BY IInvHolds, AloneStep, <1>1, <1>2, PTL DEF Spec
==============================================================================
