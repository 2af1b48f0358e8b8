------------------------- MODULE UdsMemfdStreamProofs ------------------------
(***************************************************************************)
(* The descriptors of the socket handshake, for every set of processes and *)
(* number of descriptors.  A stream carries the messages about one memory  *)
(* file, in the order of their numbers, from an owner to the one joiner    *)
(* that it has accepted: what has been taken out of the stream and what is *)
(* still in it are together what the owner has sent.  Nobody else can send *)
(* into it, since a process waits in one backlog at most, and there once.  *)
(***************************************************************************)
EXTENDS UdsMemfdHandshakeProofs

Joining == {"remove", "receive"}
Sending == {"create", "share", "markReady"}

\* The k-th message about memory file f: its descriptors, then f itself.
Message(f, k) ==
  IF k <= NumFds THEN [payload |-> k, fd |-> Fd(f, k)]
                 ELSE [payload |-> NEGOTIATION, fd |-> Fd(f, 0)]

Describe(got, f) == \A i \in 1 .. Len(got) : got[i] = Fd(f, i)

\* Of the messages about f, got have been received and coming are next.
Carries(got, coming, f) ==
  /\ Describe(got, f)
  /\ Len(got) <= NumFds
  /\ Len(got) + Len(coming) <= NumFds + 1
  /\ \A i \in 1 .. Len(coming) : coming[i] = Message(f, Len(got) + i)

ListeningInv == \A p \in listening : pc[p] = "accept"

\* The i-th connection in the backlog of p, as long as it is not closed.
Waits(p, i) ==
  /\ pc[p] = "accept"
  /\ pc[backlog[p][i]] \in Joining
  /\ peer[backlog[p][i]] = p
  /\ fds[backlog[p][i]] = <<>>
  /\ inbox[backlog[p][i]] = <<>>
  /\ \A j \in 1 .. Len(backlog[p]) : backlog[p][j] = backlog[p][i] => i = j

WaitingInv ==
  \A p \in Procs : \A i \in 1 .. Len(backlog[p]) :
    backlog[p][i] # None => Waits(p, i)

FreshInv ==
  \A p \in Procs :
    /\ pc[p] \in {"idle", "bind", "listen", "accept", "connect"} =>
         fds[p] = <<>> /\ inbox[p] = <<>>
    /\ pc[p] = "create" => fds[p] = <<>>

OwnInv ==
  \A p \in Procs : pc[p] \in {"share", "markReady", "using"} =>
    /\ Describe(fds[p], memfd[p])
    /\ Len(fds[p]) <= NumFds
    /\ pc[p] # "share" => Len(fds[p]) = NumFds

StreamInv ==
  \A p \in Procs : pc[p] \in Joining =>
    \E f \in Nat : Carries(fds[p], inbox[p], f)

\* The stream from p to its peer.
Linked(p) ==
  /\ pc[peer[p]] \in Joining
  /\ peer[peer[p]] = p
  /\ Len(fds[peer[p]]) + Len(inbox[peer[p]]) = Len(fds[p])
  /\ Carries(fds[peer[p]], inbox[peer[p]], memfd[p])

LinkedInv ==
  \A p \in Procs : pc[p] \in Sending /\ peer[p] # None => Linked(p)

FdsInv ==
  /\ ListeningInv
  /\ WaitingInv
  /\ FreshInv
  /\ OwnInv
  /\ StreamInv
  /\ LinkedInv

(* Lemmas about what a stream carries.                                     *)

LEMMA CarriesNothing ==
  ASSUME NEW f \in Nat
  PROVE  Describe(<<>>, f) /\ Carries(<<>>, <<>>, f)
BY BoundsAssumption DEF Describe, Carries

LEMMA MessageTyped ==
  ASSUME NEW f \in Nat, NEW k \in Nat
  PROVE  /\ Message(f, k) \in Messages
         /\ Message(f, k).fd[1] = f
         /\ k <= NumFds => Message(f, k).payload = k /\ Message(f, k).fd = Fd(f, k)
         /\ k > NumFds => Message(f, k).payload = NEGOTIATION
BY BoundsAssumption DEF Message, Messages, Fd, NEGOTIATION

(* The message that is sent next comes next.                               *)
LEMMA CarriesMore ==
  ASSUME NEW got \in Seq(Nat \X Nat), NEW coming \in Seq(Messages),
         NEW f \in Nat, NEW k \in Nat, Carries(got, coming, f),
         k = Len(got) + Len(coming) + 1, k <= NumFds + 1
  PROVE  /\ Len(Append(coming, Message(f, k))) = Len(coming) + 1
         /\ Carries(got, Append(coming, Message(f, k)), f)
<1> DEFINE m == Message(f, k)
           longer == Append(coming, m)
<1>1. m \in Messages
  BY MessageTyped
<1>2. Len(got) \in Nat /\ Len(coming) \in Nat /\ NumFds \in Nat
  BY LenProperties, BoundsAssumption
<1> HIDE DEF m
<1>3. /\ Len(longer) = Len(coming) + 1
      /\ \A i \in 1 .. Len(coming) : longer[i] = coming[i]
      /\ longer[Len(coming) + 1] = m
  BY <1>1, AppendProperties
<1> HIDE DEF longer
<1>4. ASSUME NEW i \in 1 .. Len(longer)
      PROVE  longer[i] = Message(f, Len(got) + i)
  <2>1. CASE i <= Len(coming)
    <3>1. i \in 1 .. Len(coming)
      BY <1>2, <2>1
    <3> QED
      BY <1>3, <3>1 DEF Carries
  <2>2. CASE i = Len(coming) + 1
    <3>1. Len(got) + i = k
      BY <1>2, <2>2
    <3> QED
      BY <1>3, <2>2, <3>1 DEF m
  <2> QED
    BY <1>2, <1>3, <2>1, <2>2
<1>5. Len(got) + Len(longer) <= NumFds + 1
  BY <1>2, <1>3
<1>6. Carries(got, longer, f)
  BY <1>4, <1>5 DEF Carries
<1> QED
  BY <1>3, <1>6 DEF longer, m

(* What is received is the message after those that have been.             *)
LEMMA Arrives ==
  ASSUME NEW got \in Seq(Nat \X Nat), NEW coming \in Seq(Messages),
         NEW f \in Nat, Carries(got, coming, f), coming # <<>>
  PROVE  /\ Head(coming).fd[1] = f
         /\ Head(coming).payload \in {NEGOTIATION, Len(got) + 1}
         /\ Head(coming).payload = NEGOTIATION => Len(got) = NumFds
         /\ Head(coming).payload # NEGOTIATION =>
              Len(got) + 1 <= NumFds /\ Head(coming).fd = Fd(f, Len(got) + 1)
<1> DEFINE k == Len(got) + 1
<1>1. Len(got) \in Nat /\ NumFds \in Nat /\ k \in Nat /\ k # NEGOTIATION
  BY LenProperties, BoundsAssumption DEF NEGOTIATION
<1>2. Len(got) <= NumFds
  BY DEF Carries
<1>3. Head(coming) = Message(f, k)
  <2>1. Head(coming) = coming[1] /\ 1 \in 1 .. Len(coming)
    BY HeadTailProperties, EmptySeq, LenProperties
  <2> QED
    BY <2>1 DEF Carries
<1> HIDE DEF k
<1>4. /\ Message(f, k).fd[1] = f
      /\ k <= NumFds => Message(f, k).payload = k /\ Message(f, k).fd = Fd(f, k)
      /\ k > NumFds => Message(f, k).payload = NEGOTIATION
  BY <1>1, MessageTyped
<1>5. k <= NumFds \/ k > NumFds
  BY <1>1
<1>6. k > NumFds => Len(got) = NumFds
  BY <1>1, <1>2 DEF k
<1> QED
  BY <1>1, <1>3, <1>4, <1>5, <1>6 DEF k

LEMMA CarriesNext ==
  ASSUME NEW got \in Seq(Nat \X Nat), NEW coming \in Seq(Messages),
         NEW f \in Nat, Carries(got, coming, f), coming # <<>>,
         Head(coming).payload = Len(got) + 1
  PROVE  /\ Carries(Append(got, Head(coming).fd), Tail(coming), f)
         /\ Len(Append(got, Head(coming).fd)) + Len(Tail(coming))
              = Len(got) + Len(coming)
<1> DEFINE d == Head(coming).fd
           more == Append(got, d)
           rest == Tail(coming)
<1>1. /\ Len(got) \in Nat /\ Len(coming) \in Nat /\ NumFds \in Nat
      /\ Len(got) + 1 # NEGOTIATION
  BY LenProperties, BoundsAssumption DEF NEGOTIATION
<1>2. Len(got) + 1 <= NumFds /\ d = Fd(f, Len(got) + 1)
  BY <1>1, Arrives
<1> HIDE DEF d
<1>3. d \in Nat \X Nat
  BY <1>1, <1>2 DEF Fd
<1>4. /\ Len(more) = Len(got) + 1
      /\ \A i \in 1 .. Len(got) : more[i] = got[i]
      /\ more[Len(got) + 1] = d
  BY <1>3, AppendProperties
<1>5. /\ Len(rest) = Len(coming) - 1
      /\ \A i \in 1 .. Len(rest) : rest[i] = coming[i + 1]
  BY HeadTailProperties
<1> HIDE DEF more, rest
<1>6. ASSUME NEW i \in 1 .. Len(more) PROVE more[i] = Fd(f, i)
  <2>1. i \in 1 .. Len(got) \/ i = Len(got) + 1
    BY <1>1, <1>4
  <2> QED
    BY <1>2, <1>4, <2>1 DEF Carries, Describe
<1>7. ASSUME NEW i \in 1 .. Len(rest)
      PROVE  rest[i] = Message(f, Len(more) + i)
  <2>1. i + 1 \in 1 .. Len(coming) /\ Len(got) + (i + 1) = Len(more) + i
    BY <1>1, <1>4, <1>5
  <2> QED
    BY <1>5, <2>1 DEF Carries
<1>8. /\ Len(more) <= NumFds
      /\ Len(more) + Len(rest) = Len(got) + Len(coming)
      /\ Len(more) + Len(rest) <= NumFds + 1
  BY <1>1, <1>2, <1>4, <1>5 DEF Carries
<1>9. Carries(more, rest, f)
  <2>1. Describe(more, f)
    BY <1>6 DEF Describe
  <2> QED
    BY <1>7, <1>8, <2>1 DEF Carries
<1> QED
  BY <1>8, <1>9 DEF more, rest, d

(* What TypeOK says of each process, one fact per variable.                *)
LEMMA ProcessTypes ==
  ASSUME TypeOK
  PROVE  /\ \A q \in Procs :
              /\ fds[q] \in Seq(Nat \X Nat) /\ Len(fds[q]) \in Nat
              /\ inbox[q] \in Seq(Messages) /\ Len(inbox[q]) \in Nat
              /\ backlog[q] \in Seq(Procs \cup {None}) /\ Len(backlog[q]) \in Nat
              /\ DOMAIN backlog[q] = 1 .. Len(backlog[q])
              /\ memfd[q] \in Nat /\ peer[q] \in Procs \cup {None}
              /\ \A i \in 1 .. Len(backlog[q]) :
                   backlog[q][i] \in Procs \cup {None}
         /\ listening \subseteq Procs /\ NumFds \in Nat
BY LenProperties, ElementOfSeq, BoundsAssumption DEF TypeOK

LEMMA InitFds == Init => FdsInv
<1> SUFFICES ASSUME Init PROVE FdsInv
  OBVIOUS
<1>1. Len(<<>>) = 0
  OBVIOUS
<1>2. ListeningInv /\ WaitingInv
  BY <1>1 DEF Init, ListeningInv, WaitingInv
<1>3. FreshInv /\ OwnInv /\ StreamInv /\ LinkedInv
  BY DEF Init, FreshInv, OwnInv, StreamInv, LinkedInv, Joining, Sending
<1> QED
  BY <1>2, <1>3 DEF FdsInv

(* A step of one process from a stage to the next that leaves all the      *)
(* connections and descriptors alone.                                      *)
LEMMA QuietFds ==
  ASSUME TypeOK, FdsInv, NEW p \in Procs, NEW stage,
         UNCHANGED <<backlog, streams, memfd, fds>>,
         \A q \in Procs : pc'[q] = IF q = p THEN stage ELSE pc[q],
         \/ listening' = listening /\ pc[p] # "accept"
         \/ listening' = listening \cup {p} /\ stage = "accept",
         \/ /\ pc[p] \in {"idle", "bind", "listen"}
            /\ stage \in {"bind", "listen", "accept", "connect"}
         \/ pc[p] = "remove" /\ stage = "receive"
         \/ /\ pc[p] = "share" /\ stage = "markReady"
            /\ Len(fds[p]) = NumFds
  PROVE  FdsInv'
<1> USE DEF FdsInv, streams
<1>1. ListeningInv'
  BY DEF ListeningInv, TypeOK
<1>2. WaitingInv'
  <2> SUFFICES ASSUME NEW r \in Procs, NEW i \in 1 .. Len(backlog[r]),
                      backlog[r][i] # None
               PROVE  Waits(r, i)'
    BY DEF WaitingInv
  <2> DEFINE q == backlog[r][i]
  <2>1. /\ pc[r] = "accept" /\ pc[q] \in Joining /\ peer[q] = r
        /\ fds[q] = <<>> /\ inbox[q] = <<>> /\ q \in Procs
        /\ \A j \in 1 .. Len(backlog[r]) : backlog[r][j] = q => i = j
    <3>1. q \in Procs
      BY ProcessTypes
    <3> QED
      BY <3>1 DEF WaitingInv, Waits
  <2> HIDE DEF q
  <2> QED
    BY <2>1 DEF q, Joining, Waits
<1>3. FreshInv'
  BY DEF FreshInv
<1>4. OwnInv'
  BY DEF OwnInv
<1>5. StreamInv'
  BY DEF StreamInv, Joining
<1>6. LinkedInv'
  BY ProcessTypes DEF LinkedInv, Joining, Sending, Linked
<1> QED
  BY <1>1, <1>2, <1>3, <1>4, <1>5, <1>6

(* Accept makes one of those that wait the only one it can send to, and    *)
(* the others wait no longer.                                              *)
LEMMA AcceptFds ==
  ASSUME TypeOK, FdsInv, NEW p \in Procs, Accept(p)
  PROVE  FdsInv'
<1> DEFINE h == Head(backlog[p])
<1> USE DEF FdsInv
<1>0. /\ pc[p] = "accept"
      /\ \A q \in Procs : pc'[q] = IF q = p THEN "create" ELSE pc[q]
      /\ \A q \in Procs : peer'[q] = IF q = p THEN h
                                     ELSE IF q \in Dropped(p) THEN None
                                     ELSE peer[q]
      /\ \A q \in Procs : backlog'[q] = IF q = p THEN <<>> ELSE backlog[q]
      /\ listening' = listening \ {p}
      /\ UNCHANGED <<inbox, memfd, fds>>
  BY DEF Accept, Goto, TypeOK
<1>1. /\ 1 \in 1 .. Len(backlog[p]) /\ h = backlog[p][1]
      /\ h \in Procs \cup {None}
  BY HeadTailProperties, EmptySeq, ProcessTypes DEF Accept
<1> HIDE DEF h
<1>2. \A q \in Dropped(p) : q # None => pc[q] \in Joining /\ peer[q] = p
  <2>1. \A i \in 2 .. Len(backlog[p]) : i \in 1 .. Len(backlog[p])
    BY ProcessTypes
  <2>2. ASSUME NEW q \in Dropped(p), q # None
        PROVE  pc[q] \in Joining /\ peer[q] = p
    <3>1. PICK i \in 2 .. Len(backlog[p]) : q = backlog[p][i]
      BY <2>2 DEF Dropped
    <3> QED
      BY <2>1, <2>2, <3>1 DEF WaitingInv, Waits
  <2> QED
    BY <2>2
<1>3. h # None =>
        /\ pc[h] \in Joining /\ peer[h] = p
        /\ fds[h] = <<>> /\ inbox[h] = <<>>
        /\ h \notin Dropped(p)
  <2>1. \A i \in 2 .. Len(backlog[p]) : i \in 1 .. Len(backlog[p]) /\ i # 1
    BY ProcessTypes
  <2>2. h # None =>
          /\ pc[h] \in Joining /\ peer[h] = p
          /\ fds[h] = <<>> /\ inbox[h] = <<>>
          /\ \A j \in 1 .. Len(backlog[p]) : backlog[p][j] = h => 1 = j
    BY <1>1 DEF WaitingInv, Waits
  <2>3. h # None => h \notin Dropped(p)
    BY <2>1, <2>2 DEF Dropped
  <2> QED
    BY <2>2, <2>3
<1>4. ListeningInv'
  BY <1>0, ProcessTypes DEF ListeningInv
<1>5. WaitingInv'
  <2> SUFFICES ASSUME NEW r \in Procs, NEW i \in 1 .. Len(backlog'[r]),
                      backlog'[r][i] # None
               PROVE  Waits(r, i)'
    BY DEF WaitingInv
  <2>1. r # p /\ backlog'[r] = backlog[r]
    BY <1>0
  <2> DEFINE q == backlog[r][i]
  <2>2. /\ pc[r] = "accept" /\ pc[q] \in Joining /\ peer[q] = r
        /\ fds[q] = <<>> /\ inbox[q] = <<>> /\ q \in Procs
        /\ \A j \in 1 .. Len(backlog[r]) : backlog[r][j] = q => i = j
    BY <2>1, ProcessTypes DEF WaitingInv, Waits
  <2> HIDE DEF q
  <2>3. q # p /\ q \notin Dropped(p)
    BY <1>0, <1>2, <2>1, <2>2, NoneAssumption DEF Joining
  <2> QED
    BY <1>0, <2>1, <2>2, <2>3 DEF q, Waits
<1>6. FreshInv'
  BY <1>0 DEF FreshInv
<1>7. OwnInv'
  BY <1>0 DEF OwnInv
<1>8. StreamInv'
  BY <1>0 DEF StreamInv, Joining
<1>9. LinkedInv'
  <2> SUFFICES ASSUME NEW r \in Procs, pc'[r] \in Sending, peer'[r] # None
               PROVE  Linked(r)'
    BY DEF LinkedInv
  <2>1. CASE r = p
    <3>1. peer'[r] = h /\ h \in Procs /\ h # p /\ h \notin Dropped(p)
      BY <1>0, <1>1, <1>3, <2>1 DEF Joining
    <3>2. fds[p] = <<>> /\ Len(<<>>) = 0
      BY <1>0 DEF FreshInv
    <3>3. Carries(<<>>, <<>>, memfd[p])
      BY ProcessTypes, CarriesNothing
    <3>4. pc[h] \in Joining /\ peer[h] = p /\ fds[h] = <<>> /\ inbox[h] = <<>>
      BY <1>3, <3>1
    <3>5. pc'[h] \in Joining /\ peer'[h] = p
      BY <1>0, <3>1, <3>4
    <3>6. /\ fds'[h] = <<>> /\ inbox'[h] = <<>> /\ fds'[p] = <<>>
          /\ memfd'[p] = memfd[p]
      BY <1>0, <3>2, <3>4
    <3>7. Len(fds'[h]) + Len(inbox'[h]) = Len(fds'[p])
      BY <3>2, <3>6
    <3>8. Carries(fds'[h], inbox'[h], memfd'[p])
      BY <3>3, <3>6
    <3> QED
      BY <2>1, <3>1, <3>5, <3>7, <3>8 DEF Linked
  <2>2. CASE r # p
    <3>1. r \notin Dropped(p)
      BY <1>0, <1>2, <2>2, NoneAssumption DEF Joining, Sending
    <3>2. peer'[r] = peer[r] /\ pc'[r] = pc[r]
      BY <1>0, <2>2, <3>1
    <3> DEFINE t == peer[r]
    <3>3. /\ pc[t] \in Joining /\ peer[t] = r /\ t \in Procs
          /\ Len(fds[t]) + Len(inbox[t]) = Len(fds[r])
          /\ Carries(fds[t], inbox[t], memfd[r])
      BY <3>2, ProcessTypes DEF LinkedInv, Linked
    <3> HIDE DEF t
    <3>4. t # p /\ t \notin Dropped(p)
      BY <1>0, <1>2, <2>2, <3>3, NoneAssumption DEF Joining
    <3>5. pc'[t] = pc[t] /\ peer'[t] = peer[t]
      BY <1>0, <3>3, <3>4
    <3> QED
      BY <1>0, <3>2, <3>3, <3>5 DEF t, Linked
  <2> QED
    BY <2>1, <2>2
<1> QED
  BY <1>4, <1>5, <1>6, <1>7, <1>8, <1>9

LEMMA ConnectFds ==
  ASSUME TypeOK, FdsInv, NEW p \in Procs, Connect(p)
  PROVE  FdsInv'
<1> USE DEF FdsInv
<1>0. /\ pc[p] = "connect" /\ path \in listening
      /\ \A q \in Procs : pc'[q] = IF q = p THEN "remove" ELSE pc[q]
      /\ \A q \in Procs : peer'[q] = IF q = p THEN path ELSE peer[q]
      /\ \A q \in Procs : backlog'[q] = IF q = path THEN Append(backlog[q], p)
                                        ELSE backlog[q]
      /\ UNCHANGED <<listening, inbox, memfd, fds>>
  BY DEF Connect, Goto, TypeOK, result
<1>1. path \in Procs /\ pc[path] = "accept" /\ path # p
  BY <1>0, ProcessTypes DEF ListeningInv
<1>2. fds[p] = <<>> /\ inbox[p] = <<>>
  BY <1>0 DEF FreshInv
<1>3. \A r \in Procs : \A i \in 1 .. Len(backlog[r]) : backlog[r][i] # p
  BY <1>0, NoneAssumption DEF WaitingInv, Waits, Joining
<1>4. ListeningInv'
  BY <1>0, ProcessTypes DEF ListeningInv
<1>5. WaitingInv'
  <2> SUFFICES ASSUME NEW r \in Procs, NEW i \in 1 .. Len(backlog'[r]),
                      backlog'[r][i] # None
               PROVE  Waits(r, i)'
    BY DEF WaitingInv
  <2>1. ASSUME NEW j \in 1 .. Len(backlog'[r])
        PROVE  \/ j \in 1 .. Len(backlog[r]) /\ backlog'[r][j] = backlog[r][j]
               \/ r = path /\ j = Len(backlog[r]) + 1 /\ backlog'[r][j] = p
    <3>1. backlog[r] \in Seq(Procs \cup {None}) /\ Len(backlog[r]) \in Nat
      BY ProcessTypes
    <3>2. CASE r = path
      <4>0. backlog'[r] = Append(backlog[r], p) /\ p \in Procs \cup {None}
        BY <1>0, <3>2
      <4>1. /\ Len(backlog'[r]) = Len(backlog[r]) + 1
            /\ \A k \in 1 .. Len(backlog[r]) : backlog'[r][k] = backlog[r][k]
            /\ backlog'[r][Len(backlog[r]) + 1] = p
        BY <3>1, <4>0, AppendProperties
      <4> QED
        BY <3>1, <3>2, <4>1
    <3>3. CASE r # path
      BY <1>0, <3>3
    <3> QED
      BY <3>2, <3>3
  <2>2. CASE i \in 1 .. Len(backlog[r]) /\ backlog'[r][i] = backlog[r][i]
    <3> DEFINE q == backlog[r][i]
    <3>1. /\ pc[r] = "accept" /\ pc[q] \in Joining /\ peer[q] = r
          /\ fds[q] = <<>> /\ inbox[q] = <<>> /\ q \in Procs /\ q # p
          /\ \A j \in 1 .. Len(backlog[r]) : backlog[r][j] = q => i = j
      BY <1>3, <2>2, ProcessTypes DEF WaitingInv, Waits
    <3> HIDE DEF q
    <3>2. \A j \in 1 .. Len(backlog'[r]) : backlog'[r][j] = q => i = j
      BY <2>1, <3>1
    <3> QED
      BY <1>0, <2>2, <3>1, <3>2 DEF q, Waits
  <2>3. CASE r = path /\ i = Len(backlog[r]) + 1 /\ backlog'[r][i] = p
    <3>1. \A j \in 1 .. Len(backlog'[r]) : backlog'[r][j] = p => i = j
      BY <1>3, <2>1, <2>3
    <3> QED
      BY <1>0, <1>1, <1>2, <2>3, <3>1 DEF Joining, Waits
  <2> QED
    BY <2>1, <2>2, <2>3
<1>6. FreshInv'
  BY <1>0 DEF FreshInv
<1>7. OwnInv'
  BY <1>0 DEF OwnInv
<1>8. StreamInv'
  <2>1. Carries(<<>>, <<>>, 0)
    BY CarriesNothing
  <2> QED
    BY <1>0, <1>2, <2>1 DEF StreamInv, Joining
<1>9. LinkedInv'
  <2> SUFFICES ASSUME NEW r \in Procs, pc'[r] \in Sending, peer'[r] # None
               PROVE  Linked(r)'
    BY DEF LinkedInv
  <2>1. pc'[r] = pc[r] /\ peer'[r] = peer[r]
    BY <1>0 DEF Sending
  <2> DEFINE t == peer[r]
  <2>2. /\ pc[t] \in Joining /\ peer[t] = r /\ t \in Procs
        /\ Len(fds[t]) + Len(inbox[t]) = Len(fds[r])
        /\ Carries(fds[t], inbox[t], memfd[r])
    BY <2>1, ProcessTypes DEF LinkedInv, Linked
  <2> HIDE DEF t
  <2>3. t # p
    BY <1>0, <2>2 DEF Joining
  <2> QED
    BY <1>0, <2>1, <2>2, <2>3 DEF t, Linked
<1> QED
  BY <1>4, <1>5, <1>6, <1>7, <1>8, <1>9

LEMMA CreateFds ==
  ASSUME TypeOK, TypeOK', FdsInv, NEW p \in Procs, Create(p)
  PROVE  FdsInv'
<1> USE DEF FdsInv
<1>0. /\ pc[p] = "create"
      /\ \A q \in Procs : pc'[q] = IF q = p THEN "share" ELSE pc[q]
      /\ \A q \in Procs : q # p => memfd'[q] = memfd[q]
      /\ UNCHANGED <<listening, backlog, peer, inbox, fds>>
  BY DEF Create, Goto, TypeOK, sockets, streams
<1>1. fds[p] = <<>> /\ Len(<<>>) = 0
  BY <1>0 DEF FreshInv
<1>2. /\ memfd'[p] \in Nat
      /\ Describe(<<>>, memfd'[p]) /\ Carries(<<>>, <<>>, memfd'[p])
  <2>1. memfd'[p] \in Nat
    BY LenProperties DEF TypeOK
  <2> QED
    BY <2>1, CarriesNothing
<1>3. ListeningInv'
  BY <1>0, ProcessTypes DEF ListeningInv
<1>4. WaitingInv'
  <2> SUFFICES ASSUME NEW r \in Procs, NEW i \in 1 .. Len(backlog[r]),
                      backlog[r][i] # None
               PROVE  Waits(r, i)'
    BY <1>0 DEF WaitingInv
  <2> DEFINE q == backlog[r][i]
  <2>1. /\ pc[r] = "accept" /\ pc[q] \in Joining /\ peer[q] = r
        /\ fds[q] = <<>> /\ inbox[q] = <<>> /\ q \in Procs
        /\ \A j \in 1 .. Len(backlog[r]) : backlog[r][j] = q => i = j
    <3>1. q \in Procs
      BY ProcessTypes
    <3> QED
      BY <3>1 DEF WaitingInv, Waits
  <2> HIDE DEF q
  <2> QED
    BY <1>0, <2>1 DEF q, Joining, Waits
<1>5. FreshInv'
  BY <1>0 DEF FreshInv
<1>6. OwnInv'
  <2>1. Len(fds'[p]) <= NumFds /\ Describe(fds'[p], memfd'[p])
    BY <1>0, <1>1, <1>2, ProcessTypes
  <2> QED
    BY <1>0, <2>1 DEF OwnInv
<1>7. StreamInv'
  BY <1>0 DEF StreamInv, Joining
<1>8. LinkedInv'
  <2> SUFFICES ASSUME NEW r \in Procs, pc'[r] \in Sending, peer[r] # None
               PROVE  Linked(r)'
    BY <1>0 DEF LinkedInv
  <2> DEFINE t == peer[r]
  <2>1. /\ pc[t] \in Joining /\ peer[t] = r /\ t \in Procs
        /\ Len(fds[t]) + Len(inbox[t]) = Len(fds[r])
        /\ Carries(fds[t], inbox[t], memfd[r])
    BY <1>0, ProcessTypes DEF LinkedInv, Sending, Linked
  <2> HIDE DEF t
  <2>2. pc'[t] \in Joining
    BY <1>0, <2>1 DEF Joining
  <2>3. Carries(fds[t], inbox[t], memfd'[r])
    <3>1. CASE r # p
      BY <1>0, <2>1, <3>1
    <3>2. CASE r = p
      <4>1. Len(fds[t]) = 0 /\ Len(inbox[t]) = 0
        <5> DEFINE m == Len(fds[t])
                   n == Len(inbox[t])
        <5>1. m \in Nat /\ n \in Nat
          BY <2>1, ProcessTypes
        <5>2. m + n = 0
          BY <1>1, <2>1, <3>2
        <5> HIDE DEF m, n
        <5>3. m = 0 /\ n = 0
          BY <5>1, <5>2
        <5> QED
          BY <5>3 DEF m, n
      <4>2. fds[t] = <<>> /\ inbox[t] = <<>>
        BY <2>1, <4>1, ProcessTypes, EmptySeq
      <4> QED
        BY <1>2, <3>2, <4>2
    <3> QED
      BY <3>1, <3>2
  <2> QED
    BY <1>0, <2>1, <2>2, <2>3 DEF t, Linked
<1> QED
  BY <1>3, <1>4, <1>5, <1>6, <1>7, <1>8

(* The k-th message of the owner is one that carries on its stream.        *)
LEMMA SendCarries ==
  ASSUME TypeOK, FdsInv, NEW p \in Procs, pc[p] \in {"share", "markReady"},
         NEW k \in Nat, k = Len(fds[p]) + 1, k <= NumFds + 1,
         peer[p] # None,
         inbox' = [inbox EXCEPT ![peer[p]] = Append(@, Message(memfd[p], k))],
         UNCHANGED <<listening, backlog, peer, memfd>>
  PROVE  /\ peer[p] \in Procs /\ pc[peer[p]] \in Joining /\ peer[peer[p]] = p
         /\ \A q \in Procs : q # peer[p] => inbox'[q] = inbox[q]
         /\ Len(fds[peer[p]]) + Len(inbox'[peer[p]]) = k
         /\ Carries(fds[peer[p]], inbox'[peer[p]], memfd[p])
<1> DEFINE t == peer[p]
<1>1. /\ t \in Procs /\ pc[t] \in Joining /\ peer[t] = p
      /\ Len(fds[t]) + Len(inbox[t]) = Len(fds[p])
      /\ Carries(fds[t], inbox[t], memfd[p])
  BY ProcessTypes DEF FdsInv, LinkedInv, Sending, Linked
<1>2. inbox' = [inbox EXCEPT ![t] = Append(@, Message(memfd[p], k))]
  OBVIOUS
<1> HIDE DEF t
<1>3. inbox'[t] = Append(inbox[t], Message(memfd[p], k))
  BY <1>1, <1>2 DEF TypeOK
<1>4. \A q \in Procs : q # t => inbox'[q] = inbox[q]
  BY <1>2 DEF TypeOK
<1>5. /\ fds[t] \in Seq(Nat \X Nat) /\ inbox[t] \in Seq(Messages)
      /\ memfd[p] \in Nat /\ Len(fds[t]) \in Nat /\ Len(inbox[t]) \in Nat
      /\ k = Len(fds[t]) + Len(inbox[t]) + 1
  BY <1>1, ProcessTypes
<1>6. /\ Len(inbox'[t]) = Len(inbox[t]) + 1
      /\ Carries(fds[t], inbox'[t], memfd[p])
  <2>1. /\ Len(Append(inbox[t], Message(memfd[p], k))) = Len(inbox[t]) + 1
        /\ Carries(fds[t], Append(inbox[t], Message(memfd[p], k)), memfd[p])
    BY <1>1, <1>5, CarriesMore
  <2> QED
    BY <1>3, <2>1
<1>7. Len(fds[t]) + Len(inbox'[t]) = k
  <2> DEFINE m == Len(fds[t])
             n == Len(inbox[t])
             o == Len(inbox'[t])
  <2>1. m \in Nat /\ n \in Nat /\ k = m + n + 1 /\ o = n + 1
    BY <1>5, <1>6
  <2> HIDE DEF m, n, o
  <2>2. m + o = k
    BY <2>1
  <2> QED
    BY <2>2 DEF m, o
<1> QED
  BY <1>1, <1>4, <1>6, <1>7 DEF t

(* Whoever waits is not being sent to.                                     *)
LEMMA SendWaiting ==
  ASSUME TypeOK, FdsInv, NEW p \in Procs, pc[p] \in {"share", "markReady"},
         NEW t \in Procs, peer[t] = p, pc[t] \in Joining,
         UNCHANGED <<backlog, peer>>,
         \A q \in Procs : q # p => pc'[q] = pc[q] /\ fds'[q] = fds[q],
         \A q \in Procs : q # t => inbox'[q] = inbox[q]
  PROVE  WaitingInv'
<1> SUFFICES ASSUME NEW r \in Procs, NEW i \in 1 .. Len(backlog[r]),
                    backlog[r][i] # None
             PROVE  Waits(r, i)'
  BY DEF WaitingInv
<1> DEFINE q == backlog[r][i]
<1>1. /\ pc[r] = "accept" /\ pc[q] \in Joining /\ peer[q] = r
      /\ fds[q] = <<>> /\ inbox[q] = <<>> /\ q \in Procs
      /\ \A j \in 1 .. Len(backlog[r]) : backlog[r][j] = q => i = j
  BY ProcessTypes DEF FdsInv, WaitingInv, Waits
<1> HIDE DEF q
<1>2. r # p /\ q # p /\ q # t
  BY <1>1 DEF Joining
<1> QED
  BY <1>1, <1>2 DEF q, Waits

LEMMA SendFdFds ==
  ASSUME TypeOK, FdsInv, NEW p \in Procs, SendFd(p)
  PROVE  FdsInv'
<1> DEFINE next == Len(fds[p]) + 1
           t == peer[p]
           new == Fd(memfd[p], next)
<1>0. /\ pc[p] = "share" /\ next <= NumFds /\ next \in Nat /\ memfd[p] \in Nat
      /\ fds' = [fds EXCEPT ![p] = Append(@, new)] /\ t # None
      /\ UNCHANGED <<listening, backlog, peer, memfd, pc>>
  BY ProcessTypes DEF SendFd, Send, sockets
<1>1. inbox' = [inbox EXCEPT ![t] = Append(@, Message(memfd[p], next))]
  BY <1>0 DEF SendFd, Send, Message
<1>2. new \in Nat \X Nat
  BY <1>0 DEF Fd
<1>3. /\ t \in Procs /\ pc[t] \in Joining /\ peer[t] = p
      /\ \A q \in Procs : q # t => inbox'[q] = inbox[q]
      /\ Len(fds[t]) + Len(inbox'[t]) = next
      /\ Carries(fds[t], inbox'[t], memfd[p])
  <2> HIDE DEF new
  <2>1. next <= NumFds + 1
    BY <1>0, ProcessTypes
  <2> QED
    BY <1>0, <1>1, <2>1, SendCarries
<1>4. /\ \A q \in Procs : q # p => fds'[q] = fds[q]
      /\ fds'[p] = Append(fds[p], new)
  BY <1>0 DEF TypeOK
<1>5. /\ Len(fds'[p]) = next
      /\ \A i \in 1 .. Len(fds[p]) : fds'[p][i] = fds[p][i]
      /\ fds'[p][next] = new
  BY <1>2, <1>4, ProcessTypes, AppendProperties
<1>6. t # p
  BY <1>0, <1>3 DEF Joining
<1>7. ListeningInv'
  BY <1>0 DEF FdsInv, ListeningInv
<1>8. WaitingInv'
  BY <1>0, <1>3, <1>4, SendWaiting
<1>9. FreshInv'
  BY <1>0, <1>3, <1>4 DEF FdsInv, FreshInv, Joining
<1>10. OwnInv'
  <2>1. Describe(fds[p], memfd[p])
    BY <1>0 DEF FdsInv, OwnInv
  <2>2. ASSUME NEW i \in 1 .. Len(fds'[p])
        PROVE  fds'[p][i] = Fd(memfd[p], i)
    <3>1. i \in 1 .. Len(fds[p]) \/ i = next
      BY <1>5, ProcessTypes
    <3> QED
      BY <1>5, <2>1, <3>1 DEF Describe
  <2>3. Describe(fds'[p], memfd[p])
    BY <2>2 DEF Describe
  <2> HIDE DEF new, next
  <2> QED
    BY <1>0, <1>4, <1>5, <2>3 DEF FdsInv, OwnInv
<1> HIDE DEF new, next, t
<1>11. StreamInv'
  BY <1>0, <1>3, <1>4 DEF FdsInv, StreamInv, Joining
<1>12. LinkedInv'
  <2> SUFFICES ASSUME NEW r \in Procs, pc[r] \in Sending, peer[r] # None
               PROVE  Linked(r)'
    BY <1>0 DEF LinkedInv
  <2>1. CASE r = p
    <3>1. fds'[t] = fds[t] /\ peer[r] = t
      BY <1>3, <1>4, <1>6, <2>1 DEF t
    <3> QED
      BY <1>0, <1>3, <1>5, <2>1, <3>1 DEF Linked
  <2>2. CASE r # p
    <3> DEFINE u == peer[r]
    <3>1. /\ pc[u] \in Joining /\ peer[u] = r /\ u \in Procs
          /\ Len(fds[u]) + Len(inbox[u]) = Len(fds[r])
          /\ Carries(fds[u], inbox[u], memfd[r])
      BY ProcessTypes DEF FdsInv, LinkedInv, Linked
    <3> HIDE DEF u
    <3>2. u # p /\ u # t
      BY <1>0, <1>3, <2>2, <3>1 DEF Joining
    <3> QED
      BY <1>0, <1>3, <1>4, <2>2, <3>1, <3>2 DEF u, Linked
  <2> QED
    BY <2>1, <2>2
<1> QED
  BY <1>7, <1>8, <1>9, <1>10, <1>11, <1>12 DEF FdsInv

LEMMA MarkReadyFds ==
  ASSUME TypeOK, FdsInv, NEW p \in Procs, MarkReady(p)
  PROVE  FdsInv'
<1> DEFINE k == NumFds + 1
           t == peer[p]
<1>0. /\ pc[p] = "markReady" /\ memfd[p] \in Nat
      /\ Len(fds[p]) = NumFds /\ NumFds \in Nat
      /\ \A q \in Procs : pc'[q] = IF q = p THEN "using" ELSE pc[q]
      /\ t # None
      /\ UNCHANGED <<listening, backlog, peer, memfd, fds>>
  BY ProcessTypes DEF MarkReady, Send, Goto, sockets, result, TypeOK, FdsInv,
                      OwnInv
<1>1. inbox' = [inbox EXCEPT ![t] = Append(@, Message(memfd[p], k))]
  <2>1. ~(k <= NumFds)
    BY <1>0
  <2>2. Message(memfd[p], k) = [payload |-> NEGOTIATION, fd |-> Fd(memfd[p], 0)]
    BY <2>1 DEF Message
  <2> HIDE DEF k
  <2> QED
    BY <2>2 DEF MarkReady, Send
<1>2. k \in Nat /\ k = Len(fds[p]) + 1 /\ k <= NumFds + 1
  BY <1>0
<1> HIDE DEF k
<1>3. /\ t \in Procs /\ pc[t] \in Joining /\ peer[t] = p
      /\ \A q \in Procs : q # t => inbox'[q] = inbox[q]
      /\ Carries(fds[t], inbox'[t], memfd[p])
  BY <1>0, <1>1, <1>2, SendCarries
<1> HIDE DEF t
<1>4. t # p
  BY <1>0, <1>3 DEF Joining
<1>5. ListeningInv'
  BY <1>0, ProcessTypes DEF FdsInv, ListeningInv
<1>6. WaitingInv'
  BY <1>0, <1>3, SendWaiting
<1>7. FreshInv'
  BY <1>0, <1>3 DEF FdsInv, FreshInv, Joining
<1>8. OwnInv'
  BY <1>0 DEF FdsInv, OwnInv
<1>9. StreamInv'
  BY <1>0, <1>3 DEF FdsInv, StreamInv, Joining
<1>10. LinkedInv'
  <2> SUFFICES ASSUME NEW r \in Procs, pc'[r] \in Sending, peer[r] # None
               PROVE  Linked(r)'
    BY <1>0 DEF LinkedInv
  <2>1. r # p /\ pc'[r] = pc[r]
    BY <1>0 DEF Sending
  <2> DEFINE u == peer[r]
  <2>2. /\ pc[u] \in Joining /\ peer[u] = r /\ u \in Procs
        /\ Len(fds[u]) + Len(inbox[u]) = Len(fds[r])
        /\ Carries(fds[u], inbox[u], memfd[r])
    BY <2>1, ProcessTypes DEF FdsInv, LinkedInv, Linked
  <2> HIDE DEF u
  <2>3. u # p /\ u # t
    BY <1>0, <1>3, <2>1, <2>2 DEF Joining
  <2> QED
    BY <1>0, <1>3, <2>2, <2>3 DEF u, Linked
<1> QED
  BY <1>5, <1>6, <1>7, <1>8, <1>9, <1>10 DEF FdsInv

(* Whoever receives is not waiting any more, and nobody else changes.      *)
LEMMA ReceiveWaiting ==
  ASSUME TypeOK, FdsInv, NEW p \in Procs, Receive(p),
         UNCHANGED <<listening, backlog, peer>>,
         \A q \in Procs : q # p => pc'[q] = pc[q] /\ fds'[q] = fds[q],
         pc'[p] \in {"receive", "using"}
  PROVE  /\ pc[p] = "receive" /\ inbox[p] # <<>> /\ inbox'[p] = Tail(inbox[p])
         /\ \A q \in Procs : q # p => inbox'[q] = inbox[q]
         /\ ListeningInv' /\ WaitingInv' /\ FreshInv'
<1>0. /\ pc[p] = "receive" /\ inbox[p] # <<>> /\ inbox'[p] = Tail(inbox[p])
      /\ \A q \in Procs : q # p => inbox'[q] = inbox[q]
  BY DEF Receive, TypeOK
<1>1. ListeningInv'
  BY <1>0, ProcessTypes DEF FdsInv, ListeningInv
<1>2. WaitingInv'
  <2> SUFFICES ASSUME NEW r \in Procs, NEW i \in 1 .. Len(backlog[r]),
                      backlog[r][i] # None
               PROVE  Waits(r, i)'
    BY DEF WaitingInv
  <2> DEFINE q == backlog[r][i]
  <2>1. /\ pc[r] = "accept" /\ pc[q] \in Joining /\ peer[q] = r
        /\ fds[q] = <<>> /\ inbox[q] = <<>> /\ q \in Procs
        /\ \A j \in 1 .. Len(backlog[r]) : backlog[r][j] = q => i = j
    BY ProcessTypes DEF FdsInv, WaitingInv, Waits
  <2> HIDE DEF q
  <2>2. r # p /\ q # p
    BY <1>0, <2>1
  <2> QED
    BY <1>0, <2>1, <2>2 DEF q, Waits
<1>3. FreshInv'
  BY <1>0 DEF FdsInv, FreshInv
<1> QED
  BY <1>0, <1>1, <1>2, <1>3

LEMMA ReceiveFdFds ==
  ASSUME TypeOK, FdsInv, NEW p \in Procs, ReceiveFd(p)
  PROVE  FdsInv'
<1> DEFINE m == Head(inbox[p])
<1>0. /\ Receive(p) /\ m.payload = Len(fds[p]) + 1
      /\ UNCHANGED <<listening, backlog, peer, pc, memfd>>
      /\ \A q \in Procs : q # p => fds'[q] = fds[q]
      /\ fds'[p] = Append(fds[p], m.fd)
  BY DEF ReceiveFd, sockets, TypeOK
<1> HIDE DEF m
<1>1. /\ pc[p] = "receive" /\ inbox[p] # <<>> /\ inbox'[p] = Tail(inbox[p])
      /\ \A q \in Procs : q # p => inbox'[q] = inbox[q]
      /\ ListeningInv' /\ WaitingInv' /\ FreshInv'
  <2>1. pc[p] = "receive"
    BY <1>0 DEF Receive
  <2> QED
    BY <1>0, <2>1, ReceiveWaiting
<1>2. ASSUME NEW f \in Nat, Carries(fds[p], inbox[p], f)
      PROVE  /\ Carries(fds'[p], inbox'[p], f)
             /\ Len(fds'[p]) + Len(inbox'[p]) = Len(fds[p]) + Len(inbox[p])
  <2>1. fds[p] \in Seq(Nat \X Nat) /\ inbox[p] \in Seq(Messages)
    BY ProcessTypes
  <2>2. Head(inbox[p]).payload = Len(fds[p]) + 1
    BY <1>0 DEF m
  <2>3. /\ Carries(Append(fds[p], Head(inbox[p]).fd), Tail(inbox[p]), f)
        /\ Len(Append(fds[p], Head(inbox[p]).fd)) + Len(Tail(inbox[p]))
             = Len(fds[p]) + Len(inbox[p])
    BY <1>1, <1>2, <2>1, <2>2, CarriesNext
  <2> QED
    BY <1>0, <1>1, <2>3 DEF m
<1>3. OwnInv'
  BY <1>0, <1>1 DEF FdsInv, OwnInv
<1>4. StreamInv'
  BY <1>0, <1>1, <1>2 DEF FdsInv, StreamInv
<1>5. LinkedInv'
  <2> SUFFICES ASSUME NEW r \in Procs, pc[r] \in Sending, peer[r] # None
               PROVE  Linked(r)'
    BY <1>0 DEF LinkedInv
  <2> DEFINE u == peer[r]
  <2>1. /\ pc[u] \in Joining /\ peer[u] = r /\ u \in Procs
        /\ Len(fds[u]) + Len(inbox[u]) = Len(fds[r])
        /\ Carries(fds[u], inbox[u], memfd[r]) /\ memfd[r] \in Nat
    BY ProcessTypes DEF FdsInv, LinkedInv, Linked
  <2> HIDE DEF u
  <2>2. fds'[r] = fds[r]
    BY <1>0, <1>1 DEF Sending
  <2>3. /\ Len(fds'[u]) + Len(inbox'[u]) = Len(fds[u]) + Len(inbox[u])
        /\ Carries(fds'[u], inbox'[u], memfd[r])
    <3>1. CASE u = p
      BY <1>2, <2>1, <3>1
    <3>2. CASE u # p
      BY <1>0, <1>1, <2>1, <3>2
    <3> QED
      BY <3>1, <3>2
  <2> QED
    BY <1>0, <2>1, <2>2, <2>3 DEF u, Linked
<1> QED
  BY <1>1, <1>3, <1>4, <1>5 DEF FdsInv

LEMMA ReceiveMemfdFds ==
  ASSUME TypeOK, FdsInv, NEW p \in Procs, ReceiveMemfd(p)
  PROVE  FdsInv'
<1> DEFINE m == Head(inbox[p])
<1>0. /\ Receive(p) /\ m.payload = NEGOTIATION
      /\ UNCHANGED <<listening, backlog, peer, fds>>
      /\ \A q \in Procs : pc'[q] = IF q = p THEN "using" ELSE pc[q]
      /\ \A q \in Procs : memfd'[q] = IF q = p THEN m.fd[1] ELSE memfd[q]
  BY DEF ReceiveMemfd, Goto, sockets, TypeOK
<1> HIDE DEF m
<1>1. /\ pc[p] = "receive" /\ inbox[p] # <<>> /\ inbox'[p] = Tail(inbox[p])
      /\ \A q \in Procs : q # p => inbox'[q] = inbox[q]
      /\ ListeningInv' /\ WaitingInv' /\ FreshInv'
  BY <1>0, ReceiveWaiting
<1>2. ASSUME NEW f \in Nat, Carries(fds[p], inbox[p], f)
      PROVE  /\ Len(fds[p]) = NumFds /\ m.fd[1] = f
             /\ Describe(fds[p], f)
  <2>1. fds[p] \in Seq(Nat \X Nat) /\ inbox[p] \in Seq(Messages)
    BY ProcessTypes
  <2>2. /\ Head(inbox[p]).fd[1] = f
        /\ Head(inbox[p]).payload = NEGOTIATION => Len(fds[p]) = NumFds
    BY <1>1, <1>2, <2>1, Arrives
  <2> QED
    BY <1>0, <1>2, <2>2 DEF m, Carries
<1>3. OwnInv'
  <2>1. PICK f \in Nat : Carries(fds[p], inbox[p], f)
    BY <1>1 DEF FdsInv, StreamInv, Joining
  <2>2. Len(fds[p]) = NumFds /\ Describe(fds[p], memfd'[p])
    BY <1>0, <1>2, <2>1
  <2>3. Len(fds[p]) <= NumFds
    BY <2>2, ProcessTypes
  <2>4. \A q \in Procs \ {p} : pc'[q] = pc[q] /\ memfd'[q] = memfd[q]
    BY <1>0
  <2> QED
    BY <1>0, <2>2, <2>3, <2>4 DEF FdsInv, OwnInv
<1>4. StreamInv'
  BY <1>0, <1>1 DEF FdsInv, StreamInv, Joining
<1>5. LinkedInv'
  <2> SUFFICES ASSUME NEW r \in Procs, pc'[r] \in Sending, peer[r] # None
               PROVE  Linked(r)'
    BY <1>0 DEF LinkedInv
  <2> DEFINE u == peer[r]
  <2>1. r # p /\ pc'[r] = pc[r] /\ memfd'[r] = memfd[r]
    BY <1>0 DEF Sending
  <2>2. /\ pc[u] \in Joining /\ peer[u] = r /\ u \in Procs
        /\ Len(fds[u]) + Len(inbox[u]) = Len(fds[r])
        /\ Carries(fds[u], inbox[u], memfd[r]) /\ memfd[r] \in Nat
    BY <2>1, ProcessTypes DEF FdsInv, LinkedInv, Linked
  <2> HIDE DEF u
  <2>3. u # p
    <3> SUFFICES ASSUME u = p PROVE FALSE
      OBVIOUS
    <3> DEFINE n == Len(inbox[p])
               o == Len(fds[r])
    <3>1. NumFds + n = o
      BY <1>2, <2>2
    <3>2. n \in Nat /\ n # 0
      BY <1>1, ProcessTypes, EmptySeq
    <3>3. o \in Nat /\ o <= NumFds /\ NumFds \in Nat
      <4>1. pc[r] = "create" => o = 0
        BY <2>1 DEF FdsInv, FreshInv
      <4>2. pc[r] # "create" => o <= NumFds
        BY <2>1 DEF FdsInv, OwnInv, Sending
      <4> QED
        BY <4>1, <4>2, ProcessTypes
    <3> HIDE DEF n, o
    <3> QED
      BY <3>1, <3>2, <3>3
  <2> QED
    BY <1>0, <1>1, <2>1, <2>2, <2>3 DEF u, Linked
<1> QED
  BY <1>1, <1>3, <1>4, <1>5 DEF FdsInv

LEMMA CloseFds ==
  ASSUME TypeOK, FdsInv, NEW p \in Procs, Close(p)
  PROVE  FdsInv'
<1> DEFINE left(q) == [k \in 1 .. Len(backlog[q]) |->
                         IF backlog[q][k] = p THEN None ELSE backlog[q][k]]
<1>0. /\ \A q \in Procs : pc'[q] = IF q = p THEN "idle" ELSE pc[q]
      /\ \A q \in Procs : peer'[q] = IF p \in {q, peer[q]} THEN None ELSE peer[q]
      /\ \A q \in Procs : inbox'[q] = IF q = p THEN <<>> ELSE inbox[q]
      /\ \A q \in Procs : fds'[q] = IF q = p THEN <<>> ELSE fds[q]
      /\ \A q \in Procs : memfd'[q] = IF q = p THEN 0 ELSE memfd[q]
      /\ listening' = listening \ {p}
  BY DEF Close, Goto, TypeOK
<1>1. \A q \in Procs : backlog'[q] = IF q = p THEN <<>> ELSE left(q)
  BY ProcessTypes DEF Close
<1>2. ASSUME NEW q \in Procs, NEW k \in 1 .. Len(backlog'[q])
      PROVE  /\ q # p /\ k \in 1 .. Len(backlog[q])
             /\ backlog'[q][k] =
                  IF backlog[q][k] = p THEN None ELSE backlog[q][k]
  <2>1. Len(backlog[q]) \in Nat
    BY ProcessTypes
  <2>2. /\ Len(left(q)) = Len(backlog[q])
        /\ \A j \in 1 .. Len(backlog[q]) :
             left(q)[j] = IF backlog[q][j] = p THEN None ELSE backlog[q][j]
    BY <2>1
  <2> HIDE DEF left
  <2>3. q # p
    <3>1. Len(<<>>) = 0
      OBVIOUS
    <3> QED
      BY <1>1, <3>1
  <2>4. backlog'[q] = left(q)
    BY <1>1, <2>3
  <2> QED
    BY <2>2, <2>3, <2>4
<1> HIDE DEF left
<1>3. ListeningInv'
  BY <1>0, ProcessTypes DEF FdsInv, ListeningInv
<1>4. WaitingInv'
  <2> SUFFICES ASSUME NEW r \in Procs, NEW i \in 1 .. Len(backlog'[r]),
                      backlog'[r][i] # None
               PROVE  Waits(r, i)'
    BY DEF WaitingInv
  <2> DEFINE q == backlog[r][i]
  <2>1. /\ r # p /\ i \in 1 .. Len(backlog[r]) /\ q # p
        /\ backlog'[r][i] = q
    BY <1>2
  <2>2. /\ pc[r] = "accept" /\ pc[q] \in Joining /\ peer[q] = r
        /\ fds[q] = <<>> /\ inbox[q] = <<>> /\ q \in Procs
        /\ \A j \in 1 .. Len(backlog[r]) : backlog[r][j] = q => i = j
    BY <2>1, ProcessTypes DEF FdsInv, WaitingInv, Waits
  <2> HIDE DEF q
  <2>3. \A j \in 1 .. Len(backlog'[r]) : backlog'[r][j] = q => i = j
    BY <1>2, <2>1, <2>2
  <2> QED
    BY <1>0, <2>1, <2>2, <2>3 DEF Waits
<1>5. FreshInv'
  BY <1>0 DEF FdsInv, FreshInv
<1>6. OwnInv'
  BY <1>0 DEF FdsInv, OwnInv
<1>7. StreamInv'
  BY <1>0 DEF FdsInv, StreamInv, Joining
<1>8. LinkedInv'
  <2> SUFFICES ASSUME NEW r \in Procs, pc'[r] \in Sending, peer'[r] # None
               PROVE  Linked(r)'
    BY DEF LinkedInv
  <2> DEFINE u == peer[r]
  <2>1. r # p /\ u # p /\ pc'[r] = pc[r] /\ peer'[r] = u
    BY <1>0 DEF Sending
  <2>2. /\ pc[u] \in Joining /\ peer[u] = r /\ u \in Procs
        /\ Len(fds[u]) + Len(inbox[u]) = Len(fds[r])
        /\ Carries(fds[u], inbox[u], memfd[r])
    BY <2>1, ProcessTypes DEF FdsInv, LinkedInv, Linked
  <2> HIDE DEF u
  <2> QED
    BY <1>0, <2>1, <2>2 DEF Linked
<1> QED
  BY <1>3, <1>4, <1>5, <1>6, <1>7, <1>8 DEF FdsInv

LEMMA FdsStep == IInv /\ FdsInv /\ [Next]_vars => FdsInv'
<1> SUFFICES ASSUME IInv, FdsInv, [Next]_vars PROVE FdsInv'
  OBVIOUS
<1>0. TypeOK /\ TypeOK'
  BY TypeStep DEF IInv
<1>1. ASSUME NEW p \in Procs, NEW n \in Sizes, Call(p, n) PROVE FdsInv'
  <2>1. /\ \A q \in Procs : pc'[q] = IF q = p THEN "bind" ELSE pc[q]
        /\ pc[p] = "idle" /\ listening' = listening
        /\ UNCHANGED <<backlog, streams, memfd, fds>>
    BY <1>0, <1>1 DEF Call, Goto, TypeOK, sockets
  <2> QED
    BY <1>0, <2>1, QuietFds
<1>2. ASSUME NEW p \in Procs, Bind(p) PROVE FdsInv'
  <2>1. /\ \A q \in Procs : pc'[q] = IF q = p THEN "listen" ELSE pc[q]
        /\ pc[p] = "bind" /\ listening' = listening
        /\ UNCHANGED <<backlog, streams, memfd, fds>>
    BY <1>0, <1>2 DEF Bind, Goto, TypeOK, result
  <2> QED
    BY <1>0, <2>1, QuietFds
<1>3. ASSUME NEW p \in Procs, AddrInUse(p) PROVE FdsInv'
  <2>1. /\ \A q \in Procs : pc'[q] = IF q = p THEN "connect" ELSE pc[q]
        /\ pc[p] = "bind" /\ listening' = listening
        /\ UNCHANGED <<backlog, streams, memfd, fds>>
    BY <1>0, <1>3 DEF AddrInUse, Goto, TypeOK, sockets, result
  <2> QED
    BY <1>0, <2>1, QuietFds
<1>4. ASSUME NEW p \in Procs, Listen(p) PROVE FdsInv'
  <2>1. /\ \A q \in Procs : pc'[q] = IF q = p THEN "accept" ELSE pc[q]
        /\ pc[p] = "listen" /\ listening' = listening \cup {p}
        /\ UNCHANGED <<backlog, streams, memfd, fds>>
    BY <1>0, <1>4 DEF Listen, Goto, TypeOK, result
  <2> QED
    BY <1>0, <2>1, QuietFds
<1>5. ASSUME NEW p \in Procs, Remove(p) PROVE FdsInv'
  <2>1. /\ \A q \in Procs : pc'[q] = IF q = p THEN "receive" ELSE pc[q]
        /\ pc[p] = "remove" /\ listening' = listening
        /\ UNCHANGED <<backlog, streams, memfd, fds>>
    BY <1>0, <1>5 DEF Remove, Goto, TypeOK, result
  <2> QED
    BY <1>0, <2>1, QuietFds
<1>6. ASSUME NEW p \in Procs, ZeroHeader(p) PROVE FdsInv'
  <2>1. /\ \A q \in Procs : pc'[q] = IF q = p THEN "markReady" ELSE pc[q]
        /\ pc[p] = "share" /\ listening' = listening /\ Len(fds[p]) = NumFds
        /\ UNCHANGED <<backlog, streams, memfd, fds>>
    BY <1>0, <1>6 DEF ZeroHeader, Goto, TypeOK, sockets, result
  <2> QED
    BY <1>0, <2>1, QuietFds
<1>7. ASSUME NEW p \in Procs, Error(p) \/ Drop(p) \/ Fail(p) PROVE FdsInv'
  <2>1. Close(p)
    BY <1>7 DEF Error, Drop, Fail
  <2> QED
    BY <1>0, <2>1, CloseFds
<1>8. CASE UNCHANGED vars
  <2>1. UNCHANGED <<listening, backlog, peer, inbox, pc, memfd, fds>>
    BY <1>8 DEF vars, sockets, streams, result
  <2> QED
    BY <2>1 DEF FdsInv, ListeningInv, WaitingInv, FreshInv, OwnInv, StreamInv,
                LinkedInv, Waits, Linked
<1> QED
  BY <1>0, <1>1, <1>2, <1>3, <1>4, <1>5, <1>6, <1>7, <1>8, AcceptFds,
     ConnectFds, CreateFds, SendFdFds, MarkReadyFds, ReceiveFdFds,
     ReceiveMemfdFds DEF Next, Step

(* However many processes race for the path, fail and come again: whoever  *)
(* has a queue has all the descriptors that go with its memory file, in    *)
(* the order in which they were sent, and no joiner rejects a payload.     *)
THEOREM FdsInOrderHolds == Spec => []FdsInOrder
<1>1. TypeOK /\ FdsInv => FdsInOrder
  <2> SUFFICES ASSUME TypeOK, FdsInv, NEW p \in Procs
               PROVE  /\ pc[p] \in {"markReady", "using"} =>
                           fds[p] = [k \in 1 .. NumFds |-> Fd(memfd[p], k)]
                      /\ pc[p] = "receive" /\ inbox[p] # <<>> =>
                           Head(inbox[p]).payload \in {NEGOTIATION, Len(fds[p]) + 1}
    BY DEF FdsInOrder
  <2>1. fds[p] \in Seq(Nat \X Nat) /\ inbox[p] \in Seq(Messages)
    BY ProcessTypes
  <2>2. ASSUME pc[p] \in {"markReady", "using"}
        PROVE  fds[p] = [k \in 1 .. NumFds |-> Fd(memfd[p], k)]
    <3>1. Len(fds[p]) = NumFds /\ Describe(fds[p], memfd[p])
      BY <2>2 DEF FdsInv, OwnInv
    <3>2. fds[p] = [k \in 1 .. NumFds |-> fds[p][k]]
      BY <2>1, <3>1
    <3>3. \A k \in 1 .. NumFds : fds[p][k] = Fd(memfd[p], k)
      BY <3>1 DEF Describe
    <3> QED
      BY <3>2, <3>3
  <2>3. ASSUME pc[p] = "receive", inbox[p] # <<>>
        PROVE  Head(inbox[p]).payload \in {NEGOTIATION, Len(fds[p]) + 1}
    <3>1. PICK f \in Nat : Carries(fds[p], inbox[p], f)
      BY <2>3 DEF FdsInv, StreamInv, Joining
    <3> QED
      BY <2>1, <2>3, <3>1, Arrives
  <2> QED
    BY <2>2, <2>3
<1>2. IInv => TypeOK
  BY DEF IInv
<1> QED
  BY InitFds, IInvHolds, FdsStep, <1>1, <1>2, PTL DEF Spec
==============================================================================
