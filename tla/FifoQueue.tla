------------------------------ MODULE FifoQueue ------------------------------
(***************************************************************************)
(* What the queue promises its callers: a bounded first-in first-out       *)
(* channel.  A message is accepted whole, if there is room for it, and is  *)
(* handed to one receiver whole, unchanged and in its turn.                *)
(***************************************************************************)
EXTENDS Integers, Sequences

CONSTANTS
  Messages,     \* what may be sent
  Overhead,     \* what a message occupies besides its own length
  Capacity      \* what all pending messages together may occupy

VARIABLES
  pending,      \* the messages accepted and not yet delivered
  used,         \* what they occupy
  delivered     \* the messages delivered

Occupies(m) == Overhead + Len(m)

Init == pending = <<>> /\ used = 0 /\ delivered = <<>>

Accept(m) ==
  /\ used + Occupies(m) <= Capacity
  /\ pending' = Append(pending, m)
  /\ used' = used + Occupies(m)
  /\ UNCHANGED delivered

Deliver ==
  /\ pending # <<>>
  /\ delivered' = Append(delivered, Head(pending))
  /\ pending' = Tail(pending)
  /\ used' = used - Occupies(Head(pending))

Next == Deliver \/ \E m \in Messages : Accept(m)

Spec == Init /\ [][Next]_<<pending, used, delivered>>
==============================================================================
