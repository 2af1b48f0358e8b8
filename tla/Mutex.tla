-------------------------------- MODULE Mutex --------------------------------
(***************************************************************************)
(* What a lock promises, whatever it is made of: at most one holder, and   *)
(* the holder alone gives it back.  It is the contract of Control::lock    *)
(* and of dropping its guard (src/src/control/mod.rs), on which MemeQueue  *)
(* relies for both halves of the header.                                   *)
(***************************************************************************)
CONSTANT Procs          \* the threads that share the lock

VARIABLE holders        \* the threads that hold a guard

Init == holders = {}

\* Control::lock returns a guard to p.
Acquire(p) == holders = {} /\ holders' = {p}

\* p drops its guard.
Release(p) == holders = {p} /\ holders' = {}

Next == \E p \in Procs : Acquire(p) \/ Release(p)

Spec == Init /\ [][Next]_holders
==============================================================================
