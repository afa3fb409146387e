------------------------------- MODULE MCSynch -------------------------------
(* Instances of Synch for TLC. *)
EXTENDS Synch, TLC

CONSTANTS w1, w2, w3, c1, l1, l2, d1

MCLockOf == [c \in Cond |-> l1]

(* The worker threads are interchangeable. *)
Workers == Permutations(Thread \ {Main, Idle})
=============================================================================
