-------------------------------- MODULE Mutex --------------------------------
(***************************************************************************)
(* What the locks of synch.c promise, without semaphores or scheduling: a  *)
(* lock is acquired only while nobody owns it, and only its owner releases *)
(* it.  The modules of the kernel's other components use locks this way.   *)
(***************************************************************************)
CONSTANTS Thread, Lock

VARIABLE owners    \* the threads that own each lock

Init == owners = [l \in Lock |-> {}]

Acquire(t, l) ==
  /\ owners[l] = {}
  /\ owners' = [owners EXCEPT ![l] = {t}]

Release(t, l) ==
  /\ owners[l] = {t}
  /\ owners' = [owners EXCEPT ![l] = {}]

Next == \E t \in Thread, l \in Lock : Acquire(t, l) \/ Release(t, l)

Spec == Init /\ [][Next]_owners
=============================================================================
