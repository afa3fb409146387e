-------------------------- MODULE SynchInvariance ---------------------------
(***************************************************************************)
(* The theorems about Synch, for every set of threads, locks, conditions   *)
(* and devices and every TIME_SLICE: the invariant IInv and its parts, the *)
(* refinement of Mutex, and, with the invariant, that no wakeup is lost.   *)
(***************************************************************************)
EXTENDS SynchLocks, SynchWakeups, FiniteSetTheorems

LEMMA InvariantSplit ==
  IInv <=> TypeOK /\ SI /\ LI
BY Zenon DEF IInv, SI, LI

(* IInv is an invariant of the scheduler and the primitives of synch.c,    *)
(* for any number of threads, locks, conditions and devices.               *)
THEOREM Invariance == Spec => []IInv
<1>1. Init => IInv
  BY InitInvariant, InvariantSplit, Zenon
<1>2. IInv /\ [Next]_vars => IInv'
  <2>1. SUFFICES ASSUME IInv, [Next]_vars PROVE IInv'
    BY Zenon
  <2>2. TypeOK /\ SI /\ LI
    BY <2>1, InvariantSplit, Zenon
  <2>3. Preserved
    BY <2>1, <2>2, NextPreserves, StutterPreserves, Zenon
  <2>4. QED
    BY <2>3, Zenon DEF Preserved, IInv, SI, LI
<1>3. QED
  BY <1>1, <1>2, PTL DEF Spec

(* The variables keep their types; in particular schedule() always finds a *)
(* thread to run, as its ASSERT demands.                                   *)
THEOREM TypeCorrect == Spec => []TypeOK
<1>1. IInv => TypeOK
  BY Zenon DEF IInv
<1>2. QED
  BY <1>1, Invariance, PTL

(* thread.h's claim about `elem': a thread is on one list at most, once,   *)
(* and its status and place agree with that list.                          *)
THEOREM ListsDisjoint == Spec => []ElemOnOneList
<1>1. IInv => ElemOnOneList
  BY Zenon DEF IInv
<1>2. QED
  BY <1>1, Invariance, PTL

(* One thread is RUNNING, the one the CPU executes, and no READY thread is *)
(* forgotten by the run queue.                                             *)
THEOREM SchedulerCorrect == Spec => []SchedulerConsistent
<1>1. IInv => SchedulerConsistent
  BY Zenon DEF IInv
<1>2. QED
  BY <1>1, Invariance, PTL

(* A lock has one owner at most, and its semaphore says whether it has one. *)
THEOREM LocksExclude == Spec => []MutualExclusion
<1>1. IInv => MutualExclusion
  BY Zenon DEF IInv
<1>2. QED
  BY <1>1, Invariance, PTL

(* allocate_tid never gives the same tid twice. *)
THEOREM TidsNeverRepeat == Spec => []TidsUnique
<1>1. IInv => TidsUnique
  BY Zenon DEF IInv
<1>2. QED
  BY <1>1, Invariance, PTL

(* The locks of synch.c implement the abstract Mutex. *)
THEOREM LocksImplementMutex == Spec => ImplementsMutex
<1>1. Init => M!Init
  <2>1. SUFFICES ASSUME Init PROVE M!Init
    BY Zenon
  <2>2. \A t \in Thread, l \in Lock : ~Owns(t, l)
    BY <2>1, SchedulerAssumption, Zenon DEF Init, SchedInit, Owns
  <2>3. QED
    BY <2>2, Zenon DEF M!Init, Owners
<1>2. IInv /\ [Next]_vars => [M!Next]_Owners
  <2>1. SUFFICES ASSUME IInv, [Next]_vars PROVE [M!Next]_Owners
    BY Zenon
  <2>2. TypeOK /\ SI /\ LI
    BY <2>1, InvariantSplit, Zenon
  <2>3. Preserved
    BY <2>1, <2>2, NextPreserves, StutterPreserves, Zenon
  <2>4. QED
    BY <2>2, <2>3, OwnerStepRefines, Zenon DEF Preserved, LI
<1>3. QED
  BY <1>1, <1>2, Invariance, PTL DEF Spec, ImplementsMutex, M!Spec

-----------------------------------------------------------------------------
(* The wakeups. *)

LEMMA MembersFinite ==
  ASSUME NEW S, NEW q \in Seq(S), NEW x, NEW y,
         NEW T, T \subseteq Members(q) \cup {x, y}
  PROVE  IsFiniteSet(T)
<1>1. DOMAIN q = 1..Len(q) /\ Len(q) \in Nat /\ q = [i \in DOMAIN q |-> q[i]]
  OBVIOUS
<1>2. q \in Surjection(1..Len(q), Members(q))
  BY <1>1, Zenon DEF Surjection, Members
<1>3. IsFiniteSet(Members(q))
  BY <1>1, <1>2, FS_NatSurjection, Zenon DEF ExistsSurjection
<1>4. IsFiniteSet((Members(q) \cup {x}) \cup {y})
  BY <1>3, FS_AddElement, Zenon
<1>5. T \in SUBSET ((Members(q) \cup {x}) \cup {y})
  OBVIOUS
<1>6. QED
  BY <1>4, <1>5, FS_Subset, Zenon

(* A woken thread runs or is on the run queue, so there are finitely many. *)
LEMMA WokenFinite ==
  ASSUME TypeOK, SI, NEW s \in Sema
  PROVE  IsFiniteSet(Woken(s))
<1>1. Woken(s) \subseteq Members(ready_list) \cup {current, idle_thread}
  BY Zenon DEF Woken, SI, SchedulerConsistent
<1>2. ready_list \in Seq(Thread)
  BY Zenon DEF TypeOK
<1>3. QED
  BY <1>1, <1>2, MembersFinite, Zenon

LEMMA WokenFiniteAfter ==
  ASSUME TypeOK', SI', NEW s \in Sema
  PROVE  IsFiniteSet(Woken(s)')
<1>1. Woken(s)' \subseteq Members(ready_list') \cup {current', idle_thread'}
  BY Zenon DEF Woken, SI, SchedulerConsistent, Members
<1>2. ready_list' \in Seq(Thread)
  BY Zenon DEF TypeOK
<1>3. QED
  BY <1>1, <1>2, MembersFinite, Zenon

LEMMA SemaStepKeeps ==
  ASSUME TypeOK, TypeOK', SI, SI', NoLostWakeup, \A s \in Sema : SemaStep(s)
  PROVE  NoLostWakeup'
<1>1. SUFFICES ASSUME NEW s \in Sema, waiters'[s] # <<>>
               PROVE  value'[s] <= Cardinality(Woken(s)')
  BY Zenon DEF NoLostWakeup
<1>. DEFINE A == Woken(s)
            B == Woken(s)'
<1>2. IsFiniteSet(A) /\ IsFiniteSet(B)
  BY WokenFinite, WokenFiniteAfter, Zenon
<1>3. /\ Cardinality(A) \in Nat /\ Cardinality(B) \in Nat
      /\ value[s] \in Nat /\ value'[s] \in Nat
  BY <1>2, FS_CardinalityType, Zenon DEF TypeOK
<1>4. waiters[s] # <<>> => value[s] <= Cardinality(A)
  BY Zenon DEF NoLostWakeup
<1>5. \A T \in SUBSET B : Cardinality(T) <= Cardinality(B)
  BY <1>2, FS_Subset, Zenon
<1>6. CASE SemaSame(s)
  <2>1. A \in SUBSET B
    BY <1>6, Zenon DEF SemaSame
  <2>2. value'[s] = value[s] /\ waiters[s] # <<>>
    BY <1>1, <1>6, Zenon DEF SemaSame
  <2>3. Cardinality(A) <= Cardinality(B)
    BY <1>5, <2>1, Zenon
  <2>. HIDE DEF A, B
  <2>4. value'[s] <= Cardinality(B)
    BY <1>3, <1>4, <2>2, <2>3
  <2>5. QED
    BY <2>4, Zenon DEF B
<1>7. CASE SemaFree(s)
  <2>1. value'[s] = 0
    BY <1>1, <1>7, Zenon DEF SemaFree
  <2>. HIDE DEF A, B
  <2>2. value'[s] <= Cardinality(B)
    BY <1>3, <2>1
  <2>3. QED
    BY <2>2, Zenon DEF B
<1>8. CASE SemaTake(s)
  <2>1. A \ {current} \in SUBSET B
    BY <1>8, Zenon DEF SemaTake
  <2>2. value'[s] = value[s] - 1 /\ waiters[s] # <<>>
    BY <1>1, <1>8, Zenon DEF SemaTake
  <2>3. Cardinality(A \ {current}) <= Cardinality(B)
    BY <1>5, <2>1, Zenon
  <2>4. Cardinality(A \ {current}) = IF current \in A THEN Cardinality(A) - 1 ELSE Cardinality(A)
    BY <1>2, FS_RemoveElement, Zenon
  <2>. HIDE DEF A, B
  <2>5. value'[s] <= Cardinality(B)
    BY <1>3, <1>4, <2>2, <2>3, <2>4
  <2>6. QED
    BY <2>5, Zenon DEF B
<1>9. CASE SemaWake(s)
  <2>1. PICK w \in Thread : w \notin A /\ A \cup {w} \in SUBSET B
    BY <1>9, Zenon DEF SemaWake
  <2>2. value'[s] = value[s] + 1 /\ waiters[s] # <<>>
    BY <1>9, Zenon DEF SemaWake
  <2>3. Cardinality(A \cup {w}) <= Cardinality(B)
    BY <1>5, <2>1, Zenon
  <2>4. Cardinality(A \cup {w}) = Cardinality(A) + 1
    BY <1>2, <2>1, FS_AddElement, Zenon
  <2>. HIDE DEF A, B
  <2>5. value'[s] <= Cardinality(B)
    BY <1>3, <1>4, <2>2, <2>3, <2>4
  <2>6. QED
    BY <2>5, Zenon DEF B
<1>10. SemaStep(s)
  BY Zenon
<1>11. QED
  BY <1>6, <1>7, <1>8, <1>9, <1>10, Zenon DEF SemaStep

(* What is invariant besides IInv. *)
WInv == SignalInv /\ SignalNotLost /\ NoLostWakeup

LEMMA InitWInv ==
  ASSUME Init
  PROVE  WInv
<1>1. \A t \in Thread : pc[t] \in {"boot", "entry", "none"}
  BY Zenon DEF Init, SchedInit
<1>2. \A t \in Thread : ~Waits(t)
  BY <1>1, Zenon DEF Waits
<1>3. \A t, u \in Thread : ~Signals(u, t)
  BY <1>1, Zenon DEF Signals
<1>4. \A c \in Cond : Members(cond_waiters[c]) = {} /\ NoRepeat(cond_waiters[c])
  BY DEF Init, Members, NoRepeat
<1>5. SignalInv /\ SignalNotLost
  BY <1>1, <1>2, <1>3, <1>4, Zenon DEF SignalInv, SignalNotLost
<1>6. NoLostWakeup
  BY Zenon DEF Init, NoLostWakeup
<1>7. QED
  BY <1>5, <1>6, Zenon DEF WInv

LEMMA StepWInv ==
  ASSUME IInv, IInv', WInv, [Next]_vars
  PROVE  WInv'
<1>1. TypeOK /\ SI /\ CreateInv /\ ArgInv /\ TypeOK' /\ SI'
  BY Zenon DEF IInv, SI
<1>2. Kept
  BY <1>1, NextKept, StutterKept, Zenon DEF WInv
<1>3. NoLostWakeup'
  BY <1>1, <1>2, SemaStepKeeps, Zenon DEF WInv, Kept
<1>4. QED
  BY <1>2, <1>3, Zenon DEF WInv, Kept, SignalKept

(* The parts of WInv are invariants, given IInv. *)
THEOREM Wakeups == Spec => []WInv
<1>1. Init => WInv
  BY InitWInv, Zenon
<1>2. IInv /\ IInv' /\ WInv /\ [Next]_vars => WInv'
  BY StepWInv, Zenon
<1>3. QED
  BY <1>1, <1>2, Invariance, PTL DEF Spec

(* No semaphore loses a wakeup: while threads are queued on it, each unit  *)
(* of its value has a thread that sema_up has woken and that has not yet   *)
(* tested the value again, whatever other threads take units meanwhile.    *)
THEOREM WakeupsNotLost == Spec => []NoLostWakeup
<1>1. WInv => NoLostWakeup
  BY Zenon DEF WInv
<1>2. QED
  BY <1>1, Wakeups, PTL

(* No signal is lost between cond_wait's release of the lock and its       *)
(* sema_down: a waiter is queued, or signalled exactly once.               *)
THEOREM SignalsNotLost == Spec => []SignalNotLost
<1>1. WInv => SignalNotLost
  BY Zenon DEF WInv
<1>2. QED
  BY <1>1, Wakeups, PTL

=============================================================================
