----------------------------- MODULE SynchLocks -----------------------------
(***************************************************************************)
(* What the actions of Synch do to the ownership of locks (OwnerStep):     *)
(* nothing, one lock taken by the running thread, or one given back.       *)
(* Mutual exclusion and the refinement of Mutex follow from that.  Every   *)
(* action preserves the invariant of Synch (NextPreserves): first those    *)
(* that leave the ownership alone, of the scheduler, of plain semaphores   *)
(* and of conditions, then those that take, give back and wait for locks,  *)
(* and those of thread_create and allocate_tid.                            *)
(***************************************************************************)
EXTENDS SynchProofs

SameValue(l) == value'[lock_sema(l)] = value[lock_sema(l)]

SameOwners ==
  \A l \in Lock : SameValue(l) /\ \A t \in Thread : Owns(t, l)' <=> Owns(t, l)

Takes(l) ==
  /\ value[lock_sema(l)] # 0
  /\ value'[lock_sema(l)] = value[lock_sema(l)] - 1
  /\ \A t \in Thread : Owns(t, l)' <=> Owns(t, l) \/ t = current
  /\ \A m \in Lock \ {l} : SameValue(m) /\ \A t \in Thread : Owns(t, m)' <=> Owns(t, m)

Gives(l) ==
  /\ Owns(current, l)
  /\ value'[lock_sema(l)] = value[lock_sema(l)] + 1
  /\ \A t \in Thread : Owns(t, l)' <=> Owns(t, l) /\ t # current
  /\ \A m \in Lock \ {l} : SameValue(m) /\ \A t \in Thread : Owns(t, m)' <=> Owns(t, m)

OwnerStep == SameOwners \/ \E l \in Lock : Takes(l) \/ Gives(l)

LEMMA OwnerStepExcludes ==
  ASSUME TypeOK, MutualExclusion, OwnerStep
  PROVE  MutualExclusion'
<1>1. current \in Thread /\ \A l \in Lock : value[lock_sema(l)] \in Nat
  BY SemaFacts, Zenon DEF TypeOK
<1>2. CASE SameOwners
  BY <1>2, Zenon DEF SameOwners, SameValue, MutualExclusion
<1>3. ASSUME NEW l \in Lock, Takes(l)
      PROVE  MutualExclusion'
  <2>1. \A t \in Thread : ~Owns(t, l)
    BY <1>3, Zenon DEF Takes, MutualExclusion
  <2>2. value[lock_sema(l)] = 1
    BY <2>1, Zenon DEF MutualExclusion
  <2>3. QED
    BY <1>1, <1>3, <2>1, <2>2 DEF Takes, SameValue, MutualExclusion
<1>4. ASSUME NEW l \in Lock, Gives(l)
      PROVE  MutualExclusion'
  <2>1. \A t \in Thread : Owns(t, l) => t = current
    BY <1>1, <1>4, Zenon DEF Gives, MutualExclusion
  <2>2. value[lock_sema(l)] = 0
    BY <1>1, <1>4, Zenon DEF Gives, MutualExclusion
  <2>3. QED
    BY <1>1, <1>4, <2>1, <2>2 DEF Gives, SameValue, MutualExclusion
<1>5. QED
  BY <1>2, <1>3, <1>4, Zenon DEF OwnerStep

(* The refinement of Mutex, one step. *)
LEMMA OwnerStepRefines ==
  ASSUME TypeOK, MutualExclusion, OwnerStep
  PROVE  M!Next \/ UNCHANGED Owners
<1>1. current \in Thread
  BY Zenon DEF TypeOK
<1>2. CASE SameOwners
  BY <1>2, Zenon DEF SameOwners, Owners
<1>3. ASSUME NEW l \in Lock, Takes(l)
      PROVE  M!Acquire(current, l)
  <2>1. \A t \in Thread : ~Owns(t, l)
    BY <1>3, Zenon DEF Takes, MutualExclusion
  <2>2. Owners[l] = {}
    BY <2>1, Zenon DEF Owners
  <2>3. Owners' = [Owners EXCEPT ![l] = {current}]
    <3>1. {t \in Thread : Owns(t, l)'} = {current}
      BY <1>1, <1>3, <2>1, Zenon DEF Takes
    <3>2. \A m \in Lock \ {l} : {t \in Thread : Owns(t, m)'} = {t \in Thread : Owns(t, m)}
      BY <1>3, Zenon DEF Takes
    <3>3. QED
      BY <3>1, <3>2, Zenon DEF Owners
  <2>4. QED
    BY <2>2, <2>3, Zenon DEF M!Acquire
<1>4. ASSUME NEW l \in Lock, Gives(l)
      PROVE  M!Release(current, l)
  <2>1. \A t \in Thread : Owns(t, l) <=> t = current
    BY <1>1, <1>4, Zenon DEF Gives, MutualExclusion
  <2>2. Owners[l] = {current}
    BY <1>1, <2>1, Zenon DEF Owners
  <2>3. Owners' = [Owners EXCEPT ![l] = {}]
    <3>1. {t \in Thread : Owns(t, l)'} = {}
      BY <1>4, <2>1, Zenon DEF Gives
    <3>2. \A m \in Lock \ {l} : {t \in Thread : Owns(t, m)'} = {t \in Thread : Owns(t, m)}
      BY <1>4, Zenon DEF Gives
    <3>3. QED
      BY <3>1, <3>2, Zenon DEF Owners
  <2>4. QED
    BY <2>2, <2>3, Zenon DEF M!Release
<1>5. QED
  BY <1>1, <1>2, <1>3, <1>4, Zenon DEF OwnerStep, M!Next

-----------------------------------------------------------------------------
(* The rest of the invariant. *)
LI == CreateInv /\ ArgInv /\ HolderInv /\ MutualExclusion /\ TidInv /\ TidsUnique

(* The private state of the threads that are not running does not change. *)
Frame ==
  \A t \in Thread : t # current =>
    pc'[t] = pc[t] /\ on'[t] = on[t] /\ lk'[t] = lk[t] /\ cv'[t] = cv[t] /\ new'[t] = new[t]

(* t is neither at a lock, nor creating a thread, nor being created. *)
Neutral(t) ==
  /\ pc[t] \notin {"none", "got", "release_up", "w_up", "c_up",
                   "c_lock", "c_tid", "c_inc", "c_release", "c_unblock"}
  /\ ~(pc[t] = "down" /\ on[t] \in LockSema)

NeutralBefore ==
  /\ TypeOK /\ LI /\ Frame /\ StatusFrame
  /\ UNCHANGED <<holder, tidVars, lk>>
  /\ \A l \in Lock : SameValue(l)
  /\ \/ /\ pc'[current] = pc[current] /\ on'[current] = on[current]
        /\ cv'[current] = cv[current]
     \/ /\ Neutral(current)
        /\ \A t \in Thread : t = current =>
             /\ Neutral(t)'
             /\ pc'[t] \in {"w_release", "w_down", "w_acquire", "bcast", "bcast_up"}
                \/ (pc'[t] = "down" /\ on'[t] \in StackSema) => cv'[t] \in Cond
             /\ pc'[t] \in {"signal_up", "bcast_up"} => on'[t] \in StackSema

(* A step of the running thread away from locks and thread_create. *)
LEMMA NeutralStep ==
  ASSUME NeutralBefore
  PROVE  LI' /\ OwnerStep
<1>. USE DEF NeutralBefore
<1>1. current \in Thread /\ lock_sema(tid_lock) \in LockSema
  BY SynchAssumption, SemaFacts, Zenon DEF TypeOK
<1>2. SameOwners
  BY <1>1, Zenon DEF SameOwners, Owns, Neutral, Frame
<1>3. MutualExclusion'
  BY <1>2, OwnerStepExcludes, Zenon DEF OwnerStep, LI
<1>4. ArgInv'
  BY <1>1, ZenonT(40) DEF LI, ArgInv, Neutral, Frame
<1>5. HolderInv'
  BY <1>1 DEF LI, HolderInv, Neutral, Frame
<1>6. \A t \in Thread : Creating(t)' <=> Creating(t)
  BY <1>1, Zenon DEF Creating, Neutral, Frame
<1>7. \A t \in Thread : pc'[t] = "none" <=> pc[t] = "none"
  BY <1>1, Zenon DEF Neutral, Frame
<1>8. CreateInv'
  BY <1>1, <1>6, <1>7, Zenon DEF LI, CreateInv, StatusFrame, tidVars
<1>9. \A t \in Thread : /\ pc'[t] = "c_tid" <=> pc[t] = "c_tid"
                        /\ pc'[t] = "c_inc" <=> pc[t] = "c_inc"
                        /\ pc'[t] = "c_release" <=> pc[t] = "c_release"
  BY <1>1, Zenon DEF Neutral, Frame
<1>10. TidInv'
  BY <1>9, Zenon DEF LI, TidInv, tidVars
<1>11. TidsUnique'
  BY Zenon DEF LI, TidsUnique, tidVars
<1>12. QED
  BY <1>2, <1>3, <1>4, <1>5, <1>8, <1>10, <1>11, Zenon DEF LI, OwnerStep

-----------------------------------------------------------------------------
(* The actions, one by one. *)
Preserved == TypeOK' /\ SI' /\ LI' /\ OwnerStep

LEMMA TickPreserves ==
  ASSUME TypeOK, SI, LI, Tick
  PROVE  Preserved
<1>1. TypeOK' /\ SI' /\ StatusFrame
  BY TickStep, Zenon
<1>2. /\ UNCHANGED <<holder, tidVars, lk, on, cv, value>>
      /\ pc' = IF pc[current] = "hlt" THEN [pc EXCEPT ![current] = "idle"] ELSE pc
  BY Zenon DEF Tick, ThreadTick, WakeHlt, synchVars
<1>3. Frame
  BY <1>2, Zenon DEF Frame, tidVars, TypeOK
<1>4. NeutralBefore
  BY <1>1, <1>2, <1>3, Zenon DEF NeutralBefore, Neutral, SameValue, TypeOK
<1>5. QED
  BY <1>1, <1>4, NeutralStep, Zenon DEF Preserved

LEMMA YieldReturnPreserves ==
  ASSUME TypeOK, SI, LI, YieldReturn, UNCHANGED <<synchVars, tidVars>>
  PROVE  Preserved
<1>1. TypeOK' /\ SI' /\ StatusFrame
  BY YieldReturnStep, Zenon DEF StatusFrame, YieldReturn
<1>2. NeutralBefore
  BY <1>1, Zenon DEF NeutralBefore, SameValue, Frame, YieldReturn, synchVars, tidVars
<1>3. QED
  BY <1>1, <1>2, NeutralStep, Zenon DEF Preserved

LEMMA KernelThreadPreserves ==
  ASSUME TypeOK, SI, LI, KernelThread, UNCHANGED <<synchVars, tidVars>>
  PROVE  Preserved
<1>1. TypeOK' /\ SI' /\ StatusFrame
  BY KernelThreadStep, Zenon DEF StatusFrame, KernelThread
<1>2. /\ pc' = [pc EXCEPT ![current] = IF current = Idle THEN "idle_set" ELSE "run"]
      /\ pc[current] = "entry"
  BY Zenon DEF KernelThread, goto
<1>3. NeutralBefore
  BY <1>1, <1>2, Zenon DEF NeutralBefore, Neutral, SameValue, Frame, TypeOK, synchVars, tidVars
<1>4. QED
  BY <1>1, <1>3, NeutralStep, Zenon DEF Preserved

LEMMA IdleHaltPreserves ==
  ASSUME TypeOK, SI, LI, IdleHalt, UNCHANGED <<synchVars, tidVars>>
  PROVE  Preserved
<1>1. TypeOK' /\ SI' /\ StatusFrame
  BY IdleHaltStep, Zenon DEF StatusFrame, IdleHalt
<1>2. NeutralBefore
  BY <1>1, Zenon DEF NeutralBefore, Neutral, SameValue, Frame, TypeOK, IdleHalt, goto, synchVars, tidVars
<1>3. QED
  BY <1>1, <1>2, NeutralStep, Zenon DEF Preserved

LEMMA IdleSetPreserves ==
  ASSUME TypeOK, SI, LI, IdleSet, UNCHANGED <<synchVars, tidVars>>
  PROVE  Preserved
<1>1. TypeOK' /\ SI' /\ StatusFrame
  BY IdleSetStep, Zenon DEF StatusFrame, IdleSet
<1>2. NeutralBefore
  BY <1>1, Zenon DEF NeutralBefore, Neutral, SameValue, Frame, TypeOK, IdleSet, goto, synchVars, tidVars
<1>3. QED
  BY <1>1, <1>2, NeutralStep, Zenon DEF Preserved

LEMMA IdleBlockPreserves ==
  ASSUME TypeOK, SI, LI, IdleBlock, UNCHANGED <<synchVars, tidVars>>
  PROVE  Preserved
<1>1. TypeOK' /\ SI' /\ StatusFrame
  BY IdleBlockStep, Zenon
<1>2. NeutralBefore
  BY <1>1, Zenon DEF NeutralBefore, Neutral, SameValue, Frame, TypeOK, IdleBlock, goto, synchVars, tidVars
<1>3. QED
  BY <1>1, <1>2, NeutralStep, Zenon DEF Preserved

LEMMA YieldPreserves ==
  ASSUME TypeOK, SI, LI, ThreadYield
  PROVE  Preserved
<1>1. /\ thread_yield /\ pc' = pc /\ pc[current] = "run"
      /\ UNCHANGED <<value, waiters, holder, cond_waiters, on, lk, cv, tid, next_tid, new>>
  BY Zenon DEF ThreadYield, At, synchVars, tidVars
<1>2. PlaceStep(pc[current])
  BY <1>1, StayPlace, Zenon
<1>3. SI' /\ SwitchAfter(status)
  BY <1>1, <1>2, YieldStep, Zenon
<1>4. TypeOK' /\ StatusFrame
  <2>1. thread_ticks' \in 0..(TIME_SLICE - 1)
    <3>1. thread_ticks' = 0
      BY <1>3, Zenon DEF SwitchAfter
    <3>2. QED
      BY <3>1, SchedulerAssumption
  <2>2. TypeOK'
    BY <1>1, <1>3, <2>1, Zenon DEF SwitchAfter, TypeOK
  <2>3. StatusFrame
    BY <1>1, <1>3, Zenon DEF SwitchAfter, StatusFrame
  <2>4. QED
    BY <2>2, <2>3, Zenon
<1>5. NeutralBefore
  BY <1>1, <1>4, Zenon DEF NeutralBefore, SameValue, Frame, tidVars
<1>6. QED
  BY <1>3, <1>4, <1>5, NeutralStep, Zenon DEF Preserved

LEMMA ExitPreserves ==
  ASSUME TypeOK, SI, LI, ThreadExit
  PROVE  Preserved
<1>1. TypeOK' /\ SI' /\ StatusFrame
  BY ExitStep, Zenon
<1>2. /\ pc[current] = "run" /\ pc' = [pc EXCEPT ![current] = "dead"]
      /\ value' = IF current = Main THEN value
                                    ELSE [value EXCEPT ![exit_sema(current)] = @ + 1]
      /\ UNCHANGED <<holder, cond_waiters, on, lk, cv, tidVars>>
  BY Zenon DEF ThreadExit, At, goto
<1>3. \A l \in Lock : SameValue(l)
  BY <1>2, SemaFacts DEF SameValue, TypeOK
<1>4. NeutralBefore
  BY <1>1, <1>2, <1>3, Zenon DEF NeutralBefore, Neutral, Frame, TypeOK, tidVars
<1>5. QED
  BY <1>1, <1>4, NeutralStep, Zenon DEF Preserved

(* sema_down on a semaphore that is not a lock's. *)
LEMMA PlainDownPreserves ==
  ASSUME TypeOK, SI, LI, NEW s \in Sema, s \notin LockSema, sema_down(s),
         pc[current] \in {"run", "boot", "w_down", "down"},
         pc[current] = "down" => on[current] = s,
         s \in StackSema => cv[current] \in Cond,
         UNCHANGED <<holder, cond_waiters, lk, cv, tidVars>>
  PROVE  Preserved
<1>1. TypeOK' /\ SI' /\ StatusFrame
  <2>1. pc[current] \notin {"entry"} \cup IdlePlace /\ lk' \in [Thread -> Lock]
    BY Zenon DEF IdlePlace, TypeOK
  <2>2. QED
    BY <2>1, DownTypes, Zenon
<1>2. /\ \A l \in Lock : SameValue(l)
      /\ \/ pc' = [pc EXCEPT ![current] = "down"] /\ on' = [on EXCEPT ![current] = s]
         \/ pc' = [pc EXCEPT ![current] = after_down(s)] /\ on' = on
  <2>1. value \in [Sema -> Nat]
    BY Zenon DEF TypeOK
  <2>2. value' = value \/ value' = [value EXCEPT ![s] = value[s] - 1]
    BY Zenon DEF sema_down
  <2>3. \A l \in Lock : SameValue(l)
    BY <2>1, <2>2, SemaFacts DEF SameValue
  <2>4. QED
    BY <2>3, Zenon DEF sema_down, goto
<1>3. after_down(s) = IF s \in StackSema THEN "w_acquire" ELSE "run"
  BY Zenon DEF after_down
<1>4. NeutralBefore
  <2>1. Frame
    BY <1>2, Zenon DEF Frame, TypeOK, tidVars
  <2>2. Neutral(current)
    BY Zenon DEF Neutral
  <2>3. \A t \in Thread : t = current =>
             /\ Neutral(t)'
             /\ pc'[t] \in {"w_release", "w_down", "w_acquire", "bcast", "bcast_up"}
                \/ (pc'[t] = "down" /\ on'[t] \in StackSema) => cv'[t] \in Cond
             /\ pc'[t] \in {"signal_up", "bcast_up"} => on'[t] \in StackSema
    BY <1>2, <1>3, Zenon DEF Neutral, TypeOK
  <2>4. QED
    BY <1>1, <1>2, <2>1, <2>2, <2>3, Zenon DEF NeutralBefore
<1>5. QED
  BY <1>1, <1>4, NeutralStep, Zenon DEF Preserved

(* sema_up on a semaphore that is not a lock's. *)
LEMMA PlainUpPreserves ==
  ASSUME TypeOK, SI, LI, NEW s \in Sema, s \notin LockSema, sema_up(s),
         NEW place, PlaceStep(place),
         place = pc[current] \/ (Neutral(current) /\ place \in {"idle", "run", "bcast"}),
         place = "bcast" => cv[current] \in Cond,
         UNCHANGED <<holder, cond_waiters, on, lk, cv, tidVars>>
  PROVE  Preserved
<1>1. TypeOK' /\ SI' /\ StatusFrame
  BY UpTypes, Zenon
<1>2. \A l \in Lock : SameValue(l)
  BY SemaFacts DEF sema_up, SameValue, TypeOK
<1>3. Frame /\ pc'[current] = place
  BY Zenon DEF Frame, PlaceStep, TypeOK, tidVars
<1>4. NeutralBefore
  BY <1>1, <1>2, <1>3, Zenon DEF NeutralBefore, Neutral
<1>5. QED
  BY <1>1, <1>4, NeutralStep, Zenon DEF Preserved

LEMMA DevicePreserves ==
  ASSUME TypeOK, SI, LI, NEW d \in Dev, DeviceInterrupt(d)
  PROVE  Preserved
<1>1. dev_sema(d) \in Sema /\ dev_sema(d) \notin LockSema
  BY SemaFacts, Zenon
<1>2. /\ sema_up(dev_sema(d))
      /\ UNCHANGED <<holder, cond_waiters, on, lk, cv, tidVars>>
      /\ pc' = IF pc[current] = "hlt" THEN [pc EXCEPT ![current] = "idle"] ELSE pc
  BY Zenon DEF DeviceInterrupt, WakeHlt
<1>3. CASE pc[current] = "hlt"
  <2>1. PlaceStep("idle") /\ Neutral(current)
    BY <1>2, <1>3, Zenon DEF PlaceStep, Neutral, Place, IdlePlace
  <2>2. QED
    BY <1>1, <1>2, <2>1, PlainUpPreserves, Zenon
<1>4. CASE pc[current] # "hlt"
  <2>1. PlaceStep(pc[current])
    BY <1>2, <1>4, StayPlace, Zenon
  <2>2. pc[current] = "bcast" => cv[current] \in Cond
    BY Zenon DEF LI, ArgInv, TypeOK
  <2>3. QED
    BY <1>1, <1>2, <2>1, <2>2, PlainUpPreserves, Zenon
<1>5. QED
  BY <1>3, <1>4, Zenon

LEMMA IdleUpPreserves ==
  ASSUME TypeOK, SI, LI, IdleUp
  PROVE  Preserved
<1>1. PlaceStep("idle") /\ Neutral(current)
  BY Zenon DEF IdleUp, At, goto, after_up, PlaceStep, Neutral, Place, IdlePlace
<1>2. idle_started \in Sema /\ idle_started \notin LockSema
  BY SemaFacts, Zenon
<1>3. QED
  BY <1>1, <1>2, PlainUpPreserves, Zenon DEF IdleUp

(* Steps that change neither lock nor scheduler. *)
LEMMA TryDownPreserves ==
  ASSUME TypeOK, SI, LI, NEW s \in PlainSema, SemaTryDown(s)
  PROVE  Preserved
<1>1. /\ s \in Sema /\ s \notin LockSema /\ value[s] > 0
      /\ value' = [value EXCEPT ![s] = @ - 1] /\ pc' = pc
      /\ schedUnchanged /\ UNCHANGED <<waiters, holder, cond_waiters, on, lk, cv, tidVars>>
  BY SemaFacts, Zenon DEF SemaTryDown
<1>2. PlaceStep(pc[current]) /\ value' \in [Sema -> Nat]
  <2>1. value \in [Sema -> Nat]
    BY Zenon DEF TypeOK
  <2>2. value[s] - 1 \in Nat
    BY <1>1, <2>1
  <2>3. value' \in [Sema -> Nat]
    BY <1>1, <2>1, <2>2, Zenon
  <2>4. QED
    BY <1>1, <2>3, StayPlace, Zenon
<1>3. TypeOK' /\ SI'
  BY <1>1, <1>2, QuietTypes, Zenon DEF TypeOK, tidVars
<1>4. \A l \in Lock : SameValue(l)
  BY <1>1, SemaFacts DEF SameValue, TypeOK
<1>5. NeutralBefore
  BY <1>1, <1>4, Zenon DEF NeutralBefore, Frame, StatusFrame, schedUnchanged, tidVars
<1>6. QED
  BY <1>3, <1>5, NeutralStep, Zenon DEF Preserved

LEMMA CondWaitPreserves ==
  ASSUME TypeOK, SI, LI, NEW c \in Cond, CondWait(c)
  PROVE  Preserved
<1>. DEFINE s == stack_sema(current)
<1>1. /\ value' = [value EXCEPT ![s] = 0] /\ waiters' = [waiters EXCEPT ![s] = <<>>]
      /\ cond_waiters' = [cond_waiters EXCEPT ![c] = Append(@, current)]
      /\ cv' = [cv EXCEPT ![current] = c]
      /\ pc[current] = "run" /\ pc' = [pc EXCEPT ![current] = "w_release"]
      /\ schedUnchanged /\ UNCHANGED <<holder, on, lk, tidVars>>
  BY Zenon DEF CondWait, At, goto
<1>2. s \in Sema /\ s \notin LockSema /\ current \in Thread
  BY SemaFacts, Zenon DEF TypeOK
<1>3. PlaceStep("w_release")
  BY <1>1, Zenon DEF PlaceStep, Place, IdlePlace
<1>4. /\ value' \in [Sema -> Nat] /\ cv' \in [Thread -> Cond \cup {NULL}]
      /\ waiters' \in [Sema -> Seq(Thread)]
      /\ \A r \in Sema : waiters'[r] = waiters[r] \/ waiters'[r] = <<>>
      /\ cond_waiters' \in [Cond -> Seq(Thread)]
  BY <1>1, <1>2 DEF TypeOK
<1>5. TypeOK' /\ SI'
  BY <1>1, <1>3, <1>4, QuietTypes, Zenon DEF TypeOK, tidVars
<1>6. \A l \in Lock : SameValue(l)
  BY <1>1, <1>2, SemaFacts, Zenon DEF SameValue, TypeOK
<1>7. NeutralBefore
  BY <1>1, <1>6, Zenon DEF NeutralBefore, Neutral, Frame, StatusFrame, schedUnchanged, TypeOK, tidVars
<1>8. QED
  BY <1>5, <1>7, NeutralStep, Zenon DEF Preserved

(* cond_signal, called directly or by cond_broadcast. *)
LEMMA CondSignalPreserves ==
  ASSUME TypeOK, SI, LI, NEW c \in Cond,
         NEW place \in {"signal_up", "bcast_up"}, cond_signal(c, place),
         pc[current] \in {"run", "bcast"},
         place = "bcast_up" => cv[current] \in Cond,
         UNCHANGED <<value, waiters, holder, lk, cv, tidVars>>
  PROVE  Preserved
<1>1. /\ cond_waiters[c] # <<>>
      /\ on' = [on EXCEPT ![current] = stack_sema(Head(cond_waiters[c]))]
      /\ cond_waiters' = [cond_waiters EXCEPT ![c] = Tail(@)]
      /\ pc' = [pc EXCEPT ![current] = place] /\ schedUnchanged
  BY Zenon DEF cond_signal, goto
<1>2. Head(cond_waiters[c]) \in Thread /\ Tail(cond_waiters[c]) \in Seq(Thread)
  BY <1>1 DEF TypeOK
<1>3. /\ stack_sema(Head(cond_waiters[c])) \in StackSema
      /\ stack_sema(Head(cond_waiters[c])) \in Sema
  BY <1>2, SemaFacts, Zenon
<1>4. PlaceStep(place)
  BY <1>1, Zenon DEF PlaceStep, Place, IdlePlace
<1>5. on' \in [Thread -> Sema] /\ cond_waiters' \in [Cond -> Seq(Thread)]
  BY <1>1, <1>2, <1>3, Zenon DEF TypeOK
<1>6. TypeOK' /\ SI'
  BY <1>1, <1>4, <1>5, QuietTypes, Zenon DEF TypeOK, tidVars
<1>7. NeutralBefore
  BY <1>1, <1>3, Zenon DEF NeutralBefore, Neutral, SameValue, Frame, StatusFrame, schedUnchanged,
                    TypeOK, tidVars
<1>8. QED
  BY <1>6, <1>7, NeutralStep, Zenon DEF Preserved

LEMMA CondBroadcastPreserves ==
  ASSUME TypeOK, SI, LI, NEW c \in Cond, CondBroadcast(c)
  PROVE  Preserved
<1>1. /\ cv' = [cv EXCEPT ![current] = c]
      /\ pc[current] = "run" /\ pc' = [pc EXCEPT ![current] = "bcast"] /\ schedUnchanged
      /\ UNCHANGED <<value, waiters, holder, cond_waiters, on, lk, tidVars>>
  BY Zenon DEF CondBroadcast, At, goto
<1>2. PlaceStep("bcast") /\ cv' \in [Thread -> Cond \cup {NULL}]
  BY <1>1, Zenon DEF PlaceStep, Place, IdlePlace, TypeOK
<1>3. TypeOK' /\ SI'
  BY <1>1, <1>2, QuietTypes, Zenon DEF TypeOK, tidVars
<1>4. NeutralBefore
  BY <1>1, Zenon DEF NeutralBefore, Neutral, SameValue, Frame, StatusFrame, schedUnchanged, TypeOK, tidVars
<1>5. QED
  BY <1>3, <1>4, NeutralStep, Zenon DEF Preserved

LEMMA CondBroadcastLoopPreserves ==
  ASSUME TypeOK, SI, LI, CondBroadcastLoop
  PROVE  Preserved
<1>1. /\ pc[current] = "bcast" /\ UNCHANGED <<value, waiters, holder, lk, cv, tidVars>>
      /\ cv[current] \in Cond
  BY Zenon DEF CondBroadcastLoop, At, LI, ArgInv, TypeOK
<1>2. CASE cond_signal(cv[current], "bcast_up")
  BY <1>1, <1>2, CondSignalPreserves, Zenon
<1>3. CASE goto(current, "run") /\ schedUnchanged /\ UNCHANGED <<cond_waiters, on>>
  <2>1. PlaceStep("run")
    BY <1>1, <1>3, Zenon DEF PlaceStep, Place, IdlePlace, goto
  <2>2. TypeOK' /\ SI'
    BY <1>1, <1>3, <2>1, QuietTypes, Zenon DEF TypeOK, tidVars
  <2>3. NeutralBefore
    BY <1>1, <1>3, Zenon DEF NeutralBefore, Neutral, SameValue, Frame, StatusFrame, schedUnchanged,
                      TypeOK, goto, tidVars
  <2>4. QED
    BY <2>2, <2>3, NeutralStep, Zenon DEF Preserved
<1>4. QED
  BY <1>2, <1>3, Zenon DEF CondBroadcastLoop

-----------------------------------------------------------------------------

(* The locks. *)

(* sema_down inside lock_acquire (l): the thread joins the waiters of l or *)
(* takes l.                                                                *)
LEMMA LockDownPreserves ==
  ASSUME TypeOK, SI, LI, NEW l \in Lock, sema_down(lock_sema(l)),
         holder[l] # current, lk' = [lk EXCEPT ![current] = l],
         pc[current] \in {"run", "w_acquire", "c_lock", "down"},
         pc[current] = "down" => on[current] = lock_sema(l),
         Creating(current) <=> l = tid_lock,
         UNCHANGED <<holder, cond_waiters, cv, tidVars>>
  PROVE  Preserved
<1>. DEFINE s == lock_sema(l)
<1>1. s \in Sema /\ s \in LockSema /\ current \in Thread /\ tid_lock \in Lock
  BY SemaFacts, SynchAssumption, Zenon DEF TypeOK
<1>2. TypeOK' /\ SI' /\ StatusFrame
  <2>1. pc[current] \notin {"entry"} \cup IdlePlace /\ lk' \in [Thread -> Lock]
    BY Zenon DEF IdlePlace, TypeOK
  <2>2. QED
    BY <1>1, <2>1, DownTypes, Zenon
<1>3. \/ /\ pc' = [pc EXCEPT ![current] = "down"] /\ on' = [on EXCEPT ![current] = s]
         /\ value' = value
      \/ /\ pc' = [pc EXCEPT ![current] = "got"] /\ on' = on
         /\ value[s] # 0 /\ value' = [value EXCEPT ![s] = @ - 1]
  <2>1. s \notin StackSema
    BY <1>1, SemaFacts, Zenon
  <2>2. after_down(s) = "got"
    BY <1>1, <2>1, Zenon DEF after_down
  <2>3. QED
    BY <2>2, Zenon DEF sema_down, goto
<1>4. Frame
  BY <1>3, Zenon DEF Frame, TypeOK, tidVars
<1>5. /\ lk'[current] = l
      /\ \/ pc'[current] = "down" /\ on'[current] = s
         \/ pc'[current] = "got"
  BY <1>3, Zenon DEF TypeOK
<1>6. OwnerStep
  <2>1. \A t \in Thread, m \in Lock :
          t # current => (Owns(t, m)' <=> Owns(t, m))
    BY <1>4, Zenon DEF Owns, Frame
  <2>2. \A m \in Lock : Owns(current, m) <=> holder[m] = current
    BY Zenon DEF Owns
  <2>3. CASE pc' = [pc EXCEPT ![current] = "down"] /\ value' = value
    <3>1. \A t, m : t = current => (Owns(t, m)' <=> holder[m] = current)
      BY <1>1, <2>3, Zenon DEF Owns, TypeOK
    <3>2. SameOwners
      BY <2>1, <2>2, <2>3, <3>1, Zenon DEF SameOwners, SameValue
    <3>3. QED
      BY <3>2, Zenon DEF OwnerStep
  <2>4. CASE /\ pc' = [pc EXCEPT ![current] = "got"]
             /\ value[s] # 0 /\ value' = [value EXCEPT ![s] = @ - 1]
    <3>1. \A t, m : t = current => (Owns(t, m)' <=> holder[m] = current \/ m = l)
      BY <1>1, <1>5, <2>4, Zenon DEF Owns, TypeOK
    <3>2. /\ value'[s] = value[s] - 1
          /\ \A m \in Lock \ {l} : SameValue(m)
      BY <1>1, <2>4, SemaFacts DEF SameValue, TypeOK
    <3>3. Takes(l)
      BY <1>1, <2>1, <2>2, <2>4, <3>1, <3>2, Zenon DEF Takes
    <3>4. QED
      BY <3>3, Zenon DEF OwnerStep
  <2>5. QED
    BY <1>3, <2>3, <2>4, Zenon
<1>7. MutualExclusion'
  BY <1>6, OwnerStepExcludes, Zenon DEF LI
<1>8. ArgInv'
  BY <1>1, <1>4, <1>5, SemaFacts DEF LI, ArgInv, Frame
<1>9. HolderInv'
  BY <1>4, <1>5 DEF LI, HolderInv, Frame
<1>10. CreateInv'
  <2>1. \A t \in Thread : Creating(t)' <=> Creating(t)
    <3>1. \A t \in Thread : t # current => (Creating(t)' <=> Creating(t))
      BY <1>4, Zenon DEF Creating, Frame
    <3>2. \A t : t = current => (Creating(t)' <=> l = tid_lock)
      BY <1>1, <1>5, SemaFacts, Zenon DEF Creating
    <3>3. QED
      BY <3>1, <3>2, Zenon
  <2>2. \A t \in Thread : pc'[t] = "none" <=> pc[t] = "none"
    BY <1>4, <1>5, Zenon DEF Frame
  <2>3. QED
    BY <1>2, <2>1, <2>2 DEF LI, CreateInv, StatusFrame, tidVars
<1>11. TidInv' /\ TidsUnique'
  <2>1. \A t \in Thread : /\ pc'[t] = "c_tid" <=> pc[t] = "c_tid"
                          /\ pc'[t] = "c_inc" <=> pc[t] = "c_inc"
                          /\ pc'[t] = "c_release" <=> pc[t] = "c_release"
    BY <1>4, <1>5, Zenon DEF Frame
  <2>2. QED
    BY <2>1 DEF LI, TidInv, TidsUnique, tidVars
<1>12. QED
  BY <1>2, <1>6, <1>7, <1>8, <1>9, <1>10, <1>11, Zenon DEF Preserved, LI

LEMMA SemaDownLoopPreserves ==
  ASSUME TypeOK, SI, LI, SemaDownLoop
  PROVE  Preserved
<1>. DEFINE s == on[current]
<1>1. /\ pc[current] = "down" /\ sema_down(s)
      /\ UNCHANGED <<holder, cond_waiters, lk, cv, tidVars>>
  BY Zenon DEF SemaDownLoop
<1>2. s \in Sema /\ current \in Thread /\ lk \in [Thread -> Lock]
  BY Zenon DEF TypeOK
<1>3. CASE s \in LockSema
  <2>1. s = lock_sema(lk[current]) /\ holder[lk[current]] # current
    BY <1>1, <1>2, <1>3, Zenon DEF LI, ArgInv, HolderInv
  <2>2. lk' = [lk EXCEPT ![current] = lk[current]] /\ lk[current] \in Lock
    BY <1>1, <1>2, Zenon
  <2>3. Creating(current) <=> lk[current] = tid_lock
    BY <1>1, <2>1, <2>2, SemaFacts, SynchAssumption, Zenon DEF Creating
  <2>4. QED
    BY <1>1, <2>1, <2>2, <2>3, LockDownPreserves, Zenon
<1>4. CASE s \notin LockSema
  <2>1. s \in StackSema => cv[current] \in Cond
    BY <1>1, <1>2, Zenon DEF LI, ArgInv
  <2>2. QED
    BY <1>1, <1>2, <1>4, <2>1, PlainDownPreserves, Zenon
<1>5. QED
  BY <1>3, <1>4, Zenon

LEMMA LockAcquirePreserves ==
  ASSUME TypeOK, SI, LI, NEW l \in Lock, lock_acquire(l),
         pc[current] \in {"run", "w_acquire", "c_lock"},
         pc[current] = "c_lock" <=> l = tid_lock,
         UNCHANGED <<holder, cond_waiters, cv, tidVars>>
  PROVE  Preserved
<1>1. Creating(current) <=> l = tid_lock
  BY Zenon DEF Creating
<1>2. QED
  BY <1>1, LockDownPreserves, Zenon DEF lock_acquire

LEMMA LockSetHolderPreserves ==
  ASSUME TypeOK, SI, LI, LockSetHolder
  PROVE  Preserved
<1>. DEFINE l == lk[current]
            place == IF l = tid_lock THEN "c_tid" ELSE "run"
<1>1. /\ pc[current] = "got" /\ pc' = [pc EXCEPT ![current] = place]
      /\ holder' = [holder EXCEPT ![l] = current] /\ schedUnchanged
      /\ UNCHANGED <<value, waiters, cond_waiters, on, lk, cv, tidVars>>
  BY Zenon DEF LockSetHolder, At, goto
<1>2. l \in Lock /\ current \in Thread
  BY Zenon DEF TypeOK
<1>3. PlaceStep(place)
  BY <1>1, Zenon DEF PlaceStep, Place, IdlePlace
<1>4. holder' \in [Lock -> Thread \cup {NULL}]
  BY <1>1, <1>2, Zenon DEF TypeOK
<1>. HIDE DEF l
<1>5. TypeOK' /\ SI'
  BY <1>1, <1>3, <1>4, QuietTypes, Zenon DEF TypeOK, tidVars
<1>6. Frame /\ StatusFrame /\ pc'[current] = place /\ pc'[current] # "got"
  BY <1>1, Zenon DEF Frame, StatusFrame, schedUnchanged, TypeOK, tidVars
<1>7. /\ holder'[l] = current /\ \A m \in Lock \ {l} : holder'[m] = holder[m]
  BY <1>1, <1>2, Zenon DEF TypeOK
<1>8. Owns(current, l) /\ \A t \in Thread : t # current => ~Owns(t, l)
  BY <1>1, <1>2, Zenon DEF l, Owns, LI, MutualExclusion
<1>9. \A t \in Thread : t # current => holder[l] # t
  BY <1>8, Zenon DEF Owns
<1>10. SameOwners
  <2>1. \A t \in Thread, m \in Lock : t # current => (Owns(t, m)' <=> Owns(t, m))
    BY <1>1, <1>6, <1>7, <1>9, Zenon DEF Owns, Frame
  <2>2. \A m \in Lock : Owns(current, m) <=> holder[m] = current \/ m = l
    BY <1>1, Zenon DEF l, Owns
  <2>3. \A t \in Thread, m \in Lock : t = current => (Owns(t, m)' <=> holder'[m] = current)
    BY <1>6, Zenon DEF Owns
  <2>4. QED
    BY <1>1, <1>2, <1>7, <2>1, <2>2, <2>3 DEF SameOwners, SameValue
<1>11. MutualExclusion' /\ OwnerStep
  BY <1>10, OwnerStepExcludes, Zenon DEF OwnerStep, LI
<1>12. ArgInv'
  BY <1>1, <1>6 DEF LI, ArgInv, Frame
<1>13. HolderInv'
  BY <1>1, <1>6, <1>7, Zenon DEF LI, HolderInv, Frame, TypeOK
<1>14. CreateInv'
  <2>1. \A t \in Thread : Creating(t)' <=> Creating(t)
    BY <1>1, <1>6 DEF Creating, Frame, l
  <2>2. \A t \in Thread : pc'[t] = "none" <=> pc[t] = "none"
    BY <1>1, <1>6 DEF Frame
  <2>3. QED
    BY <1>6, <2>1, <2>2, <1>1 DEF LI, CreateInv, StatusFrame, tidVars
<1>15. TidInv' /\ TidsUnique'
  <2>1. \A t \in Thread : pc'[t] \in {"c_tid", "c_inc", "c_release"} => holder'[tid_lock] = t
    BY <1>1, <1>6, <1>7, <1>9, SynchAssumption DEF LI, TidInv, Frame
  <2>2. \A t \in Thread : pc'[t] = "c_inc" <=> pc[t] = "c_inc"
    BY <1>1, <1>6 DEF Frame
  <2>3. QED
    BY <1>1, <2>1, <2>2, Zenon DEF LI, TidInv, TidsUnique, tidVars
<1>16. QED
  BY <1>5, <1>11, <1>12, <1>13, <1>14, <1>15, Zenon DEF Preserved, LI

(* sema_try_down inside lock_try_acquire succeeds: as lock_acquire without *)
(* the wait.                                                               *)
LEMMA LockTryAcquirePreserves ==
  ASSUME TypeOK, SI, LI, NEW l \in Lock, LockTryAcquire(l)
  PROVE  Preserved
<1>. DEFINE s == lock_sema(l)
<1>1. /\ pc[current] = "run" /\ pc' = [pc EXCEPT ![current] = "got"]
      /\ l # tid_lock /\ holder[l] # current
      /\ value[s] > 0 /\ value' = [value EXCEPT ![s] = @ - 1]
      /\ lk' = [lk EXCEPT ![current] = l] /\ schedUnchanged
      /\ UNCHANGED <<waiters, holder, cond_waiters, on, cv, tidVars>>
  BY Zenon DEF LockTryAcquire, At, goto
<1>2. s \in Sema /\ current \in Thread /\ value[s] # 0
  BY <1>1, SemaFacts DEF TypeOK
<1>3. PlaceStep("got") /\ lk' \in [Thread -> Lock]
  BY <1>1, Zenon DEF PlaceStep, Place, IdlePlace, TypeOK
<1>4. value' \in [Sema -> Nat]
  <2>1. value \in [Sema -> Nat] /\ value[s] - 1 \in Nat
    BY <1>1, <1>2 DEF TypeOK
  <2>2. QED
    BY <1>1, <2>1, Zenon
<1>5. TypeOK' /\ SI'
  BY <1>1, <1>3, <1>4, QuietTypes, Zenon DEF TypeOK, tidVars
<1>6. Frame /\ StatusFrame /\ pc'[current] = "got" /\ lk'[current] = l
  BY <1>1, Zenon DEF Frame, StatusFrame, schedUnchanged, TypeOK, tidVars
<1>7. Takes(l)
  <2>1. \A t \in Thread, m \in Lock : t # current => (Owns(t, m)' <=> Owns(t, m))
    BY <1>1, <1>6, Zenon DEF Owns, Frame
  <2>2. \A m \in Lock : Owns(current, m) <=> holder[m] = current
    BY <1>1, Zenon DEF Owns
  <2>3. \A t, m : t = current => (Owns(t, m)' <=> holder[m] = current \/ m = l)
    BY <1>1, <1>6, Zenon DEF Owns
  <2>4. value'[s] = value[s] - 1 /\ \A m \in Lock \ {l} : SameValue(m)
    BY <1>1, <1>2, SemaFacts, Zenon DEF SameValue, TypeOK
  <2>5. QED
    BY <1>2, <2>1, <2>2, <2>3, <2>4, Zenon DEF Takes
<1>8. MutualExclusion' /\ OwnerStep
  BY <1>7, OwnerStepExcludes, Zenon DEF OwnerStep, LI
<1>9. ArgInv' /\ HolderInv'
  BY <1>1, <1>6 DEF LI, ArgInv, HolderInv, Frame
<1>10. CreateInv'
  <2>1. \A t \in Thread : Creating(t)' <=> Creating(t)
    BY <1>1, <1>6, Zenon DEF Creating, Frame
  <2>2. \A t \in Thread : pc'[t] = "none" <=> pc[t] = "none"
    BY <1>1, <1>6, Zenon DEF Frame
  <2>3. QED
    BY <1>1, <1>6, <2>1, <2>2 DEF LI, CreateInv, StatusFrame, tidVars
<1>11. TidInv' /\ TidsUnique'
  <2>1. \A t \in Thread : /\ pc'[t] = "c_tid" <=> pc[t] = "c_tid"
                          /\ pc'[t] = "c_inc" <=> pc[t] = "c_inc"
                          /\ pc'[t] = "c_release" <=> pc[t] = "c_release"
    BY <1>1, <1>6, Zenon DEF Frame
  <2>2. QED
    BY <1>1, <2>1 DEF LI, TidInv, TidsUnique, tidVars
<1>12. QED
  BY <1>5, <1>8, <1>9, <1>10, <1>11, Zenon DEF Preserved, LI

(* The first statement of lock_release. *)
LEMMA LockReleasePreserves ==
  ASSUME TypeOK, SI, LI, NEW l \in Lock,
         NEW place \in {"release_up", "w_up", "c_up"}, lock_release(l, place),
         pc[current] \in {"run", "w_release", "c_release"},
         place = "c_up" <=> pc[current] = "c_release",
         place = "w_up" => cv[current] \in Cond,
         UNCHANGED <<value, waiters, cond_waiters, cv, tidVars>>
  PROVE  Preserved
<1>1. /\ holder[l] = current /\ holder' = [holder EXCEPT ![l] = NULL]
      /\ lk' = [lk EXCEPT ![current] = l]
      /\ on' = [on EXCEPT ![current] = lock_sema(l)]
      /\ pc' = [pc EXCEPT ![current] = place] /\ schedUnchanged
  BY Zenon DEF lock_release, goto
<1>2. current \in Thread /\ lock_sema(l) \in Sema /\ current # NULL
  BY SemaFacts, SchedulerAssumption, Zenon DEF TypeOK
<1>3. PlaceStep(place)
  BY <1>1, Zenon DEF PlaceStep, Place, IdlePlace
<1>4. /\ holder' \in [Lock -> Thread \cup {NULL}] /\ lk' \in [Thread -> Lock]
      /\ on' \in [Thread -> Sema]
  BY <1>1, <1>2, Zenon DEF TypeOK
<1>5. TypeOK' /\ SI'
  BY <1>1, <1>3, <1>4, QuietTypes, Zenon DEF TypeOK, tidVars
<1>6. /\ Frame /\ StatusFrame
      /\ pc'[current] = place /\ lk'[current] = l /\ on'[current] = lock_sema(l)
  BY <1>1, Zenon DEF Frame, StatusFrame, schedUnchanged, TypeOK, tidVars
<1>7. holder'[l] = NULL /\ \A m \in Lock \ {l} : holder'[m] = holder[m]
  BY <1>1, Zenon DEF TypeOK
<1>8. SameOwners
  <2>1. \A t \in Thread, m \in Lock : t # current => (Owns(t, m)' <=> Owns(t, m))
    BY <1>1, <1>2, <1>6, <1>7, SchedulerAssumption DEF Owns, Frame
  <2>2. \A m \in Lock : Owns(current, m) <=> holder[m] = current
    BY Zenon DEF Owns
  <2>3. \A t \in Thread, m \in Lock :
           t = current => (Owns(t, m)' <=> holder'[m] = current \/ m = l)
    BY <1>6, Zenon DEF Owns
  <2>4. QED
    BY <1>1, <1>2, <1>7, <2>1, <2>2, <2>3 DEF SameOwners, SameValue
<1>9. MutualExclusion' /\ OwnerStep
  BY <1>8, OwnerStepExcludes, Zenon DEF OwnerStep, LI
<1>10. ArgInv'
  BY <1>6, SemaFacts, Zenon DEF LI, ArgInv, Frame
<1>11. HolderInv'
  <2>1. \A t \in Thread, m \in Lock : holder'[m] = t => holder[m] = t /\ m # l
    BY <1>7, SchedulerAssumption, Zenon
  <2>2. \A t \in Thread : t # current => lk'[t] \in Lock /\ lk'[t] = lk[t]
    BY <1>4, <1>6, Zenon DEF Frame
  <2>3. ASSUME NEW t \in Thread, t # current,
               \/ pc'[t] \in {"got", "release_up", "w_up", "c_up"}
               \/ pc'[t] = "down" /\ on'[t] \in LockSema
        PROVE  holder'[lk'[t]] # t
    <3>1. pc'[t] = pc[t] /\ on'[t] = on[t]
      BY <1>6, <2>3, Zenon DEF Frame
    <3>2. holder[lk[t]] # t
      BY <2>3, <3>1, Zenon DEF LI, HolderInv
    <3>3. QED
      BY <2>1, <2>2, <2>3, <3>2, Zenon
  <2>4. holder'[lk'[current]] # current
    BY <1>2, <1>6, <1>7, Zenon
  <2>5. QED
    BY <2>3, <2>4, Zenon DEF HolderInv
<1>12. CreateInv'
  <2>1. \A t \in Thread : Creating(t)' <=> Creating(t)
    BY <1>6, Zenon DEF Creating, Frame
  <2>2. \A t \in Thread : pc'[t] = "none" <=> pc[t] = "none"
    BY <1>6, Zenon DEF Frame
  <2>3. QED
    <3>1. status' = status /\ new' = new
      BY <1>1, Zenon DEF schedUnchanged, tidVars
    <3>2. CreateInv
      BY Zenon DEF LI
    <3>3. QED
      BY <2>1, <2>2, <3>1, <3>2, Zenon DEF CreateInv
<1>13. TidInv' /\ TidsUnique'
  <2>1. \A t \in Thread : pc'[t] \in {"c_tid", "c_inc", "c_release"} => holder'[tid_lock] = t
    BY <1>1, <1>6, <1>7, SynchAssumption DEF LI, TidInv, Frame
  <2>2. \A t \in Thread : pc'[t] = "c_inc" <=> pc[t] = "c_inc"
    BY <1>6, Zenon DEF Frame
  <2>3. QED
    BY <2>1, <2>2, Zenon DEF LI, TidInv, TidsUnique, tidVars
<1>14. QED
  BY <1>5, <1>9, <1>10, <1>11, <1>12, <1>13, Zenon DEF Preserved, LI

(* The sema_up that ends lock_release, and the one that ends cond_signal. *)
LEMMA SemaUpPreserves ==
  ASSUME TypeOK, SI, LI, SemaUp
  PROVE  Preserved
<1>. DEFINE s == on[current]
<1>0. PICK l \in Lock : l = lk[current]
  BY Zenon DEF TypeOK
<1>1. PICK from \in {"release_up", "w_up", "c_up", "signal_up", "bcast_up"} :
        /\ pc[current] = from /\ sema_up(s) /\ pc' = [pc EXCEPT ![current] = after_up(from)]
        /\ UNCHANGED <<holder, cond_waiters, on, lk, cv, tidVars>>
  BY Zenon DEF SemaUp, At, goto
<1>2. s \in Sema /\ current \in Thread
  BY Zenon DEF TypeOK
<1>3. /\ from \in {"release_up", "signal_up"} => after_up(from) = "run"
      /\ from = "w_up" => after_up(from) = "w_down"
      /\ from = "c_up" => after_up(from) = "c_unblock"
      /\ from = "bcast_up" => after_up(from) = "bcast"
  BY Zenon DEF after_up
<1>4. PlaceStep(after_up(from))
  BY <1>1, <1>3, Zenon DEF PlaceStep, Place, IdlePlace
<1>5. CASE from \in {"signal_up", "bcast_up"}
  <2>1. s \in StackSema /\ (from = "bcast_up" => cv[current] \in Cond)
    BY <1>1, <1>2, <1>5, Zenon DEF LI, ArgInv
  <2>2. s \notin LockSema
    BY <2>1, SemaFacts, Zenon
  <2>3. Neutral(current)
    BY <1>1, <1>5, Zenon DEF Neutral
  <2>4. QED
    BY <1>1, <1>2, <1>3, <1>4, <1>5, <2>1, <2>2, <2>3, PlainUpPreserves, Zenon
<1>6. CASE from \in {"release_up", "w_up", "c_up"}
  <2>1. s = lock_sema(l) /\ holder[l] # current
    BY <1>0, <1>1, <1>2, <1>6, Zenon DEF LI, ArgInv, HolderInv
  <2>2. TypeOK' /\ SI' /\ StatusFrame
    BY <1>1, <1>2, <1>4, UpTypes, Zenon
  <2>3. /\ Frame /\ pc'[current] = after_up(from)
        /\ pc'[current] \in {"run", "w_down", "c_unblock"}
    BY <1>1, <1>3, <1>6, Zenon DEF Frame, TypeOK, tidVars
  <2>4. Gives(l)
    <3>1. \A t \in Thread, m \in Lock : t # current => (Owns(t, m)' <=> Owns(t, m))
      BY <1>1, <2>3, Zenon DEF Owns, Frame
    <3>2. \A m \in Lock : Owns(current, m) <=> holder[m] = current \/ m = l
      BY <1>0, <1>1, <1>6, Zenon DEF Owns
    <3>3. \A t \in Thread, m \in Lock : t = current => (Owns(t, m)' <=> holder[m] = current)
      BY <1>1, <2>3, Zenon DEF Owns
    <3>4. /\ value'[lock_sema(l)] = value[lock_sema(l)] + 1
          /\ \A m \in Lock \ {l} : SameValue(m)
      BY <1>1, <1>2, <2>1, SemaFacts, Zenon DEF sema_up, SameValue, TypeOK
    <3>5. QED
      BY <1>2, <2>1, <3>1, <3>2, <3>3, <3>4, Zenon DEF Gives
  <2>5. MutualExclusion' /\ OwnerStep
    BY <1>2, <2>4, OwnerStepExcludes, Zenon DEF OwnerStep, LI
  <2>6. ArgInv'
    BY <1>1, <1>3, <1>6, <2>3, Zenon DEF LI, ArgInv, Frame
  <2>7. HolderInv'
    BY <1>1, <2>3, Zenon DEF LI, HolderInv, Frame
  <2>8. CreateInv'
    <3>1. \A t \in Thread : Creating(t)' <=> Creating(t)
      BY <1>1, <1>3, <1>6, <2>3, Zenon DEF Creating, Frame
    <3>2. \A t \in Thread : pc'[t] = "none" <=> pc[t] = "none"
      BY <1>1, <1>6, <2>3, Zenon DEF Frame
    <3>3. QED
      BY <1>1, <2>2, <3>1, <3>2 DEF LI, CreateInv, StatusFrame, tidVars
  <2>9. TidInv' /\ TidsUnique'
    <3>1. \A t \in Thread : /\ pc'[t] = "c_tid" <=> pc[t] = "c_tid"
                            /\ pc'[t] = "c_inc" <=> pc[t] = "c_inc"
                            /\ pc'[t] = "c_release" <=> pc[t] = "c_release"
      BY <1>1, <1>6, <2>3, Zenon DEF Frame
    <3>2. QED
      BY <1>1, <3>1 DEF LI, TidInv, TidsUnique, tidVars
  <2>10. QED
    BY <2>2, <2>5, <2>6, <2>7, <2>8, <2>9, Zenon DEF Preserved, LI
<1>7. QED
  BY <1>5, <1>6, Zenon

-----------------------------------------------------------------------------
(* thread_create. *)
LEMMA ThreadCreatePreserves ==
  ASSUME TypeOK, SI, LI, NEW n \in Thread, ThreadCreate(n)
  PROVE  Preserved
<1>1. /\ pc[current] = "run" /\ pc' = [pc EXCEPT ![current] = "c_lock"]
      /\ status[n] = "NONE" /\ status' = [status EXCEPT ![n] = "BLOCKED"]
      /\ new' = [new EXCEPT ![current] = n]
      /\ UNCHANGED <<ready_list, idle_thread, current, intr, thread_ticks, synchVars, tid, next_tid>>
      /\ UNCHANGED <<value, waiters, holder, cond_waiters, on, lk, cv>>
  BY Zenon DEF ThreadCreate, At, goto, synchVars
<1>2. /\ current \in Thread /\ pc \in [Thread -> Place] /\ status \in [Thread -> Status]
      /\ ready_list \in Seq(Thread) /\ waiters \in [Sema -> Seq(Thread)]
  BY Zenon DEF TypeOK
<1>3. PlaceStep("c_lock")
  BY <1>1, Zenon DEF PlaceStep, Place, IdlePlace
<1>4. pc[n] = "none" /\ n # current
  BY <1>1, Zenon DEF LI, CreateInv
<1>5. TypeOK'
  <2>1. /\ pc' \in [Thread -> Place] /\ status' \in [Thread -> Status]
        /\ new' \in [Thread -> Thread \cup {NULL}]
    BY <1>1, <1>2, <1>3, PlaceStepIdle, Zenon DEF Status, TypeOK
  <2>2. QED
    BY <1>1, <2>1, Zenon DEF TypeOK
<1>6. SI'
  <2>1. ElemOnOneList'
    <3>1. \A t \in Members(ready_list) : status'[t] = "READY"
      <4>1. Members(ready_list) \subseteq Thread
        BY <1>2, MembersLemma, Zenon
      <4>2. QED
        BY <1>1, <1>2, <4>1, Zenon DEF SI, ElemOnOneList
    <3>2. ASSUME NEW r \in Sema, NEW t \in Members(waiters[r])
          PROVE  status'[t] = "BLOCKED" /\ pc'[t] = "down"
      <4>1. t \in Thread
        BY <1>2, MembersLemma, Zenon
      <4>2. QED
        BY <1>1, <1>2, <4>1 DEF SI, ElemOnOneList
    <3>3. QED
      BY <1>1, <3>1, <3>2 DEF SI, ElemOnOneList, Members, NoRepeat
  <2>2. SchedulerConsistent'
    BY <1>1, <1>2, <1>4, Zenon DEF SI, SchedulerConsistent, Members
  <2>3. IdleInv'
    BY <1>1, <1>3, PlaceStepIdle, Zenon DEF SI, IdleInv, Members
  <2>4. QED
    BY <2>1, <2>2, <2>3, Zenon DEF SI
<1>7. /\ pc'[current] = "c_lock" /\ new'[current] = n
      /\ \A t \in Thread : t # current => pc'[t] = pc[t] /\ new'[t] = new[t]
  BY <1>1, <1>2, Zenon DEF TypeOK
<1>8. SameOwners
  BY <1>1, <1>7, Zenon DEF SameOwners, SameValue, Owns
<1>9. MutualExclusion' /\ OwnerStep
  BY <1>8, OwnerStepExcludes, Zenon DEF OwnerStep, LI
<1>10. ArgInv' /\ HolderInv'
  BY <1>1, <1>7 DEF LI, ArgInv, HolderInv
<1>11. CreateInv'
  <2>1. \A t \in Thread : t # current => (Creating(t)' <=> Creating(t))
    BY <1>1, <1>7, Zenon DEF Creating
  <2>2. \A t \in Thread : t # current /\ Creating(t) => new[t] # n
    BY <1>1, Zenon DEF LI, CreateInv
  <2>3. /\ status'[n] = "BLOCKED" /\ pc'[n] = "none"
        /\ \A t \in Thread : t # n => status'[t] = status[t]
    BY <1>1, <1>2, <1>4, <1>7, Zenon
  <2>4. QED
    BY <1>1, <1>4, <1>7, <2>1, <2>2, <2>3 DEF LI, CreateInv
<1>12. TidInv' /\ TidsUnique'
  <2>1. \A t \in Thread : /\ pc'[t] = "c_tid" <=> pc[t] = "c_tid"
                          /\ pc'[t] = "c_inc" <=> pc[t] = "c_inc"
                          /\ pc'[t] = "c_release" <=> pc[t] = "c_release"
    BY <1>1, <1>7, Zenon
  <2>2. \A t \in Thread : pc[t] = "c_inc" => new'[t] = new[t]
    BY <1>1, <1>7, Zenon
  <2>3. QED
    BY <1>1, <2>1, <2>2 DEF LI, TidInv, TidsUnique
<1>13. QED
  BY <1>5, <1>6, <1>9, <1>10, <1>11, <1>12, Zenon DEF Preserved, LI

(* tid = next_tid, the load of next_tid++. *)
LEMMA AllocateTidLoadPreserves ==
  ASSUME TypeOK, SI, LI, AllocateTidLoad
  PROVE  Preserved
<1>. DEFINE n == new[current]
<1>1. /\ pc[current] = "c_tid" /\ pc' = [pc EXCEPT ![current] = "c_inc"]
      /\ tid' = [tid EXCEPT ![n] = next_tid] /\ schedUnchanged
      /\ UNCHANGED <<value, waiters, holder, cond_waiters, on, lk, cv, next_tid, new>>
  BY Zenon DEF AllocateTidLoad, At, goto, synchVars
<1>2. current \in Thread /\ n \in Thread
  BY <1>1, Zenon DEF TypeOK, LI, CreateInv, Creating
<1>3. PlaceStep("c_inc")
  BY <1>1, Zenon DEF PlaceStep, Place, IdlePlace
<1>4. tid' \in [Thread -> Nat]
  BY <1>1, Zenon DEF TypeOK
<1>5. TypeOK' /\ SI'
  BY <1>1, <1>3, <1>4, QuietTypes, Zenon DEF TypeOK
<1>6. Frame /\ StatusFrame /\ pc'[current] = "c_inc"
  BY <1>1, Zenon DEF Frame, StatusFrame, schedUnchanged, TypeOK
<1>7. SameOwners
  BY <1>1, <1>6, Zenon DEF SameOwners, SameValue, Owns, Frame
<1>8. MutualExclusion' /\ OwnerStep
  BY <1>7, OwnerStepExcludes, Zenon DEF OwnerStep, LI
<1>9. ArgInv' /\ HolderInv'
  BY <1>1, <1>6, Zenon DEF LI, ArgInv, HolderInv, Frame
<1>10. CreateInv'
  <2>1. \A t \in Thread : Creating(t)' <=> Creating(t)
    BY <1>1, <1>6, Zenon DEF Creating, Frame
  <2>2. \A t \in Thread : pc'[t] = "none" <=> pc[t] = "none"
    BY <1>1, <1>6, Zenon DEF Frame
  <2>3. QED
    BY <1>1, <1>6, <2>1, <2>2 DEF LI, CreateInv, StatusFrame
<1>11. \A t \in Thread : pc[t] # "c_inc"
  BY <1>1, <1>2, Zenon DEF LI, TidInv
<1>12. \A u \in Thread : tid[u] < next_tid
  BY <1>11, Zenon DEF LI, TidInv
<1>13. tid'[n] = next_tid /\ \A u \in Thread : u # n => tid'[u] = tid[u]
  BY <1>1, <1>2, Zenon DEF TypeOK
<1>14. TidInv'
  <2>1. \A t \in Thread : pc'[t] \in {"c_tid", "c_inc", "c_release"} => holder'[tid_lock] = t
    BY <1>1, <1>6, Zenon DEF LI, TidInv, Frame
  <2>2. \A t \in Thread : pc'[t] = "c_inc" => t = current
    BY <1>6, <1>11, Zenon DEF Frame
  <2>3. QED
    BY <1>1, <1>2, <1>6, <1>12, <1>13, <2>1, <2>2, Zenon DEF TidInv
<1>15. TidsUnique'
  <2>1. \A u \in Thread : tid[u] # next_tid
    <3>1. SUFFICES ASSUME NEW u \in Thread PROVE tid[u] # next_tid
      BY Zenon
    <3>2. next_tid \in Nat /\ tid[u] \in Nat /\ tid[u] < next_tid
      BY <1>12, Zenon DEF TypeOK
    <3>3. QED
      BY <3>2
  <2>2. QED
    BY <1>13, <2>1, Zenon DEF LI, TidsUnique
<1>16. QED
  BY <1>5, <1>8, <1>9, <1>10, <1>14, <1>15, Zenon DEF Preserved, LI

(* The store of next_tid++. *)
LEMMA AllocateTidStorePreserves ==
  ASSUME TypeOK, SI, LI, AllocateTidStore
  PROVE  Preserved
<1>. DEFINE n == new[current]
<1>1. /\ pc[current] = "c_inc" /\ pc' = [pc EXCEPT ![current] = "c_release"]
      /\ next_tid' = tid[n] + 1 /\ schedUnchanged
      /\ UNCHANGED <<value, waiters, holder, cond_waiters, on, lk, cv, tid, new>>
  BY Zenon DEF AllocateTidStore, At, goto, synchVars
<1>2. current \in Thread /\ n \in Thread
  BY <1>1, Zenon DEF TypeOK, LI, CreateInv, Creating
<1>3. PlaceStep("c_release")
  BY <1>1, Zenon DEF PlaceStep, Place, IdlePlace
<1>4. tid[n] = next_tid /\ next_tid \in Nat /\ next_tid' = next_tid + 1
  BY <1>1, <1>2, Zenon DEF TypeOK, LI, TidInv
<1>5. TypeOK' /\ SI'
  <2>1. next_tid' \in Nat
    BY <1>4
  <2>2. QED
    BY <1>1, <1>3, <2>1, QuietTypes, Zenon DEF TypeOK
<1>6. Frame /\ StatusFrame /\ pc'[current] = "c_release"
  BY <1>1, Zenon DEF Frame, StatusFrame, schedUnchanged, TypeOK
<1>7. SameOwners
  BY <1>1, <1>6, Zenon DEF SameOwners, SameValue, Owns, Frame
<1>8. MutualExclusion' /\ OwnerStep
  BY <1>7, OwnerStepExcludes, Zenon DEF OwnerStep, LI
<1>9. ArgInv' /\ HolderInv'
  BY <1>1, <1>6, Zenon DEF LI, ArgInv, HolderInv, Frame
<1>10. CreateInv'
  <2>1. \A t \in Thread : Creating(t)' <=> Creating(t)
    BY <1>1, <1>6, Zenon DEF Creating, Frame
  <2>2. \A t \in Thread : pc'[t] = "none" <=> pc[t] = "none"
    BY <1>1, <1>6, Zenon DEF Frame
  <2>3. QED
    BY <1>1, <1>6, <2>1, <2>2 DEF LI, CreateInv, StatusFrame
<1>11. TidInv' /\ TidsUnique'
  <2>1. \A t \in Thread : pc'[t] \in {"c_tid", "c_inc", "c_release"} => holder'[tid_lock] = t
    BY <1>1, <1>6, Zenon DEF LI, TidInv, Frame
  <2>2. \A t \in Thread : pc[t] = "c_inc" => t = current
    BY <1>1, <1>2, Zenon DEF LI, TidInv
  <2>3. \A t \in Thread : pc'[t] # "c_inc"
    BY <1>6, <2>2, Zenon DEF Frame
  <2>4. \A u \in Thread : tid[u] \in Nat /\ tid[u] <= next_tid
    <3>1. \A u \in Thread : tid[u] \in Nat /\ (tid[u] < next_tid \/ tid[u] = next_tid)
      BY Zenon DEF TypeOK, LI, TidInv
    <3>2. QED
      BY <1>4, <3>1
  <2>5. \A u \in Thread : tid[u] < next_tid'
    BY <1>4, <2>4
  <2>6. QED
    BY <1>1, <2>1, <2>3, <2>5, Zenon DEF LI, TidInv, TidsUnique
<1>12. QED
  BY <1>5, <1>8, <1>9, <1>10, <1>11, Zenon DEF Preserved, LI

(* thread_unblock (t), the end of thread_create: the new thread enters the *)
(* run queue.                                                              *)
LEMMA ThreadCreateUnblockPreserves ==
  ASSUME TypeOK, SI, LI, ThreadCreateUnblock
  PROVE  Preserved
<1>. DEFINE n == new[current]
<1>1. /\ pc[current] = "c_unblock"
      /\ pc' = [pc EXCEPT ![current] = "run", ![n] = "entry"]
      /\ ready_list' = Append(ready_list, n) /\ status' = [status EXCEPT ![n] = "READY"]
      /\ UNCHANGED <<idle_thread, current, intr, thread_ticks>>
      /\ UNCHANGED <<value, waiters, holder, cond_waiters, on, lk, cv, tid, next_tid, new>>
  BY Zenon DEF ThreadCreateUnblock, At, thread_unblock, synchVars, tidVars
<1>2. /\ current \in Thread /\ pc \in [Thread -> Place] /\ status \in [Thread -> Status]
      /\ ready_list \in Seq(Thread) /\ waiters \in [Sema -> Seq(Thread)]
  BY Zenon DEF TypeOK
<1>3. n \in Thread /\ status[n] = "BLOCKED" /\ pc[n] = "none" /\ n # current
  BY <1>1, <1>2, Zenon DEF LI, CreateInv, Creating
<1>4. n # Idle
  BY <1>3, Zenon DEF SI, IdleInv, IdlePlace
<1>. HIDE DEF n
<1>5. n \notin Members(ready_list) /\ \A r \in Sema : n \notin Members(waiters[r])
  BY <1>3, Zenon DEF SI, ElemOnOneList
<1>6. /\ ready_list' \in Seq(Thread)
      /\ Members(ready_list') = Members(ready_list) \cup {n}
      /\ NoRepeat(ready_list')
  <2>1. NoRepeat(ready_list)
    BY Zenon DEF SI, ElemOnOneList
  <2>2. QED
    BY <1>1, <1>2, <1>3, <1>5, <2>1, AppendLemma
<1>7. /\ pc'[current] = "run" /\ pc'[n] = "entry"
      /\ \A t \in Thread : t # current /\ t # n => pc'[t] = pc[t]
      /\ pc' \in [Thread -> Place] /\ status' \in [Thread -> Status]
      /\ status'[n] = "READY" /\ \A t \in Thread : t # n => status'[t] = status[t]
  BY <1>1, <1>2, <1>3, Zenon DEF Place, Status
<1>8. TypeOK'
  BY <1>1, <1>6, <1>7, Zenon DEF TypeOK
<1>9. SI'
  <2>1. ElemOnOneList'
    <3>1. \A t \in Members(ready_list') : status'[t] = "READY"
      <4>1. Members(ready_list) \subseteq Thread
        BY <1>2, MembersLemma, Zenon
      <4>2. QED
        BY <1>6, <1>7, <4>1, Zenon DEF SI, ElemOnOneList
    <3>2. ASSUME NEW r \in Sema, NEW t \in Members(waiters[r])
          PROVE  status'[t] = "BLOCKED" /\ pc'[t] = "down" /\ on'[t] = r
      <4>1. t \in Thread /\ t # n /\ t # current
        BY <1>2, <1>5, MembersLemma, CurrentUnlisted
      <4>2. QED
        BY <1>1, <1>7, <4>1 DEF SI, ElemOnOneList
    <3>3. \A r \in Sema : NoRepeat(waiters'[r])
      BY <1>1, Zenon DEF SI, ElemOnOneList
    <3>4. \A r \in Sema : \A t \in Members(waiters'[r]) :
            status'[t] = "BLOCKED" /\ pc'[t] = "down" /\ on'[t] = r
      BY <1>1, <3>2, Zenon
    <3>5. QED
      BY <1>6, <3>1, <3>3, <3>4, Zenon DEF ElemOnOneList, Members, NoRepeat
  <2>2. SchedulerConsistent'
    <3>1. \A t \in Thread : (status'[t] = "RUNNING") <=> (t = current')
      BY <1>1, <1>3, <1>7, Zenon DEF SI, SchedulerConsistent
    <3>2. \A t \in Thread : status'[t] = "READY" => t \in Members(ready_list') \/ t = idle_thread'
      BY <1>1, <1>6, <1>7, Zenon DEF SI, SchedulerConsistent
    <3>3. QED
      BY <3>1, <3>2, Zenon DEF SchedulerConsistent, Members
  <2>3. IdleInv'
    <3>1. current # Idle
      BY <1>1, Zenon DEF SI, IdleInv, IdlePlace
    <3>2. pc'[Idle] = pc[Idle]
      BY <1>4, <1>7, <3>1, SchedulerAssumption, Zenon
    <3>3. \A t \in Thread : pc'[t] \in IdlePlace => t = Idle
      BY <1>7, Zenon DEF SI, IdleInv, IdlePlace
    <3>4. QED
      BY <1>1, <1>6, <3>2, <3>3, Zenon DEF SI, IdleInv, Members
  <2>4. QED
    BY <2>1, <2>2, <2>3, Zenon DEF SI
<1>10. SameOwners
  BY <1>1, <1>3, <1>7, Zenon DEF SameOwners, SameValue, Owns
<1>11. MutualExclusion' /\ OwnerStep
  BY <1>10, OwnerStepExcludes, Zenon DEF OwnerStep, LI
<1>12. ArgInv' /\ HolderInv'
  BY <1>1, <1>7, Zenon DEF LI, ArgInv, HolderInv
<1>13. CreateInv'
  <2>1. \A t \in Thread : Creating(t)' <=> Creating(t) /\ t # current
    BY <1>1, <1>3, <1>7, Zenon DEF Creating
  <2>2. \A t \in Thread : Creating(t) /\ t # current => new[t] # n
    BY <1>1, <1>2, Zenon DEF LI, CreateInv, Creating, n
  <2>3. \A t \in Thread : pc'[t] = "none" <=> pc[t] = "none" /\ t # n
    BY <1>1, <1>3, <1>7, Zenon
  <2>4. CreateInv
    BY Zenon DEF LI
  <2>5. QED
    BY <1>1, <1>7, <2>1, <2>2, <2>3, <2>4, ZenonT(40) DEF CreateInv
<1>14. TidInv' /\ TidsUnique'
  <2>1. \A t \in Thread : /\ pc'[t] = "c_tid" <=> pc[t] = "c_tid"
                          /\ pc'[t] = "c_inc" <=> pc[t] = "c_inc"
                          /\ pc'[t] = "c_release" <=> pc[t] = "c_release"
    BY <1>1, <1>3, <1>7, Zenon
  <2>2. TidsUnique'
    BY <1>1, Zenon DEF LI, TidsUnique
  <2>3. TidInv
    BY Zenon DEF LI
  <2>4. TidInv'
    BY <1>1, <2>1, <2>3, ZenonT(40) DEF TidInv
  <2>5. QED
    BY <2>2, <2>4, Zenon
<1>15. QED
  BY <1>8, <1>9, <1>11, <1>12, <1>13, <1>14, Zenon DEF Preserved, LI

-----------------------------------------------------------------------------
(* Every step of the system. *)
LEMMA NextPreserves ==
  ASSUME TypeOK, SI, LI, Next
  PROVE  Preserved
<1>. USE DEF At
<1>1. CASE Tick
  BY <1>1, TickPreserves, Zenon
<1>2. CASE Resume
  BY <1>2, YieldReturnPreserves, KernelThreadPreserves, IdleHaltPreserves,
     SemaDownLoopPreserves, Zenon DEF Resume
<1>3. CASE IdleStep
  BY <1>3, IdleSetPreserves, IdleBlockPreserves, IdleUpPreserves, Zenon DEF IdleStep
<1>4. ASSUME NEW d \in Dev, DeviceInterrupt(d)
      PROVE  Preserved
  BY <1>4, DevicePreserves, Zenon
<1>5. CASE Inside
  <2>1. CASE ThreadStart
    <3>1. idle_started \in Sema /\ idle_started \notin LockSema /\ idle_started \notin StackSema
      BY SemaFacts, Zenon
    <3>2. QED
      BY <2>1, <3>1, PlainDownPreserves, Zenon DEF ThreadStart
  <2>2. CASE LockSetHolder
    BY <2>2, LockSetHolderPreserves, Zenon
  <2>3. CASE SemaUp
    BY <2>3, SemaUpPreserves, Zenon
  <2>4. CASE CondWaitRelease
    <3>1. cv[current] \in Cond
      BY <2>4, Zenon DEF CondWaitRelease, LI, ArgInv, TypeOK
    <3>2. LockOf[cv[current]] \in Lock
      BY <3>1, SynchAssumption, Zenon
    <3>3. QED
      BY <2>4, <3>1, <3>2, LockReleasePreserves, Zenon DEF CondWaitRelease
  <2>5. CASE CondWaitDown
    <3>1. cv[current] \in Cond
      BY <2>5, Zenon DEF CondWaitDown, LI, ArgInv, TypeOK
    <3>2. stack_sema(current) \in Sema /\ stack_sema(current) \notin LockSema
      BY SemaFacts, Zenon DEF TypeOK
    <3>3. QED
      BY <2>5, <3>1, <3>2, PlainDownPreserves, Zenon DEF CondWaitDown
  <2>6. CASE CondWaitAcquire
    <3>1. cv[current] \in Cond
      BY <2>6, Zenon DEF CondWaitAcquire, LI, ArgInv, TypeOK
    <3>2. LockOf[cv[current]] \in Lock /\ LockOf[cv[current]] # tid_lock
      BY <3>1, SynchAssumption, Zenon
    <3>3. QED
      BY <2>6, <3>2, LockAcquirePreserves, Zenon DEF CondWaitAcquire
  <2>7. CASE CondBroadcastLoop
    BY <2>7, CondBroadcastLoopPreserves, Zenon
  <2>8. CASE AllocateTidLock
    BY <2>8, LockAcquirePreserves, SynchAssumption, Zenon DEF AllocateTidLock
  <2>9. CASE AllocateTidLoad
    BY <2>9, AllocateTidLoadPreserves, Zenon
  <2>10. CASE AllocateTidStore
    BY <2>10, AllocateTidStorePreserves, Zenon
  <2>11. CASE AllocateTidRelease
    BY <2>11, LockReleasePreserves, SynchAssumption, Zenon DEF AllocateTidRelease
  <2>12. CASE ThreadCreateUnblock
    BY <2>12, ThreadCreateUnblockPreserves, Zenon
  <2>13. QED
    BY <1>5, <2>1, <2>2, <2>3, <2>4, <2>5, <2>6, <2>7, <2>8, <2>9, <2>10, <2>11, <2>12, Zenon DEF Inside
<1>6. CASE Call
  <2>1. ASSUME NEW s \in Waited, SemaDown(s)
        PROVE  Preserved
    <3>1. s \in Sema /\ s \notin LockSema /\ s \notin StackSema
      BY SemaFacts, WaitedAssumption, Zenon
    <3>2. QED
      BY <2>1, <3>1, PlainDownPreserves, Zenon DEF SemaDown
  <2>2. ASSUME NEW s \in Waited, SemaTryDown(s)
        PROVE  Preserved
    BY <2>2, TryDownPreserves, WaitedAssumption, Zenon
  <2>3. ASSUME NEW l \in Lock, LockAcquire(l)
        PROVE  Preserved
    BY <2>3, LockAcquirePreserves, Zenon DEF LockAcquire
  <2>4. ASSUME NEW l \in Lock, LockTryAcquire(l)
        PROVE  Preserved
    BY <2>4, LockTryAcquirePreserves, Zenon
  <2>5. ASSUME NEW l \in Lock, LockRelease(l)
        PROVE  Preserved
    BY <2>5, LockReleasePreserves, Zenon DEF LockRelease
  <2>6. ASSUME NEW c \in Cond, CondWait(c)
        PROVE  Preserved
    BY <2>6, CondWaitPreserves, Zenon
  <2>7. ASSUME NEW c \in Cond, CondSignal(c)
        PROVE  Preserved
    BY <2>7, CondSignalPreserves, Zenon DEF CondSignal
  <2>8. ASSUME NEW c \in Cond, CondBroadcast(c)
        PROVE  Preserved
    BY <2>8, CondBroadcastPreserves, Zenon
  <2>9. ASSUME NEW n \in Thread, ThreadCreate(n)
        PROVE  Preserved
    BY <2>9, ThreadCreatePreserves, Zenon
  <2>10. CASE ThreadExit
    BY <2>10, ExitPreserves, Zenon
  <2>11. CASE ThreadYield
    BY <2>11, YieldPreserves, Zenon
  <2>12. QED
    BY <1>6, <2>1, <2>2, <2>3, <2>4, <2>5, <2>6, <2>7, <2>8, <2>9, <2>10, <2>11, Zenon DEF Call
<1>7. QED
  BY <1>1, <1>2, <1>3, <1>4, <1>5, <1>6, Zenon DEF Next

LEMMA StutterPreserves ==
  ASSUME TypeOK, SI, LI, UNCHANGED vars
  PROVE  Preserved
<1>. USE DEF vars, schedVars, synchVars, tidVars
<1>1. TypeOK'
  BY Zenon DEF TypeOK
<1>2. SI'
  BY DEF SI, ElemOnOneList, SchedulerConsistent, IdleInv, Members, NoRepeat
<1>3. SameOwners
  BY Zenon DEF SameOwners, SameValue, Owns
<1>4. MutualExclusion' /\ OwnerStep
  BY <1>3, OwnerStepExcludes, Zenon DEF OwnerStep, LI
<1>5. CreateInv' /\ ArgInv' /\ HolderInv'
  BY DEF LI, CreateInv, Creating, ArgInv, HolderInv
<1>6. TidInv' /\ TidsUnique'
  BY Zenon DEF LI, TidInv, TidsUnique
<1>7. QED
  BY <1>1, <1>2, <1>4, <1>5, <1>6, Zenon DEF Preserved, LI

LEMMA InitInvariant ==
  ASSUME Init
  PROVE  TypeOK /\ SI /\ LI
<1>. USE SchedulerAssumption, SynchAssumption DEF Init, SchedInit
<1>1. /\ \A t \in Thread : pc[t] \in {"boot", "entry", "none"}
      /\ pc[Main] = "boot" /\ pc[Idle] = "entry"
      /\ \A t \in Thread : t \notin {Main, Idle} => pc[t] = "none" /\ status[t] = "NONE"
      /\ status[Main] = "RUNNING" /\ status[Idle] = "READY"
  BY Zenon
<1>2. idle_started \in Sema
  BY SemaFacts, Zenon
<1>3. TypeOK
  BY <1>1, <1>2 DEF TypeOK, Status, Place
<1>4. Members(ready_list) = {Idle} /\ NoRepeat(ready_list)
  BY DEF Members, NoRepeat
<1>5. \A s \in Sema : Members(waiters[s]) = {} /\ NoRepeat(waiters[s])
  BY DEF Members, NoRepeat
<1>6. SI
  BY <1>1, <1>4, <1>5, Zenon DEF SI, ElemOnOneList, SchedulerConsistent, IdleInv, IdlePlace
<1>7. MutualExclusion
  <2>1. \A t \in Thread, l \in Lock : ~Owns(t, l)
    BY <1>1, Zenon DEF Owns
  <2>2. QED
    BY <2>1, SemaFacts, Zenon DEF MutualExclusion
<1>8. CreateInv /\ ArgInv /\ HolderInv
  BY <1>1 DEF CreateInv, Creating, ArgInv, HolderInv
<1>9. TidInv
  BY <1>1 DEF TidInv
<1>10. TidsUnique
  BY DEF TidsUnique
<1>11. QED
  BY <1>3, <1>6, <1>7, <1>8, <1>9, <1>10, Zenon DEF LI

=============================================================================
