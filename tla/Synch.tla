-------------------------------- MODULE Synch --------------------------------
(***************************************************************************)
(* threads/synch.c on top of the scheduler: semaphores, locks, condition   *)
(* variables, and thread_create()'s allocate_tid(), the kernel's own first *)
(* client of a lock.                                                       *)
(*                                                                         *)
(* Every function body that runs with interrupts off is one step.  Between *)
(* two such bodies interrupts are on: lock_acquire can be preempted        *)
(* between sema_down and the assignment of holder, lock_release between    *)
(* the reset of holder and sema_up, cond_wait after each of its calls.     *)
(*                                                                         *)
(* A thread in ordinary code (pc "run") may call any primitive whose       *)
(* ASSERTs it satisfies.                                                   *)
(***************************************************************************)
EXTENDS Scheduler, FiniteSets

CONSTANTS
  Lock,       \* locks
  tid_lock,   \* the lock of allocate_tid()
  Cond,       \* condition variables
  LockOf,     \* the one lock each condition variable is used with
  Dev,        \* devices with a semaphore upped by their interrupt handler
  Waited,     \* semaphores of threads and devices that ordinary code downs
  MaxValue    \* bound: a device semaphore is not upped beyond this

ASSUME SynchAssumption ==
  /\ tid_lock \in Lock
  /\ LockOf \in [Cond -> Lock \ {tid_lock}]
  /\ NULL \notin Lock
  /\ MaxValue \in Nat

(* The semaphores: inside a lock, on the stack of a thread in cond_wait,   *)
(* exit_semaphore of a thread, idle_started of thread_start, and those of  *)
(* devices.                                                                *)
lock_sema(l)  == <<"lock", l>>
stack_sema(t) == <<"stack", t>>
exit_sema(t)  == <<"exit", t>>
dev_sema(d)   == <<"dev", d>>
idle_started  == <<"started", Idle>>

LockSema  == {lock_sema(l)  : l \in Lock}
StackSema == {stack_sema(t) : t \in Thread}
PlainSema == {exit_sema(t) : t \in Thread} \cup {dev_sema(d) : d \in Dev}

ASSUME WaitedAssumption == Waited \subseteq PlainSema

Sema == LockSema \cup StackSema \cup PlainSema \cup {idle_started}

VARIABLES
  value,         \* semaphore.value
  waiters,       \* semaphore.waiters
  holder,        \* lock.holder
  cond_waiters,  \* condition.waiters: each element names the waiting thread
  on,            \* argument of the semaphore operation a thread is in
  lk,            \* argument of the lock operation a thread is in
  cv,            \* argument of the condition operation a thread is in
  tid,           \* thread.tid, 0 before it is allocated
  next_tid,      \* the counter of allocate_tid()
  new            \* the thread that a thread in thread_create is making

synchVars == <<value, waiters, holder, cond_waiters, on, lk, cv>>
tidVars   == <<tid, next_tid, new>>
vars      == <<schedVars, synchVars, tidVars>>

Init ==
  /\ SchedInit
  /\ value = [s \in Sema |-> IF s \in LockSema THEN 1 ELSE 0]
  /\ waiters = [s \in Sema |-> <<>>]
  /\ holder = [l \in Lock |-> NULL]
  /\ cond_waiters = [c \in Cond |-> <<>>]
  /\ on = [t \in Thread |-> idle_started]
  /\ lk = [t \in Thread |-> tid_lock]
  /\ cv = [t \in Thread |-> NULL]
  /\ tid = [t \in Thread |-> CASE t = Main -> 1 [] t = Idle -> 2 [] OTHER -> 0]
  /\ next_tid = 3
  /\ new = [t \in Thread |-> NULL]

(* The running thread executes at `place' with interrupts on. *)
At(place) == intr = "ON" /\ pc[current] = place

-----------------------------------------------------------------------------
(* Where a thread continues once its sema_down or sema_up has returned. *)
after_down(s) ==
  CASE s \in LockSema  -> "got"
    [] s \in StackSema -> "w_acquire"
    [] OTHER           -> "run"

after_up(place) ==
  CASE place = "release_up" -> "run"
    [] place = "w_up"       -> "w_down"
    [] place = "c_up"       -> "c_unblock"
    [] place = "signal_up"  -> "run"
    [] place = "bcast_up"   -> "bcast"
    [] place = "idle_up"    -> "idle"

(* One turn of the loop of sema_down on s by the running thread: join the  *)
(* waiters and block, or take the semaphore and restore interrupts.        *)
sema_down(s) ==
  IF value[s] = 0
    THEN /\ waiters' = [waiters EXCEPT ![s] = Append(@, current)]
         /\ on' = [on EXCEPT ![current] = s]
         /\ goto(current, "down")
         /\ thread_block
         /\ UNCHANGED value
    ELSE /\ value' = [value EXCEPT ![s] = @ - 1]
         /\ goto(current, after_down(s))
         /\ intr' = "ON"
         /\ UNCHANGED <<waiters, on, status, ready_list, idle_thread, current, thread_ticks>>

(* Faulty variants of sema_up: the woken thread stays on the wait list;    *)
(* the value is counted but nobody is woken.                               *)
sema_up_nopop(s) ==
  /\ value' = [value EXCEPT ![s] = @ + 1]
  /\ UNCHANGED waiters
  /\ IF waiters[s] = <<>> THEN schedUnchanged ELSE thread_unblock(Head(waiters[s]))

sema_up_nowake(s) ==
  /\ value' = [value EXCEPT ![s] = @ + 1]
  /\ schedUnchanged
  /\ UNCHANGED waiters

(* The semaphore's side of sema_up: unblock the first waiter, count. *)
sema_up(s) ==
  /\ value' = [value EXCEPT ![s] = @ + 1]
  /\ IF waiters[s] = <<>>
       THEN schedUnchanged /\ UNCHANGED waiters
       ELSE /\ thread_unblock(Head(waiters[s]))
            /\ waiters' = [waiters EXCEPT ![s] = Tail(@)]

(* A thread that was woken inside sema_down tests the value again. *)
SemaDownLoop ==
  /\ intr = "OFF" /\ pc[current] = "down"
  /\ sema_down(on[current])
  /\ UNCHANGED <<holder, cond_waiters, lk, cv, tidVars>>

SemaDown(s) ==
  /\ At("run") /\ s \in PlainSema
  /\ sema_down(s)
  /\ UNCHANGED <<holder, cond_waiters, lk, cv, tidVars>>

SemaTryDown(s) ==
  /\ At("run") /\ s \in PlainSema
  /\ value[s] > 0
  /\ value' = [value EXCEPT ![s] = @ - 1]
  /\ schedUnchanged
  /\ UNCHANGED <<pc, waiters, holder, cond_waiters, on, lk, cv, tidVars>>

(* An external interrupt handler ups its device's semaphore. *)
DeviceInterrupt(d) ==
  /\ intr = "ON" /\ value[dev_sema(d)] < MaxValue
  /\ WakeHlt
  /\ sema_up(dev_sema(d))
  /\ UNCHANGED <<holder, cond_waiters, on, lk, cv, tidVars>>

(* thread_start(): wait until idle() has set idle_thread. *)
ThreadStart ==
  /\ At("boot")
  /\ sema_down(idle_started)
  /\ UNCHANGED <<holder, cond_waiters, lk, cv, tidVars>>

(* Faulty variant: idle() does not up idle_started. *)
IdleUp_forgotten ==
  /\ At("idle_up")
  /\ goto(current, after_up("idle_up"))
  /\ schedUnchanged
  /\ UNCHANGED <<synchVars, tidVars>>

IdleUp ==
  /\ At("idle_up")
  /\ sema_up(idle_started)
  /\ goto(current, after_up("idle_up"))
  /\ UNCHANGED <<holder, cond_waiters, on, lk, cv, tidVars>>

-----------------------------------------------------------------------------
(* lock_acquire (l), called from ordinary code, from cond_wait and from    *)
(* allocate_tid: sema_down, then, with interrupts on, the holder.          *)
lock_acquire(l) ==
  /\ holder[l] # current
  /\ lk' = [lk EXCEPT ![current] = l]
  /\ sema_down(lock_sema(l))

LockAcquire(l) ==
  /\ At("run") /\ l # tid_lock
  /\ lock_acquire(l)
  /\ UNCHANGED <<holder, cond_waiters, cv, tidVars>>

LockSetHolder ==
  /\ At("got")
  /\ holder' = [holder EXCEPT ![lk[current]] = current]
  /\ goto(current, IF lk[current] = tid_lock THEN "c_tid" ELSE "run")
  /\ schedUnchanged
  /\ UNCHANGED <<value, waiters, cond_waiters, on, lk, cv, tidVars>>

(* Faulty variant: the semaphore is tested but not decremented. *)
LockTryAcquire_test(l) ==
  /\ At("run") /\ l # tid_lock /\ holder[l] # current
  /\ value[lock_sema(l)] > 0
  /\ lk' = [lk EXCEPT ![current] = l]
  /\ goto(current, "got")
  /\ schedUnchanged
  /\ UNCHANGED <<value, waiters, holder, cond_waiters, on, cv, tidVars>>

(* sema_try_down succeeds, then holder is set: the same window. *)
LockTryAcquire(l) ==
  /\ At("run") /\ l # tid_lock /\ holder[l] # current
  /\ value[lock_sema(l)] > 0
  /\ value' = [value EXCEPT ![lock_sema(l)] = @ - 1]
  /\ lk' = [lk EXCEPT ![current] = l]
  /\ goto(current, "got")
  /\ schedUnchanged
  /\ UNCHANGED <<waiters, holder, cond_waiters, on, cv, tidVars>>

(* Faulty variant: the ASSERT that the caller is the holder is dropped. *)
lock_release_anyone(l, place) ==
  /\ holder[l] # NULL
  /\ holder' = [holder EXCEPT ![l] = NULL]
  /\ lk' = [lk EXCEPT ![current] = l]
  /\ on' = [on EXCEPT ![current] = lock_sema(l)]
  /\ goto(current, place)
  /\ schedUnchanged

(* The first statement of lock_release; `place' is its sema_up. *)
lock_release(l, place) ==
  /\ holder[l] = current
  /\ holder' = [holder EXCEPT ![l] = NULL]
  /\ lk' = [lk EXCEPT ![current] = l]
  /\ on' = [on EXCEPT ![current] = lock_sema(l)]
  /\ goto(current, place)
  /\ schedUnchanged

LockRelease(l) ==
  /\ At("run")
  /\ lock_release(l, "release_up")
  /\ UNCHANGED <<value, waiters, cond_waiters, cv, tidVars>>

(* The sema_up that ends lock_release and cond_signal. *)
SemaUp ==
  \E place \in {"release_up", "w_up", "c_up", "signal_up", "bcast_up"} :
    /\ At(place)
    /\ sema_up(on[current])
    /\ goto(current, after_up(place))
    /\ UNCHANGED <<holder, cond_waiters, on, lk, cv, tidVars>>

-----------------------------------------------------------------------------
(* cond_wait (c, LockOf[c]): a fresh semaphore on the stack, queued on the *)
(* condition; then lock_release, sema_down, lock_acquire.                  *)
CondWait(c) ==
  /\ At("run") /\ holder[LockOf[c]] = current
  /\ value' = [value EXCEPT ![stack_sema(current)] = 0]
  /\ waiters' = [waiters EXCEPT ![stack_sema(current)] = <<>>]
  /\ cond_waiters' = [cond_waiters EXCEPT ![c] = Append(@, current)]
  /\ cv' = [cv EXCEPT ![current] = c]
  /\ goto(current, "w_release")
  /\ schedUnchanged
  /\ UNCHANGED <<holder, on, lk, tidVars>>

CondWaitRelease ==
  /\ At("w_release")
  /\ lock_release(LockOf[cv[current]], "w_up")
  /\ UNCHANGED <<value, waiters, cond_waiters, cv, tidVars>>

(* Faulty variant: the semaphore is initialized here, after the release. *)
CondWaitDown_init ==
  /\ At("w_down")
  /\ waiters' = [waiters EXCEPT ![stack_sema(current)] = Append(@, current)]
  /\ value' = [value EXCEPT ![stack_sema(current)] = 0]
  /\ on' = [on EXCEPT ![current] = stack_sema(current)]
  /\ goto(current, "down")
  /\ thread_block
  /\ UNCHANGED <<holder, cond_waiters, lk, cv, tidVars>>

CondWaitDown ==
  /\ At("w_down")
  /\ sema_down(stack_sema(current))
  /\ UNCHANGED <<holder, cond_waiters, lk, cv, tidVars>>

CondWaitAcquire ==
  /\ At("w_acquire")
  /\ lock_acquire(LockOf[cv[current]])
  /\ UNCHANGED <<holder, cond_waiters, cv, tidVars>>

(* cond_signal: pop the first waiter, then up its semaphore. *)
cond_signal(c, place) ==
  /\ holder[LockOf[c]] = current
  /\ cond_waiters[c] # <<>>
  /\ on' = [on EXCEPT ![current] = stack_sema(Head(cond_waiters[c]))]
  /\ cond_waiters' = [cond_waiters EXCEPT ![c] = Tail(@)]
  /\ goto(current, place)
  /\ schedUnchanged

CondSignal(c) ==
  /\ At("run")
  /\ cond_signal(c, "signal_up")
  /\ UNCHANGED <<value, waiters, holder, lk, cv, tidVars>>

CondBroadcast(c) ==
  /\ At("run") /\ holder[LockOf[c]] = current
  /\ cv' = [cv EXCEPT ![current] = c]
  /\ goto(current, "bcast")
  /\ schedUnchanged
  /\ UNCHANGED <<value, waiters, holder, cond_waiters, on, lk, tidVars>>

CondBroadcastLoop ==
  /\ At("bcast")
  /\ \/ cond_signal(cv[current], "bcast_up")
     \/ /\ cond_waiters[cv[current]] = <<>>
        /\ goto(current, "run")
        /\ schedUnchanged
        /\ UNCHANGED <<cond_waiters, on>>
  /\ UNCHANGED <<value, waiters, holder, lk, cv, tidVars>>

-----------------------------------------------------------------------------
(* thread_create: a page for the thread (it may not find one, and returns  *)
(* TID_ERROR with nothing changed), init_thread, allocate_tid, and         *)
(* thread_unblock.                                                         *)
ThreadCreate(t) ==
  /\ At("run") /\ status[t] = "NONE"
  /\ status' = [status EXCEPT ![t] = "BLOCKED"]
  /\ new' = [new EXCEPT ![current] = t]
  /\ goto(current, "c_lock")
  /\ UNCHANGED <<ready_list, idle_thread, current, intr, thread_ticks, synchVars, tid, next_tid>>

AllocateTidLock ==
  /\ At("c_lock")
  /\ lock_acquire(tid_lock)
  /\ UNCHANGED <<holder, cond_waiters, cv, tidVars>>

(* tid = next_tid++ is a load and a store, with interrupts on. *)
AllocateTidLoad ==
  /\ At("c_tid")
  /\ tid' = [tid EXCEPT ![new[current]] = next_tid]
  /\ goto(current, "c_inc")
  /\ schedUnchanged
  /\ UNCHANGED <<synchVars, next_tid, new>>

(* Faulty variant: next_tid is not advanced. *)
AllocateTidStore_lost ==
  /\ At("c_inc")
  /\ goto(current, "c_release")
  /\ schedUnchanged
  /\ UNCHANGED <<synchVars, tidVars>>

AllocateTidStore ==
  /\ At("c_inc")
  /\ next_tid' = tid[new[current]] + 1
  /\ goto(current, "c_release")
  /\ schedUnchanged
  /\ UNCHANGED <<synchVars, tid, new>>

AllocateTidRelease ==
  /\ At("c_release")
  /\ lock_release(tid_lock, "c_up")
  /\ UNCHANGED <<value, waiters, cond_waiters, cv, tidVars>>

ThreadCreateUnblock ==
  /\ At("c_unblock")
  /\ thread_unblock(new[current])
  /\ pc' = [pc EXCEPT ![current] = "run", ![new[current]] = "entry"]
  /\ UNCHANGED <<synchVars, tidVars>>

-----------------------------------------------------------------------------
(* thread_exit after process_exit: with interrupts off, up exit_semaphore  *)
(* (not for the initial thread), become DYING, and schedule.               *)
ThreadExit ==
  LET s     == exit_sema(current)
      wakes == current # Main /\ waiters[s] # <<>>
      waiter == Head(waiters[s])
  IN
  /\ At("run")
  /\ value' = IF current = Main THEN value ELSE [value EXCEPT ![s] = @ + 1]
  /\ waiters' = IF wakes THEN [waiters EXCEPT ![s] = Tail(@)] ELSE waiters
  /\ goto(current, "dead")
  /\ IF wakes
       THEN schedule([status EXCEPT ![waiter] = "READY", ![current] = "DYING"],
                     Append(ready_list, waiter))
       ELSE schedule([status EXCEPT ![current] = "DYING"], ready_list)
  /\ UNCHANGED <<holder, cond_waiters, on, lk, cv, tidVars>>

(* A thread that calls thread_yield. *)
ThreadYield ==
  /\ At("run")
  /\ thread_yield
  /\ UNCHANGED <<pc, synchVars, tidVars>>

-----------------------------------------------------------------------------
(* Steps that continue a section with interrupts off after a switch. *)
Resume ==
  \/ (YieldReturn \/ KernelThread \/ IdleHalt) /\ UNCHANGED <<synchVars, tidVars>>
  \/ SemaDownLoop

Tick == ThreadTick /\ UNCHANGED <<synchVars, tidVars>>

IdleStep ==
  \/ (IdleSet \/ IdleBlock) /\ UNCHANGED <<synchVars, tidVars>>
  \/ IdleUp

(* Steps a thread has to take once it is inside a primitive. *)
Inside ==
  \/ ThreadStart \/ LockSetHolder \/ SemaUp
  \/ CondWaitRelease \/ CondWaitDown \/ CondWaitAcquire \/ CondBroadcastLoop
  \/ AllocateTidLock \/ AllocateTidLoad \/ AllocateTidStore
  \/ AllocateTidRelease \/ ThreadCreateUnblock

(* Calls a thread in ordinary code may make. *)
Call ==
  \/ \E s \in Waited : SemaDown(s) \/ SemaTryDown(s)
  \/ \E l \in Lock : LockAcquire(l) \/ LockTryAcquire(l) \/ LockRelease(l)
  \/ \E c \in Cond : CondWait(c) \/ CondSignal(c) \/ CondBroadcast(c)
  \/ \E t \in Thread : ThreadCreate(t)
  \/ ThreadExit
  \/ ThreadYield

Next ==
  \/ Tick \/ Resume \/ IdleStep \/ Inside \/ Call
  \/ \E d \in Dev : DeviceInterrupt(d)

(* The CPU does not stop with interrupts off, and the timer does not stop. *)
(* A time slice is long enough for a thread to execute some instructions,  *)
(* so one that is scheduled again and again gets on inside a primitive.    *)
Fairness ==
  /\ WF_vars(Tick) /\ WF_vars(Resume)
  /\ \A t \in Thread : SF_vars(current = t /\ (Inside \/ IdleStep))

Spec == Init /\ [][Next]_vars

FairSpec == Spec /\ Fairness
-----------------------------------------------------------------------------
(* Properties *)

Place == {"none", "entry", "boot", "run", "down", "got", "release_up",
          "w_release", "w_up", "w_down", "w_acquire", "signal_up", "bcast",
          "bcast_up", "c_lock", "c_tid", "c_inc", "c_release", "c_up",
          "c_unblock", "idle_set", "idle_up", "idle", "idle_off", "hlt", "dead"}

(* The types of all variables.  current \in Thread is the ASSERT of        *)
(* schedule() that there is a thread to run, also before idle_thread is set *)
(* and while every other thread is blocked.                                *)
TypeOK ==
  /\ status \in [Thread -> Status]
  /\ ready_list \in Seq(Thread)
  /\ idle_thread \in {NULL, Idle}
  /\ current \in Thread
  /\ intr \in {"ON", "OFF"}
  /\ thread_ticks \in 0..(TIME_SLICE - 1)
  /\ pc \in [Thread -> Place]
  /\ value \in [Sema -> Nat]
  /\ waiters \in [Sema -> Seq(Thread)]
  /\ holder \in [Lock -> Thread \cup {NULL}]
  /\ cond_waiters \in [Cond -> Seq(Thread)]
  /\ on \in [Thread -> Sema]
  /\ lk \in [Thread -> Lock]
  /\ cv \in [Thread -> Cond \cup {NULL}]
  /\ tid \in [Thread -> Nat]
  /\ next_tid \in Nat
  /\ new \in [Thread -> Thread \cup {NULL}]

Members(seq) == {seq[i] : i \in DOMAIN seq}

NoRepeat(seq) == \A i, j \in DOMAIN seq : seq[i] = seq[j] => i = j

(* thread.h: the one list element `elem' of a thread can serve the run     *)
(* queue and the semaphore wait lists because a thread is on at most one   *)
(* list at a time, and once on it: a thread on the run queue is READY, a   *)
(* thread on a wait list is BLOCKED and inside sema_down on that           *)
(* semaphore.  Hence the ASSERT of thread_unblock never fails.             *)
ElemOnOneList ==
  /\ NoRepeat(ready_list)
  /\ \A t \in Members(ready_list) : status[t] = "READY"
  /\ \A s \in Sema :
       /\ NoRepeat(waiters[s])
       /\ \A t \in Members(waiters[s]) :
            status[t] = "BLOCKED" /\ pc[t] = "down" /\ on[t] = s

(* thread_current()'s ASSERT: exactly the thread on whose stack the CPU    *)
(* executes is RUNNING; and no READY thread is forgotten, every one is on  *)
(* the run queue except the idle thread.                                   *)
SchedulerConsistent ==
  /\ \A t \in Thread : (status[t] = "RUNNING") <=> (t = current)
  /\ \A t \in Thread :
       status[t] = "READY" => t \in Members(ready_list) \/ t = idle_thread

(* t is between the sema_down of lock_acquire and the sema_up of           *)
(* lock_release on l.                                                      *)
Owns(t, l) ==
  \/ holder[l] = t
  \/ pc[t] = "got" /\ lk[t] = l
  \/ pc[t] \in {"release_up", "w_up", "c_up"} /\ lk[t] = l

(* A lock is held by at most one thread, even though holder is assigned    *)
(* outside the semaphore's atomic sections, and its semaphore is 1 exactly *)
(* when nobody holds it.                                                   *)
MutualExclusion ==
  \A l \in Lock :
    /\ \A t, u \in Thread : Owns(t, l) /\ Owns(u, l) => t = u
    /\ value[lock_sema(l)] = IF \E t \in Thread : Owns(t, l) THEN 0 ELSE 1

(* Threads that sema_up has taken off s's wait list and that have not yet  *)
(* tested the value again.                                                 *)
Woken(s) == {t \in Thread : /\ pc[t] = "down" /\ on[t] = s
                            /\ status[t] \in {"READY", "RUNNING"}}

(* No lost wakeup: as long as threads wait for s, every unit of its value  *)
(* has a woken thread on its way to take it, so nobody sleeps beside a     *)
(* semaphore that is up.                                                   *)
NoLostWakeup ==
  \A s \in Sema : waiters[s] # <<>> => value[s] <= Cardinality(Woken(s))

(* t is in cond_wait up to the end of its sema_down; u is about to up the  *)
(* semaphore of t.                                                         *)
Waits(t) == pc[t] \in {"w_release", "w_up", "w_down"} \/ (pc[t] = "down" /\ on[t] = stack_sema(t))
Signals(u, t) == pc[u] \in {"signal_up", "bcast_up"} /\ on[u] = stack_sema(t)

(* A thread in cond_wait that has not been signalled is on the wait list   *)
(* of its condition; one that is off the list has been signalled: its      *)
(* semaphore is up, or the signalling thread is about to up it.            *)
SignalNotLost ==
  \A t \in Thread : Waits(t) =>
    LET queued   == t \in Members(cond_waiters[cv[t]])
        upped    == value[stack_sema(t)] = 1
        upcoming == \E u \in Thread : Signals(u, t)
    IN \/ queued /\ ~upped /\ ~upcoming
       \/ ~queued /\ upped /\ ~upcoming
       \/ ~queued /\ ~upped /\ upcoming

(* What a lock promises to its users is the abstract Mutex, whose owners   *)
(* are the threads between the two semaphore operations.                   *)
Owners == [l \in Lock |-> {t \in Thread : Owns(t, l)}]

M == INSTANCE Mutex WITH owners <- Owners

(* synch.c's locks implement Mutex: every step of the kernel acquires a    *)
(* free lock, releases a lock of the running thread, or leaves all owners. *)
ImplementsMutex == M!Spec

(* allocate_tid gives every thread its own tid although next_tid++ can be  *)
(* preempted between its load and its store.                               *)
TidsUnique ==
  \A t, u \in Thread : tid[t] # 0 /\ tid[t] = tid[u] => t = u

(* Round robin: a thread that is ready runs, whatever the others do. *)
ReadyRuns ==
  \A t \in Thread \ {Idle} : status[t] = "READY" ~> status[t] = "RUNNING"

(* thread_start returns: idle() gets to run and ups idle_started. *)
Boots == <>(pc[Main] = "run")

-----------------------------------------------------------------------------
(* Parts of the inductive invariant. *)

(* The idle thread executes idle() and no other thread does.  Until it has *)
(* recorded itself it is running or on the run queue, so that the run      *)
(* queue is not empty when another thread blocks.                          *)
IdlePlace == {"idle_set", "idle_up", "idle", "idle_off", "hlt"}

IdleInv ==
  /\ pc[Idle] \in {"entry"} \cup IdlePlace
  /\ \A t \in Thread : pc[t] \in IdlePlace => t = Idle
  /\ idle_thread = NULL => /\ pc[Idle] \in {"entry", "idle_set"}
                           /\ Idle = current \/ Idle \in Members(ready_list)

Creating(t) ==
  \/ pc[t] \in {"c_lock", "c_tid", "c_inc", "c_release", "c_up", "c_unblock"}
  \/ pc[t] = "down" /\ on[t] = lock_sema(tid_lock)
  \/ pc[t] = "got" /\ lk[t] = tid_lock

(* The thread that is being created is blocked, has not run, and has one   *)
(* creator.                                                                *)
CreateInv ==
  /\ \A t \in Thread : pc[t] = "none" => status[t] \in {"NONE", "BLOCKED"}
  /\ \A t \in Thread : status[t] = "NONE" => pc[t] = "none"
  /\ \A t \in Thread : Creating(t) => /\ new[t] \in Thread
                                      /\ status[new[t]] = "BLOCKED"
                                      /\ pc[new[t]] = "none"
  /\ \A t, u \in Thread : Creating(t) /\ Creating(u) /\ new[t] = new[u] => t = u

(* A thread inside a condition operation knows its condition, and the      *)
(* semaphore operation a thread is in is the one of its lock, or of the    *)
(* waiter it signals.                                                      *)
ArgInv ==
  \A t \in Thread :
    /\ \/ pc[t] \in {"w_release", "w_up", "w_down", "w_acquire", "bcast", "bcast_up"}
       \/ pc[t] = "down" /\ on[t] \in StackSema
       => cv[t] \in Cond
    /\ pc[t] = "down" /\ on[t] \in LockSema => on[t] = lock_sema(lk[t])
    /\ pc[t] \in {"release_up", "w_up", "c_up"} => on[t] = lock_sema(lk[t])
    /\ pc[t] \in {"signal_up", "bcast_up"} => on[t] \in StackSema

(* A thread on its way into or out of a lock is not its holder. *)
HolderInv ==
  \A t \in Thread :
    \/ pc[t] \in {"got", "release_up", "w_up", "c_up"}
    \/ pc[t] = "down" /\ on[t] \in LockSema
    => holder[lk[t]] # t

(* Only the holder of tid_lock is in the middle of next_tid++, and every   *)
(* tid given out is smaller than next_tid, except during that step.        *)
TidInv ==
  /\ \A t \in Thread : pc[t] \in {"c_tid", "c_inc", "c_release"} => holder[tid_lock] = t
  /\ \A t \in Thread : pc[t] = "c_inc" => tid[new[t]] = next_tid
  /\ \A u \in Thread : \/ tid[u] < next_tid
                       \/ /\ tid[u] = next_tid
                          /\ \E t \in Thread : pc[t] = "c_inc" /\ new[t] = u

(* Only threads in cond_wait are queued or signalled, on their condition   *)
(* and by one thread; nobody else downs their semaphores, which are 0 or 1.*)
SignalInv ==
  /\ \A c \in Cond : /\ NoRepeat(cond_waiters[c])
                     /\ \A t \in Members(cond_waiters[c]) : Waits(t) /\ cv[t] = c
  /\ \A t, u \in Thread : Signals(u, t) => Waits(t)
  /\ \A t, u, v \in Thread : Signals(u, t) /\ Signals(v, t) => u = v
  /\ \A t \in Thread : Waits(t) => value[stack_sema(t)] \in {0, 1}
  /\ \A t \in Thread : pc[t] = "down" /\ on[t] \in StackSema => on[t] = stack_sema(t)

IInv ==
  /\ TypeOK /\ ElemOnOneList /\ SchedulerConsistent /\ IdleInv
  /\ CreateInv /\ ArgInv /\ HolderInv /\ MutualExclusion
  /\ TidInv /\ TidsUnique

=============================================================================
