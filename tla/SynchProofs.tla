----------------------------- MODULE SynchProofs -----------------------------
(***************************************************************************)
(* The scheduler's half of the invariant of Synch: the types (with them,   *)
(* that schedule() always finds a thread), the one-list discipline of      *)
(* thread.elem, and the place of the idle thread.  One lemma for each kind *)
(* of step; SynchLocks, SynchWakeups and SynchInvariance build on them.    *)
(***************************************************************************)
EXTENDS Synch, TLAPS

(* Appending an element that is not yet a member keeps a list without      *)
(* repetitions: list_push_back on ready_list and on waiters.               *)
LEMMA AppendLemma ==
  ASSUME NEW S, NEW q \in Seq(S), NEW x \in S
  PROVE  /\ Append(q, x) \in Seq(S)
         /\ Append(q, x) # <<>>
         /\ Members(Append(q, x)) = Members(q) \cup {x}
         /\ NoRepeat(q) /\ x \notin Members(q) => NoRepeat(Append(q, x))
<1>1. Append(q, x) \in Seq(S) /\ Append(q, x) # <<>>
  <2>1. Append(q, x) \in Seq(S)
    OBVIOUS
  <2>2. Len(Append(q, x)) = Len(q) + 1 /\ Len(q) \in Nat /\ Len(<<>>) = 0
    OBVIOUS
  <2>3. Append(q, x) # <<>>
    BY <2>2
  <2>4. QED
    BY <2>1, <2>3, Zenon
<1>2. DOMAIN Append(q, x) = 1..(Len(q) + 1) /\ DOMAIN q = 1..Len(q) /\ Len(q) \in Nat
  OBVIOUS
<1>3. \A i \in 1..Len(q) : Append(q, x)[i] = q[i]
  OBVIOUS
<1>4. Append(q, x)[Len(q) + 1] = x
  OBVIOUS
<1>5. Members(Append(q, x)) = Members(q) \cup {x}
  BY <1>2, <1>3, <1>4 DEF Members
<1>6. ASSUME NoRepeat(q), x \notin Members(q)
      PROVE  NoRepeat(Append(q, x))
  <2>1. \A i \in 1..Len(q) : q[i] # x
    BY <1>2, <1>6, Zenon DEF Members
  <2>2. \A i, j \in 1..Len(q) : q[i] = q[j] => i = j
    BY <1>2, <1>6, Zenon DEF NoRepeat
  <2>3. \A i \in 1..(Len(q) + 1) : i \in 1..Len(q) \/ i = Len(q) + 1
    BY <1>2
  <2>4. QED
    BY <1>2, <1>3, <1>4, <2>1, <2>2, <2>3, Zenon DEF NoRepeat
<1>7. QED
  BY <1>1, <1>5, <1>6, Zenon

(* Removing the first element: list_pop_front. *)
LEMMA TailLemma ==
  ASSUME NEW S, NEW q \in Seq(S), q # <<>>
  PROVE  /\ Head(q) \in S /\ Tail(q) \in Seq(S)
         /\ Members(q) = Members(Tail(q)) \cup {Head(q)}
         /\ NoRepeat(q) => NoRepeat(Tail(q)) /\ Head(q) \notin Members(Tail(q))
<1>1. Head(q) \in S /\ Tail(q) \in Seq(S)
  OBVIOUS
<1>2. /\ DOMAIN q = 1..Len(q) /\ Len(q) \in Nat /\ Len(q) >= 1
      /\ DOMAIN Tail(q) = 1..(Len(q) - 1)
      /\ Head(q) = q[1]
      /\ \A i \in 1..(Len(q) - 1) : Tail(q)[i] = q[i + 1]
  OBVIOUS
<1>3. Members(q) = Members(Tail(q)) \cup {Head(q)}
  <2>1. \A i \in 1..Len(q) : i = 1 \/ (i - 1 \in 1..(Len(q) - 1) /\ q[i] = Tail(q)[i - 1])
    BY <1>2
  <2>2. \A i \in 1..(Len(q) - 1) : i + 1 \in 1..Len(q)
    BY <1>2
  <2>3. Members(q) \subseteq Members(Tail(q)) \cup {Head(q)}
    <3>1. SUFFICES ASSUME NEW i \in 1..Len(q), q[i] # Head(q)
                   PROVE  q[i] \in Members(Tail(q))
      BY <1>2, Zenon DEF Members
    <3>2. i - 1 \in DOMAIN Tail(q) /\ q[i] = Tail(q)[i - 1]
      BY <1>2, <2>1, <3>1, Zenon
    <3>3. QED
      BY <3>2, Zenon DEF Members
  <2>4. Members(Tail(q)) \cup {Head(q)} \subseteq Members(q)
    <3>1. Head(q) \in Members(q)
      BY <1>2 DEF Members
    <3>2. Members(Tail(q)) \subseteq Members(q)
      BY <1>2, <2>2 DEF Members
    <3>3. QED
      BY <3>1, <3>2, Zenon
  <2>5. QED
    BY <2>3, <2>4, Zenon
<1>4. ASSUME NoRepeat(q)
      PROVE  NoRepeat(Tail(q)) /\ Head(q) \notin Members(Tail(q))
  <2>1. \A i, j \in 1..Len(q) : q[i] = q[j] => i = j
    BY <1>2, <1>4, Zenon DEF NoRepeat
  <2>2. \A i \in 1..(Len(q) - 1) : i + 1 \in 1..Len(q) /\ i + 1 # 1
    BY <1>2
  <2>3. NoRepeat(Tail(q))
    BY <1>2, <2>1, <2>2 DEF NoRepeat
  <2>4. Head(q) \notin Members(Tail(q))
    BY <1>2, <2>1, <2>2 DEF Members
  <2>5. QED
    BY <2>3, <2>4, Zenon
<1>5. QED
  BY <1>1, <1>3, <1>4, Zenon

LEMMA MembersLemma ==
  ASSUME NEW S, NEW q \in Seq(S)
  PROVE  /\ Members(q) \subseteq S
         /\ Members(q) # {} => q # <<>>
BY DEF Members

(* The semaphores of the kernel are distinct objects. *)
LEMMA SemaFacts ==
  /\ \A l \in Lock : lock_sema(l) \in LockSema /\ lock_sema(l) \in Sema
  /\ \A l, m \in Lock : lock_sema(l) = lock_sema(m) => l = m
  /\ \A t \in Thread : stack_sema(t) \in StackSema /\ stack_sema(t) \in Sema
  /\ \A t, u \in Thread : stack_sema(t) = stack_sema(u) => t = u
  /\ \A t \in Thread : exit_sema(t) \in PlainSema
  /\ \A d \in Dev : dev_sema(d) \in PlainSema
  /\ PlainSema \subseteq Sema /\ LockSema \subseteq Sema /\ StackSema \subseteq Sema
  /\ idle_started \in Sema
  /\ idle_started \notin LockSema /\ idle_started \notin StackSema
  /\ \A s \in PlainSema : s \notin LockSema /\ s \notin StackSema
  /\ \A s \in StackSema : s \notin LockSema
BY DEF lock_sema, stack_sema, exit_sema, dev_sema, idle_started,
       LockSema, StackSema, PlainSema, Sema

(* What schedule() does to the scheduler's state, given that a thread can  *)
(* be found.                                                               *)
LEMMA ScheduleLemma ==
  ASSUME NEW st \in [Thread -> Status], NEW queue \in Seq(Thread),
         idle_thread \in {NULL, Idle},
         idle_thread = NULL => queue # <<>>,
         schedule(st, queue)
  PROVE  /\ current' \in Thread
         /\ ready_list' \in Seq(Thread)
         /\ status' \in [Thread -> Status]
         /\ status'[current'] = "RUNNING"
         /\ \A t \in Thread : t # current' => status'[t] = st[t]
         /\ Members(ready_list') \subseteq Members(queue)
         /\ Members(queue) \subseteq Members(ready_list') \cup {current'}
         /\ NoRepeat(queue) => /\ NoRepeat(ready_list')
                               /\ queue # <<>> => current' \notin Members(ready_list')
         /\ queue = <<>> => ready_list' = <<>> /\ current' = idle_thread
         /\ queue # <<>> => current' \in Members(queue)
         /\ thread_ticks' = 0 /\ intr' = "OFF" /\ idle_thread' = idle_thread
<1>. DEFINE next == next_thread_to_run(queue)
<1>1. next \in Thread
  <2>1. CASE queue = <<>>
    BY <2>1, SchedulerAssumption, Zenon DEF next_thread_to_run
  <2>2. CASE queue # <<>>
    BY <2>2, TailLemma, Zenon DEF next_thread_to_run
  <2>3. QED
    BY <2>1, <2>2, Zenon
<1>2. current' = next /\ thread_ticks' = 0 /\ intr' = "OFF" /\ idle_thread' = idle_thread
  BY Zenon DEF schedule
<1>3. /\ status' \in [Thread -> Status]
      /\ status'[current'] = "RUNNING"
      /\ \A t \in Thread : t # current' => status'[t] = st[t]
  BY <1>1, <1>2, Zenon DEF schedule, Status
<1>4. CASE queue = <<>>
  BY <1>1, <1>2, <1>3, <1>4, Zenon DEF schedule, next_thread_to_run
<1>5. CASE queue # <<>>
  <2>1. ready_list' = Tail(queue) /\ current' = Head(queue)
    BY <1>2, <1>5, Zenon DEF schedule, next_thread_to_run
  <2>2. QED
    BY <1>1, <1>2, <1>3, <1>5, <2>1, TailLemma
<1>6. QED
  BY <1>4, <1>5, Zenon

-----------------------------------------------------------------------------
(* The scheduler's part of the invariant. *)
SI == ElemOnOneList /\ SchedulerConsistent /\ IdleInv

(* The running thread is on no list. *)
LEMMA CurrentUnlisted ==
  ASSUME TypeOK, SI
  PROVE  /\ status[current] = "RUNNING"
         /\ current \notin Members(ready_list)
         /\ \A s \in Sema : current \notin Members(waiters[s])
<1>1. status[current] = "RUNNING" /\ current \in Thread
  BY Zenon DEF TypeOK, SI, SchedulerConsistent
<1>2. current \notin Members(ready_list)
  BY <1>1, Zenon DEF SI, ElemOnOneList
<1>3. \A s \in Sema : current \notin Members(waiters[s])
  BY <1>1, Zenon DEF SI, ElemOnOneList
<1>4. QED
  BY <1>1, <1>2, <1>3, Zenon

(* If the thread that gives up the CPU is not the idle thread, or has left *)
(* the start of idle(), schedule() finds a thread.                         *)
LEMMA FindsThread ==
  ASSUME TypeOK, SI, pc[current] \notin {"entry", "idle_set"}
  PROVE  idle_thread = NULL => ready_list # <<>>
<1>1. SUFFICES ASSUME idle_thread = NULL PROVE ready_list # <<>>
  BY Zenon
<1>2. Idle \in Members(ready_list)
  BY <1>1, Zenon DEF SI, IdleInv
<1>3. QED
  BY <1>2 DEF Members

(* The running thread goes to another place of the same function. *)
PlaceStep(place) ==
  /\ place \in Place
  /\ pc' = [pc EXCEPT ![current] = place]
  /\ pc[current] \in IdlePlace <=> place \in IdlePlace
  /\ pc[current] = "entry" <=> place = "entry"
  /\ pc[current] = "idle_set" => place = "idle_set"

LEMMA PlaceStepIdle ==
  ASSUME TypeOK, SI, NEW place, PlaceStep(place)
  PROVE  /\ pc' \in [Thread -> Place]
         /\ \A t \in Thread : t # current => pc'[t] = pc[t]
         /\ pc'[Idle] \in {"entry"} \cup IdlePlace
         /\ \A t \in Thread : pc'[t] \in IdlePlace => t = Idle
         /\ idle_thread = NULL => pc'[Idle] \in {"entry", "idle_set"}
BY SchedulerAssumption, Zenon DEF TypeOK, SI, IdleInv, PlaceStep, IdlePlace

(* A step of the running thread that leaves the scheduler alone. *)
LEMMA QuietStep ==
  ASSUME TypeOK, SI, UNCHANGED <<status, ready_list, idle_thread, current>>,
         NEW place, PlaceStep(place),
         \A t \in Thread : t # current => on'[t] = on[t],
         \A s \in Sema : waiters'[s] = waiters[s] \/ waiters'[s] = <<>>
  PROVE  SI'
<1>1. current \in Thread /\ pc \in [Thread -> Place]
  BY Zenon DEF TypeOK
<1>2. ElemOnOneList'
  <2>1. NoRepeat(ready_list)' /\ \A t \in Members(ready_list') : status'[t] = "READY"
    BY Zenon DEF SI, ElemOnOneList, NoRepeat
  <2>2. ASSUME NEW s \in Sema
        PROVE  /\ NoRepeat(waiters'[s])
               /\ \A t \in Members(waiters'[s]) :
                    status'[t] = "BLOCKED" /\ pc'[t] = "down" /\ on'[t] = s
    <3>1. CASE waiters'[s] = <<>>
      BY <3>1 DEF NoRepeat, Members
    <3>2. CASE waiters'[s] = waiters[s]
      <4>1. NoRepeat(waiters'[s])
        BY <3>2, Zenon DEF SI, ElemOnOneList
      <4>2. ASSUME NEW t \in Members(waiters'[s])
            PROVE  status'[t] = "BLOCKED" /\ pc'[t] = "down" /\ on'[t] = s
        <5>1. t \in Thread
          BY <3>2 DEF TypeOK, Members
        <5>2. t # current
          BY <3>2, CurrentUnlisted, Zenon
        <5>3. QED
          BY <1>1, <3>2, <5>1, <5>2, PlaceStepIdle DEF SI, ElemOnOneList
      <4>3. QED
        BY <4>1, <4>2, Zenon
    <3>3. QED
      BY <3>1, <3>2, Zenon
  <2>3. QED
    BY <2>1, <2>2, Zenon DEF ElemOnOneList, NoRepeat
<1>3. SchedulerConsistent'
  BY Zenon DEF SI, SchedulerConsistent, Members
<1>4. IdleInv'
  BY PlaceStepIdle, Zenon DEF SI, IdleInv, Members
<1>5. QED
  BY <1>2, <1>3, <1>4, Zenon DEF SI

(* A switch.  st and queue are the statuses and the run queue with which   *)
(* schedule() is entered: nobody RUNNING, the queue made of READY threads, *)
(* the wait lists of BLOCKED ones.                                         *)
SwitchBefore(st, queue) ==
  /\ st \in [Thread -> Status] /\ queue \in Seq(Thread)
  /\ \A t \in Thread : st[t] # "RUNNING"
  /\ NoRepeat(queue)
  /\ \A t \in Members(queue) : st[t] = "READY"
  /\ \A t \in Thread : st[t] = "READY" => t \in Members(queue) \/ t = idle_thread
  /\ \A s \in Sema : /\ NoRepeat(waiters'[s])
                      /\ \A t \in Members(waiters'[s]) :
                           /\ t \in Thread /\ st[t] = "BLOCKED"
                           /\ pc'[t] = "down" /\ on'[t] = s
  /\ pc'[Idle] \in {"entry"} \cup IdlePlace
  /\ \A t \in Thread : pc'[t] \in IdlePlace => t = Idle
  /\ idle_thread = NULL => /\ pc'[Idle] \in {"entry", "idle_set"}
                           /\ Idle \in Members(queue)

(* What any step does with the status of a thread that is not yet made or  *)
(* is being made.                                                          *)
StatusFrame ==
  \A t \in Thread :
    /\ pc[t] = "none" /\ status[t] \in {"NONE", "BLOCKED"} => status'[t] = status[t]
    /\ status'[t] = "NONE" => status[t] = "NONE"

SwitchAfter(st) ==
  /\ current' \in Thread /\ ready_list' \in Seq(Thread)
  /\ status' \in [Thread -> Status]
  /\ thread_ticks' = 0 /\ intr' = "OFF" /\ idle_thread' = idle_thread
  /\ \A t \in Thread : st[t] \in {"NONE", "BLOCKED"} /\ pc'[t] = "none" => status'[t] = st[t]
  /\ \A t \in Thread : status'[t] = "NONE" => st[t] = "NONE"

LEMMA SwitchStep ==
  ASSUME TypeOK, NEW st, NEW queue, SwitchBefore(st, queue), schedule(st, queue)
  PROVE  SI' /\ SwitchAfter(st)
<1>. USE DEF SwitchBefore
<1>1. idle_thread = NULL => queue # <<>>
  BY DEF Members
<1>2. idle_thread \in {NULL, Idle}
  BY Zenon DEF TypeOK
<1>3. /\ current' \in Thread
      /\ ready_list' \in Seq(Thread)
      /\ status' \in [Thread -> Status]
      /\ status'[current'] = "RUNNING"
      /\ \A t \in Thread : t # current' => status'[t] = st[t]
      /\ Members(ready_list') \subseteq Members(queue)
      /\ Members(queue) \subseteq Members(ready_list') \cup {current'}
      /\ NoRepeat(queue) => /\ NoRepeat(ready_list')
                            /\ queue # <<>> => current' \notin Members(ready_list')
      /\ queue = <<>> => ready_list' = <<>> /\ current' = idle_thread
      /\ queue # <<>> => current' \in Members(queue)
      /\ thread_ticks' = 0 /\ intr' = "OFF" /\ idle_thread' = idle_thread
  BY <1>1, <1>2, ScheduleLemma, Zenon
<1>4. current' = Idle \/ st[current'] = "READY"
  BY <1>1, <1>2, <1>3, Zenon
<1>5. ElemOnOneList'
  <2>1. NoRepeat(ready_list')
    BY <1>3, Zenon
  <2>2. ASSUME NEW t \in Members(ready_list')
        PROVE  status'[t] = "READY"
    <3>1. t \in Members(queue)
      BY <1>3, Zenon
    <3>2. t \in Thread /\ queue # <<>>
      BY <3>1, MembersLemma, Zenon
    <3>3. QED
      BY <1>3, <3>1, <3>2
  <2>3. ASSUME NEW s \in Sema, NEW t \in Members(waiters'[s])
        PROVE  status'[t] = "BLOCKED" /\ pc'[t] = "down" /\ on'[t] = s
    <3>1. t # Idle
      BY DEF IdlePlace
    <3>2. QED
      BY <1>3, <1>4, <3>1
  <2>4. QED
    BY <2>1, <2>2, <2>3, Zenon DEF ElemOnOneList, NoRepeat, Members
<1>6. SchedulerConsistent'
  <2>1. \A t \in Thread : (status'[t] = "RUNNING") <=> (t = current')
    BY <1>3
  <2>2. \A t \in Thread : status'[t] = "READY" => t \in Members(ready_list') \/ t = idle_thread'
    BY <1>3
  <2>3. QED
    BY <2>1, <2>2, Zenon DEF SchedulerConsistent, Members
<1>7. IdleInv'
  BY <1>3, Zenon DEF IdleInv, Members
<1>8. \A t \in Thread : st[t] \in {"NONE", "BLOCKED"} /\ pc'[t] = "none" => status'[t] = st[t]
  <2>1. \A t \in Thread : pc'[t] = "none" => t # Idle
    BY Zenon DEF IdlePlace
  <2>2. QED
    BY <1>3, <1>4, <2>1, Zenon
<1>9. QED
  BY <1>3, <1>5, <1>6, <1>7, <1>8, Zenon DEF SI, SwitchAfter

(* The running thread joins the waiters of s and blocks. *)
LEMMA BlockStep ==
  ASSUME TypeOK, SI, NEW s \in Sema,
         pc[current] \notin {"entry"} \cup IdlePlace,
         waiters' = [waiters EXCEPT ![s] = Append(@, current)],
         on' = [on EXCEPT ![current] = s],
         pc' = [pc EXCEPT ![current] = "down"],
         thread_block
  PROVE  SI' /\ SwitchAfter(status) /\ waiters' \in [Sema -> Seq(Thread)]
<1>. DEFINE st == [status EXCEPT ![current] = "BLOCKED"]
<1>1. /\ current \in Thread /\ pc \in [Thread -> Place] /\ on \in [Thread -> Sema]
      /\ ready_list \in Seq(Thread) /\ idle_thread \in {NULL, Idle}
      /\ status \in [Thread -> Status] /\ waiters \in [Sema -> Seq(Thread)]
  BY Zenon DEF TypeOK
<1>2. current # Idle
  BY Zenon DEF SI, IdleInv
<1>3. st \in [Thread -> Status]
  BY <1>1, Zenon DEF Status
<1>4. schedule(st, ready_list)
  BY Zenon DEF thread_block
<1>5. /\ status[current] = "RUNNING"
      /\ current \notin Members(ready_list)
      /\ \A r \in Sema : current \notin Members(waiters[r])
  BY CurrentUnlisted, Zenon
<1>6. \A t \in Thread : st[t] # "RUNNING"
  BY <1>1, Zenon DEF SI, SchedulerConsistent
<1>7. NoRepeat(ready_list) /\ \A t \in Members(ready_list) : st[t] = "READY"
  BY <1>1, <1>5 DEF SI, ElemOnOneList
<1>8. \A t \in Thread : st[t] = "READY" => t \in Members(ready_list) \/ t = idle_thread
  BY <1>1, Zenon DEF SI, SchedulerConsistent
<1>9. ASSUME NEW r \in Sema
      PROVE  /\ NoRepeat(waiters'[r])
             /\ \A t \in Members(waiters'[r]) : /\ t \in Thread /\ st[t] = "BLOCKED"
                                                /\ pc'[t] = "down" /\ on'[t] = r
  <2>1. /\ NoRepeat(waiters[r])
        /\ \A t \in Members(waiters[r]) :
             t \in Thread /\ status[t] = "BLOCKED" /\ pc[t] = "down" /\ on[t] = r /\ t # current
    BY <1>1, <1>5 DEF SI, ElemOnOneList, Members
  <2>2. CASE r = s
    <3>1. NoRepeat(waiters'[r]) /\ Members(waiters'[r]) = Members(waiters[r]) \cup {current}
      BY <1>1, <1>5, <2>1, <2>2, AppendLemma
    <3>2. QED
      BY <1>1, <2>1, <2>2, <3>1, Zenon
  <2>3. CASE r # s
    BY <1>1, <2>1, <2>3, Zenon
  <2>4. QED
    BY <2>2, <2>3, Zenon
<1>10. /\ pc'[Idle] = pc[Idle]
       /\ \A t \in Thread : pc'[t] \in IdlePlace => pc[t] \in IdlePlace
  BY <1>1, <1>2, SchedulerAssumption, Zenon DEF IdlePlace
<1>11. /\ pc'[Idle] \in {"entry"} \cup IdlePlace
       /\ \A t \in Thread : pc'[t] \in IdlePlace => t = Idle
       /\ idle_thread = NULL => /\ pc'[Idle] \in {"entry", "idle_set"}
                                /\ Idle \in Members(ready_list)
  BY <1>2, <1>10, Zenon DEF SI, IdleInv
<1>12. waiters' \in [Sema -> Seq(Thread)]
  BY <1>1, AppendLemma, Zenon
<1>13. SwitchBefore(st, ready_list)
  BY <1>1, <1>3, <1>6, <1>7, <1>8, <1>9, <1>11, Zenon DEF SwitchBefore
<1>. HIDE DEF st
<1>14. SI' /\ SwitchAfter(st)
  BY <1>4, <1>13, SwitchStep, Zenon
<1>15. SwitchAfter(status)
  BY <1>1, <1>5, <1>14, Zenon DEF st, SwitchAfter
<1>16. QED
  BY <1>12, <1>14, <1>15, Zenon

(* sema_up (s) by the running thread or by an interrupt handler. *)
LEMMA UpStep ==
  ASSUME TypeOK, SI, NEW s \in Sema, sema_up(s), UNCHANGED on,
         NEW place, PlaceStep(place)
  PROVE  /\ SI'
         /\ status' \in [Thread -> Status] /\ ready_list' \in Seq(Thread)
         /\ waiters' \in [Sema -> Seq(Thread)]
         /\ UNCHANGED <<idle_thread, current, intr, thread_ticks>>
         /\ StatusFrame
<1>1. /\ current \in Thread /\ pc \in [Thread -> Place] /\ on \in [Thread -> Sema]
      /\ ready_list \in Seq(Thread) /\ idle_thread \in {NULL, Idle}
      /\ status \in [Thread -> Status] /\ waiters \in [Sema -> Seq(Thread)]
  BY Zenon DEF TypeOK
<1>2. CASE waiters[s] = <<>>
  <2>1. schedUnchanged /\ UNCHANGED waiters
    BY <1>2, Zenon DEF sema_up
  <2>2. SI'
    BY <2>1, QuietStep, Zenon DEF schedUnchanged
  <2>3. QED
    BY <1>1, <2>1, <2>2, Zenon DEF schedUnchanged, StatusFrame
<1>3. CASE waiters[s] # <<>>
  <2>. DEFINE w == Head(waiters[s])
  <2>1. /\ waiters' = [waiters EXCEPT ![s] = Tail(@)]
        /\ ready_list' = Append(ready_list, w)
        /\ status' = [status EXCEPT ![w] = "READY"]
        /\ UNCHANGED <<idle_thread, current, intr, thread_ticks>>
    BY <1>3, Zenon DEF sema_up, thread_unblock
  <2>2. /\ w \in Thread /\ Tail(waiters[s]) \in Seq(Thread)
        /\ Members(waiters[s]) = Members(Tail(waiters[s])) \cup {w}
        /\ NoRepeat(waiters[s]) => NoRepeat(Tail(waiters[s])) /\ w \notin Members(Tail(waiters[s]))
    BY <1>1, <1>3, TailLemma, Zenon
  <2>3. status[w] = "BLOCKED" /\ pc[w] = "down" /\ on[w] = s
    BY <2>2, Zenon DEF SI, ElemOnOneList
  <2>4. w # current /\ w \notin Members(ready_list)
    BY <2>2, <2>3, CurrentUnlisted, Zenon DEF SI, ElemOnOneList
  <2>5. /\ ready_list' \in Seq(Thread)
        /\ Members(ready_list') = Members(ready_list) \cup {w}
        /\ NoRepeat(ready_list) => NoRepeat(ready_list')
    BY <1>1, <2>1, <2>2, <2>4, AppendLemma
  <2>6. status' \in [Thread -> Status] /\ waiters' \in [Sema -> Seq(Thread)]
    BY <1>1, <2>1, <2>2, Zenon DEF Status
  <2>. HIDE DEF w
  <2>7. ElemOnOneList'
    <3>1. NoRepeat(ready_list') /\ \A t \in Members(ready_list') : status'[t] = "READY"
      <4>1. Members(ready_list) \subseteq Thread
        BY <1>1, MembersLemma, Zenon
      <4>2. QED
        BY <1>1, <2>1, <2>2, <2>5, <4>1 DEF SI, ElemOnOneList
    <3>2. ASSUME NEW r \in Sema
          PROVE  /\ NoRepeat(waiters'[r])
                 /\ \A t \in Members(waiters'[r]) :
                      status'[t] = "BLOCKED" /\ pc'[t] = "down" /\ on'[t] = r
      <4>1. /\ NoRepeat(waiters'[r])
            /\ Members(waiters'[r]) \subseteq Members(waiters[r])
            /\ w \notin Members(waiters'[r])
        <5>1. CASE r = s
          BY <1>1, <2>1, <2>2, <5>1 DEF SI, ElemOnOneList
        <5>2. CASE r # s
          BY <1>1, <2>1, <2>3, <5>2, Zenon DEF SI, ElemOnOneList
        <5>3. QED
          BY <5>1, <5>2, Zenon
      <4>2. Members(waiters[r]) \subseteq Thread /\ current \notin Members(waiters[r])
        BY <1>1, MembersLemma, CurrentUnlisted, Zenon
      <4>3. QED
        BY <1>1, <2>1, <2>2, <4>1, <4>2, PlaceStepIdle DEF SI, ElemOnOneList
    <3>3. QED
      BY <3>1, <3>2, Zenon DEF ElemOnOneList, NoRepeat, Members
  <2>8. SchedulerConsistent'
    <3>1. \A t \in Thread : (status'[t] = "RUNNING") <=> (t = current')
      BY <1>1, <2>1, <2>2, <2>4, Zenon DEF SI, SchedulerConsistent
    <3>2. \A t \in Thread : status'[t] = "READY" => t \in Members(ready_list') \/ t = idle_thread'
      BY <1>1, <2>1, <2>2, <2>5, Zenon DEF SI, SchedulerConsistent
    <3>3. QED
      BY <3>1, <3>2, Zenon DEF SchedulerConsistent, Members
  <2>9. IdleInv'
    BY <2>1, <2>5, PlaceStepIdle, Zenon DEF SI, IdleInv, Members
  <2>10. StatusFrame
    BY <1>1, <2>1, <2>2, <2>3, Zenon DEF StatusFrame
  <2>11. QED
    BY <2>1, <2>5, <2>6, <2>7, <2>8, <2>9, <2>10, Zenon DEF SI
<1>4. QED
  BY <1>2, <1>3, Zenon

(* thread_yield by the running thread, called or forced by the timer. *)
LEMMA YieldStep ==
  ASSUME TypeOK, SI, thread_yield, UNCHANGED <<waiters, on>>,
         NEW place, PlaceStep(place)
  PROVE  SI' /\ SwitchAfter(status)
<1>. DEFINE st == [status EXCEPT ![current] = "READY"]
            queue == IF current = idle_thread THEN ready_list ELSE Append(ready_list, current)
<1>1. /\ current \in Thread /\ pc \in [Thread -> Place] /\ on \in [Thread -> Sema]
      /\ ready_list \in Seq(Thread) /\ idle_thread \in {NULL, Idle}
      /\ status \in [Thread -> Status] /\ waiters \in [Sema -> Seq(Thread)]
  BY Zenon DEF TypeOK
<1>2. schedule(st, queue)
  BY Zenon DEF thread_yield
<1>3. /\ status[current] = "RUNNING"
      /\ current \notin Members(ready_list)
      /\ \A r \in Sema : current \notin Members(waiters[r])
  BY CurrentUnlisted, Zenon
<1>4. st \in [Thread -> Status] /\ \A t \in Thread : st[t] # "RUNNING"
  BY <1>1, Zenon DEF Status, SI, SchedulerConsistent
<1>5. /\ queue \in Seq(Thread) /\ NoRepeat(queue)
      /\ Members(queue) = IF current = idle_thread THEN Members(ready_list)
                                                   ELSE Members(ready_list) \cup {current}
  <2>1. NoRepeat(ready_list)
    BY Zenon DEF SI, ElemOnOneList
  <2>2. /\ Append(ready_list, current) \in Seq(Thread)
        /\ NoRepeat(Append(ready_list, current))
        /\ Members(Append(ready_list, current)) = Members(ready_list) \cup {current}
    BY <1>1, <1>3, <2>1, AppendLemma
  <2>3. QED
    BY <1>1, <2>1, <2>2, Zenon
<1>6. Members(ready_list) \subseteq Thread
  BY <1>1, MembersLemma, Zenon
<1>. HIDE DEF queue
<1>7. \A t \in Members(queue) : st[t] = "READY"
  BY <1>1, <1>5, <1>6 DEF SI, ElemOnOneList
<1>8. \A t \in Thread : st[t] = "READY" => t \in Members(queue) \/ t = idle_thread
  BY <1>1, <1>5, Zenon DEF SI, SchedulerConsistent
<1>9. ASSUME NEW r \in Sema
      PROVE  /\ NoRepeat(waiters'[r])
             /\ \A t \in Members(waiters'[r]) : /\ t \in Thread /\ st[t] = "BLOCKED"
                                                /\ pc'[t] = "down" /\ on'[t] = r
  <2>1. Members(waiters[r]) \subseteq Thread
    BY <1>1, MembersLemma, Zenon
  <2>2. QED
    BY <1>1, <1>3, <2>1, PlaceStepIdle DEF SI, ElemOnOneList
<1>10. idle_thread = NULL => Idle \in Members(queue)
  BY <1>1, <1>5, SchedulerAssumption, Zenon DEF SI, IdleInv
<1>11. SwitchBefore(st, queue)
  BY <1>4, <1>5, <1>7, <1>8, <1>9, <1>10, PlaceStepIdle, Zenon DEF SwitchBefore
<1>. HIDE DEF st
<1>12. SI' /\ SwitchAfter(st)
  BY <1>2, <1>11, SwitchStep, Zenon
<1>13. SwitchAfter(status)
  BY <1>1, <1>3, <1>12, Zenon DEF st, SwitchAfter
<1>14. QED
  BY <1>12, <1>13, Zenon

-----------------------------------------------------------------------------
(* Preservation of TypeOK and of the scheduler's part of the invariant by  *)
(* each action.                                                            *)

LEMMA StayPlace ==
  ASSUME TypeOK, pc' = pc
  PROVE  PlaceStep(pc[current])
BY Zenon DEF TypeOK, PlaceStep

LEMMA WakeHltPlace ==
  ASSUME TypeOK, WakeHlt
  PROVE  \E place : PlaceStep(place)
<1>1. CASE pc[current] = "hlt"
  BY <1>1, Zenon DEF WakeHlt, TypeOK, PlaceStep, IdlePlace, Place
<1>2. CASE pc[current] # "hlt"
  BY <1>2, StayPlace, Zenon DEF WakeHlt
<1>3. QED
  BY <1>1, <1>2, Zenon

(* sema_down from any place outside idle(). *)
LEMMA DownStep ==
  ASSUME TypeOK, SI, NEW s \in Sema, sema_down(s),
         pc[current] \notin {"entry"} \cup IdlePlace
  PROVE  /\ SI'
         /\ status' \in [Thread -> Status] /\ ready_list' \in Seq(Thread)
         /\ current' \in Thread /\ intr' \in {"ON", "OFF"}
         /\ thread_ticks' \in 0..(TIME_SLICE - 1) /\ idle_thread' = idle_thread
         /\ pc' \in [Thread -> Place] /\ on' \in [Thread -> Sema]
         /\ value' \in [Sema -> Nat] /\ waiters' \in [Sema -> Seq(Thread)]
         /\ StatusFrame
<1>1. /\ current \in Thread /\ pc \in [Thread -> Place] /\ on \in [Thread -> Sema]
      /\ value \in [Sema -> Nat] /\ thread_ticks \in 0..(TIME_SLICE - 1)
  BY Zenon DEF TypeOK
<1>2. CASE value[s] = 0
  <2>1. /\ waiters' = [waiters EXCEPT ![s] = Append(@, current)]
        /\ on' = [on EXCEPT ![current] = s]
        /\ pc' = [pc EXCEPT ![current] = "down"]
        /\ thread_block /\ value' = value
    BY <1>2, Zenon DEF sema_down, goto
  <2>2. SI' /\ SwitchAfter(status) /\ waiters' \in [Sema -> Seq(Thread)]
    BY <2>1, BlockStep, Zenon
  <2>3. pc' \in [Thread -> Place] /\ on' \in [Thread -> Sema] /\ 0 \in 0..(TIME_SLICE - 1)
    BY <1>1, <2>1, SchedulerAssumption DEF Place
  <2>4. StatusFrame
    BY <1>1, <2>1, <2>2, CurrentUnlisted, Zenon DEF SwitchAfter, StatusFrame
  <2>5. QED
    BY <1>1, <2>1, <2>2, <2>3, <2>4, Zenon DEF SwitchAfter
<1>3. CASE value[s] # 0
  <2>1. /\ value' = [value EXCEPT ![s] = @ - 1]
        /\ pc' = [pc EXCEPT ![current] = after_down(s)]
        /\ intr' = "ON"
        /\ UNCHANGED <<waiters, on, status, ready_list, idle_thread, current, thread_ticks>>
    BY <1>3, Zenon DEF sema_down, goto
  <2>2. PlaceStep(after_down(s))
    BY <1>1, <2>1, Zenon DEF PlaceStep, after_down, Place, IdlePlace
  <2>3. value' \in [Sema -> Nat]
    BY <1>1, <1>3, <2>1
  <2>4. SI'
    BY <2>1, <2>2, QuietStep, Zenon
  <2>5. QED
    BY <1>1, <2>1, <2>3, <2>4, PlaceStepIdle, <2>2, Zenon DEF TypeOK, StatusFrame
<1>4. QED
  BY <1>2, <1>3, Zenon

(* The actions of the scheduler. *)
LEMMA YieldReturnStep ==
  ASSUME TypeOK, SI, YieldReturn, UNCHANGED <<synchVars, tidVars>>
  PROVE  TypeOK' /\ SI'
<1>1. PlaceStep(pc[current])
  BY StayPlace, Zenon DEF YieldReturn
<1>2. SI'
  BY <1>1, QuietStep, Zenon DEF YieldReturn, synchVars
<1>3. QED
  BY <1>2, Zenon DEF TypeOK, YieldReturn, synchVars, tidVars

LEMMA KernelThreadStep ==
  ASSUME TypeOK, SI, KernelThread, UNCHANGED <<synchVars, tidVars>>
  PROVE  TypeOK' /\ SI'
<1>1. /\ pc' = [pc EXCEPT ![current] = IF current = Idle THEN "idle_set" ELSE "run"]
      /\ UNCHANGED <<status, ready_list, idle_thread, current, waiters, on>>
      /\ pc[current] = "entry"
  BY Zenon DEF KernelThread, goto, synchVars
<1>2. pc \in [Thread -> Place] /\ current \in Thread /\ waiters \in [Sema -> Seq(Thread)]
  BY Zenon DEF TypeOK
<1>3. pc' \in [Thread -> Place]
  BY <1>1, <1>2, Zenon DEF Place
<1>4. ElemOnOneList'
  <2>1. ASSUME NEW r \in Sema, NEW t \in Members(waiters[r])
        PROVE  pc'[t] = "down"
    BY <1>1, <1>2, MembersLemma, Zenon DEF SI, ElemOnOneList
  <2>2. QED
    BY <1>1, <2>1 DEF SI, ElemOnOneList, Members, NoRepeat
<1>5. SchedulerConsistent'
  BY <1>1, Zenon DEF SI, SchedulerConsistent, Members
<1>6. IdleInv'
  BY <1>1, <1>2, SchedulerAssumption, Zenon DEF SI, IdleInv, IdlePlace, Members
<1>7. TypeOK'
  BY <1>3, Zenon DEF TypeOK, KernelThread, synchVars, tidVars
<1>8. QED
  BY <1>4, <1>5, <1>6, <1>7, Zenon DEF SI

LEMMA IdleHaltStep ==
  ASSUME TypeOK, SI, IdleHalt, UNCHANGED <<synchVars, tidVars>>
  PROVE  TypeOK' /\ SI'
<1>1. PlaceStep("hlt")
  BY Zenon DEF IdleHalt, goto, PlaceStep, Place, IdlePlace
<1>2. SI'
  BY <1>1, QuietStep, Zenon DEF IdleHalt, synchVars
<1>3. pc' \in [Thread -> Place]
  BY <1>1, PlaceStepIdle, Zenon
<1>4. QED
  BY <1>2, <1>3, Zenon DEF TypeOK, IdleHalt, synchVars, tidVars

LEMMA TickStep ==
  ASSUME TypeOK, SI, Tick
  PROVE  TypeOK' /\ SI' /\ StatusFrame
<1>1. PICK place : PlaceStep(place)
  BY WakeHltPlace, Zenon DEF Tick, ThreadTick
<1>2. pc' \in [Thread -> Place]
  BY <1>1, PlaceStepIdle, Zenon
<1>3. UNCHANGED <<waiters, on>> /\ UNCHANGED <<synchVars, tidVars>>
  BY Zenon DEF Tick, synchVars
<1>4. CASE thread_ticks + 1 >= TIME_SLICE
  <2>1. thread_yield
    BY <1>4, Zenon DEF Tick, ThreadTick
  <2>2. SI' /\ SwitchAfter(status)
    BY <1>1, <1>3, <2>1, YieldStep, Zenon
  <2>3. 0 \in 0..(TIME_SLICE - 1)
    BY SchedulerAssumption
  <2>4. QED
    BY <1>1, <1>2, <1>3, <2>2, <2>3, CurrentUnlisted, PlaceStepIdle, Zenon
       DEF TypeOK, SwitchAfter, StatusFrame, synchVars, tidVars
<1>5. CASE ~(thread_ticks + 1 >= TIME_SLICE)
  <2>1. /\ thread_ticks' = thread_ticks + 1
        /\ UNCHANGED <<status, ready_list, idle_thread, current, intr>>
    BY <1>5, Zenon DEF Tick, ThreadTick
  <2>2. SI'
    BY <1>1, <1>3, <2>1, QuietStep, Zenon
  <2>3. thread_ticks' \in 0..(TIME_SLICE - 1)
    BY <1>5, <2>1, SchedulerAssumption DEF TypeOK
  <2>4. QED
    BY <1>2, <1>3, <2>1, <2>2, <2>3, Zenon DEF TypeOK, StatusFrame, synchVars, tidVars
<1>6. QED
  BY <1>4, <1>5, Zenon

LEMMA IdleSetStep ==
  ASSUME TypeOK, SI, IdleSet, UNCHANGED <<synchVars, tidVars>>
  PROVE  TypeOK' /\ SI'
<1>1. /\ pc' = [pc EXCEPT ![current] = "idle_up"] /\ idle_thread' = current
      /\ UNCHANGED <<status, ready_list, current, waiters, on>>
      /\ pc[current] = "idle_set"
  BY Zenon DEF IdleSet, goto, synchVars
<1>2. /\ pc \in [Thread -> Place] /\ current \in Thread /\ idle_thread \in {NULL, Idle}
      /\ waiters \in [Sema -> Seq(Thread)]
  BY Zenon DEF TypeOK
<1>3. pc' \in [Thread -> Place]
  BY <1>1, <1>2, Zenon DEF Place
<1>4. current = Idle
  BY <1>1, <1>2, Zenon DEF SI, IdleInv, IdlePlace
<1>5. ElemOnOneList'
  <2>1. ASSUME NEW r \in Sema, NEW t \in Members(waiters[r])
        PROVE  pc'[t] = "down"
    BY <1>1, <1>2, MembersLemma, Zenon DEF SI, ElemOnOneList
  <2>2. QED
    BY <1>1, <2>1 DEF SI, ElemOnOneList, Members, NoRepeat
<1>6. SchedulerConsistent'
  BY <1>1, <1>2, <1>4, SchedulerAssumption, Zenon DEF SI, SchedulerConsistent, Members
<1>7. IdleInv'
  BY <1>1, <1>2, <1>4, SchedulerAssumption, Zenon DEF SI, IdleInv, IdlePlace
<1>8. TypeOK'
  BY <1>1, <1>3, <1>4, Zenon DEF TypeOK, IdleSet, synchVars, tidVars
<1>9. QED
  BY <1>5, <1>6, <1>7, <1>8, Zenon DEF SI

LEMMA IdleBlockStep ==
  ASSUME TypeOK, SI, IdleBlock, UNCHANGED <<synchVars, tidVars>>
  PROVE  TypeOK' /\ SI' /\ StatusFrame
<1>. DEFINE st == [status EXCEPT ![current] = "BLOCKED"]
<1>1. /\ pc' = [pc EXCEPT ![current] = "idle_off"] /\ pc[current] = "idle"
      /\ schedule(st, ready_list) /\ UNCHANGED <<waiters, on>>
  BY Zenon DEF IdleBlock, goto, thread_block, synchVars
<1>2. /\ current \in Thread /\ pc \in [Thread -> Place] /\ on \in [Thread -> Sema]
      /\ ready_list \in Seq(Thread) /\ idle_thread \in {NULL, Idle}
      /\ status \in [Thread -> Status] /\ waiters \in [Sema -> Seq(Thread)]
  BY Zenon DEF TypeOK
<1>3. PlaceStep("idle_off")
  BY <1>1, Zenon DEF PlaceStep, Place, IdlePlace
<1>4. current = Idle /\ idle_thread # NULL
  BY <1>1, <1>2, Zenon DEF SI, IdleInv, IdlePlace
<1>5. /\ current \notin Members(ready_list)
      /\ \A r \in Sema : current \notin Members(waiters[r])
  BY CurrentUnlisted, Zenon
<1>6. Members(ready_list) \subseteq Thread
  BY <1>2, MembersLemma, Zenon
<1>7. st \in [Thread -> Status] /\ \A t \in Thread : st[t] # "RUNNING"
  BY <1>2, Zenon DEF Status, SI, SchedulerConsistent
<1>8. /\ NoRepeat(ready_list)
      /\ \A t \in Members(ready_list) : st[t] = "READY"
      /\ \A t \in Thread : st[t] = "READY" => t \in Members(ready_list) \/ t = idle_thread
  BY <1>2, <1>5, <1>6 DEF SI, ElemOnOneList, SchedulerConsistent
<1>9. ASSUME NEW r \in Sema
      PROVE  /\ NoRepeat(waiters'[r])
             /\ \A t \in Members(waiters'[r]) : /\ t \in Thread /\ st[t] = "BLOCKED"
                                                /\ pc'[t] = "down" /\ on'[t] = r
  <2>1. Members(waiters[r]) \subseteq Thread
    BY <1>2, MembersLemma, Zenon
  <2>2. QED
    BY <1>1, <1>2, <1>3, <1>5, <2>1, PlaceStepIdle DEF SI, ElemOnOneList
<1>10. SwitchBefore(st, ready_list)
  BY <1>2, <1>3, <1>4, <1>7, <1>8, <1>9, PlaceStepIdle, Zenon DEF SwitchBefore
<1>. HIDE DEF st
<1>11. SI' /\ SwitchAfter(st)
  BY <1>1, <1>10, SwitchStep, Zenon
<1>12. pc' \in [Thread -> Place] /\ 0 \in 0..(TIME_SLICE - 1)
  BY <1>3, PlaceStepIdle, SchedulerAssumption
<1>13. StatusFrame
  BY <1>1, <1>2, <1>11, Zenon DEF st, SwitchAfter, StatusFrame
<1>14. QED
  BY <1>11, <1>12, <1>13, Zenon DEF SwitchAfter, TypeOK, synchVars, tidVars

(* thread_exit: the thread leaves for good, after handing its exit to a    *)
(* waiter.                                                                 *)
LEMMA ExitStep ==
  ASSUME TypeOK, SI, ThreadExit
  PROVE  /\ TypeOK' /\ SI'
         /\ StatusFrame
<1>. DEFINE s == exit_sema(current)
            wakes == current # Main /\ waiters[s] # <<>>
            waiter == Head(waiters[s])
            st == IF wakes THEN [status EXCEPT ![waiter] = "READY", ![current] = "DYING"]
                           ELSE [status EXCEPT ![current] = "DYING"]
            queue == IF wakes THEN Append(ready_list, waiter) ELSE ready_list
<1>1. /\ pc[current] = "run" /\ pc' = [pc EXCEPT ![current] = "dead"]
      /\ value' = IF current = Main THEN value ELSE [value EXCEPT ![s] = @ + 1]
      /\ waiters' = IF wakes THEN [waiters EXCEPT ![s] = Tail(@)] ELSE waiters
      /\ schedule(st, queue)
      /\ UNCHANGED <<holder, cond_waiters, on, lk, cv, tidVars>>
  BY Zenon DEF ThreadExit, goto, At
<1>2. /\ current \in Thread /\ pc \in [Thread -> Place] /\ on \in [Thread -> Sema]
      /\ ready_list \in Seq(Thread) /\ idle_thread \in {NULL, Idle}
      /\ status \in [Thread -> Status] /\ waiters \in [Sema -> Seq(Thread)]
      /\ value \in [Sema -> Nat]
  BY Zenon DEF TypeOK
<1>3. s \in Sema
  BY <1>2, Zenon DEF Sema, PlainSema
<1>4. PlaceStep("dead")
  BY <1>1, Zenon DEF PlaceStep, Place, IdlePlace
<1>5. current # Idle
  BY <1>1, Zenon DEF SI, IdleInv, IdlePlace
<1>6. /\ current \notin Members(ready_list)
      /\ \A r \in Sema : current \notin Members(waiters[r])
  BY CurrentUnlisted, Zenon
<1>7. Members(ready_list) \subseteq Thread
  BY <1>2, MembersLemma, Zenon
<1>8. waiters[s] \in Seq(Thread)
  BY <1>2, <1>3, Zenon
<1>9. wakes => /\ waiter \in Thread /\ Tail(waiters[s]) \in Seq(Thread)
               /\ Members(waiters[s]) = Members(Tail(waiters[s])) \cup {waiter}
               /\ NoRepeat(Tail(waiters[s])) /\ waiter \notin Members(Tail(waiters[s]))
  <2>1. NoRepeat(waiters[s])
    BY <1>3, Zenon DEF SI, ElemOnOneList
  <2>2. QED
    BY <1>8, <2>1, TailLemma, Zenon
<1>10. wakes => status[waiter] = "BLOCKED" /\ pc[waiter] = "down" /\ on[waiter] = s
  BY <1>3, <1>9, Zenon DEF SI, ElemOnOneList
<1>11. wakes => waiter # current /\ waiter \notin Members(ready_list)
  BY <1>3, <1>6, <1>9, <1>10, Zenon DEF SI, ElemOnOneList
<1>12. /\ queue \in Seq(Thread) /\ NoRepeat(queue)
       /\ Members(queue) = Members(ready_list) \cup (IF wakes THEN {waiter} ELSE {})
  <2>1. NoRepeat(ready_list)
    BY Zenon DEF SI, ElemOnOneList
  <2>2. CASE wakes
    <3>1. /\ Append(ready_list, waiter) \in Seq(Thread)
          /\ NoRepeat(Append(ready_list, waiter))
          /\ Members(Append(ready_list, waiter)) = Members(ready_list) \cup {waiter}
      BY <1>2, <1>9, <1>11, <2>1, <2>2, AppendLemma
    <3>2. QED
      BY <2>2, <3>1, Zenon
  <2>3. CASE ~wakes
    BY <1>2, <2>1, <2>3, Zenon
  <2>4. QED
    BY <2>2, <2>3, Zenon
<1>13. /\ waiters' \in [Sema -> Seq(Thread)]
       /\ \A r \in Sema : /\ NoRepeat(waiters'[r])
                          /\ Members(waiters'[r]) \subseteq Members(waiters[r])
                          /\ wakes => waiter \notin Members(waiters'[r])
  <2>1. \A r \in Sema : NoRepeat(waiters[r])
    BY Zenon DEF SI, ElemOnOneList
  <2>2. wakes => \A r \in Sema : r # s => waiter \notin Members(waiters[r])
    BY <1>10, Zenon DEF SI, ElemOnOneList
  <2>3. QED
    BY <1>1, <1>2, <1>3, <1>9, <2>1, <2>2, Zenon
<1>14. /\ st \in [Thread -> Status] /\ st[current] = "DYING"
       /\ wakes => st[waiter] = "READY"
       /\ \A t \in Thread : t # current /\ ~(wakes /\ t = waiter) => st[t] = status[t]
  BY <1>2, <1>9, <1>11, Zenon DEF Status
<1>15. \A r \in Sema : Members(waiters[r]) \subseteq Thread
  BY <1>2, MembersLemma, Zenon
<1>. HIDE DEF st, queue, wakes, waiter, s
<1>16. \A t \in Thread : st[t] # "RUNNING"
  BY <1>14, Zenon DEF SI, SchedulerConsistent
<1>17. /\ \A t \in Members(queue) : st[t] = "READY"
       /\ \A t \in Thread : st[t] = "READY" => t \in Members(queue) \/ t = idle_thread
  <2>1. \A t \in Members(queue) : st[t] = "READY"
    BY <1>6, <1>7, <1>12, <1>14, Zenon DEF SI, ElemOnOneList
  <2>2. \A t \in Thread : st[t] = "READY" => t \in Members(queue) \/ t = idle_thread
    BY <1>12, <1>14, Zenon DEF SI, SchedulerConsistent
  <2>3. QED
    BY <2>1, <2>2, Zenon
<1>18. ASSUME NEW r \in Sema, NEW t \in Members(waiters'[r])
       PROVE  t \in Thread /\ st[t] = "BLOCKED" /\ pc'[t] = "down" /\ on'[t] = r
  <2>1. t \in Members(waiters[r]) /\ ~(wakes /\ t = waiter)
    BY <1>13, Zenon
  <2>2. t \in Thread /\ t # current
    BY <1>6, <1>15, <2>1, Zenon
  <2>3. QED
    BY <1>1, <1>4, <1>14, <2>1, <2>2, PlaceStepIdle DEF SI, ElemOnOneList
<1>19. idle_thread = NULL => Idle \in Members(queue)
  BY <1>5, <1>12, Zenon DEF SI, IdleInv
<1>20. SwitchBefore(st, queue)
  BY <1>4, <1>12, <1>13, <1>14, <1>16, <1>17, <1>18, <1>19, PlaceStepIdle DEF SwitchBefore
<1>21. SI' /\ SwitchAfter(st)
  BY <1>1, <1>20, SwitchStep, Zenon
<1>22. /\ pc' \in [Thread -> Place] /\ 0 \in 0..(TIME_SLICE - 1)
       /\ value' \in [Sema -> Nat]
  <2>1. value' \in [Sema -> Nat]
    BY <1>1, <1>2, <1>3
  <2>2. QED
    BY <1>4, <2>1, PlaceStepIdle, SchedulerAssumption
<1>23. TypeOK'
  BY <1>1, <1>13, <1>21, <1>22, Zenon DEF SwitchAfter, TypeOK, tidVars
<1>24. StatusFrame
  <2>1. ASSUME NEW t \in Thread, pc[t] = "none", status[t] \in {"NONE", "BLOCKED"}
        PROVE  status'[t] = status[t]
    <3>1. t # current /\ ~(wakes /\ t = waiter)
      BY <1>1, <1>10, <2>1, Zenon
    <3>2. pc'[t] = "none" /\ st[t] = status[t]
      BY <1>1, <1>2, <1>14, <2>1, <3>1, Zenon
    <3>3. QED
      BY <1>21, <2>1, <3>2, Zenon DEF SwitchAfter
  <2>2. ASSUME NEW t \in Thread, status'[t] = "NONE"
        PROVE  status[t] = "NONE"
    BY <1>14, <1>21, <2>2, Zenon DEF SwitchAfter
  <2>3. QED
    BY <2>1, <2>2, Zenon DEF StatusFrame
<1>25. QED
  BY <1>21, <1>23, <1>24, Zenon

(* Every action that begins with a turn of sema_down's loop. *)
LEMMA DownTypes ==
  ASSUME TypeOK, SI, NEW s \in Sema, sema_down(s),
         pc[current] \notin {"entry"} \cup IdlePlace,
         lk' \in [Thread -> Lock],
         UNCHANGED <<holder, cond_waiters, cv, tidVars>>
  PROVE  TypeOK' /\ SI' /\ StatusFrame
<1>1. /\ SI' /\ StatusFrame
      /\ status' \in [Thread -> Status] /\ ready_list' \in Seq(Thread)
      /\ current' \in Thread /\ intr' \in {"ON", "OFF"}
      /\ thread_ticks' \in 0..(TIME_SLICE - 1) /\ idle_thread' = idle_thread
      /\ pc' \in [Thread -> Place] /\ on' \in [Thread -> Sema]
      /\ value' \in [Sema -> Nat] /\ waiters' \in [Sema -> Seq(Thread)]
  BY DownStep, Zenon
<1>2. QED
  BY <1>1, Zenon DEF TypeOK, tidVars

(* Every action that is a sema_up. *)
LEMMA UpTypes ==
  ASSUME TypeOK, SI, NEW s \in Sema, sema_up(s), NEW place, PlaceStep(place),
         UNCHANGED <<holder, cond_waiters, on, lk, cv, tidVars>>
  PROVE  TypeOK' /\ SI' /\ StatusFrame
<1>1. /\ SI' /\ StatusFrame
      /\ status' \in [Thread -> Status] /\ ready_list' \in Seq(Thread)
      /\ waiters' \in [Sema -> Seq(Thread)]
      /\ UNCHANGED <<idle_thread, current, intr, thread_ticks>>
  BY UpStep, Zenon
<1>2. pc' \in [Thread -> Place]
  BY PlaceStepIdle, Zenon
<1>3. value' \in [Sema -> Nat]
  BY DEF sema_up, TypeOK
<1>4. QED
  BY <1>1, <1>2, <1>3, Zenon DEF TypeOK, tidVars

(* Every action in which the running thread only changes the state of the  *)
(* primitives.                                                             *)
LEMMA QuietTypes ==
  ASSUME TypeOK, SI, schedUnchanged, NEW place, PlaceStep(place),
         \A t \in Thread : t # current => on'[t] = on[t],
         \A s \in Sema : waiters'[s] = waiters[s] \/ waiters'[s] = <<>>,
         value' \in [Sema -> Nat], waiters' \in [Sema -> Seq(Thread)],
         holder' \in [Lock -> Thread \cup {NULL}],
         cond_waiters' \in [Cond -> Seq(Thread)],
         on' \in [Thread -> Sema], lk' \in [Thread -> Lock],
         cv' \in [Thread -> Cond \cup {NULL}],
         tid' \in [Thread -> Nat], next_tid' \in Nat,
         new' \in [Thread -> Thread \cup {NULL}]
  PROVE  TypeOK' /\ SI'
<1>1. SI'
  BY QuietStep, Zenon DEF schedUnchanged
<1>2. pc' \in [Thread -> Place]
  BY PlaceStepIdle, Zenon
<1>3. QED
  BY <1>1, <1>2, Zenon DEF TypeOK, schedUnchanged

=============================================================================
