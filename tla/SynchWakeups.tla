---------------------------- MODULE SynchWakeups ----------------------------
(***************************************************************************)
(* No wakeup is lost: what each step of Synch does to the value of a       *)
(* semaphore and to the threads that were woken for it (SemaStep), and to  *)
(* the threads in cond_wait and their signallers (SignalKept).  The        *)
(* lemmas assume the parts of IInv they need, of the state before a step   *)
(* and, for the types, of the state after it.                              *)
(***************************************************************************)
EXTENDS SynchProofs

-----------------------------------------------------------------------------
(* What a step may do to a semaphore: leave it and the threads woken for   *)
(* it; leave it empty or without waiters; let the running thread take a    *)
(* unit; add a unit and wake a waiter for it.                              *)
SemaSame(s) ==
  /\ value'[s] = value[s] /\ waiters'[s] = waiters[s]
  /\ Woken(s) \subseteq Woken(s)'

SemaFree(s) == value'[s] = 0 \/ waiters'[s] = <<>>

SemaTake(s) ==
  /\ value[s] # 0 /\ value'[s] = value[s] - 1 /\ waiters'[s] = waiters[s]
  /\ Woken(s) \ {current} \subseteq Woken(s)'

SemaWake(s) ==
  /\ value'[s] = value[s] + 1 /\ waiters[s] # <<>>
  /\ \E w \in Thread : w \notin Woken(s) /\ Woken(s) \cup {w} \subseteq Woken(s)'

SemaStep(s) == SemaSame(s) \/ SemaFree(s) \/ SemaTake(s) \/ SemaWake(s)

-----------------------------------------------------------------------------
(* A step that is neither a wait nor a signal on a condition. *)
SignalSame ==
  /\ UNCHANGED cond_waiters
  /\ \A t \in Thread :
       /\ value'[stack_sema(t)] = value[stack_sema(t)]
       /\ Waits(t)' <=> Waits(t)
       /\ Waits(t) => cv'[t] = cv[t]
       /\ \A u \in Thread : Signals(u, t)' <=> Signals(u, t)
       /\ pc'[t] = "down" /\ on'[t] \in StackSema => on'[t] = stack_sema(t)

SignalKept == SignalInv' /\ SignalNotLost'

LEMMA SignalSameKeeps ==
  ASSUME TypeOK, SignalInv, SignalNotLost, SignalSame
  PROVE  SignalKept
<1>1. \A c \in Cond : cond_waiters[c] \in Seq(Thread) /\ cond_waiters'[c] = cond_waiters[c]
  BY Zenon DEF TypeOK, SignalSame
<1>2. \A c \in Cond : /\ NoRepeat(cond_waiters'[c])
                      /\ \A t \in Members(cond_waiters'[c]) : Waits(t)' /\ cv'[t] = c
  BY <1>1, MembersLemma, Zenon DEF SignalInv, SignalSame
<1>3. SignalInv'
  BY <1>2, Zenon DEF SignalInv, SignalSame, Members, NoRepeat
<1>4. SignalNotLost'
  <2>1. SUFFICES ASSUME NEW t \in Thread, Waits(t)'
                 PROVE  LET queued   == t \in Members(cond_waiters'[cv'[t]])
                            upped    == value'[stack_sema(t)] = 1
                            upcoming == \E u \in Thread : Signals(u, t)'
                        IN \/ queued /\ ~upped /\ ~upcoming
                           \/ ~queued /\ upped /\ ~upcoming
                           \/ ~queued /\ ~upped /\ upcoming
    BY Zenon DEF SignalNotLost, Members
  <2>2. /\ Waits(t) /\ cv'[t] = cv[t] /\ cond_waiters' = cond_waiters
        /\ value'[stack_sema(t)] = value[stack_sema(t)]
        /\ \A u \in Thread : Signals(u, t)' <=> Signals(u, t)
    BY <2>1, Zenon DEF SignalSame
  <2>3. QED
    BY <2>2, Zenon DEF SignalNotLost
<1>5. QED
  BY <1>3, <1>4, Zenon DEF SignalKept

(* The threads that are not running stay where they are, except for one    *)
(* that thread_create starts; those woken stay ready or get to run.        *)
OthersStay ==
  \A t \in Thread : t # current =>
    /\ pc'[t] = pc[t] \/ (pc[t] = "none" /\ pc'[t] = "entry")
    /\ on'[t] = on[t] /\ cv'[t] = cv[t]
    /\ pc[t] = "down" /\ status[t] \in {"READY", "RUNNING"} => status'[t] \in {"READY", "RUNNING"}

LEMMA OthersStayWoken ==
  ASSUME OthersStay, NEW s \in Sema
  PROVE  /\ Woken(s) \ {current} \subseteq Woken(s)'
         /\ current \notin Woken(s) => Woken(s) \subseteq Woken(s)'
<1>1. \A t \in Woken(s) : t # current => t \in Woken(s)'
  BY Zenon DEF OthersStay, Woken
<1>2. QED
  BY <1>1, Zenon

(* The places in sema_down, cond_wait and cond_signal. *)
Busy == {"down", "w_release", "w_up", "w_down", "signal_up", "bcast_up"}

(* The running thread does not move, or moves between other places. *)
CurrentCalm ==
  \/ /\ pc'[current] = pc[current] /\ on'[current] = on[current] /\ cv'[current] = cv[current]
     /\ pc[current] = "down" => status'[current] \in {"READY", "RUNNING"}
  \/ pc[current] \notin Busy /\ pc'[current] \notin Busy

LEMMA CalmSignals ==
  ASSUME TypeOK, SignalInv, OthersStay,
         \/ /\ pc'[current] = pc[current] /\ on'[current] = on[current]
            /\ cv'[current] = cv[current]
         \/ pc[current] \notin Busy /\ pc'[current] \notin Busy,
         UNCHANGED cond_waiters,
         \A t \in Thread : value'[stack_sema(t)] = value[stack_sema(t)]
  PROVE  SignalSame
<1>1. \A t \in Thread : Waits(t)' <=> Waits(t)
  BY Zenon DEF OthersStay, Waits, Busy
<1>2. \A t \in Thread : Waits(t) => cv'[t] = cv[t]
  BY Zenon DEF OthersStay, Waits, Busy
<1>3. \A t, u \in Thread : Signals(u, t)' <=> Signals(u, t)
  BY Zenon DEF OthersStay, Signals, Busy
<1>4. \A t \in Thread : pc'[t] = "down" => pc[t] = "down" /\ on'[t] = on[t]
  BY Zenon DEF OthersStay, Busy
<1>5. QED
  BY <1>1, <1>2, <1>3, <1>4, Zenon DEF SignalSame, SignalInv

LEMMA CalmStep ==
  ASSUME TypeOK, SignalInv, OthersStay, CurrentCalm,
         UNCHANGED <<value, waiters, cond_waiters>>
  PROVE  (\A s \in Sema : SemaStep(s)) /\ SignalSame
<1>1. ASSUME NEW s \in Sema
      PROVE  SemaSame(s)
  <2>1. current \in Woken(s) => current \in Woken(s)'
    BY Zenon DEF CurrentCalm, Busy, Woken
  <2>2. QED
    BY <2>1, OthersStayWoken, Zenon DEF SemaSame
<1>2. SignalSame
  BY CalmSignals, Zenon DEF CurrentCalm
<1>3. QED
  BY <1>1, <1>2, Zenon DEF SemaStep

-----------------------------------------------------------------------------
(* schedule() changes no status but that of the thread it runs. *)
LEMMA ScheduleStatus ==
  ASSUME TypeOK', NEW st \in [Thread -> Status], NEW queue, schedule(st, queue)
  PROVE  \A t \in Thread : status'[t] = IF t = current' THEN "RUNNING" ELSE st[t]
<1>1. current' \in Thread
  BY Zenon DEF TypeOK
<1>2. status' = [st EXCEPT ![current'] = "RUNNING"]
  BY Zenon DEF schedule
<1>3. QED
  BY <1>1, <1>2, Zenon

LEMMA BlockStatus ==
  ASSUME TypeOK, TypeOK', thread_block
  PROVE  \A t \in Thread : t # current /\ status[t] \in {"READY", "RUNNING"}
                             => status'[t] \in {"READY", "RUNNING"}
<1>1. [status EXCEPT ![current] = "BLOCKED"] \in [Thread -> Status] /\ current \in Thread
  BY Zenon DEF TypeOK, Status
<1>2. \A t \in Thread : status'[t] = IF t = current' THEN "RUNNING"
                                     ELSE [status EXCEPT ![current] = "BLOCKED"][t]
  BY <1>1, ScheduleStatus, Zenon DEF thread_block
<1>3. QED
  BY <1>1, <1>2, Zenon DEF TypeOK

LEMMA YieldStatus ==
  ASSUME TypeOK, TypeOK', thread_yield
  PROVE  /\ \A t \in Thread : status[t] \in {"READY", "RUNNING"}
                                => status'[t] \in {"READY", "RUNNING"}
         /\ status'[current] \in {"READY", "RUNNING"}
<1>1. [status EXCEPT ![current] = "READY"] \in [Thread -> Status] /\ current \in Thread
  BY Zenon DEF TypeOK, Status
<1>2. \A t \in Thread : status'[t] = IF t = current' THEN "RUNNING"
                                     ELSE [status EXCEPT ![current] = "READY"][t]
  BY <1>1, ScheduleStatus, Zenon DEF thread_yield
<1>3. QED
  BY <1>1, <1>2, Zenon DEF TypeOK

(* sema_down on s, by a thread that calls it or that was woken in it. *)
LEMMA DownOthers ==
  ASSUME TypeOK, TypeOK', NEW s \in Sema, sema_down(s), UNCHANGED cv
  PROVE  OthersStay
<1>1. \A t \in Thread : t # current => pc'[t] = pc[t] /\ on'[t] = on[t] /\ cv'[t] = cv[t]
  <2>1. CASE value[s] = 0
    BY <2>1, Zenon DEF sema_down, goto, TypeOK
  <2>2. CASE value[s] # 0
    BY <2>2, Zenon DEF sema_down, goto, TypeOK
  <2>3. QED
    BY <2>1, <2>2, Zenon
<1>2. \A t \in Thread : t # current /\ status[t] \in {"READY", "RUNNING"}
                          => status'[t] \in {"READY", "RUNNING"}
  <2>1. CASE value[s] = 0
    BY <2>1, BlockStatus, Zenon DEF sema_down
  <2>2. CASE value[s] # 0
    BY <2>2, Zenon DEF sema_down
  <2>3. QED
    BY <2>1, <2>2, Zenon
<1>3. QED
  BY <1>1, <1>2, Zenon DEF OthersStay

LEMMA DownWakes ==
  ASSUME TypeOK, TypeOK', NEW s \in Sema, sema_down(s), UNCHANGED cv,
         pc[current] = "down" => on[current] = s
  PROVE  \A r \in Sema : SemaStep(r)
<1>1. OthersStay
  BY DownOthers, Zenon
<1>2. current \in Thread /\ value \in [Sema -> Nat] /\ waiters \in [Sema -> Seq(Thread)]
  BY Zenon DEF TypeOK
<1>3. ASSUME NEW r \in Sema, r # s
      PROVE  SemaSame(r)
  <2>1. value'[r] = value[r] /\ waiters'[r] = waiters[r]
    BY <1>2, <1>3, Zenon DEF sema_down
  <2>2. current \notin Woken(r)
    BY <1>3, Zenon DEF Woken
  <2>3. QED
    BY <1>1, <2>1, <2>2, OthersStayWoken, Zenon DEF SemaSame
<1>4. SemaStep(s)
  <2>1. CASE value[s] = 0
    BY <2>1, Zenon DEF sema_down, SemaStep, SemaFree
  <2>2. CASE value[s] # 0
    <3>1. value'[s] = value[s] - 1 /\ waiters'[s] = waiters[s]
      BY <1>2, <2>2, Zenon DEF sema_down
    <3>2. QED
      BY <1>1, <2>2, <3>1, OthersStayWoken, Zenon DEF SemaStep, SemaTake
  <2>3. QED
    BY <2>1, <2>2, Zenon
<1>5. QED
  BY <1>3, <1>4, Zenon DEF SemaStep

(* A semaphore that is not the one of a cond_wait. *)
LEMMA DownSignals ==
  ASSUME TypeOK, TypeOK', SignalInv, NEW s \in Sema \ StackSema, sema_down(s),
         UNCHANGED <<cv, cond_waiters>>,
         pc[current] \notin Busy \/ (pc[current] = "down" /\ on[current] = s)
  PROVE  SignalSame
<1>1. OthersStay
  BY DownOthers, Zenon
<1>2. current \in Thread /\ \A t \in Thread : stack_sema(t) # s
  <2>1. \A t \in Thread : stack_sema(t) \in StackSema
    BY SemaFacts, Zenon
  <2>2. QED
    BY <2>1, Zenon DEF TypeOK
<1>3. \A t \in Thread : value'[stack_sema(t)] = value[stack_sema(t)]
  BY <1>2, SemaFacts, Zenon DEF TypeOK, sema_down
<1>4. pc'[current] \notin Busy \/ (pc'[current] = "down" /\ on'[current] = s)
  BY <1>2, Zenon DEF sema_down, goto, TypeOK, after_down, Busy
<1>5. \A t \in Thread : Waits(t)' <=> Waits(t)
  BY <1>1, <1>2, <1>4, Zenon DEF OthersStay, Waits, Busy
<1>6. \A t \in Thread : Waits(t) => cv'[t] = cv[t]
  BY Zenon
<1>7. \A t, u \in Thread : Signals(u, t)' <=> Signals(u, t)
  BY <1>1, <1>4, Zenon DEF OthersStay, Signals, Busy
<1>8. \A t \in Thread : pc'[t] = "down" /\ on'[t] \in StackSema => on'[t] = stack_sema(t)
  <2>1. \A t \in Thread : t # current /\ pc'[t] = "down" => pc[t] = "down" /\ on'[t] = on[t]
    BY <1>1, Zenon DEF OthersStay
  <2>2. pc'[current] = "down" => on'[current] \notin StackSema
    BY <1>4, Zenon DEF Busy
  <2>3. QED
    BY <2>1, <2>2, Zenon DEF SignalInv
<1>9. QED
  BY <1>3, <1>5, <1>6, <1>7, <1>8, Zenon DEF SignalSame

-----------------------------------------------------------------------------
(* The thread that sema_up takes off the wait list of s. *)
LEMMA FirstWaiter ==
  ASSUME TypeOK, SI, NEW s \in Sema, waiters[s] # <<>>
  PROVE  /\ Head(waiters[s]) \in Thread /\ status[Head(waiters[s])] = "BLOCKED"
         /\ pc[Head(waiters[s])] = "down" /\ on[Head(waiters[s])] = s
         /\ Head(waiters[s]) # current
<1>1. waiters[s] \in Seq(Thread)
  BY Zenon DEF TypeOK
<1>2. Head(waiters[s]) \in Thread /\ Head(waiters[s]) \in Members(waiters[s])
  BY <1>1, TailLemma
<1>3. status[Head(waiters[s])] = "BLOCKED" /\ pc[Head(waiters[s])] = "down" /\ on[Head(waiters[s])] = s
  BY <1>2, Zenon DEF SI, ElemOnOneList
<1>4. status[current] = "RUNNING"
  BY Zenon DEF SI, SchedulerConsistent, TypeOK
<1>5. QED
  BY <1>2, <1>3, <1>4, Zenon

(* The threads around a step that ups s and moves the running thread. *)
UpFrame ==
  /\ UNCHANGED <<on, cv>>
  /\ \A t \in Thread : t # current => pc'[t] = pc[t]
  /\ pc[current] = "down" => pc'[current] = "down"

LEMMA UpOthers ==
  ASSUME TypeOK, SI, NEW s \in Sema, sema_up(s), UpFrame
  PROVE  OthersStay
<1>1. CASE waiters[s] = <<>>
  BY <1>1, Zenon DEF sema_up, schedUnchanged, UpFrame, OthersStay
<1>2. CASE waiters[s] # <<>>
  <2>1. Head(waiters[s]) \in Thread
    BY <1>2, FirstWaiter, Zenon
  <2>2. \A t \in Thread : status'[t] = IF t = Head(waiters[s]) THEN "READY" ELSE status[t]
    BY <1>2, <2>1, Zenon DEF sema_up, thread_unblock, TypeOK
  <2>3. QED
    BY <2>2, Zenon DEF UpFrame, OthersStay
<1>3. QED
  BY <1>1, <1>2, Zenon

LEMMA UpWakes ==
  ASSUME TypeOK, SI, NEW s \in Sema, sema_up(s), UpFrame
  PROVE  \A r \in Sema : SemaStep(r)
<1>1. OthersStay
  BY UpOthers, Zenon
<1>2. value'[s] = value[s] + 1 /\ \A r \in Sema : r # s => value'[r] = value[r]
  BY Zenon DEF TypeOK, sema_up
<1>3. CASE waiters[s] = <<>>
  <2>1. UNCHANGED <<waiters, status>>
    BY <1>3, Zenon DEF sema_up, schedUnchanged
  <2>2. \A r \in Sema : current \in Woken(r) => current \in Woken(r)'
    BY <2>1, Zenon DEF Woken, UpFrame
  <2>3. SemaStep(s)
    BY <1>3, <2>1, Zenon DEF SemaStep, SemaFree
  <2>4. \A r \in Sema : r # s => SemaSame(r)
    BY <1>1, <1>2, <2>1, <2>2, OthersStayWoken, Zenon DEF SemaSame
  <2>5. QED
    BY <2>3, <2>4, Zenon DEF SemaStep
<1>4. CASE waiters[s] # <<>>
  <2>. DEFINE w == Head(waiters[s])
  <2>1. w \in Thread /\ status[w] = "BLOCKED" /\ pc[w] = "down" /\ on[w] = s /\ w # current
    BY <1>4, FirstWaiter, Zenon
  <2>2. /\ \A t \in Thread : status'[t] = IF t = w THEN "READY" ELSE status[t]
        /\ \A r \in Sema : r # s => waiters'[r] = waiters[r]
    BY <1>4, <2>1, Zenon DEF sema_up, thread_unblock, TypeOK
  <2>. HIDE DEF w
  <2>3. w \notin Woken(s) /\ w \in Woken(s)'
    BY <2>1, <2>2, Zenon DEF Woken, UpFrame
  <2>4. \A r \in Sema : current \in Woken(r) => current \in Woken(r)'
    BY <2>1, <2>2, Zenon DEF Woken, UpFrame
  <2>5. SemaWake(s)
    BY <1>1, <1>2, <1>4, <2>1, <2>3, <2>4, OthersStayWoken, ZenonT(40) DEF SemaWake
  <2>6. \A r \in Sema : r # s => SemaSame(r)
    BY <1>1, <1>2, <2>2, <2>4, OthersStayWoken, Zenon DEF SemaSame
  <2>7. QED
    BY <2>5, <2>6, Zenon DEF SemaStep
<1>5. QED
  BY <1>3, <1>4, Zenon

(* A semaphore that is not the one of a cond_wait. *)
LEMMA UpSignals ==
  ASSUME TypeOK, SI, SignalInv, NEW s \in Sema \ StackSema, sema_up(s), UpFrame,
         UNCHANGED cond_waiters,
         \/ pc'[current] = pc[current]
         \/ pc[current] \notin Busy /\ pc'[current] \notin Busy
         \/ pc[current] = "w_up" /\ pc'[current] = "w_down"
  PROVE  SignalSame
<1>1. OthersStay
  BY UpOthers, Zenon
<1>2. \A t \in Thread : value'[stack_sema(t)] = value[stack_sema(t)]
  <2>1. \A t \in Thread : stack_sema(t) \in StackSema /\ stack_sema(t) \in Sema
    BY SemaFacts, Zenon
  <2>2. \A t \in Thread : stack_sema(t) # s
    BY <2>1, Zenon
  <2>3. QED
    BY <2>1, <2>2, Zenon DEF sema_up, TypeOK
<1>3. CASE pc'[current] = pc[current] \/ (pc[current] \notin Busy /\ pc'[current] \notin Busy)
  BY <1>1, <1>2, <1>3, CalmSignals, Zenon DEF UpFrame
<1>4. CASE pc[current] = "w_up" /\ pc'[current] = "w_down"
  <2>1. \A t \in Thread : Waits(t)' <=> Waits(t)
    BY <1>4, Zenon DEF UpFrame, Waits
  <2>2. \A t, u \in Thread : Signals(u, t)' <=> Signals(u, t)
    BY <1>4, Zenon DEF UpFrame, Signals
  <2>3. \A t \in Thread : pc'[t] = "down" => pc[t] = "down" /\ on'[t] = on[t]
    BY <1>4, Zenon DEF UpFrame
  <2>4. QED
    BY <1>2, <2>1, <2>2, <2>3, Zenon DEF SignalSame, SignalInv, UpFrame
<1>5. QED
  BY <1>3, <1>4, Zenon

(* sema_try_down takes a unit without touching the scheduler. *)
LEMMA TryDownStep ==
  ASSUME TypeOK, SignalInv, NEW s \in Sema \ StackSema, value[s] > 0,
         value' = [value EXCEPT ![s] = @ - 1],
         UNCHANGED <<waiters, status, on, cv, cond_waiters>>,
         \A t \in Thread : t # current => pc'[t] = pc[t],
         pc[current] \notin Busy, pc'[current] \notin Busy
  PROVE  (\A r \in Sema : SemaStep(r)) /\ SignalSame
<1>1. OthersStay
  BY Zenon DEF OthersStay
<1>2. \A r \in Sema : current \notin Woken(r)
  BY Zenon DEF Woken, Busy
<1>3. /\ value[s] # 0 /\ value'[s] = value[s] - 1
      /\ \A r \in Sema : r # s => value'[r] = value[r]
  BY DEF TypeOK
<1>4. SemaTake(s)
  BY <1>1, <1>3, OthersStayWoken, Zenon DEF SemaTake
<1>5. \A r \in Sema : r # s => SemaSame(r)
  BY <1>1, <1>2, <1>3, OthersStayWoken, Zenon DEF SemaSame
<1>6. \A t \in Thread : value'[stack_sema(t)] = value[stack_sema(t)]
  <2>1. \A t \in Thread : stack_sema(t) \in StackSema /\ stack_sema(t) \in Sema
    BY SemaFacts, Zenon
  <2>2. \A t \in Thread : stack_sema(t) # s
    BY <2>1, Zenon
  <2>3. QED
    BY <1>3, <2>1, <2>2, Zenon
<1>7. SignalSame
  BY <1>1, <1>6, CalmSignals, Zenon
<1>8. QED
  BY <1>4, <1>5, <1>7, Zenon DEF SemaStep

-----------------------------------------------------------------------------
(* thread_exit ups the semaphore that process_wait downs, and dies. *)
LEMMA ExitWakes ==
  ASSUME TypeOK, TypeOK', SI, SignalInv, ThreadExit
  PROVE  (\A r \in Sema : SemaStep(r)) /\ SignalSame
<1>. PICK s : s = exit_sema(current)
  BY Zenon
<1>. PICK w : w = Head(waiters[s])
  BY Zenon
<1>. DEFINE wakes == current # Main /\ waiters[s] # <<>>
<1>1. /\ current \in Thread /\ s \in Sema /\ s \in PlainSema /\ pc[current] = "run"
      /\ UNCHANGED <<on, cv, cond_waiters>>
  BY SemaFacts, Zenon DEF TypeOK, ThreadExit, At
<1>2. /\ pc'[current] = "dead"
      /\ \A t \in Thread : t # current => pc'[t] = pc[t]
  BY <1>1, Zenon DEF ThreadExit, goto, TypeOK
<1>3. \A r \in Sema : current \notin Woken(r)
  BY <1>1, Zenon DEF Woken
<1>4. /\ \A r \in Sema : r # s => value'[r] = value[r]
      /\ current = Main => value'[s] = value[s]
      /\ current # Main => value'[s] = value[s] + 1
  BY <1>1, Zenon DEF ThreadExit, TypeOK
<1>5. /\ \A r \in Sema : r # s => waiters'[r] = waiters[r]
      /\ ~wakes => waiters'[s] = waiters[s]
  BY <1>1, Zenon DEF ThreadExit, TypeOK
<1>6. \A t \in Thread : t # current /\ status[t] \in {"READY", "RUNNING"}
                          => status'[t] \in {"READY", "RUNNING"}
  <2>1. CASE ~wakes
    <3>1. [status EXCEPT ![current] = "DYING"] \in [Thread -> Status]
      BY Zenon DEF TypeOK, Status
    <3>2. schedule([status EXCEPT ![current] = "DYING"], ready_list)
      BY <2>1, Zenon DEF ThreadExit
    <3>3. \A t \in Thread : status'[t] = IF t = current' THEN "RUNNING"
                                         ELSE [status EXCEPT ![current] = "DYING"][t]
      BY <3>1, <3>2, ScheduleStatus, Zenon
    <3>4. QED
      BY <1>1, <3>3, Zenon DEF TypeOK
  <2>2. CASE wakes
    <3>. DEFINE st == [status EXCEPT ![w] = "READY", ![current] = "DYING"]
    <3>1. st \in [Thread -> Status]
      BY Zenon DEF TypeOK, Status
    <3>2. schedule(st, Append(ready_list, w))
      BY <2>2, Zenon DEF ThreadExit
    <3>3. \A t \in Thread : status'[t] = IF t = current' THEN "RUNNING" ELSE st[t]
      <4>. HIDE DEF st
      <4>1. QED
        BY <3>1, <3>2, ScheduleStatus, Zenon
    <3>4. \A t \in Thread : t # current => st[t] = IF t = w THEN "READY" ELSE status[t]
      BY <1>1, Zenon DEF TypeOK
    <3>5. QED
      BY <3>3, <3>4, Zenon
  <2>3. QED
    BY <2>1, <2>2, Zenon
<1>7. OthersStay
  BY <1>1, <1>2, <1>6, Zenon DEF OthersStay
<1>8. \A r \in Sema : r # s => SemaSame(r)
  BY <1>3, <1>4, <1>5, <1>7, OthersStayWoken, Zenon DEF SemaSame
<1>9. SemaStep(s)
  <2>1. CASE current = Main
    BY <1>1, <1>3, <1>4, <1>5, <1>7, <2>1, OthersStayWoken, Zenon DEF SemaSame, SemaStep
  <2>2. CASE current # Main /\ waiters[s] = <<>>
    BY <1>5, <2>2, Zenon DEF SemaStep, SemaFree
  <2>3. CASE wakes
    <3>1. w \in Thread /\ status[w] = "BLOCKED" /\ pc[w] = "down" /\ on[w] = s /\ w # current
      BY <1>1, <2>3, FirstWaiter, Zenon
    <3>. DEFINE st == [status EXCEPT ![w] = "READY", ![current] = "DYING"]
    <3>2. st \in [Thread -> Status]
      BY Zenon DEF TypeOK, Status
    <3>3. schedule(st, Append(ready_list, w))
      BY <2>3, Zenon DEF ThreadExit
    <3>4. \A t \in Thread : status'[t] = IF t = current' THEN "RUNNING" ELSE st[t]
      <4>. HIDE DEF st
      <4>1. QED
        BY <3>2, <3>3, ScheduleStatus, Zenon
    <3>5. st[w] = "READY"
      BY <1>1, <3>1, Zenon DEF TypeOK
    <3>6. status'[w] \in {"READY", "RUNNING"}
      BY <3>1, <3>4, <3>5, Zenon
    <3>7. w \notin Woken(s) /\ w \in Woken(s)'
      BY <1>1, <1>2, <3>1, <3>6, Zenon DEF Woken
    <3>8. SemaWake(s)
      BY <1>1, <1>3, <1>4, <1>7, <2>3, <3>1, <3>7, OthersStayWoken, ZenonT(40) DEF SemaWake
    <3>9. QED
      BY <3>8, Zenon DEF SemaStep
  <2>4. QED
    BY <2>1, <2>2, <2>3, Zenon
<1>10. \A t \in Thread : value'[stack_sema(t)] = value[stack_sema(t)]
  <2>1. \A t \in Thread : stack_sema(t) \in StackSema /\ stack_sema(t) \in Sema
    BY SemaFacts, Zenon
  <2>2. s \notin StackSema
    BY <1>1, SemaFacts, Zenon
  <2>3. QED
    BY <1>4, <2>1, <2>2, Zenon
<1>11. SignalSame
  <2>1. pc[current] \notin Busy /\ pc'[current] \notin Busy
    BY <1>1, <1>2, Zenon DEF Busy
  <2>2. QED
    BY <1>1, <1>7, <1>10, <2>1, CalmSignals, Zenon
<1>12. QED
  BY <1>8, <1>9, <1>11, Zenon DEF SemaStep

-----------------------------------------------------------------------------
(* SignalNotLost, thread by thread. *)
Queued(t) == t \in Members(cond_waiters[cv[t]])
Upped(t) == value[stack_sema(t)] = 1
Upcoming(t) == \E u \in Thread : Signals(u, t)

Accounted(t) ==
  \/ Queued(t) /\ ~Upped(t) /\ ~Upcoming(t)
  \/ ~Queued(t) /\ Upped(t) /\ ~Upcoming(t)
  \/ ~Queued(t) /\ ~Upped(t) /\ Upcoming(t)

LEMMA AccountedBefore ==
  ASSUME SignalNotLost
  PROVE  \A t \in Thread : Waits(t) => Accounted(t)
BY Zenon DEF SignalNotLost, Accounted, Queued, Upped, Upcoming

LEMMA AccountedAfter ==
  ASSUME \A t \in Thread : Waits(t)' => Accounted(t)'
  PROVE  SignalNotLost'
BY Zenon DEF SignalNotLost, Accounted, Queued, Upped, Upcoming

LEMMA WaitsCond ==
  ASSUME ArgInv, NEW t \in Thread, Waits(t)
  PROVE  cv[t] \in Cond
<1>1. on[t] = stack_sema(t) => on[t] \in StackSema
  BY SemaFacts, Zenon
<1>2. QED
  BY <1>1, Zenon DEF ArgInv, Waits

(* cond_wait queues the running thread with a fresh semaphore. *)
LEMMA CondWaitWakes ==
  ASSUME TypeOK, SignalInv, NEW c \in Cond, CondWait(c)
  PROVE  \A r \in Sema : SemaStep(r)
<1>1. current \in Thread /\ stack_sema(current) \in Sema /\ pc[current] = "run"
  BY SemaFacts, Zenon DEF TypeOK, CondWait, At
<1>2. OthersStay
  BY <1>1, Zenon DEF CondWait, goto, schedUnchanged, TypeOK, OthersStay
<1>3. \A r \in Sema : current \notin Woken(r)
  BY <1>1, Zenon DEF Woken
<1>4. \A r \in Sema : r # stack_sema(current) => value'[r] = value[r] /\ waiters'[r] = waiters[r]
  BY <1>1, Zenon DEF CondWait, TypeOK
<1>5. value'[stack_sema(current)] = 0
  BY <1>1, Zenon DEF CondWait, TypeOK
<1>6. \A r \in Sema : r # stack_sema(current) => SemaSame(r)
  BY <1>2, <1>3, <1>4, OthersStayWoken, Zenon DEF SemaSame
<1>7. \A r \in Sema : r = stack_sema(current) => SemaFree(r)
  BY <1>5, Zenon DEF SemaFree
<1>8. QED
  BY <1>6, <1>7, Zenon DEF SemaStep

LEMMA CondWaitSignals ==
  ASSUME TypeOK, ArgInv, SignalInv, SignalNotLost, NEW c \in Cond, CondWait(c)
  PROVE  SignalKept
<1>1. /\ current \in Thread /\ pc[current] = "run" /\ UNCHANGED on
      /\ cond_waiters[c] \in Seq(Thread)
      /\ \A t \in Thread : stack_sema(t) \in Sema
  BY SemaFacts, Zenon DEF TypeOK, CondWait, At
<1>2. /\ pc'[current] = "w_release" /\ cv'[current] = c
      /\ \A t \in Thread : t # current => pc'[t] = pc[t] /\ cv'[t] = cv[t]
  BY <1>1, Zenon DEF CondWait, goto, TypeOK
<1>3. /\ value'[stack_sema(current)] = 0
      /\ \A t \in Thread : t # current => value'[stack_sema(t)] = value[stack_sema(t)]
  BY <1>1, SemaFacts, Zenon DEF CondWait, TypeOK
<1>4. /\ cond_waiters'[c] = Append(cond_waiters[c], current)
      /\ \A d \in Cond : d # c => cond_waiters'[d] = cond_waiters[d]
      /\ \A d \in Cond : cond_waiters[d] \in Seq(Thread)
  BY Zenon DEF CondWait, TypeOK
<1>5. ~Waits(current)
  BY <1>1, Zenon DEF Waits
<1>6. \A t \in Thread : Waits(t)' <=> Waits(t) \/ t = current
  BY <1>1, <1>2, Zenon DEF Waits
<1>7. \A t, u \in Thread : Signals(u, t)' <=> Signals(u, t)
  BY <1>1, <1>2, Zenon DEF Signals
<1>8. \A d \in Cond : current \notin Members(cond_waiters[d])
  BY <1>5, Zenon DEF SignalInv
<1>9. \A u \in Thread : ~Signals(u, current)
  BY <1>1, <1>5, Zenon DEF SignalInv
<1>10. /\ Members(cond_waiters'[c]) = Members(cond_waiters[c]) \cup {current}
       /\ NoRepeat(cond_waiters'[c])
  <2>1. NoRepeat(cond_waiters[c])
    BY Zenon DEF SignalInv
  <2>2. /\ Members(Append(cond_waiters[c], current)) = Members(cond_waiters[c]) \cup {current}
        /\ NoRepeat(Append(cond_waiters[c], current))
    BY <1>1, <1>8, <2>1, AppendLemma
  <2>3. QED
    BY <1>4, <2>2, Zenon
<1>11. \A d \in Cond : Members(cond_waiters[d]) \subseteq Thread
  BY <1>4, MembersLemma, Zenon
<1>12. \A d \in Cond : /\ NoRepeat(cond_waiters'[d])
                       /\ \A t \in Members(cond_waiters'[d]) : Waits(t)' /\ cv'[t] = d
  <2>1. SUFFICES ASSUME NEW d \in Cond
                 PROVE  /\ NoRepeat(cond_waiters'[d])
                        /\ \A t \in Members(cond_waiters'[d]) : Waits(t)' /\ cv'[t] = d
    BY Zenon
  <2>2. \A t \in Members(cond_waiters[d]) : t \in Thread /\ t # current /\ Waits(t)' /\ cv'[t] = d
    BY <1>2, <1>6, <1>8, <1>11, Zenon DEF SignalInv
  <2>3. CASE d = c
    BY <1>1, <1>2, <1>6, <1>10, <2>2, <2>3, Zenon
  <2>4. CASE d # c
    BY <1>4, <2>2, <2>4, Zenon DEF SignalInv
  <2>5. QED
    BY <2>3, <2>4, Zenon
<1>13. \A t \in Thread : Waits(t)' => value'[stack_sema(t)] \in {0, 1}
  BY <1>3, <1>6, Zenon DEF SignalInv
<1>14. \A t \in Thread : pc'[t] = "down" => pc[t] = "down" /\ on'[t] = on[t]
  BY <1>1, <1>2, Zenon
<1>15. SignalInv'
  BY <1>6, <1>7, <1>12, <1>13, <1>14, Zenon DEF SignalInv, Members, NoRepeat
<1>16. ASSUME NEW t \in Thread, Waits(t)'
       PROVE  Accounted(t)'
  <2>1. CASE t = current
    <3>1. t \in Members(cond_waiters'[cv'[t]])
      BY <1>2, <1>10, <2>1, Zenon
    <3>2. value'[stack_sema(t)] # 1 /\ \A u \in Thread : ~Signals(u, t)'
      BY <1>3, <1>7, <1>9, <2>1
    <3>3. QED
      BY <3>1, <3>2, Zenon DEF Accounted, Queued, Upped, Upcoming, Members
  <2>2. CASE t # current
    <3>1. Waits(t) /\ cv'[t] = cv[t] /\ value'[stack_sema(t)] = value[stack_sema(t)]
      BY <1>2, <1>3, <1>6, <1>16, <2>2, Zenon
    <3>2. t \in Members(cond_waiters'[cv'[t]]) <=> t \in Members(cond_waiters[cv[t]])
      <4>1. CASE cv[t] = c
        BY <1>10, <2>2, <3>1, <4>1, Zenon
      <4>2. CASE cv[t] # c
        BY <1>4, <3>1, <4>2, WaitsCond, Zenon
      <4>3. QED
        BY <4>1, <4>2, Zenon
    <3>3. Accounted(t)
      BY <3>1, AccountedBefore, Zenon
    <3>4. QED
      BY <1>7, <3>1, <3>2, <3>3, Zenon DEF Accounted, Queued, Upped, Upcoming, Members
  <2>3. QED
    BY <2>1, <2>2, Zenon
<1>17. SignalNotLost'
  BY <1>16, AccountedAfter, Zenon
<1>18. QED
  BY <1>15, <1>17, Zenon DEF SignalKept

(* cond_signal takes the first waiter off the list, to up its semaphore. *)
LEMMA PopSignals ==
  ASSUME TypeOK, ArgInv, SignalInv, SignalNotLost, NEW c \in Cond,
         NEW place \in {"signal_up", "bcast_up"}, cond_signal(c, place),
         UNCHANGED <<value, waiters, cv>>, pc[current] \in {"run", "bcast"}
  PROVE  (\A r \in Sema : SemaStep(r)) /\ SignalKept
<1>. PICK h : h = Head(cond_waiters[c])
  BY Zenon
<1>1. /\ current \in Thread /\ cond_waiters[c] \in Seq(Thread) /\ cond_waiters[c] # <<>>
      /\ \A t \in Thread : stack_sema(t) \in Sema
  BY SemaFacts, Zenon DEF TypeOK, cond_signal
<1>2. /\ pc'[current] = place /\ on'[current] = stack_sema(h)
      /\ \A t \in Thread : t # current => pc'[t] = pc[t] /\ on'[t] = on[t]
  BY <1>1, Zenon DEF cond_signal, goto, TypeOK
<1>3. /\ cond_waiters'[c] = Tail(cond_waiters[c])
      /\ \A d \in Cond : d # c => cond_waiters'[d] = cond_waiters[d]
      /\ \A d \in Cond : cond_waiters[d] \in Seq(Thread)
  BY Zenon DEF cond_signal, TypeOK
<1>4. OthersStay
  BY <1>2, Zenon DEF cond_signal, schedUnchanged, OthersStay
<1>5. \A r \in Sema : SemaStep(r)
  <2>1. \A r \in Sema : current \notin Woken(r)
    BY Zenon DEF Woken
  <2>2. QED
    BY <1>4, <2>1, OthersStayWoken, Zenon DEF SemaStep, SemaSame
<1>6. NoRepeat(cond_waiters[c])
  BY Zenon DEF SignalInv
<1>7. /\ h \in Thread /\ Members(cond_waiters[c]) = Members(cond_waiters'[c]) \cup {h}
      /\ NoRepeat(cond_waiters'[c]) /\ h \notin Members(cond_waiters'[c])
  <2>1. /\ h \in Thread /\ Members(cond_waiters[c]) = Members(Tail(cond_waiters[c])) \cup {h}
        /\ NoRepeat(Tail(cond_waiters[c])) /\ h \notin Members(Tail(cond_waiters[c]))
    BY <1>1, <1>6, TailLemma, Zenon
  <2>2. QED
    BY <1>3, <2>1, Zenon
<1>8. Waits(h) /\ cv[h] = c /\ Queued(h)
  BY <1>7, Zenon DEF SignalInv, Queued
<1>9. \A u \in Thread : ~Signals(u, h)
  BY <1>7, <1>8, AccountedBefore, Zenon DEF Accounted, Upcoming
<1>10. \A t \in Thread : Waits(t)' <=> Waits(t)
  BY <1>2, Zenon DEF Waits
<1>11. \A t, u \in Thread : Signals(u, t)' <=> Signals(u, t) \/ (u = current /\ t = h)
  <2>1. \A t \in Thread : stack_sema(h) = stack_sema(t) => t = h
    BY <1>7, SemaFacts, Zenon
  <2>2. QED
    BY <1>2, <2>1, Zenon DEF Signals
<1>12. \A d \in Cond : /\ NoRepeat(cond_waiters'[d])
                       /\ Members(cond_waiters'[d]) \subseteq Members(cond_waiters[d])
  BY <1>3, <1>7, Zenon DEF SignalInv
<1>13. \A d \in Cond : Members(cond_waiters[d]) \subseteq Thread
  BY <1>3, MembersLemma, Zenon
<1>14. \A d \in Cond : \A t \in Members(cond_waiters'[d]) : Waits(t)' /\ cv'[t] = d
  BY <1>10, <1>12, <1>13, Zenon DEF SignalInv
<1>15. \A t \in Thread : pc'[t] = "down" => pc[t] = "down" /\ on'[t] = on[t]
  BY <1>2, Zenon
<1>16. \A t, u, v \in Thread : Signals(u, t)' /\ Signals(v, t)' => u = v
  <2>1. \A u, v \in Thread : Signals(u, h)' /\ Signals(v, h)' => u = v
    BY <1>7, <1>9, <1>11, Zenon
  <2>2. \A t, u \in Thread : t # h => (Signals(u, t)' <=> Signals(u, t))
    BY <1>11, Zenon
  <2>3. ASSUME NEW t \in Thread, NEW u \in Thread, NEW v \in Thread,
               Signals(u, t)', Signals(v, t)'
        PROVE  u = v
    <3>1. CASE t = h
      BY <2>1, <2>3, <3>1, Zenon
    <3>2. CASE t # h
      <4>1. Signals(u, t) /\ Signals(v, t)
        BY <2>2, <2>3, <3>2, Zenon
      <4>2. QED
        BY <4>1, Zenon DEF SignalInv
    <3>3. QED
      BY <3>1, <3>2, Zenon
  <2>4. QED
    BY <2>3, Zenon
<1>17. \A t, u \in Thread : Signals(u, t)' => Waits(t)'
  BY <1>8, <1>10, <1>11, Zenon DEF SignalInv
<1>18. SignalInv'
  BY <1>10, <1>12, <1>14, <1>15, <1>16, <1>17, Zenon DEF SignalInv, Members, NoRepeat
<1>19. ASSUME NEW t \in Thread, Waits(t)'
       PROVE  Accounted(t)'
  <2>1. Waits(t) /\ Accounted(t) /\ cv[t] \in Cond
    BY <1>10, <1>19, AccountedBefore, WaitsCond, Zenon
  <2>2. CASE t = h
    <3>1. (\E u \in Thread : Signals(u, t)') /\ t \notin Members(cond_waiters'[cv'[t]])
      BY <1>1, <1>7, <1>8, <1>11, <2>2, Zenon
    <3>2. value'[stack_sema(t)] # 1
      BY <1>8, <2>1, <2>2, Zenon DEF Accounted, Upped
    <3>3. QED
      BY <1>1, <3>1, <3>2, Zenon DEF Accounted, Queued, Upped, Upcoming, Members
  <2>3. CASE t # h
    <3>1. t \in Members(cond_waiters'[cv'[t]]) <=> t \in Members(cond_waiters[cv[t]])
      <4>1. CASE cv[t] = c
        BY <1>7, <2>3, <4>1, Zenon
      <4>2. CASE cv[t] # c
        BY <1>3, <2>1, <4>2, Zenon
      <4>3. QED
        BY <4>1, <4>2, Zenon
    <3>2. \A u \in Thread : Signals(u, t)' <=> Signals(u, t)
      BY <1>11, <2>3, Zenon
    <3>3. QED
      BY <2>1, <3>1, <3>2, Zenon DEF Accounted, Queued, Upped, Upcoming, Members
  <2>4. QED
    BY <2>2, <2>3, Zenon
<1>20. SignalNotLost'
  BY <1>19, AccountedAfter, Zenon
<1>21. QED
  BY <1>5, <1>18, <1>20, Zenon DEF SignalKept

(* The sema_up of cond_signal reaches the waiter's semaphore. *)
LEMMA SignalUpSignals ==
  ASSUME TypeOK, SI, ArgInv, SignalInv, SignalNotLost,
         pc[current] \in {"signal_up", "bcast_up"}, pc'[current] \in {"run", "bcast"},
         sema_up(on[current]), UpFrame, UNCHANGED cond_waiters
  PROVE  SignalKept
<1>1. current \in Thread /\ on[current] \in StackSema /\ on[current] \in Sema
  BY SemaFacts, Zenon DEF TypeOK, ArgInv
<1>2. PICK h \in Thread : on[current] = stack_sema(h)
  BY <1>1, Zenon DEF StackSema
<1>3. Signals(current, h) /\ Waits(h)
  BY <1>1, <1>2, Zenon DEF Signals, SignalInv
<1>4. value[stack_sema(h)] = 0 /\ ~Queued(h)
  BY <1>1, <1>3, AccountedBefore, Zenon DEF SignalInv, Accounted, Upcoming, Upped
<1>5. /\ value'[stack_sema(h)] = value[stack_sema(h)] + 1
      /\ \A t \in Thread : t # h => value'[stack_sema(t)] = value[stack_sema(t)]
  BY <1>1, <1>2, SemaFacts, Zenon DEF sema_up, TypeOK
<1>6. value'[stack_sema(h)] = 1
  BY <1>4, <1>5
<1>7. \A t \in Thread : Waits(t)' <=> Waits(t)
  BY Zenon DEF Waits, UpFrame
<1>8. \A t, u \in Thread : Signals(u, t)' <=> Signals(u, t) /\ u # current
  BY Zenon DEF Signals, UpFrame
<1>9. \A t \in Thread : pc'[t] = "down" => pc[t] = "down" /\ on'[t] = on[t]
  BY Zenon DEF UpFrame
<1>10. \A c \in Cond : /\ cond_waiters'[c] = cond_waiters[c]
                       /\ Members(cond_waiters[c]) \subseteq Thread
  BY MembersLemma, Zenon DEF TypeOK
<1>11. \A c \in Cond : /\ NoRepeat(cond_waiters'[c])
                       /\ \A t \in Members(cond_waiters'[c]) : Waits(t)' /\ cv'[t] = c
  BY <1>7, <1>10, Zenon DEF SignalInv, UpFrame
<1>12. \A t \in Thread : Waits(t)' => value'[stack_sema(t)] \in {0, 1}
  BY <1>5, <1>6, <1>7, Zenon DEF SignalInv
<1>13. SignalInv'
  BY <1>7, <1>8, <1>9, <1>11, <1>12, Zenon DEF SignalInv, Members, NoRepeat
<1>14. ASSUME NEW t \in Thread, Waits(t)'
       PROVE  Accounted(t)'
  <2>1. Waits(t) /\ Accounted(t) /\ cv'[t] = cv[t]
    BY <1>7, <1>14, AccountedBefore, Zenon DEF UpFrame
  <2>2. CASE t = h
    <3>1. \A u \in Thread : ~Signals(u, t)'
      BY <1>1, <1>3, <1>8, <2>2, Zenon DEF SignalInv
    <3>2. t \notin Members(cond_waiters'[cv'[t]]) /\ value'[stack_sema(t)] = 1
      BY <1>4, <1>6, <2>1, <2>2, Zenon DEF Queued
    <3>3. QED
      BY <3>1, <3>2, Zenon DEF Accounted, Queued, Upped, Upcoming, Members
  <2>3. CASE t # h
    <3>1. ~Signals(current, t)
      BY <1>2, <2>3, SemaFacts, Zenon DEF Signals
    <3>2. \A u \in Thread : Signals(u, t)' <=> Signals(u, t)
      BY <1>8, <3>1, Zenon
    <3>3. QED
      BY <1>5, <2>1, <2>3, <3>2, Zenon DEF Accounted, Queued, Upped, Upcoming, Members
  <2>4. QED
    BY <2>2, <2>3, Zenon
<1>15. SignalNotLost'
  BY <1>14, AccountedAfter, Zenon
<1>16. QED
  BY <1>13, <1>15, Zenon DEF SignalKept

(* The sema_down of cond_wait: the thread waits on, or leaves with the     *)
(* unit it was signalled.                                                  *)
LEMMA StackDownSignals ==
  ASSUME TypeOK, TypeOK', ArgInv, SignalInv, SignalNotLost,
         sema_down(stack_sema(current)), Waits(current), UNCHANGED <<cv, cond_waiters>>
  PROVE  SignalKept
<1>. PICK p : p = current
  BY Zenon
<1>1. p \in Thread /\ \A t \in Thread : stack_sema(t) \in Sema /\ stack_sema(t) \in StackSema
  BY SemaFacts, Zenon DEF TypeOK
<1>2. OthersStay
  BY <1>1, DownOthers, Zenon
<1>3. \A t \in Thread : t # p => (pc'[t] = "down" => pc[t] = "down") /\ on'[t] = on[t]
  BY <1>2, Zenon DEF OthersStay
<1>4. pc[p] \notin {"signal_up", "bcast_up"}
  BY Zenon DEF Waits
<1>5. \A t \in Thread : t # p => (Waits(t)' <=> Waits(t))
  BY <1>2, Zenon DEF OthersStay, Waits
<1>6. \A t, u \in Thread : u # p => (Signals(u, t)' <=> Signals(u, t))
  BY <1>2, Zenon DEF OthersStay, Signals
<1>7. \A c \in Cond : /\ cond_waiters'[c] = cond_waiters[c]
                      /\ Members(cond_waiters[c]) \subseteq Thread
  BY MembersLemma, Zenon DEF TypeOK
<1>8. CASE value[stack_sema(p)] = 0
  <2>1. UNCHANGED value /\ pc'[p] = "down" /\ on'[p] = stack_sema(p)
    BY <1>1, <1>8, ZenonT(40) DEF sema_down, goto, TypeOK
  <2>2. \A t \in Thread : Waits(t)' <=> Waits(t)
    BY <1>5, <2>1, Zenon DEF Waits
  <2>3. \A t, u \in Thread : Signals(u, t)' <=> Signals(u, t)
    <3>1. \A t \in Thread : ~Signals(p, t) /\ ~Signals(p, t)'
      BY <1>4, <2>1, Zenon DEF Signals
    <3>2. QED
      BY <1>6, <3>1, Zenon
  <2>4. \A t \in Thread : pc'[t] = "down" /\ on'[t] \in StackSema => on'[t] = stack_sema(t)
    BY <1>3, <2>1, Zenon DEF SignalInv
  <2>5. SignalSame
    BY <2>1, <2>2, <2>3, <2>4, Zenon DEF SignalSame
  <2>6. QED
    BY <2>5, SignalSameKeeps, Zenon
<1>9. CASE value[stack_sema(p)] # 0
  <2>1. pc'[p] = "w_acquire" /\ value'[stack_sema(p)] = value[stack_sema(p)] - 1
    BY <1>1, <1>9, SemaFacts DEF sema_down, goto, TypeOK, after_down
  <2>2. \A t \in Thread : t # p => value'[stack_sema(t)] = value[stack_sema(t)]
    <3>1. value' = [value EXCEPT ![stack_sema(p)] = @ - 1]
      BY <1>9, Zenon DEF sema_down
    <3>2. \A t \in Thread : t # p => stack_sema(t) # stack_sema(p)
      BY <1>1, SemaFacts, Zenon
    <3>3. QED
      BY <1>1, <3>1, <3>2, Zenon DEF TypeOK
  <2>3. value[stack_sema(p)] = 1
    BY <1>1, <1>9, Zenon DEF SignalInv
  <2>4. ~Queued(p) /\ \A u \in Thread : ~Signals(u, p)
    BY <1>1, <2>3, AccountedBefore, Zenon DEF Accounted, Upped, Upcoming
  <2>5. \A c \in Cond : p \notin Members(cond_waiters[c])
    BY <2>4, Zenon DEF SignalInv, Queued
  <2>6. ~Waits(p)'
    BY <2>1, Zenon DEF Waits
  <2>7. \A t, u \in Thread : Signals(u, t)' <=> Signals(u, t)
    <3>1. \A t \in Thread : ~Signals(p, t) /\ ~Signals(p, t)'
      BY <1>4, <2>1, Zenon DEF Signals
    <3>2. QED
      BY <1>6, <3>1, Zenon
  <2>8. \A c \in Cond : /\ NoRepeat(cond_waiters'[c])
                        /\ \A t \in Members(cond_waiters'[c]) : Waits(t)' /\ cv'[t] = c
    <3>1. \A c \in Cond : \A t \in Members(cond_waiters[c]) : t # p /\ t \in Thread
      BY <1>7, <2>5, Zenon
    <3>2. QED
      BY <1>5, <1>7, <3>1, Zenon DEF SignalInv
  <2>9. \A t \in Thread : pc'[t] = "down" => t # p /\ pc[t] = "down" /\ on'[t] = on[t]
    BY <1>3, <2>1, Zenon
  <2>10. \A t, u \in Thread : Signals(u, t)' => Waits(t)'
    BY <1>5, <2>4, <2>7, Zenon DEF SignalInv
  <2>11. \A t, u, v \in Thread : Signals(u, t)' /\ Signals(v, t)' => u = v
    BY <2>7, Zenon DEF SignalInv
  <2>12. \A t \in Thread : Waits(t)' => value'[stack_sema(t)] \in {0, 1}
    BY <1>5, <2>2, <2>6, Zenon DEF SignalInv
  <2>13. SignalInv'
    BY <2>8, <2>9, <2>10, <2>11, <2>12, Zenon DEF SignalInv, Members, NoRepeat
  <2>14. ASSUME NEW t \in Thread, Waits(t)'
         PROVE  Accounted(t)'
    <3>1. t # p
      BY <2>6, <2>14, Zenon
    <3>2. Waits(t) /\ Accounted(t)
      BY <1>5, <2>14, <3>1, AccountedBefore, Zenon
    <3>3. value'[stack_sema(t)] = value[stack_sema(t)]
      BY <2>2, <3>1, Zenon
    <3>4. QED
      BY <2>7, <3>2, <3>3, Zenon DEF Accounted, Queued, Upped, Upcoming, Members
  <2>15. SignalNotLost'
    BY <2>14, AccountedAfter, Zenon
  <2>16. QED
    BY <2>13, <2>15, Zenon DEF SignalKept
<1>10. QED
  BY <1>8, <1>9, Zenon

-----------------------------------------------------------------------------
(* Every action. *)
Kept == (\A s \in Sema : SemaStep(s)) /\ SignalKept

LEMMA SameKept ==
  ASSUME TypeOK, SignalInv, SignalNotLost, (\A s \in Sema : SemaStep(s)) /\ SignalSame
  PROVE  Kept
BY SignalSameKeeps, Zenon DEF Kept

LEMMA TickKept ==
  ASSUME TypeOK, TypeOK', SI, SignalInv, SignalNotLost, Tick
  PROVE  Kept
<1>1. UNCHANGED <<value, waiters, cond_waiters, on, cv>> /\ current \in Thread
  BY Zenon DEF Tick, synchVars, TypeOK
<1>2. /\ \A t \in Thread : t # current => pc'[t] = pc[t]
      /\ pc'[current] = pc[current] \/ (pc[current] \notin Busy /\ pc'[current] \notin Busy)
  <2>1. CASE pc[current] = "hlt"
    BY <1>1, <2>1, Zenon DEF Tick, ThreadTick, WakeHlt, TypeOK, Busy
  <2>2. CASE pc[current] # "hlt"
    BY <2>2, Zenon DEF Tick, ThreadTick, WakeHlt
  <2>3. QED
    BY <2>1, <2>2, Zenon
<1>3. /\ \A t \in Thread : status[t] \in {"READY", "RUNNING"} => status'[t] \in {"READY", "RUNNING"}
      /\ status'[current] \in {"READY", "RUNNING"}
  <2>1. CASE thread_yield
    BY <2>1, YieldStatus, Zenon
  <2>2. CASE UNCHANGED status
    BY <1>1, <2>2, Zenon DEF SI, SchedulerConsistent
  <2>3. QED
    BY <2>1, <2>2, Zenon DEF Tick, ThreadTick
<1>4. OthersStay /\ CurrentCalm
  BY <1>1, <1>2, <1>3, Zenon DEF OthersStay, CurrentCalm
<1>5. QED
  BY <1>1, <1>4, CalmStep, SameKept, Zenon

LEMMA YieldKept ==
  ASSUME TypeOK, TypeOK', SignalInv, SignalNotLost, ThreadYield
  PROVE  Kept
<1>1. UNCHANGED <<value, waiters, cond_waiters, on, cv, pc>> /\ thread_yield
  BY Zenon DEF ThreadYield, synchVars
<1>2. OthersStay /\ CurrentCalm
  BY <1>1, YieldStatus, Zenon DEF OthersStay, CurrentCalm
<1>3. QED
  BY <1>1, <1>2, CalmStep, SameKept, Zenon

(* A step of the running thread that touches no semaphore and no status. *)
LEMMA PrivateKept ==
  ASSUME TypeOK, SignalInv, SignalNotLost, SI,
         UNCHANGED <<value, waiters, cond_waiters, status>>,
         \A t \in Thread : t # current => pc'[t] = pc[t] /\ on'[t] = on[t] /\ cv'[t] = cv[t],
         \/ pc'[current] = pc[current] /\ on'[current] = on[current] /\ cv'[current] = cv[current]
         \/ pc[current] \notin Busy /\ pc'[current] \notin Busy
  PROVE  Kept
<1>1. status'[current] = "RUNNING"
  BY Zenon DEF TypeOK, SI, SchedulerConsistent
<1>2. OthersStay /\ CurrentCalm
  BY <1>1, Zenon DEF OthersStay, CurrentCalm
<1>3. QED
  BY <1>2, CalmStep, SameKept, Zenon

LEMMA PlainStepsKept ==
  ASSUME TypeOK, SI, SignalInv, SignalNotLost
  PROVE  /\ YieldReturn /\ UNCHANGED <<synchVars, tidVars>> => Kept
         /\ KernelThread /\ UNCHANGED <<synchVars, tidVars>> => Kept
         /\ IdleHalt /\ UNCHANGED <<synchVars, tidVars>> => Kept
         /\ IdleSet /\ UNCHANGED <<synchVars, tidVars>> => Kept
         /\ LockSetHolder => Kept
         /\ AllocateTidLoad => Kept
         /\ AllocateTidStore => Kept
         /\ AllocateTidRelease => Kept
         /\ (\E l \in Lock : LockRelease(l)) => Kept
         /\ (\E c \in Cond : CondBroadcast(c)) => Kept
<1>. USE DEF goto, schedUnchanged, synchVars, At
<1>0. current \in Thread /\ pc \in [Thread -> Place] /\ on \in [Thread -> Sema]
      /\ cv \in [Thread -> Cond \cup {NULL}]
  BY Zenon DEF TypeOK
<1>1. ASSUME YieldReturn, UNCHANGED <<synchVars, tidVars>> PROVE Kept
  BY <1>1, PrivateKept, Zenon DEF YieldReturn
<1>2. ASSUME KernelThread, UNCHANGED <<synchVars, tidVars>> PROVE Kept
  <2>1. pc[current] \notin Busy /\ pc'[current] \notin Busy
    BY <1>0, <1>2, Zenon DEF KernelThread, Busy
  <2>2. \A t \in Thread : t # current => pc'[t] = pc[t]
    BY <1>0, <1>2, Zenon DEF KernelThread
  <2>3. QED
    BY <1>2, <2>1, <2>2, PrivateKept, Zenon DEF KernelThread
<1>3. ASSUME IdleHalt, UNCHANGED <<synchVars, tidVars>> PROVE Kept
  <2>1. pc[current] \notin Busy /\ pc'[current] \notin Busy
    BY <1>0, <1>3, Zenon DEF IdleHalt, Busy
  <2>2. \A t \in Thread : t # current => pc'[t] = pc[t]
    BY <1>0, <1>3, Zenon DEF IdleHalt
  <2>3. QED
    BY <1>3, <2>1, <2>2, PrivateKept, Zenon DEF IdleHalt
<1>4. ASSUME IdleSet, UNCHANGED <<synchVars, tidVars>> PROVE Kept
  <2>1. pc[current] \notin Busy /\ pc'[current] \notin Busy
    BY <1>0, <1>4, Zenon DEF IdleSet, Busy
  <2>2. \A t \in Thread : t # current => pc'[t] = pc[t]
    BY <1>0, <1>4, Zenon DEF IdleSet
  <2>3. QED
    BY <1>4, <2>1, <2>2, PrivateKept, Zenon DEF IdleSet
<1>5. ASSUME LockSetHolder PROVE Kept
  <2>1. pc[current] \notin Busy /\ pc'[current] \notin Busy
    BY <1>0, <1>5, Zenon DEF LockSetHolder, Busy
  <2>2. \A t \in Thread : t # current => pc'[t] = pc[t]
    BY <1>0, <1>5, Zenon DEF LockSetHolder
  <2>3. QED
    BY <1>5, <2>1, <2>2, PrivateKept, Zenon DEF LockSetHolder
<1>6. ASSUME AllocateTidLoad PROVE Kept
  <2>1. pc[current] \notin Busy /\ pc'[current] \notin Busy
    BY <1>0, <1>6, Zenon DEF AllocateTidLoad, Busy
  <2>2. \A t \in Thread : t # current => pc'[t] = pc[t]
    BY <1>0, <1>6, Zenon DEF AllocateTidLoad
  <2>3. QED
    BY <1>6, <2>1, <2>2, PrivateKept, Zenon DEF AllocateTidLoad
<1>7. ASSUME AllocateTidStore PROVE Kept
  <2>1. pc[current] \notin Busy /\ pc'[current] \notin Busy
    BY <1>0, <1>7, Zenon DEF AllocateTidStore, Busy
  <2>2. \A t \in Thread : t # current => pc'[t] = pc[t]
    BY <1>0, <1>7, Zenon DEF AllocateTidStore
  <2>3. QED
    BY <1>7, <2>1, <2>2, PrivateKept, Zenon DEF AllocateTidStore
<1>8. ASSUME AllocateTidRelease PROVE Kept
  <2>1. pc[current] \notin Busy /\ pc'[current] \notin Busy
    BY <1>0, <1>8, Zenon DEF AllocateTidRelease, lock_release, Busy
  <2>2. \A t \in Thread : t # current => pc'[t] = pc[t] /\ on'[t] = on[t]
    BY <1>0, <1>8, Zenon DEF AllocateTidRelease, lock_release
  <2>3. QED
    BY <1>8, <2>1, <2>2, PrivateKept, Zenon DEF AllocateTidRelease, lock_release
<1>9. ASSUME NEW l \in Lock, LockRelease(l) PROVE Kept
  <2>1. pc[current] \notin Busy /\ pc'[current] \notin Busy
    BY <1>0, <1>9, Zenon DEF LockRelease, lock_release, Busy
  <2>2. \A t \in Thread : t # current => pc'[t] = pc[t] /\ on'[t] = on[t]
    BY <1>0, <1>9, Zenon DEF LockRelease, lock_release
  <2>3. QED
    BY <1>9, <2>1, <2>2, PrivateKept, Zenon DEF LockRelease, lock_release
<1>10. ASSUME NEW c \in Cond, CondBroadcast(c) PROVE Kept
  <2>1. pc[current] \notin Busy /\ pc'[current] \notin Busy
    BY <1>0, <1>10, Zenon DEF CondBroadcast, Busy
  <2>2. \A t \in Thread : t # current => pc'[t] = pc[t] /\ cv'[t] = cv[t]
    BY <1>0, <1>10, Zenon DEF CondBroadcast
  <2>3. QED
    BY <1>10, <2>1, <2>2, PrivateKept, Zenon DEF CondBroadcast
<1>11. QED
  BY <1>1, <1>2, <1>3, <1>4, <1>5, <1>6, <1>7, <1>8, <1>9, <1>10, Zenon

(* idle() blocks. *)
LEMMA IdleBlockKept ==
  ASSUME TypeOK, TypeOK', SignalInv, SignalNotLost,
         IdleBlock, UNCHANGED <<synchVars, tidVars>>
  PROVE  Kept
<1>1. /\ current \in Thread /\ pc[current] = "idle" /\ thread_block
      /\ UNCHANGED <<value, waiters, cond_waiters, on, cv>>
  BY Zenon DEF IdleBlock, synchVars, TypeOK
<1>2. pc'[current] = "idle_off" /\ \A t \in Thread : t # current => pc'[t] = pc[t]
  BY <1>1, Zenon DEF IdleBlock, goto, TypeOK
<1>3. OthersStay
  BY <1>1, <1>2, BlockStatus, Zenon DEF OthersStay
<1>4. CurrentCalm
  BY <1>1, <1>2, Zenon DEF CurrentCalm, Busy
<1>5. QED
  BY <1>1, <1>3, <1>4, CalmStep, SameKept, Zenon

(* thread_create makes a blocked thread, and later unblocks it. *)
LEMMA ThreadCreateKept ==
  ASSUME TypeOK, SignalInv, SignalNotLost, NEW n \in Thread, ThreadCreate(n)
  PROVE  Kept
<1>1. /\ current \in Thread /\ pc[current] = "run" /\ status[n] = "NONE"
      /\ UNCHANGED <<value, waiters, cond_waiters, on, cv>>
  BY Zenon DEF ThreadCreate, At, synchVars, TypeOK
<1>2. /\ pc'[current] = "c_lock" /\ \A t \in Thread : t # current => pc'[t] = pc[t]
      /\ \A t \in Thread : t # n => status'[t] = status[t]
  BY <1>1, Zenon DEF ThreadCreate, goto, TypeOK
<1>3. OthersStay
  BY <1>1, <1>2, Zenon DEF OthersStay
<1>4. CurrentCalm
  BY <1>1, <1>2, Zenon DEF CurrentCalm, Busy
<1>5. QED
  BY <1>1, <1>3, <1>4, CalmStep, SameKept, Zenon

LEMMA UnblockKept ==
  ASSUME TypeOK, SI, CreateInv, SignalInv, SignalNotLost, ThreadCreateUnblock
  PROVE  Kept
<1>. PICK n : n = new[current]
  BY Zenon
<1>1. /\ current \in Thread /\ pc[current] = "c_unblock"
      /\ UNCHANGED <<value, waiters, cond_waiters, on, cv>>
  BY Zenon DEF ThreadCreateUnblock, At, synchVars, TypeOK
<1>2. n \in Thread /\ pc[n] = "none" /\ n # current
  BY <1>1, Zenon DEF CreateInv, Creating
<1>3. /\ pc'[current] = "run" /\ pc'[n] = "entry"
      /\ \A t \in Thread : t # current /\ t # n => pc'[t] = pc[t]
      /\ \A t \in Thread : t # n => status'[t] = status[t]
  BY <1>1, <1>2, Zenon DEF ThreadCreateUnblock, thread_unblock, TypeOK
<1>4. OthersStay
  BY <1>1, <1>2, <1>3, Zenon DEF OthersStay
<1>5. CurrentCalm
  BY <1>1, <1>3, Zenon DEF CurrentCalm, Busy
<1>6. QED
  BY <1>1, <1>4, <1>5, CalmStep, SameKept, Zenon

(* cond_wait between queueing itself and the sema_up of lock_release. *)
LEMMA WaitReleaseKept ==
  ASSUME TypeOK, SI, SignalInv, SignalNotLost, CondWaitRelease
  PROVE  Kept
<1>. PICK p : p = current
  BY Zenon
<1>1. /\ p \in Thread /\ pc[p] = "w_release"
      /\ UNCHANGED <<value, waiters, cond_waiters, cv, status>>
  BY Zenon DEF CondWaitRelease, lock_release, schedUnchanged, At, TypeOK
<1>2. /\ pc'[p] = "w_up"
      /\ \A t \in Thread : t # p => pc'[t] = pc[t] /\ on'[t] = on[t]
  BY <1>1, Zenon DEF CondWaitRelease, lock_release, goto, TypeOK
<1>3. OthersStay
  BY <1>1, <1>2, Zenon DEF OthersStay
<1>4. \A r \in Sema : SemaStep(r)
  <2>1. \A r \in Sema : current \notin Woken(r)
    BY <1>1, Zenon DEF Woken
  <2>2. QED
    BY <1>1, <1>3, <2>1, OthersStayWoken, Zenon DEF SemaStep, SemaSame
<1>5. \A t \in Thread : Waits(t)' <=> Waits(t)
  <2>1. Waits(p)' /\ Waits(p)
    BY <1>1, <1>2, Zenon DEF Waits
  <2>2. \A t \in Thread : t # p => (Waits(t)' <=> Waits(t))
    BY <1>2, Zenon DEF Waits
  <2>3. QED
    BY <2>1, <2>2, Zenon
<1>6. \A t, u \in Thread : Signals(u, t)' <=> Signals(u, t)
  <2>1. \A t \in Thread : ~Signals(p, t)' /\ ~Signals(p, t)
    BY <1>1, <1>2, Zenon DEF Signals
  <2>2. \A t, u \in Thread : u # p => (Signals(u, t)' <=> Signals(u, t))
    BY <1>2, Zenon DEF Signals
  <2>3. QED
    BY <2>1, <2>2, Zenon
<1>7. \A t \in Thread : pc'[t] = "down" => t # p /\ pc[t] = "down" /\ on'[t] = on[t]
  BY <1>2, Zenon
<1>8. SignalSame
  BY <1>1, <1>5, <1>6, <1>7, Zenon DEF SignalSame, SignalInv
<1>9. QED
  BY <1>4, <1>8, SameKept, Zenon

(* sema_down where it is called for anything but a cond_wait. *)
LEMMA DownKept ==
  ASSUME TypeOK, TypeOK', SignalInv, SignalNotLost,
         NEW s \in Sema, s \notin StackSema, sema_down(s), UNCHANGED <<cv, cond_waiters>>,
         pc[current] \notin Busy
  PROVE  Kept
<1>1. pc[current] # "down" /\ s \in Sema \ StackSema
  BY Zenon DEF Busy
<1>2. (\A r \in Sema : SemaStep(r)) /\ SignalSame
  BY <1>1, DownWakes, DownSignals, Zenon
<1>3. QED
  BY <1>2, SameKept, Zenon

LEMMA DownsKept ==
  ASSUME TypeOK, TypeOK', SignalInv, SignalNotLost
  PROVE  /\ ThreadStart => Kept
         /\ (\E s \in Waited : SemaDown(s)) => Kept
         /\ (\E l \in Lock : LockAcquire(l)) => Kept
         /\ ArgInv /\ CondWaitAcquire => Kept
         /\ AllocateTidLock => Kept
<1>. USE DEF At
<1>1. ASSUME ThreadStart PROVE Kept
  <2>1. pc[current] \notin Busy
    BY <1>1, Zenon DEF ThreadStart, Busy
  <2>2. QED
    BY <1>1, <2>1, DownKept, SemaFacts, Zenon DEF ThreadStart
<1>2. ASSUME NEW s \in Waited, SemaDown(s) PROVE Kept
  <2>1. pc[current] \notin Busy /\ s \in Sema /\ s \notin StackSema
    BY <1>2, SemaFacts, Zenon DEF SemaDown, Busy
  <2>2. QED
    BY <1>2, <2>1, DownKept, Zenon DEF SemaDown
<1>3. ASSUME NEW l \in Lock, lock_acquire(l), UNCHANGED <<cv, cond_waiters>>,
             pc[current] \notin Busy
      PROVE  Kept
  <2>1. lock_sema(l) \in Sema /\ lock_sema(l) \notin StackSema
    BY SemaFacts, Zenon
  <2>2. QED
    BY <1>3, <2>1, DownKept, Zenon DEF lock_acquire
<1>4. ASSUME NEW l \in Lock, LockAcquire(l) PROVE Kept
  <2>1. pc[current] \notin Busy
    BY <1>4, Zenon DEF LockAcquire, Busy
  <2>2. QED
    BY <1>3, <1>4, <2>1, Zenon DEF LockAcquire
<1>5. ASSUME ArgInv, CondWaitAcquire PROVE Kept
  <2>1. pc[current] = "w_acquire" /\ current \in Thread
    BY <1>5, Zenon DEF CondWaitAcquire, TypeOK
  <2>2. pc[current] \notin Busy /\ cv[current] \in Cond
    BY <1>5, <2>1, Zenon DEF Busy, ArgInv
  <2>3. LockOf[cv[current]] \in Lock
    BY <2>2, SynchAssumption, Zenon
  <2>4. QED
    BY <1>3, <1>5, <2>2, <2>3, Zenon DEF CondWaitAcquire
<1>6. ASSUME AllocateTidLock PROVE Kept
  <2>1. pc[current] \notin Busy
    BY <1>6, Zenon DEF AllocateTidLock, Busy
  <2>2. QED
    BY <1>3, <1>6, <2>1, SynchAssumption, Zenon DEF AllocateTidLock
<1>7. QED
  BY <1>1, <1>2, <1>4, <1>5, <1>6, Zenon

(* The sema_down of cond_wait, and the loop of a woken thread. *)
LEMMA WaitDownKept ==
  ASSUME TypeOK, TypeOK', ArgInv, SignalInv, SignalNotLost, CondWaitDown
  PROVE  Kept
<1>1. /\ current \in Thread /\ pc[current] = "w_down" /\ sema_down(stack_sema(current))
      /\ UNCHANGED <<cv, cond_waiters>>
  BY Zenon DEF CondWaitDown, At, TypeOK
<1>2. stack_sema(current) \in Sema /\ Waits(current) /\ pc[current] # "down"
  BY <1>1, SemaFacts, Zenon DEF Waits
<1>3. \A r \in Sema : SemaStep(r)
  BY <1>1, <1>2, DownWakes, Zenon
<1>4. SignalKept
  BY <1>1, <1>2, StackDownSignals, Zenon
<1>5. QED
  BY <1>3, <1>4, Zenon DEF Kept

LEMMA DownLoopKept ==
  ASSUME TypeOK, TypeOK', ArgInv, SignalInv, SignalNotLost, SemaDownLoop
  PROVE  Kept
<1>1. /\ current \in Thread /\ pc[current] = "down" /\ sema_down(on[current])
      /\ UNCHANGED <<cv, cond_waiters>> /\ on[current] \in Sema
  BY Zenon DEF SemaDownLoop, TypeOK
<1>2. \A r \in Sema : SemaStep(r)
  BY <1>1, DownWakes, Zenon
<1>3. CASE on[current] \in StackSema
  <2>1. on[current] = stack_sema(current)
    BY <1>1, <1>3, Zenon DEF SignalInv
  <2>2. Waits(current) /\ sema_down(stack_sema(current))
    BY <1>1, <2>1, Zenon DEF Waits
  <2>3. QED
    BY <1>1, <1>2, <2>2, StackDownSignals, Zenon DEF Kept
<1>4. CASE on[current] \notin StackSema
  <2>1. on[current] \in Sema \ StackSema
    BY <1>1, <1>4, Zenon
  <2>2. SignalSame
    BY <1>1, <2>1, DownSignals, Zenon
  <2>3. QED
    BY <1>2, <2>2, SameKept, Zenon
<1>5. QED
  BY <1>3, <1>4, Zenon

LEMMA UpKept ==
  ASSUME TypeOK, SI, ArgInv, SignalInv, SignalNotLost, SemaUp
  PROVE  Kept
<1>1. PICK place \in {"release_up", "w_up", "c_up", "signal_up", "bcast_up"} :
        /\ pc[current] = place /\ sema_up(on[current]) /\ goto(current, after_up(place))
        /\ UNCHANGED <<on, cv, cond_waiters>>
  BY Zenon DEF SemaUp, At
<1>2. current \in Thread /\ on[current] \in Sema /\ pc'[current] = after_up(place)
  BY <1>1, Zenon DEF TypeOK, goto
<1>3. UpFrame
  BY <1>1, <1>2, Zenon DEF UpFrame, goto, TypeOK
<1>4. \A r \in Sema : SemaStep(r)
  BY <1>1, <1>2, <1>3, UpWakes, Zenon
<1>5. CASE place \in {"signal_up", "bcast_up"}
  <2>1. pc'[current] \in {"run", "bcast"}
    BY <1>2, <1>5 DEF after_up
  <2>2. QED
    BY <1>1, <1>3, <1>4, <1>5, <2>1, SignalUpSignals, Zenon DEF Kept
<1>6. CASE place \in {"release_up", "w_up", "c_up"}
  <2>1. on[current] = lock_sema(lk[current]) /\ lk[current] \in Lock
    BY <1>1, <1>2, <1>6, Zenon DEF ArgInv, TypeOK
  <2>2. on[current] \in Sema \ StackSema
    BY <1>2, <2>1, SemaFacts, ZenonT(40)
  <2>3. \/ pc[current] \notin Busy /\ pc'[current] \notin Busy
        \/ pc[current] = "w_up" /\ pc'[current] = "w_down"
    BY <1>1, <1>2, <1>6 DEF after_up, Busy
  <2>4. SignalSame
    BY <1>1, <1>3, <2>2, <2>3, UpSignals, Zenon
  <2>5. QED
    BY <1>4, <2>4, SameKept, Zenon
<1>7. QED
  BY <1>5, <1>6, Zenon

LEMMA PlainUpsKept ==
  ASSUME TypeOK, SI, SignalInv, SignalNotLost
  PROVE  /\ IdleUp => Kept
         /\ (\E d \in Dev : DeviceInterrupt(d)) => Kept
<1>0. current \in Thread /\ pc \in [Thread -> Place]
  BY Zenon DEF TypeOK
<1>1. ASSUME IdleUp PROVE Kept
  <2>1. pc[current] = "idle_up" /\ pc'[current] = "idle"
    BY <1>0, <1>1 DEF IdleUp, At, goto, after_up
  <2>2. pc[current] \notin Busy /\ pc'[current] \notin Busy
    BY <2>1, Zenon DEF Busy
  <2>3. UpFrame
    BY <1>0, <1>1, <2>1, Zenon DEF UpFrame, IdleUp, goto
  <2>4. idle_started \in Sema \ StackSema /\ sema_up(idle_started) /\ UNCHANGED cond_waiters
    BY <1>1, SemaFacts, Zenon DEF IdleUp
  <2>5. (\A r \in Sema : SemaStep(r)) /\ SignalSame
    BY <2>2, <2>3, <2>4, UpWakes, UpSignals, Zenon
  <2>6. QED
    BY <2>5, SameKept, Zenon
<1>2. ASSUME NEW d \in Dev, DeviceInterrupt(d) PROVE Kept
  <2>1. /\ \A t \in Thread : t # current => pc'[t] = pc[t]
        /\ pc'[current] = pc[current] \/ (pc[current] \notin Busy /\ pc'[current] \notin Busy)
    <3>1. CASE pc[current] = "hlt"
      BY <1>0, <1>2, <3>1, Zenon DEF DeviceInterrupt, WakeHlt, Busy
    <3>2. CASE pc[current] # "hlt"
      BY <1>2, <3>2, Zenon DEF DeviceInterrupt, WakeHlt
    <3>3. QED
      BY <3>1, <3>2, Zenon
  <2>2. UpFrame
    BY <1>2, <2>1, Zenon DEF UpFrame, DeviceInterrupt, Busy
  <2>3. dev_sema(d) \in Sema \ StackSema /\ sema_up(dev_sema(d)) /\ UNCHANGED cond_waiters
    BY <1>2, SemaFacts, Zenon DEF DeviceInterrupt
  <2>4. (\A r \in Sema : SemaStep(r)) /\ SignalSame
    BY <2>1, <2>2, <2>3, UpWakes, UpSignals, Zenon
  <2>5. QED
    BY <2>4, SameKept, Zenon
<1>3. QED
  BY <1>1, <1>2, Zenon

LEMMA TryDownsKept ==
  ASSUME TypeOK, SignalInv, SignalNotLost
  PROVE  /\ (\E s \in Waited : SemaTryDown(s)) => Kept
         /\ (\E l \in Lock : LockTryAcquire(l)) => Kept
<1>0. current \in Thread /\ pc \in [Thread -> Place]
  BY Zenon DEF TypeOK
<1>1. ASSUME NEW s \in Waited, SemaTryDown(s) PROVE Kept
  <2>1. pc[current] \notin Busy /\ pc' = pc /\ s \in Sema \ StackSema
    BY <1>1, SemaFacts, Zenon DEF SemaTryDown, At, Busy
  <2>2. (\A r \in Sema : SemaStep(r)) /\ SignalSame
    BY <1>1, <2>1, TryDownStep, Zenon DEF SemaTryDown, schedUnchanged
  <2>3. QED
    BY <2>2, SameKept, Zenon
<1>2. ASSUME NEW l \in Lock, LockTryAcquire(l) PROVE Kept
  <2>1. /\ pc[current] \notin Busy /\ pc'[current] \notin Busy
        /\ \A t \in Thread : t # current => pc'[t] = pc[t]
    BY <1>0, <1>2, Zenon DEF LockTryAcquire, At, goto, Busy
  <2>2. lock_sema(l) \in Sema \ StackSema
    BY SemaFacts, Zenon
  <2>3. (\A r \in Sema : SemaStep(r)) /\ SignalSame
    BY <1>2, <2>1, <2>2, TryDownStep, Zenon DEF LockTryAcquire, schedUnchanged
  <2>4. QED
    BY <2>3, SameKept, Zenon
<1>3. QED
  BY <1>1, <1>2, Zenon

LEMMA ConditionsKept ==
  ASSUME TypeOK, SI, ArgInv, SignalInv, SignalNotLost
  PROVE  /\ (\E c \in Cond : CondWait(c)) => Kept
         /\ (\E c \in Cond : CondSignal(c)) => Kept
         /\ CondBroadcastLoop => Kept
<1>0. current \in Thread /\ pc \in [Thread -> Place]
  BY Zenon DEF TypeOK
<1>1. ASSUME NEW c \in Cond, CondWait(c) PROVE Kept
  BY <1>1, CondWaitWakes, CondWaitSignals, Zenon DEF Kept
<1>2. ASSUME NEW c \in Cond, CondSignal(c) PROVE Kept
  <2>1. /\ cond_signal(c, "signal_up") /\ UNCHANGED <<value, waiters, cv>>
        /\ pc[current] \in {"run", "bcast"}
    BY <1>2, Zenon DEF CondSignal, At
  <2>2. QED
    BY <2>1, PopSignals, Zenon DEF Kept
<1>3. ASSUME CondBroadcastLoop PROVE Kept
  <2>1. /\ pc[current] = "bcast" /\ UNCHANGED <<value, waiters, cv>>
        /\ \/ cond_signal(cv[current], "bcast_up")
           \/ /\ goto(current, "run") /\ schedUnchanged
              /\ UNCHANGED <<cond_waiters, on>>
    BY <1>3, Zenon DEF CondBroadcastLoop, At
  <2>2. cv[current] \in Cond
    BY <1>0, <2>1, Zenon DEF ArgInv
  <2>3. CASE cond_signal(cv[current], "bcast_up")
    <3>1. PICK c \in Cond : c = cv[current]
      BY <2>2, Zenon
    <3>2. QED
      BY <2>1, <2>3, <3>1, PopSignals, Zenon DEF Kept
  <2>4. CASE goto(current, "run") /\ schedUnchanged /\ UNCHANGED <<cond_waiters, on>>
    <3>1. /\ pc[current] \notin Busy /\ pc'[current] \notin Busy
          /\ \A t \in Thread : t # current => pc'[t] = pc[t]
      BY <1>0, <2>1, <2>4, Zenon DEF goto, Busy
    <3>2. QED
      BY <2>1, <2>4, <3>1, PrivateKept, Zenon DEF schedUnchanged
  <2>5. QED
    BY <2>1, <2>3, <2>4, Zenon
<1>4. QED
  BY <1>1, <1>2, <1>3, Zenon

LEMMA ExitKept ==
  ASSUME TypeOK, TypeOK', SI, SignalInv, SignalNotLost, ThreadExit
  PROVE  Kept
BY ExitWakes, SameKept, Zenon

LEMMA NextKept ==
  ASSUME TypeOK, TypeOK', SI, CreateInv, ArgInv, SignalInv, SignalNotLost, Next
  PROVE  Kept
<1>1. CASE Tick
  BY <1>1, TickKept, Zenon
<1>2. CASE Resume
  BY <1>2, PlainStepsKept, DownLoopKept, Zenon DEF Resume
<1>3. CASE IdleStep
  BY <1>3, PlainStepsKept, IdleBlockKept, PlainUpsKept, Zenon DEF IdleStep
<1>4. CASE Inside
  BY <1>4, DownsKept, PlainStepsKept, UpKept, WaitReleaseKept, WaitDownKept,
     ConditionsKept, UnblockKept, Zenon DEF Inside
<1>5. CASE Call
  BY <1>5, DownsKept, TryDownsKept, PlainStepsKept, ConditionsKept,
     ThreadCreateKept, ExitKept, YieldKept, Zenon DEF Call
<1>6. CASE \E d \in Dev : DeviceInterrupt(d)
  BY <1>6, PlainUpsKept, Zenon
<1>7. QED
  BY <1>1, <1>2, <1>3, <1>4, <1>5, <1>6, Zenon DEF Next

LEMMA StutterKept ==
  ASSUME TypeOK, SI, SignalInv, SignalNotLost, UNCHANGED vars
  PROVE  Kept
BY PrivateKept, Zenon DEF vars, schedVars, synchVars

=============================================================================
