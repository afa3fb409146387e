------------------------------ MODULE Scheduler ------------------------------
(***************************************************************************)
(* threads/thread.c: the round-robin scheduler of the single CPU.          *)
(*                                                                         *)
(* The CPU executes on the stack of the thread `current'.  A section that  *)
(* runs with interrupts off is one step; the CPU is handed over in the     *)
(* middle of such a section (schedule), so after a switch the new thread   *)
(* continues with `intr' = "OFF" until it restores its own level.          *)
(*                                                                         *)
(* pc[t] names the place where thread t is, or will be when it runs again. *)
(* This module holds the scheduler's state and its operations; Synch adds  *)
(* the synchronization primitives and the behaviour of the threads.        *)
(***************************************************************************)
EXTENDS Naturals, Sequences

CONSTANTS
  Thread,       \* pages that can hold a struct thread
  Main,         \* initial_thread, the thread running main() of init.c
  Idle,         \* the thread that executes idle()
  NULL,         \* no thread
  TIME_SLICE    \* timer ticks given to each thread

ASSUME SchedulerAssumption ==
  /\ Main \in Thread /\ Idle \in Thread /\ Main # Idle
  /\ NULL \notin Thread
  /\ TIME_SLICE \in Nat \ {0}

VARIABLES
  status,        \* thread.status; "NONE" before thread_create
  ready_list,    \* the run queue
  idle_thread,   \* NULL until idle() has run
  current,       \* running_thread()
  intr,          \* the interrupt flag of the CPU
  thread_ticks,  \* ticks since the last switch
  pc             \* place of every thread in its code

schedVars == <<status, ready_list, idle_thread, current, intr, thread_ticks, pc>>

Status == {"NONE", "RUNNING", "READY", "BLOCKED", "DYING"}

-----------------------------------------------------------------------------
(* thread_create() for the idle thread is done and interrupts are enabled: *)
(* thread_start() is about to wait for idle() to announce itself.          *)
SchedInit ==
  /\ status = [t \in Thread |-> CASE t = Main -> "RUNNING"
                                  [] t = Idle -> "READY"
                                  [] OTHER -> "NONE"]
  /\ ready_list = <<Idle>>
  /\ idle_thread = NULL
  /\ current = Main
  /\ intr = "ON"
  /\ thread_ticks = 0
  /\ pc = [t \in Thread |-> CASE t = Main -> "boot"
                              [] t = Idle -> "entry"
                              [] OTHER -> "none"]

goto(t, place) == pc' = [pc EXCEPT ![t] = place]

next_thread_to_run(queue) ==
  IF queue = <<>> THEN idle_thread ELSE Head(queue)

(* schedule() and thread_schedule_tail(), entered with statuses st and run *)
(* queue `queue': the next thread runs, with a new time slice, interrupts  *)
(* still off.  With no thread to run `current' becomes NULL, which is the  *)
(* failure of ASSERT (is_thread (next)).                                   *)
schedule(st, queue) ==
  LET next == next_thread_to_run(queue) IN
  /\ current' = next
  /\ ready_list' = IF queue = <<>> THEN queue ELSE Tail(queue)
  /\ status' = [st EXCEPT ![next] = "RUNNING"]
  /\ thread_ticks' = 0
  /\ intr' = "OFF"
  /\ UNCHANGED idle_thread

thread_block == schedule([status EXCEPT ![current] = "BLOCKED"], ready_list)

(* Faulty variant: the yielding thread goes to the front of the queue. *)
thread_yield_front ==
  schedule([status EXCEPT ![current] = "READY"],
           IF current = idle_thread THEN ready_list
                                    ELSE <<current>> \o ready_list)

(* The idle thread becomes READY without entering the run queue. *)
thread_yield ==
  schedule([status EXCEPT ![current] = "READY"],
           IF current = idle_thread THEN ready_list
                                    ELSE Append(ready_list, current))

(* Faulty variant: the thread becomes READY but is not queued. *)
thread_unblock_unqueued(t) ==
  /\ status' = [status EXCEPT ![t] = "READY"]
  /\ UNCHANGED <<ready_list, idle_thread, current, intr, thread_ticks>>

thread_unblock(t) ==
  /\ ready_list' = Append(ready_list, t)
  /\ status' = [status EXCEPT ![t] = "READY"]
  /\ UNCHANGED <<idle_thread, current, intr, thread_ticks>>

schedUnchanged ==
  UNCHANGED <<status, ready_list, idle_thread, current, intr, thread_ticks>>

-----------------------------------------------------------------------------
(* Places where a switched-to thread finds interrupts off and has more to  *)
(* do before it restores them; everywhere else it is at the end of         *)
(* thread_yield, whose last statement restores them.                       *)
ResumePlace == {"entry", "down", "idle_off"}

(* intr_set_level (old_level) at the end of thread_yield. *)
YieldReturn ==
  /\ intr = "OFF" /\ pc[current] \notin ResumePlace
  /\ intr' = "ON"
  /\ UNCHANGED <<status, ready_list, idle_thread, current, thread_ticks, pc>>

(* switch_entry and kernel_thread: a new thread enables interrupts and     *)
(* starts its function.                                                    *)
KernelThread ==
  /\ intr = "OFF" /\ pc[current] = "entry"
  /\ intr' = "ON"
  /\ goto(current, IF current = Idle THEN "idle_set" ELSE "run")
  /\ UNCHANGED <<status, ready_list, idle_thread, current, thread_ticks>>

(* A halted CPU continues after the hlt once an interrupt was handled. *)
WakeHlt ==
  pc' = IF pc[current] = "hlt" THEN [pc EXCEPT ![current] = "idle"] ELSE pc

(* The timer interrupt: thread_tick(), and the yield on return from the    *)
(* handler when the time slice is used up.                                 *)
ThreadTick ==
  /\ intr = "ON"
  /\ WakeHlt
  /\ IF thread_ticks + 1 >= TIME_SLICE
       THEN thread_yield
       ELSE /\ thread_ticks' = thread_ticks + 1
            /\ UNCHANGED <<status, ready_list, idle_thread, current, intr>>

(* Faulty variant: idle() does not record itself. *)
IdleSet_forgotten ==
  /\ intr = "ON" /\ pc[current] = "idle_set"
  /\ goto(current, "idle_up")
  /\ UNCHANGED <<status, ready_list, idle_thread, current, intr, thread_ticks>>

(* idle() records itself. *)
IdleSet ==
  /\ intr = "ON" /\ pc[current] = "idle_set"
  /\ idle_thread' = current
  /\ goto(current, "idle_up")
  /\ UNCHANGED <<status, ready_list, current, intr, thread_ticks>>

(* The idle loop: block, and when scheduled again sti; hlt. *)
IdleBlock ==
  /\ intr = "ON" /\ pc[current] = "idle"
  /\ goto(current, "idle_off")
  /\ thread_block

IdleHalt ==
  /\ intr = "OFF" /\ pc[current] = "idle_off"
  /\ intr' = "ON"
  /\ goto(current, "hlt")
  /\ UNCHANGED <<status, ready_list, idle_thread, current, thread_ticks>>

=============================================================================
