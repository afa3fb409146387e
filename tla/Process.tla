------------------------------- MODULE Process -------------------------------
(***************************************************************************)
(* userprog/process.c with the exec, wait and exit system calls: the life  *)
(* of a process from thread_create to the palloc_free_page of its parent.  *)
(*                                                                         *)
(* A process is the page that holds its struct thread and kernel stack.    *)
(* Threads interleave at every point where one reads or writes state that  *)
(* another one also uses: the two semaphores of a child, load_process, and *)
(* filesys_lock.  Semaphores and locks are the abstract ones that Synch    *)
(* implements.  tids are unique (Synch), so a list of children is a set.   *)
(***************************************************************************)
EXTENDS Integers, FiniteSets

CONSTANTS
  Page,       \* pages that can hold a struct thread
  Main,       \* initial_thread, which runs the actions of the command line
  NULL,       \* no page
  ExitCode,   \* statuses that user programs pass to exit()
  MaxTid      \* bound: allocate_tid is not called beyond this

(* What the instances satisfy. *)
ProcessAssumption ==
  /\ Main \in Page /\ NULL \notin Page
  /\ ExitCode \subseteq Int
  /\ MaxTid \in Nat

VARIABLES
  pc,              \* place of each thread; "none": the page is free
  tid,             \* thread.tid
  next_tid,        \* the counter of allocate_tid()
  sibling,         \* thread.sibling, the children
  load_sema,       \* value of load_semaphore
  exit_sema,       \* value of exit_semaphore
  success,         \* the local variable of start_process
  load_process,    \* thread.load_process
  exit_status,     \* thread.exit_status
  child,           \* the local variable `child' of exec and process_wait
  filesys_lock,    \* its owner, or NULL
  killed,          \* history: the thread was ended by an exception
  delivered        \* history: tids whose status process_wait has returned

family == <<tid, next_tid, sibling>>
semas == <<load_sema, exit_sema>>
loading == <<success, load_process>>
history == <<killed, delivered>>
vars == <<pc, family, semas, loading, exit_status, child, filesys_lock, history>>

Init ==
  /\ pc = [p \in Page |-> IF p = Main THEN "run" ELSE "none"]
  /\ tid = [p \in Page |-> IF p = Main THEN 1 ELSE 0]
  /\ next_tid = 3                     \* 2 is the idle thread's
  /\ sibling = [p \in Page |-> {}]
  /\ load_sema = [p \in Page |-> 0]
  /\ exit_sema = [p \in Page |-> 0]
  /\ success = [p \in Page |-> FALSE]
  /\ load_process = [p \in Page |-> FALSE]
  /\ exit_status = [p \in Page |-> 0]
  /\ child = [p \in Page |-> NULL]
  /\ filesys_lock = NULL
  /\ killed = [p \in Page |-> FALSE]
  /\ delivered = {}

TID_ERROR == -1

goto(p, place) == pc' = [pc EXCEPT ![p] = place]

-----------------------------------------------------------------------------

(* process_execute: a page is found, thread_create initializes it as a     *)
(* child of p and makes it ready.  p continues at `place'.                 *)
process_execute(p, c, place) ==
  /\ pc[c] = "none" /\ next_tid <= MaxTid
  /\ pc' = [pc EXCEPT ![c] = "start", ![p] = place]
  /\ tid' = [tid EXCEPT ![c] = next_tid]
  /\ next_tid' = next_tid + 1
  /\ sibling' = [sibling EXCEPT ![p] = @ \cup {c}, ![c] = {}]
  /\ load_sema' = [load_sema EXCEPT ![c] = 0]
  /\ exit_sema' = [exit_sema EXCEPT ![c] = 0]
  /\ load_process' = [load_process EXCEPT ![c] = FALSE]
  /\ exit_status' = [exit_status EXCEPT ![c] = 0]
  /\ success' = [success EXCEPT ![c] = FALSE]
  /\ killed' = [killed EXCEPT ![c] = FALSE]
  /\ child' = [child EXCEPT ![p] = c]
  /\ UNCHANGED <<filesys_lock, delivered>>

(* exit (status) and the exceptions that kill() a process: on the way to   *)
(* thread_exit.                                                            *)
exit(p, status) ==
  /\ exit_status' = [exit_status EXCEPT ![p] = status]
  /\ goto(p, "exiting")

-----------------------------------------------------------------------------
(* start_process of a new thread.  load() fails at once when there is no   *)
(* page for the page directory.                                            *)
LoadPagedir(p) ==
  /\ pc[p] = "start"
  /\ \/ goto(p, "load_lock") /\ UNCHANGED success
     \/ goto(p, "load_up") /\ success' = [success EXCEPT ![p] = FALSE]
  /\ UNCHANGED <<family, semas, load_process, exit_status, child, filesys_lock, history>>

LoadAcquire(p) ==
  /\ pc[p] = "load_lock" /\ filesys_lock = NULL
  /\ filesys_lock' = p
  /\ goto(p, "load_open")
  /\ UNCHANGED <<family, semas, loading, exit_status, child, history>>

(* The command line has no word, and dir_lookup's assertion on the name    *)
(* panics; the file does not open; its header is not that of an            *)
(* executable, and load goes to `done' without releasing filesys_lock; or  *)
(* it is one.                                                              *)
LoadOpen(p) ==
  /\ pc[p] = "load_open"
  /\ \/ UNCHANGED filesys_lock /\ goto(p, "panic")
     \/ filesys_lock' = NULL /\ goto(p, "load_up")
     \/ UNCHANGED filesys_lock /\ goto(p, "load_up")
     \/ filesys_lock' = NULL /\ goto(p, "load_segments")
  /\ UNCHANGED <<family, semas, loading, exit_status, child, history>>

(* The program headers and the stack. *)
LoadSegments(p) ==
  /\ pc[p] = "load_segments"
  /\ \E ok \in BOOLEAN : success' = [success EXCEPT ![p] = ok]
  /\ goto(p, "load_up")
  /\ UNCHANGED <<family, semas, load_process, exit_status, child, filesys_lock, history>>

(* sema_up (load_semaphore), and only then load_process = success. *)
StartUp(p) ==
  /\ pc[p] = "load_up"
  /\ load_sema' = [load_sema EXCEPT ![p] = @ + 1]
  /\ goto(p, "load_set")
  /\ UNCHANGED <<family, exit_sema, loading, exit_status, child, filesys_lock, history>>

StartSet(p) ==
  /\ pc[p] = "load_set"
  /\ load_process' = [load_process EXCEPT ![p] = success[p]]
  /\ goto(p, IF success[p] THEN "user" ELSE "exiting")
  /\ UNCHANGED <<family, semas, success, exit_status, child, filesys_lock, history>>

-----------------------------------------------------------------------------
(* exec: process_execute, then wait for the child's load.  Without memory  *)
(* for the child process_execute returns TID_ERROR, get_child_process      *)
(* returns NULL, and its use ends the caller with exit (-1).               *)
Exec(p) ==
  /\ pc[p] = "user"
  /\ \/ \E c \in Page : process_execute(p, c, "exec_down")
     \/ /\ exit(p, -1)
        /\ UNCHANGED <<family, semas, loading, child, filesys_lock, history>>

ExecDown(p) ==
  /\ pc[p] = "exec_down" /\ load_sema[child[p]] > 0
  /\ load_sema' = [load_sema EXCEPT ![child[p]] = @ - 1]
  /\ goto(p, "exec_read")
  /\ UNCHANGED <<family, exit_sema, loading, exit_status, child, filesys_lock, history>>

(* if (child->load_process) return pid; else return -1. *)
ExecReturn(p) ==
  /\ pc[p] = "exec_read"
  /\ goto(p, "user")
  /\ UNCHANGED <<family, semas, loading, exit_status, child, filesys_lock, history>>

get_child_process(p, t) == {c \in sibling[p] : tid[c] = t}

(* wait (t): -1 at once if t is not the tid of a child. *)
Wait(p, t) ==
  /\ pc[p] = "user"
  /\ \/ get_child_process(p, t) = {} /\ UNCHANGED vars
     \/ \E c \in get_child_process(p, t) :
          /\ child' = [child EXCEPT ![p] = c]
          /\ goto(p, "wait_down")
          /\ UNCHANGED <<family, semas, loading, exit_status, filesys_lock, history>>

(* Faulty variant: process_wait does not wait for the child's exit. *)
WaitDown_nowait(p) ==
  /\ pc[p] = "wait_down"
  /\ goto(p, "wait_read")
  /\ UNCHANGED <<family, semas, loading, exit_status, child, filesys_lock, history>>

WaitDown(p) ==
  /\ pc[p] = "wait_down" /\ exit_sema[child[p]] > 0
  /\ exit_sema' = [exit_sema EXCEPT ![child[p]] = @ - 1]
  /\ goto(p, "wait_read")
  /\ UNCHANGED <<family, load_sema, loading, exit_status, child, filesys_lock, history>>

(* Faulty variant: the child's page is freed but stays a child. *)
WaitReturn_unlinked(p) ==
  LET c == child[p] IN
  /\ pc[p] = "wait_read"
  /\ delivered' = delivered \cup {tid[c]}
  /\ pc' = [pc EXCEPT ![c] = "none", ![p] = IF p = Main THEN "run" ELSE "user"]
  /\ UNCHANGED <<family, semas, loading, exit_status, child, filesys_lock, killed>>

(* Read the status, then remove_child_process: unlink and free the page. *)
WaitReturn(p) ==
  LET c == child[p] IN
  /\ pc[p] = "wait_read"
  /\ delivered' = delivered \cup {tid[c]}
  /\ sibling' = [sibling EXCEPT ![p] = @ \ {c}]
  /\ pc' = [pc EXCEPT ![c] = "none", ![p] = IF p = Main THEN "run" ELSE "user"]
  /\ UNCHANGED <<tid, next_tid, semas, loading, exit_status, child, filesys_lock, killed>>

(* The initial thread runs a task: process_wait (process_execute (task)).  *)
(* Without memory for the process that is process_wait (TID_ERROR).        *)
RunTask ==
  /\ pc[Main] = "run"
  /\ \/ \E c \in Page : process_execute(Main, c, "wait_down")
     \/ get_child_process(Main, TID_ERROR) = {} /\ UNCHANGED vars

-----------------------------------------------------------------------------
(* exit (status), or a system call number that is none: thread_exit. *)
Exit(p) ==
  /\ pc[p] = "user"
  /\ \/ \E status \in ExitCode : exit(p, status)
     \/ goto(p, "exiting") /\ UNCHANGED exit_status
  /\ UNCHANGED <<family, semas, loading, child, filesys_lock, history>>

(* An exception other than a page fault: kill() calls thread_exit. *)
Kill(p) ==
  /\ pc[p] = "user"
  /\ killed' = [killed EXCEPT ![p] = TRUE]
  /\ goto(p, "exiting")
  /\ UNCHANGED <<family, semas, loading, exit_status, child, filesys_lock, delivered>>

(* A page fault of the user program that cannot be served: exit (-1). *)
BadFault(p) ==
  /\ pc[p] = "user"
  /\ exit(p, -1)
  /\ UNCHANGED <<family, semas, loading, child, filesys_lock, history>>

(* create, read and write hold filesys_lock during the operation.  read    *)
(* and write touch the file of a descriptor that may not be open, and the  *)
(* user's buffer, under the lock: a fault there ends in exit (-1).         *)
FileCall(p) ==
  /\ pc[p] = "user"
  /\ goto(p, "file_lock")
  /\ UNCHANGED <<family, semas, loading, exit_status, child, filesys_lock, history>>

FileAcquire(p) ==
  /\ pc[p] = "file_lock" /\ filesys_lock = NULL
  /\ filesys_lock' = p
  /\ goto(p, "file")
  /\ UNCHANGED <<family, semas, loading, exit_status, child, history>>

FileReturn(p) ==
  /\ pc[p] = "file"
  /\ \/ filesys_lock' = NULL /\ goto(p, "user") /\ UNCHANGED exit_status
     \/ exit(p, -1) /\ UNCHANGED filesys_lock
  /\ UNCHANGED <<family, semas, loading, child, history>>

(* Faulty variant: nobody is told of the exit. *)
ThreadExit_silent(p) ==
  /\ pc[p] = "exiting"
  /\ goto(p, "dead")
  /\ UNCHANGED <<family, semas, loading, exit_status, child, filesys_lock, history>>

(* The end of thread_exit, with interrupts off: up exit_semaphore, become  *)
(* DYING.  thread_schedule_tail does not free the page.                    *)
ThreadExit(p) ==
  /\ pc[p] = "exiting"
  /\ exit_sema' = [exit_sema EXCEPT ![p] = @ + 1]
  /\ goto(p, "dead")
  /\ UNCHANGED <<family, load_sema, loading, exit_status, child, filesys_lock, history>>

-----------------------------------------------------------------------------
(* lock_acquire asserts that the current thread is not the holder.  holder *)
(* is a pointer to a page: it also fails for a thread that was given the   *)
(* page of one that ended with the lock.  The kernel panics.               *)
LockPanic(p) ==
  /\ pc[p] \in {"load_lock", "file_lock"} /\ filesys_lock = p
  /\ goto(p, "panic")
  /\ UNCHANGED <<family, semas, loading, exit_status, child, filesys_lock, history>>

Running == \A p \in Page : pc[p] # "panic"

(* Acquiring filesys_lock, and the other steps of p inside the kernel. *)
Acquire(p) == Running /\ (LoadAcquire(p) \/ FileAcquire(p))

Inside(p) ==
  /\ Running
  /\ \/ LoadPagedir(p) \/ LoadOpen(p) \/ LoadSegments(p) \/ StartUp(p) \/ StartSet(p)
     \/ ExecDown(p) \/ ExecReturn(p) \/ WaitDown(p) \/ WaitReturn(p)
     \/ FileReturn(p) \/ LockPanic(p) \/ ThreadExit(p)

(* What a user program may do. *)
User(p) ==
  /\ Running
  /\ \/ Exec(p) \/ Exit(p) \/ Kill(p) \/ BadFault(p) \/ FileCall(p)
     \/ \E t \in TID_ERROR..MaxTid : Wait(p, t)

Next == (Running /\ RunTask) \/ \E p \in Page : Inside(p) \/ Acquire(p) \/ User(p)

Spec == Init /\ [][Next]_vars

(* Every ready thread runs (ReadyRuns of Synch), and a waiter of           *)
(* filesys_lock is not overtaken for ever.                                 *)
FairSpec ==
  /\ Spec
  /\ \A p \in Page : WF_vars(Inside(p)) /\ SF_vars(Acquire(p))

-----------------------------------------------------------------------------
(* Properties *)

Place == {"none", "run", "start", "load_lock", "load_open", "load_segments", "load_up",
          "load_set", "user", "exec_down", "exec_read", "wait_down", "wait_read", "file_lock",
          "file", "exiting", "dead", "panic"}

(* The types of all variables; the semaphores are 0 or 1. *)
TypeOK ==
  /\ pc \in [Page -> Place]
  /\ tid \in [Page -> Nat] /\ next_tid \in Nat
  /\ sibling \in [Page -> SUBSET Page]
  /\ load_sema \in [Page -> {0, 1}] /\ exit_sema \in [Page -> {0, 1}]
  /\ success \in [Page -> BOOLEAN] /\ load_process \in [Page -> BOOLEAN]
  /\ exit_status \in [Page -> {-1, 0} \cup ExitCode]
  /\ child \in [Page -> Page \cup {NULL}]
  /\ filesys_lock \in Page \cup {NULL}
  /\ killed \in [Page -> BOOLEAN]
  /\ delivered \subseteq Nat

(* A thread that is not dead. *)
Live(p) == pc[p] \notin {"none", "dead"}

(* The pages of struct threads are not used after they are freed: the      *)
(* child that exec or process_wait works on is allocated and is on the     *)
(* caller's list, the children of a live thread are allocated, and no page *)
(* is on the lists of two live threads or on its own, although freed pages *)
(* are given out again.                                                    *)
NoUseAfterFree ==
  /\ \A p \in Page : Live(p) => \A c \in sibling[p] : pc[c] # "none"
  /\ \A p, q \in Page : Live(p) /\ Live(q) /\ sibling[p] \cap sibling[q] # {} => p = q
  /\ \A p \in Page : pc[p] \in {"exec_down", "exec_read", "wait_down", "wait_read"}
                       => child[p] \in sibling[p] \ {p}

(* process_wait returns a status only after the child has exited, so that  *)
(* it is the final one, and never twice for a tid.                         *)
WaitDelivers ==
  \A p \in Page : pc[p] = "wait_read" => /\ pc[child[p]] = "dead"
                                         /\ tid[child[p]] \notin delivered

(* A child that has exited does not keep its parent waiting, unless the    *)
(* kernel panics.                                                          *)
WaitsForDead(p) == pc[p] = "wait_down" /\ pc[child[p]] = "dead"
WaitOver(p) == pc[p] # "wait_down" \/ ~Running
WaitReturns == \A p \in Page : WaitsForDead(p) ~> WaitOver(p)

(* The owner of filesys_lock is past the places where it is released. *)
LockLeaked == filesys_lock # NULL /\ pc[filesys_lock] \notin {"load_open", "file"}

(* exec returns, unless a thread has left with filesys_lock. *)
ExecOver(p) == pc[p] # "exec_down" \/ LockLeaked
ExecReturns == \A p \in Page : pc[p] = "exec_down" ~> ExecOver(p)

-----------------------------------------------------------------------------
(* Parts of the inductive invariant. *)

(* No live thread is its own child. *)
NotOwnChild == \A p \in Page : Live(p) => p \notin sibling[p]

(* load_semaphore is up only after the load, exit_semaphore only at the    *)
(* end.                                                                    *)
SemasExact ==
  \A p \in Page :
    /\ pc[p] \in {"start", "load_lock", "load_open", "load_segments", "load_up"} => load_sema[p] = 0
    /\ pc[p] \notin {"none", "dead"} => exit_sema[p] = 0

(* Every tid was given out once, and that of a page in use was not         *)
(* delivered.                                                              *)
TidsExact ==
  /\ \A p \in Page : tid[p] < next_tid
  /\ \A n \in delivered : n < next_tid
  /\ \A p \in Page : pc[p] # "none" => tid[p] \notin delivered
  /\ \A p, q \in Page : pc[p] # "none" /\ pc[q] # "none" /\ tid[p] = tid[q] => p = q

IInv == TypeOK /\ NoUseAfterFree /\ NotOwnChild /\ WaitDelivers /\ SemasExact /\ TidsExact

-----------------------------------------------------------------------------
(* What the documents say. *)

(* designdoc_pj2, B7: sema_up (load) ensures that load is completed, and   *)
(* load_process tells exec whether it succeeded.                           *)
LoadStatusReady ==
  \A p \in Page : pc[p] = "exec_read" => load_process[child[p]] = success[child[p]]

(* process_wait's comment: the status of a process that was killed due to  *)
(* an exception is -1.                                                     *)
KilledIsMinusOne ==
  \A p \in Page : pc[p] = "wait_read" /\ killed[child[p]] => exit_status[child[p]] = -1

(* designdoc_pj2, B6: a process that ends on an error gives its resources, *)
(* locks included, back.                                                   *)
LocksReturned == filesys_lock # NULL => pc[filesys_lock] # "dead"

(* thread_exit's comment: the next thread destroys a thread that has       *)
(* ended; at least someone who could free its page must be left.           *)
PagesReclaimed ==
  \A c \in Page : pc[c] = "dead" => \E p \in Page : Live(p) /\ c \in sibling[p]

=============================================================================
