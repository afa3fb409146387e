--------------------------------- MODULE MCLive ---------------------------------
(***************************************************************************)
(* What must happen in the end, component by component: exec and wait      *)
(* (Process), page faults (Vm, in two settings), printing (Console), disk  *)
(* requests (Ide), interrupts (Interrupts), sleeping (Timer) and loading   *)
(* (Loader).  The components share no variable.  A behaviour is one of     *)
(* them; the variables of the others stay at 0, and those of Vm at their   *)
(* first values.  Vm has a process that is alone on two frames, ends at    *)
(* any time and may find the kernel pool empty.                            *)
(***************************************************************************)
EXTENDS Integers, Vm

CONSTANTS main, page_a, page_b, p, ps, pb, pm, t1, t2, s1, v1, NONE

VARIABLES
  part,
  life_pc, tid, next_tid, sibling, load_sema, exit_sema, success, load_process, exit_status, child, file_lock,
  killed, delivered,
  mode, q, ier, thre, dr, console_lock, console_lock_depth, filesys_lock, con_pc, op, left,
  put, sent, typed, got, last, con_failed, con_halted,
  error, ready, sig, big, is_ata, boot, lock, expecting_interrupt, completion_wait,
  device, lba, status, intrq, data, media, ide_pc, call,
  intr, in_external_intr, yield_on_return, frames, current, old_level, cr2, raised, master, slave, failed,
  lo, hi, speed, loops_per_tick, high_bit, test_bit, intr_owner, timer_pc, request, start, now, low, called,
  phdrs, length, words, i, segment, vm, esp, mem, address, load_pc

lifeVars == <<life_pc, tid, next_tid, sibling, load_sema, exit_sema, success, load_process, exit_status, child,
              file_lock, killed, delivered>>
conVars == <<mode, q, ier, thre, dr, console_lock, console_lock_depth, filesys_lock, con_pc, op, left,
             put, sent, typed, got, last, con_failed, con_halted>>
ideVars == <<error, ready, sig, big, is_ata, boot, lock, expecting_interrupt, completion_wait,
             device, lba, status, intrq, data, media, ide_pc, call>>
intVars == <<intr, in_external_intr, yield_on_return, frames, current, old_level, cr2, raised, master, slave, failed>>
timVars == <<lo, hi, speed, loops_per_tick, high_bit, test_bit, intr_owner, timer_pc, request, start, now, low, called>>
ldVars == <<phdrs, length, words, i, segment, vm, esp, mem, address, load_pc>>
allVars == <<part, lifeVars, vars, conVars, ideVars, intVars, timVars, ldVars>>

-----------------------------------------------------------------------------
OwnerOf == [v \in VPage |-> p]
KindOf == [v \in VPage |-> IF v = ps THEN "anon" ELSE IF v = pm THEN "file" ELSE "bin"]

(* The initial thread and room for two processes, three of which are       *)
(* created in all: a parent and its child, and the next process on a freed *)
(* page.                                                                   *)
Life == INSTANCE Process WITH
  Page <- {main, page_a, page_b}, Main <- main, ExitCode <- {5}, MaxTid <- 5,
  pc <- life_pc, filesys_lock <- file_lock

(* It lives on, calls read and write, and there is no swap space. *)
Calling == INSTANCE Vm WITH Slots <- 0, Callers <- {p}, Exiting <- {}

(* Threads print, and wait for keys that nobody types. *)
Printing == INSTANCE Console WITH
  Thread <- {t1, t2}, Op <- {"printf", "read"}, INTQ_BUFSIZE <- 2, Length <- 2, MaxPut <- 3, MaxTyped <- 0,
  pc <- con_pc, failed <- con_failed, halted <- con_halted

Channel == INSTANCE Ide WITH
  Thread <- {t1, t2}, Sector <- {s1}, Value <- {v1}, Errors <- {"ok"}, Ready <- {TRUE}, Sigs <- {"ata"},
  Bigs <- {FALSE}, pc <- ide_pc

Processor == INSTANCE Interrupts WITH Thread <- {t1, t2}, Irq <- {0, 14}, Addr <- {}

SleepRequests == {<<10, 1000>>, <<9, 1000>>}
Sleeping == INSTANCE Timer WITH
  Thread <- {t1, t2}, Half <- 3, MaxTicks <- 3, Speeds <- {1500}, First <- 1024, Bits <- 9, TIMER_FREQ <- 100,
  Requests <- SleepRequests, pc <- timer_pc

(* Segments around the sizes at which a page, or the address space, ends. *)
Phdr(o, v, n, m) == [type |-> "load", offset |-> o, vaddr |-> v, filesz |-> n, memsz |-> m, writable |-> FALSE]
Programs == {<<Phdr(5, v, n, m)>> : v \in {37, 63, 165}, n \in {0, 1, 27}, m \in {1, 27, 64, 155}}
Lines == {<<<<65>>>>, <<<<65, 66, 67>>, <<68>>>>}
Load == INSTANCE Loader WITH
  PGSIZE <- 32, PHYS_BASE <- 192, Word <- 256, Lengths <- {36, 100}, Images <- Programs, CommandLines <- Lines,
  pc <- load_pc

ASSUME Life!ProcessAssumption /\ VmAssumption /\ Calling!VmAssumption

-----------------------------------------------------------------------------
LifeOff ==
  /\ life_pc = 0 /\ tid = 0 /\ next_tid = 0 /\ sibling = 0 /\ load_sema = 0 /\ exit_sema = 0 /\ success = 0
  /\ load_process = 0 /\ exit_status = 0 /\ child = 0 /\ file_lock = 0 /\ killed = 0 /\ delivered = 0
ConOff ==
  /\ mode = 0 /\ q = 0 /\ ier = 0 /\ thre = 0 /\ dr = 0 /\ console_lock = 0 /\ console_lock_depth = 0
  /\ filesys_lock = 0 /\ con_pc = 0 /\ op = 0 /\ left = 0 /\ put = 0 /\ sent = 0 /\ typed = 0
  /\ got = 0 /\ last = 0 /\ con_failed = 0 /\ con_halted = 0
IdeOff ==
  /\ error = 0 /\ ready = 0 /\ sig = 0 /\ big = 0 /\ is_ata = 0 /\ boot = 0 /\ lock = 0
  /\ expecting_interrupt = 0 /\ completion_wait = 0 /\ device = 0 /\ lba = 0 /\ status = 0
  /\ intrq = 0 /\ data = 0 /\ media = 0 /\ ide_pc = 0 /\ call = 0
IntOff ==
  /\ intr = 0 /\ in_external_intr = 0 /\ yield_on_return = 0 /\ frames = 0 /\ current = 0 /\ old_level = 0
  /\ cr2 = 0 /\ raised = 0 /\ master = 0 /\ slave = 0 /\ failed = 0
TimOff ==
  /\ lo = 0 /\ hi = 0 /\ speed = 0 /\ loops_per_tick = 0 /\ high_bit = 0 /\ test_bit = 0 /\ intr_owner = 0
  /\ timer_pc = 0 /\ request = 0 /\ start = 0 /\ now = 0 /\ low = 0 /\ called = 0
LdOff ==
  /\ phdrs = 0 /\ length = 0 /\ words = 0 /\ i = 0 /\ segment = 0 /\ vm = 0 /\ esp = 0
  /\ mem = 0 /\ address = 0 /\ load_pc = 0

MCInit ==
  \/ part = "life" /\ Init /\ Life!Init /\ ConOff /\ IdeOff /\ IntOff /\ TimOff /\ LdOff
  \/ part = "vm" /\ Init /\ LifeOff /\ ConOff /\ IdeOff /\ IntOff /\ TimOff /\ LdOff
  \/ part = "calls" /\ Calling!Init /\ LifeOff /\ ConOff /\ IdeOff /\ IntOff /\ TimOff /\ LdOff
  \/ part = "console" /\ Init /\ Printing!Init /\ LifeOff /\ IdeOff /\ IntOff /\ TimOff /\ LdOff
  \/ part = "ide" /\ Init /\ Channel!Init /\ LifeOff /\ ConOff /\ IntOff /\ TimOff /\ LdOff
  \/ part = "interrupts" /\ Init /\ Processor!Init /\ LifeOff /\ ConOff /\ IdeOff /\ TimOff /\ LdOff
  \/ part = "timer" /\ Init /\ Sleeping!Init /\ LifeOff /\ ConOff /\ IdeOff /\ IntOff /\ LdOff
  \/ part = "load" /\ Init /\ Load!Init /\ LifeOff /\ ConOff /\ IdeOff /\ IntOff /\ TimOff

(* A step of one component. *)
InLife(A) == part = "life" /\ A /\ UNCHANGED <<part, vars, conVars, ideVars, intVars, timVars, ldVars>>
InVm(A) == part = "vm" /\ A /\ UNCHANGED <<part, lifeVars, conVars, ideVars, intVars, timVars, ldVars>>
InCalls(A) == part = "calls" /\ A /\ UNCHANGED <<part, lifeVars, conVars, ideVars, intVars, timVars, ldVars>>
InConsole(A) == part = "console" /\ A /\ UNCHANGED <<part, lifeVars, vars, ideVars, intVars, timVars, ldVars>>
InIde(A) == part = "ide" /\ A /\ UNCHANGED <<part, lifeVars, vars, conVars, intVars, timVars, ldVars>>
InInterrupts(A) == part = "interrupts" /\ A /\ UNCHANGED <<part, lifeVars, vars, conVars, ideVars, timVars, ldVars>>
InTimer(A) == part = "timer" /\ A /\ UNCHANGED <<part, lifeVars, vars, conVars, ideVars, intVars, ldVars>>
InLoader(A) == part = "load" /\ A /\ UNCHANGED <<part, lifeVars, vars, conVars, ideVars, intVars, timVars>>

MCNext ==
  \/ InLife(Life!Next)
  \/ InVm(Next)
  \/ InCalls(Calling!Next)
  \/ InConsole(Printing!Next)
  \/ InIde(Channel!Next)
  \/ InInterrupts(Processor!Next)
  \/ InTimer(Sleeping!Next)
  \/ InLoader(Load!Next)

(* The fairness of the components, as their FairSpec has it.  As part      *)
(* never changes, conditions of several components are joined in one.      *)
PageOf(t) == IF t = t1 THEN page_a ELSE page_b
Fairness ==
  /\ WF_allVars(\/ InVm(GoesOn(p))
                \/ InCalls(Calling!GoesOn(p))
                \/ InLoader(Load!Next)
                \/ InLife(Life!Inside(main)))
  /\ \A t \in {t1, t2} :
       /\ WF_allVars(\/ InConsole(~con_halted /\ Printing!Step(t))
                     \/ InIde(Channel!Step(t))
                     \/ InLife(Life!Inside(PageOf(t))))
       /\ SF_allVars(\/ InConsole(~con_halted /\ Printing!acquire_console(t))
                     \/ InIde(Channel!Acquire(t))
                     \/ InInterrupts(Processor!Deliver(IF t = t1 THEN 0 ELSE 14))
                     \/ InTimer(Sleeping!Step(t))
                     \/ InLife(Life!Acquire(PageOf(t))))
  /\ WF_allVars(\/ InConsole(~con_halted /\ Printing!Ready)
                \/ InIde(Channel!interrupt_handler)
                \/ InInterrupts(Processor!Kernel))
  /\ WF_allVars(InConsole(~con_halted /\ Printing!serial_interrupt) \/ InIde(Channel!DiskStep))
  /\ SF_allVars(InTimer(Sleeping!timer_interrupt) \/ InLife(Life!Acquire(main)))

MCSpec == MCInit /\ [][MCNext]_allVars /\ Fairness

-----------------------------------------------------------------------------
(* Threads are alike, and so are the pages of processes: the properties    *)
(* speak of one of them.                                                   *)

(* A child that has exited does not keep its parent waiting, exec returns  *)
(* unless a thread has left with filesys_lock (Process), and loading comes *)
(* to an end, whatever the headers say (Loader).                           *)
ProgramsReturn ==
  /\ (part = "life" /\ Life!WaitsForDead(page_a)) ~> (part = "life" /\ Life!WaitOver(page_a))
  /\ (part = "life" /\ life_pc[page_a] = "exec_down") ~> (part = "life" /\ Life!ExecOver(page_a))
  /\ (part = "load") ~> (part = "load" /\ Load!Loaded)

(* A page fault of a process that is alone is served, or the machine stops *)
(* (Vm).                                                                   *)
FaultsServed == (part \in {"vm", "calls"} /\ Faulted(p)) ~> (part \in {"vm", "calls"} /\ Served(p))

(* A printf ends, although nobody types and a reader holds filesys_lock    *)
(* (Console).  Every call of ide_read and ide_write ends (Ide).  An        *)
(* interrupt that is raised is delivered, also one of the slave while the  *)
(* timer interrupts (Interrupts).  Every sleep and delay ends, if the      *)
(* bound on the counter leaves room for it (Timer).                        *)
DevicesServe ==
  /\ (part = "console" /\ Printing!Prints(t1)) ~> (part = "console" /\ Printing!Printed(t1))
  /\ (part = "ide" /\ ide_pc[t1] # "idle") ~> (part = "ide" /\ ide_pc[t1] = "idle")
  /\ (part = "interrupts" /\ 14 \in raised) ~> (part = "interrupts" /\ 14 \notin raised)
  /\ (part = "timer" /\ Sleeping!Sleeps(t1)) ~> (part = "timer" /\ Sleeping!Awake(t1))
=============================================================================
