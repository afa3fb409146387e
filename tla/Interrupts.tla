------------------------------- MODULE Interrupts -------------------------------
(***************************************************************************)
(* How the processor enters and leaves the kernel: threads/interrupt.c     *)
(* with the gates that intr_register_ext, exception_init and syscall_init  *)
(* install, the two interrupt controllers, the page fault address          *)
(* register, and thread_yield at the end of an interrupt.                  *)
(***************************************************************************)
EXTENDS Naturals, Sequences, FiniteSets

CONSTANTS
  Thread,
  Irq,        \* lines of devices in use, a subset of 0..15; line 0 is the timer
  Addr,       \* addresses that may fault
  NONE

VARIABLES
  intr,             \* the interrupt flag
  in_external_intr, yield_on_return,
  frames,           \* per thread: its interrupts, innermost last
  current, old_level,   \* old_level: of the thread_yield in which a thread waits
  cr2,
  raised,           \* lines raised and not delivered
  master, slave,    \* lines in service; the slave is on line 2 of the master
  failed            \* an assertion has failed

pic == <<raised, master, slave>>
vars == <<intr, in_external_intr, yield_on_return, frames, current, old_level, cr2, pic, failed>>

Init ==
  /\ intr = TRUE /\ in_external_intr = FALSE /\ yield_on_return = FALSE
  /\ frames = [t \in Thread |-> <<>>]
  /\ current \in Thread /\ old_level = [t \in Thread |-> TRUE] /\ cr2 = NONE
  /\ raised = {} /\ master = {} /\ slave = {} /\ failed = FALSE

-----------------------------------------------------------------------------
Depth == Len(frames[current])
Top == frames[current][Depth]
At(pc) == Depth > 0 /\ Top.pc = pc
Goto(pc) == frames' = [frames EXCEPT ![current][Depth].pc = pc]
ASSERT(p) == failed' = (failed \/ ~p)

(* Faulty variant of Gate: a trap gate for page faults. *)
Gate_pf(kind) == IF kind = "ext" THEN FALSE ELSE intr

(* The flag after entering through a gate: interrupt gates, for devices    *)
(* and page faults, clear it; trap gates do not.                           *)
Gate(kind) == IF kind \in {"ext", "pf"} THEN FALSE ELSE intr

Enter(kind, pc, of) ==
  /\ frames' = [frames EXCEPT ![current] = Append(@, [kind |-> kind, pc |-> pc, intr |-> intr, of |-> of, got |-> NONE])]
  /\ intr' = Gate(kind)

(* What the controllers let through (external): a line is held back while  *)
(* one of the same or a higher priority is in service.                     *)
Open(q) ==
  IF q < 8 THEN \A m \in master : m > q
  ELSE (\A m \in master : m > 2) /\ (\A s \in slave : s > q)

Raise(q) ==
  /\ q \notin raised /\ raised' = raised \cup {q}
  /\ UNCHANGED <<intr, in_external_intr, yield_on_return, frames, current, old_level, cr2, master, slave, failed>>

Deliver(q) ==
  /\ intr /\ q \in raised /\ Open(q) /\ raised' = raised \ {q}
  /\ master' = master \cup {IF q < 8 THEN q ELSE 2}
  /\ slave' = IF q < 8 THEN slave ELSE slave \cup {q}
  /\ Enter("ext", "external", q)
  /\ UNCHANGED <<in_external_intr, yield_on_return, current, old_level, cr2, failed>>

(* A line that drops too early is reported as line 7 or 15, and is not in  *)
(* service.                                                                *)
Spurious(q) ==
  /\ intr /\ Open(q)
  /\ master' = IF q = 7 THEN master ELSE master \cup {2}
  /\ Enter("ext", "external", q)
  /\ UNCHANGED <<in_external_intr, yield_on_return, current, old_level, cr2, raised, slave, failed>>

(* Faulty variant of pic_end_of_interrupt: only the master. *)
pic_end_of_interrupt_master(q) ==
  /\ master' = {m \in master : \E n \in master : n < m} /\ UNCHANGED slave

(* The first line in service ends, at the slave too if it is one of its. *)
pic_end_of_interrupt(q) ==
  /\ master' = {m \in master : \E n \in master : n < m}
  /\ slave' = IF q >= 8 THEN {m \in slave : \E n \in slave : n < m} ELSE slave

-----------------------------------------------------------------------------
(* intr_handler for an external interrupt *)
External ==
  /\ At("external") /\ ASSERT(~intr /\ ~in_external_intr)
  /\ in_external_intr' = TRUE /\ yield_on_return' = FALSE
  /\ Goto("handler")
  /\ UNCHANGED <<intr, current, old_level, cr2, pic>>

(* thread_yield: another thread goes on where it has yielded, and restores *)
(* its level; intr_enable must not be called in an interrupt.              *)
thread_yield(u) ==
  /\ ASSERT(~in_external_intr)
  /\ old_level' = [old_level EXCEPT ![current] = intr]
  /\ current' = u /\ intr' = old_level'[u]

intr_yield_on_return == ASSERT(in_external_intr) /\ yield_on_return' = TRUE

(* timer_interrupt asks to yield when the time slice is over.  Other       *)
(* handlers, and no handler, change nothing here.                          *)
Handler ==
  /\ At("handler")
  /\ \/ UNCHANGED <<yield_on_return, failed>>
     \/ Top.of = 0 /\ intr_yield_on_return
  /\ Goto("end")
  /\ UNCHANGED <<intr, in_external_intr, current, old_level, cr2, pic>>

ExternalEnd ==
  /\ At("end") /\ ASSERT(~intr /\ in_external_intr)
  /\ in_external_intr' = FALSE
  /\ pic_end_of_interrupt(Top.of)
  /\ Goto(IF yield_on_return THEN "yield" ELSE "return")
  /\ UNCHANGED <<intr, yield_on_return, current, old_level, cr2, raised>>

InterruptYield(u) ==
  /\ At("yield") /\ Goto("return") /\ thread_yield(u)
  /\ UNCHANGED <<in_external_intr, yield_on_return, cr2, pic>>

(* iret restores the flag. *)
Return ==
  /\ At("return")
  /\ intr' = Top.intr /\ frames' = [frames EXCEPT ![current] = SubSeq(@, 1, Depth - 1)]
  /\ UNCHANGED <<in_external_intr, yield_on_return, current, old_level, cr2, pic, failed>>

-----------------------------------------------------------------------------
(* A user program makes a system call; it, or the kernel on its behalf,    *)
(* touches a page that is not there.                                       *)
Syscall ==
  /\ Depth = 0 /\ Enter("sys", "body", NONE)
  /\ UNCHANGED <<in_external_intr, yield_on_return, current, old_level, cr2, pic, failed>>

PageFault(a) ==
  /\ intr /\ (Depth = 0 \/ (At("body") /\ Top.kind = "sys"))
  /\ cr2' = a /\ Enter("pf", "cr2", a)
  /\ UNCHANGED <<in_external_intr, yield_on_return, current, old_level, pic, failed>>

(* page_fault *)
ReadCr2 ==
  /\ At("cr2") /\ frames' = [frames EXCEPT ![current][Depth].pc = "enable", ![current][Depth].got = cr2]
  /\ UNCHANGED <<intr, in_external_intr, yield_on_return, current, old_level, cr2, pic, failed>>

FaultEnable ==
  /\ At("enable") /\ ASSERT(~in_external_intr) /\ intr' = TRUE /\ Goto("body")
  /\ UNCHANGED <<in_external_intr, yield_on_return, current, old_level, cr2, pic>>

(* The handlers run with interrupts on, turn them off for a while, sleep,  *)
(* and end.                                                                *)
Disable ==
  /\ At("body") /\ intr /\ intr' = FALSE
  /\ UNCHANGED <<in_external_intr, yield_on_return, frames, current, old_level, cr2, pic, failed>>

Restore ==
  /\ At("body") /\ ~intr /\ ASSERT(~in_external_intr) /\ intr' = TRUE
  /\ UNCHANGED <<in_external_intr, yield_on_return, frames, current, old_level, cr2, pic>>

Sleep(u) ==
  /\ At("body") /\ intr /\ u # current /\ thread_yield(u)
  /\ UNCHANGED <<in_external_intr, yield_on_return, frames, cr2, pic>>

BodyEnd ==
  /\ At("body") /\ intr /\ Goto("return")
  /\ UNCHANGED <<intr, in_external_intr, yield_on_return, current, old_level, cr2, pic, failed>>

Kernel ==
  \/ External \/ Handler \/ ExternalEnd \/ (\E u \in Thread : InterruptYield(u)) \/ Return
  \/ ReadCr2 \/ FaultEnable \/ Restore

Next ==
  \/ \E q \in Irq : Raise(q)
  \/ \E q \in Irq : Deliver(q)
  \/ \E q \in {7, 15} : Spurious(q)
  \/ Kernel
  \/ Syscall
  \/ \E a \in Addr : PageFault(a)
  \/ Disable
  \/ \E u \in Thread : Sleep(u)
  \/ BodyEnd

(* The processor executes the kernel's code, and delivers an interrupt     *)
(* that the flag and the controllers let through.                          *)
Spec == Init /\ [][Next]_vars
FairSpec == Spec /\ WF_vars(Kernel) /\ \A q \in Irq : SF_vars(Deliver(q))

-----------------------------------------------------------------------------
External_frames ==
  UNION {{<<t, k>> : k \in {j \in 1..Len(frames[t]) : frames[t][j].pc \in {"external", "handler", "end"}}} : t \in Thread}

(* "External interrupts run with interrupts turned off, so they never      *)
(* nest, nor are they ever pre-empted" (interrupt.c).                      *)
ExternalNotNested ==
  External_frames # {} => External_frames = {<<current, Depth>>}

(* "they were only off so that we could be assured of reading CR2 before   *)
(* it changed" (page_fault): a fault is handled for the address that       *)
(* faulted.                                                                *)
FaultAddressExact ==
  \A t \in Thread : \A k \in 1..Len(frames[t]) :
    frames[t][k].got # NONE => frames[t][k].got = frames[t][k].of

(* The assertions of intr_handler, intr_enable, intr_yield_on_return and   *)
(* thread_yield hold.                                                      *)
AssertionsHold == ~failed

(* "If we don't acknowledge the IRQ, it will never be delivered to us      *)
(* again" (pic_end_of_interrupt): every interrupt that is raised is        *)
(* delivered.                                                              *)
RaisedDelivered == \A q \in Irq : (q \in raised) ~> (q \notin raised)
=============================================================================
