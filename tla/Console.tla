-------------------------------- MODULE Console --------------------------------
(***************************************************************************)
(* The console and the serial port: lib/kernel/console.c, devices/serial.c,*)
(* devices/input.c and the interrupt queues of devices/intq.c, with the    *)
(* threads that print and read, interrupt handlers that print, the keyboard*)
(* and the UART.  Interrupts are off from intr_disable to intr_set_level,  *)
(* so a step runs from one point where a thread may block to the next.     *)
(***************************************************************************)
EXTENDS Integers, SequencesExt

CONSTANTS
  Thread,
  Op,             \* what threads call: subset of {"printf", "write", "read", "off"}
  INTQ_BUFSIZE,
  Length,         \* characters of a line
  MaxPut, MaxTyped,   \* bounds: bytes printed, bytes typed
  NONE

VARIABLES
  mode,           \* of serial.c: UNINIT, POLL or QUEUE
  q,              \* the two queues: txq and buffer
  ier,            \* interrupt enable register
  thre,           \* LSR_THRE: the UART can take a byte
  dr,             \* LSR_DR: the UART has received a byte
  console_lock, console_lock_depth,
  filesys_lock,   \* read and write hold it (userprog/syscall.c)
  pc, op, left,   \* where a thread is, its call, characters still to print
  put, sent,      \* number of bytes given to serial_putc, the bytes that left the UART
  typed, got,     \* number of bytes put in the input buffer, the bytes read from it
  last,           \* number of the last byte of a thread that powers off
  failed,         \* an assertion of intq.c failed
  halted

vars == <<mode, q, ier, thre, dr, console_lock, console_lock_depth, filesys_lock, pc, op, left,
          put, sent, typed, got, last, failed, halted>>
uart == <<mode, ier, thre, dr>>
locks == <<console_lock, console_lock_depth, filesys_lock>>
calls == <<pc, op, left>>

intq_init ==
  [buf |-> [i \in 0..INTQ_BUFSIZE - 1 |-> NONE], head |-> 0, tail |-> 0,
   not_full |-> NONE, not_empty |-> NONE, lock |-> NONE]

Init ==
  /\ mode = "UNINIT" /\ q = [n \in {"txq", "buffer"} |-> intq_init]
  /\ ier = {} /\ thre = TRUE /\ dr = FALSE
  /\ console_lock = NONE /\ console_lock_depth = 0 /\ filesys_lock = NONE
  /\ pc = [t \in Thread |-> "idle"] /\ op = [t \in Thread |-> NONE] /\ left = [t \in Thread |-> 0]
  /\ put = 0 /\ sent = <<>> /\ typed = 0 /\ got = <<>> /\ last = [t \in Thread |-> 0]
  /\ failed = FALSE /\ halted = FALSE

-----------------------------------------------------------------------------
(* intq.c, on a queue record *)
next(pos) == (pos + 1) % INTQ_BUFSIZE
intq_empty(r) == r.head = r.tail
intq_full(r) == next(r.head) = r.tail

(* intq_getc and intq_putc past their loops; signal clears the waiter,     *)
(* whom Unblock wakes.                                                     *)
Taken(r) == [r EXCEPT !.tail = next(@), !.buf[r.tail] = NONE, !.not_full = NONE]
Added(r, byte) == [r EXCEPT !.buf[r.head] = byte, !.head = next(@), !.not_empty = NONE]
Byte(r) == r.buf[r.tail]

(* thread_unblock, in signal. *)
Unblock(p, waiter) == [t \in Thread |-> IF t = waiter THEN "woken" ELSE p[t]]

(* The bytes in a queue, oldest first. *)
Contents(r) ==
  LET n == (r.head - r.tail) % INTQ_BUFSIZE
  IN  [i \in 1..n |-> r.buf[(r.tail + i - 1) % INTQ_BUFSIZE]]

(* wait: only with the queue's lock, and only if the condition holds.      *)
Cond(r, waiter) == IF waiter = "not_empty" THEN intq_empty(r) ELSE intq_full(r)

(* serial.c: write_ier *)
write_ier(tx, in) == (IF intq_empty(tx) THEN {} ELSE {"XMIT"}) \cup (IF intq_full(in) THEN {} ELSE {"RECV"})
serial_notify(tx, in) == IF mode = "QUEUE" THEN write_ier(tx, in) ELSE ier

-----------------------------------------------------------------------------
(* Which queue a thread waits at, and for what. *)
QueueOf(t) == IF op[t] = "read" THEN "buffer" ELSE "txq"
AtQueue(t) ==
  pc[t] = "getc" \/ (mode = "QUEUE" /\ (pc[t] = "nested" \/ (pc[t] = "putc" /\ left[t] > 0)))
Waiter(t) == IF op[t] = "read" THEN "not_empty" ELSE "not_full"

Call(t, o) ==
  /\ pc[t] = "idle" /\ (o # "read" => put + Length <= MaxPut)
  /\ o \in {"read", "write"} => mode = "QUEUE"
  /\ op' = [op EXCEPT ![t] = o] /\ left' = [left EXCEPT ![t] = IF o = "read" THEN 0 ELSE Length]
  /\ pc' = [pc EXCEPT ![t] = IF o \in {"read", "write"} THEN "filesys" ELSE "console"]
  /\ UNCHANGED <<q, uart, locks, put, sent, typed, got, last, failed, halted>>

(* lock_acquire (&filesys_lock) in read and write *)
FilesysLock(t) ==
  /\ pc[t] = "filesys" /\ filesys_lock = NONE /\ filesys_lock' = t
  /\ pc' = [pc EXCEPT ![t] = IF op[t] = "read" THEN "getc" ELSE "console"]
  /\ UNCHANGED <<q, uart, console_lock, console_lock_depth, op, left, put, sent, typed, got, last, failed, halted>>

acquire_console(t) ==
  /\ pc[t] = "console" /\ console_lock = NONE
  /\ console_lock' = t
  /\ pc' = [pc EXCEPT ![t] = "putc"]
  /\ UNCHANGED <<q, uart, console_lock_depth, filesys_lock, op, left, put, sent, typed, got, last, failed, halted>>

(* A printf while the same thread already prints, as when it switches away *)
(* in the middle: the lock is held, so only the depth changes.             *)
Nested(t) ==
  /\ pc[t] = "putc" /\ console_lock = t /\ put < MaxPut
  /\ console_lock_depth = 0 /\ console_lock_depth' = 1
  /\ pc' = [pc EXCEPT ![t] = "nested"]
  /\ UNCHANGED <<q, uart, console_lock, filesys_lock, op, left, put, sent, typed, got, last, failed, halted>>

(* serial_putc with interrupts off: a full queue gives its oldest byte to  *)
(* the UART first.  putc_poll waits for the UART.                          *)
PutOff ==
  LET full == intq_full(q["txq"]) byte == put + 1
      r == IF full THEN Taken(q["txq"]) ELSE q["txq"]
      tx == Added(r, byte)
  IN  /\ IF mode = "QUEUE"
         THEN /\ q' = [q EXCEPT !["txq"] = tx] /\ ier' = write_ier(tx, q["buffer"])
              /\ IF full
                 THEN /\ thre /\ thre' = FALSE /\ sent' = Append(sent, Byte(q["txq"]))
                      /\ pc' = Unblock(pc, q["txq"].not_full)
                 ELSE UNCHANGED <<thre, sent, pc>>
              /\ UNCHANGED mode
         ELSE /\ thre /\ thre' = FALSE /\ sent' = Append(sent, byte)
              /\ mode' = "POLL" /\ UNCHANGED <<q, ier, pc>>
      /\ put' = byte

(* One character of a line, by serial_putc with interrupts on and room in  *)
(* the queue.                                                              *)
PutChar(t, where) ==
  LET byte == put + 1
  IN  /\ IF mode = "QUEUE"
         THEN /\ ~intq_full(q["txq"])
              /\ q' = [q EXCEPT !["txq"] = Added(@, byte)]
              /\ ier' = write_ier(q'["txq"], q["buffer"])
              /\ UNCHANGED <<mode, thre, sent>>
         ELSE /\ thre /\ thre' = FALSE /\ sent' = Append(sent, byte)
              /\ mode' = "POLL" /\ UNCHANGED <<q, ier>>
      /\ left' = [left EXCEPT ![t] = IF where = "line" THEN @ - 1 ELSE @]
      /\ put' = byte /\ last' = [last EXCEPT ![t] = IF op[t] = "off" THEN byte ELSE @]
      /\ pc' = [pc EXCEPT ![t] = IF where = "line" THEN "putc" ELSE "unnest"]
      /\ UNCHANGED <<dr, locks, op, typed, got, failed, halted>>

putchar_have_lock(t) == pc[t] = "putc" /\ left[t] > 0 /\ PutChar(t, "line")
NestedChar(t) == pc[t] = "nested" /\ PutChar(t, "nested")

(* release_console of the nested call *)
Unnest(t) ==
  /\ pc[t] = "unnest" /\ console_lock_depth > 0
  /\ console_lock_depth' = console_lock_depth - 1
  /\ pc' = [pc EXCEPT ![t] = "putc"]
  /\ UNCHANGED <<q, uart, console_lock, filesys_lock, op, left, put, sent, typed, got, last, failed, halted>>

(* release_console, and the end of write *)
release_console(t) ==
  /\ pc[t] = "putc" /\ left[t] = 0 /\ console_lock_depth = 0
  /\ console_lock' = NONE
  /\ filesys_lock' = IF op[t] = "write" THEN NONE ELSE filesys_lock
  /\ pc' = [pc EXCEPT ![t] = IF op[t] = "off" THEN "flush" ELSE "idle"]
  /\ op' = [op EXCEPT ![t] = IF op[t] = "off" THEN @ ELSE NONE]
  /\ UNCHANGED <<q, uart, console_lock_depth, left, put, sent, typed, got, last, failed, halted>>

(* Faulty variant of input_getc: the serial port is not notified. *)
input_getc_silent(t) ==
  LET r == q["buffer"]
  IN  /\ pc[t] = "getc" /\ ~intq_empty(r)
      /\ got' = Append(got, Byte(r)) /\ q' = [q EXCEPT !["buffer"] = Taken(r)]
      /\ filesys_lock' = NONE
      /\ pc' = [pc EXCEPT ![t] = "idle"] /\ op' = [op EXCEPT ![t] = NONE]
      /\ UNCHANGED <<uart, console_lock, console_lock_depth, left, put, sent, typed, last, failed, halted>>

(* input_getc with a byte there, to the end of read *)
input_getc(t) ==
  LET r == q["buffer"]
  IN  /\ pc[t] = "getc" /\ ~intq_empty(r)
      /\ got' = Append(got, Byte(r)) /\ q' = [q EXCEPT !["buffer"] = Taken(r)]
      /\ ier' = serial_notify(q["txq"], Taken(r))
      /\ filesys_lock' = NONE
      /\ pc' = [pc EXCEPT ![t] = "idle"] /\ op' = [op EXCEPT ![t] = NONE]
      /\ UNCHANGED <<mode, thre, dr, console_lock, console_lock_depth, left, put, sent, typed, last, failed, halted>>

(* The loop of intq_getc or intq_putc: the queue is empty, or full, and    *)
(* the thread waits with the queue's lock.  If it must wait for the lock   *)
(* first, wait is called when it gets it, with its assertion.              *)
QueueWait(t) ==
  LET n == QueueOf(t) w == Waiter(t)
  IN  /\ IF pc[t] = "qlock" THEN q[n].lock = NONE ELSE AtQueue(t) /\ Cond(q[n], w)
      /\ IF q[n].lock = NONE
         THEN /\ failed' = (failed \/ ~Cond(q[n], w))
              /\ q' = IF w = "not_empty" THEN [q EXCEPT ![n].lock = t, ![n].not_empty = t]
                                         ELSE [q EXCEPT ![n].lock = t, ![n].not_full = t]
         ELSE UNCHANGED <<q, failed>>
      /\ pc' = [pc EXCEPT ![t] = IF q[n].lock = NONE THEN "blocked" ELSE "qlock"]
      /\ UNCHANGED <<uart, locks, op, left, put, sent, typed, got, last, halted>>

(* thread_block returns: the lock is released and the loop goes round. *)
Resume(t) ==
  /\ pc[t] = "woken"
  /\ q' = [q EXCEPT ![QueueOf(t)].lock = NONE]
  /\ pc' = [pc EXCEPT ![t] = IF op[t] = "read" THEN "getc"
                             ELSE IF console_lock_depth > 0 THEN "nested" ELSE "putc"]
  /\ UNCHANGED <<uart, locks, op, left, put, sent, typed, got, last, failed, halted>>

(* serial_flush sends all that is queued by polling. *)
serial_flush(t) ==
  LET r == q["txq"]
  IN  /\ pc[t] = "flush"
      /\ sent' = sent \o Contents(r) /\ thre' = (thre /\ intq_empty(r))
      /\ q' = [q EXCEPT !["txq"].tail = r.head, !["txq"].not_full = IF intq_empty(r) THEN @ ELSE NONE,
                        !["txq"].buf = intq_init.buf]
      /\ pc' = [Unblock(pc, IF intq_empty(r) THEN NONE ELSE r.not_full) EXCEPT ![t] = "off"]
      /\ UNCHANGED <<mode, ier, dr, locks, op, left, put, typed, got, last, failed, halted>>

(* The machine goes off (shutdown_power_off). *)
PowerOff(t) ==
  /\ pc[t] = "off" /\ halted' = TRUE
  /\ UNCHANGED <<q, uart, locks, calls, put, sent, typed, got, last, failed>>

(* debug_panic: interrupts are off for good, the console lock is ignored,  *)
(* a message is printed and the queue is flushed by polling.  Nothing else *)
(* runs after it.                                                          *)
debug_panic(t) ==
  /\ pc[t] \in {"idle", "putc"} /\ put < MaxPut
  /\ halted' = TRUE /\ mode' = IF mode = "UNINIT" THEN "POLL" ELSE mode
  /\ put' = put + 1 /\ sent' = sent \o Contents(q["txq"]) \o <<put + 1>>
  /\ q' = [q EXCEPT !["txq"].tail = q["txq"].head, !["txq"].buf = intq_init.buf, !["txq"].not_full = NONE]
  /\ thre' = FALSE
  /\ UNCHANGED <<ier, dr, locks, calls, typed, got, last, failed>>

-----------------------------------------------------------------------------
(* An external interrupt's handler prints; interrupts are off in it. *)
HandlerPrints ==
  /\ put < MaxPut /\ PutOff
  /\ UNCHANGED <<dr, locks, op, left, typed, got, last, failed, halted>>

serial_init_queue ==
  /\ mode # "QUEUE" /\ mode' = "QUEUE" /\ ier' = write_ier(q["txq"], q["buffer"])
  /\ UNCHANGED <<q, thre, dr, locks, calls, put, sent, typed, got, last, failed, halted>>

(* input_putc, in a handler, with room in the buffer; the queue then. *)
Stored == Added(q["buffer"], typed + 1)

(* A key of the keyboard; it is dropped if the buffer is full. *)
keyboard_interrupt ==
  /\ typed < MaxTyped /\ ~intq_full(q["buffer"])
  /\ q' = [q EXCEPT !["buffer"] = Stored] /\ typed' = typed + 1
  /\ pc' = Unblock(pc, q["buffer"].not_empty)
  /\ ier' = serial_notify(q["txq"], Stored)
  /\ UNCHANGED <<mode, thre, dr, locks, op, left, put, sent, got, last, failed, halted>>

(* A byte reaches the UART; the UART has sent its byte. *)
Arrive ==
  /\ ~dr /\ typed < MaxTyped /\ dr' = TRUE
  /\ UNCHANGED <<q, mode, ier, thre, locks, calls, put, sent, typed, got, last, failed, halted>>

Ready ==
  /\ ~thre /\ thre' = TRUE
  /\ UNCHANGED <<q, mode, ier, dr, locks, calls, put, sent, typed, got, last, failed, halted>>

(* The UART interrupts: a byte is received if there is room, and one sent  *)
(* if the UART can take it; later ones make later interrupts.              *)
serial_interrupt ==
  LET recv == ~intq_full(q["buffer"]) /\ dr
      xmit == ~intq_empty(q["txq"]) /\ thre
      in == IF recv THEN Stored ELSE q["buffer"]
      tx == IF xmit THEN Taken(q["txq"]) ELSE q["txq"]
  IN  /\ ("RECV" \in ier /\ dr) \/ ("XMIT" \in ier /\ thre)
      /\ q' = [n \in {"txq", "buffer"} |-> IF n = "txq" THEN tx ELSE in]
      /\ ier' = write_ier(tx, in)
      /\ typed' = IF recv THEN typed + 1 ELSE typed
      /\ dr' = (dr /\ ~recv)
      /\ sent' = IF xmit THEN Append(sent, Byte(q["txq"])) ELSE sent
      /\ thre' = (thre /\ ~xmit)
      /\ pc' = Unblock(Unblock(pc, IF recv THEN q["buffer"].not_empty ELSE NONE),
                       IF xmit THEN q["txq"].not_full ELSE NONE)
      /\ UNCHANGED <<mode, locks, op, left, put, got, last, failed, halted>>

-----------------------------------------------------------------------------
Step(t) ==
  \/ FilesysLock(t) \/ acquire_console(t) \/ putchar_have_lock(t) \/ NestedChar(t) \/ Unnest(t)
  \/ release_console(t) \/ input_getc(t) \/ QueueWait(t) \/ Resume(t)
  \/ serial_flush(t) \/ PowerOff(t)

Next ==
  \/ \E t \in Thread : ~halted /\ Step(t)
  \/ \E t \in Thread, o \in Op : ~halted /\ Call(t, o)
  \/ \E t \in Thread : ~halted /\ Nested(t)
  \/ \E t \in Thread : ~halted /\ debug_panic(t)
  \/ ~halted /\ HandlerPrints
  \/ ~halted /\ serial_init_queue
  \/ ~halted /\ keyboard_interrupt
  \/ ~halted /\ Arrive
  \/ ~halted /\ Ready
  \/ ~halted /\ serial_interrupt

Spec == Init /\ [][Next]_vars

(* The scheduler runs every ready thread, locks are handed on in order of  *)
(* arrival, and the UART sends and interrupts.  Nobody need type.          *)
Fairness ==
  /\ \A t \in Thread : WF_vars(~halted /\ Step(t)) /\ SF_vars(~halted /\ acquire_console(t))
  /\ WF_vars(~halted /\ Ready) /\ WF_vars(~halted /\ serial_interrupt)

FairSpec == Spec /\ Fairness

-----------------------------------------------------------------------------
(* wait is only called while its condition holds (the assertion in wait,   *)
(* devices/intq.c): "Only one thread may wait at once", and the lock that  *)
(* comes with read, or with the console, keeps others out.                 *)
AssertionsHold == ~failed

(* Every byte leaves, or is read, in the order in which it came, whether   *)
(* it went through a queue, past it by polling, or out in a flush.         *)
BytesInOrder ==
  /\ sent \o Contents(q["txq"]) = [i \in 1..put |-> i]
  /\ got \o Contents(q["buffer"]) = [i \in 1..typed |-> i]

(* Whenever interrupts are on, the UART's are enabled for what is to be    *)
(* sent and for what there is room to receive: nothing gets stuck.         *)
InterruptsArmed ==
  mode = "QUEUE" =>
    /\ (~intq_empty(q["txq"]) => "XMIT" \in ier)
    /\ ("RECV" \in ier <=> ~intq_full(q["buffer"]))

(* Two threads are never both in the middle of a line: simultaneous calls  *)
(* of printf do not mix their output (console_lock).                       *)
LinesWhole ==
  \A t, u \in Thread : 0 < left[t] /\ left[t] < Length /\ 0 < left[u] /\ left[u] < Length => t = u

(* When the machine stops, the last words of the thread that stopped it    *)
(* are out: the panic message, or the line before power-off.               *)
LastWords ==
  /\ \A t \in Thread : pc[t] = "off" => Len(sent) >= last[t]
  /\ halted => Len(sent) = put \/ \E t \in Thread : pc[t] = "off"

(* A printf ends, although nobody types and a reader holds filesys_lock:   *)
(* full queues empty and every waiter is woken.                            *)
Prints(t) == pc[t] # "idle" /\ op[t] = "printf"
Printed(t) == pc[t] = "idle" \/ halted
PrintfEnds == \A t \in Thread : Prints(t) ~> Printed(t)
=============================================================================
