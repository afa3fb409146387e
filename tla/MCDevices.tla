------------------------------- MODULE MCDevices -------------------------------
(***************************************************************************)
(* The machine.  Address translation: page directories and the TLB         *)
(* (Pagedir).  The devices: console and serial line (Console, in two       *)
(* settings), disks (Ide), interrupts (Interrupts), timer (Timer, in two   *)
(* settings), keyboard (Keyboard), clock (Rtc) and screen (Display).  The  *)
(* components share no variable.  A behaviour is one of them; the          *)
(* variables of the others stay at 0, and those of Pagedir at their first  *)
(* values.  Pagedir has two processes and a kernel thread that map, evict, *)
(* use and unmap a page, and exit.                                         *)
(***************************************************************************)
EXTENDS Pagedir, Integers, Sequences, TLC

CONSTANTS t1, t2, s1, s2, v1, v2

VARIABLES
  part,
  mode, q, ier, thre, dr, console_lock, console_lock_depth, filesys_lock, con_pc, op, left,
  put, sent, con_typed, con_got, con_last, con_failed, con_halted,
  error, ready, sig, big, is_ata, boot, lock, expecting_interrupt, completion_wait,
  device, lba, status, intrq, data, media, ide_pc, call,
  intr, in_external_intr, yield_on_return, frames, running, old_level, cr2, raised, master, slave, failed,
  lo, hi, speed, loops_per_tick, high_bit, test_bit, intr_owner, timer_pc, request, start, now, low, called,
  states, caps_lock, key_cnt, buffer, rebooted, down, typed,
  clock, updates, rtc_pc, got, time,
  fb, cx, cy, cursor, gate, vga_pc, text, first

conVars == <<mode, q, ier, thre, dr, console_lock, console_lock_depth, filesys_lock, con_pc, op, left,
             put, sent, con_typed, con_got, con_last, con_failed, con_halted>>
ideVars == <<error, ready, sig, big, is_ata, boot, lock, expecting_interrupt, completion_wait,
             device, lba, status, intrq, data, media, ide_pc, call>>
intVars == <<intr, in_external_intr, yield_on_return, frames, running, old_level, cr2, raised, master, slave, failed>>
timVars == <<lo, hi, speed, loops_per_tick, high_bit, test_bit, intr_owner, timer_pc, request, start, now, low, called>>
keyVars == <<states, caps_lock, key_cnt, buffer, rebooted, down, typed>>
rtcVars == <<clock, updates, rtc_pc, got, time>>
vgaVars == <<fb, cx, cy, cursor, gate, vga_pc, text, first>>
allVars == <<part, vars, conVars, ideVars, intVars, timVars, keyVars, rtcVars, vgaVars>>

-----------------------------------------------------------------------------
(* Threads print and power off while an interrupt handler prints. *)
Output == INSTANCE Console WITH
  Thread <- {t1, t2}, Op <- {"printf", "off"}, INTQ_BUFSIZE <- 3, Length <- 2, MaxPut <- 4, MaxTyped <- 1,
  pc <- con_pc, typed <- con_typed, got <- con_got, last <- con_last, failed <- con_failed, halted <- con_halted

(* Threads read keys and write. *)
Input == INSTANCE Console WITH
  Thread <- {t1, t2}, Op <- {"read", "write"}, INTQ_BUFSIZE <- 3, Length <- 1, MaxPut <- 3, MaxTyped <- 3,
  pc <- con_pc, typed <- con_typed, got <- con_got, last <- con_last, failed <- con_failed, halted <- con_halted

(* Two disks of every kind on a channel. *)
Channel == INSTANCE Ide WITH
  Thread <- {t1, t2}, Sector <- {s1, s2}, Value <- {v1, v2}, Errors <- {"ok", "slave_failed", "bad"},
  Ready <- BOOLEAN, Sigs <- {"ata", "other"}, Bigs <- BOOLEAN, pc <- ide_pc

(* The timer on the master and a disk on the slave; s1 and s2 are          *)
(* addresses that fault.                                                   *)
Processor == INSTANCE Interrupts WITH Thread <- {t1, t2}, Irq <- {0, 14}, Addr <- {s1, s2},
  current <- running

(* Two threads sleep, for two ticks or one; half of the counter has three  *)
(* values.                                                                 *)
SleepRequests == {<<20, 1000>>, <<12000, 1000000>>}
Sleeping == INSTANCE Timer WITH
  Thread <- {t1, t2}, Half <- 3, MaxTicks <- 6, Speeds <- {1500}, First <- 1024, Bits <- 9, TIMER_FREQ <- 100,
  Requests <- SleepRequests, pc <- timer_pc

(* Machines of 84 speeds calibrate their loop, and delay. *)
DelayRequests == {<<5000, 1000000>>, <<7, 1000000>>, <<9, 1000>>, <<15, 1000>>}
MachineSpeeds == {1024 + 37 * k : k \in 0..83}
Delaying == INSTANCE Timer WITH
  Thread <- {t1}, Half <- 3, MaxTicks <- 3, Speeds <- MachineSpeeds, First <- 1024, Bits <- 9, TIMER_FREQ <- 100,
  Requests <- DelayRequests, pc <- timer_pc

(* Parts of the rows of the tables: A S and Delete, 2 3 and [ ], @ # and { } *)
InvariantMap == {[first |-> 30, chars |-> <<65, 83>>], [first |-> 83, chars |-> <<127>>]}
UnshiftedMap == {[first |-> 3, chars |-> <<50, 51>>], [first |-> 26, chars |-> <<91, 93>>]}
ShiftedMap == {[first |-> 3, chars |-> <<64, 35>>], [first |-> 26, chars |-> <<123, 125>>]}

(* Both keys of every modifier, Caps Lock, A, 2, Delete, and an extended   *)
(* key that has no meaning.                                                *)
Keys == INSTANCE Keyboard WITH
  invariant_keymap <- InvariantMap, unshifted_keymap <- UnshiftedMap, shifted_keymap <- ShiftedMap,
  Keys <- {30, 3, 83, 58, 42, 54, 56, 57400, 29, 57373, 57416}, Capacity <- 1, MaxKeys <- 2

(* The last seconds of every month and of the days of leap until 2037, and *)
(* an instant at which only the seconds and minutes change.                *)
Days(y, m) == IF m = 2 THEN (IF y % 4 = 2 THEN 29 ELSE 28) ELSE IF m \in {4, 6, 9, 11} THEN 30 ELSE 31
Instants ==
  {[sec |-> 59, min |-> 59, hour |-> 23, mday |-> Days(y, m), mon |-> m, year |-> y] : y \in 0..66, m \in 1..12}
  \cup {[sec |-> 59, min |-> 59, hour |-> 23, mday |-> 28, mon |-> 2, year |-> y] : y \in 0..66}
  \cup {[sec |-> s, min |-> 29, hour |-> 11, mday |-> 9, mon |-> 10, year |-> 50] : s \in {8, 9, 58, 59}}
Clock == INSTANCE Rtc WITH Starts <- Instants, MaxUpdates <- 2, pc <- rtc_pc

(* Two rows of three columns, tabs of two. *)
Screen == INSTANCE Display WITH
  COL_CNT <- 3, ROW_CNT <- 2, TabWidth <- 2, Char <- {"a"}, MaxPuts <- 4, pc <- vga_pc, start <- first

ASSUME PagedirAssumption

-----------------------------------------------------------------------------
ConOff ==
  /\ mode = 0 /\ q = 0 /\ ier = 0 /\ thre = 0 /\ dr = 0 /\ console_lock = 0 /\ console_lock_depth = 0
  /\ filesys_lock = 0 /\ con_pc = 0 /\ op = 0 /\ left = 0 /\ put = 0 /\ sent = 0 /\ con_typed = 0
  /\ con_got = 0 /\ con_last = 0 /\ con_failed = 0 /\ con_halted = 0
IdeOff ==
  /\ error = 0 /\ ready = 0 /\ sig = 0 /\ big = 0 /\ is_ata = 0 /\ boot = 0 /\ lock = 0
  /\ expecting_interrupt = 0 /\ completion_wait = 0 /\ device = 0 /\ lba = 0 /\ status = 0
  /\ intrq = 0 /\ data = 0 /\ media = 0 /\ ide_pc = 0 /\ call = 0
IntOff ==
  /\ intr = 0 /\ in_external_intr = 0 /\ yield_on_return = 0 /\ frames = 0 /\ running = 0 /\ old_level = 0
  /\ cr2 = 0 /\ raised = 0 /\ master = 0 /\ slave = 0 /\ failed = 0
TimOff ==
  /\ lo = 0 /\ hi = 0 /\ speed = 0 /\ loops_per_tick = 0 /\ high_bit = 0 /\ test_bit = 0 /\ intr_owner = 0
  /\ timer_pc = 0 /\ request = 0 /\ start = 0 /\ now = 0 /\ low = 0 /\ called = 0
KeyOff ==
  /\ states = 0 /\ caps_lock = 0 /\ key_cnt = 0 /\ buffer = 0 /\ rebooted = 0 /\ down = 0 /\ typed = 0
RtcOff == clock = 0 /\ updates = 0 /\ rtc_pc = 0 /\ got = 0 /\ time = 0
VgaOff == fb = 0 /\ cx = 0 /\ cy = 0 /\ cursor = 0 /\ gate = 0 /\ vga_pc = 0 /\ text = 0 /\ first = 0

MCInit ==
  /\ Init
  /\ \/ part = "pagedir" /\ ConOff /\ IdeOff /\ IntOff /\ TimOff /\ KeyOff /\ RtcOff /\ VgaOff
     \/ part = "output" /\ Output!Init /\ IdeOff /\ IntOff /\ TimOff /\ KeyOff /\ RtcOff /\ VgaOff
     \/ part = "input" /\ Input!Init /\ IdeOff /\ IntOff /\ TimOff /\ KeyOff /\ RtcOff /\ VgaOff
     \/ part = "ide" /\ Channel!Init /\ ConOff /\ IntOff /\ TimOff /\ KeyOff /\ RtcOff /\ VgaOff
     \/ part = "interrupts" /\ Processor!Init /\ ConOff /\ IdeOff /\ TimOff /\ KeyOff /\ RtcOff /\ VgaOff
     \/ part = "sleep" /\ Sleeping!Init /\ ConOff /\ IdeOff /\ IntOff /\ KeyOff /\ RtcOff /\ VgaOff
     \/ part = "delay" /\ Delaying!Init /\ ConOff /\ IdeOff /\ IntOff /\ KeyOff /\ RtcOff /\ VgaOff
     \/ part = "keyboard" /\ Keys!Init /\ ConOff /\ IdeOff /\ IntOff /\ TimOff /\ RtcOff /\ VgaOff
     \/ part = "rtc" /\ Clock!Init /\ ConOff /\ IdeOff /\ IntOff /\ TimOff /\ KeyOff /\ VgaOff
     \/ part = "display" /\ Screen!Init /\ ConOff /\ IdeOff /\ IntOff /\ TimOff /\ KeyOff /\ RtcOff

(* Interrupts, the timer and the screen never come to rest. *)
MCNext ==
  \/ part = "pagedir" /\ Next
     /\ UNCHANGED <<part, conVars, ideVars, intVars, timVars, keyVars, rtcVars, vgaVars>>
  \/ part = "output" /\ Output!Next
     /\ UNCHANGED <<part, vars, ideVars, intVars, timVars, keyVars, rtcVars, vgaVars>>
  \/ part = "input" /\ Input!Next
     /\ UNCHANGED <<part, vars, ideVars, intVars, timVars, keyVars, rtcVars, vgaVars>>
  \/ part = "ide" /\ Channel!Next
     /\ UNCHANGED <<part, vars, conVars, intVars, timVars, keyVars, rtcVars, vgaVars>>
  \/ part = "interrupts" /\ Processor!Next
     /\ UNCHANGED <<part, vars, conVars, ideVars, timVars, keyVars, rtcVars, vgaVars>>
  \/ part = "sleep" /\ Sleeping!Next
     /\ UNCHANGED <<part, vars, conVars, ideVars, intVars, keyVars, rtcVars, vgaVars>>
  \/ part = "delay" /\ Delaying!Next
     /\ UNCHANGED <<part, vars, conVars, ideVars, intVars, keyVars, rtcVars, vgaVars>>
  \/ part = "keyboard" /\ Keys!Next
     /\ UNCHANGED <<part, vars, conVars, ideVars, intVars, timVars, rtcVars, vgaVars>>
  \/ part = "rtc" /\ Clock!Next
     /\ UNCHANGED <<part, vars, conVars, ideVars, intVars, timVars, keyVars, vgaVars>>
  \/ part = "display" /\ Screen!Next
     /\ UNCHANGED <<part, vars, conVars, ideVars, intVars, timVars, keyVars, rtcVars>>
  \/ part \in {"pagedir", "output", "input", "ide", "keyboard", "rtc"} /\ UNCHANGED allVars

MCSpec == MCInit /\ [][MCNext]_allVars

(* Threads, sectors or addresses, and values are interchangeable. *)
Symmetric == Permutations({t1, t2}) \cup Permutations({s1, s2}) \cup Permutations({v1, v2})

-----------------------------------------------------------------------------
(* Every byte leaves, or is read, in the order in which it came, through   *)
(* the queues and past them.  Two threads are never both in the middle of  *)
(* a line, and the last words of a thread that stops the machine are out.  *)
(* The assertion of wait in intq.c holds, and the UART's interrupts are    *)
(* enabled for what is to be sent and for what there is room to receive    *)
(* (Console).                                                              *)
ConsoleExact ==
  /\ part = "output" => Output!BytesInOrder /\ Output!LinesWhole /\ Output!LastWords
  /\ part = "input" => Input!BytesInOrder /\ Input!AssertionsHold /\ Input!InterruptsArmed

(* A read returns what the sector holds, a write returns when the sector   *)
(* holds its data, and between commands no completion is left over.  A     *)
(* disk that is foreign, too large or does not answer is never given a     *)
(* read or a write command (Ide).                                          *)
DisksExact ==
  part = "ide" => Channel!TransfersExact /\ Channel!CompletionsExact /\ Channel!ForeignUntouched

(* External interrupts never nest, nor are they ever pre-empted; a fault   *)
(* is handled for the address that faulted; the assertions of              *)
(* intr_handler, intr_enable, intr_yield_on_return and thread_yield hold   *)
(* (Interrupts).                                                           *)
InterruptsExact ==
  part = "interrupts" =>
    Processor!ExternalNotNested /\ Processor!FaultAddressExact /\ Processor!AssertionsHold

(* A sleep ends only after the ticks that were asked for, wherever the     *)
(* timer interrupts the reading of the counter.  A delay loop takes the    *)
(* time asked for up to the rounding, with as many loops as fit in a tick  *)
(* at the precision of the calibration (Timer).                            *)
TimesExact ==
  /\ part = "sleep" => Sleeping!SleepsLongEnough
  /\ part = "delay" => Delaying!DelaysExact /\ Delaying!CalibrationExact

(* The time is the one the clock shows, however many registers change      *)
(* while they are read (Rtc).  A modifier counts as held exactly while one *)
(* of its keys is down, and letters follow Shift, Caps Lock, Ctrl and Alt  *)
(* (Keyboard).  The cursor stays on the screen and is where the next       *)
(* character goes, and the screen shows the last rows of what was written  *)
(* (Display).                                                              *)
PeripheralsExact ==
  /\ part = "rtc" => Clock!TimeExact
  /\ part = "keyboard" => Keys!ModifiersExact /\ Keys!LettersExact
  /\ part = "display" => Screen!CursorInside /\ Screen!ScreenExact /\ Screen!CursorShown
=============================================================================
