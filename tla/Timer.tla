---------------------------------- MODULE Timer ----------------------------------
(***************************************************************************)
(* devices/timer.c: the tick counter, which takes two instructions to      *)
(* read, calibration of the delay loop, sleeping and delays.               *)
(***************************************************************************)
EXTENDS Integers

CONSTANTS
  Thread,
  Half,        \* values of one half of the counter (2^32)
  MaxTicks,    \* bound on the counter
  Speeds,      \* loops that the machine may do in a tick
  First,       \* first guess of loops_per_tick (2^10)
  Bits,        \* bits to refine it by (9)
  TIMER_FREQ,
  Requests,    \* times to sleep: <<num, denom>> is num/denom seconds
  NONE

VARIABLES
  lo, hi,           \* ticks
  speed, loops_per_tick, high_bit, test_bit,
  intr_owner,       \* the thread that has turned interrupts off, or NONE
  pc, request, start, now, low,     \* per thread: place and locals
  called            \* per thread: the tick of its call

clock == <<lo, hi>>
cal == <<speed, loops_per_tick, high_bit, test_bit>>
locals == <<request, start, now, low, called>>
vars == <<clock, cal, intr_owner, pc, locals>>

Ticks == hi * Half + lo

Init ==
  /\ lo = 0 /\ hi = 0
  /\ speed \in Speeds /\ loops_per_tick = First /\ high_bit = 0 /\ test_bit = 0
  /\ intr_owner = NONE
  /\ pc = [t \in Thread |-> "idle"]
  /\ request = [t \in Thread |-> NONE] /\ start = [t \in Thread |-> NONE]
  /\ now = [t \in Thread |-> NONE] /\ low = [t \in Thread |-> NONE] /\ called = [t \in Thread |-> NONE]

Calibrated == high_bit # 0 /\ test_bit = high_bit \div 2^(Bits + 1)

(* ticks++ in the interrupt handler; counted here from the end of the      *)
(* calibration.                                                            *)
timer_interrupt ==
  /\ Calibrated /\ intr_owner = NONE /\ Ticks < MaxTicks
  /\ lo' = (lo + 1) % Half /\ hi' = IF lo + 1 = Half THEN hi + 1 ELSE hi
  /\ UNCHANGED <<cal, intr_owner, pc, locals>>

-----------------------------------------------------------------------------
(* Right after a tick, that many loops do not end before the next one. *)
too_many_loops(loops) == loops > speed

(* timer_calibrate: the highest bit, then the ones below it *)
CalibrateHigh ==
  /\ high_bit = 0
  /\ IF too_many_loops(2 * loops_per_tick)
     THEN high_bit' = loops_per_tick /\ test_bit' = loops_per_tick \div 2 /\ UNCHANGED loops_per_tick
     ELSE loops_per_tick' = 2 * loops_per_tick /\ UNCHANGED <<high_bit, test_bit>>
  /\ UNCHANGED <<clock, speed, intr_owner, pc, locals>>

CalibrateBit ==
  /\ high_bit # 0 /\ test_bit # high_bit \div 2^(Bits + 1)
  /\ loops_per_tick' = IF too_many_loops(loops_per_tick + test_bit) THEN loops_per_tick ELSE loops_per_tick + test_bit
  /\ test_bit' = test_bit \div 2
  /\ UNCHANGED <<clock, speed, high_bit, intr_owner, pc, locals>>

-----------------------------------------------------------------------------
TicksOf(r) == (r[1] * TIMER_FREQ) \div r[2]

(* The loops of real_time_delay; the product is divided by 1000 first. *)
LoopsOf(r) == (((loops_per_tick * r[1]) \div 1000) * TIMER_FREQ) \div (r[2] \div 1000)

(* timer_msleep, timer_usleep and timer_nsleep call real_time_sleep: less  *)
(* than a tick is waited for in a loop.                                    *)
real_time_sleep(t, r) ==
  /\ Calibrated /\ intr_owner = NONE /\ pc[t] = "idle" /\ Ticks + TicksOf(r) < MaxTicks
  /\ request' = [request EXCEPT ![t] = r] /\ called' = [called EXCEPT ![t] = Ticks]
  /\ pc' = [pc EXCEPT ![t] = IF TicksOf(r) > 0 THEN "disable" ELSE "delay"]
  /\ UNCHANGED <<clock, cal, intr_owner, start, now, low>>

(* timer_mdelay, timer_udelay and timer_ndelay *)
real_time_delay(t, r) ==
  /\ Calibrated /\ intr_owner = NONE /\ pc[t] = "idle"
  /\ request' = [request EXCEPT ![t] = r] /\ pc' = [pc EXCEPT ![t] = "delay"]
  /\ UNCHANGED <<clock, cal, intr_owner, start, now, low, called>>

Delayed(t) ==
  /\ intr_owner = NONE /\ pc[t] = "delay" /\ pc' = [pc EXCEPT ![t] = "idle"]
  /\ request' = [request EXCEPT ![t] = NONE] /\ called' = [called EXCEPT ![t] = NONE]
  /\ UNCHANGED <<clock, cal, intr_owner, start, now, low>>

(* Faulty variant of Disable: interrupts stay on, so that a tick or another *)
(* thread may come between the halves.                                     *)
Disable_not(t) ==
  /\ intr_owner = NONE /\ pc[t] = "disable" /\ pc' = [pc EXCEPT ![t] = "low"]
  /\ UNCHANGED <<clock, cal, intr_owner, locals>>

(* timer_ticks turns interrupts off, reads both halves and restores the    *)
(* level; the first reading of timer_sleep is its start.                   *)
Disable(t) ==
  /\ intr_owner = NONE /\ pc[t] = "disable"
  /\ intr_owner' = t /\ pc' = [pc EXCEPT ![t] = "low"]
  /\ UNCHANGED <<clock, cal, locals>>

ReadLow(t) ==
  /\ intr_owner \in {t, NONE} /\ pc[t] = "low"
  /\ low' = [low EXCEPT ![t] = lo] /\ pc' = [pc EXCEPT ![t] = "high"]
  /\ UNCHANGED <<clock, cal, intr_owner, request, start, now, called>>

ReadHigh(t) ==
  /\ intr_owner \in {t, NONE} /\ pc[t] = "high"
  /\ LET read == hi * Half + low[t] IN
     IF start[t] = NONE THEN start' = [start EXCEPT ![t] = read] /\ UNCHANGED now
     ELSE now' = [now EXCEPT ![t] = read] /\ UNCHANGED start
  /\ low' = [low EXCEPT ![t] = NONE]
  /\ intr_owner' = NONE /\ pc' = [pc EXCEPT ![t] = IF start[t] = NONE THEN "disable" ELSE "compare"]
  /\ UNCHANGED <<clock, cal, request, called>>

(* while (timer_elapsed (start) < ticks) thread_yield (); *)
Compare(t) ==
  /\ intr_owner = NONE /\ pc[t] = "compare"
  /\ pc' = [pc EXCEPT ![t] = IF now[t] - start[t] < TicksOf(request[t]) THEN "disable" ELSE "done"]
  /\ now' = [now EXCEPT ![t] = NONE]
  /\ UNCHANGED <<clock, cal, intr_owner, request, start, low, called>>

Return(t) ==
  /\ intr_owner = NONE /\ pc[t] = "done" /\ pc' = [pc EXCEPT ![t] = "idle"]
  /\ request' = [request EXCEPT ![t] = NONE] /\ start' = [start EXCEPT ![t] = NONE]
  /\ called' = [called EXCEPT ![t] = NONE]
  /\ UNCHANGED <<clock, cal, intr_owner, now, low>>

Step(t) == Delayed(t) \/ Disable(t) \/ ReadLow(t) \/ ReadHigh(t) \/ Compare(t) \/ Return(t)

Next ==
  \/ timer_interrupt
  \/ CalibrateHigh
  \/ CalibrateBit
  \/ \E t \in Thread, r \in Requests : real_time_sleep(t, r) \/ real_time_delay(t, r)
  \/ \E t \in Thread : Step(t)

(* The timer ticks, the interrupt controller keeps its interrupt while     *)
(* interrupts are off, and the ready list is first in, first out.          *)
Spec == Init /\ [][Next]_vars
FairSpec == Spec /\ SF_vars(timer_interrupt) /\ \A t \in Thread : SF_vars(Step(t))

-----------------------------------------------------------------------------
(* A sleep ends only after the ticks that were asked for have passed since *)
(* the call, wherever the timer interrupts the reading of the counter      *)
(* (timer_sleep, timer_ticks).                                             *)
SleepsLongEnough ==
  \A t \in Thread : pc[t] = "done" => Ticks - called[t] >= TicksOf(request[t])

(* A delay loop takes the time asked for up to the rounding of the         *)
(* divisions, and less than a tick if less was asked (real_time_delay).    *)
DelaysExact ==
  \A t \in Thread : pc[t] = "delay" =>
    LET r == request[t]
        asked == loops_per_tick * r[1] * TIMER_FREQ
    IN /\ TicksOf(r) = 0 => LoopsOf(r) <= loops_per_tick
       /\ LoopsOf(r) * r[2] <= asked /\ asked < LoopsOf(r) * r[2] + 1000 * TIMER_FREQ + r[2]

(* "Refine the next 8 bits of loops_per_tick" (timer_calibrate): that many *)
(* loops fit in a tick, and no larger number of that precision does.       *)
CalibrationExact ==
  Calibrated => loops_per_tick <= speed /\ speed < loops_per_tick + high_bit \div 2^8

(* Every sleep and delay ends, if the bound on the counter leaves room for *)
(* it (timer_sleep yields to other threads until then).                    *)
Sleeps(t) == pc[t] = "delay" \/ (start[t] # NONE /\ start[t] + TicksOf(request[t]) <= MaxTicks)
Awake(t) == pc[t] = "idle"
SleepersWake == \A t \in Thread : Sleeps(t) ~> Awake(t)
=============================================================================
