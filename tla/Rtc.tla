----------------------------------- MODULE Rtc -----------------------------------
(***************************************************************************)
(* devices/rtc.c: reading the time of day from a clock that goes on while  *)
(* its registers are read one by one, and converting it to seconds.        *)
(***************************************************************************)
EXTENDS Integers, FiniteSetsExt

CONSTANTS
  Starts,      \* instants at which rtc_get_time may be called
  MaxUpdates   \* seconds that may pass until it returns

VARIABLES
  clock,       \* the instant that the hardware shows
  updates,     \* seconds that have passed
  pc,          \* the register that is read next
  got,         \* what has been read
  time         \* the result, or -1

vars == <<clock, updates, pc, got, time>>

Registers == <<"sec", "min", "hour", "mday", "mon", "year">>

(* The clock (external): years are counted from 1970 to 2069. *)
Leap(y) == (1970 + y) % 4 = 0
MonthDays(y, m) == CASE m = 2 -> IF Leap(y) THEN 29 ELSE 28
                     [] m \in {4, 6, 9, 11} -> 30
                     [] OTHER -> 31

NextSecond(c) ==
  LET sec == (c.sec + 1) % 60
      min == IF sec = 0 THEN (c.min + 1) % 60 ELSE c.min
      hour == IF sec = 0 /\ min = 0 THEN (c.hour + 1) % 24 ELSE c.hour
      day == sec = 0 /\ min = 0 /\ hour = 0
      last == c.mday = MonthDays(c.year, c.mon)
  IN [sec |-> sec, min |-> min, hour |-> hour,
      mday |-> IF ~day THEN c.mday ELSE IF last THEN 1 ELSE c.mday + 1,
      mon |-> IF day /\ last THEN (c.mon % 12) + 1 ELSE c.mon,
      year |-> IF day /\ last /\ c.mon = 12 THEN c.year + 1 ELSE c.year]

(* The registers are in BCD, and the year has two digits. *)
cmos_read(r) ==
  LET v == IF r = "year" THEN (70 + clock.year) % 100 ELSE clock[r]
  IN 16 * (v \div 10) + (v % 10)

bcd_to_bin(x) == (x % 16) + (x \div 16) * 10

Init ==
  /\ clock \in Starts /\ updates = 0
  /\ pc = 1 /\ got = [r \in {"sec", "min", "hour", "mday", "mon", "year"} |-> 0] /\ time = -1

Update ==
  /\ time = -1 /\ updates < MaxUpdates /\ updates' = updates + 1
  /\ clock' = NextSecond(clock)
  /\ UNCHANGED <<pc, got, time>>

Read ==
  /\ pc <= 6 /\ pc' = pc + 1
  /\ got' = [got EXCEPT ![Registers[pc]] = bcd_to_bin(cmos_read(Registers[pc]))]
  /\ UNCHANGED <<clock, updates, time>>

-----------------------------------------------------------------------------
days_per_month == <<31, 28, 31, 30, 31, 30, 31, 31, 30, 31, 30, 31>>
DIV_ROUND_UP(x, step) == (x + step - 1) \div step

(* Years since 1970 *)
Year(y) == (IF y < 70 THEN y + 100 ELSE y) - 70

LeapDay(mon, year) == mon > 2 /\ year % 4 = 2

Seconds(g) ==
  LET year == Year(g.year)
      days == year * 365 + DIV_ROUND_UP(year - 2, 4)
              + MapThenSumSet(LAMBDA i : days_per_month[i], 1..(g.mon - 1))
              + (IF LeapDay(g.mon, year) THEN 1 ELSE 0) + g.mday - 1
  IN days * 24 * 60 * 60 + g.hour * 60 * 60 + g.min * 60 + g.sec

(* Faulty variant of Check: the minutes are compared. *)
Check_minutes ==
  /\ pc = 7
  /\ IF got.min = bcd_to_bin(cmos_read("min")) THEN time' = Seconds(got) /\ pc' = 8
     ELSE pc' = 1 /\ UNCHANGED time
  /\ UNCHANGED <<clock, updates, got>>

(* The seconds have not changed since they were read, or all is read again. *)
Check ==
  /\ pc = 7
  /\ IF got.sec = bcd_to_bin(cmos_read("sec")) THEN time' = Seconds(got) /\ pc' = 8
     ELSE pc' = 1 /\ UNCHANGED time
  /\ UNCHANGED <<clock, updates, got>>

Next == Update \/ Read \/ Check

Spec == Init /\ [][Next]_vars

-----------------------------------------------------------------------------
(* Seconds since the epoch by counting the days of all years and months. *)
SinceEpoch(c) ==
  LET days == MapThenSumSet(LAMBDA y : IF Leap(y) THEN 366 ELSE 365, 0..(c.year - 1))
              + MapThenSumSet(LAMBDA m : MonthDays(c.year, m), 1..(c.mon - 1)) + c.mday - 1
  IN ((days * 24 + c.hour) * 60 + c.min) * 60 + c.sec

(* "Returns number of seconds since Unix epoch" and "We repeatedly read    *)
(* the time until it is stable" (rtc_get_time): the result is the time     *)
(* that the clock shows when it returns, however many registers change     *)
(* while they are read, in every month until 2037.                         *)
TimeExact == time # -1 => time = SinceEpoch(clock)
=============================================================================
