--------------------------------- MODULE Display ---------------------------------
(***************************************************************************)
(* devices/vga.c and devices/speaker.c: a thread, which holds the console  *)
(* lock, writes to the screen, and so do interrupt handlers.  Interrupts   *)
(* are off in vga_putc but for the time of a beep.                         *)
(***************************************************************************)
EXTENDS Integers, Sequences, SequencesExt

CONSTANTS
  COL_CNT, ROW_CNT,
  TabWidth,     \* 8
  Char,         \* ordinary characters
  MaxPuts       \* bound on the number of characters written

VARIABLES
  fb, cx, cy,
  cursor,       \* of the hardware
  gate,         \* the speaker is on
  pc,           \* where the thread is in vga_putc
  text,         \* what has been written
  start         \* the position of the cursor at boot

screen == <<fb, cx, cy, cursor>>
vars == <<screen, gate, pc, text, start>>

Control == {"LF", "FF", "BS", "CR", "HT"}
Blank == " "
BlankRow == [x \in 0..(COL_CNT - 1) |-> Blank]

(* init: the cursor is where it was. *)
find_cursor(p) == cx = p % COL_CNT /\ cy = p \div COL_CNT

Init ==
  /\ start \in 0..(COL_CNT * ROW_CNT - 1) /\ find_cursor(start) /\ cursor = start
  /\ fb = [y \in 0..(ROW_CNT - 1) |-> BlankRow]
  /\ gate = FALSE /\ pc = "idle" /\ text = <<>>

newline(f, y) ==
  IF y + 1 < ROW_CNT THEN [fb |-> f, x |-> 0, y |-> y + 1]
  ELSE [fb |-> [r \in 0..(ROW_CNT - 1) |-> IF r < ROW_CNT - 1 THEN f[r + 1] ELSE BlankRow], x |-> 0, y |-> ROW_CNT - 1]

ROUND_UP(x, step) == ((x + step - 1) \div step) * step

(* The switch of vga_putc *)
Put(c) ==
  LET tab == ROUND_UP(cx + 1, TabWidth)
      at(f, x, y) == [fb |-> f, x |-> x, y |-> y]
      written == IF cy \in DOMAIN fb THEN [fb EXCEPT ![cy][cx] = c] ELSE fb
  IN CASE c = "LF" -> newline(fb, cy)
       [] c = "FF" -> at([y \in 0..(ROW_CNT - 1) |-> BlankRow], 0, 0)
       [] c = "BS" -> at(fb, IF cx > 0 THEN cx - 1 ELSE 0, cy)
       [] c = "CR" -> at(fb, 0, cy)
       [] c = "HT" -> IF tab >= COL_CNT THEN newline(fb, cy) ELSE at(fb, tab, cy)
       [] OTHER -> IF cx + 1 >= COL_CNT THEN newline(written, cy) ELSE at(written, cx + 1, cy)

move_cursor(x, y) == cursor' = x + COL_CNT * y

(* All of vga_putc, with interrupts off: of the thread while it is not in  *)
(* a call, and of an interrupt handler between the thread's instructions.  *)
vga_putc(c) ==
  /\ Len(text) < MaxPuts /\ text' = Append(text, c)
  /\ fb' = Put(c).fb /\ cx' = Put(c).x /\ cy' = Put(c).y
  /\ move_cursor(cx', cy')
  /\ UNCHANGED <<gate, pc, start>>

(* The thread writes a bell; a handler that does so does not beep. *)
Bell == pc = "idle" /\ pc' = "beep" /\ UNCHANGED <<screen, gate, text, start>>

speaker_on == pc = "beep" /\ gate' = TRUE /\ pc' = "sleep" /\ UNCHANGED <<screen, text, start>>

timer_msleep == pc = "sleep" /\ pc' = "off" /\ UNCHANGED <<screen, gate, text, start>>

speaker_off == pc = "off" /\ gate' = FALSE /\ pc' = "end" /\ UNCHANGED <<screen, text, start>>

BellEnd ==
  /\ pc = "end" /\ pc' = "idle" /\ move_cursor(cx, cy)
  /\ UNCHANGED <<fb, cx, cy, gate, text, start>>

Beep == speaker_on \/ timer_msleep \/ speaker_off \/ BellEnd

Next ==
  \/ \E c \in Char \cup Control : vga_putc(c)
  \/ Bell
  \/ Beep

(* Sleeps end. *)
Spec == Init /\ [][Next]_vars
FairSpec == Spec /\ WF_vars(Beep)

-----------------------------------------------------------------------------
(* The rows that a terminal without end has after text: "FF" clears it,    *)
(* and a row ends after COL_CNT characters.                                *)
Written ==
  LET fresh == [y \in 0..(start \div COL_CNT) |-> BlankRow]
      down(t) == [rows |-> [y \in 0..(t.y + 1) |-> IF y \in DOMAIN t.rows THEN t.rows[y] ELSE BlankRow], x |-> 0, y |-> t.y + 1]
      step(t, c) ==
        CASE c = "LF" -> down(t)
          [] c = "FF" -> [rows |-> [y \in 0..0 |-> BlankRow], x |-> 0, y |-> 0]
          [] c = "CR" -> [t EXCEPT !.x = 0]
          [] c = "BS" -> [t EXCEPT !.x = IF @ = 0 THEN 0 ELSE @ - 1]
          [] c = "HT" -> LET x == ((t.x \div TabWidth) + 1) * TabWidth
                         IN IF x < COL_CNT THEN [t EXCEPT !.x = x] ELSE down(t)
          [] OTHER -> LET u == [t EXCEPT !.rows[t.y][t.x] = c]
                      IN IF t.x = COL_CNT - 1 THEN down(u) ELSE [u EXCEPT !.x = t.x + 1]
  IN FoldLeft(step, [rows |-> fresh, x |-> start % COL_CNT, y |-> start \div COL_CNT], text)

(* The cursor stays on the screen, so that vga_putc writes inside it       *)
(* (newline, and the tabs and backspaces of vga_putc).                     *)
CursorInside == cx \in 0..(COL_CNT - 1) /\ cy \in 0..(ROW_CNT - 1)

(* The screen shows the last rows of what was written, and blanks below    *)
(* (newline: "scrolls the screen upward one line").                        *)
ScreenExact ==
  LET top == IF Written.y < ROW_CNT THEN 0 ELSE Written.y - (ROW_CNT - 1)
  IN \A y \in 0..(ROW_CNT - 1) :
       fb[y] = IF top + y \in DOMAIN Written.rows THEN Written.rows[top + y] ELSE BlankRow

(* The cursor on the screen is where the next character goes, also after a *)
(* handler has written during a beep (move_cursor).                        *)
CursorShown == pc = "idle" => cursor = cx + COL_CNT * cy

(* "There's nothing more annoying than a machine whose beeping you can't   *)
(* stop" (speaker_beep): a beep ends.                                      *)
BeepEnds == gate ~> ~gate
=============================================================================
