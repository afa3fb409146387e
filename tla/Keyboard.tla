--------------------------------- MODULE Keyboard ---------------------------------
(***************************************************************************)
(* devices/kbd.c: from the scan codes of the keys that are pressed and     *)
(* released to the characters in the input buffer.                         *)
(***************************************************************************)
EXTENDS Integers, Sequences, FiniteSets

CONSTANTS
  invariant_keymap, unshifted_keymap, shifted_keymap,   \* sets of [first, chars]
  Keys,          \* scan codes of the keys of the keyboard
  Capacity,      \* of the input buffer
  MaxKeys        \* bound on the number of characters typed

VARIABLES
  states,        \* code of a shift key -> whether it is taken to be down
  caps_lock, key_cnt, buffer, rebooted,
  down,          \* the shift keys that are down
  typed          \* the last character put, with the keys it was put for

vars == <<states, caps_lock, key_cnt, buffer, rebooted, down, typed>>

CapsLock == 58           \* 0x3a
ShiftKeys == {42, 54}    \* 0x2a, 0x36
AltKeys == {56, 57400}   \* 0x38, 0xe038
CtrlKeys == {29, 57373}  \* 0x1d, 0xe01d
shift_keys == ShiftKeys \cup AltKeys \cup CtrlKeys

Init ==
  /\ states = [k \in shift_keys |-> FALSE] /\ caps_lock = FALSE
  /\ key_cnt = 0 /\ buffer = <<>> /\ rebooted = FALSE
  /\ down = {} /\ typed = <<>>

Row(keymap, code) == {r \in keymap : code >= r.first /\ code < r.first + Len(r.chars)}
Maps(keymap, code) == Row(keymap, code) # {}
map_key(keymap, code) == LET r == CHOOSE x \in Row(keymap, code) : TRUE IN r.chars[code - r.first + 1]

Held(keys) == \E k \in keys : states[k]
shift == Held(ShiftKeys)
alt == Held(AltKeys)
ctrl == Held(CtrlKeys)

Ordinary(code) ==
  Maps(invariant_keymap, code) \/ Maps(IF shift THEN shifted_keymap ELSE unshifted_keymap, code)
Character(code) ==
  IF Maps(invariant_keymap, code) THEN map_key(invariant_keymap, code)
  ELSE map_key(IF shift THEN shifted_keymap ELSE unshifted_keymap, code)

tolower(c) == IF c \in 65..90 THEN c + 32 ELSE c

Modified(c) ==
  LET d == IF ctrl /\ c >= 64 /\ c < 96 THEN c - 64
           ELSE IF shift = caps_lock THEN tolower(c) ELSE c
  IN IF alt THEN d + 128 ELSE d

(* Type an ordinary character; a full buffer loses it, and shutdown_reboot *)
(* does not return.                                                        *)
Type(code) ==
  LET c == Character(code) IN
  /\ rebooted' = (c = 127 /\ ctrl /\ alt)
  /\ IF rebooted' \/ Len(buffer) = Capacity THEN UNCHANGED <<key_cnt, buffer, typed>>
     ELSE /\ key_cnt' = key_cnt + 1 /\ buffer' = Append(buffer, Modified(c))
          /\ typed' = [code |-> code, shift |-> ShiftKeys \cap down # {}, alt |-> AltKeys \cap down # {},
                       ctrl |-> CtrlKeys \cap down # {}, caps |-> caps_lock, char |-> Modified(c)]

Shifts(code, release) ==
  states' = [k \in shift_keys |-> IF k = code THEN ~release ELSE states[k]]

keyboard_interrupt(code, release) ==
  /\ ~rebooted
  /\ IF code = CapsLock
     THEN /\ caps_lock' = (IF release THEN caps_lock ELSE ~caps_lock)
          /\ UNCHANGED <<states, key_cnt, buffer, rebooted, typed>>
     ELSE IF Ordinary(code)
     THEN /\ IF release THEN UNCHANGED <<key_cnt, buffer, rebooted, typed>> ELSE Type(code)
          /\ UNCHANGED <<states, caps_lock>>
     ELSE Shifts(code, release) /\ UNCHANGED <<caps_lock, key_cnt, buffer, rebooted, typed>>

(* A key is pressed, or repeats while it is down; it is released. *)
Press(k) ==
  /\ key_cnt < MaxKeys /\ keyboard_interrupt(k, FALSE) /\ down' = down \cup ({k} \cap shift_keys)

Release(k) ==
  /\ k \in shift_keys => k \in down
  /\ keyboard_interrupt(k, TRUE) /\ down' = down \ {k}

input_getc ==
  /\ buffer # <<>> /\ buffer' = Tail(buffer)
  /\ UNCHANGED <<states, caps_lock, key_cnt, rebooted, down, typed>>

Next ==
  \/ \E k \in Keys : Press(k) \/ Release(k)
  \/ input_getc

Spec == Init /\ [][Next]_vars

-----------------------------------------------------------------------------
(* A modifier counts as held exactly while one of its two keys is down, in *)
(* whatever order they are pressed and released (keyboard_interrupt).      *)
ModifiersExact ==
  shift = (ShiftKeys \cap down # {}) /\ alt = (AltKeys \cap down # {}) /\ ctrl = (CtrlKeys \cap down # {})

Letter(code) == Maps(invariant_keymap, code) /\ map_key(invariant_keymap, code) \in 65..90

(* "A is 0x41, Ctrl+A is 0x01, etc." and Shift and Caps Lock cancel each   *)
(* other: what a letter key types under the modifiers that are held        *)
(* (keyboard_interrupt).                                                   *)
LettersExact ==
  (typed # <<>> /\ Letter(typed.code)) =>
    LET c == map_key(invariant_keymap, typed.code)
        plain == IF typed.ctrl THEN c - 64 ELSE IF typed.shift # typed.caps THEN c ELSE c + 32
    IN typed.char = plain + (IF typed.alt THEN 128 ELSE 0)

(* "Note that Ctrl overrides Shift" (keyboard_interrupt): with Ctrl, a key *)
(* types what it types without Shift.                                      *)
CtrlOverridesShift ==
  [][(typed' # typed /\ typed' # <<>> /\ typed'.ctrl /\ typed'.shift /\ ~typed'.alt)
      => (Maps(unshifted_keymap, typed'.code) =>
            LET c == map_key(unshifted_keymap, typed'.code)
            IN typed'.char = (IF c >= 64 /\ c < 96 THEN c - 64 ELSE c))]_vars
=============================================================================
