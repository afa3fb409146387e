-------------------------------- MODULE Bitmaps --------------------------------
(***************************************************************************)
(* lib/kernel/bitmap.c: a bitmap is an array of words of ELEM_BITS bits.   *)
(* The bits of the last word past bit_cnt are whatever malloc left there.  *)
(***************************************************************************)
EXTENDS Integers, Sequences, FiniteSets, FiniteSetsExt, Bitwise

CONSTANTS
  ELEM_BITS,
  BitCnt      \* bound: numbers of bits of a bitmap

(* What the instances satisfy. *)
BitmapsAssumption == ELEM_BITS \in Nat \ {0} /\ BitCnt \subseteq Nat

BITMAP_ERROR == -1
elem_idx(i) == i \div ELEM_BITS
bit_mask(i) == 2 ^ (i % ELEM_BITS)
elem_cnt(n) == (n + ELEM_BITS - 1) \div ELEM_BITS
Ones == 2 ^ ELEM_BITS - 1

VARIABLES
  bit_cnt,
  bits,     \* the words, from 0
  file,     \* the words that bitmap_write has left in the file
  op, ret   \* the last call with its arguments and its result

vars == <<bit_cnt, bits, file, op, ret>>

last_mask == LET last_bits == bit_cnt % ELEM_BITS IN IF last_bits # 0 THEN 2 ^ last_bits - 1 ELSE Ones

bitmap_mark(b, i) == [b EXCEPT ![elem_idx(i)] = @ | bit_mask(i)]
bitmap_reset(b, i) == [b EXCEPT ![elem_idx(i)] = @ & (Ones - bit_mask(i))]
bitmap_flip(b, i) == [b EXCEPT ![elem_idx(i)] = @ ^^ bit_mask(i)]
bitmap_set(b, i, value) == IF value THEN bitmap_mark(b, i) ELSE bitmap_reset(b, i)
bitmap_test(b, i) == (b[elem_idx(i)] & bit_mask(i)) # 0

RECURSIVE SetLoop(_, _, _, _)
SetLoop(b, i, end, value) == IF i = end THEN b ELSE SetLoop(bitmap_set(b, i, value), i + 1, end, value)
bitmap_set_multiple(b, start, cnt, value) == SetLoop(b, start, start + cnt, value)
bitmap_set_all(b, value) == bitmap_set_multiple(b, 0, bit_cnt, value)

RECURSIVE bitmap_count(_, _, _)
bitmap_count(start, cnt, value) ==
  IF cnt = 0 THEN 0
  ELSE (IF bitmap_test(bits, start) = value THEN 1 ELSE 0) + bitmap_count(start + 1, cnt - 1, value)

RECURSIVE bitmap_contains(_, _, _)
bitmap_contains(start, cnt, value) ==
  cnt > 0 /\ (bitmap_test(bits, start) = value \/ bitmap_contains(start + 1, cnt - 1, value))

RECURSIVE ScanLoop(_, _, _, _)
ScanLoop(i, last, cnt, value) ==
  IF i > last THEN BITMAP_ERROR
  ELSE IF ~bitmap_contains(i, cnt, ~value) THEN i ELSE ScanLoop(i + 1, last, cnt, value)

(* Faulty variant of bitmap_scan: the last place is not tried. *)
bitmap_scan_short(start, cnt, value) ==
  IF cnt <= bit_cnt THEN ScanLoop(start, bit_cnt - cnt - 1, cnt, value) ELSE BITMAP_ERROR

bitmap_scan(start, cnt, value) ==
  IF cnt <= bit_cnt THEN ScanLoop(start, bit_cnt - cnt, cnt, value) ELSE BITMAP_ERROR

bitmap_scan_and_flip(start, cnt, value) ==
  LET idx == bitmap_scan(start, cnt, value) IN
  IF idx # BITMAP_ERROR THEN bitmap_set_multiple(bits, idx, cnt, ~value) ELSE bits

(* bitmap_read: the words of the file, without the bits past bit_cnt. *)
bitmap_read ==
  IF bit_cnt > 0 THEN [file EXCEPT ![elem_cnt(bit_cnt) - 1] = @ & last_mask] ELSE bits

-----------------------------------------------------------------------------
Words(n) == [0..elem_cnt(n) - 1 -> 0..Ones]

(* bitmap_create or bitmap_create_in_buf, of memory with any contents. *)
Init ==
  /\ bit_cnt \in BitCnt
  /\ bits \in {bitmap_set_all(b, FALSE) : b \in Words(bit_cnt)}
  /\ file = bits /\ op = <<"create">> /\ ret = 0

Done(call, b, v) == op' = call /\ bits' = b /\ ret' = v /\ UNCHANGED bit_cnt

One ==
  \E i \in 0..bit_cnt - 1 :
    \/ Done(<<"flip", i>>, bitmap_flip(bits, i), 0)
    \/ Done(<<"test", i>>, bits, IF bitmap_test(bits, i) THEN 1 ELSE 0)
    \/ \E value \in BOOLEAN : Done(<<"set", i, 1, value>>, bitmap_set(bits, i, value), 0)

Many ==
  \E start \in 0..bit_cnt : \E cnt \in 0..bit_cnt, value \in BOOLEAN :
    \/ /\ start + cnt <= bit_cnt
       /\ \/ Done(<<"set", start, cnt, value>>, bitmap_set_multiple(bits, start, cnt, value), 0)
          \/ Done(<<"count", start, cnt, value>>, bits, bitmap_count(start, cnt, value))
          \/ Done(<<"contains", start, cnt, value>>, bits, IF bitmap_contains(start, cnt, value) THEN 1 ELSE 0)
    \/ Done(<<"scan", start, cnt, value>>, bits, bitmap_scan(start, cnt, value))
    \/ Done(<<"scan_and_flip", start, cnt, value>>, bitmap_scan_and_flip(start, cnt, value), bitmap_scan(start, cnt, value))

Next ==
  \/ (One \/ Many) /\ UNCHANGED file
  \/ Done(<<"write">>, bits, 0) /\ file' = bits
  \/ Done(<<"read">>, bitmap_read, 0) /\ UNCHANGED file

Spec == Init /\ [][Next]_vars

-----------------------------------------------------------------------------
(* The set of the bits that are true in the words b. *)
True(b) == {i \in 0..bit_cnt - 1 : (b[i \div ELEM_BITS] \div (2 ^ (i % ELEM_BITS))) % 2 = 1}
T == True(bits)
Group(i, cnt, value) == \A k \in i..i + cnt - 1 : k < bit_cnt /\ (k \in T) = value
Found(start, cnt, value) ==
  LET places == {i \in start..bit_cnt : i + cnt <= bit_cnt /\ Group(i, cnt, value)} IN
  IF places = {} THEN BITMAP_ERROR ELSE Min(places)

(* A bitmap is a set of bits: every function returns and changes what its  *)
(* comment says of that set, whatever the unused bits of the last word     *)
(* are, and however the bits are spread over words; a group that is found  *)
(* is the first one; what is read is what was written.                     *)
CallExact ==
  LET name == op'[1]
      cnt  == op'[3]
      here == op'[2]..op'[2] + cnt - 1
      to   == True(bits)' IN
  CASE name = "flip" -> to = IF op'[2] \in T THEN T \ {op'[2]} ELSE T \cup {op'[2]}
    [] name = "test" -> to = T /\ ret' = IF op'[2] \in T THEN 1 ELSE 0
    [] name = "set" -> to = IF op'[4] THEN T \cup here ELSE T \ here
    [] name = "count" -> to = T /\ ret' = Cardinality(IF op'[4] THEN here \cap T ELSE here \ T)
    [] name = "contains" -> to = T /\ (ret' = 1) = (\E i \in here : (i \in T) = op'[4])
    [] name = "scan" -> to = T /\ ret' = Found(op'[2], cnt, op'[4])
    [] name = "scan_and_flip" ->
         LET idx == Found(op'[2], cnt, op'[4])
             got == idx..idx + cnt - 1 IN
         ret' = idx /\ to = IF idx = BITMAP_ERROR THEN T ELSE IF op'[4] THEN T \ got ELSE T \cup got
    [] name = "write" -> to = T
    [] name = "read" -> to = True(file)
BitsExact == [][CallExact]_vars

(* bitmap_scan_and_flip returns 0 when CNT is zero. *)
ScanOfNone == op[1] = "scan_and_flip" /\ op[3] = 0 => ret = 0
=============================================================================
