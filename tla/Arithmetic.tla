-------------------------------- MODULE Arithmetic --------------------------------
(***************************************************************************)
(* lib/arithmetic.c: division of double words by means of an instruction   *)
(* that divides a double word by a word and traps if the quotient is       *)
(* longer than a word.  A word has W bits, a power of two.                 *)
(***************************************************************************)
EXTENDS Integers, Sequences, SequencesExt

CONSTANTS
  W,          \* bits of a word (32)
  Inputs      \* double words to divide, and to divide by

VARIABLES n, d, signed, result

vars == <<n, d, signed, result>>

b == 2^W
Word(x) == x % b
Double(x) == x % (b * b)
Signed(x) == IF x >= (b * b) \div 2 THEN x - b * b ELSE x
SignedWord(x) == IF Word(x) >= b \div 2 THEN Word(x) - b ELSE Word(x)


(* The product of double words, in parts so that TLC's integers hold them *)
Times(x, y) == Double(x * Word(y) + Double(x * (y \div b)) * b)

Trap == -1

(* The quotient, or Trap. *)
divl(m, e) == IF e = 0 \/ m \div e >= b THEN Trap ELSE m \div e

(* Leading zeros of a word that is not zero, halving the range each time. *)
nlz(x) ==
  FoldLeft(LAMBDA a, s : IF a.x < 2^(W - s) THEN [x |-> Word(a.x * 2^s), n |-> a.n + s] ELSE a,
           [x |-> x, n |-> 0], SelectSeq(<<16, 8, 4, 2, 1>>, LAMBDA s : s < W)).n

Short(m, e) ==
  LET n1 == m \div b
      q == divl(b * (n1 % e) + Word(m), e)
  IN IF q = Trap THEN Trap ELSE Double(q + b * (n1 \div e))

(* Faulty variant of Long: the estimate is not corrected. *)
Long_estimate(m, e) ==
  LET s == nlz(e \div b)
      q == divl(m \div 2, Double(e * 2^s) \div b)
  IN IF m < e THEN 0 ELSE IF q = Trap THEN Trap ELSE q \div 2^(W - 1 - s)

(* An estimate of the quotient that is right or one too large *)
Long(m, e) ==
  LET s == nlz(e \div b)
      t == divl(m \div 2, Double(e * 2^s) \div b)
      q == t \div 2^(W - 1 - s)
  IN IF m < e THEN 0
     ELSE IF t = Trap THEN Trap
     ELSE IF Double(m - Times(Double(q - 1), e)) < e THEN Double(q - 1) ELSE q

udiv64(m, e) == IF e \div b = 0 THEN Short(m, e) ELSE Long(m, e)

(* The remainder is returned in a word. *)
umod64(m, e) == Word(Double(m - Times(e, udiv64(m, e))))

Abs(x) == IF Signed(x) >= 0 THEN x ELSE Double(-x)

sdiv64(m, e) ==
  LET q == udiv64(Abs(m), Abs(e))
  IN IF q = Trap THEN Trap ELSE IF (Signed(m) < 0) = (Signed(e) < 0) THEN q ELSE Double(-q)

smod64(m, e) == Double(SignedWord(Double(m - Times(e, sdiv64(m, e)))))

-----------------------------------------------------------------------------
None == [q |-> Trap, r |-> Trap]

Init == n \in Inputs /\ d \in Inputs \ {0} /\ signed \in BOOLEAN /\ result = None

(* __udivdi3 and __umoddi3, or __divdi3 and __moddi3 *)
Divide ==
  /\ result = None
  /\ result' = IF signed THEN [q |-> sdiv64(n, d), r |-> smod64(n, d)]
               ELSE [q |-> udiv64(n, d), r |-> umod64(n, d)]
  /\ UNCHANGED <<n, d, signed>>

Next == Divide
Spec == Init /\ [][Next]_vars

-----------------------------------------------------------------------------
Quotient == LET x == Signed(n)
                y == Signed(d)
                m == IF x < 0 THEN -x ELSE x
                e == IF y < 0 THEN -y ELSE y
            IN IF ~signed THEN n \div d
               ELSE IF (x < 0) = (y < 0) THEN m \div e ELSE -(m \div e)

Remainder == IF signed THEN Signed(n) - Signed(d) * Quotient ELSE n - d * Quotient

(* "this code is correct and will not trap" (udiv64): for every divisor    *)
(* but zero the quotient is exact, and so is the one of signed numbers     *)
(* unless it is the only one that has no representation.                   *)
QuotientExact ==
  result # None =>
    (signed /\ Quotient = (b * b) \div 2) \/ (result.q # Trap /\ result.q = Double(Quotient))

(* The remainder is exact whenever it fits in a word (umod64, smod64). *)
RemainderInWord ==
  (/\ result # None
   /\ IF signed THEN Remainder \in -(b \div 2)..(b \div 2 - 1) ELSE Remainder < b)
    => result.r = Double(Remainder)

(* "Divides ... 64-bit N by ... 64-bit D and returns the remainder": for   *)
(* every remainder (umod64, smod64).                                       *)
RemainderExact == result # None => result.r = Double(Remainder)
=============================================================================
