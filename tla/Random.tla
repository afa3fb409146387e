---------------------------------- MODULE Random ----------------------------------
(***************************************************************************)
(* lib/random.c, with the calls that parse_options makes at boot.  Bytes   *)
(* have N values, and a seed has SeedLen of them.                          *)
(***************************************************************************)
EXTENDS Integers, Sequences, SequencesExt, Functions

CONSTANTS
  N,          \* 256
  SeedLen,    \* 4
  MaxBytes,   \* bound on the number of bytes that are drawn
  MaxOptions  \* bound on the number of -rs options

VARIABLES
  s, s_i, s_j, inited,
  options,    \* seeds of the -rs options so far
  clock,      \* the seed from the clock once boot has used it, or <<>>
  out         \* the bytes that were drawn

vars == <<s, s_i, s_j, inited, options, clock, out>>

Byte == 0..(N - 1)
Seed == [1..SeedLen -> Byte]

Init ==
  /\ s = [k \in Byte |-> 0] /\ s_i = 0 /\ s_j = 0 /\ inited = FALSE
  /\ options = <<>> /\ clock = <<>> /\ out = <<>>

swap_byte(a, j, k) == [a EXCEPT ![j] = a[k], ![k] = a[j]]

Shuffle(a, seed) ==
  FoldLeft(LAMBDA acc, k :
             LET j == (acc.j + acc.a[k] + seed[(k % SeedLen) + 1]) % N
             IN [a |-> swap_byte(acc.a, k, j), j |-> j],
           [a |-> a, j |-> 0], [k \in 1..N |-> k - 1]).a

random_init(seed) ==
  IF inited THEN UNCHANGED <<s, s_i, s_j, inited>>
  ELSE /\ s' = Shuffle([k \in Byte |-> k], seed)
       /\ s_i' = 0 /\ s_j' = 0 /\ inited' = TRUE

(* parse_options: an -rs option, and then the time of day *)
Option(seed) ==
  /\ clock = <<>> /\ Len(options) < MaxOptions /\ options' = Append(options, seed)
  /\ random_init(seed) /\ UNCHANGED <<clock, out>>

Clock(seed) ==
  /\ clock = <<>> /\ clock' = seed
  /\ random_init(seed) /\ UNCHANGED <<options, out>>

(* One turn of the loop of random_bytes; the state is set up by then. *)
random_bytes ==
  /\ clock # <<>> /\ Len(out) < MaxBytes
  /\ s_i' = (s_i + 1) % N
  /\ s_j' = (s_j + s[s_i']) % N
  /\ s' = swap_byte(s, s_i', s_j')
  /\ out' = Append(out, s'[(s'[s_i'] + s'[s_j']) % N])
  /\ UNCHANGED <<inited, options, clock>>

Next ==
  \/ \E seed \in Seed : Option(seed) \/ Clock(seed)
  \/ random_bytes

Spec == Init /\ [][Next]_vars

-----------------------------------------------------------------------------
(* The table is always a permutation, whatever the seed and the bytes      *)
(* drawn (random_init, random_bytes).                                      *)
TablePermuted == inited => Range(s) = Byte

(* What a generator seeded with seed draws first, second and so on *)
Drawn(seed, k) ==
  FoldLeft(LAMBDA g, x :
             LET i == (g.i + 1) % N
                 j == (g.j + g.a[i]) % N
                 a == [g.a EXCEPT ![i] = g.a[j], ![j] = g.a[i]]
             IN [a |-> a, i |-> i, j |-> j, out |-> Append(g.out, a[(a[i] + a[j]) % N])],
           [a |-> Shuffle([x \in Byte |-> x], seed), i |-> 0, j |-> 0, out |-> <<>>], [x \in 1..k |-> x]).out

(* "This has no effect if an "-rs" option was specified" (parse_options):  *)
(* what is drawn depends on the option alone.                              *)
OptionDecides ==
  options # <<>> => out = Drawn(options[1], Len(out))

(* "Initializes or reinitializes the PRNG with the given SEED"             *)
(* (random_init): the last call of it decides.                             *)
LastSeedDecides ==
  out # <<>> => out = Drawn(clock, Len(out))
=============================================================================
