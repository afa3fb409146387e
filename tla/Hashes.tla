-------------------------------- MODULE Hashes --------------------------------
(***************************************************************************)
(* lib/kernel/hash.c, the table behind the supplemental page table: chains *)
(* in buckets whose number follows the number of elements.  Elements with  *)
(* one key are equal; the chains are the sequences of Lists.               *)
(***************************************************************************)
EXTENDS Naturals, Sequences, FiniteSets, SequencesExt, Bitwise

CONSTANTS
  Elem,                   \* pairs of a key and a copy
  Hash,                   \* the hash of a key
  MIN_BUCKETS,            \* 4
  BEST_ELEMS_PER_BUCKET,  \* 2
  NULL

(* What the instances satisfy. *)
HashesAssumption ==
  /\ MIN_BUCKETS \in Nat \ {0} /\ BEST_ELEMS_PER_BUCKET \in Nat \ {0}
  /\ \A e \in Elem : Hash[e[1]] \in Nat

VARIABLES
  buckets,    \* from 0
  elem_cnt,
  op, ret     \* the last call, its argument and its result

vars == <<buckets, elem_cnt, op, ret>>

bucket_cnt(b) == Cardinality(DOMAIN b)
Empty(n) == [i \in 0..n - 1 |-> <<>>]

hash_init == buckets = Empty(MIN_BUCKETS) /\ elem_cnt = 0

find_bucket(b, e) == Hash[e[1]] & (bucket_cnt(b) - 1)

find_elem(bucket, e) ==
  LET at == {i \in DOMAIN bucket : bucket[i][1] = e[1]} IN
  IF at = {} THEN NULL ELSE bucket[CHOOSE i \in at : \A j \in at : i <= j]

insert_elem(b, k, e) == [b EXCEPT ![k] = <<e>> \o @]
remove_elem(b, e) == [k \in DOMAIN b |-> SelectSeq(b[k], LAMBDA x : x # e)]

turn_off_least_1bit(x) == x & (x - 1)
is_power_of_2(x) == x # 0 /\ turn_off_least_1bit(x) = 0

RECURSIVE PowerBelow(_)
PowerBelow(x) == IF is_power_of_2(x) THEN x ELSE PowerBelow(turn_off_least_1bit(x))

new_bucket_cnt(cnt) ==
  PowerBelow(IF cnt \div BEST_ELEMS_PER_BUCKET < MIN_BUCKETS THEN MIN_BUCKETS ELSE cnt \div BEST_ELEMS_PER_BUCKET)

(* The elements move from the front of the old chains to the front of the  *)
(* new ones.                                                               *)
RECURSIVE MoveChain(_, _)
MoveChain(new, chain) ==
  IF chain = <<>> THEN new
  ELSE MoveChain(insert_elem(new, find_bucket(new, Head(chain)), Head(chain)), Tail(chain))

RECURSIVE MoveAll(_, _, _)
MoveAll(new, old, i) ==
  IF i = bucket_cnt(old) THEN new ELSE MoveAll(MoveChain(new, old[i]), old, i + 1)

(* Faulty variant of rehash: an element is placed by the old number. *)
rehash_old(b, cnt) ==
  IF new_bucket_cnt(cnt) <= bucket_cnt(b) THEN {b}
  ELSE {b, [k \in 0..new_bucket_cnt(cnt) - 1 |-> IF k \in DOMAIN b THEN b[k] ELSE <<>>]}

(* What rehash can leave: without memory the table stays as it is. *)
rehash(b, cnt) ==
  IF new_bucket_cnt(cnt) = bucket_cnt(b) THEN {b}
  ELSE {b, MoveAll(Empty(new_bucket_cnt(cnt)), b, 0)}

-----------------------------------------------------------------------------
Held == UNION {ToSet(buckets[k]) : k \in DOMAIN buckets}

Done(call, b, cnt, v) ==
  /\ op' = call /\ ret' = v /\ elem_cnt' = cnt
  /\ buckets' \in b

Init == hash_init /\ op = <<"init">> /\ ret = NULL

hash_insert(e) ==
  LET k   == find_bucket(buckets, e)
      old == find_elem(buckets[k], e) IN
  /\ e \notin Held
  /\ IF old = NULL
     THEN Done(<<"insert", e>>, rehash(insert_elem(buckets, k, e), elem_cnt + 1), elem_cnt + 1, old)
     ELSE Done(<<"insert", e>>, rehash(buckets, elem_cnt), elem_cnt, old)

hash_replace(e) ==
  LET k   == find_bucket(buckets, e)
      old == find_elem(buckets[k], e)
      cut == IF old = NULL THEN buckets ELSE remove_elem(buckets, old)
      cnt == IF old = NULL THEN elem_cnt + 1 ELSE elem_cnt IN
  /\ e \notin Held
  /\ Done(<<"replace", e>>, rehash(insert_elem(cut, k, e), cnt), cnt, old)

hash_find(e) ==
  Done(<<"find", e>>, {buckets}, elem_cnt, find_elem(buckets[find_bucket(buckets, e)], e))

hash_delete(e) ==
  LET found == find_elem(buckets[find_bucket(buckets, e)], e) IN
  IF found = NULL THEN Done(<<"delete", e>>, {buckets}, elem_cnt, NULL)
  ELSE Done(<<"delete", e>>, rehash(remove_elem(buckets, found), elem_cnt - 1), elem_cnt - 1, found)

hash_clear ==
  Done(<<"clear">>, {Empty(bucket_cnt(buckets))}, 0, NULL)

Next ==
  \/ \E e \in Elem : hash_insert(e) \/ hash_replace(e) \/ hash_find(e) \/ hash_delete(e)
  \/ hash_clear

Spec == Init /\ [][Next]_vars

(* hash_first and hash_next: from an element of bucket k, which is at i    *)
(* there, to the next; the elements that an iteration returns.             *)
RECURSIVE hash_next(_, _)
hash_next(k, i) ==
  IF i < Len(buckets[k]) THEN <<buckets[k][i + 1]>> \o hash_next(k, i + 1)
  ELSE IF k + 1 >= bucket_cnt(buckets) THEN <<>> ELSE hash_next(k + 1, 0)
hash_first == hash_next(0, 0)

-----------------------------------------------------------------------------
(* The element with the key of e, by what the table holds. *)
EqualTo(e) == {x \in Held : x[1] = e[1]}
The(S) == IF S = {} THEN NULL ELSE CHOOSE x \in S : TRUE

(* The table is a map from keys to elements: insert, replace, find and     *)
(* delete return and leave what their comments say, with whatever number   *)
(* of buckets growing, shrinking and failed allocations have left.         *)
CallExact ==
  LET e == op'[2]
      to == UNION {ToSet(buckets'[k]) : k \in DOMAIN buckets'} IN
  CASE op'[1] = "insert" -> ret' = The(EqualTo(e)) /\ to = IF EqualTo(e) = {} THEN Held \cup {e} ELSE Held
    [] op'[1] = "replace" -> ret' = The(EqualTo(e)) /\ to = (Held \ EqualTo(e)) \cup {e}
    [] op'[1] = "find" -> ret' = The(EqualTo(e)) /\ to = Held
    [] op'[1] = "delete" -> ret' = The(EqualTo(e)) /\ to = Held \ EqualTo(e)
    [] op'[1] = "clear" -> to = {}
TableExact == [][CallExact]_vars

(* An iteration returns each element once, and hash_size counts them.      *)
IterationComplete ==
  ToSet(hash_first) = Held /\ Len(hash_first) = Cardinality(Held) /\ elem_cnt = Len(hash_first)
=============================================================================
