--------------------------------- MODULE Sorting ---------------------------------
(***************************************************************************)
(* lib/stdlib.c: sort, a heap sort in place, and binary_search, step by    *)
(* step.  Elements are compared by their keys only.                        *)
(***************************************************************************)
EXTENDS Integers, Sequences, SequencesExt, Functions

CONSTANTS
  MaxLen,     \* bound on the length of the array
  Key

VARIABLES
  array, input,     \* the array now and at the call
  pc, i,            \* i: the loop variable of sort
  h, cnt,           \* element that floats down, and size of the heap
  key, first, last, found    \* of binary_search

vars == <<array, input, pc, i, h, cnt, key, first, last, found>>
search == <<key, first, last, found>>

Init ==
  /\ input \in {[k \in 1..n |-> [key |-> f[k], id |-> k]] : n \in 0..MaxLen, f \in [1..MaxLen -> Key]}
  /\ array = input /\ pc = "build" /\ i = Len(input) \div 2 /\ h = 0 /\ cnt = 0
  /\ key = 0 /\ first = 0 /\ last = 0 /\ found = 0

do_swap(s, a, c) == [s EXCEPT ![a] = s[c], ![c] = s[a]]

(* The largest of p and its children *)
Largest(p) ==
  LET l == 2 * p
      r == 2 * p + 1
      m == IF l <= cnt /\ array[l].key > array[p].key THEN l ELSE p
  IN IF r <= cnt /\ array[r].key > array[m].key THEN r ELSE m

(* One turn of the loop of heapify; then on to the caller's next turn *)
heapify ==
  /\ pc \in {"build_heapify", "sort_heapify"}
  /\ IF Largest(h) = h
     THEN /\ pc' = (IF pc = "build_heapify" THEN "build" ELSE "sort") /\ i' = i - 1
          /\ UNCHANGED <<array, h>>
     ELSE /\ array' = do_swap(array, h, Largest(h)) /\ h' = Largest(h)
          /\ UNCHANGED <<pc, i>>
  /\ UNCHANGED <<input, cnt, search>>

Build ==
  /\ pc = "build"
  /\ IF i > 0 THEN pc' = "build_heapify" /\ h' = i /\ cnt' = Len(array) /\ UNCHANGED i
     ELSE pc' = "sort" /\ i' = Len(array) /\ UNCHANGED <<h, cnt>>
  /\ UNCHANGED <<array, input, search>>

Sort ==
  /\ pc = "sort"
  /\ IF i > 1 THEN array' = do_swap(array, 1, i) /\ pc' = "sort_heapify" /\ h' = 1 /\ cnt' = i - 1
     ELSE pc' = "sorted" /\ UNCHANGED <<array, h, cnt>>
  /\ UNCHANGED <<input, i, search>>

-----------------------------------------------------------------------------

(* binary_search, in the half-open range from first to last *)
Search(k) ==
  /\ pc = "sorted" /\ pc' = "search"
  /\ key' = k /\ first' = 1 /\ last' = Len(array) + 1
  /\ UNCHANGED <<array, input, i, h, cnt, found>>

Middle == first + (last - first) \div 2

Probe ==
  /\ pc = "search"
  /\ IF first >= last THEN pc' = "done" /\ UNCHANGED search
     ELSE /\ UNCHANGED key
          /\ IF key < array[Middle].key THEN last' = Middle /\ UNCHANGED <<pc, first, found>>
             ELSE IF key > array[Middle].key THEN first' = Middle + 1 /\ UNCHANGED <<pc, last, found>>
             ELSE found' = Middle /\ pc' = "done" /\ UNCHANGED <<first, last>>
  /\ UNCHANGED <<array, input, i, h, cnt>>

Next == heapify \/ Build \/ Sort \/ (\E k \in Key : Search(k)) \/ Probe

Spec == Init /\ [][Next]_vars
FairSpec == Spec /\ WF_vars(Next)

-----------------------------------------------------------------------------
(* "Sorts ARRAY" (sort): the array is in order, and holds the elements     *)
(* that it held, each as often.                                            *)
SortExact ==
  pc = "sorted" =>
    /\ \A k \in 2..Len(array) : array[k - 1].key <= array[k].key
    /\ Range(array) = Range(input) /\ Len(array) = Len(input)

(* "Returns a match is found, otherwise a null pointer" (binary_search):   *)
(* on a sorted array every key that is there is found, and no other.       *)
SearchExact ==
  pc = "done" =>
    IF found = 0 THEN \A k \in DOMAIN array : array[k].key # key
    ELSE array[found].key = key

(* The loops of heapify, sort and binary_search end: the element floats   *)
(* down, and the range that is searched shrinks, in every turn.            *)
SortEnds == <>(pc = "done")
=============================================================================
