--------------------------------- MODULE Lists ---------------------------------
(***************************************************************************)
(* The doubly linked lists of lib/kernel/list.c at the level of their      *)
(* pointers.  An element keeps the pointers it had when it was removed.    *)
(* h is the memory: the prev and the next of every element, and of the     *)
(* head and the tail of every list.                                        *)
(***************************************************************************)
EXTENDS Naturals, Sequences, FiniteSets

CONSTANTS
  List, Elem,  \* disjoint from the heads and the tails
  Key,         \* values that the order less compares
  Calls,       \* bound: the functions that are called
  NULL

(* What the instances satisfy. *)
ListsAssumption == List \subseteq 1..9 /\ Elem \subseteq 1..9 /\ NULL = 0

list_head(l) == 10 * l
list_tail(l) == 10 * l + 1
Node == Elem \cup {list_head(l) : l \in List} \cup {list_tail(l) : l \in List}

VARIABLES h, key, op, ret

vars == <<h, key, op, ret>>

less(a, b) == key[a] < key[b]

list_init ==
  [prev |-> [n \in Node |-> IF \E l \in List : n = list_tail(l) THEN n - 1 ELSE NULL],
   next |-> [n \in Node |-> IF \E l \in List : n = list_head(l) THEN n + 1 ELSE NULL]]

is_interior(n) == h.prev[n] # NULL /\ h.next[n] # NULL
list_begin(m, l) == m.next[list_head(l)]
list_end(l) == list_tail(l)
list_empty(l) == list_begin(h, l) = list_end(l)

list_insert(m, before, elem) ==
  [prev |-> [m.prev EXCEPT ![elem] = m.prev[before], ![before] = elem],
   next |-> [m.next EXCEPT ![elem] = before, ![m.prev[before]] = elem]]

(* Faulty variant of list_remove: one direction only. *)
list_remove_forward(m, elem) ==
  [prev |-> m.prev,
   next |-> [m.next EXCEPT ![m.prev[elem]] = m.next[elem]]]

list_remove(m, elem) ==
  [prev |-> [m.prev EXCEPT ![m.next[elem]] = m.prev[elem]],
   next |-> [m.next EXCEPT ![m.prev[elem]] = m.next[elem]]]

(* The six assignments in their order: they may meet in one element. *)
list_splice(m, before, first, end) ==
  IF first = end THEN m
  ELSE LET last == m.prev[end]
           cut  == [prev |-> [m.prev EXCEPT ![m.next[last]] = m.prev[first]],
                    next |-> [m.next EXCEPT ![m.prev[first]] = m.next[last]]]
           b    == cut.prev[before] IN
       [prev |-> [[cut.prev EXCEPT ![first] = b] EXCEPT ![before] = last],
        next |-> [[cut.next EXCEPT ![last] = before] EXCEPT ![b] = first]]

RECURSIVE Walk(_, _, _)
Walk(m, e, end) == IF e = end THEN <<>> ELSE <<e>> \o Walk(m, m.next[e], end)

list_size(l) == Len(Walk(h, list_begin(h, l), list_end(l)))

swap(m, n) == [prev |-> [m.prev EXCEPT ![n] = m.next[n]], next |-> [m.next EXCEPT ![n] = m.prev[n]]]

RECURSIVE ReverseLoop(_, _, _)
ReverseLoop(m, e, end) ==
  IF e = end THEN m ELSE LET s == swap(m, e) IN ReverseLoop(s, s.prev[e], end)

list_reverse(l) ==
  IF list_empty(l) THEN h
  ELSE LET m     == ReverseLoop(h, list_begin(h, l), list_end(l))
           first == m.prev[list_tail(l)]
           last  == m.next[list_head(l)]
           ends  == [prev |-> [m.prev EXCEPT ![list_tail(l)] = last],
                     next |-> [m.next EXCEPT ![list_head(l)] = first]] IN
       [prev |-> [ends.prev EXCEPT ![first] = ends.next[last]],
        next |-> [ends.next EXCEPT ![last] = ends.prev[first]]]

RECURSIVE find_end_of_run(_, _, _)
find_end_of_run(m, a, b) ==
  LET n == m.next[a] IN
  IF n # b /\ ~less(n, m.prev[n]) THEN find_end_of_run(m, n, b) ELSE n

RECURSIVE inplace_merge(_, _, _, _)
inplace_merge(m, a0, a1b0, b1) ==
  IF a0 = a1b0 \/ a1b0 = b1 THEN m
  ELSE IF ~less(a1b0, a0) THEN inplace_merge(m, m.next[a0], a1b0, b1)
  ELSE LET n == m.next[a1b0] IN inplace_merge(list_splice(m, a0, m.prev[n], n), a0, n, b1)

(* One pass of list_sort, from a0 on; it counts the runs it has made. *)
RECURSIVE SortPass(_, _, _, _)
SortPass(m, a0, end, output_run_cnt) ==
  IF a0 = end THEN [m |-> m, cnt |-> output_run_cnt]
  ELSE LET a1b0 == find_end_of_run(m, a0, end) IN
       IF a1b0 = end THEN [m |-> m, cnt |-> output_run_cnt + 1]
       ELSE LET b1 == find_end_of_run(m, a1b0, end) IN
            SortPass(inplace_merge(m, a0, a1b0, b1), b1, end, output_run_cnt + 1)

RECURSIVE list_sort(_, _)
list_sort(m, l) ==
  LET pass == SortPass(m, list_begin(m, l), list_end(l), 0) IN
  IF pass.cnt > 1 THEN list_sort(pass.m, l) ELSE pass.m

(* Where list_insert_ordered inserts. *)
RECURSIVE OrderedPlace(_, _, _)
OrderedPlace(elem, e, end) ==
  IF e = end \/ less(elem, e) THEN e ELSE OrderedPlace(elem, h.next[e], end)

RECURSIVE UniqueLoop(_, _, _, _)
UniqueLoop(m, elem, end, duplicates) ==
  LET next == m.next[elem]
      cut  == list_remove(m, next) IN
  IF next = end THEN m
  ELSE IF less(elem, next) \/ less(next, elem) THEN UniqueLoop(m, next, end, duplicates)
  ELSE UniqueLoop(IF duplicates = NULL THEN cut ELSE list_insert(cut, list_end(duplicates), next),
                  elem, end, duplicates)

list_unique(l, duplicates) ==
  IF list_empty(l) THEN h ELSE UniqueLoop(h, list_begin(h, l), list_end(l), duplicates)

RECURSIVE MaxLoop(_, _, _)
MaxLoop(max, e, end) ==
  IF e = end THEN max ELSE MaxLoop(IF less(max, e) THEN e ELSE max, h.next[e], end)
list_max(l) == IF list_empty(l) THEN NULL ELSE MaxLoop(list_begin(h, l), h.next[list_begin(h, l)], list_end(l))

RECURSIVE MinLoop(_, _, _)
MinLoop(min, e, end) ==
  IF e = end THEN min ELSE MinLoop(IF less(e, min) THEN e ELSE min, h.next[e], end)
list_min(l) == IF list_empty(l) THEN NULL ELSE MinLoop(list_begin(h, l), h.next[list_begin(h, l)], list_end(l))

-----------------------------------------------------------------------------
(* The callers keep to the rules of list.h: they insert what is in no list *)
(* and remove what is in one.                                              *)
Seq_(l) == Walk(h, list_begin(h, l), list_end(l))
Position(l) == Seq_(l) \o <<list_end(l)>>
In(e) == \E l \in List : \E i \in DOMAIN Seq_(l) : Seq_(l)[i] = e
Sorted(l) == \A i \in 1..Len(Seq_(l)) - 1 : ~less(Seq_(l)[i + 1], Seq_(l)[i])

Called(call, m, v) ==
  /\ call[1] \in Calls
  /\ op' = call /\ h' = m /\ ret' = v /\ UNCHANGED key

Init == h = list_init /\ key \in [Elem -> Key] /\ op = <<"init">> /\ ret = NULL

list_push_front(l, e) == ~In(e) /\ Called(<<"push_front", l, e>>, list_insert(h, list_begin(h, l), e), NULL)
list_push_back(l, e) == ~In(e) /\ Called(<<"push_back", l, e>>, list_insert(h, list_end(l), e), NULL)
list_insert_ordered(l, e) ==
  /\ ~In(e) /\ Sorted(l)
  /\ Called(<<"insert_ordered", l, e>>, list_insert(h, OrderedPlace(e, list_begin(h, l), list_end(l)), e), NULL)
list_pop_front(l) ==
  ~list_empty(l) /\ Called(<<"pop_front", l>>, list_remove(h, h.next[list_head(l)]), h.next[list_head(l)])
list_pop_back(l) ==
  ~list_empty(l) /\ Called(<<"pop_back", l>>, list_remove(h, h.prev[list_tail(l)]), h.prev[list_tail(l)])
Remove(e) == In(e) /\ Called(<<"remove", e>>, list_remove(h, e), NULL)
(* munmap removes from mmap_list what do_munmap has just removed. *)
RemoveAgain(e) == op = <<"remove", e>> /\ Called(<<"remove_again", e>>, list_remove(h, e), NULL)
Splice(l, p, m, i, j) ==
  /\ p <= Len(Position(l)) /\ i <= j /\ j <= Len(Position(m))
  /\ l = m => p \notin i..j - 1
  /\ Called(<<"splice", l, p, m, i, j>>,
            list_splice(h, Position(l)[p], Position(m)[i], Position(m)[j]), NULL)
Reverse == \E l \in List : Called(<<"reverse", l>>, list_reverse(l), NULL)
Sort == \E l \in List : Called(<<"sort", l>>, list_sort(h, l), NULL)
Unique ==
  \/ \E l \in List : Called(<<"unique", l>>, list_unique(l, NULL), NULL)
  \/ \E l, d \in List : l # d /\ Called(<<"unique", l, d>>, list_unique(l, d), NULL)
Ask ==
  \E l \in List :
    \/ Called(<<"size", l>>, h, list_size(l))
    \/ Called(<<"max", l>>, h, list_max(l))
    \/ Called(<<"min", l>>, h, list_min(l))

Next ==
  \/ \E l \in List, e \in Elem : list_push_front(l, e) \/ list_push_back(l, e) \/ list_insert_ordered(l, e)
  \/ \E l \in List : list_pop_front(l) \/ list_pop_back(l)
  \/ \E e \in Elem : Remove(e) \/ RemoveAgain(e)
  \/ \E l, m \in List, p, i, j \in 1..Cardinality(Elem) + 1 : Splice(l, p, m, i, j)
  \/ Reverse \/ Sort \/ Unique \/ Ask

Spec == Init /\ [][Next]_vars

-----------------------------------------------------------------------------
lists == [l \in List |-> Seq_(l)]
Abstract == INSTANCE ListSpec

(* The pointers implement sequences: after any sequence of calls, every    *)
(* function of list.c does to the lists, walked from the head, what        *)
(* list.h says it does, and returns what it says; the sort is stable.      *)
ImplementsSequences == Abstract!Spec

(* Walked from the tail, every list is the reverse of what it is from the  *)
(* head.                                                                   *)
BothDirections ==
  \A l \in List :
    LET p == <<list_head(l)>> \o Position(l) IN
    \A i \in 2..Len(p) : h.prev[p[i]] = p[i - 1] /\ (i < Len(p) => is_interior(p[i]))
=============================================================================
