------------------------------- MODULE ListSpec -------------------------------
(***************************************************************************)
(* What the functions of lib/kernel/list.h promise: lists are sequences of *)
(* elements, an element is in one list at most.  op is the last call with  *)
(* its arguments, ret what it returned.                                    *)
(***************************************************************************)
EXTENDS Naturals, Sequences, FiniteSets, SequencesExt

CONSTANTS List, Elem, NULL

VARIABLES lists, key, op, ret

vars == <<lists, key, op, ret>>

In(e) == \E l \in List : e \in ToSet(lists[l])
Le(a, b) == key[a] <= key[b]
InOrder(s) == \A i, j \in DOMAIN s : i < j => Le(s[i], s[j])

(* The elements in the order of their keys; equal ones keep their order. *)
Ordered(s) ==
  LET rank(i) == Cardinality({j \in DOMAIN s : key[s[j]] < key[s[i]] \/ (key[s[j]] = key[s[i]] /\ j <= i)}) IN
  [k \in DOMAIN s |-> s[CHOOSE i \in DOMAIN s : rank(i) = k]]

(* The first of each run of elements with one key, or the others. *)
Pick(s, first) ==
  LET kept == {i \in DOMAIN s : first = (i = 1 \/ key[s[i]] # key[s[i - 1]])} IN
  [k \in 1..Cardinality(kept) |-> s[CHOOSE i \in kept : Cardinality({j \in kept : j <= i}) = k]]

(* The first element that no other precedes in the order lt, or the tail.  *)
FirstOf(s, lt(_, _)) ==
  IF s = <<>> THEN NULL
  ELSE s[CHOOSE i \in DOMAIN s :
           /\ \A j \in DOMAIN s : ~lt(s[j], s[i])
           /\ \A j \in 1..i - 1 : lt(s[i], s[j])]

Returns(v) == ret' = v
Becomes(l, s) == lists' = [lists EXCEPT ![l] = s]

Init == lists = [l \in List |-> <<>>] /\ op = <<"init">> /\ ret = NULL /\ key \in [Elem -> Nat]

Step ==
  LET name == op'[1] IN
  \/ \E l \in List, e \in Elem :
       /\ op' = <<name, l, e>> /\ ~In(e) /\ Returns(NULL)
       /\ \/ name = "push_front" /\ Becomes(l, <<e>> \o lists[l])
          \/ name = "push_back" /\ Becomes(l, Append(lists[l], e))
          \/ /\ name = "insert_ordered" /\ InOrder(lists[l])
             /\ Becomes(l, SelectSeq(lists[l], LAMBDA x : Le(x, e)) \o <<e>>
                             \o SelectSeq(lists[l], LAMBDA x : ~Le(x, e)))
  \/ \E l \in List :
       /\ op' = <<name, l>>
       /\ \/ /\ name = "pop_front" /\ lists[l] # <<>>
             /\ Returns(Head(lists[l])) /\ Becomes(l, Tail(lists[l]))
          \/ /\ name = "pop_back" /\ lists[l] # <<>>
             /\ Returns(Last(lists[l])) /\ Becomes(l, Front(lists[l]))
          \/ name = "reverse" /\ Returns(NULL) /\ Becomes(l, Reverse(lists[l]))
          \/ name = "sort" /\ Returns(NULL) /\ Becomes(l, Ordered(lists[l]))
          \/ name = "size" /\ Returns(Len(lists[l])) /\ UNCHANGED lists
          \/ name = "max" /\ Returns(FirstOf(lists[l], LAMBDA a, b : key[a] > key[b])) /\ UNCHANGED lists
          \/ name = "min" /\ Returns(FirstOf(lists[l], LAMBDA a, b : key[a] < key[b])) /\ UNCHANGED lists
          \/ name = "unique" /\ Returns(NULL) /\ Becomes(l, Pick(lists[l], TRUE))
  \/ \E l, d \in List :
       /\ op' = <<name, l, d>> /\ name = "unique" /\ l # d /\ Returns(NULL)
       /\ lists' = [lists EXCEPT ![l] = Pick(lists[l], TRUE), ![d] = @ \o Pick(lists[l], FALSE)]
  \/ \E e \in Elem :
       /\ op' = <<name, e>> /\ Returns(NULL)
       /\ \/ name = "remove" /\ In(e) /\ lists' = [l \in List |-> SelectSeq(lists[l], LAMBDA x : x # e)]
          \/ name = "remove_again" /\ UNCHANGED lists
  \/ \E l, m \in List, p, i, j \in 1..Cardinality(Elem) + 1 :
       /\ op' = <<name, l, p, m, i, j>> /\ name = "splice" /\ Returns(NULL)
       /\ LET moved == SubSeq(lists[m], i, j - 1)
              rest  == SubSeq(lists[m], 1, i - 1) \o SubSeq(lists[m], j, Len(lists[m])) IN
          lists' = IF l # m
                   THEN [lists EXCEPT ![m] = rest, ![l] = SubSeq(@, 1, p - 1) \o moved \o SubSeq(@, p, Len(@))]
                   ELSE LET q == IF p >= j THEN p - (j - i) ELSE p IN
                        [lists EXCEPT ![l] = SubSeq(rest, 1, q - 1) \o moved \o SubSeq(rest, q, Len(rest))]

Next == Step /\ UNCHANGED key
Spec == Init /\ [][Next]_vars
=============================================================================
