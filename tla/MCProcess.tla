------------------------------ MODULE MCProcess ------------------------------
(* Process on a machine with few pages for threads. *)
EXTENDS Process, TLC

CONSTANTS page_a, page_b, page_c

(* Pages other than the initial thread's are interchangeable. *)
Pages == Permutations({page_a, page_b, page_c})
=============================================================================
