--------------------------------- MODULE MCVm ---------------------------------
(* Instances of Vm for TLC: process p with a stack, segments and a mapped   *)
(* file, process q with a stack and a segment.                             *)
EXTENDS Vm, TLC

CONSTANTS p, q, ps, pb, pc1, pm, qs, qb, f1, f2, f3

MCOwner == [v \in VPage |-> IF v \in {qs, qb} THEN q ELSE p]
MCKind == [v \in VPage |-> CASE v \in {ps, qs} -> VM_ANON [] v = pm -> VM_FILE [] OTHER -> VM_BIN]

(* Frames are interchangeable. *)
Frames == Permutations(Frame)
=============================================================================
