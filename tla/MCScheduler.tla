---------------------------- MODULE MCScheduler ----------------------------
(***************************************************************************)
(* Instance of Scheduler for TLC: two producers whose seeds choose         *)
(* different shards.                                                       *)
(***************************************************************************)
EXTENDS Scheduler, TLC

CONSTANTS p1, p2, c1, c2, c3, c4, w1, w2

Seeds == [pr \in Producers |-> IF pr = p1 THEN 0 ELSE 1]
Symmetry == Permutations(Coroutines) \union Permutations(Workers)
=============================================================================
