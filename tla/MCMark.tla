------------------------------- MODULE MCMark -------------------------------
(***************************************************************************)
(* Instance of MarkCycle for TLC: owner A with two objects in one block,   *)
(* owner B with one.                                                       *)
(***************************************************************************)
EXTENDS MarkCycle

CONSTANTS A, B, a1, a2, b1, bx, by

Block0 == [o \in Objects |-> IF o = b1 THEN by ELSE bx]
Heap0 == [b \in Blocks |-> IF b = by THEN B ELSE A]

\* A heap by the one field of every object and the two roots.
Heap(ofA1, ofB1, root1, root2) ==
  [fields |-> [o \in Objects |-> [f \in Fields |->
                 CASE o = a1 -> ofA1 [] o = b1 -> ofB1 [] OTHER -> Null]],
   roots  |-> [r \in Roots |-> IF r = 1 THEN root1 ELSE root2]]

\* Nothing yet; a chain across the owners and back, held by one root; an
\* object that a root of its owner and a field of the other owner share.
Starts == {Heap(Null, Null, Null, Null),
           Heap(b1, a2, a1, Null),
           Heap(b1, Null, a1, b1)}
=============================================================================
