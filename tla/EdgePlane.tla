------------------------------ MODULE EdgePlane ------------------------------
(***************************************************************************)
(* Counted edges between heap blocks, kept twice: the summary on the       *)
(* source side (barrier.rs) counts the fields that point from one block    *)
(* into another, and the plane on the target side (edge.rs) counts what it *)
(* was told.  A delta carries the net change since the last publication,   *)
(* under a sequence number of its pair of blocks; the target applies only  *)
(* the number it expects next and keeps later ones.                        *)
(***************************************************************************)
EXTENDS Integers, Sequences, FiniteSets, FiniteSetsExt

CONSTANTS Blocks, NoBlock

Pairs == {p \in Blocks \X Blocks : p[1] # p[2]}

(* The source side. *)
Entry(n, k) == [active |-> n, published |-> n, sequence |-> k]
\* A pair with n references that were all published, at most at once.
StartEntry(n) == Entry(n, IF n = 0 THEN 0 ELSE 1)

\* One store in block source replaces a reference into old by one into new.
Removed(source, old, new) == {p \in Pairs : p = <<source, old>> /\ new # old}
Added(source, new) == {p \in Pairs : p = <<source, new>>}

Merged(summary, source, old, new) ==
  [p \in Pairs |->
     [summary[p] EXCEPT !.active =
        CASE p \in Added(source, new)        -> @ + 1
          [] p \in Removed(source, old, new) -> @ - 1
          [] OTHER                           -> @]]

Unpublished(summary) == {p \in Pairs : summary[p].active # summary[p].published}

\* Mutant: the whole count is published, not the change.
WholeCount(entry) == entry.active

NetChange(entry) == entry.active - entry.published
Published(entry) == Entry(entry.active, entry.sequence + 1)

(* The target side. *)
NewPair == [applied |-> 0, next |-> 1, held |-> {}]

\* The kept records whose turn comes once sequence number n is applied.
InTurn(held, n) ==
  {h \in held : \A k \in (n + 1)..h.sequence : \E g \in held : g.sequence = k}

SumOf(records) == MapThenSumSet(LAMBDA r : r.delta, records)

ApplyInOrder(pair, record) ==
  LET released == InTurn(pair.held, record.sequence)
  IN  [applied |-> pair.applied + record.delta + SumOf(released),
       next    |-> record.sequence + 1 + Cardinality(released),
       held    |-> pair.held \ released]
Hold(pair, record) == [pair EXCEPT !.held = @ \union {record}]

\* Credits given back when a record is applied: its own and those of the
\* records its turn released.
ReleasedCredits(pair, record) ==
  {r.credit : r \in {record} \union InTurn(pair.held, record.sequence)}

StartPair(n) ==
  IF n = 0 THEN NewPair ELSE [applied |-> n, next |-> 2, held |-> {}]

RetireZeroPairs(plane) ==
  [p \in Pairs |->
     IF plane[p].applied = 0 /\ plane[p].held = {} THEN NewPair ELSE plane[p]]
=============================================================================
