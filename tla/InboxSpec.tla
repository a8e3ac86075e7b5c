------------------------------ MODULE InboxSpec ------------------------------
(***************************************************************************)
(* What an owner inbox promises: each shard is a FIFO queue.  A producer   *)
(* appends a whole chain in one step, the owner takes some messages from   *)
(* the front, and no message ever enters twice.                            *)
(***************************************************************************)
EXTENDS Naturals, Sequences

CONSTANTS Shards, Nodes

VARIABLES
  sent,   \* sent[s]: all messages published to s, oldest first
  done    \* done[s]: those the owner has processed, oldest first

Init ==
  /\ sent = [s \in Shards |-> <<>>]
  /\ done = [s \in Shards |-> <<>>]

Occurs(n, q) == \E i \in 1 .. Len(q) : q[i] = n

Publish(s, c) ==
  /\ \A i, j \in 1 .. Len(c) : c[i] = c[j] => i = j
  /\ \A i \in 1 .. Len(c), t \in Shards : c[i] \in Nodes /\ ~Occurs(c[i], sent[t])
  /\ sent' = [sent EXCEPT ![s] = @ \o c]
  /\ UNCHANGED done

Process(s, k) ==
  /\ Len(done[s]) + k <= Len(sent[s])
  /\ done' = [done EXCEPT ![s] = @ \o SubSeq(sent[s], Len(@) + 1, Len(@) + k)]
  /\ UNCHANGED sent

(* The chain that a step appended.                                         *)
Appended(s) == SubSeq(sent'[s], Len(sent[s]) + 1, Len(sent'[s]))

Next == \E s \in Shards : Publish(s, Appended(s)) \/ \E k \in 1 .. Len(sent[s]) : Process(s, k)

vars == <<sent, done>>

Spec == Init /\ [][Next]_vars
=============================================================================
