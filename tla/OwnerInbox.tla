----------------------------- MODULE OwnerInbox -----------------------------
(***************************************************************************)
(* The owner inbox of the Gugu runtime (runtime/inbox.rs): producers       *)
(* publish chains of message nodes to the shards of an owner, the owner    *)
(* drains them without a lock.  A shared word (tail, front, a node's next) *)
(* is loaded or stored once in an action.                                  *)
(*                                                                         *)
(* A message is named by the node that carries it.  The free stack of the  *)
(* node pool is one sequence: the runtime only pops from it while          *)
(* producers run, and pushes to it in release_graced_nodes.                *)
(***************************************************************************)
EXTENDS Naturals, Sequences

CONSTANTS
  Producers,
  Shards,
  Capacity,    \* message nodes in the pool
  MaxBatch,    \* items a chain may hold
  BudgetItems  \* items one service call may drain

ASSUME InboxAssumption ==
  /\ Capacity \in Nat
  /\ MaxBatch \in Nat \ {0}
  /\ BudgetItems \in Nat \ {0}

VARIABLES
  free,      \* the free stack of the node pool
  next,      \* next[n]: the node's link
  tail,      \* tail[s]: last published node
  front,     \* front[s]: where the consumer starts
  last,      \* last[s]: the last node the consumer has processed
  chain,     \* chain[p]: the chain p stages or publishes
  dest,      \* dest[p]: the shard of that chain
  step,      \* step[p]: the last publication step p has made
  oldTail,   \* oldTail[p]: what the exchange of p returned
  service,   \* the consumer's service call
  graced,    \* processed nodes that wait for the grace
  order,     \* history: order[s] lists the nodes in the order of exchanges
  processed  \* history: processed[s] lists the nodes the consumer has processed

Nodes  == 1 .. Capacity
NoNode == 0                  \* NULL_LINK
Links  == Nodes \union {NoNode}
Back(q) == q[Len(q)]
NoShard == "none"
NoService == [at |-> "idle", shard |-> NoShard, nodes |-> <<>>, cursor |-> NoNode]

producerVars == <<free, chain, dest, step, oldTail>>
consumerVars == <<last, service, graced, processed>>

Init ==
  /\ free = [i \in 1 .. Capacity |-> i]
  /\ next = [n \in Nodes |-> NoNode]
  /\ tail = [s \in Shards |-> NoNode]
  /\ front = [s \in Shards |-> NoNode]
  /\ last = [s \in Shards |-> NoNode]
  /\ chain = [p \in Producers |-> <<>>]
  /\ dest \in [Producers -> Shards]  \* of no account while the chain is empty
  /\ step = [p \in Producers |-> "staging"]
  /\ oldTail = [p \in Producers |-> NoNode]
  /\ service = NoService
  /\ graced = <<>>
  /\ order = [s \in Shards |-> <<>>]
  /\ processed = [s \in Shards |-> <<>>]

-----------------------------------------------------------------------------
(* stage_message: a node from the pool is appended to the staged chain,    *)
(* which keeps one shard.                                                  *)
Stage(p, s) ==
  /\ step[p] = "staging" /\ Len(chain[p]) < MaxBatch
  /\ chain[p] # <<>> => s = dest[p]
  /\ free # <<>>
  /\ LET n == Head(free)
     IN  /\ next' = [m \in Nodes |->
               IF m = n THEN NoNode
               ELSE IF chain[p] # <<>> /\ m = Back(chain[p]) THEN n
               ELSE next[m]]
         /\ chain' = [chain EXCEPT ![p] = Append(@, n)]
  /\ free' = Tail(free)
  /\ dest' = [dest EXCEPT ![p] = s]
  /\ UNCHANGED <<tail, front, step, oldTail, consumerVars, order>>

(* The four steps of publish_batch.                                        *)
PrepareChain(p) ==
  /\ step[p] = "staging" /\ chain[p] # <<>>
  /\ next' = [next EXCEPT ![Back(chain[p])] = NoNode]
  /\ step' = [step EXCEPT ![p] = "prepared"]
  /\ UNCHANGED <<free, tail, front, chain, dest, oldTail, consumerVars, order>>

ExchangeTail(p) ==
  /\ step[p] = "prepared"
  /\ oldTail' = [oldTail EXCEPT ![p] = tail[dest[p]]]
  /\ tail' = [tail EXCEPT ![dest[p]] = Back(chain[p])]
  /\ order' = [order EXCEPT ![dest[p]] = @ \o chain[p]]
  /\ step' = [step EXCEPT ![p] = "exchanged"]
  /\ UNCHANGED <<free, next, front, chain, dest, consumerVars>>

(* Mutant: the old tail is linked to the end of the chain.                 *)
LinkToEnd(p) ==
  /\ step[p] = "exchanged"
  /\ next' = [m \in Nodes |-> IF m = oldTail[p] THEN Back(chain[p]) ELSE next[m]]
  /\ step' = [step EXCEPT ![p] = "linked"]
  /\ UNCHANGED <<free, tail, front, chain, dest, oldTail, consumerVars, order>>

LinkOldTail(p) ==
  /\ step[p] = "exchanged"
  /\ next' = [m \in Nodes |-> IF m = oldTail[p] THEN Head(chain[p]) ELSE next[m]]
  /\ step' = [step EXCEPT ![p] = "linked"]
  /\ UNCHANGED <<free, tail, front, chain, dest, oldTail, consumerVars, order>>

PublishFront(p) ==
  /\ step[p] = "linked"
  /\ front' = IF oldTail[p] = NoNode THEN [front EXCEPT ![dest[p]] = Head(chain[p])] ELSE front
  /\ step' = [step EXCEPT ![p] = "staging"]
  /\ chain' = [chain EXCEPT ![p] = <<>>]
  /\ UNCHANGED <<free, next, tail, dest, oldTail, consumerVars, order>>

Publish(p) == PrepareChain(p) \/ ExchangeTail(p) \/ LinkOldTail(p) \/ PublishFront(p)

-----------------------------------------------------------------------------
(* snapshot: resume behind the last processed node, or start at front;     *)
(* follow the links until one is null or the budget is used up.            *)
Start(s) == IF last[s] # NoNode THEN next[last[s]] ELSE front[s]

SnapshotStart(s) ==
  /\ service.at = "idle"
  /\ service' = [at |-> IF Start(s) = NoNode THEN "advance" ELSE "walk",
                 shard |-> s, nodes |-> <<>>, cursor |-> Start(s)]
  /\ UNCHANGED <<producerVars, next, tail, front, last, graced, processed, order>>

(* Mutant: a null link does not end the walk.                              *)
VisitPastNull ==
  /\ service.at = "walk" /\ Len(service.nodes) < BudgetItems
  /\ service' = [service EXCEPT
        !.nodes = Append(@, service.cursor),
        !.cursor = next[service.cursor]]
  /\ UNCHANGED <<producerVars, next, tail, front, last, graced, processed, order>>

SnapshotVisit ==
  /\ service.at = "walk" /\ Len(service.nodes) < BudgetItems
  /\ service' = [service EXCEPT
        !.nodes = Append(@, service.cursor),
        !.cursor = next[service.cursor],
        !.at = IF next[service.cursor] = NoNode THEN "advance" ELSE "walk"]
  /\ UNCHANGED <<producerVars, next, tail, front, last, graced, processed, order>>

(* The item limit was reached, or the byte limit (which never refuses the  *)
(* first node).                                                            *)
SnapshotBudget ==
  /\ service.at = "walk" /\ service.nodes # <<>>
  /\ service' = [service EXCEPT !.at = "advance"]
  /\ UNCHANGED <<producerVars, next, tail, front, last, graced, processed, order>>

(* service has applied the messages of the snapshot; advance_front.        *)
(* Mutants: the consumer resumes behind the first node of the snapshot; or *)
(* it takes a null link for an empty queue and forgets its position.       *)
AdvanceOne ==
  LET s == service.shard
      q == service.nodes
  IN  /\ service.at = "advance"
      /\ last' = IF q = <<>> THEN last ELSE [last EXCEPT ![s] = Head(q)]
      /\ front' = [front EXCEPT ![s] = service.cursor]
      /\ graced' = graced \o q
      /\ processed' = [processed EXCEPT ![s] = @ \o q]
      /\ service' = NoService
      /\ UNCHANGED <<producerVars, next, tail, order>>

AdvanceForgets ==
  LET s == service.shard
      q == service.nodes
  IN  /\ service.at = "advance"
      /\ last' = [last EXCEPT ![s] = IF service.cursor = NoNode THEN NoNode ELSE Back(q)]
      /\ front' = [front EXCEPT ![s] = service.cursor]
      /\ graced' = graced \o q
      /\ processed' = [processed EXCEPT ![s] = @ \o q]
      /\ service' = NoService
      /\ UNCHANGED <<producerVars, next, tail, order>>

AdvanceFront ==
  LET s == service.shard
      q == service.nodes
  IN  /\ service.at = "advance"
      /\ last' = IF q = <<>> THEN last ELSE [last EXCEPT ![s] = Back(q)]
      /\ front' = [front EXCEPT ![s] = service.cursor]
      /\ graced' = graced \o q
      /\ processed' = [processed EXCEPT ![s] = @ \o q]
      /\ service' = NoService
      /\ UNCHANGED <<producerVars, next, tail, order>>

Consume == SnapshotVisit \/ SnapshotBudget \/ AdvanceFront \/ \E s \in Shards : SnapshotStart(s)

(* release_graced_nodes, called with producers and consumer at rest: the   *)
(* processed nodes go back to the pool, every consumer forgets last.       *)
Release ==
  /\ \A p \in Producers : chain[p] = <<>>
  /\ service.at = "idle" /\ graced # <<>>
  /\ free' = [i \in 1 .. Len(graced) |-> graced[Len(graced) + 1 - i]] \o free
  /\ graced' = <<>>
  /\ last' = [s \in Shards |-> NoNode]
  /\ UNCHANGED <<next, tail, front, chain, dest, step, oldTail, service, order, processed>>

vars == <<free, next, tail, front, last, chain, dest, step, oldTail, service,
          graced, order, processed>>

(* Between two graces; and with them.                                      *)
Next == Consume \/ \E p \in Producers : Publish(p) \/ \E s \in Shards : Stage(p, s)
Spec == Init /\ [][Next]_vars

ReuseNext == Next \/ Release
ReuseSpec == Init /\ [][ReuseNext]_vars

(* The owner serves every shard again and again, and its calls end; a      *)
(* producer that has begun a publication finishes it.                      *)
Fairness ==
  /\ \A s \in Shards : SF_vars(SnapshotStart(s))
  /\ WF_vars(SnapshotVisit \/ SnapshotBudget \/ AdvanceFront)
  /\ \A p \in Producers : WF_vars(Publish(p))
FairSpec == Spec /\ Fairness

-----------------------------------------------------------------------------
TypeOK ==
  /\ free \in Seq(Nodes)
  /\ next \in [Nodes -> Links]
  /\ tail \in [Shards -> Links] /\ front \in [Shards -> Links] /\ last \in [Shards -> Links]
  /\ chain \in [Producers -> Seq(Nodes)]
  /\ dest \in [Producers -> Shards]
  /\ step \in [Producers -> {"staging", "prepared", "exchanged", "linked"}]
  /\ oldTail \in [Producers -> Links]
  /\ service \in [at : {"idle", "walk", "advance"}, shard : Shards \union {NoShard},
                  nodes : Seq(Nodes), cursor : Links]
  /\ service.at # "idle" => service.shard \in Shards
  /\ service.at = "walk" => service.cursor \in Nodes
  /\ graced \in Seq(Nodes)
  /\ order \in [Shards -> Seq(Nodes)] /\ processed \in [Shards -> Seq(Nodes)]

(* inbox.rs:8: a null link means "visible later".  Behind every published  *)
(* node stands its successor in the order of exchanges, or a producer that *)
(* is about to link exactly this pair; the last node's link is null.       *)
AboutToLink(p, x, y) == step[p] = "exchanged" /\ oldTail[p] = x /\ Head(chain[p]) = y

LinksFollowOrder ==
  \A s \in Shards :
    /\ \A i \in 1 .. Len(order[s]) - 1 :
         LET x == order[s][i]
             y == order[s][i + 1]
         IN  \/ next[x] = y
             \/ next[x] = NoNode /\ \E p \in Producers : AboutToLink(p, x, y)
    /\ order[s] # <<>> => tail[s] = Back(order[s]) /\ next[tail[s]] = NoNode

(* Each shard behaves as the FIFO queue of InboxSpec: the exchange of tail *)
(* publishes a chain, and what the owner processes is always a prefix, so  *)
(* each message once and in each producer's order.                         *)
Abstract == INSTANCE InboxSpec WITH sent <- order, done <- processed
ImplementsQueue == Abstract!Spec

(* Once the consumer has a position in a shard, every message published    *)
(* there is processed in the end: a null seen too early costs only time.   *)
LateLinksAppear ==
  \A n \in Nodes, s \in Shards :
    last[s] # NoNode /\ (\E i \in 1 .. Len(order[s]) : order[s][i] = n)
      ~> \E i \in 1 .. Len(processed[s]) : processed[s][i] = n

(* The chains of a shard are within reach: when no publication is under    *)
(* way, unprocessed messages have a link or a front that leads to them.    *)
PublishedIsReachable ==
  \A s \in Shards :
    /\ Len(processed[s]) < Len(order[s])
    /\ \A p \in Producers : dest[p] = s => step[p] = "staging"
    /\ service.at = "idle"
    => Start(s) # NoNode

(* inbox.rs:254: before nodes are used again, front and last are set up     *)
(* afresh.  So when a publication ends with the owner and all the other    *)
(* producers at rest, the owner's next call finds a node.                  *)
PublicationIsFound ==
  [][\A p \in Producers :
       /\ step[p] = "linked" /\ step'[p] = "staging"
       /\ service.at = "idle" /\ \A r \in Producers \ {p} : step[r] = "staging"
       => Start(dest[p])' # NoNode]_vars
=============================================================================
