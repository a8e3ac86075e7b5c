-------------------------- MODULE OwnerInboxProofs --------------------------
(***************************************************************************)
(* Proofs about OwnerInbox, for every number of producers, shards and      *)
(* nodes and every bound.                                                  *)
(***************************************************************************)
EXTENDS OwnerInbox, SequenceTheorems, TLAPS

Held(n, q)  == \E i \in 1 .. Len(q) : q[i] = n
Distinct(q) == \A i, j \in 1 .. Len(q) : q[i] = q[j] => i = j
Apart(q, r) == \A n \in Nodes : ~Held(n, q) \/ ~Held(n, r)

(* The chain of p is not in the queue yet.                                 *)
Private(p) == step[p] \in {"staging", "prepared"}

(* A node is in one place: free, in one chain, once in one queue.          *)
Places ==
  /\ Distinct(free)
  /\ \A p \in Producers : Distinct(chain[p]) /\ Apart(chain[p], free)
  /\ \A p, r \in Producers : p # r => Apart(chain[p], chain[r])
  /\ \A s \in Shards : Distinct(order[s]) /\ Apart(order[s], free)
  /\ \A s, t \in Shards : s # t => Apart(order[s], order[t])
  /\ \A p \in Producers, s \in Shards : Private(p) => Apart(chain[p], order[s])

(* A private chain is linked from end to end.                              *)
Linked(q, link) ==
  /\ \A i \in 1 .. Len(q) - 1 : link[q[i]] = q[i + 1]
  /\ link[Back(q)] = NoNode

ChainsLinked ==
  \A p \in Producers :
    /\ step[p] # "staging" => chain[p] # <<>>
    /\ Private(p) /\ chain[p] # <<>> => Linked(chain[p], next)

(* Where an exchanged chain joins the queue: in front, or behind oldTail.  *)
JoinsBehind(x, y, q) == \E i \in 1 .. Len(q) - 1 : q[i] = x /\ q[i + 1] = y

Joins(p, q) ==
  /\ oldTail[p] = NoNode => q # <<>> /\ q[1] = Head(chain[p])
  /\ oldTail[p] # NoNode /\ step[p] = "exchanged" => JoinsBehind(oldTail[p], Head(chain[p]), q)

Published ==
  /\ \A p \in Producers : ~Private(p) => Joins(p, order[dest[p]])
  /\ \A s \in Shards : order[s] = <<>> <=> tail[s] = NoNode

(* q is what stands in r behind its first k elements; x is the next.       *)
Segment(q, k, r) ==
  /\ k + Len(q) <= Len(r)
  /\ \A i \in 1 .. Len(q) : q[i] = r[k + i]

At(r, k, x) == x # NoNode => k + 1 <= Len(r) /\ x = r[k + 1]

(* The consumer has a prefix of the queue and knows where it goes on.      *)
Consumed ==
  /\ \A s \in Shards :
       /\ Segment(processed[s], 0, order[s])
       /\ last[s] = IF processed[s] = <<>> THEN NoNode ELSE Back(processed[s])
       /\ At(order[s], Len(processed[s]), front[s])
  /\ service.at # "idle" =>
       LET s == service.shard
       IN  /\ Segment(service.nodes, Len(processed[s]), order[s])
           /\ At(order[s], Len(processed[s]) + Len(service.nodes), service.cursor)

(* As long as the first producer of a shard has not published front, the   *)
(* consumer has seen nothing of it.                                        *)
Unseen(s) ==
  /\ processed[s] = <<>> /\ front[s] = NoNode
  /\ service.at # "idle" /\ service.shard = s =>
       service.nodes = <<>> /\ service.cursor = NoNode

FirstUnseen ==
  \A p \in Producers : ~Private(p) /\ oldTail[p] = NoNode => Unseen(dest[p])

IInv ==
  TypeOK /\ Places /\ ChainsLinked /\ LinksFollowOrder /\ Published /\ Consumed /\ FirstUnseen

-----------------------------------------------------------------------------
(* What the queue operations do to distinct sequences.                     *)
LEMMA AppendFacts ==
  ASSUME NEW S, NEW q \in Seq(S), NEW n \in S, Distinct(q), ~Held(n, q)
  PROVE  /\ Append(q, n) \in Seq(S) /\ Append(q, n) # <<>>
         /\ Len(Append(q, n)) = Len(q) + 1 /\ Back(Append(q, n)) = n
         /\ \A i \in 1 .. Len(q) : Append(q, n)[i] = q[i]
         /\ Distinct(Append(q, n))
         /\ \A m : Held(m, Append(q, n)) <=> Held(m, q) \/ m = n
<1> DEFINE a == Append(q, n)
<1>1. /\ a \in Seq(S) /\ a # <<>> /\ Len(q) \in Nat /\ Len(a) = Len(q) + 1
      /\ a[Len(q) + 1] = n
      /\ \A i \in 1 .. Len(q) : a[i] = q[i]
  BY AppendProperties
<1> HIDE DEF a
<1>2. Distinct(a)
  BY <1>1 DEF Distinct, Held
<1>3. ASSUME NEW m PROVE Held(m, a) <=> Held(m, q) \/ m = n
  BY <1>1 DEF Held
<1> QED BY <1>1, <1>2, <1>3 DEF a, Back

LEMMA TailFacts ==
  ASSUME NEW S, NEW q \in Seq(S), q # <<>>, Distinct(q)
  PROVE  /\ Head(q) \in S /\ Held(Head(q), q)
         /\ Tail(q) \in Seq(S) /\ Distinct(Tail(q))
         /\ \A m : Held(m, Tail(q)) => Held(m, q) /\ m # Head(q)
<1> DEFINE t == Tail(q)
<1>1. /\ t \in Seq(S) /\ Head(q) \in S
      /\ Len(q) \in Nat \ {0} /\ Len(t) = Len(q) - 1 /\ Head(q) = q[1]
      /\ \A i \in 1 .. Len(t) : t[i] = q[i + 1]
  BY HeadTailProperties, EmptySeq
<1> HIDE DEF t
<1>2. Distinct(t)
  BY <1>1 DEF Distinct
<1>3. ASSUME NEW m, Held(m, t) PROVE Held(m, q) /\ m # Head(q)
  <2>1. PICK i \in 1 .. Len(t) : t[i] = m
    BY <1>3 DEF Held
  <2>2. i + 1 \in 1 .. Len(q) /\ q[i + 1] = m /\ 1 \in 1 .. Len(q) /\ i + 1 # 1
    BY <1>1, <2>1
  <2> QED BY <1>1, <2>2 DEF Distinct, Held
<1>4. Held(Head(q), q)
  BY <1>1 DEF Held
<1> QED BY <1>1, <1>2, <1>3, <1>4 DEF t

LEMMA ConcatFacts ==
  ASSUME NEW q \in Seq(Nodes), NEW r \in Seq(Nodes), Distinct(q), Distinct(r), Apart(q, r)
  PROVE  /\ Distinct(q \o r)
         /\ \A m : Held(m, q \o r) <=> Held(m, q) \/ Held(m, r)
<1> DEFINE c == q \o r
<1>1. /\ Len(q) \in Nat /\ Len(r) \in Nat /\ Len(c) = Len(q) + Len(r)
      /\ \A i \in 1 .. Len(q) : c[i] = q[i]
      /\ \A i \in 1 .. Len(r) : c[Len(q) + i] = r[i]
      /\ \A i \in 1 .. Len(c) : c[i] = IF i <= Len(q) THEN q[i] ELSE r[i - Len(q)]
      /\ \A i \in 1 .. Len(q) : q[i] \in Nodes
  BY ConcatProperties
<1> HIDE DEF c
<1>2. ASSUME NEW i \in 1 .. Len(c), NEW j \in 1 .. Len(c), c[i] = c[j]
      PROVE  i = j
  <2>1. CASE i <= Len(q) /\ j <= Len(q)
    BY <1>1, <1>2, <2>1 DEF Distinct
  <2>2. CASE i > Len(q) /\ j > Len(q)
    <3>1. i - Len(q) \in 1 .. Len(r) /\ j - Len(q) \in 1 .. Len(r) /\ r[i - Len(q)] = r[j - Len(q)]
      BY <1>1, <1>2, <2>2
    <3>2. i - Len(q) = j - Len(q)
      BY <3>1 DEF Distinct
    <3> QED BY <1>1, <3>2
  <2>3. CASE i <= Len(q) /\ j > Len(q)
    <3>1. i \in 1 .. Len(q) /\ j - Len(q) \in 1 .. Len(r) /\ q[i] = r[j - Len(q)]
      BY <1>1, <1>2, <2>3
    <3> QED BY <1>1, <3>1 DEF Apart, Held
  <2>4. CASE i > Len(q) /\ j <= Len(q)
    <3>1. j \in 1 .. Len(q) /\ i - Len(q) \in 1 .. Len(r) /\ q[j] = r[i - Len(q)]
      BY <1>1, <1>2, <2>4
    <3> QED BY <1>1, <3>1 DEF Apart, Held
  <2> QED BY <1>1, <2>1, <2>2, <2>3, <2>4
<1>3. ASSUME NEW m PROVE Held(m, c) <=> Held(m, q) \/ Held(m, r)
  <2>1. ASSUME Held(m, c) PROVE Held(m, q) \/ Held(m, r)
    <3>1. PICK i \in 1 .. Len(c) : c[i] = m
      BY <2>1 DEF Held
    <3>2. CASE i <= Len(q)
      BY <1>1, <3>1, <3>2 DEF Held
    <3>3. CASE i > Len(q)
      <4>1. i - Len(q) \in 1 .. Len(r) /\ r[i - Len(q)] = m
        BY <1>1, <3>1, <3>3
      <4> QED BY <4>1 DEF Held
    <3> QED BY <1>1, <3>2, <3>3
  <2>2. ASSUME Held(m, q) PROVE Held(m, c)
    BY <1>1, <2>2 DEF Held
  <2>3. ASSUME Held(m, r) PROVE Held(m, c)
    <3>1. PICK i \in 1 .. Len(r) : r[i] = m
      BY <2>3 DEF Held
    <3>2. Len(q) + i \in 1 .. Len(c) /\ c[Len(q) + i] = m
      BY <1>1, <3>1
    <3> QED BY <3>2 DEF Held
  <2> QED BY <2>1, <2>2, <2>3
<1> QED BY <1>2, <1>3 DEF Distinct, c

(* A longer queue keeps what is known about its front part.                *)
LEMMA Extension ==
  ASSUME NEW r \in Seq(Nodes), NEW c \in Seq(Nodes)
  PROVE  /\ \A q \in Seq(Nodes), k \in Nat : Segment(q, k, r) => Segment(q, k, r \o c)
         /\ \A k \in Nat : \A x : At(r, k, x) => At(r \o c, k, x)
<1>1. /\ Len(r) \in Nat /\ Len(c) \in Nat /\ Len(r \o c) = Len(r) + Len(c)
      /\ \A i \in 1 .. Len(r) : (r \o c)[i] = r[i]
  BY ConcatProperties
<1>2. ASSUME NEW q \in Seq(Nodes), NEW k \in Nat, Segment(q, k, r)
      PROVE  Segment(q, k, r \o c)
  <2>1. Len(q) \in Nat /\ \A i \in 1 .. Len(q) : k + i \in 1 .. Len(r)
    BY <1>1, <1>2 DEF Segment
  <2> QED BY <1>1, <1>2, <2>1 DEF Segment
<1>3. ASSUME NEW k \in Nat, NEW x, At(r, k, x) PROVE At(r \o c, k, x)
  BY <1>1, <1>3 DEF At
<1> QED BY <1>2, <1>3

(* Segments are put together, and grow by the next node.                   *)
LEMMA SegmentJoin ==
  ASSUME NEW r \in Seq(Nodes), NEW q \in Seq(Nodes), NEW t \in Seq(Nodes),
         Segment(q, 0, r), Segment(t, Len(q), r)
  PROVE  Segment(q \o t, 0, r)
<1>1. /\ Len(q) \in Nat /\ Len(t) \in Nat /\ Len(q \o t) = Len(q) + Len(t) /\ Len(r) \in Nat
      /\ \A i \in 1 .. Len(q) + Len(t) : (q \o t)[i] = IF i <= Len(q) THEN q[i] ELSE t[i - Len(q)]
  BY ConcatProperties
<1>2. ASSUME NEW i \in 1 .. Len(q) + Len(t)
      PROVE  (q \o t)[i] = r[i]
  <2>1. CASE i <= Len(q)
    BY <1>1, <2>1 DEF Segment
  <2>2. CASE i > Len(q)
    <3>1. i - Len(q) \in 1 .. Len(t) /\ Len(q) + (i - Len(q)) = i
      BY <1>1, <2>2
    <3>2. t[i - Len(q)] = r[Len(q) + (i - Len(q))]
      BY <3>1 DEF Segment
    <3> QED BY <1>1, <2>2, <3>1, <3>2
  <2> QED BY <1>1, <2>1, <2>2
<1> QED BY <1>1, <1>2 DEF Segment

LEMMA SegmentGrow ==
  ASSUME NEW r \in Seq(Nodes), NEW q \in Seq(Nodes), NEW k \in Nat, NEW x \in Nodes,
         Segment(q, k, r), k + Len(q) + 1 <= Len(r), x = r[k + Len(q) + 1]
  PROVE  Segment(Append(q, x), k, r)
  BY AppendProperties DEF Segment

(* What stands behind a queued node is its successor, or is not seen yet.  *)
LEMMA NextAfter ==
  ASSUME IInv, NEW s \in Shards, NEW k \in 1 .. Len(order[s])
  PROVE  At(order[s], k, next[order[s][k]])
<1>1. order[s] \in Seq(Nodes) /\ Len(order[s]) \in Nat
  BY DEF IInv, TypeOK
<1>2. CASE k < Len(order[s])
  <2>1. k \in 1 .. Len(order[s]) - 1
    BY <1>1, <1>2
  <2>2. next[order[s][k]] \in {order[s][k + 1], NoNode}
    BY <2>1 DEF IInv, LinksFollowOrder
  <2> QED BY <1>1, <1>2, <2>2 DEF At
<1>3. CASE k = Len(order[s])
  <2>1. order[s] # <<>>
    BY <1>3, <1>1
  <2>2. next[order[s][k]] = NoNode
    BY <1>3, <2>1 DEF IInv, LinksFollowOrder, Back
  <2> QED BY <2>2 DEF At
<1> QED BY <1>1, <1>2, <1>3

(* A chain whose nodes keep their links stays linked.                      *)
LEMMA LinkedKept ==
  ASSUME NEW q \in Seq(Nodes), q # <<>>, NEW f, NEW g, Linked(q, f),
         \A i \in 1 .. Len(q) : g[q[i]] = f[q[i]]
  PROVE  Linked(q, g)
<1>1. Len(q) \in Nat \ {0}
  BY EmptySeq
<1>2. Len(q) \in 1 .. Len(q) /\ \A i \in 1 .. Len(q) - 1 : i \in 1 .. Len(q)
  BY <1>1
<1> QED BY <1>2 DEF Linked, Back

LEMMA InitInv == Init => IInv
<1> SUFFICES ASSUME Init PROVE IInv
  OBVIOUS
<1> USE DEF Init
<1>1. free \in Seq(Nodes) /\ Len(free) = Capacity /\ \A i \in 1 .. Len(free) : free[i] = i
  BY InboxAssumption DEF Nodes
<1>2. TypeOK
  BY <1>1 DEF TypeOK, Links, NoService, NoShard
<1>3. Places
  <2>1. Distinct(free)
    BY <1>1 DEF Distinct
  <2>2. \A n : ~Held(n, <<>>)
    BY DEF Held
  <2>3. Distinct(<<>>)
    BY DEF Distinct
  <2> QED BY <2>1, <2>2, <2>3 DEF Places, Apart
<1>4. ChainsLinked
  BY DEF ChainsLinked
<1>5. LinksFollowOrder
  BY DEF LinksFollowOrder
<1>6. Published /\ FirstUnseen
  BY DEF Published, FirstUnseen, Private
<1>7. Consumed
  BY DEF Consumed, Segment, At, NoService
<1> QED BY <1>2, <1>3, <1>4, <1>5, <1>6, <1>7 DEF IInv

LEMMA SumOfLengths ==
  ASSUME NEW q \in Seq(Nodes), NEW t \in Seq(Nodes)
  PROVE  Len(q) \in Nat /\ Len(t) \in Nat /\ Len(q) + Len(t) \in Nat
  OBVIOUS

(* The consumer of an empty queue has seen nothing.                        *)
LEMMA NothingSeen ==
  ASSUME NEW r \in Seq(Nodes), r = <<>>, NEW q \in Seq(Nodes), Segment(q, 0, r)
  PROVE  /\ q = <<>>
         /\ \A x : At(r, Len(q), x) => x = NoNode
         /\ \A t \in Seq(Nodes) :
              Segment(t, Len(q), r) => t = <<>> /\ \A x : At(r, Len(q) + Len(t), x) => x = NoNode
<1>1. Len(r) = 0 /\ Len(q) \in Nat
  OBVIOUS
<1>2. Len(q) = 0
  BY <1>1 DEF Segment
<1>3. q = <<>>
  BY <1>2, EmptySeq
<1>4. ASSUME NEW x, At(r, Len(q), x) PROVE x = NoNode
  BY <1>1, <1>2, <1>4 DEF At
<1>5. ASSUME NEW t \in Seq(Nodes), Segment(t, Len(q), r)
      PROVE  t = <<>> /\ \A x : At(r, Len(q) + Len(t), x) => x = NoNode
  <2>1. Len(t) = 0
    <3>1. Len(t) \in Nat
      OBVIOUS
    <3> QED BY <1>1, <1>2, <1>5, <3>1 DEF Segment
  <2>2. t = <<>>
    BY <2>1, EmptySeq
  <2> QED BY <1>1, <1>2, <2>1, <2>2 DEF At
<1> QED BY <1>3, <1>4, <1>5

-----------------------------------------------------------------------------
LEMMA StageInv ==
  ASSUME IInv, NEW p \in Producers, NEW s \in Shards, Stage(p, s)
  PROVE  IInv'
<1> DEFINE n == Head(free)
<1>1. TypeOK /\ Places /\ ChainsLinked /\ LinksFollowOrder /\ Published /\ Consumed /\ FirstUnseen
  BY DEF IInv
<1>2. /\ step[p] = "staging" /\ free # <<>> /\ free' = Tail(free)
      /\ next' = [m \in Nodes |-> IF m = n THEN NoNode
                                 ELSE IF chain[p] # <<>> /\ m = Back(chain[p]) THEN n
                                 ELSE next[m]]
      /\ chain' = [chain EXCEPT ![p] = Append(@, n)]
      /\ dest' = [dest EXCEPT ![p] = s]
      /\ UNCHANGED <<tail, front, step, oldTail, last, service, graced, processed, order>>
  BY DEF Stage, consumerVars
<1>3. /\ n \in Nodes /\ Held(n, free)
      /\ free' \in Seq(Nodes) /\ Distinct(free')
      /\ \A m : Held(m, free') => Held(m, free) /\ m # n
  BY <1>1, <1>2, TailFacts DEF TypeOK, Places
<1>4. chain[p] \in Seq(Nodes) /\ Distinct(chain[p]) /\ ~Held(n, chain[p])
  BY <1>1, <1>3 DEF TypeOK, Places, Apart
<1>5. /\ chain'[p] = Append(chain[p], n) /\ chain'[p] \in Seq(Nodes) /\ chain'[p] # <<>>
      /\ Len(chain'[p]) = Len(chain[p]) + 1 /\ Back(chain'[p]) = n
      /\ \A i \in 1 .. Len(chain[p]) : chain'[p][i] = chain[p][i]
      /\ Distinct(chain'[p])
      /\ \A m : Held(m, chain'[p]) <=> Held(m, chain[p]) \/ m = n
  <2>1. chain'[p] = Append(chain[p], n)
    BY <1>1, <1>2 DEF TypeOK
  <2> QED BY <2>1, <1>3, <1>4, AppendFacts
<1>6. \A r \in Producers \ {p} : chain'[r] = chain[r] /\ dest'[r] = dest[r]
  BY <1>1, <1>2 DEF TypeOK
<1> HIDE DEF n
<1>7. TypeOK'
  BY <1>1, <1>2, <1>3, <1>5, <1>6 DEF TypeOK, Links
<1>8. Places'
  <2>1. \A r \in Producers : Distinct(chain'[r]) /\ Apart(chain'[r], free')
    BY <1>1, <1>3, <1>5, <1>6 DEF Places, Apart
  <2>2. \A r, q \in Producers : r # q => Apart(chain'[r], chain'[q])
    BY <1>1, <1>3, <1>5, <1>6 DEF Places, Apart
  <2>3. \A t \in Shards : Distinct(order'[t]) /\ Apart(order'[t], free')
    BY <1>1, <1>2, <1>3 DEF Places, Apart
  <2>4. \A r \in Producers, t \in Shards : Private(r)' => Apart(chain'[r], order'[t])
    BY <1>1, <1>2, <1>3, <1>5, <1>6 DEF Places, Apart, Private
  <2> QED BY <1>1, <1>2, <1>3, <2>1, <2>2, <2>3, <2>4 DEF Places
<1>9. \A m \in Nodes : ~Held(m, free) /\ ~Held(m, chain[p]) => next'[m] = next[m]
  BY <1>1, <1>2, <1>3, <1>4 DEF Held, Back, TypeOK
<1>10. ChainsLinked'
  <2>1. ASSUME NEW r \in Producers \ {p}, Private(r), chain[r] # <<>>
        PROVE  Linked(chain[r], next')
    <3>1. Linked(chain[r], next)
      BY <1>1, <2>1 DEF ChainsLinked
    <3>2. chain[r] \in Seq(Nodes) /\ Len(chain[r]) \in Nat \ {0}
      BY <1>1, <2>1, EmptySeq DEF TypeOK
    <3>3. \A i \in 1 .. Len(chain[r]) : chain[r][i] \in Nodes /\ next'[chain[r][i]] = next[chain[r][i]]
      <4>1. TAKE i \in 1 .. Len(chain[r])
      <4>2. chain[r][i] \in Nodes /\ Held(chain[r][i], chain[r])
        BY <3>2 DEF Held
      <4> QED BY <1>1, <1>9, <4>2 DEF Places, Apart
    <3> QED BY <2>1, <3>1, <3>2, <3>3, LinkedKept
  <2>2. Linked(chain'[p], next')
    <3>1. n = Back(chain'[p]) /\ next'[n] = NoNode
      BY <1>2, <1>3, <1>5
    <3>2. ASSUME NEW i \in 1 .. Len(chain'[p]) - 1
          PROVE  next'[chain'[p][i]] = chain'[p][i + 1]
      <4>1. Len(chain[p]) \in Nat /\ i \in 1 .. Len(chain[p]) /\ chain'[p][i] = chain[p][i]
            /\ chain[p][i] \in Nodes /\ chain[p] # <<>> /\ chain[p][i] # n
        BY <1>4, <1>5, <3>2 DEF Held
      <4>2. CASE i = Len(chain[p])
        BY <1>2, <1>5, <4>1, <4>2 DEF Back
      <4>3. CASE i # Len(chain[p])
        <5>1. i \in 1 .. Len(chain[p]) - 1 /\ i + 1 \in 1 .. Len(chain[p]) /\ Len(chain[p]) \in 1 .. Len(chain[p])
          BY <4>1, <4>3
        <5>2. chain[p][i] # Back(chain[p])
          BY <1>4, <4>1, <4>3, <5>1 DEF Distinct, Back
        <5>3. next[chain[p][i]] = chain[p][i + 1]
          BY <1>1, <1>2, <4>1, <5>1 DEF ChainsLinked, Private, Linked
        <5> QED BY <1>2, <1>5, <4>1, <5>1, <5>2, <5>3
      <4> QED BY <4>2, <4>3
    <3> QED BY <3>1, <3>2 DEF Linked
  <2> QED BY <1>1, <1>2, <1>5, <1>6, <2>1, <2>2 DEF ChainsLinked, Private
<1>11. ASSUME NEW t \in Shards, NEW i \in 1 .. Len(order[t])
       PROVE  order[t][i] \in Nodes /\ next'[order[t][i]] = next[order[t][i]]
  <2>1. order[t][i] \in Nodes /\ Held(order[t][i], order[t])
    BY <1>1 DEF TypeOK, Held
  <2>2. ~Held(order[t][i], free) /\ ~Held(order[t][i], chain[p])
    BY <1>1, <1>2, <2>1 DEF Places, Apart, Private
  <2> QED BY <1>9, <2>1, <2>2
<1>12. \A r \in Producers : \A x, y : AboutToLink(r, x, y)' <=> AboutToLink(r, x, y)
  BY <1>2, <1>6 DEF AboutToLink
<1>13. LinksFollowOrder'
  <2>1. ASSUME NEW t \in Shards, order[t] # <<>>
        PROVE  tail[t] = Back(order[t]) /\ next'[tail[t]] = NoNode
    <3>1. tail[t] = Back(order[t]) /\ next[tail[t]] = NoNode
      BY <1>1, <2>1 DEF LinksFollowOrder
    <3>2. Len(order[t]) \in 1 .. Len(order[t])
      BY <1>1, <2>1, EmptySeq DEF TypeOK
    <3> QED BY <1>11, <3>1, <3>2 DEF Back
  <2>2. \A t \in Shards : \A i \in 1 .. Len(order[t]) - 1 : i \in 1 .. Len(order[t])
    BY <1>1 DEF TypeOK
  <2> QED BY <1>1, <1>2, <1>11, <1>12, <2>1, <2>2 DEF LinksFollowOrder
<1>14. \A r \in Producers : ~Private(r) => r # p
  BY <1>2 DEF Private
<1>15. Published'
  <2>1. ASSUME NEW r \in Producers, ~Private(r)
        PROVE  Joins(r, order[dest[r]])'
    <3>1. chain'[r] = chain[r] /\ dest'[r] = dest[r] /\ Joins(r, order[dest[r]])
      BY <1>1, <1>6, <1>14, <2>1 DEF Published
    <3> QED BY <1>2, <3>1 DEF Joins
  <2> QED BY <1>1, <1>2, <2>1 DEF Published, Private
<1>16. Consumed'
  BY <1>1, <1>2 DEF Consumed
<1>17. FirstUnseen'
  BY <1>1, <1>2, <1>6, <1>14 DEF FirstUnseen, Unseen, Private
<1> QED BY <1>7, <1>8, <1>10, <1>13, <1>15, <1>16, <1>17 DEF IInv

LEMMA PrepareChainInv ==
  ASSUME IInv, NEW p \in Producers, PrepareChain(p)
  PROVE  IInv'
<1>1. TypeOK /\ Places /\ ChainsLinked /\ LinksFollowOrder /\ Published /\ Consumed /\ FirstUnseen
  BY DEF IInv
<1>2. /\ step[p] = "staging" /\ chain[p] # <<>>
      /\ next' = [next EXCEPT ![Back(chain[p])] = NoNode]
      /\ step' = [step EXCEPT ![p] = "prepared"]
      /\ UNCHANGED <<free, tail, front, chain, dest, oldTail, last, service, graced, processed, order>>
  BY DEF PrepareChain, consumerVars
<1>3. next' = next
  <2>1. next[Back(chain[p])] = NoNode
    BY <1>1, <1>2 DEF ChainsLinked, Private, Linked
  <2> QED BY <1>1, <1>2, <2>1 DEF TypeOK
<1>4. TypeOK'
  BY <1>1, <1>2, <1>3 DEF TypeOK
<1>5. \A r \in Producers : Private(r)' <=> Private(r)
  BY <1>1, <1>2 DEF TypeOK, Private
<1>6. Places'
  BY <1>1, <1>2, <1>5 DEF Places
<1>7. ChainsLinked'
  BY <1>1, <1>2, <1>3, <1>5 DEF ChainsLinked, TypeOK
<1>8. \A r \in Producers : \A x, y : AboutToLink(r, x, y)' <=> AboutToLink(r, x, y)
  BY <1>1, <1>2 DEF AboutToLink, TypeOK
<1>9. LinksFollowOrder'
  BY <1>1, <1>2, <1>3, <1>8 DEF LinksFollowOrder
<1>10. Published'
  <2>1. \A r \in Producers : step'[r] = "exchanged" <=> step[r] = "exchanged"
    BY <1>1, <1>2 DEF TypeOK
  <2> QED BY <1>1, <1>2, <1>5, <2>1 DEF Published, Joins
<1>11. Consumed'
  BY <1>1, <1>2 DEF Consumed
<1>12. FirstUnseen'
  BY <1>1, <1>2, <1>5 DEF FirstUnseen, Unseen
<1> QED BY <1>4, <1>6, <1>7, <1>9, <1>10, <1>11, <1>12 DEF IInv

LEMMA ExchangeTailInv ==
  ASSUME IInv, NEW p \in Producers, ExchangeTail(p)
  PROVE  IInv'
<1> DEFINE s == dest[p]
           q == order[s]
           c == chain[p]
<1>1. TypeOK /\ Places /\ ChainsLinked /\ LinksFollowOrder /\ Published /\ Consumed /\ FirstUnseen
  BY DEF IInv
<1>2. /\ step[p] = "prepared"
      /\ oldTail' = [oldTail EXCEPT ![p] = tail[s]]
      /\ tail' = [tail EXCEPT ![s] = Back(c)]
      /\ order' = [order EXCEPT ![s] = @ \o c]
      /\ step' = [step EXCEPT ![p] = "exchanged"]
      /\ UNCHANGED <<free, next, front, chain, dest, last, service, graced, processed>>
  BY DEF ExchangeTail, consumerVars
<1>3. /\ s \in Shards /\ q \in Seq(Nodes) /\ c \in Seq(Nodes) /\ c # <<>>
      /\ Len(q) \in Nat /\ Len(c) \in Nat \ {0} /\ Head(c) = c[1] /\ Back(c) \in Nodes
      /\ Linked(c, next) /\ Distinct(q) /\ Distinct(c) /\ Apart(q, c)
  <2>1. s \in Shards /\ q \in Seq(Nodes) /\ c \in Seq(Nodes) /\ c # <<>>
    BY <1>1, <1>2 DEF TypeOK, ChainsLinked
  <2>2. Len(q) \in Nat /\ Len(c) \in Nat \ {0} /\ Head(c) = c[1] /\ Back(c) \in Nodes
    BY <2>1, EmptySeq DEF Back
  <2>3. Linked(c, next) /\ Distinct(q) /\ Distinct(c) /\ Apart(q, c)
    BY <1>1, <1>2, <2>1 DEF Private, ChainsLinked, Places, Apart
  <2> QED BY <2>1, <2>2, <2>3
<1> HIDE DEF s, q, c
<1>4. /\ order'[s] = q \o c /\ order'[s] \in Seq(Nodes) /\ Len(order'[s]) = Len(q) + Len(c)
      /\ \A i \in 1 .. Len(q) : order'[s][i] = q[i]
      /\ \A i \in 1 .. Len(c) : order'[s][Len(q) + i] = c[i]
      /\ Distinct(order'[s])
      /\ \A m : Held(m, order'[s]) <=> Held(m, q) \/ Held(m, c)
  <2>1. order'[s] = q \o c
    BY <1>1, <1>2, <1>3 DEF TypeOK, q, c
  <2>2. /\ q \o c \in Seq(Nodes) /\ Len(q \o c) = Len(q) + Len(c)
        /\ \A i \in 1 .. Len(q) + Len(c) : (q \o c)[i] = IF i <= Len(q) THEN q[i] ELSE c[i - Len(q)]
    BY <1>3, ConcatProperties
  <2>3. /\ \A i \in 1 .. Len(q) : order'[s][i] = q[i]
        /\ \A i \in 1 .. Len(c) : order'[s][Len(q) + i] = c[i]
    BY <1>3, <2>1, <2>2
  <2>4. Distinct(q \o c) /\ \A m : Held(m, q \o c) <=> Held(m, q) \/ Held(m, c)
    BY <1>3, ConcatFacts
  <2> QED BY <2>1, <2>2, <2>3, <2>4
<1>5. \A t \in Shards \ {s} : order'[t] = order[t] /\ tail'[t] = tail[t]
  BY <1>1, <1>2 DEF TypeOK, s, q
<1>6. tail'[s] = Back(c) /\ oldTail'[p] = tail[s] /\ step'[p] = "exchanged"
  BY <1>1, <1>2, <1>3 DEF TypeOK, s, c
<1>7. \A r \in Producers \ {p} : oldTail'[r] = oldTail[r] /\ step'[r] = step[r]
  BY <1>1, <1>2 DEF TypeOK
<1>8. NoNode \notin Nodes
  BY DEF Nodes, NoNode
<1>9. TypeOK'
  BY <1>1, <1>2, <1>3, <1>4, <1>5 DEF TypeOK, Links, s, q, c
<1>10. \A r \in Producers : Private(r)' <=> Private(r) /\ r # p
  BY <1>6, <1>7 DEF Private
<1>11. Places'
  <2>1. \A t \in Shards : Distinct(order'[t]) /\ Apart(order'[t], free)
    BY <1>1, <1>4, <1>5 DEF Places, Apart, q, c
  <2>2. Private(p) /\ s \in Shards /\ q = order[s] /\ c = chain[p]
    BY <1>2, <1>3 DEF Private, q, c
  <2>3. \A t, u \in Shards : t # u => Apart(order'[t], order'[u])
    BY <1>1, <1>4, <1>5, <2>2 DEF Places, Apart
  <2>4. \A r \in Producers, t \in Shards : Private(r)' => Apart(chain[r], order'[t])
    BY <1>1, <1>4, <1>5, <1>10, <2>2 DEF Places, Apart
  <2> QED BY <1>1, <1>2, <2>1, <2>3, <2>4 DEF Places
<1>12. ChainsLinked'
  BY <1>1, <1>2, <1>3, <1>7, <1>10 DEF ChainsLinked, c
<1>13. q # <<>> => tail[s] = Back(q) /\ next[tail[s]] = NoNode /\ tail[s] # NoNode
  BY <1>1, <1>3 DEF LinksFollowOrder, Published, q
<1>14. q = <<>> => tail[s] = NoNode
  BY <1>1, <1>3 DEF Published, q
<1>15. \A r \in Producers : \A x, y : AboutToLink(r, x, y) => AboutToLink(r, x, y)'
  BY <1>2, <1>7 DEF AboutToLink
<1>16. LinksFollowOrder'
  <2>1. ASSUME NEW i \in 1 .. Len(order'[s]) - 1, NEW x, NEW y,
               x = order'[s][i], y = order'[s][i + 1]
        PROVE  \/ next[x] = y
               \/ next[x] = NoNode /\ \E r \in Producers : AboutToLink(r, x, y)'
    <3>1. CASE i < Len(q)
      <4>1. i \in 1 .. Len(q) - 1 /\ i \in 1 .. Len(q) /\ i + 1 \in 1 .. Len(q)
        BY <1>3, <2>1, <3>1
      <4>2. x = order[s][i] /\ y = order[s][i + 1]
        BY <1>4, <2>1, <4>1 DEF q
      <4>3. \/ next[x] = y
            \/ next[x] = NoNode /\ \E r \in Producers : AboutToLink(r, x, y)
        BY <1>1, <1>3, <4>1, <4>2 DEF LinksFollowOrder, q
      <4> QED BY <1>15, <4>3
    <3>2. CASE i = Len(q)
      <4>1. i \in 1 .. Len(q) /\ q # <<>> /\ 1 \in 1 .. Len(c)
        BY <1>3, <2>1, <3>2
      <4>2. x = tail[s] /\ y = Head(c)
        BY <1>3, <1>4, <1>13, <2>1, <3>2, <4>1 DEF Back
      <4>3. AboutToLink(p, x, y)'
        BY <1>2, <1>6, <4>2 DEF AboutToLink, c
      <4> QED BY <1>13, <4>1, <4>2, <4>3
    <3>3. CASE i > Len(q)
      <4>1. i - Len(q) \in 1 .. Len(c) - 1 /\ i - Len(q) + 1 \in 1 .. Len(c) /\ i - Len(q) \in 1 .. Len(c)
            /\ Len(q) + (i - Len(q)) = i /\ Len(q) + (i - Len(q) + 1) = i + 1
        BY <1>3, <1>4, <2>1, <3>3
      <4>2. x = c[i - Len(q)] /\ y = c[i - Len(q) + 1]
        BY <1>4, <2>1, <4>1
      <4> QED BY <1>3, <4>1, <4>2 DEF Linked
    <3>4. i < Len(q) \/ i = Len(q) \/ i > Len(q)
      BY <1>3, <1>4, <2>1
    <3> QED BY <3>1, <3>2, <3>3, <3>4
  <2>2. tail'[s] = Back(order'[s]) /\ next[tail'[s]] = NoNode
    <3>1. Back(order'[s]) = Back(c)
      BY <1>3, <1>4 DEF Back
    <3> QED BY <1>3, <1>6, <3>1 DEF Linked
  <2>3. ASSUME NEW u \in Shards \ {s}, NEW i \in 1 .. Len(order[u]) - 1, NEW x, NEW y,
               x = order[u][i], y = order[u][i + 1]
        PROVE  \/ next[x] = y
               \/ next[x] = NoNode /\ \E r \in Producers : AboutToLink(r, x, y)'
    <3>1. \/ next[x] = y
          \/ next[x] = NoNode /\ \E r \in Producers : AboutToLink(r, x, y)
      BY <1>1, <2>3 DEF LinksFollowOrder
    <3> QED BY <1>15, <3>1
  <2>4. \A u \in Shards \ {s} :
          order[u] # <<>> => tail'[u] = Back(order[u]) /\ next[tail'[u]] = NoNode
    BY <1>1, <1>5 DEF LinksFollowOrder
  <2>5. ASSUME NEW u \in Shards, NEW i \in 1 .. Len(order'[u]) - 1
        PROVE  \/ next'[order'[u][i]] = order'[u][i + 1]
               \/ /\ next'[order'[u][i]] = NoNode
                  /\ \E r \in Producers : AboutToLink(r, order[u][i], order[u][i + 1])'
    <3>1. CASE u = s
      BY <1>2, <2>1, <3>1
    <3>2. CASE u # s
      BY <1>2, <1>5, <2>3, <3>2
    <3> QED BY <3>1, <3>2
  <2>6. \A u \in Shards : order'[u] # <<>> => tail'[u] = Back(order'[u]) /\ next'[tail'[u]] = NoNode
    BY <1>2, <1>5, <2>2, <2>4
  <2> QED BY <2>5, <2>6 DEF LinksFollowOrder
<1>17. Published'
  <2>1. Joins(p, order[dest[p]])'
    <3>1. CASE q = <<>>
      <4>1. order'[s] # <<>> /\ order'[s][1] = Head(c)
        <5>1. Len(q) = 0 /\ 1 \in 1 .. Len(c)
          BY <1>3, <3>1
        <5>2. order'[s][Len(q) + 1] = c[1] /\ Len(order'[s]) # 0
          BY <1>3, <1>4, <5>1
        <5> QED BY <1>3, <5>1, <5>2
      <4> QED BY <1>2, <1>6, <1>14, <3>1, <4>1 DEF Joins, s, c
    <3>2. CASE q # <<>>
      <4>1. Len(q) \in 1 .. Len(q) /\ Len(q) \in 1 .. Len(order'[s]) - 1 /\ 1 \in 1 .. Len(c)
        BY <1>3, <1>4, <3>2, EmptySeq
      <4>2. order'[s][Len(q)] = tail[s] /\ order'[s][Len(q) + 1] = Head(c)
        BY <1>3, <1>4, <1>13, <3>2, <4>1 DEF Back
      <4>3. JoinsBehind(tail[s], Head(c), order'[s])
        BY <4>1, <4>2 DEF JoinsBehind
      <4> QED BY <1>2, <1>6, <1>13, <3>2, <4>3 DEF Joins, s, c
    <3> QED BY <3>1, <3>2
  <2>2. ASSUME NEW r \in Producers \ {p}, ~Private(r)
        PROVE  Joins(r, order[dest[r]])'
    <3>1. Joins(r, order[dest[r]])
      BY <1>1, <2>2 DEF Published
    <3>2. CASE dest[r] # s
      <4>1. order'[dest[r]] = order[dest[r]]
        BY <1>1, <1>5, <3>2 DEF TypeOK
      <4> QED BY <1>2, <1>7, <3>1, <4>1 DEF Joins
    <3>3. CASE dest[r] = s
      <4>1. q # <<>> => order'[s] # <<>> /\ order'[s][1] = q[1]
        <5>1. SUFFICES ASSUME q # <<>> PROVE order'[s] # <<>> /\ order'[s][1] = q[1]
          OBVIOUS
        <5>2. 1 \in 1 .. Len(q) /\ Len(order'[s]) # 0
          BY <1>3, <1>4, <5>1, EmptySeq
        <5> QED BY <1>4, <5>2
      <4>2. \A x, y : JoinsBehind(x, y, q) => JoinsBehind(x, y, order'[s])
        <5>1. \A i \in 1 .. Len(q) - 1 : i \in 1 .. Len(q) /\ i + 1 \in 1 .. Len(q)
                                        /\ i \in 1 .. Len(order'[s]) - 1
          BY <1>3, <1>4
        <5> QED BY <1>4, <5>1 DEF JoinsBehind
      <4> QED BY <1>2, <1>7, <3>1, <3>3, <4>1, <4>2 DEF Joins, q
    <3> QED BY <3>2, <3>3
  <2>3. \A t \in Shards : order'[t] = <<>> <=> tail'[t] = NoNode
    <3>1. order'[s] # <<>> /\ tail'[s] # NoNode
      BY <1>3, <1>4, <1>6, <1>8
    <3> QED BY <1>1, <1>5, <3>1 DEF Published
  <2> QED BY <1>2, <1>10, <2>1, <2>2, <2>3 DEF Published
<1>18. Consumed'
  <2>1. ASSUME NEW t \in Shards
        PROVE  /\ \A z \in Seq(Nodes), k \in Nat : Segment(z, k, order[t]) => Segment(z, k, order'[t])
               /\ \A k \in Nat : \A x : At(order[t], k, x) => At(order'[t], k, x)
    <3>1. CASE t = s
      BY <1>3, <1>4, <3>1, Extension DEF q
    <3>2. CASE t # s
      BY <1>5, <3>2
    <3> QED BY <3>1, <3>2
  <2>2. \A t \in Shards : processed[t] \in Seq(Nodes) /\ Len(processed[t]) \in Nat
    BY <1>1 DEF TypeOK
  <2>3. \A t \in Shards : /\ Segment(processed[t], 0, order'[t])
                         /\ At(order'[t], Len(processed[t]), front[t])
    BY <1>1, <2>1, <2>2 DEF Consumed
  <2>4. ASSUME service.at # "idle", NEW t \in Shards, t = service.shard
        PROVE  /\ Segment(service.nodes, Len(processed[t]), order'[t])
               /\ At(order'[t], Len(processed[t]) + Len(service.nodes), service.cursor)
    <3>1. service.nodes \in Seq(Nodes)
      BY <1>1 DEF TypeOK
    <3>2. Len(processed[t]) + Len(service.nodes) \in Nat
      BY <2>2, <3>1, SumOfLengths
    <3>3. /\ Segment(service.nodes, Len(processed[t]), order[t])
          /\ At(order[t], Len(processed[t]) + Len(service.nodes), service.cursor)
      BY <1>1, <2>4 DEF Consumed
    <3> QED BY <2>1, <2>2, <3>1, <3>2, <3>3
  <2>5. service.at # "idle" => service.shard \in Shards
    BY <1>1 DEF TypeOK
  <2> QED BY <1>1, <1>2, <2>3, <2>4, <2>5 DEF Consumed
<1>19. FirstUnseen'
  <2>1. ASSUME q = <<>> PROVE Unseen(s)
    <3>1. order[s] = <<>> /\ order[s] \in Seq(Nodes) /\ processed[s] \in Seq(Nodes)
          /\ Segment(processed[s], 0, order[s]) /\ At(order[s], Len(processed[s]), front[s])
      BY <1>1, <1>3, <2>1 DEF TypeOK, q, Consumed
    <3>2. processed[s] = <<>> /\ front[s] = NoNode
      BY <3>1, NothingSeen
    <3>3. ASSUME service.at # "idle", service.shard = s
          PROVE  service.nodes = <<>> /\ service.cursor = NoNode
      <4>1. /\ service.nodes \in Seq(Nodes)
            /\ Segment(service.nodes, Len(processed[s]), order[s])
            /\ At(order[s], Len(processed[s]) + Len(service.nodes), service.cursor)
        BY <1>1, <3>3 DEF TypeOK, Consumed
      <4> QED BY <3>1, <4>1, NothingSeen
    <3> QED BY <3>2, <3>3 DEF Unseen
  <2>2. \A t : Unseen(t) => Unseen(t)'
    BY <1>2 DEF Unseen
  <2>3. oldTail'[p] = NoNode => q = <<>>
    BY <1>6, <1>13
  <2> QED BY <1>1, <1>2, <1>7, <1>10, <2>1, <2>2, <2>3 DEF FirstUnseen, s
<1> QED BY <1>9, <1>11, <1>12, <1>16, <1>17, <1>18, <1>19 DEF IInv

LEMMA LinkOldTailInv ==
  ASSUME IInv, NEW p \in Producers, LinkOldTail(p)
  PROVE  IInv'
<1> DEFINE x == oldTail[p]
           y == Head(chain[p])
           s == dest[p]
<1>1. TypeOK /\ Places /\ ChainsLinked /\ LinksFollowOrder /\ Published /\ Consumed /\ FirstUnseen
  BY DEF IInv
<1>2. /\ step[p] = "exchanged"
      /\ next' = [m \in Nodes |-> IF m = x THEN y ELSE next[m]]
      /\ step' = [step EXCEPT ![p] = "linked"]
      /\ UNCHANGED <<free, tail, front, chain, dest, oldTail, last, service, graced, processed, order>>
  BY DEF LinkOldTail, consumerVars
<1>3. y \in Nodes /\ s \in Shards
  BY <1>1, <1>2, HeadTailProperties DEF TypeOK, ChainsLinked
<1>4. x = NoNode \/ JoinsBehind(x, y, order[s])
  BY <1>1, <1>2 DEF Published, Private, Joins
<1>5. NoNode \notin Nodes
  BY DEF Nodes, NoNode
<1> HIDE DEF x, y, s
<1>6. TypeOK'
  BY <1>1, <1>2, <1>3 DEF TypeOK, Links
<1>7. \A r \in Producers : Private(r)' <=> Private(r)
  BY <1>1, <1>2 DEF TypeOK, Private
<1>8. Places'
  BY <1>1, <1>2, <1>7 DEF Places
<1>9. \A t \in Shards : \A i \in 1 .. Len(order[t]) : order[t][i] = x /\ order[t][i] \in Nodes
        => t = s /\ JoinsBehind(x, y, order[s])
  <2>1. ASSUME NEW t \in Shards, NEW i \in 1 .. Len(order[t]), order[t][i] = x, order[t][i] \in Nodes
        PROVE  t = s /\ JoinsBehind(x, y, order[s])
    <3>1. JoinsBehind(x, y, order[s])
      BY <1>4, <1>5, <2>1
    <3>2. Held(x, order[s])
      <4>1. PICK j \in 1 .. Len(order[s]) - 1 : order[s][j] = x
        BY <3>1 DEF JoinsBehind
      <4>2. j \in 1 .. Len(order[s])
        BY <1>1, <1>3, <4>1 DEF TypeOK
      <4> QED BY <4>1, <4>2 DEF Held
    <3>3. Held(x, order[t]) /\ x \in Nodes
      BY <2>1 DEF Held
    <3> QED BY <1>1, <1>3, <3>1, <3>2, <3>3 DEF Places, Apart
  <2> QED BY <2>1
<1>10. ChainsLinked'
  <2>1. ASSUME NEW r \in Producers, Private(r), chain[r] # <<>>
        PROVE  Linked(chain[r], next')
    <3>1. Linked(chain[r], next) /\ chain[r] \in Seq(Nodes)
      BY <1>1, <2>1 DEF ChainsLinked, TypeOK
    <3>2. ASSUME NEW i \in 1 .. Len(chain[r])
          PROVE  next'[chain[r][i]] = next[chain[r][i]]
      <4>1. chain[r][i] \in Nodes /\ Held(chain[r][i], chain[r])
        BY <3>1 DEF Held
      <4>2. chain[r][i] # x
        <5>1. SUFFICES ASSUME chain[r][i] = x PROVE FALSE
          OBVIOUS
        <5>2. PICK j \in 1 .. Len(order[s]) - 1 : order[s][j] = x
          BY <1>4, <1>5, <4>1, <5>1 DEF JoinsBehind
        <5>3. j \in 1 .. Len(order[s])
          BY <1>1, <1>3, <5>2 DEF TypeOK
        <5>4. Held(x, order[s])
          BY <5>2, <5>3 DEF Held
        <5> QED BY <1>1, <1>3, <2>1, <4>1, <5>1, <5>4 DEF Places, Apart
      <4> QED BY <1>2, <4>1, <4>2
    <3> QED BY <2>1, <3>1, <3>2, LinkedKept
  <2>2. \A r \in Producers : step'[r] # "staging" => chain[r] # <<>>
    BY <1>1, <1>2 DEF ChainsLinked, TypeOK
  <2> QED BY <1>2, <1>7, <2>1, <2>2 DEF ChainsLinked
<1>11. LinksFollowOrder'
  <2>1. ASSUME NEW t \in Shards, NEW i \in 1 .. Len(order[t]) - 1
        PROVE  \/ next'[order[t][i]] = order[t][i + 1]
               \/ /\ next'[order[t][i]] = NoNode
                  /\ \E r \in Producers : AboutToLink(r, order[t][i], order[t][i + 1])'
    <3>1. order[t] \in Seq(Nodes) /\ i \in 1 .. Len(order[t]) /\ i + 1 \in 1 .. Len(order[t])
          /\ order[t][i] \in Nodes
      BY <1>1, <2>1 DEF TypeOK
    <3>2. CASE order[t][i] = x
      <4>1. t = s /\ JoinsBehind(x, y, order[s])
        BY <1>9, <3>1, <3>2
      <4>2. PICK j \in 1 .. Len(order[s]) - 1 : order[s][j] = x /\ order[s][j + 1] = y
        BY <4>1 DEF JoinsBehind
      <4>3. j \in 1 .. Len(order[s])
        BY <3>1, <4>1, <4>2
      <4>4. j = i
        BY <1>1, <1>3, <3>1, <3>2, <4>1, <4>2, <4>3 DEF Places, Distinct
      <4> QED BY <1>2, <3>1, <3>2, <4>1, <4>2, <4>4
    <3>3. CASE order[t][i] # x
      <4>1. next'[order[t][i]] = next[order[t][i]]
        BY <1>2, <3>1, <3>3
      <4>2. \/ next[order[t][i]] = order[t][i + 1]
            \/ /\ next[order[t][i]] = NoNode
               /\ \E r \in Producers : AboutToLink(r, order[t][i], order[t][i + 1])
        BY <1>1 DEF LinksFollowOrder
      <4>3. \A r \in Producers : AboutToLink(r, order[t][i], order[t][i + 1])
                                  => AboutToLink(r, order[t][i], order[t][i + 1])'
        BY <1>1, <1>2, <3>3 DEF AboutToLink, TypeOK, x
      <4> QED BY <4>1, <4>2, <4>3
    <3> QED BY <3>2, <3>3
  <2>2. ASSUME NEW t \in Shards, order[t] # <<>>
        PROVE  tail[t] = Back(order[t]) /\ next'[tail[t]] = NoNode
    <3>1. tail[t] = Back(order[t]) /\ next[tail[t]] = NoNode
      BY <1>1, <2>2 DEF LinksFollowOrder
    <3>2. order[t] \in Seq(Nodes) /\ Len(order[t]) \in Nat /\ Len(order[t]) \in 1 .. Len(order[t])
          /\ tail[t] = order[t][Len(order[t])] /\ tail[t] \in Nodes
      BY <1>1, <2>2, <3>1, EmptySeq DEF TypeOK, Back
    <3>3. tail[t] # x
      <4>1. SUFFICES ASSUME tail[t] = x PROVE FALSE
        OBVIOUS
      <4>2. t = s /\ JoinsBehind(x, y, order[s])
        BY <1>9, <3>2, <4>1
      <4>3. PICK j \in 1 .. Len(order[s]) - 1 : order[s][j] = x
        BY <4>2 DEF JoinsBehind
      <4>4. j \in 1 .. Len(order[s]) /\ j # Len(order[s])
        BY <3>2, <4>2, <4>3
      <4> QED BY <1>1, <1>3, <3>2, <4>1, <4>2, <4>3, <4>4 DEF Places, Distinct
    <3> QED BY <1>2, <3>1, <3>2, <3>3
  <2> QED BY <1>2, <2>1, <2>2 DEF LinksFollowOrder
<1>12. Published'
  <2>1. \A r \in Producers : step'[r] = "exchanged" => step[r] = "exchanged"
    BY <1>1, <1>2 DEF TypeOK
  <2> QED BY <1>1, <1>2, <1>7, <2>1 DEF Published, Joins
<1>13. Consumed'
  BY <1>1, <1>2 DEF Consumed
<1>14. FirstUnseen'
  BY <1>1, <1>2, <1>7 DEF FirstUnseen, Unseen
<1> QED BY <1>6, <1>8, <1>10, <1>11, <1>12, <1>13, <1>14 DEF IInv

LEMMA PublishFrontInv ==
  ASSUME IInv, NEW p \in Producers, PublishFront(p)
  PROVE  IInv'
<1> DEFINE s == dest[p]
           y == Head(chain[p])
<1>1. TypeOK /\ Places /\ ChainsLinked /\ LinksFollowOrder /\ Published /\ Consumed /\ FirstUnseen
  BY DEF IInv
<1>2. /\ step[p] = "linked"
      /\ front' = IF oldTail[p] = NoNode THEN [front EXCEPT ![s] = y] ELSE front
      /\ step' = [step EXCEPT ![p] = "staging"]
      /\ chain' = [chain EXCEPT ![p] = <<>>]
      /\ UNCHANGED <<free, next, tail, dest, oldTail, last, service, graced, processed, order>>
  BY DEF PublishFront, consumerVars
<1>3. y \in Nodes /\ s \in Shards /\ order[s] \in Seq(Nodes)
  BY <1>1, <1>2, HeadTailProperties DEF TypeOK, ChainsLinked
<1>4. chain'[p] = <<>> /\ step'[p] = "staging"
      /\ \A r \in Producers \ {p} : chain'[r] = chain[r] /\ step'[r] = step[r]
  BY <1>1, <1>2 DEF TypeOK
<1>5. ASSUME oldTail[p] = NoNode
      PROVE  order[s] # <<>> /\ order[s][1] = y /\ Unseen(s) /\ front' = [front EXCEPT ![s] = y]
  BY <1>1, <1>2, <1>5 DEF Published, Joins, FirstUnseen, Private
<1>6. (\A m : ~Held(m, <<>>)) /\ Distinct(<<>>)
  BY DEF Held, Distinct
<1> HIDE DEF s, y
<1>7. TypeOK'
  BY <1>1, <1>2, <1>3 DEF TypeOK, Links
<1>8. \A r \in Producers \ {p} : Private(r)' <=> Private(r)
  BY <1>4 DEF Private
<1>9. Places'
  <2>1. \A r \in Producers : /\ \A m : Held(m, chain'[r]) => Held(m, chain[r])
                             /\ Distinct(chain'[r])
    BY <1>1, <1>4, <1>6 DEF Places
  <2>2. \A r \in Producers : Apart(chain'[r], free)
    BY <1>1, <2>1 DEF Places, Apart
  <2>3. \A r, q \in Producers : r # q => Apart(chain'[r], chain'[q])
    BY <1>1, <2>1 DEF Places, Apart
  <2>4. \A r \in Producers, t \in Shards : Private(r)' => Apart(chain'[r], order[t])
    BY <1>1, <1>4, <1>6, <1>8 DEF Places, Apart
  <2> QED BY <1>1, <1>2, <2>1, <2>2, <2>3, <2>4 DEF Places
<1>10. ChainsLinked'
  BY <1>1, <1>2, <1>4, <1>8 DEF ChainsLinked
<1>11. LinksFollowOrder'
  <2>1. \A r \in Producers : \A u, v : AboutToLink(r, u, v) => AboutToLink(r, u, v)'
    BY <1>2, <1>4 DEF AboutToLink
  <2> QED BY <1>1, <1>2, <2>1 DEF LinksFollowOrder
<1>12. \A r \in Producers : ~Private(r)' => r # p /\ ~Private(r)
  BY <1>4, <1>8 DEF Private
<1>13. Published'
  <2>1. ASSUME NEW r \in Producers, r # p, ~Private(r)
        PROVE  Joins(r, order[dest[r]])'
    <3>1. Joins(r, order[dest[r]])
      BY <1>1, <2>1 DEF Published
    <3> QED BY <1>2, <1>4, <2>1, <3>1 DEF Joins
  <2> QED BY <1>1, <1>2, <1>12, <2>1 DEF Published
<1>14. Consumed'
  <2>1. ASSUME NEW t \in Shards PROVE At(order[t], Len(processed[t]), front'[t])
    <3>1. At(order[t], Len(processed[t]), front[t])
      BY <1>1 DEF Consumed
    <3>2. CASE oldTail[p] = NoNode /\ t = s
      <4>1. processed[t] = <<>> /\ front'[t] = y /\ order[t] # <<>> /\ order[t][1] = y
        BY <1>1, <1>3, <1>5, <3>2 DEF Unseen, TypeOK
      <4>2. Len(processed[t]) = 0 /\ Len(order[t]) \in Nat \ {0}
        BY <1>3, <3>2, <4>1, EmptySeq
      <4> QED BY <4>1, <4>2 DEF At
    <3>3. CASE ~(oldTail[p] = NoNode /\ t = s)
      BY <1>1, <1>2, <3>1, <3>3 DEF TypeOK
    <3> QED BY <3>2, <3>3
  <2> QED BY <1>1, <1>2, <2>1 DEF Consumed
<1>15. FirstUnseen'
  <2>1. ASSUME NEW r \in Producers, r # p, ~Private(r), oldTail[r] = NoNode
        PROVE  Unseen(dest[r])'
    <3>1. Unseen(dest[r]) /\ dest[r] \in Shards
      BY <1>1, <2>1 DEF FirstUnseen, TypeOK
    <3>2. ~(oldTail[p] = NoNode /\ dest[r] = s)
      <4>1. SUFFICES ASSUME oldTail[p] = NoNode, dest[r] = s PROVE FALSE
        OBVIOUS
      <4>2. Joins(r, order[s]) /\ chain[r] # <<>> /\ chain[p] # <<>>
        BY <1>1, <1>2, <2>1, <4>1 DEF Published, ChainsLinked, Private
      <4>3. Head(chain[r]) = y
        BY <1>5, <2>1, <4>1, <4>2 DEF Joins
      <4>4. Held(Head(chain[r]), chain[r]) /\ Held(y, chain[p])
        BY <1>1, <4>2, TailFacts DEF TypeOK, Places, y
      <4> QED BY <1>1, <1>3, <2>1, <4>3, <4>4 DEF Places, Apart
    <3>3. front'[dest[r]] = front[dest[r]]
      BY <1>1, <1>2, <3>1, <3>2 DEF TypeOK
    <3> QED BY <1>2, <3>1, <3>3 DEF Unseen
  <2> QED BY <1>2, <1>12, <2>1 DEF FirstUnseen
<1> QED BY <1>7, <1>9, <1>10, <1>11, <1>13, <1>14, <1>15 DEF IInv

-----------------------------------------------------------------------------
(* The consumer leaves the queues and the producers alone.                 *)
LEMMA ConsumerKeeps ==
  ASSUME IInv, UNCHANGED <<producerVars, next, tail, order>>
  PROVE  Places' /\ ChainsLinked' /\ LinksFollowOrder' /\ Published'
<1>1. Places'
  BY DEF IInv, producerVars, Places, Private
<1>2. ChainsLinked'
  BY DEF IInv, producerVars, ChainsLinked, Private
<1>3. LinksFollowOrder'
  BY DEF IInv, producerVars, LinksFollowOrder, AboutToLink
<1>4. Published'
  BY DEF IInv, producerVars, Published, Private, Joins
<1> QED BY <1>1, <1>2, <1>3, <1>4

(* Where a service call starts is where the consumer has to go on.         *)
LEMMA StartFits ==
  ASSUME IInv, NEW s \in Shards
  PROVE  Start(s) \in Links /\ At(order[s], Len(processed[s]), Start(s))
<1>1. /\ processed[s] \in Seq(Nodes) /\ order[s] \in Seq(Nodes) /\ front[s] \in Links
      /\ next \in [Nodes -> Links] /\ last[s] \in Links
      /\ Segment(processed[s], 0, order[s])
      /\ last[s] = IF processed[s] = <<>> THEN NoNode ELSE Back(processed[s])
      /\ At(order[s], Len(processed[s]), front[s])
  BY DEF IInv, TypeOK, Consumed
<1>2. CASE last[s] = NoNode
  BY <1>1, <1>2 DEF Start
<1>3. CASE last[s] # NoNode
  <2>1. processed[s] # <<>> /\ last[s] = processed[s][Len(processed[s])]
    BY <1>1, <1>3 DEF Back
  <2>2. Len(processed[s]) \in 1 .. Len(processed[s]) /\ Len(processed[s]) \in 1 .. Len(order[s])
    BY <1>1, <2>1, EmptySeq DEF Segment
  <2>3. last[s] = order[s][Len(processed[s])]
    BY <1>1, <2>1, <2>2 DEF Segment
  <2>4. At(order[s], Len(processed[s]), next[last[s]])
    BY <2>2, <2>3, NextAfter
  <2> QED BY <1>1, <1>3, <2>4 DEF Start, Links
<1> QED BY <1>2, <1>3

LEMMA SnapshotStartInv ==
  ASSUME IInv, NEW s \in Shards, SnapshotStart(s)
  PROVE  IInv'
<1>1. TypeOK /\ Consumed /\ FirstUnseen
  BY DEF IInv
<1>2. /\ service.at = "idle"
      /\ service' = [at |-> IF Start(s) = NoNode THEN "advance" ELSE "walk",
                     shard |-> s, nodes |-> <<>>, cursor |-> Start(s)]
      /\ UNCHANGED <<free, next, tail, front, last, chain, dest, step, oldTail, graced, processed, order>>
  BY DEF SnapshotStart, producerVars
<1>3. Start(s) \in Links /\ At(order[s], Len(processed[s]), Start(s))
  BY StartFits
<1>4. /\ service'.at \in {"walk", "advance"} /\ (service'.at = "walk" => Start(s) # NoNode)
      /\ service'.shard = s /\ service'.nodes = <<>> /\ service'.cursor = Start(s)
  BY <1>2
<1>5. TypeOK'
  <2>1. service' \in [at : {"idle", "walk", "advance"}, shard : Shards \union {NoShard},
                       nodes : Seq(Nodes), cursor : Links]
    BY <1>2, <1>3
  <2> QED BY <1>1, <1>2, <1>3, <1>4, <2>1 DEF TypeOK, Links
<1>6. Consumed'
  <2>1. Segment(<<>>, Len(processed[s]), order[s]) /\ Len(processed[s]) + Len(<<>>) = Len(processed[s])
    <3>1. Segment(processed[s], 0, order[s]) /\ Len(processed[s]) \in Nat /\ Len(order[s]) \in Nat
      BY <1>1 DEF Consumed, TypeOK
    <3> QED BY <3>1 DEF Segment
  <2> QED BY <1>1, <1>2, <1>3, <1>4, <2>1 DEF Consumed
<1>7. FirstUnseen'
  <2>1. ASSUME NEW p \in Producers, ~Private(p), oldTail[p] = NoNode
        PROVE  Unseen(dest[p])'
    <3>1. Unseen(dest[p]) /\ dest[p] \in Shards
      BY <1>1, <2>1 DEF FirstUnseen, TypeOK
    <3>2. dest[p] = s => Start(s) = NoNode
      BY <1>1, <3>1 DEF Unseen, Consumed, Start
    <3> QED BY <1>2, <1>4, <3>1, <3>2 DEF Unseen
  <2> QED BY <1>2, <2>1 DEF FirstUnseen, Private
<1>8. Places' /\ ChainsLinked' /\ LinksFollowOrder' /\ Published'
  BY <1>2, ConsumerKeeps DEF producerVars
<1> QED BY <1>5, <1>6, <1>7, <1>8 DEF IInv

LEMMA SnapshotVisitInv ==
  ASSUME IInv, SnapshotVisit
  PROVE  IInv'
<1> DEFINE s == service.shard
           x == service.cursor
           q == service.nodes
           k == Len(processed[s])
<1>1. TypeOK /\ Consumed /\ FirstUnseen
  BY DEF IInv
<1>2. /\ service.at = "walk"
      /\ service' = [service EXCEPT !.nodes = Append(@, service.cursor),
                                    !.cursor = next[service.cursor],
                                    !.at = IF next[service.cursor] = NoNode THEN "advance" ELSE "walk"]
      /\ UNCHANGED <<free, next, tail, front, last, chain, dest, step, oldTail, graced, processed, order>>
  BY DEF SnapshotVisit, producerVars
<1>3. /\ s \in Shards /\ x \in Nodes /\ x # NoNode /\ q \in Seq(Nodes) /\ next[x] \in Links
      /\ order[s] \in Seq(Nodes) /\ processed[s] \in Seq(Nodes)
      /\ Segment(q, k, order[s]) /\ At(order[s], k + Len(q), x)
  <2>1. x # NoNode
    BY <1>1, <1>2 DEF TypeOK, Nodes, NoNode
  <2> QED BY <1>1, <1>2, <2>1 DEF TypeOK, Consumed
<1>4. /\ service'.at \in {"walk", "advance"} /\ (service'.at = "walk" => next[x] # NoNode)
      /\ service'.shard = s /\ service'.nodes = Append(q, x) /\ service'.cursor = next[x]
      /\ service' \in [at : {"idle", "walk", "advance"}, shard : Shards \union {NoShard},
                       nodes : Seq(Nodes), cursor : Links]
  <2>1. service \in [at : {"idle", "walk", "advance"}, shard : Shards \union {NoShard},
                     nodes : Seq(Nodes), cursor : Links]
    BY <1>1 DEF TypeOK
  <2>2. Append(q, x) \in Seq(Nodes)
    BY <1>3, AppendProperties
  <2>3. service' = [at |-> IF next[x] = NoNode THEN "advance" ELSE "walk",
                   shard |-> s, nodes |-> Append(q, x), cursor |-> next[x]]
    BY <1>2, <2>1
  <2> HIDE DEF s, x, q
  <2> QED BY <1>3, <2>2, <2>3
<1>5. k \in Nat /\ Len(q) \in Nat /\ k + Len(q) \in Nat /\ Len(order[s]) \in Nat
  BY <1>3, SumOfLengths
<1> HIDE DEF s, x, q, k
<1>6. TypeOK'
  BY <1>1, <1>2, <1>3, <1>4 DEF TypeOK, Links
<1>7. Consumed'
  <2>1. k + Len(q) + 1 \in 1 .. Len(order[s]) /\ x = order[s][k + Len(q) + 1]
        /\ k + Len(q) + 1 <= Len(order[s])
    BY <1>3, <1>5 DEF At
  <2>2. Segment(Append(q, x), k, order[s])
    BY <1>3, <1>5, <2>1, SegmentGrow
  <2>3. At(order[s], k + Len(q) + 1, next[x])
    BY <1>3, <2>1, NextAfter
  <2>4. k + Len(Append(q, x)) = k + Len(q) + 1
    BY <1>3, <1>5, AppendProperties
  <2> QED BY <1>1, <1>2, <1>4, <2>2, <2>3, <2>4 DEF Consumed, k
<1>8. FirstUnseen'
  <2>1. ASSUME NEW p \in Producers, ~Private(p), oldTail[p] = NoNode
        PROVE  Unseen(dest[p])'
    <3>1. Unseen(dest[p])
      BY <1>1, <2>1 DEF FirstUnseen
    <3>2. dest[p] # s
      BY <1>2, <1>3, <3>1 DEF Unseen, s, x
    <3> QED BY <1>2, <1>4, <3>1, <3>2 DEF Unseen
  <2> QED BY <1>2, <2>1 DEF FirstUnseen, Private
<1>9. Places' /\ ChainsLinked' /\ LinksFollowOrder' /\ Published'
  BY <1>2, ConsumerKeeps DEF producerVars
<1> QED BY <1>6, <1>7, <1>8, <1>9 DEF IInv

LEMMA SnapshotBudgetInv ==
  ASSUME IInv, SnapshotBudget
  PROVE  IInv'
<1>1. TypeOK /\ Consumed /\ FirstUnseen
  BY DEF IInv
<1>2. /\ service.at = "walk" /\ service' = [service EXCEPT !.at = "advance"]
      /\ UNCHANGED <<free, next, tail, front, last, chain, dest, step, oldTail, graced, processed, order>>
  BY DEF SnapshotBudget, producerVars
<1>3. /\ service'.at = "advance" /\ service'.shard = service.shard
      /\ service'.nodes = service.nodes /\ service'.cursor = service.cursor
      /\ service' \in [at : {"idle", "walk", "advance"}, shard : Shards \union {NoShard},
                       nodes : Seq(Nodes), cursor : Links]
  BY <1>1, <1>2 DEF TypeOK
<1>4. TypeOK'
  BY <1>1, <1>2, <1>3 DEF TypeOK
<1>5. Consumed'
  BY <1>1, <1>2, <1>3 DEF Consumed
<1>6. FirstUnseen'
  BY <1>1, <1>2, <1>3 DEF FirstUnseen, Unseen, Private
<1>7. Places' /\ ChainsLinked' /\ LinksFollowOrder' /\ Published'
  BY <1>2, ConsumerKeeps DEF producerVars
<1> QED BY <1>4, <1>5, <1>6, <1>7 DEF IInv

LEMMA AdvanceFrontInv ==
  ASSUME IInv, AdvanceFront
  PROVE  IInv'
<1> DEFINE s == service.shard
           x == service.cursor
           q == service.nodes
<1>1. TypeOK /\ Consumed /\ FirstUnseen
  BY DEF IInv
<1>2. /\ service.at = "advance"
      /\ last' = IF q = <<>> THEN last ELSE [last EXCEPT ![s] = Back(q)]
      /\ front' = [front EXCEPT ![s] = x]
      /\ graced' = graced \o q
      /\ processed' = [processed EXCEPT ![s] = @ \o q]
      /\ service' = NoService
      /\ UNCHANGED <<free, next, tail, chain, dest, step, oldTail, order>>
  BY DEF AdvanceFront, producerVars
<1>3. /\ s \in Shards /\ x \in Links /\ q \in Seq(Nodes) /\ graced \in Seq(Nodes)
      /\ order[s] \in Seq(Nodes) /\ processed[s] \in Seq(Nodes)
      /\ Segment(q, Len(processed[s]), order[s]) /\ At(order[s], Len(processed[s]) + Len(q), x)
      /\ Segment(processed[s], 0, order[s])
  BY <1>1, <1>2 DEF TypeOK, Consumed
<1>4. service'.at = "idle" /\ service' \in [at : {"idle", "walk", "advance"}, shard : Shards \union {NoShard},
                       nodes : Seq(Nodes), cursor : Links]
  BY <1>2 DEF NoService, Links
<1> HIDE DEF s, x, q
<1>5. /\ processed'[s] = processed[s] \o q /\ front'[s] = x
      /\ last'[s] = IF q = <<>> THEN last[s] ELSE Back(q)
      /\ \A t \in Shards \ {s} : processed'[t] = processed[t] /\ front'[t] = front[t] /\ last'[t] = last[t]
  BY <1>1, <1>2, <1>3 DEF TypeOK
<1>6. /\ processed[s] \o q \in Seq(Nodes) /\ graced \o q \in Seq(Nodes)
      /\ Len(processed[s] \o q) = Len(processed[s]) + Len(q)
      /\ Len(processed[s]) \in Nat /\ Len(q) \in Nat
      /\ \A i \in 1 .. Len(processed[s]) + Len(q) :
           (processed[s] \o q)[i] = IF i <= Len(processed[s]) THEN processed[s][i] ELSE q[i - Len(processed[s])]
  BY <1>3, ConcatProperties, SumOfLengths
<1>7. q # <<>> => /\ Back(q) \in Nodes /\ processed[s] \o q # <<>> /\ Back(processed[s] \o q) = Back(q)
  <2>1. SUFFICES ASSUME q # <<>>
                 PROVE  Back(q) \in Nodes /\ processed[s] \o q # <<>> /\ Back(processed[s] \o q) = Back(q)
    OBVIOUS
  <2>2. Len(q) \in Nat \ {0} /\ Len(q) \in 1 .. Len(q)
    BY <1>3, <2>1, EmptySeq
  <2>3. Len(processed[s]) + Len(q) \in 1 .. Len(processed[s]) + Len(q)
        /\ Len(processed[s]) + Len(q) # 0 /\ ~(Len(processed[s]) + Len(q) <= Len(processed[s]))
        /\ Len(processed[s]) + Len(q) - Len(processed[s]) = Len(q)
    BY <1>6, <2>2
  <2>4. Back(q) \in Nodes
    BY <1>3, <2>2 DEF Back
  <2>5. processed[s] \o q # <<>>
    BY <1>6, <2>3
  <2>6. (processed[s] \o q)[Len(processed[s] \o q)] = q[Len(q)]
    BY <1>6, <2>3
  <2> QED BY <2>4, <2>5, <2>6 DEF Back
<1>8. TypeOK'
  <2>1. last' \in [Shards -> Links] /\ front' \in [Shards -> Links] /\ processed' \in [Shards -> Seq(Nodes)]
    BY <1>1, <1>2, <1>3, <1>6, <1>7 DEF TypeOK, Links
  <2> QED BY <1>1, <1>2, <1>4, <1>6, <2>1 DEF TypeOK
<1>9. Consumed'
  <2>1. Segment(processed'[s], 0, order[s])
    BY <1>3, <1>5, SegmentJoin
  <2>2. last'[s] = IF processed'[s] = <<>> THEN NoNode ELSE Back(processed'[s])
    <3>1. CASE q = <<>>
      <4>1. processed'[s] = processed[s] /\ last'[s] = last[s]
        BY <1>3, <1>5, <3>1, ConcatEmptySeq
      <4> QED BY <1>1, <1>3, <4>1 DEF Consumed
    <3>2. CASE q # <<>>
      BY <1>5, <1>7, <3>2
    <3> QED BY <3>1, <3>2
  <2>3. At(order[s], Len(processed'[s]), front'[s])
    BY <1>3, <1>5, <1>6
  <2>4. \A t \in Shards \ {s} :
          /\ Segment(processed'[t], 0, order[t])
          /\ last'[t] = IF processed'[t] = <<>> THEN NoNode ELSE Back(processed'[t])
          /\ At(order[t], Len(processed'[t]), front'[t])
    BY <1>1, <1>5 DEF Consumed
  <2>5. ASSUME NEW t \in Shards
        PROVE  /\ Segment(processed'[t], 0, order[t])
               /\ last'[t] = IF processed'[t] = <<>> THEN NoNode ELSE Back(processed'[t])
               /\ At(order[t], Len(processed'[t]), front'[t])
    BY <2>1, <2>2, <2>3, <2>4
  <2> QED BY <1>2, <1>4, <2>5 DEF Consumed
<1>10. FirstUnseen'
  <2>1. ASSUME NEW p \in Producers, ~Private(p), oldTail[p] = NoNode
        PROVE  Unseen(dest[p])'
    <3>1. Unseen(dest[p]) /\ dest[p] \in Shards
      BY <1>1, <2>1 DEF FirstUnseen, TypeOK
    <3>2. CASE dest[p] = s
      <4>1. q = <<>> /\ x = NoNode /\ processed[s] = <<>>
        BY <1>2, <3>1, <3>2 DEF Unseen, s, q, x
      <4>2. processed'[s] = <<>> /\ front'[s] = NoNode
        BY <1>3, <1>5, <4>1, ConcatEmptySeq
      <4> QED BY <1>2, <1>4, <3>2, <4>2 DEF Unseen
    <3>3. CASE dest[p] # s
      BY <1>2, <1>4, <1>5, <3>1, <3>3 DEF Unseen
    <3> QED BY <3>2, <3>3
  <2> QED BY <1>2, <2>1 DEF FirstUnseen, Private
<1>11. Places' /\ ChainsLinked' /\ LinksFollowOrder' /\ Published'
  BY <1>2, ConsumerKeeps DEF producerVars
<1> QED BY <1>8, <1>9, <1>10, <1>11 DEF IInv

-----------------------------------------------------------------------------
LEMMA NextInv == IInv /\ [Next]_vars => IInv'
<1> SUFFICES ASSUME IInv, [Next]_vars PROVE IInv'
  OBVIOUS
<1>1. CASE UNCHANGED vars
  BY <1>1 DEF vars, IInv, TypeOK, Places, Private, ChainsLinked, LinksFollowOrder, AboutToLink,
              Published, Joins, Consumed, FirstUnseen, Unseen
<1>2. ASSUME NEW p \in Producers, NEW s \in Shards, Stage(p, s) PROVE IInv'
  BY <1>2, StageInv
<1>3. ASSUME NEW p \in Producers, Publish(p) PROVE IInv'
  BY <1>3, PrepareChainInv, ExchangeTailInv, LinkOldTailInv, PublishFrontInv DEF Publish
<1>4. ASSUME Consume PROVE IInv'
  BY <1>4, SnapshotStartInv, SnapshotVisitInv, SnapshotBudgetInv, AdvanceFrontInv DEF Consume
<1> QED BY <1>1, <1>2, <1>3, <1>4 DEF Next

(* The inductive invariant holds in every reachable state between two      *)
(* graces, for any numbers of producers, shards and nodes.                 *)
THEOREM InductiveInvariant == Spec => []IInv
<1>1. Init => IInv
  BY InitInv
<1>2. IInv /\ [Next]_vars => IInv'
  BY NextInv
<1> QED BY <1>1, <1>2, PTL DEF Spec

(* The state keeps its types: no walk ever follows a null link.            *)
THEOREM TypeCorrect == Spec => []TypeOK
<1>1. IInv => TypeOK
  BY DEF IInv
<1> QED BY <1>1, InductiveInvariant, PTL

(* inbox.rs:8: a null link behind a published node means "visible later":  *)
(* links are right or still missing, with their producer about to write    *)
(* them, and tail names the last node.                                     *)
THEOREM LinksAreRightOrLate == Spec => []LinksFollowOrder
<1>1. IInv => LinksFollowOrder
  BY DEF IInv
<1> QED BY <1>1, InductiveInvariant, PTL

-----------------------------------------------------------------------------
(* The refinement.  The exchange of tail publishes the chain.              *)
LEMMA ExchangePublishes ==
  ASSUME IInv, NEW p \in Producers, ExchangeTail(p)
  PROVE  Abstract!Next
<1> DEFINE s == dest[p]
           q == order[s]
           c == chain[p]
<1>1. /\ s \in Shards /\ q \in Seq(Nodes) /\ c \in Seq(Nodes)
      /\ order' = [order EXCEPT ![s] = q \o c] /\ processed' = processed
      /\ Distinct(c) /\ \A t \in Shards : Apart(c, order[t])
  BY DEF IInv, TypeOK, Places, Private, ExchangeTail, consumerVars
<1>2. order'[s] = q \o c
  BY <1>1 DEF IInv, TypeOK
<1> HIDE DEF s, q, c
<1>3. /\ Len(q) \in Nat /\ Len(c) \in Nat /\ Len(q \o c) = Len(q) + Len(c) /\ q \o c \in Seq(Nodes)
      /\ \A i \in 1 .. Len(q) + Len(c) : (q \o c)[i] = IF i <= Len(q) THEN q[i] ELSE c[i - Len(q)]
  BY <1>1, ConcatProperties
<1>4. SubSeq(q \o c, Len(q) + 1, Len(q \o c)) = c
  <2> DEFINE d == SubSeq(q \o c, Len(q) + 1, Len(q) + Len(c))
  <2>1. \A i \in Len(q) + 1 .. Len(q) + Len(c) : (q \o c)[i] \in Nodes
    BY <1>3
  <2>2. /\ d \in Seq(Nodes)
        /\ Len(d) = IF Len(q) + 1 <= Len(q) + Len(c) THEN Len(q) + Len(c) - (Len(q) + 1) + 1 ELSE 0
        /\ \A i \in 1 .. Len(q) + Len(c) - (Len(q) + 1) + 1 : d[i] = (q \o c)[Len(q) + 1 + i - 1]
    <3>1. Len(q) + 1 \in Int /\ Len(q) + Len(c) \in Int
      BY <1>3
    <3> QED BY <2>1, <3>1, SubSeqProperties
  <2> HIDE DEF d
  <2>3. Len(d) = Len(c)
    BY <1>3, <2>2
  <2>4. ASSUME NEW i \in 1 .. Len(c) PROVE d[i] = c[i]
    <3>1. i \in 1 .. Len(q) + Len(c) - (Len(q) + 1) + 1 /\ Len(q) + 1 + i - 1 = Len(q) + i
          /\ Len(q) + i \in 1 .. Len(q) + Len(c) /\ ~(Len(q) + i <= Len(q)) /\ Len(q) + i - Len(q) = i
      BY <1>3
    <3> QED BY <1>3, <2>2, <3>1
  <2>5. d = c
    BY <1>1, <2>2, <2>3, <2>4, SeqEqual
  <2> QED BY <1>3, <2>5 DEF d
<1>5. Abstract!Appended(s) = c
  BY <1>2, <1>4 DEF Abstract!Appended, q
<1>6. \A i, j \in 1 .. Len(c) : c[i] = c[j] => i = j
  BY <1>1 DEF Distinct
<1>7. ASSUME NEW i \in 1 .. Len(c), NEW t \in Shards
      PROVE  c[i] \in Nodes /\ ~Abstract!Occurs(c[i], order[t])
  BY <1>1 DEF Apart, Held, Abstract!Occurs
<1>8. Abstract!Publish(s, c)
  BY <1>1, <1>6, <1>7 DEF Abstract!Publish, q
<1> QED BY <1>1, <1>5, <1>8 DEF Abstract!Next

(* advance_front takes the nodes of the service call from the queue.       *)
LEMMA AdvanceProcesses ==
  ASSUME IInv, AdvanceFront
  PROVE  Abstract!Next \/ UNCHANGED Abstract!vars
<1> DEFINE s == service.shard
           q == service.nodes
           r == order[s]
           h == processed[s]
<1>1. /\ s \in Shards /\ q \in Seq(Nodes) /\ r \in Seq(Nodes) /\ h \in Seq(Nodes)
      /\ processed' = [processed EXCEPT ![s] = h \o q] /\ order' = order
      /\ Segment(q, Len(h), r)
  BY DEF IInv, TypeOK, Consumed, AdvanceFront, producerVars
<1>2. processed \in [Shards -> Seq(Nodes)]
  BY DEF IInv, TypeOK
<1> HIDE DEF s, q, r, h
<1>3. CASE q = <<>>
  <2>1. h \o q = h
    BY <1>1, <1>3, ConcatEmptySeq
  <2>2. processed' = processed
    BY <1>1, <1>2, <2>1 DEF h
  <2> QED BY <1>1, <2>2 DEF Abstract!vars
<1>4. CASE q # <<>>
  <2>1. Len(q) \in Nat \ {0} /\ Len(h) \in Nat /\ Len(r) \in Nat /\ Len(h) + Len(q) <= Len(r)
    BY <1>1, <1>4, EmptySeq DEF Segment
  <2>2. Len(q) \in 1 .. Len(r)
    BY <2>1
  <2> DEFINE d == SubSeq(r, Len(h) + 1, Len(h) + Len(q))
  <2>3. /\ d \in Seq(Nodes)
        /\ Len(d) = IF Len(h) + 1 <= Len(h) + Len(q) THEN Len(h) + Len(q) - (Len(h) + 1) + 1 ELSE 0
        /\ \A i \in 1 .. Len(h) + Len(q) - (Len(h) + 1) + 1 : d[i] = r[Len(h) + 1 + i - 1]
    <3>1. Len(h) + 1 \in Int /\ Len(h) + Len(q) \in Int
          /\ \A i \in Len(h) + 1 .. Len(h) + Len(q) : i \in 1 .. Len(r)
      BY <2>1
    <3>2. \A i \in Len(h) + 1 .. Len(h) + Len(q) : r[i] \in Nodes
      BY <1>1, <3>1
    <3> QED BY <3>1, <3>2, SubSeqProperties
  <2> HIDE DEF d
  <2>4. Len(d) = Len(q)
    BY <2>1, <2>3
  <2>5. ASSUME NEW i \in 1 .. Len(q) PROVE d[i] = q[i]
    <3>1. i \in 1 .. Len(h) + Len(q) - (Len(h) + 1) + 1 /\ Len(h) + 1 + i - 1 = Len(h) + i
      BY <2>1
    <3> QED BY <1>1, <2>3, <3>1 DEF Segment
  <2>6. d = q
    BY <1>1, <2>3, <2>4, <2>5, SeqEqual
  <2>7. Abstract!Process(s, Len(q))
    BY <1>1, <2>1, <2>6 DEF Abstract!Process, d, r, h
  <2> QED BY <1>1, <2>2, <2>7 DEF Abstract!Next, r
<1> QED BY <1>3, <1>4

LEMMA StepRefines == IInv /\ [Next]_vars => [Abstract!Next]_(Abstract!vars)
<1> SUFFICES ASSUME IInv, [Next]_vars PROVE Abstract!Next \/ UNCHANGED Abstract!vars
  OBVIOUS
<1>1. CASE UNCHANGED vars
  BY <1>1 DEF vars, Abstract!vars
<1>2. ASSUME NEW p \in Producers, NEW s \in Shards, Stage(p, s) PROVE UNCHANGED Abstract!vars
  BY <1>2 DEF Stage, consumerVars, Abstract!vars
<1>3. ASSUME NEW p \in Producers, Publish(p) PROVE Abstract!Next \/ UNCHANGED Abstract!vars
  <2>1. CASE ExchangeTail(p)
    BY <2>1, ExchangePublishes
  <2>2. CASE PrepareChain(p) \/ LinkOldTail(p) \/ PublishFront(p)
    BY <2>2 DEF PrepareChain, LinkOldTail, PublishFront, consumerVars, Abstract!vars
  <2> QED BY <1>3, <2>1, <2>2 DEF Publish
<1>4. ASSUME Consume PROVE Abstract!Next \/ UNCHANGED Abstract!vars
  <2>1. CASE AdvanceFront
    BY <2>1, AdvanceProcesses
  <2>2. CASE SnapshotVisit \/ SnapshotBudget \/ \E s \in Shards : SnapshotStart(s)
    BY <2>2 DEF SnapshotVisit, SnapshotBudget, SnapshotStart, producerVars, Abstract!vars
  <2> QED BY <1>4, <2>1, <2>2 DEF Consume
<1> QED BY <1>1, <1>2, <1>3, <1>4 DEF Next

(* Each shard is a FIFO queue: what the owner processes is a prefix of     *)
(* what the exchanges of tail published, so each message is processed at   *)
(* most once and in the order of its producer (memory-messaging.md:249).   *)
THEOREM InboxIsQueue == Spec => ImplementsQueue
<1>1. Init => Abstract!Init
  BY DEF Init, Abstract!Init
<1>2. IInv /\ [Next]_vars => [Abstract!Next]_(Abstract!vars)
  BY StepRefines
<1> QED BY <1>1, <1>2, InductiveInvariant, PTL DEF Spec, ImplementsQueue, Abstract!Spec
=============================================================================
