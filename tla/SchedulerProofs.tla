--------------------------- MODULE SchedulerProofs ---------------------------
(***************************************************************************)
(* Proofs about Scheduler, for any coroutines, producers and shards, any   *)
(* capacities and bounds, and any finite set of workers.                   *)
(***************************************************************************)
EXTENDS Scheduler, SequenceTheorems, FiniteSetTheorems, WellFoundedInduction, TLAPS

-----------------------------------------------------------------------------
(* Sequences of handles                                                    *)

LEMMA HandlesAre ==
  ASSUME NEW s \in HandleSeq
  PROVE  /\ Len(s) \in Nat
         /\ DOMAIN s = 1 .. Len(s)
         /\ Handles(s) \subseteq Coroutines
         /\ \A i \in 1 .. Len(s) : s[i] \in Handles(s)
         /\ Handles(s) = {} <=> s = <<>>
<1>1. Len(s) \in Nat /\ DOMAIN s = 1 .. Len(s)
  BY LenProperties DEF HandleSeq
<1>2. \A i \in 1 .. Len(s) : s[i] \in Coroutines
  BY ElementOfSeq DEF HandleSeq
<1>3. s # <<>> => Len(s) # 0
  BY EmptySeq DEF HandleSeq
<1>4. s # <<>> => 1 \in DOMAIN s
  BY <1>1, <1>3
<1>5. s = <<>> => Len(s) = 0
  OBVIOUS
<1>6. s = <<>> => DOMAIN s = {}
  BY <1>1, <1>5
<1>7. \A i \in 1 .. Len(s) : s[i] \in Handles(s)
  BY <1>1 DEF Handles
<1>8. Handles(s) \subseteq Coroutines
  BY <1>1, <1>2 DEF Handles
<1>9. Handles(s) = {} <=> s = <<>>
  <2>1. s # <<>> => Handles(s) # {}
    BY <1>1, <1>4, <1>7
  <2>2. s = <<>> => Handles(s) = {}
    BY <1>6 DEF Handles
  <2> QED BY <2>1, <2>2
<1> QED BY <1>1, <1>7, <1>8, <1>9

LEMMA NothingQueued ==
  /\ <<>> \in HandleSeq
  /\ Len(<<>>) = 0
  /\ IsInjective(<<>>)
  /\ Handles(<<>>) = {}
<1>1. <<>> \in HandleSeq /\ Len(<<>>) = 0
  BY EmptySeq DEF HandleSeq
<1>2. Handles(<<>>) = {}
  BY <1>1, HandlesAre
<1>3. DOMAIN <<>> = 1 .. 0
  BY <1>1, HandlesAre
<1> QED BY <1>1, <1>2, <1>3 DEF IsInjective

LEMMA Appended ==
  ASSUME NEW s \in HandleSeq, IsInjective(s), NEW c \in Coroutines, c \notin Handles(s)
  PROVE  /\ Append(s, c) \in HandleSeq
         /\ Len(Append(s, c)) = Len(s) + 1
         /\ IsInjective(Append(s, c))
         /\ Handles(Append(s, c)) = Handles(s) \union {c}
         /\ s # <<>> => Head(Append(s, c)) = Head(s)
<1> DEFINE t == Append(s, c)
<1>1. t \in HandleSeq /\ Len(t) = Len(s) + 1
  BY AppendProperties DEF HandleSeq
<1>2. (\A i \in 1 .. Len(s) : t[i] = s[i]) /\ t[Len(s) + 1] = c
  BY AppendProperties DEF HandleSeq
<1>3. DOMAIN t = 1 .. Len(s) + 1 /\ DOMAIN s = 1 .. Len(s) /\ Len(s) \in Nat
  BY <1>1, HandlesAre
<1>4. Head(t) = IF s = <<>> THEN c ELSE Head(s)
  BY HeadTailAppend DEF HandleSeq
<1> HIDE DEF t
<1>5. Handles(t) = Handles(s) \union {c}
  BY <1>2, <1>3 DEF Handles
<1>6. IsInjective(t)
  BY <1>2, <1>3 DEF IsInjective, Handles
<1> QED BY <1>1, <1>4, <1>5, <1>6 DEF t

LEMMA Split ==
  ASSUME NEW s \in HandleSeq, IsInjective(s), NEW n \in 0 .. Len(s)
  PROVE  LET a == SubSeq(s, 1, n)
             b == SubSeq(s, n + 1, Len(s))
         IN  /\ a \in HandleSeq /\ b \in HandleSeq
             /\ Len(a) = n /\ Len(b) = Len(s) - n
             /\ IsInjective(a) /\ IsInjective(b)
             /\ Handles(a) \union Handles(b) = Handles(s)
             /\ Handles(a) \intersect Handles(b) = {}
             /\ n # 0 => Head(a) = s[1]
<1> DEFINE a == SubSeq(s, 1, n)
           b == SubSeq(s, n + 1, Len(s))
<1>1. Len(s) \in Nat /\ DOMAIN s = 1 .. Len(s) /\ \A i \in 1 .. Len(s) : s[i] \in Coroutines
  BY HandlesAre, ElementOfSeq DEF HandleSeq
<1>2. \A i \in 1 .. n : s[i] \in Coroutines
  BY <1>1
<1>3. \A i \in n + 1 .. Len(s) : s[i] \in Coroutines
  BY <1>1
<1>4. /\ a \in HandleSeq /\ Len(a) = n
      /\ \A i \in 1 .. n : a[i] = s[i]
  BY <1>1, <1>2, SubSeqProperties DEF HandleSeq
<1>5. /\ b \in HandleSeq /\ Len(b) = Len(s) - n
      /\ \A i \in 1 .. Len(s) - n : b[i] = s[n + i]
  <2>1. /\ b \in Seq(Coroutines)
        /\ Len(b) = IF n + 1 <= Len(s) THEN Len(s) - (n + 1) + 1 ELSE 0
        /\ \A i \in 1 .. Len(s) - (n + 1) + 1 : b[i] = s[n + 1 + i - 1]
    BY <1>1, <1>3, SubSeqProperties
  <2>2. Len(b) = Len(s) - n
    <3>1. CASE n + 1 <= Len(s)
      <4>1. Len(s) - (n + 1) + 1 = Len(s) - n
        BY <1>1
      <4> QED BY <2>1, <3>1, <4>1
    <3>2. CASE ~(n + 1 <= Len(s))
      <4>0. Len(s) \in Nat /\ n \in Nat /\ n <= Len(s)
        BY <1>1
      <4>1. Len(s) - n = 0
        BY <3>2, <4>0
      <4> QED BY <2>1, <3>2, <4>1
    <3> QED BY <3>1, <3>2
  <2>3. ASSUME NEW i \in 1 .. Len(s) - n PROVE b[i] = s[n + i]
    <3>1. i \in 1 .. Len(s) - (n + 1) + 1 /\ n + 1 + i - 1 = n + i
      BY <1>1
    <3> HIDE DEF b
    <3> QED BY <2>1, <3>1
  <2> QED BY <2>1, <2>2, <2>3 DEF HandleSeq
<1>6. DOMAIN a = 1 .. n /\ DOMAIN b = 1 .. Len(s) - n
  BY <1>4, <1>5, HandlesAre
<1>7. n # 0 => Head(a) = a[1]
  OBVIOUS
<1> HIDE DEF a, b
<1>8. IsInjective(a) /\ IsInjective(b)
  <2>1. ASSUME NEW i \in DOMAIN a, NEW j \in DOMAIN a, a[i] = a[j] PROVE i = j
    BY <2>1, <1>1, <1>4, <1>6 DEF IsInjective
  <2>2. ASSUME NEW i \in DOMAIN b, NEW j \in DOMAIN b, b[i] = b[j] PROVE i = j
    <3>1. n + i \in DOMAIN s /\ n + j \in DOMAIN s /\ s[n + i] = s[n + j]
      BY <2>2, <1>1, <1>5, <1>6
    <3>2. n + i = n + j
      BY <3>1 DEF IsInjective
    <3> QED BY <3>2, <1>1, <1>6
  <2> QED BY <2>1, <2>2 DEF IsInjective
<1>9. Handles(a) \union Handles(b) = Handles(s)
  <2>1. Handles(a) \subseteq Handles(s)
    BY <1>1, <1>4, <1>6 DEF Handles
  <2>3. Handles(b) \subseteq Handles(s)
    <3>1. \A i \in 1 .. Len(s) - n : n + i \in 1 .. Len(s)
      BY <1>1
    <3> QED BY <3>1, <1>1, <1>5, <1>6 DEF Handles
  <2>2. ASSUME NEW i \in 1 .. Len(s) PROVE s[i] \in Handles(a) \union Handles(b)
    <3>1. CASE i <= n
      BY <3>1, <1>1, <1>4, <1>6 DEF Handles
    <3>2. CASE i > n
      <4>1. i - n \in 1 .. Len(s) - n /\ n + (i - n) = i
        BY <3>2, <1>1
      <4> QED BY <4>1, <1>5, <1>6 DEF Handles
    <3> QED BY <3>1, <3>2, <1>1
  <2> QED BY <2>1, <2>2, <2>3, <1>1 DEF Handles
<1>10. Handles(a) \intersect Handles(b) = {}
  <2>1. ASSUME NEW i \in 1 .. n, NEW j \in 1 .. Len(s) - n PROVE a[i] # b[j]
    <3>1. i \in DOMAIN s /\ n + j \in DOMAIN s /\ i # n + j
      BY <1>1
    <3> QED BY <3>1, <1>4, <1>5 DEF IsInjective
  <2> QED BY <2>1, <1>6 DEF Handles
<1>11. n # 0 => Head(a) = s[1]
  BY <1>1, <1>4, <1>7
<1> QED BY <1>4, <1>5, <1>8, <1>9, <1>10, <1>11 DEF a, b

LEMMA Popped ==
  ASSUME NEW s \in HandleSeq, IsInjective(s), s # <<>>
  PROVE  /\ Front(s) \in HandleSeq
         /\ Len(Front(s)) = Len(s) - 1 /\ Len(s) \in Nat \ {0}
         /\ IsInjective(Front(s))
         /\ Last(s) \in Handles(s) /\ Last(s) \in Coroutines
         /\ Handles(Front(s)) = Handles(s) \ {Last(s)}
         /\ Front(s) # <<>> => Head(Front(s)) = Head(s)
<1>1. Len(s) \in Nat \ {0}
  BY EmptySeq DEF HandleSeq
<1>2. Len(s) - 1 \in 0 .. Len(s) /\ Len(s) - 1 + 1 = Len(s)
  BY <1>1
<1> DEFINE b == SubSeq(s, Len(s), Len(s))
<1>3. /\ Front(s) \in HandleSeq /\ b \in HandleSeq
      /\ Len(Front(s)) = Len(s) - 1 /\ Len(b) = Len(s) - (Len(s) - 1)
      /\ IsInjective(Front(s))
      /\ Handles(Front(s)) \union Handles(b) = Handles(s)
      /\ Handles(Front(s)) \intersect Handles(b) = {}
      /\ Len(s) - 1 # 0 => Head(Front(s)) = s[1]
  BY <1>2, Split DEF Front
<1>4. Len(b) = 1 /\ DOMAIN b = {1}
  <2>1. Len(b) = 1
    BY <1>1, <1>3
  <2>2. DOMAIN b = 1 .. 1
    BY <1>3, <2>1, HandlesAre
  <2> QED BY <2>1, <2>2
<1>5. b[1] = Last(s)
  <2>1. \A i \in Len(s) .. Len(s) : s[i] \in Coroutines
    BY <1>1, ElementOfSeq DEF HandleSeq
  <2>2. \A i \in 1 .. Len(s) - Len(s) + 1 : b[i] = s[Len(s) + i - 1]
    BY <1>1, <2>1, SubSeqProperties
  <2>3. 1 \in 1 .. Len(s) - Len(s) + 1 /\ Len(s) + 1 - 1 = Len(s)
    BY <1>1
  <2> HIDE DEF b
  <2> QED BY <2>2, <2>3 DEF Last
<1>6. Handles(b) = {Last(s)}
  BY <1>4, <1>5 DEF Handles
<1>7. Front(s) # <<>> => Head(Front(s)) = Head(s)
  <2>1. Front(s) # <<>> => Len(Front(s)) # 0
    BY <1>3, EmptySeq DEF HandleSeq
  <2>2. Head(s) = s[1]
    OBVIOUS
  <2> QED BY <2>1, <2>2, <1>3
<1>8. Last(s) \in Coroutines
  BY <1>1, ElementOfSeq DEF HandleSeq, Last
<1> QED BY <1>1, <1>3, <1>6, <1>7, <1>8

LEMMA HeadTaken ==
  ASSUME NEW s \in HandleSeq, IsInjective(s), s # <<>>
  PROVE  /\ Tail(s) \in HandleSeq
         /\ Len(Tail(s)) = Len(s) - 1
         /\ IsInjective(Tail(s))
         /\ Head(s) \in Handles(s) /\ Head(s) \in Coroutines
         /\ Handles(Tail(s)) = Handles(s) \ {Head(s)}
<1>1. Len(s) \in Nat \ {0}
  BY EmptySeq DEF HandleSeq
<1>2. 1 \in 0 .. Len(s)
  BY <1>1
<1> DEFINE a == SubSeq(s, 1, 1)
<1>3. Tail(s) = SubSeq(s, 2, Len(s))
  BY TailIsSubSeq DEF HandleSeq
<1>4. /\ a \in HandleSeq /\ Tail(s) \in HandleSeq
      /\ Len(a) = 1 /\ Len(Tail(s)) = Len(s) - 1
      /\ IsInjective(Tail(s))
      /\ Handles(a) \union Handles(Tail(s)) = Handles(s)
      /\ Handles(a) \intersect Handles(Tail(s)) = {}
      /\ Head(a) = s[1]
  <2>0. PICK n \in 0 .. Len(s) : n = 1
    BY <1>2
  <2> DEFINE b == SubSeq(s, n + 1, Len(s))
             c == SubSeq(s, 1, n)
  <2>1. b = Tail(s)
    <3>1. n + 1 = 2
      BY <2>0
    <3> QED BY <1>3, <3>1
  <2>3. c = a /\ n # 0
    BY <2>0
  <2>2. /\ c \in HandleSeq /\ b \in HandleSeq
        /\ Len(c) = n /\ Len(b) = Len(s) - n
        /\ IsInjective(b)
        /\ Handles(c) \union Handles(b) = Handles(s)
        /\ Handles(c) \intersect Handles(b) = {}
        /\ n # 0 => Head(c) = s[1]
    BY Split
  <2> HIDE DEF a, b, c
  <2> QED BY <2>0, <2>1, <2>2, <2>3
<1>5. Head(s) = s[1] /\ Head(a) = a[1]
  OBVIOUS
<1>6. DOMAIN a = 1 .. 1
  BY <1>4, HandlesAre
<1> HIDE DEF a
<1>7. Handles(a) = {Head(s)}
  BY <1>4, <1>5, <1>6 DEF Handles
<1>8. Head(s) \in Coroutines
  BY <1>4, <1>7, HandlesAre
<1> QED BY <1>4, <1>7, <1>8

LEMMA Joined ==
  ASSUME NEW s \in HandleSeq, IsInjective(s), NEW t \in HandleSeq, IsInjective(t),
         Handles(s) \intersect Handles(t) = {}
  PROVE  /\ s \o t \in HandleSeq
         /\ IsInjective(s \o t)
         /\ Handles(s \o t) = Handles(s) \union Handles(t)
         /\ Len(s \o t) = Len(s) + Len(t)
         /\ s # <<>> => Head(s \o t) = Head(s)
         /\ s = <<>> => s \o t = t
<1> DEFINE u == s \o t
<1>1. Len(s) \in Nat /\ Len(t) \in Nat /\ DOMAIN s = 1 .. Len(s) /\ DOMAIN t = 1 .. Len(t)
  BY HandlesAre
<1>2. /\ u \in HandleSeq /\ Len(u) = Len(s) + Len(t)
      /\ \A i \in 1 .. Len(s) + Len(t) : u[i] = IF i <= Len(s) THEN s[i] ELSE t[i - Len(s)]
  BY ConcatProperties DEF HandleSeq
<1>3. DOMAIN u = 1 .. Len(s) + Len(t)
  BY <1>2, HandlesAre
<1>4. s = <<>> => u = t
  BY ConcatEmptySeq DEF HandleSeq
<1>5. Head(s) = s[1]
  OBVIOUS
<1>6. s # <<>> => Len(s) # 0
  BY EmptySeq DEF HandleSeq
<1> HIDE DEF u
<1>13. Head(u) = u[1]
  OBVIOUS
<1>7. \A i \in 1 .. Len(s) : u[i] = s[i]
  BY <1>1, <1>2
<1>8. \A i \in 1 .. Len(t) : u[Len(s) + i] = t[i]
  <2>1. TAKE i \in 1 .. Len(t)
  <2>2. Len(s) + i \in 1 .. Len(s) + Len(t) /\ ~(Len(s) + i <= Len(s)) /\ Len(s) + i - Len(s) = i
    BY <1>1
  <2> QED BY <1>2, <2>2
<1>9. \A i \in 1 .. Len(s) + Len(t) :
        \/ i \in 1 .. Len(s) /\ u[i] = s[i]
        \/ i - Len(s) \in 1 .. Len(t) /\ u[i] = t[i - Len(s)]
  BY <1>1, <1>2
<1>10. Handles(u) = Handles(s) \union Handles(t)
  <2>1. Handles(u) \subseteq Handles(s) \union Handles(t)
    BY <1>1, <1>3, <1>9 DEF Handles
  <2>2. Handles(s) \subseteq Handles(u)
    BY <1>1, <1>3, <1>7 DEF Handles
  <2>3. ASSUME NEW i \in 1 .. Len(t) PROVE t[i] \in Handles(u)
    <3>1. Len(s) + i \in DOMAIN u
      BY <1>1, <1>3
    <3> QED BY <3>1, <1>8 DEF Handles
  <2> QED BY <2>1, <2>2, <2>3, <1>1 DEF Handles
<1>11. IsInjective(u)
  <2>1. ASSUME NEW i \in DOMAIN u, NEW j \in DOMAIN u, u[i] = u[j] PROVE i = j
    <3>1. \A k \in 1 .. Len(s), m \in 1 .. Len(t) : s[k] # t[m]
      BY <1>1 DEF Handles
    <3>2. CASE i \in 1 .. Len(s) /\ j \in 1 .. Len(s)
      BY <2>1, <3>2, <1>1, <1>7 DEF IsInjective
    <3>3. CASE i - Len(s) \in 1 .. Len(t) /\ j - Len(s) \in 1 .. Len(t) /\ u[i] = t[i - Len(s)] /\ u[j] = t[j - Len(s)]
      <4>1. i - Len(s) = j - Len(s)
        BY <2>1, <3>3, <1>1 DEF IsInjective
      <4> QED BY <4>1, <1>1, <1>3
    <3> QED BY <2>1, <3>1, <3>2, <3>3, <1>3, <1>9
  <2> QED BY <2>1 DEF IsInjective
<1>12. s # <<>> => Head(u) = Head(s)
  BY <1>1, <1>5, <1>6, <1>7, <1>13
<1> QED BY <1>2, <1>4, <1>10, <1>11, <1>12 DEF u

-----------------------------------------------------------------------------
(* One processor: every handle in one place.                               *)

Waiters(q) == Handles(q.inj) \union UNION {Handles(q.carries[s]) : s \in ShardSet}

(* The places that are not reached through staging.                        *)
Quick(q) == ({q.runNext} \ {None}) \union Handles(q.local)

Neat(q) ==
  /\ IsInjective(q.local) /\ IsInjective(q.inj)
  /\ \A s \in ShardSet : IsInjective(q.carries[s])
  /\ q.runNext \notin Handles(q.local) \union Handles(q.inj)
  /\ Handles(q.local) \intersect Handles(q.inj) = {}
  /\ \A s \in ShardSet :
       /\ q.runNext \notin Handles(q.carries[s])
       /\ Handles(q.local) \intersect Handles(q.carries[s]) = {}
       /\ Handles(q.inj) \intersect Handles(q.carries[s]) = {}
  /\ \A s, t \in ShardSet :
       s # t => Handles(q.carries[s]) \intersect Handles(q.carries[t]) = {}

Good(q) ==
  /\ q \in ProcessorType
  /\ Len(q.local) <= LocalCapacity
  /\ Neat(q)

LEMMA Parts ==
  ASSUME NEW q, q \in ProcessorType
  PROVE  /\ AllOf(q) = Quick(q) \union Waiters(q)
         /\ AllOf(q) \subseteq Coroutines
         /\ \A c : c \in AllOf(q) <=>
              \/ c = q.runNext /\ c # None
              \/ c \in Handles(q.local) \/ c \in Handles(q.inj)
              \/ \E s \in ShardSet : c \in Handles(q.carries[s])
<1>1. /\ q.runNext \in Coroutines \union {None}
      /\ q.local \in HandleSeq /\ q.inj \in HandleSeq
      /\ \A s \in ShardSet : q.carries[s] \in HandleSeq
  BY DEF ProcessorType
<1>2. AllOf(q) = Quick(q) \union Waiters(q)
  BY DEF AllOf, Quick, Waiters
<1>3. \A c : c \in AllOf(q) <=>
        \/ c = q.runNext /\ c # None
        \/ c \in Handles(q.local) \/ c \in Handles(q.inj)
        \/ \E s \in ShardSet : c \in Handles(q.carries[s])
  BY DEF AllOf
<1>4. AllOf(q) \subseteq Coroutines
  BY <1>1, <1>3, HandlesAre
<1> QED BY <1>2, <1>3, <1>4

LEMMA TickChanged ==
  ASSUME NEW q, q \in ProcessorType, NEW k \in 0 .. ServiceInterval - 1
  PROVE  LET r == [q EXCEPT !.tick = k]
         IN  /\ r \in ProcessorType /\ r.tick = k
             /\ r.state = q.state /\ r.runNext = q.runNext /\ r.hits = q.hits
             /\ r.local = q.local /\ r.carries = q.carries /\ r.inj = q.inj
             /\ r.cursor = q.cursor
             /\ Good(q) => Good(r)
             /\ AllOf(r) = AllOf(q) /\ Quick(r) = Quick(q)
<1> DEFINE r == [q EXCEPT !.tick = k]
<1>1. /\ r \in ProcessorType /\ r.tick = k
      /\ r.state = q.state /\ r.runNext = q.runNext /\ r.hits = q.hits
      /\ r.local = q.local /\ r.carries = q.carries /\ r.inj = q.inj
      /\ r.cursor = q.cursor
  BY DEF ProcessorType
<1> HIDE DEF r
<1>2. Good(q) => Good(r)
  BY <1>1 DEF Good, Neat
<1>3. AllOf(r) = AllOf(q) /\ Quick(r) = Quick(q)
  BY <1>1 DEF AllOf, Quick
<1> QED BY <1>1, <1>2, <1>3 DEF r

(* r is q but for run_next and its hits.                                   *)
RunNextOnly(q, r) ==
  /\ r.state = q.state /\ r.tick = q.tick /\ r.cursor = q.cursor
  /\ r.local = q.local /\ r.carries = q.carries /\ r.inj = q.inj

LEMMA RunNextMoved ==
  ASSUME NEW q, Good(q), NEW r, r \in ProcessorType, RunNextOnly(q, r), r.runNext \notin AllOf(q)
  PROVE  /\ Good(r)
         /\ AllOf(r) = (AllOf(q) \ {q.runNext}) \union ({r.runNext} \ {None})
         /\ Quick(r) \subseteq Quick(q) \union {r.runNext}
<1> DEFINE x == r.runNext
<1>0. q \in ProcessorType
  BY DEF Good
<1>1. /\ r.local = q.local /\ r.carries = q.carries /\ r.inj = q.inj
      /\ x \in Coroutines \union {None} /\ r.runNext = x
  BY DEF RunNextOnly, ProcessorType
<1>2. None \notin Coroutines
  BY SchedulerAssumption
<1>7. x \notin AllOf(q)
  OBVIOUS
<1> HIDE DEF x
<1>3. AllOf(r) = (AllOf(q) \ {q.runNext}) \union ({x} \ {None})
  <2>1. ASSUME NEW c PROVE c \in AllOf(r) <=> c \in (AllOf(q) \ {q.runNext}) \union ({x} \ {None})
    BY <1>0, <1>1, Parts DEF Good, Neat
  <2> QED BY <2>1
<1>4. Quick(r) \subseteq Quick(q) \union {x}
  BY <1>1 DEF Quick
<1>5. Neat(r)
  <2>1. q.local \in HandleSeq /\ q.inj \in HandleSeq /\ \A s \in ShardSet : q.carries[s] \in HandleSeq
    BY <1>0 DEF ProcessorType
  <2>2. x \notin Handles(q.local) \union Handles(q.inj) /\ \A s \in ShardSet : x \notin Handles(q.carries[s])
    BY <1>0, <1>1, <1>2, <1>7, <2>1, Parts, HandlesAre
  <2> QED BY <1>1, <2>2 DEF Good, Neat
<1>6. Len(r.local) <= LocalCapacity
  BY <1>1 DEF Good
<1> QED BY <1>3, <1>4, <1>5, <1>6 DEF x, Good

LEMMA RunNextChanged ==
  ASSUME NEW q, Good(q), NEW x \in Coroutines \union {None}, NEW h \in {0, 1},
         x \notin AllOf(q)
  PROVE  LET r == [q EXCEPT !.runNext = x, !.hits = h]
         IN  /\ Good(r) /\ r.runNext = x /\ r.hits = h
             /\ r.state = q.state /\ r.tick = q.tick /\ r.cursor = q.cursor
             /\ r.local = q.local /\ r.carries = q.carries /\ r.inj = q.inj
             /\ AllOf(r) = (AllOf(q) \ {q.runNext}) \union ({x} \ {None})
             /\ Quick(r) \subseteq Quick(q) \union {x}
<1> DEFINE r == [q EXCEPT !.runNext = x, !.hits = h]
<1>1. r \in ProcessorType /\ RunNextOnly(q, r) /\ r.runNext = x /\ r.hits = h
  BY DEF ProcessorType, RunNextOnly, Good
<1> HIDE DEF r
<1>2. /\ Good(r)
      /\ AllOf(r) = (AllOf(q) \ {q.runNext}) \union ({x} \ {None})
      /\ Quick(r) \subseteq Quick(q) \union {x}
  BY <1>1, RunNextMoved
<1> QED BY <1>1, <1>2 DEF r, RunNextOnly

LEMMA LocalChanged ==
  ASSUME NEW q, Good(q), NEW k \in HandleSeq, IsInjective(k), Len(k) <= LocalCapacity,
         Handles(k) \intersect (AllOf(q) \ Handles(q.local)) = {}
  PROVE  LET r == [q EXCEPT !.local = k]
         IN  /\ Good(r) /\ r.local = k
             /\ r.runNext = q.runNext /\ r.hits = q.hits
             /\ r.state = q.state /\ r.tick = q.tick /\ r.cursor = q.cursor
             /\ r.carries = q.carries /\ r.inj = q.inj
             /\ AllOf(r) = (AllOf(q) \ Handles(q.local)) \union Handles(k)
             /\ Quick(r) \subseteq Quick(q) \union Handles(k)
<1> DEFINE r == [q EXCEPT !.local = k]
<1>0. q \in ProcessorType
  BY DEF Good
<1>1. /\ r \in ProcessorType /\ r.local = k
      /\ r.runNext = q.runNext /\ r.hits = q.hits
      /\ r.state = q.state /\ r.tick = q.tick /\ r.cursor = q.cursor
      /\ r.carries = q.carries /\ r.inj = q.inj
  BY <1>0 DEF ProcessorType
<1>2. None \notin Coroutines
  BY SchedulerAssumption
<1> HIDE DEF r
<1>3. AllOf(r) = (AllOf(q) \ Handles(q.local)) \union Handles(k)
  <2>1. ASSUME NEW c PROVE c \in AllOf(r) <=> c \in (AllOf(q) \ Handles(q.local)) \union Handles(k)
    BY <1>0, <1>1, Parts DEF Good, Neat
  <2> QED BY <2>1
<1>4. Quick(r) \subseteq Quick(q) \union Handles(k)
  BY <1>1 DEF Quick
<1>5. Neat(r)
  <2>1. Handles(k) \subseteq Coroutines
    BY HandlesAre
  <2>2. q.runNext \notin Handles(k)
    BY <1>0, <1>2, <2>1, Parts DEF Good, Neat
  <2>3. Handles(k) \intersect Handles(q.inj) = {}
    BY <1>0, Parts DEF Good, Neat
  <2>4. \A s \in ShardSet : Handles(k) \intersect Handles(q.carries[s]) = {}
    BY <1>0, Parts DEF Good, Neat
  <2> QED BY <1>1, <2>2, <2>3, <2>4 DEF Good, Neat
<1> QED BY <1>1, <1>3, <1>4, <1>5 DEF r, Good

LEMMA InjChanged ==
  ASSUME NEW q, Good(q), NEW k \in HandleSeq, IsInjective(k),
         Handles(k) \intersect (AllOf(q) \ Handles(q.inj)) = {}
  PROVE  LET r == [q EXCEPT !.inj = k]
         IN  /\ Good(r) /\ r.inj = k
             /\ r.runNext = q.runNext /\ r.hits = q.hits
             /\ r.state = q.state /\ r.tick = q.tick /\ r.cursor = q.cursor
             /\ r.carries = q.carries /\ r.local = q.local
             /\ AllOf(r) = (AllOf(q) \ Handles(q.inj)) \union Handles(k)
             /\ Quick(r) = Quick(q)
<1> DEFINE r == [q EXCEPT !.inj = k]
<1>0. q \in ProcessorType
  BY DEF Good
<1>1. /\ r \in ProcessorType /\ r.inj = k
      /\ r.runNext = q.runNext /\ r.hits = q.hits
      /\ r.state = q.state /\ r.tick = q.tick /\ r.cursor = q.cursor
      /\ r.carries = q.carries /\ r.local = q.local
  BY <1>0 DEF ProcessorType
<1>2. None \notin Coroutines
  BY SchedulerAssumption
<1> HIDE DEF r
<1>3. AllOf(r) = (AllOf(q) \ Handles(q.inj)) \union Handles(k)
  <2>1. ASSUME NEW c PROVE c \in AllOf(r) <=> c \in (AllOf(q) \ Handles(q.inj)) \union Handles(k)
    BY <1>0, <1>1, Parts DEF Good, Neat
  <2> QED BY <2>1
<1>4. Quick(r) = Quick(q)
  BY <1>1 DEF Quick
<1>5. Neat(r)
  <2>1. Handles(k) \subseteq Coroutines
    BY HandlesAre
  <2>2. q.runNext \notin Handles(k)
    BY <1>0, <1>2, <2>1, Parts DEF Good, Neat
  <2>3. Handles(k) \intersect Handles(q.local) = {}
    BY <1>0, Parts DEF Good, Neat
  <2>4. \A s \in ShardSet : Handles(k) \intersect Handles(q.carries[s]) = {}
    BY <1>0, Parts DEF Good, Neat
  <2> QED BY <1>1, <2>2, <2>3, <2>4 DEF Good, Neat
<1>6. Len(r.local) <= LocalCapacity
  BY <1>1 DEF Good
<1> QED BY <1>1, <1>3, <1>4, <1>5, <1>6 DEF r, Good

(* r is q but for the carry of shard s and the cursor.                     *)
CarryOnly(q, r, s) ==
  /\ \A t \in ShardSet \ {s} : r.carries[t] = q.carries[t]
  /\ r.runNext = q.runNext /\ r.hits = q.hits
  /\ r.state = q.state /\ r.tick = q.tick
  /\ r.inj = q.inj /\ r.local = q.local

LEMMA CarryChanged ==
  ASSUME NEW q, Good(q), NEW r, r \in ProcessorType, NEW s \in ShardSet, CarryOnly(q, r, s),
         IsInjective(r.carries[s]),
         Handles(r.carries[s]) \intersect (AllOf(q) \ Handles(q.carries[s])) = {}
  PROVE  /\ Good(r)
         /\ AllOf(r) = (AllOf(q) \ Handles(q.carries[s])) \union Handles(r.carries[s])
         /\ Quick(r) = Quick(q)
<1> DEFINE k == r.carries[s]
<1>0. q \in ProcessorType
  BY DEF Good
<1>1. /\ r.carries[s] = k
      /\ \A t \in ShardSet \ {s} : r.carries[t] = q.carries[t]
      /\ r.runNext = q.runNext /\ r.inj = q.inj /\ r.local = q.local
  BY DEF CarryOnly
<1>2. None \notin Coroutines
  BY SchedulerAssumption
<1>7. k \in HandleSeq /\ IsInjective(k) /\ Handles(k) \intersect (AllOf(q) \ Handles(q.carries[s])) = {}
  BY DEF ProcessorType
<1> HIDE DEF k
<1>3. AllOf(r) = (AllOf(q) \ Handles(q.carries[s])) \union Handles(k)
  <2>1. ASSUME NEW c PROVE c \in AllOf(r) <=> c \in (AllOf(q) \ Handles(q.carries[s])) \union Handles(k)
    BY <1>0, <1>1, Parts DEF Good, Neat
  <2> QED BY <2>1
<1>4. Quick(r) = Quick(q)
  BY <1>1 DEF Quick
<1>5. Neat(r)
  <2>1. Handles(k) \subseteq Coroutines
    BY <1>7, HandlesAre
  <2>2. q.runNext \notin Handles(k)
    BY <1>0, <1>2, <1>7, <2>1, Parts DEF Good, Neat
  <2>3. Handles(k) \intersect Handles(q.local) = {} /\ Handles(k) \intersect Handles(q.inj) = {}
    BY <1>0, <1>7, Parts DEF Good, Neat
  <2>4. \A t \in ShardSet \ {s} : Handles(k) \intersect Handles(q.carries[t]) = {}
    BY <1>0, <1>7, Parts DEF Good, Neat
  <2>5. /\ IsInjective(r.local) /\ IsInjective(r.inj)
        /\ \A t \in ShardSet : IsInjective(r.carries[t])
        /\ r.runNext \notin Handles(r.local) \union Handles(r.inj)
        /\ Handles(r.local) \intersect Handles(r.inj) = {}
    BY <1>1, <1>7 DEF Good, Neat
  <2>6. ASSUME NEW t \in ShardSet
        PROVE  /\ r.runNext \notin Handles(r.carries[t])
               /\ Handles(r.local) \intersect Handles(r.carries[t]) = {}
               /\ Handles(r.inj) \intersect Handles(r.carries[t]) = {}
    BY <1>1, <2>2, <2>3 DEF Good, Neat
  <2>7. ASSUME NEW t \in ShardSet, NEW v \in ShardSet, t # v
        PROVE  Handles(r.carries[t]) \intersect Handles(r.carries[v]) = {}
    BY <1>1, <2>4, <2>7 DEF Good, Neat
  <2> QED BY <2>5, <2>6, <2>7 DEF Neat
<1>6. Len(r.local) <= LocalCapacity
  BY <1>1 DEF Good
<1> QED BY <1>3, <1>4, <1>5, <1>6 DEF Good, k

LEMMA StateChanged ==
  ASSUME NEW q, Good(q), NEW x \in {"Idle", "Retiring"}
  PROVE  LET r == [q EXCEPT !.state = x]
         IN  /\ Good(r) /\ r.state = x
             /\ r.tick = q.tick /\ r.cursor = q.cursor
             /\ r.runNext = q.runNext /\ r.local = q.local
             /\ r.carries = q.carries /\ r.inj = q.inj
             /\ AllOf(r) = AllOf(q) /\ Quick(r) = Quick(q)
<1> DEFINE r == [q EXCEPT !.state = x]
<1>1. /\ r \in ProcessorType /\ r.state = x
      /\ r.tick = q.tick /\ r.cursor = q.cursor
      /\ r.runNext = q.runNext /\ r.local = q.local
      /\ r.carries = q.carries /\ r.inj = q.inj
  BY DEF ProcessorType, Good
<1> HIDE DEF r
<1>2. Good(r) /\ AllOf(r) = AllOf(q) /\ Quick(r) = Quick(q)
  BY <1>1 DEF Good, Neat, AllOf, Quick
<1> QED BY <1>1, <1>2 DEF r

(* A processor without any handle.                                         *)
Bare(q) ==
  /\ q.runNext = None /\ q.local = <<>> /\ q.inj = <<>>
  /\ \A s \in ShardSet : q.carries[s] = <<>>

LEMMA BareIsGood ==
  ASSUME NEW q, q \in ProcessorType, Bare(q)
  PROVE  Good(q) /\ AllOf(q) = {} /\ Quick(q) = {}
<1>1. LocalCapacity \in Nat
  BY SchedulerAssumption
<1> QED BY <1>1, NothingQueued DEF Good, Bare, Neat, AllOf, Quick

LEMMA DrainedIsBare ==
  ASSUME NEW q, q \in ProcessorType
  PROVE  LET r == [Drained(q) EXCEPT !.state = "Idle"]
         IN r \in ProcessorType /\ Bare(r) /\ r.state = "Idle" /\ r.tick = q.tick /\ r.cursor = q.cursor
  BY NothingQueued DEF ProcessorType, Drained, Bare

LEMMA NewIsBare ==
  NewProcessor \in ProcessorType /\ Bare(NewProcessor) /\ NewProcessor.state = "Idle"
<1>1. 0 \in ShardSet
  BY SchedulerAssumption DEF ShardSet
<1>2. 0 \in 0 .. ServiceInterval - 1
  BY SchedulerAssumption
<1> QED BY <1>1, <1>2, NothingQueued DEF ProcessorType, NewProcessor, Bare

-----------------------------------------------------------------------------
(* Choices of a least element, and the external service.                   *)

LEMMA Least ==
  ASSUME NEW S \in SUBSET Nat, S # {}
  PROVE  \E m \in S : \A x \in S : m <= x
<1>1. PICK m \in S : \A x \in S : ~ (<<x, m>> \in OpToRel(<, Nat))
  BY NatLessThanWellFounded, WFMin
<1>2. ASSUME NEW x \in S PROVE m <= x
  <2>1. ~(x < m)
    BY <1>1 DEF OpToRel
  <2> QED BY <2>1
<1> QED BY <1>2

LEMMA AwayIs ==
  ASSUME NEW q, q \in ProcessorType, NEW s \in ShardSet
  PROVE  Away(q, s) \in 0 .. Shards - 1
<1>1. Shards \in Nat \ {0}
  BY SchedulerAssumption
<1>2. q.cursor \in 0 .. Shards - 1 /\ s \in 0 .. Shards - 1
  BY DEF ProcessorType, ShardSet
<1> QED BY <1>1, <1>2 DEF Away

LEMMA NextShardIs ==
  ASSUME NEW q, q \in ProcessorType, RemoteReady(q)
  PROVE  /\ NextShard(q) \in ShardSet
         /\ q.carries[NextShard(q)] # <<>>
         /\ \A t \in ShardSet : q.carries[t] # <<>> => Away(q, NextShard(q)) <= Away(q, t)
<1> DEFINE S == {Away(q, s) : s \in {t \in ShardSet : q.carries[t] # <<>>}}
<1>1. S \in SUBSET Nat
  BY AwayIs
<1>2. S # {}
  BY DEF RemoteReady
<1>3. PICK m \in S : \A x \in S : m <= x
  BY <1>1, <1>2, Least
<1>4. PICK s \in ShardSet : q.carries[s] # <<>> /\ m = Away(q, s)
  OBVIOUS
<1>5. \A t \in ShardSet : q.carries[t] # <<>> => Away(q, s) <= Away(q, t)
  BY <1>3, <1>4
<1> QED BY <1>4, <1>5 DEF NextShard

LEMMA AfterIs ==
  ASSUME NEW n \in Nat \ {0}, NEW i \in 0 .. n - 1
  PROVE  /\ After(i, n) \in 0 .. n - 1
         /\ n # 1 => After(i, n) # i
         /\ After(i, n) # 0 => After(i, n) = i + 1
  BY DEF After

(* The cursor comes nearer to every shard but the one it has served.       *)
LEMMA CursorMoves ==
  ASSUME NEW q, q \in ProcessorType, NEW r, r \in ProcessorType, NEW n \in ShardSet,
         r.cursor = After(n, Shards), NEW s \in ShardSet, s # n,
         Away(q, n) <= Away(q, s)
  PROVE  Away(r, s) < Away(q, s)
<1>1. Shards \in Nat \ {0}
  BY SchedulerAssumption
<1>2. q.cursor \in 0 .. Shards - 1 /\ s \in 0 .. Shards - 1 /\ n \in 0 .. Shards - 1
  BY DEF ProcessorType, ShardSet
<1>3. CASE n + 1 = Shards
  <2>1. r.cursor = 0
    BY <1>3 DEF After
  <2> QED BY <1>1, <1>2, <1>3, <2>1 DEF Away
<1>4. CASE n + 1 # Shards
  <2>1. r.cursor = n + 1
    BY <1>4 DEF After
  <2> QED BY <1>1, <1>2, <1>4, <2>1 DEF Away
<1> QED BY <1>3, <1>4

LEMMA Serviced ==
  ASSUME NEW q, Good(q), HasExternal(q)
  PROVE  LET r == AfterExternal(q)
             c == External(q)
         IN  /\ Good(r) /\ AllOf(r) = AllOf(q) \ {c} /\ Quick(r) = Quick(q)
             /\ c \in AllOf(q) /\ c \in Coroutines /\ c \notin Quick(q)
             /\ r.state = q.state /\ r.tick = q.tick
             /\ r.runNext = q.runNext /\ r.local = q.local
             /\ \A s \in ShardSet : r.carries[s] # <<>> =>
                  q.carries[s] # <<>> /\ Head(r.carries[s]) = Head(q.carries[s])
             /\ \A s \in ShardSet : q.carries[s] # <<>> =>
                  r.carries[s] = Front(q.carries[s]) \/ Away(r, s) < Away(q, s)
<1>0. q \in ProcessorType
  BY DEF Good
<1>1. /\ q.inj \in HandleSeq /\ IsInjective(q.inj)
      /\ \A s \in ShardSet : q.carries[s] \in HandleSeq /\ IsInjective(q.carries[s])
  BY <1>0 DEF ProcessorType, Good, Neat
<1>2. CASE RemoteReady(q)
  <2> DEFINE n == NextShard(q)
             k == Front(q.carries[n])
             c == Last(q.carries[n])
             u == After(n, Shards)
             r == [q EXCEPT !.carries[n] = k, !.cursor = u]
  <2>1. /\ n \in ShardSet /\ q.carries[n] # <<>>
        /\ \A t \in ShardSet : q.carries[t] # <<>> => Away(q, n) <= Away(q, t)
    BY <1>0, <1>2, NextShardIs
  <2>2. AfterExternal(q) = r /\ External(q) = c
    BY <1>2 DEF AfterExternal, External
  <2>3. After(n, Shards) \in ShardSet
    BY <2>1, AfterIs, SchedulerAssumption DEF ShardSet
  <2>4. /\ k \in HandleSeq /\ IsInjective(k)
        /\ c \in Handles(q.carries[n]) /\ c \in Coroutines
        /\ Handles(k) = Handles(q.carries[n]) \ {c}
        /\ k # <<>> => Head(k) = Head(q.carries[n])
    BY <1>1, <2>1, Popped
  <2>5. c \in AllOf(q) /\ c \notin Quick(q)
    BY <1>0, <2>1, <2>4, Parts DEF Good, Neat, Quick
  <2> HIDE DEF c, k, n, u
  <2>10. Handles(k) \intersect (AllOf(q) \ Handles(q.carries[n])) = {}
    BY <2>4
  <2>11. u \in ShardSet
    BY <2>3 DEF u
  <2>12. n \in ShardSet
    BY <2>1
  <2>13. k \in HandleSeq /\ IsInjective(k)
    BY <2>4
  <2>14. q \in ProcessorType
    BY <1>0
  <2>15. r \in ProcessorType /\ CarryOnly(q, r, n) /\ r.carries[n] = k /\ r.cursor = u
    BY <2>11, <2>12, <2>13, <2>14 DEF ProcessorType, CarryOnly
  <2> HIDE DEF r
  <2>6. /\ Good(r)
        /\ AllOf(r) = (AllOf(q) \ Handles(q.carries[n])) \union Handles(k)
        /\ Quick(r) = Quick(q)
    BY <2>10, <2>12, <2>13, <2>15, CarryChanged
  <2>7. AllOf(r) = AllOf(q) \ {c}
    <3>1. Handles(q.carries[n]) \subseteq AllOf(q)
      BY <1>0, <2>1, Parts
    <3> QED BY <3>1, <2>4, <2>6
  <2>8. \A s \in ShardSet : r.carries[s] # <<>> =>
          q.carries[s] # <<>> /\ Head(r.carries[s]) = Head(q.carries[s])
    BY <2>1, <2>4, <2>15 DEF CarryOnly
  <2>9. ASSUME NEW s \in ShardSet, q.carries[s] # <<>>
        PROVE  r.carries[s] = Front(q.carries[s]) \/ Away(r, s) < Away(q, s)
    <3>1. CASE s = n
      BY <3>1, <2>15 DEF k
    <3>2. CASE s # n
      BY <3>2, <1>0, <2>1, <2>6, <2>9, <2>15, CursorMoves DEF Good, u
    <3> QED BY <3>1, <3>2
  <2>16. r.state = q.state /\ r.tick = q.tick /\ r.runNext = q.runNext /\ r.local = q.local
    BY <2>15 DEF CarryOnly
  <2> QED BY <2>2, <2>4, <2>5, <2>6, <2>7, <2>8, <2>9, <2>16
<1>3. CASE ~RemoteReady(q)
  <2> DEFINE k == Front(q.inj)
             c == Last(q.inj)
             r == [q EXCEPT !.inj = k]
  <2>1. q.inj # <<>> /\ \A s \in ShardSet : q.carries[s] = <<>>
    BY <1>3 DEF HasExternal, RemoteReady
  <2>2. AfterExternal(q) = r /\ External(q) = c
    BY <1>3 DEF AfterExternal, External
  <2>4. /\ k \in HandleSeq /\ IsInjective(k)
        /\ c \in Handles(q.inj) /\ c \in Coroutines
        /\ Handles(k) = Handles(q.inj) \ {c}
    BY <1>1, <2>1, Popped
  <2>5. c \in AllOf(q) /\ c \notin Quick(q)
    BY <1>0, <2>1, <2>4, Parts DEF Good, Neat, Quick
  <2> HIDE DEF c, k
  <2>6. /\ Good(r)
        /\ r.carries = q.carries
        /\ r.runNext = q.runNext
        /\ r.state = q.state /\ r.tick = q.tick
        /\ r.local = q.local
        /\ AllOf(r) = (AllOf(q) \ Handles(q.inj)) \union Handles(k)
        /\ Quick(r) = Quick(q)
    BY <2>4, InjChanged
  <2> HIDE DEF r
  <2>7. AllOf(r) = AllOf(q) \ {c}
    <3>1. Handles(q.inj) \subseteq AllOf(q)
      BY <1>0, <2>1, Parts
    <3> QED BY <3>1, <2>4, <2>6
  <2> QED BY <2>1, <2>2, <2>4, <2>5, <2>6, <2>7
<1> QED BY <1>2, <1>3

-----------------------------------------------------------------------------
(* The inductive invariant                                                 *)

SleeperType == [worker : Workers, proc : Nat, seen : 0 .. SeqLimit]
Runnables == {c \in Coroutines : life[c] = "Runnable"}

ProcsOK(pc) == pc \in Seq(ProcessorType) /\ \A p \in DOMAIN pc : Good(pc[p])

StagingOK(st, n) ==
  /\ st \in [Producers -> [target : Nat, handles : HandleSeq]]
  /\ \A x \in Producers :
       /\ Len(st[x].handles) <= BatchMax
       /\ IsInjective(st[x].handles)
       /\ st[x].handles # <<>> => st[x].target \in 1 .. n

SleepersOK(sl, n) ==
  /\ sl \in Seq(SleeperType)
  /\ \A i \in 1 .. Len(sl) : sl[i].proc \in 1 .. n
  /\ \A i, j \in 1 .. Len(sl) : sl[i].worker = sl[j].worker => i = j

LookOK(lk, n) ==
  /\ lk \in [Workers -> [at : {"awake", "snapshot", "empty"}, proc : Nat, seen : 0 .. SeqLimit]]
  /\ \A w \in Workers : lk[w].at # "awake" => lk[w].proc \in 1 .. n

(* No handle is in two of the processors, stages, held and lost; pc and st *)
(* are the processors and the stages.                                      *)
Apart(pc, st, h, l) ==
  \A c :
    /\ \A p, r \in DOMAIN pc : c \in AllOf(pc[p]) /\ c \in AllOf(pc[r]) => p = r
    /\ \A x, y \in Producers :
         c \in Handles(st[x].handles) /\ c \in Handles(st[y].handles) => x = y
    /\ \A p \in DOMAIN pc, x \in Producers :
         ~(c \in AllOf(pc[p]) /\ c \in Handles(st[x].handles))
    /\ c \in h \union l =>
         /\ \A p \in DOMAIN pc : c \notin AllOf(pc[p])
         /\ \A x \in Producers : c \notin Handles(st[x].handles)
    /\ ~(c \in h /\ c \in l)

Somewhere(c, pc, st, h, l) ==
  \/ c \in h \union l
  \/ \E p \in DOMAIN pc : c \in AllOf(pc[p])
  \/ \E x \in Producers : c \in Handles(st[x].handles)

Placed(pc, st, h, l, run) ==
  /\ Apart(pc, st, h, l)
  /\ \A c : c \in run <=> Somewhere(c, pc, st, h, l)

Batches(pc, b, l, run) ==
  /\ b \subseteq run
  /\ b \intersect l = {}
  /\ \A p \in DOMAIN pc : Quick(pc[p]) \intersect b = {}

(* A carry that is headed by a handle published through staging.           *)
Announced(k, b) == k # <<>> /\ Head(k) \in b
Quiet(pc, b, p) == \A s \in ShardSet : ~Announced(pc[p].carries[s], b)

(* Who has looked and found nothing, with a sequence number that is still  *)
(* the last one, overlooks nothing; nor does the last one to fall asleep.  *)
Watched(pc, b, seq, sl, lk) ==
  /\ \A w \in Workers : lk[w].at # "awake" => lk[w].seen <= seq
  /\ \A w \in Workers :
       lk[w].at = "empty" /\ lk[w].seen = seq => Quiet(pc, b, lk[w].proc)
  /\ Len(sl) = Cardinality(Workers) =>
       sl[Len(sl)].seen = seq /\ Quiet(pc, b, sl[Len(sl)].proc)

ActiveIn(pc) == {p \in DOMAIN pc : pc[p].state # "Retiring"}

(* The part of the state the scheduler works on; run is the set of the     *)
(* runnable coroutines.                                                    *)
Now ==
  [procs |-> procs, seq |-> workSeq, idle |-> idle, staging |-> staging,
   batch |-> batch, run |-> Runnables, held |-> held, lost |-> lost, look |-> look]

Sound(w) ==
  /\ ProcsOK(w.procs)
  /\ StagingOK(w.staging, Len(w.procs))
  /\ w.seq \in 0 .. SeqLimit
  /\ SleepersOK(w.idle, Len(w.procs))
  /\ LookOK(w.look, Len(w.procs))
  /\ Placed(w.procs, w.staging, w.held, w.lost, w.run)
  /\ Batches(w.procs, w.batch, w.lost, w.run)
  /\ Watched(w.procs, w.batch, w.seq, w.idle, w.look)

Core ==
  /\ life \in [Coroutines -> {"Runnable", "Running", "Waiting"}]
  /\ Len(procs) <= MaxProcessors
  /\ parallelism \in 1 .. MaxProcessors
  /\ Cardinality(ActiveIn(procs)) >= parallelism
  /\ Sound(Now)

IInv == Core /\ calls \in 0 .. MaxCalls

-----------------------------------------------------------------------------
(* Facts about the invariant                                               *)

LEMMA ActiveIs == Active = ActiveIn(procs)
  BY DEF Active, ActiveIn, Processors, Retiring

LEMMA ProcsAre ==
  ASSUME NEW pc, ProcsOK(pc)
  PROVE  /\ Len(pc) \in Nat /\ DOMAIN pc = 1 .. Len(pc)
         /\ \A p \in DOMAIN pc : pc[p] \in ProcessorType /\ Good(pc[p])
         /\ IsFiniteSet(ActiveIn(pc))
         /\ ActiveIn(pc) \subseteq DOMAIN pc
<1>1. Len(pc) \in Nat /\ DOMAIN pc = 1 .. Len(pc)
  BY LenProperties DEF ProcsOK
<1>2. \A p \in DOMAIN pc : pc[p] \in ProcessorType /\ Good(pc[p])
  BY DEF ProcsOK, Good
<1>3. IsFiniteSet(1 .. Len(pc))
  BY <1>1, FS_Interval
<1>4. ActiveIn(pc) \subseteq 1 .. Len(pc)
  BY <1>1 DEF ActiveIn
<1>5. IsFiniteSet(ActiveIn(pc))
  BY <1>3, <1>4, FS_Subset
<1> QED BY <1>1, <1>2, <1>4, <1>5

LEMMA FirstActiveIs ==
  ASSUME ProcsOK(procs), parallelism \in 1 .. MaxProcessors,
         Cardinality(ActiveIn(procs)) >= parallelism
  PROVE  FirstActive \in Active /\ FirstActive \in Processors
<1>1. IsFiniteSet(ActiveIn(procs)) /\ ActiveIn(procs) \subseteq 1 .. Len(procs) /\ Len(procs) \in Nat
  BY ProcsAre
<1>2. ActiveIn(procs) # {}
  <2>1. Cardinality({}) = 0
    BY FS_EmptySet
  <2>2. parallelism >= 1
    OBVIOUS
  <2> QED BY <2>1, <2>2
<1>3. ActiveIn(procs) \in SUBSET Nat
  BY <1>1
<1>4. \E p \in ActiveIn(procs) : \A a \in ActiveIn(procs) : p <= a
  BY <1>2, <1>3, Least
<1> QED BY <1>4, ActiveIs DEF FirstActive, Active

LEMMA SleepersFit ==
  ASSUME NEW sl, NEW n \in Nat, SleepersOK(sl, n)
  PROVE  Len(sl) \in Nat /\ Len(sl) <= Cardinality(Workers) /\ Cardinality(Workers) \in Nat \ {0}
<1>1. Len(sl) \in Nat /\ DOMAIN sl = 1 .. Len(sl) /\ \A i \in 1 .. Len(sl) : sl[i] \in SleeperType
  BY LenProperties, ElementOfSeq DEF SleepersOK
<1>2. IsFiniteSet(Workers) /\ Workers # {}
  BY SchedulerAssumption
<1>3. Cardinality(Workers) \in Nat \ {0}
  BY <1>2, FS_CardinalityType, FS_EmptySet
<1> DEFINE f == [i \in 1 .. Len(sl) |-> sl[i].worker]
<1>4. f \in [1 .. Len(sl) -> Workers]
  BY <1>1 DEF SleeperType
<1>5. \A i, j \in 1 .. Len(sl) : f[i] = f[j] => i = j
  BY DEF SleepersOK
<1>6. IsFiniteSet(1 .. Len(sl)) /\ Cardinality(1 .. Len(sl)) = Len(sl)
  <2>1. 1 \in Int /\ Len(sl) \in Int
    BY <1>1
  <2>2. /\ IsFiniteSet(1 .. Len(sl))
        /\ Cardinality(1 .. Len(sl)) = IF 1 > Len(sl) THEN 0 ELSE Len(sl) - 1 + 1
    BY <2>1, FS_Interval
  <2>3. (IF 1 > Len(sl) THEN 0 ELSE Len(sl) - 1 + 1) = Len(sl)
    BY <1>1
  <2> QED BY <2>2, <2>3
<1> HIDE DEF f
<1>7. ~(Cardinality(Workers) < Cardinality(1 .. Len(sl)))
  BY <1>2, <1>4, <1>5, <1>6, FS_PigeonHole
<1> QED BY <1>1, <1>3, <1>6, <1>7

(* One processor changes.                                                  *)
LEMMA OneProcessor ==
  ASSUME NEW pc, ProcsOK(pc), NEW p \in DOMAIN pc, NEW q, Good(q)
  PROVE  LET pd == [pc EXCEPT ![p] = q]
         IN  /\ ProcsOK(pd)
             /\ Len(pd) = Len(pc) /\ DOMAIN pd = DOMAIN pc
             /\ pd[p] = q
             /\ \A r \in DOMAIN pc \ {p} : pd[r] = pc[r]
             /\ q.state = pc[p].state => ActiveIn(pd) = ActiveIn(pc)
<1> DEFINE pd == [pc EXCEPT ![p] = q]
<1>1. p \in 1 .. Len(pc) /\ q \in ProcessorType
  BY ProcsAre DEF Good
<1>2. pd \in Seq(ProcessorType) /\ Len(pd) = Len(pc)
  BY <1>1, ExceptSeq DEF ProcsOK
<1>3. DOMAIN pd = DOMAIN pc /\ pd[p] = q /\ \A r \in DOMAIN pc \ {p} : pd[r] = pc[r]
  OBVIOUS
<1> HIDE DEF pd
<1>4. \A r \in DOMAIN pd : Good(pd[r])
  BY <1>3 DEF ProcsOK
<1>5. q.state = pc[p].state => ActiveIn(pd) = ActiveIn(pc)
  BY <1>3 DEF ActiveIn
<1> QED BY <1>2, <1>3, <1>4, <1>5 DEF pd, ProcsOK

(* Nothing is announced that was not before.                               *)
Calm(pc, b, pd, d) ==
  \A p \in DOMAIN pc, s \in ShardSet :
    Announced(pd[p].carries[s], d) => Announced(pc[p].carries[s], b)

LEMMA CalmWatch ==
  ASSUME NEW pc, NEW b, NEW seq, NEW sl, NEW lk, NEW pd, NEW d,
         ProcsOK(pc), SleepersOK(sl, Len(pc)), LookOK(lk, Len(pc)),
         Watched(pc, b, seq, sl, lk), Calm(pc, b, pd, d)
  PROVE  Watched(pd, d, seq, sl, lk)
<1>1. Len(pc) \in Nat /\ DOMAIN pc = 1 .. Len(pc)
  BY ProcsAre
<1>2. \A p \in 1 .. Len(pc) : Quiet(pc, b, p) => Quiet(pd, d, p)
  BY <1>1 DEF Calm, Quiet
<1>3. Len(sl) \in Nat /\ Cardinality(Workers) \in Nat \ {0}
  BY <1>1, SleepersFit
<1>4. Len(sl) = Cardinality(Workers) => sl[Len(sl)].proc \in 1 .. Len(pc)
  BY <1>3 DEF SleepersOK
<1>5. \A w \in Workers : lk[w].at = "empty" => lk[w].proc \in 1 .. Len(pc)
  BY DEF LookOK
<1> QED BY <1>2, <1>4, <1>5 DEF Watched

(* A notification wakes the last sleeper.                                  *)
LEMMA NotifiedWatch ==
  ASSUME NEW w, Sound(w), NEW v, v.look = w.look, v.seq = w.seq + 1,
         v.idle = IF w.idle # <<>> THEN Front(w.idle) ELSE w.idle
  PROVE  /\ Watched(v.procs, v.batch, v.seq, v.idle, v.look)
         /\ SleepersOK(v.idle, Len(w.procs))
<1> DEFINE sl == w.idle
           sm == v.idle
           lk == w.look
           n == Len(w.procs)
<1>5. /\ n \in Nat /\ SleepersOK(sl, n) /\ LookOK(lk, n)
      /\ \A x \in Workers : lk[x].at # "awake" => lk[x].seen <= w.seq
      /\ w.seq \in Nat
  <2>1. SeqLimit \in Nat
    BY SchedulerAssumption
  <2>2. n \in Nat
    BY ProcsAre DEF Sound
  <2> QED BY <2>1, <2>2 DEF Sound, Watched
<1>6. sm = IF sl # <<>> THEN Front(sl) ELSE sl
  OBVIOUS
<1> HIDE DEF sl, sm, n, lk
<1>1. Len(sl) \in Nat /\ Len(sl) <= Cardinality(Workers) /\ Cardinality(Workers) \in Nat \ {0}
  BY <1>5, SleepersFit
<1>2. /\ SleepersOK(sm, n)
      /\ Len(sm) # Cardinality(Workers)
  <2>1. CASE sl = <<>>
    <3>1. Len(sl) = 0
      BY <2>1
    <3> QED BY <2>1, <3>1, <1>1, <1>5, <1>6
  <2>2. CASE sl # <<>>
    <3>1. Len(sl) # 0
      BY <2>2, <1>5, EmptySeq DEF SleepersOK
    <3>2. Len(sl) - 1 \in Int /\ 1 \in Int /\ \A i \in 1 .. Len(sl) - 1 : sl[i] \in SleeperType
      BY <1>1, <1>5, ElementOfSeq DEF SleepersOK
    <3>3. /\ SubSeq(sl, 1, Len(sl) - 1) \in Seq(SleeperType)
          /\ Len(SubSeq(sl, 1, Len(sl) - 1)) = IF 1 <= Len(sl) - 1 THEN Len(sl) - 1 - 1 + 1 ELSE 0
          /\ \A i \in 1 .. Len(sl) - 1 - 1 + 1 : SubSeq(sl, 1, Len(sl) - 1)[i] = sl[1 + i - 1]
      BY <3>2, SubSeqProperties
    <3>4. sm = SubSeq(sl, 1, Len(sl) - 1)
      BY <2>2, <1>6 DEF Front
    <3>5. sm \in Seq(SleeperType) /\ Len(sm) = Len(sl) - 1
      <4>1. sm \in Seq(SleeperType)
        BY <3>3, <3>4
      <4>2. Len(sm) = IF 1 <= Len(sl) - 1 THEN Len(sl) - 1 - 1 + 1 ELSE 0
        BY <3>3, <3>4
      <4>3. Len(sl) \in Nat
        BY <1>1
      <4> HIDE DEF sm
      <4>4. CASE 1 <= Len(sl) - 1
        <5>1. Len(sm) = Len(sl) - 1 - 1 + 1
          BY <4>2, <4>4
        <5> QED BY <5>1, <4>1, <4>3
      <4>5. CASE ~(1 <= Len(sl) - 1)
        <5>1. Len(sm) = 0
          BY <4>2, <4>5
        <5>2. Len(sl) - 1 = 0
          <6>1. PICK m \in Nat : m = Len(sl)
            BY <4>3
          <6>2. m # 0 /\ ~(1 <= m - 1)
            BY <4>5, <3>1, <6>1
          <6>3. m - 1 = 0
            BY <6>2
          <6> QED BY <6>1, <6>3
        <5> QED BY <5>1, <5>2, <4>1
      <4> QED BY <4>4, <4>5
    <3>6. ASSUME NEW i \in 1 .. Len(sm) PROVE sm[i] = sl[i] /\ i \in 1 .. Len(sl)
      <4>1. i \in 1 .. Len(sl) - 1 - 1 + 1 /\ 1 + i - 1 = i /\ i \in 1 .. Len(sl)
        BY <3>5, <1>1
      <4> QED BY <4>1, <3>3, <3>4
    <3>7. SleepersOK(sm, n)
      BY <3>5, <3>6, <1>5 DEF SleepersOK
    <3> QED BY <3>1, <3>5, <3>7, <1>1
  <2> QED BY <2>1, <2>2
<1>3. \A x \in Workers : lk[x].seen \in Nat
  <2>1. SeqLimit \in Nat
    BY SchedulerAssumption
  <2> QED BY <2>1, <1>5 DEF LookOK
<1>4. \A x \in Workers : lk[x].at # "awake" => lk[x].seen <= v.seq /\ lk[x].seen # v.seq
  BY <1>3, <1>5
<1>7. Watched(v.procs, v.batch, v.seq, sm, lk)
  BY <1>2, <1>4 DEF Watched
<1> QED BY <1>2, <1>7 DEF lk, sm, n

-----------------------------------------------------------------------------
(* What the actions do to the scheduler's part of the state                *)

(* v is w but for the processor p, whose handles are exchanged with the    *)
(* callers, the lost ones and the coroutines that become runnable.         *)
Swapped(w, v, p) ==
  /\ v.procs = [w.procs EXCEPT ![p] = v.procs[p]]
  /\ Good(v.procs[p])
  /\ v.seq = w.seq /\ v.idle = w.idle /\ v.look = w.look
  /\ v.staging = w.staging /\ v.batch = w.batch
  /\ AllOf(v.procs[p]) \union v.held \union v.lost
       = AllOf(w.procs[p]) \union w.held \union w.lost \union (v.run \ w.run)
  /\ w.run \subseteq v.run
  /\ AllOf(v.procs[p]) \intersect (v.held \union v.lost) = {}
  /\ v.held \intersect v.lost = {}
  /\ Quick(v.procs[p]) \intersect w.batch = {} /\ v.lost \intersect w.batch = {}
  /\ \A s \in ShardSet :
       Announced(v.procs[p].carries[s], w.batch) => Announced(w.procs[p].carries[s], w.batch)

LEMMA SwapKeepsSound ==
  ASSUME NEW w, Sound(w), NEW v, NEW p \in DOMAIN w.procs, Swapped(w, v, p)
  PROVE  Sound(v)
<1> DEFINE q == v.procs[p]
<1>1. /\ ProcsOK(v.procs) /\ Len(v.procs) = Len(w.procs)
      /\ DOMAIN v.procs = DOMAIN w.procs
      /\ \A r \in DOMAIN w.procs \ {p} : v.procs[r] = w.procs[r]
  <2>1. ProcsOK(w.procs) /\ Good(q) /\ v.procs = [w.procs EXCEPT ![p] = q]
    BY DEF Sound, Swapped
  <2> HIDE DEF q
  <2> QED BY <2>1, OneProcessor
<1>2. StagingOK(v.staging, Len(v.procs)) /\ v.seq \in 0 .. SeqLimit
      /\ SleepersOK(v.idle, Len(v.procs)) /\ LookOK(v.look, Len(v.procs))
  BY <1>1 DEF Sound, Swapped
<1>3. Placed(v.procs, v.staging, v.held, v.lost, v.run)
  <2>1. Placed(w.procs, w.staging, w.held, w.lost, w.run) /\ v.staging = w.staging
    BY DEF Sound, Swapped
  <2>2. /\ AllOf(q) \union v.held \union v.lost
             = AllOf(w.procs[p]) \union w.held \union w.lost \union (v.run \ w.run)
        /\ w.run \subseteq v.run
        /\ AllOf(q) \intersect (v.held \union v.lost) = {}
        /\ v.held \intersect v.lost = {}
    BY DEF Swapped
  <2>3. \A r \in DOMAIN w.procs \ {p} : AllOf(v.procs[r]) = AllOf(w.procs[r])
    BY <1>1
  <2>4. DOMAIN v.procs = DOMAIN w.procs /\ AllOf(v.procs[p]) = AllOf(q)
    BY <1>1
  <2> HIDE DEF q
  <2>5. Apart(v.procs, v.staging, v.held, v.lost)
    BY <2>1, <2>2, <2>3, <2>4 DEF Placed, Apart, Somewhere
  <2>6. ASSUME NEW c PROVE c \in v.run <=> Somewhere(c, v.procs, v.staging, v.held, v.lost)
    BY <2>1, <2>2, <2>3, <2>4 DEF Placed, Somewhere
  <2> QED BY <2>5, <2>6 DEF Placed
<1>4. Batches(v.procs, v.batch, v.lost, v.run)
  BY <1>1 DEF Sound, Swapped, Batches
<1>5. Watched(v.procs, v.batch, v.seq, v.idle, v.look)
  <2>1. Calm(w.procs, w.batch, v.procs, w.batch)
    BY <1>1 DEF Calm, Swapped
  <2>2. /\ ProcsOK(w.procs) /\ SleepersOK(w.idle, Len(w.procs)) /\ LookOK(w.look, Len(w.procs))
        /\ Watched(w.procs, w.batch, w.seq, w.idle, w.look)
    BY DEF Sound
  <2>3. Watched(v.procs, w.batch, w.seq, w.idle, w.look)
    BY <2>1, <2>2, CalmWatch
  <2> QED BY <2>3 DEF Swapped
<1> QED BY <1>1, <1>2, <1>3, <1>4, <1>5 DEF Sound

(* v is w but for the places of the handles outside the processors.        *)
Around(w, v) ==
  /\ v.procs = w.procs
  /\ v.seq = w.seq /\ v.idle = w.idle /\ v.look = w.look
  /\ v.staging = w.staging /\ v.batch \subseteq w.batch

(* enter_coroutine takes the handle out of the scheduler.                  *)
LEMMA EnterKeepsSound ==
  ASSUME NEW w, Sound(w), NEW v, Around(w, v), NEW c \in w.held,
         v.batch = w.batch \ {c}, v.run = w.run \ {c}, v.held = w.held \ {c}, v.lost = w.lost
  PROVE  Sound(v)
<1>1. /\ ProcsOK(v.procs) /\ StagingOK(v.staging, Len(v.procs)) /\ v.seq \in 0 .. SeqLimit
      /\ SleepersOK(v.idle, Len(v.procs)) /\ LookOK(v.look, Len(v.procs))
  BY DEF Sound, Around
<1>2. Placed(v.procs, v.staging, v.held, v.lost, v.run)
  <2>1. Placed(w.procs, w.staging, w.held, w.lost, w.run) /\ v.staging = w.staging /\ v.procs = w.procs
    BY DEF Sound, Around
  <2>2. Apart(v.procs, v.staging, v.held, v.lost)
    BY <2>1 DEF Placed, Apart
  <2>3. ASSUME NEW d PROVE d \in v.run <=> Somewhere(d, v.procs, v.staging, v.held, v.lost)
    <3>1. Apart(w.procs, w.staging, w.held, w.lost)
          /\ (d \in w.run <=> Somewhere(d, w.procs, w.staging, w.held, w.lost))
      BY <2>1 DEF Placed
    <3> QED BY <2>1, <3>1 DEF Apart, Somewhere
  <2> QED BY <2>2, <2>3 DEF Placed
<1>3. Batches(v.procs, v.batch, v.lost, v.run)
  BY DEF Sound, Around, Batches
<1>4. Watched(v.procs, v.batch, v.seq, v.idle, v.look)
  <2>1. Calm(w.procs, w.batch, v.procs, v.batch)
    BY DEF Calm, Announced, Around
  <2>2. /\ ProcsOK(w.procs) /\ SleepersOK(w.idle, Len(w.procs)) /\ LookOK(w.look, Len(w.procs))
        /\ Watched(w.procs, w.batch, w.seq, w.idle, w.look)
    BY DEF Sound
  <2>3. Watched(v.procs, v.batch, w.seq, w.idle, w.look)
    BY <2>1, <2>2, CalmWatch
  <2> QED BY <2>3 DEF Around
<1> QED BY <1>1, <1>2, <1>3, <1>4 DEF Sound

(* A coroutine becomes runnable and its handle goes to the caller.         *)
LEMMA HoldKeepsSound ==
  ASSUME NEW w, Sound(w), NEW v, Around(w, v), NEW c, c \notin w.run,
         v.batch = w.batch, v.run = w.run \union {c}, v.held = w.held \union {c}, v.lost = w.lost
  PROVE  Sound(v)
<1>1. /\ ProcsOK(v.procs) /\ StagingOK(v.staging, Len(v.procs)) /\ v.seq \in 0 .. SeqLimit
      /\ SleepersOK(v.idle, Len(v.procs)) /\ LookOK(v.look, Len(v.procs))
      /\ Watched(v.procs, v.batch, v.seq, v.idle, v.look)
  BY DEF Sound, Around
<1>2. Placed(v.procs, v.staging, v.held, v.lost, v.run)
  <2>1. Placed(w.procs, w.staging, w.held, w.lost, w.run) /\ v.staging = w.staging /\ v.procs = w.procs
    BY DEF Sound, Around
  <2>4. ~Somewhere(c, w.procs, w.staging, w.held, w.lost)
    BY <2>1 DEF Placed
  <2>2. Apart(v.procs, v.staging, v.held, v.lost)
    BY <2>1, <2>4 DEF Placed, Apart, Somewhere
  <2>3. ASSUME NEW d PROVE d \in v.run <=> Somewhere(d, v.procs, v.staging, v.held, v.lost)
    BY <2>1 DEF Placed, Somewhere
  <2> QED BY <2>2, <2>3 DEF Placed
<1>3. Batches(v.procs, v.batch, v.lost, v.run)
  BY DEF Sound, Around, Batches
<1> QED BY <1>1, <1>2, <1>3 DEF Sound

(* A chain leaves the staging x for the processor r: its carry had handles *)
(* and nobody is notified, or the work_seq advances and wakes the worker   *)
(* that parked last.                                                       *)
Flushed(w, v, x, r) ==
  /\ v.procs = [w.procs EXCEPT ![r] = v.procs[r]]
  /\ Good(v.procs[r])
  /\ AllOf(v.procs[r]) = AllOf(w.procs[r]) \union Handles(w.staging[x].handles)
  /\ Quick(v.procs[r]) = Quick(w.procs[r])
  /\ v.staging = [w.staging EXCEPT ![x] = NoStaging]
  /\ v.look = w.look /\ v.batch = w.batch /\ v.run = w.run
  /\ v.held = w.held /\ v.lost = w.lost
  /\ \/ /\ v.seq = w.seq /\ v.idle = w.idle
        /\ \A s \in ShardSet :
             Announced(v.procs[r].carries[s], w.batch) => Announced(w.procs[r].carries[s], w.batch)
     \/ /\ v.seq = w.seq + 1 /\ w.seq < SeqLimit
        /\ v.idle = IF w.idle # <<>> THEN Front(w.idle) ELSE w.idle

LEMMA StagingStays ==
  ASSUME NEW st, NEW n, StagingOK(st, n), NEW x \in Producers,
         NEW e, e \in [target : Nat, handles : HandleSeq],
         Len(e.handles) <= BatchMax, IsInjective(e.handles),
         e.handles # <<>> => e.target \in 1 .. n
  PROVE  StagingOK([st EXCEPT ![x] = e], n)
  BY DEF StagingOK

LEMMA NothingStaged ==
  /\ NoStaging \in [target : Nat, handles : HandleSeq]
  /\ NoStaging.handles = <<>> /\ Len(NoStaging.handles) <= BatchMax
  /\ IsInjective(NoStaging.handles) /\ Handles(NoStaging.handles) = {}
<1>1. BatchMax \in Nat \ {0}
  BY SchedulerAssumption
<1> QED BY <1>1, NothingQueued DEF NoStaging

LEMMA FlushKeepsSound ==
  ASSUME NEW w, Sound(w), NEW v, NEW x \in Producers, NEW r \in DOMAIN w.procs, Flushed(w, v, x, r)
  PROVE  Sound(v)
<1> DEFINE q == v.procs[r]
<1>1. /\ ProcsOK(v.procs) /\ Len(v.procs) = Len(w.procs)
      /\ DOMAIN v.procs = DOMAIN w.procs
      /\ \A p \in DOMAIN w.procs \ {r} : v.procs[p] = w.procs[p]
  <2>1. ProcsOK(w.procs) /\ Good(q) /\ v.procs = [w.procs EXCEPT ![r] = q]
    BY DEF Sound, Flushed
  <2> HIDE DEF q
  <2> QED BY <2>1, OneProcessor
<1>2. StagingOK(v.staging, Len(v.procs)) /\ LookOK(v.look, Len(v.procs))
  <2>1. StagingOK(w.staging, Len(w.procs)) /\ LookOK(w.look, Len(w.procs))
        /\ v.staging = [w.staging EXCEPT ![x] = NoStaging] /\ v.look = w.look
    BY DEF Sound, Flushed
  <2> QED BY <2>1, <1>1, NothingStaged, StagingStays
<1>3. Placed(v.procs, v.staging, v.held, v.lost, v.run)
  <2> DEFINE h == Handles(w.staging[x].handles)
  <2>1. Placed(w.procs, w.staging, w.held, w.lost, w.run)
    BY DEF Sound
  <2>2. /\ AllOf(v.procs[r]) = AllOf(w.procs[r]) \union h
        /\ v.run = w.run /\ v.held = w.held /\ v.lost = w.lost
    BY DEF Flushed
  <2>3. \A p \in DOMAIN w.procs \ {r} : AllOf(v.procs[p]) = AllOf(w.procs[p])
    BY <1>1
  <2>4. DOMAIN v.procs = DOMAIN w.procs
    BY <1>1
  <2>5. /\ Handles(v.staging[x].handles) = {}
        /\ \A y \in Producers \ {x} : v.staging[y] = w.staging[y]
    <3>1. DOMAIN w.staging = Producers
      BY DEF Sound, StagingOK
    <3> QED BY <3>1, NothingStaged DEF Flushed
  <2>6. Apart(v.procs, v.staging, v.held, v.lost)
    BY <2>1, <2>2, <2>3, <2>4, <2>5 DEF Placed, Apart
  <2>7. ASSUME NEW c PROVE c \in v.run <=> Somewhere(c, v.procs, v.staging, v.held, v.lost)
    BY <2>1, <2>2, <2>3, <2>4, <2>5 DEF Placed, Somewhere
  <2> QED BY <2>6, <2>7 DEF Placed
<1>4. Batches(v.procs, v.batch, v.lost, v.run)
  BY <1>1 DEF Sound, Flushed, Batches
<1>5. /\ ProcsOK(w.procs) /\ SleepersOK(w.idle, Len(w.procs)) /\ LookOK(w.look, Len(w.procs))
      /\ Watched(w.procs, w.batch, w.seq, w.idle, w.look) /\ w.seq \in 0 .. SeqLimit
      /\ v.batch = w.batch /\ v.look = w.look
  BY DEF Sound, Flushed
<1>6. /\ v.seq \in 0 .. SeqLimit
      /\ SleepersOK(v.idle, Len(v.procs))
      /\ Watched(v.procs, v.batch, v.seq, v.idle, v.look)
  <2>1. CASE v.seq = w.seq /\ v.idle = w.idle
             /\ \A s \in ShardSet :
                  Announced(v.procs[r].carries[s], w.batch) => Announced(w.procs[r].carries[s], w.batch)
    <3>1. Calm(w.procs, w.batch, v.procs, w.batch)
      BY <2>1, <1>1 DEF Calm
    <3>2. Watched(v.procs, w.batch, w.seq, w.idle, w.look)
      BY <3>1, <1>5, CalmWatch
    <3> QED BY <3>2, <2>1, <1>1, <1>5
  <2>2. CASE v.seq = w.seq + 1 /\ w.seq < SeqLimit
             /\ v.idle = IF w.idle # <<>> THEN Front(w.idle) ELSE w.idle
    <3>1. SeqLimit \in Nat /\ w.seq \in Nat /\ Len(w.procs) \in Nat
      BY <1>5, ProcsAre, SchedulerAssumption
    <3>2. Watched(v.procs, v.batch, v.seq, v.idle, v.look) /\ SleepersOK(v.idle, Len(w.procs))
      BY <2>2, <1>5, NotifiedWatch
    <3>3. v.seq \in 0 .. SeqLimit
      BY <3>1, <2>2
    <3> QED BY <3>2, <3>3, <2>2, <1>1, <1>5
  <2> QED BY <2>1, <2>2 DEF Flushed
<1> QED BY <1>1, <1>2, <1>3, <1>4, <1>6 DEF Sound

(* v is w but for a coroutine c that becomes runnable in the staging x.    *)
Staged(w, v, x, c) ==
  /\ v.procs = w.procs
  /\ v.seq = w.seq /\ v.idle = w.idle /\ v.look = w.look
  /\ v.held = w.held /\ v.lost = w.lost
  /\ v.batch = w.batch \union {c} /\ v.run = w.run \union {c}
  /\ v.staging = [w.staging EXCEPT ![x] = v.staging[x]]
  /\ v.staging[x].handles = Append(w.staging[x].handles, c)
  /\ v.staging[x].target \in 1 .. Len(w.procs)
  /\ v.staging[x] = [target |-> v.staging[x].target, handles |-> v.staging[x].handles]

LEMMA StageKeepsSound ==
  ASSUME NEW w, Sound(w), NEW v, NEW x \in Producers, NEW c \in Coroutines, c \notin w.run,
         Len(w.staging[x].handles) < BatchMax, Staged(w, v, x, c)
  PROVE  Sound(v)
<1>0. /\ ~Somewhere(c, w.procs, w.staging, w.held, w.lost)
      /\ Placed(w.procs, w.staging, w.held, w.lost, w.run)
  BY DEF Sound, Placed
<1>1. /\ w.staging[x].handles \in HandleSeq /\ IsInjective(w.staging[x].handles)
      /\ c \notin Handles(w.staging[x].handles)
      /\ DOMAIN w.staging = Producers
  BY <1>0 DEF Sound, StagingOK, Somewhere
<1>2. LET k == Append(w.staging[x].handles, c)
      IN  /\ k \in HandleSeq /\ IsInjective(k) /\ Len(k) = Len(w.staging[x].handles) + 1
          /\ Handles(k) = Handles(w.staging[x].handles) \union {c}
  BY <1>1, Appended
<1>3. StagingOK(v.staging, Len(v.procs))
  <2> DEFINE e == v.staging[x]
  <2>1. Len(e.handles) <= BatchMax
    <3>1. BatchMax \in Nat /\ Len(w.staging[x].handles) \in Nat
      BY <1>1, HandlesAre, SchedulerAssumption
    <3> QED BY <3>1, <1>2 DEF Staged
  <2>2. e.target \in Nat /\ e.handles \in HandleSeq
    <3>1. Len(w.procs) \in Nat
      BY ProcsAre DEF Sound
    <3> QED BY <3>1, <1>2 DEF Staged
  <2>3. e \in [target : Nat, handles : HandleSeq]
    BY <2>2 DEF Staged
  <2>4. /\ IsInjective(e.handles) /\ e.target \in 1 .. Len(w.procs)
        /\ v.staging = [w.staging EXCEPT ![x] = e] /\ v.procs = w.procs
        /\ StagingOK(w.staging, Len(w.procs))
    BY <1>2 DEF Staged, Sound
  <2> HIDE DEF e
  <2> QED BY <2>1, <2>3, <2>4, StagingStays
<1>4. /\ ProcsOK(v.procs) /\ v.seq \in 0 .. SeqLimit
      /\ SleepersOK(v.idle, Len(v.procs)) /\ LookOK(v.look, Len(v.procs))
  BY DEF Sound, Staged
<1>5. Placed(v.procs, v.staging, v.held, v.lost, v.run)
  <2>1. /\ v.procs = w.procs /\ v.held = w.held /\ v.lost = w.lost /\ v.run = w.run \union {c}
        /\ Handles(v.staging[x].handles) = Handles(w.staging[x].handles) \union {c}
        /\ \A y \in Producers \ {x} : v.staging[y] = w.staging[y]
    BY <1>1, <1>2 DEF Staged
  <2>2. Apart(v.procs, v.staging, v.held, v.lost)
    BY <1>0, <2>1 DEF Placed, Apart, Somewhere
  <2>3. ASSUME NEW d PROVE d \in v.run <=> Somewhere(d, v.procs, v.staging, v.held, v.lost)
    BY <1>0, <2>1 DEF Placed, Somewhere
  <2> QED BY <2>2, <2>3 DEF Placed
<1>6. \A p \in DOMAIN w.procs : c \notin AllOf(w.procs[p])
  BY <1>0 DEF Somewhere
<1>7. Batches(v.procs, v.batch, v.lost, v.run)
  <2>1. \A p \in DOMAIN w.procs : c \notin Quick(w.procs[p])
    <3>1. \A p \in DOMAIN w.procs : w.procs[p] \in ProcessorType
      BY ProcsAre DEF Sound
    <3> QED BY <3>1, <1>6, Parts
  <2>2. c \notin w.lost
    BY <1>0 DEF Somewhere
  <2> QED BY <2>1, <2>2 DEF Sound, Batches, Staged
<1>8. Watched(v.procs, v.batch, v.seq, v.idle, v.look)
  <2>1. ASSUME NEW p \in DOMAIN w.procs, NEW s \in ShardSet,
               Announced(w.procs[p].carries[s], w.batch \union {c})
        PROVE  Announced(w.procs[p].carries[s], w.batch)
    <3> DEFINE k == w.procs[p].carries[s]
    <3>1. w.procs[p] \in ProcessorType
      BY ProcsAre DEF Sound
    <3>2. k \in HandleSeq /\ Handles(k) \subseteq AllOf(w.procs[p])
      BY <3>1, Parts DEF ProcessorType
    <3>3. k # <<>>
      BY <2>1 DEF Announced
    <3> HIDE DEF k
    <3>4. Head(k) = k[1] /\ 1 \in 1 .. Len(k)
      <4>1. Len(k) \in Nat \ {0}
        BY <3>2, <3>3, EmptySeq DEF HandleSeq
      <4> QED BY <4>1
    <3>5. Head(k) # c
      BY <3>2, <3>4, <1>6, HandlesAre
    <3> QED BY <2>1, <3>5 DEF k, Announced
  <2>2. Calm(w.procs, w.batch, w.procs, w.batch \union {c})
    BY <2>1 DEF Calm
  <2>3. /\ ProcsOK(w.procs) /\ SleepersOK(w.idle, Len(w.procs)) /\ LookOK(w.look, Len(w.procs))
        /\ Watched(w.procs, w.batch, w.seq, w.idle, w.look)
    BY DEF Sound
  <2>4. Watched(w.procs, w.batch \union {c}, w.seq, w.idle, w.look)
    BY <2>2, <2>3, CalmWatch
  <2> QED BY <2>4 DEF Staged
<1> QED BY <1>3, <1>4, <1>5, <1>7, <1>8 DEF Sound

-----------------------------------------------------------------------------
(* The steps of the specification: states and callers                      *)

LEMMA NowIs ==
  /\ Now.procs = procs /\ Now.seq = workSeq /\ Now.idle = idle /\ Now.staging = staging
  /\ Now.batch = batch /\ Now.run = Runnables /\ Now.held = held /\ Now.lost = lost
  /\ Now.look = look
  /\ Now'.procs = procs' /\ Now'.seq = workSeq' /\ Now'.idle = idle' /\ Now'.staging = staging'
  /\ Now'.batch = batch' /\ Now'.run = Runnables' /\ Now'.held = held' /\ Now'.lost = lost'
  /\ Now'.look = look'
  BY DEF Now

LEMMA RunnablesAre ==
  ASSUME life \in [Coroutines -> {"Runnable", "Running", "Waiting"}], NEW c \in Coroutines,
         NEW l \in {"Runnable", "Running", "Waiting"}, life' = [life EXCEPT ![c] = l]
  PROVE  /\ life' \in [Coroutines -> {"Runnable", "Running", "Waiting"}]
         /\ l = "Runnable" => Runnables' = Runnables \union {c}
         /\ l # "Runnable" => Runnables' = Runnables \ {c}
  BY DEF Runnables

LEMMA ProcessorsAre ==
  ASSUME Core
  PROVE  /\ ProcsOK(procs) /\ Len(procs) \in Nat
         /\ Processors = 1 .. Len(procs) /\ DOMAIN procs = 1 .. Len(procs)
         /\ \A p \in Processors : procs[p] \in ProcessorType /\ Good(procs[p])
         /\ FirstActive \in Processors
<1>1. ProcsOK(procs)
  BY NowIs DEF Core, Sound
<1>2. FirstActive \in Processors
  BY <1>1, FirstActiveIs DEF Core
<1> QED BY <1>1, <1>2, ProcsAre DEF Processors

LEMMA EnterStep ==
  ASSUME IInv, NEW c \in Coroutines, Enter(c)
  PROVE  Core'
<1>1. Core /\ Sound(Now)
  BY DEF IInv, Core
<1>2. life' \in [Coroutines -> {"Runnable", "Running", "Waiting"}] /\ Runnables' = Runnables \ {c}
  BY <1>1, RunnablesAre DEF Core, Enter
<1>3. Around(Now, Now')
  BY NowIs DEF Around, Enter, queues, registry
<1>4. /\ c \in Now.held /\ Now'.batch = Now.batch \ {c} /\ Now'.run = Now.run \ {c}
      /\ Now'.held = Now.held \ {c} /\ Now'.lost = Now.lost
  BY <1>2, NowIs DEF Enter
<1>5. Sound(Now')
  BY <1>1, <1>3, <1>4, EnterKeepsSound
<1> QED BY <1>1, <1>2, <1>5 DEF Core, Enter, queues

LEMMA SaveStep ==
  ASSUME IInv, NEW c \in Coroutines, NEW waiting \in BOOLEAN, Save(c, waiting)
  PROVE  Core'
<1>1. Core /\ Sound(Now)
  BY DEF IInv, Core
<1>2. c \notin Runnables
  BY DEF Runnables, Save
<1>3. Around(Now, Now')
  BY NowIs DEF Around, Save, queues, registry
<1>4. CASE waiting
  <2>1. life' = [life EXCEPT ![c] = "Waiting"]
    BY <1>4 DEF Save
  <2>4. /\ life' \in [Coroutines -> {"Runnable", "Running", "Waiting"}]
        /\ Runnables' = Runnables \ {c}
    BY <1>1, <2>1, RunnablesAre DEF Core
  <2>2. life' \in [Coroutines -> {"Runnable", "Running", "Waiting"}] /\ Runnables' = Runnables
    BY <1>2, <2>4
  <2>3. Now' = Now
    BY <1>4, <2>2 DEF Now, Save, queues, registry
  <2> QED BY <1>1, <2>2, <2>3 DEF Core, Save, queues
<1>5. CASE ~waiting
  <2>1. life' = [life EXCEPT ![c] = "Runnable"]
    BY <1>5 DEF Save
  <2>2. /\ life' \in [Coroutines -> {"Runnable", "Running", "Waiting"}]
        /\ Runnables' = Runnables \union {c}
    BY <1>1, <2>1, RunnablesAre DEF Core
  <2>3. /\ c \notin Now.run /\ Now'.batch = Now.batch /\ Now'.run = Now.run \union {c}
        /\ Now'.held = Now.held \union {c} /\ Now'.lost = Now.lost
    BY <1>2, <1>5, <2>2, NowIs DEF Save
  <2>4. Sound(Now')
    BY <1>1, <1>3, <2>3, HoldKeepsSound
  <2> QED BY <1>1, <2>2, <2>4 DEF Core, Save, queues
<1> QED BY <1>4, <1>5

-----------------------------------------------------------------------------
(* The steps of the specification: publication                             *)

(* v is what Flush makes of w with the chain of the staging x; sh is the   *)
(* part of w that Flush works on.                                          *)
FlushOf(w, v, x, sh, s) ==
  /\ sh.procs = w.procs /\ sh.seq = w.seq /\ sh.idle = w.idle
  /\ CanFlush(sh, w.staging[x].target, s)
  /\ v.procs = Flush(sh, w.staging[x].target, s, w.staging[x].handles).procs
  /\ v.seq = Flush(sh, w.staging[x].target, s, w.staging[x].handles).seq
  /\ v.idle = Flush(sh, w.staging[x].target, s, w.staging[x].handles).idle
  /\ v.staging = [w.staging EXCEPT ![x] = NoStaging]
  /\ v.look = w.look /\ v.batch = w.batch /\ v.run = w.run
  /\ v.held = w.held /\ v.lost = w.lost

LEMMA FlushIs ==
  ASSUME Core, NEW w, Sound(w), Len(w.procs) = Len(procs), NEW x \in Producers,
         w.staging[x].handles # <<>>, NEW sh, NEW s \in ShardSet, NEW v, FlushOf(w, v, x, sh, s)
  PROVE  /\ Sound(v) /\ Len(v.procs) = Len(w.procs)
         /\ ActiveIn(v.procs) = ActiveIn(w.procs)
<1> DEFINE t == w.staging[x].target
           chain == w.staging[x].handles
           r == Route(t)
           q == w.procs[r]
           first == Carry(sh, t, s) = <<>>
<1>1. /\ t \in 1 .. Len(procs) /\ chain \in HandleSeq /\ IsInjective(chain) /\ ProcsOK(w.procs)
      /\ Placed(w.procs, w.staging, w.held, w.lost, w.run)
  BY DEF Sound, StagingOK
<1>2. r \in 1 .. Len(procs) /\ DOMAIN w.procs = 1 .. Len(procs)
  BY <1>1, ProcessorsAre, ProcsAre DEF Route
<1>3. Good(q)
  BY <1>1, <1>2, ProcsAre
<1>4. q \in ProcessorType
  BY <1>3 DEF Good
<1>5. AllOf(q) \intersect Handles(chain) = {}
  BY <1>1, <1>2 DEF Placed, Apart
<1>6. /\ q.inj \in HandleSeq /\ IsInjective(q.inj) /\ q.carries[s] \in HandleSeq
      /\ IsInjective(q.carries[s]) /\ Handles(q.inj) \subseteq AllOf(q)
      /\ Handles(q.carries[s]) \subseteq AllOf(q)
  <2>1. \A c : c \in Handles(q.inj) \/ c \in Handles(q.carries[s]) => c \in AllOf(q)
    BY <1>4, Parts
  <2> QED BY <1>3, <1>4, <2>1 DEF Good, Neat, ProcessorType
<1>7. /\ v.seq = IF first THEN w.seq + 1 ELSE w.seq
      /\ v.idle = IF first /\ w.idle # <<>> THEN Front(w.idle) ELSE w.idle
      /\ first => w.seq < SeqLimit
  BY DEF FlushOf, Flush, CanFlush
<1>8. /\ v.procs = IF Retiring(t) THEN [w.procs EXCEPT ![r].inj = @ \o chain]
                   ELSE [w.procs EXCEPT ![t].carries[s] = @ \o chain]
      /\ ~Retiring(t) => Carry(sh, t, s) = w.procs[t].carries[s] /\ r = t
  BY DEF FlushOf, Flush, Carry, Route
<1>9. \E z : /\ v.procs = [w.procs EXCEPT ![r] = z]
             /\ Good(z) /\ z.state = q.state
             /\ AllOf(z) = AllOf(q) \union Handles(chain)
             /\ Quick(z) = Quick(q)
             /\ ~first => \A n \in ShardSet :
                  Announced(z.carries[n], w.batch) => Announced(q.carries[n], w.batch)
  <2>1. CASE Retiring(t)
    <3> DEFINE k == q.inj \o chain
               z == [q EXCEPT !.inj = k]
    <3>1. /\ k \in HandleSeq /\ IsInjective(k)
          /\ Handles(k) = Handles(q.inj) \union Handles(chain)
      BY <1>1, <1>5, <1>6, Joined
    <3>2. v.procs = [w.procs EXCEPT ![r] = z]
      BY <1>8, <2>1
    <3> HIDE DEF k
    <3>3. Handles(k) \intersect (AllOf(q) \ Handles(q.inj)) = {}
      BY <1>5, <3>1
    <3>4. /\ Good(z) /\ z.state = q.state /\ z.carries = q.carries
          /\ AllOf(z) = (AllOf(q) \ Handles(q.inj)) \union Handles(k)
          /\ Quick(z) = Quick(q)
      BY <1>3, <3>1, <3>3, InjChanged
    <3> HIDE DEF z, q
    <3>5. AllOf(z) = AllOf(q) \union Handles(chain)
      BY <1>6, <3>1, <3>4
    <3> QED BY <3>2, <3>4, <3>5
  <2>2. CASE ~Retiring(t)
    <3> DEFINE k == q.carries[s] \o chain
               z == [q EXCEPT !.carries[s] = k]
    <3>1. /\ k \in HandleSeq /\ IsInjective(k)
          /\ Handles(k) = Handles(q.carries[s]) \union Handles(chain)
          /\ q.carries[s] # <<>> => Head(k) = Head(q.carries[s])
      BY <1>1, <1>5, <1>6, Joined
    <3>2. v.procs = [w.procs EXCEPT ![r] = z]
      BY <1>8, <2>2
    <3>6. first <=> q.carries[s] = <<>>
      BY <1>8, <2>2
    <3> HIDE DEF k
    <3>3. Handles(k) \intersect (AllOf(q) \ Handles(q.carries[s])) = {}
      BY <1>5, <3>1
    <3>4. z \in ProcessorType /\ CarryOnly(q, z, s) /\ z.carries[s] = k
      BY <1>4, <3>1 DEF ProcessorType, CarryOnly
    <3> HIDE DEF z, q, first
    <3>5. /\ Good(z) /\ Quick(z) = Quick(q)
          /\ AllOf(z) = (AllOf(q) \ Handles(q.carries[s])) \union Handles(k)
      BY <1>3, <3>1, <3>3, <3>4, CarryChanged
    <3>7. AllOf(z) = AllOf(q) \union Handles(chain)
      BY <1>6, <3>1, <3>5
    <3>8. ~first => \A n \in ShardSet :
            Announced(z.carries[n], w.batch) => Announced(q.carries[n], w.batch)
      BY <3>1, <3>4, <3>6 DEF Announced, CarryOnly
    <3>9. z.state = q.state
      BY <3>4 DEF CarryOnly
    <3> QED BY <3>2, <3>5, <3>7, <3>8, <3>9
  <2> QED BY <2>1, <2>2
<1>10. PICK z : /\ v.procs = [w.procs EXCEPT ![r] = z]
                /\ Good(z) /\ z.state = q.state
                /\ AllOf(z) = AllOf(q) \union Handles(chain)
                /\ Quick(z) = Quick(q)
                /\ ~first => \A n \in ShardSet :
                     Announced(z.carries[n], w.batch) => Announced(q.carries[n], w.batch)
  BY <1>9
<1>11. v.procs[r] = z
  BY <1>2, <1>10
<1> HIDE DEF r, first
<1>12. Flushed(w, v, x, r)
  BY <1>7, <1>10, <1>11 DEF Flushed, FlushOf
<1>13. Len(v.procs) = Len(w.procs) /\ ActiveIn(v.procs) = ActiveIn(w.procs)
  <2> HIDE DEF q
  <2>1. r \in DOMAIN w.procs /\ ProcsOK(w.procs) /\ Good(z) /\ z.state = w.procs[r].state
    BY <1>1, <1>2, <1>10 DEF q
  <2>2. LET pd == [w.procs EXCEPT ![r] = z]
        IN  /\ Len(pd) = Len(w.procs)
            /\ z.state = w.procs[r].state => ActiveIn(pd) = ActiveIn(w.procs)
    BY <2>1, OneProcessor
  <2> QED BY <2>1, <2>2, <1>10
<1> QED BY <1>2, <1>12, <1>13, FlushKeepsSound

LEMMA FlushStep ==
  ASSUME IInv, NEW pr \in Producers, FlushStaging(pr)
  PROVE  Core'
<1>1. Core /\ Sound(Now) /\ Now.procs = procs
  BY NowIs DEF IInv, Core
<1>2. Runnables' = Runnables /\ life' = life /\ parallelism' = parallelism
  BY DEF Runnables, FlushStaging
<1>3. ShardOf[pr] \in ShardSet
  BY SchedulerAssumption
<1>4. FlushOf(Now, Now', pr, Shared, ShardOf[pr]) /\ Now.staging[pr].handles # <<>>
  BY <1>2, NowIs DEF FlushOf, FlushStaging, Become, Shared
<1>5. /\ Sound(Now') /\ Len(Now'.procs) = Len(Now.procs)
      /\ ActiveIn(Now'.procs) = ActiveIn(Now.procs)
  BY <1>1, <1>3, <1>4, FlushIs
<1> QED BY <1>1, <1>2, <1>5, NowIs DEF Core

LEMMA ReadyBatchStep ==
  ASSUME IInv, NEW c \in Coroutines, NEW t \in Processors, NEW pr \in Producers, ReadyBatch(c, t, pr)
  PROVE  Core'
<1> DEFINE s     == ShardOf[pr]
           st    == staging[pr]
           flush == st.handles # <<>> /\ (st.target # t \/ Len(st.handles) = BatchMax)
           sh    == IF flush THEN Flush(Shared, st.target, s, st.handles) ELSE Shared
           chain == Append(IF flush THEN <<>> ELSE st.handles, c)
<1>1. Core /\ Sound(Now) /\ Now.procs = procs
  BY NowIs DEF IInv, Core
<1>2. /\ life' \in [Coroutines -> {"Runnable", "Running", "Waiting"}]
      /\ Runnables' = Runnables \union {c} /\ c \notin Runnables
  <2>1. life' = [life EXCEPT ![c] = "Runnable"] /\ life[c] = "Waiting"
    BY DEF ReadyBatch
  <2>2. c \notin Runnables
    BY <2>1 DEF Runnables
  <2>3. /\ life' \in [Coroutines -> {"Runnable", "Running", "Waiting"}]
        /\ Runnables' = Runnables \union {c}
    BY <1>1, <2>1, RunnablesAre DEF Core
  <2> QED BY <2>2, <2>3
<1>3. s \in ShardSet
  BY SchedulerAssumption
<1>4. /\ flush => CanFlush(Shared, st.target, s)
      /\ batch' = batch \union {c} /\ look' = look /\ held' = held /\ lost' = lost
      /\ parallelism' = parallelism
      /\ CanFlush(sh, t, s) =>
           /\ procs' = Flush(sh, t, s, chain).procs
           /\ workSeq' = Flush(sh, t, s, chain).seq
           /\ idle' = Flush(sh, t, s, chain).idle
           /\ staging' = [staging EXCEPT ![pr] = NoStaging]
      /\ ~CanFlush(sh, t, s) =>
           /\ procs' = sh.procs /\ workSeq' = sh.seq /\ idle' = sh.idle
           /\ staging' = [staging EXCEPT ![pr] = [target |-> t, handles |-> chain]]
  BY DEF ReadyBatch, Become
<1>5. /\ StagingOK(staging, Len(procs)) /\ DOMAIN staging = Producers
      /\ st.handles \in HandleSeq /\ Len(st.handles) <= BatchMax
      /\ st.handles # <<>> => st.target \in 1 .. Len(procs)
  BY <1>1, NowIs DEF Sound, StagingOK
(* First the older chain, when it is for another target or full.           *)
<1>6. \E w : /\ Sound(w) /\ w.procs = sh.procs /\ w.seq = sh.seq /\ w.idle = sh.idle
             /\ Len(w.procs) = Len(procs) /\ ActiveIn(w.procs) = ActiveIn(procs)
             /\ w.staging = IF flush THEN [staging EXCEPT ![pr] = NoStaging] ELSE staging
             /\ w.look = look /\ w.batch = batch /\ w.run = Runnables
             /\ w.held = held /\ w.lost = lost
  <2>1. CASE flush
    <3> DEFINE w == [procs |-> sh.procs, seq |-> sh.seq, idle |-> sh.idle,
                     staging |-> [staging EXCEPT ![pr] = NoStaging], look |-> look,
                     batch |-> batch, run |-> Runnables, held |-> held, lost |-> lost]
    <3>1. sh = Flush(Shared, st.target, s, st.handles)
      BY <2>1
    <3> HIDE DEF sh
    <3>2. /\ w.procs = sh.procs /\ w.seq = sh.seq /\ w.idle = sh.idle
          /\ w.staging = [staging EXCEPT ![pr] = NoStaging]
          /\ w.look = look /\ w.batch = batch /\ w.run = Runnables
          /\ w.held = held /\ w.lost = lost
      OBVIOUS
    <3> HIDE DEF w
    <3>3. CanFlush(Shared, st.target, s) /\ Now.staging[pr].handles # <<>>
      BY <1>4, <2>1, NowIs
    <3>4. FlushOf(Now, w, pr, Shared, s)
      BY <3>1, <3>2, <3>3, NowIs DEF FlushOf, Shared
    <3>5. Sound(w) /\ Len(w.procs) = Len(Now.procs) /\ ActiveIn(w.procs) = ActiveIn(Now.procs)
      BY <1>1, <1>3, <3>3, <3>4, FlushIs
    <3> QED BY <3>2, <3>5, <1>1, <2>1
  <2>2. CASE ~flush
    <3>1. sh = Shared
      BY <2>2
    <3> HIDE DEF sh
    <3>2. Now.procs = sh.procs /\ Now.seq = sh.seq /\ Now.idle = sh.idle
      BY <3>1, NowIs DEF Shared
    <3> QED BY <1>1, <2>2, <3>2, NowIs
  <2> QED BY <2>1, <2>2
<1>7. PICK w :
        /\ Sound(w) /\ w.procs = sh.procs /\ w.seq = sh.seq /\ w.idle = sh.idle
        /\ Len(w.procs) = Len(procs) /\ ActiveIn(w.procs) = ActiveIn(procs)
        /\ w.staging = IF flush THEN [staging EXCEPT ![pr] = NoStaging] ELSE staging
        /\ w.look = look /\ w.batch = batch /\ w.run = Runnables
        /\ w.held = held /\ w.lost = lost
  BY <1>6
<1> HIDE DEF sh
<1>8. /\ chain = Append(w.staging[pr].handles, c)
      /\ Len(w.staging[pr].handles) < BatchMax
      /\ w.staging[pr].handles \in HandleSeq
  <2>1. BatchMax \in Nat \ {0}
    BY SchedulerAssumption
  <2>2. CASE flush
    BY <1>5, <1>7, <2>1, <2>2, NothingStaged, NothingQueued
  <2>3. CASE ~flush
    <3>1. w.staging = staging
      BY <1>7, <2>3
    <3>2. Len(st.handles) # BatchMax
      <4>1. st.handles = <<>> => Len(st.handles) = 0
        OBVIOUS
      <4> QED BY <2>1, <2>3, <4>1
    <3>3. Len(st.handles) \in Nat
      BY <1>5, HandlesAre
    <3>4. Len(st.handles) < BatchMax
      BY <1>5, <2>1, <3>2, <3>3
    <3> QED BY <1>5, <2>3, <3>1, <3>4
  <2> QED BY <2>2, <2>3
<1>9. DOMAIN w.staging = Producers /\ c \notin w.run /\ t \in 1 .. Len(w.procs)
  BY <1>1, <1>2, <1>7, ProcessorsAre DEF Sound, StagingOK
(* Then the coroutine is staged; both are over when the flush fails.       *)
<1>10. CASE ~CanFlush(sh, t, s)
  <2> HIDE DEF chain
  <2>1. staging' = [w.staging EXCEPT ![pr] = [target |-> t, handles |-> chain]]
    BY <1>4, <1>7, <1>10
  <2>2. staging'[pr] = [target |-> t, handles |-> chain]
    BY <1>9, <2>1
  <2>3. Staged(w, Now', pr, c)
    BY <1>2, <1>4, <1>7, <1>8, <1>9, <1>10, <2>1, <2>2, NowIs DEF Staged
  <2>4. Sound(Now')
    BY <1>7, <1>8, <1>9, <2>3, StageKeepsSound
  <2> QED BY <1>1, <1>2, <1>4, <1>7, <1>10, <2>4 DEF Core
(* Or the new chain goes to its carry.                                     *)
<1>11. CASE CanFlush(sh, t, s)
  <2> DEFINE e == [target |-> t, handles |-> chain]
             f == [w.staging EXCEPT ![pr] = e]
             u == [procs |-> w.procs, seq |-> w.seq, idle |-> w.idle, staging |-> f,
                   look |-> look, batch |-> batch \union {c}, run |-> Runnables \union {c},
                   held |-> held, lost |-> lost]
  <2> HIDE DEF chain
  <2>1. e.target = t /\ e.handles = chain /\ e = [target |-> e.target, handles |-> e.handles]
    OBVIOUS
  <2> HIDE DEF e
  <2>2. f[pr] = e /\ f = [w.staging EXCEPT ![pr] = f[pr]]
        /\ [f EXCEPT ![pr] = NoStaging] = [staging EXCEPT ![pr] = NoStaging]
    BY <1>5, <1>7, <1>9
  <2> HIDE DEF f
  <2>3. /\ u.procs = w.procs /\ u.seq = w.seq /\ u.idle = w.idle /\ u.staging = f
        /\ u.look = look /\ u.batch = batch \union {c} /\ u.run = Runnables \union {c}
        /\ u.held = held /\ u.lost = lost
    OBVIOUS
  <2> HIDE DEF u
  <2>4. Staged(w, u, pr, c)
    BY <1>7, <1>8, <1>9, <2>1, <2>2, <2>3 DEF Staged
  <2>5. Sound(u) /\ Len(u.procs) = Len(procs)
    BY <1>7, <1>8, <1>9, <2>3, <2>4, StageKeepsSound
  <2>6. u.staging[pr].handles = chain /\ u.staging[pr].target = t
    BY <2>1, <2>2, <2>3
  <2>7. chain # <<>>
    <3>1. Len(chain) = Len(w.staging[pr].handles) + 1 /\ Len(w.staging[pr].handles) \in Nat
      BY <1>8, AppendProperties, HandlesAre DEF HandleSeq
    <3>2. Len(<<>>) = 0
      OBVIOUS
    <3> QED BY <3>1, <3>2
  <2>8. FlushOf(u, Now', pr, sh, s)
    BY <1>2, <1>4, <1>7, <1>11, <2>2, <2>3, <2>6, NowIs DEF FlushOf
  <2>9. /\ Sound(Now') /\ Len(Now'.procs) = Len(u.procs)
        /\ ActiveIn(Now'.procs) = ActiveIn(u.procs)
    BY <1>1, <1>3, <2>5, <2>6, <2>7, <2>8, FlushIs
  <2> QED BY <1>1, <1>2, <1>4, <1>7, <2>3, <2>9, NowIs DEF Core
<1> QED BY <1>10, <1>11

LEMMA SameService ==
  ASSUME NEW q, NEW r, r.carries = q.carries, r.inj = q.inj, r.cursor = q.cursor
  PROVE  /\ HasExternal(r) = HasExternal(q)
         /\ External(r) = External(q)
<1> DEFINE Nearest(k, u) == CHOOSE s \in ShardSet :
    /\ k[s] # <<>>
    /\ \A t \in ShardSet : k[t] # <<>> => (IF s >= u THEN s - u ELSE s - u + Shards) <= (IF t >= u THEN t - u ELSE t - u + Shards)
<1>1. NextShard(q) = Nearest(q.carries, q.cursor)
  BY DEF NextShard, Away
<1>2. NextShard(r) = Nearest(r.carries, r.cursor)
  BY DEF NextShard, Away
<1> HIDE DEF Nearest
<1>3. NextShard(r) = NextShard(q)
  BY <1>1, <1>2
<1> QED BY <1>3 DEF HasExternal, External, RemoteReady

-----------------------------------------------------------------------------
(* The steps of the specification: one processor                           *)

LEMMA PlacesAre ==
  ASSUME Core
  PROVE  /\ held \intersect lost = {} /\ lost \intersect batch = {} /\ batch \subseteq Runnables
         /\ held \union lost \subseteq Runnables
         /\ \A p \in Processors :
              /\ AllOf(procs[p]) \subseteq Runnables
              /\ AllOf(procs[p]) \intersect (held \union lost) = {}
              /\ Quick(procs[p]) \intersect batch = {}
              /\ None \notin AllOf(procs[p])
         /\ \A p, r \in Processors : p # r => AllOf(procs[p]) \intersect AllOf(procs[r]) = {}
<1>1. Placed(procs, staging, held, lost, Runnables) /\ Batches(procs, batch, lost, Runnables)
  BY NowIs DEF Core, Sound
<1>2. held \intersect lost = {}
      /\ \A p \in Processors : AllOf(procs[p]) \intersect (held \union lost) = {}
  BY <1>1 DEF Placed, Apart, Processors
<1>3. /\ held \union lost \subseteq Runnables
      /\ \A p \in Processors : AllOf(procs[p]) \subseteq Runnables
  BY <1>1 DEF Placed, Somewhere, Processors
<1>4. None \notin Runnables
  BY SchedulerAssumption DEF Runnables
<1>5. \A p, r \in Processors : p # r => AllOf(procs[p]) \intersect AllOf(procs[r]) = {}
  BY <1>1 DEF Placed, Apart, Processors
<1>6. /\ lost \intersect batch = {} /\ batch \subseteq Runnables
      /\ \A p \in Processors : Quick(procs[p]) \intersect batch = {}
  BY <1>1 DEF Batches, Processors
<1> QED BY <1>2, <1>3, <1>4, <1>5, <1>6

(* The processor p becomes q.                                              *)
Exchange(p, q) ==
  /\ procs' = [procs EXCEPT ![p] = q]
  /\ UNCHANGED <<batch, parallelism, staging, workSeq, idle, look>>
  /\ life' \in [Coroutines -> {"Runnable", "Running", "Waiting"}]
  /\ Runnables \subseteq Runnables'
  /\ AllOf(q) \union held' \union lost'
       = AllOf(procs[p]) \union held \union lost \union (Runnables' \ Runnables)
  /\ AllOf(q) \intersect (held' \union lost') = {} /\ held' \intersect lost' = {}
  /\ Quick(q) \intersect batch = {} /\ lost' \intersect batch = {}
  /\ \A s \in ShardSet :
       Announced(q.carries[s], batch) => Announced(procs[p].carries[s], batch)

LEMMA ExchangeKeepsCore ==
  ASSUME Core, NEW p \in Processors, NEW q, Good(q), Exchange(p, q),
         q.state = procs[p].state \/ q.state = "Idle"
  PROVE  Core'
<1>1. Sound(Now) /\ p \in DOMAIN Now.procs /\ Now.procs = procs
  BY NowIs DEF Core, Processors
<1>2. procs'[p] = q
  BY DEF Exchange, Processors
<1>3. Swapped(Now, Now', p)
  BY <1>2, NowIs DEF Swapped, Exchange
<1>4. Sound(Now')
  BY <1>1, <1>3, SwapKeepsSound
<1>5. ProcsOK(procs') /\ ProcsOK(procs)
  BY <1>4, NowIs DEF Sound, Core
<1>6. ActiveIn(procs) \subseteq ActiveIn(procs')
  BY <1>2 DEF ActiveIn, Exchange, Processors
<1>7. Len(procs') = Len(procs)
  <2>1. ProcsOK(procs) /\ p \in DOMAIN procs
    BY <1>5 DEF Processors
  <2>2. Len([procs EXCEPT ![p] = q]) = Len(procs)
    BY <2>1, OneProcessor
  <2> QED BY <2>2 DEF Exchange
<1>8. Cardinality(ActiveIn(procs')) >= parallelism
  <2>1. IsFiniteSet(ActiveIn(procs'))
    BY <1>5, ProcsAre
  <2>2. /\ Cardinality(ActiveIn(procs)) <= Cardinality(ActiveIn(procs'))
        /\ Cardinality(ActiveIn(procs)) \in Nat /\ Cardinality(ActiveIn(procs')) \in Nat
    BY <1>6, <2>1, FS_Subset, FS_CardinalityType
  <2> QED BY <2>2 DEF Core
<1> QED BY <1>4, <1>7, <1>8 DEF Core, Exchange

LEMMA TickedIs ==
  ASSUME Core, NEW p \in Processors
  PROVE  LET q == procs[p]
             r == Ticked(p)
         IN  /\ Good(r) /\ r.tick = After(q.tick, ServiceInterval) /\ r.tick # q.tick
             /\ r.state = q.state /\ r.runNext = q.runNext /\ r.hits = q.hits
             /\ r.local = q.local /\ r.carries = q.carries /\ r.inj = q.inj
             /\ r.cursor = q.cursor /\ AllOf(r) = AllOf(q) /\ Quick(r) = Quick(q)
             /\ r.tick # 0 => r.tick > q.tick
<1>1. procs[p] \in ProcessorType /\ Good(procs[p])
  BY ProcessorsAre
<1> DEFINE k == After(procs[p].tick, ServiceInterval)
<1>2. ServiceInterval \in Nat \ {0} /\ ServiceInterval # 1
  BY SchedulerAssumption
<1>3. procs[p].tick \in 0 .. ServiceInterval - 1
  BY <1>1 DEF ProcessorType
<1>4. /\ k \in 0 .. ServiceInterval - 1 /\ k # procs[p].tick
      /\ k # 0 => k > procs[p].tick
  BY <1>2, <1>3, AfterIs
<1>5. Ticked(p) = [procs[p] EXCEPT !.tick = k]
  BY DEF Ticked
<1> HIDE DEF k
<1>6. LET r == [procs[p] EXCEPT !.tick = k]
      IN  /\ r \in ProcessorType /\ r.tick = k
          /\ r.state = procs[p].state /\ r.runNext = procs[p].runNext /\ r.hits = procs[p].hits
          /\ r.local = procs[p].local /\ r.carries = procs[p].carries /\ r.inj = procs[p].inj
          /\ r.cursor = procs[p].cursor
          /\ Good(procs[p]) => Good(r)
          /\ AllOf(r) = AllOf(procs[p]) /\ Quick(r) = Quick(procs[p])
  BY <1>1, <1>4, TickChanged
<1>7. k = After(procs[p].tick, ServiceInterval)
  BY DEF k
<1> QED BY <1>1, <1>4, <1>5, <1>6, <1>7

LEMMA PassedIs ==
  ASSUME Core, NEW p \in Processors
  PROVE  LET q == procs[p]
             r == Passed(p)
         IN  /\ Good(r) /\ r.tick = Ticked(p).tick /\ r.runNext = None
             /\ r.state = q.state /\ r.local = q.local /\ r.carries = q.carries
             /\ r.inj = q.inj /\ r.cursor = q.cursor
             /\ AllOf(r) = AllOf(q) \ {q.runNext} /\ Quick(r) \subseteq Quick(q)
<1> DEFINE q == procs[p]
           u == Ticked(p)
           r == [u EXCEPT !.runNext = None, !.hits = 0]
<1>1. /\ Good(u) /\ u.runNext = q.runNext /\ u.state = q.state
      /\ u.local = q.local /\ u.carries = q.carries /\ u.inj = q.inj
      /\ u.cursor = q.cursor /\ AllOf(u) = AllOf(q) /\ Quick(u) = Quick(q)
  BY TickedIs
<1>2. None \notin AllOf(q)
  BY PlacesAre
<1>3. Passed(p) = r
  BY DEF Passed
<1> HIDE DEF u, q
<1>4. /\ Good(r) /\ r.runNext = None
      /\ r.state = u.state /\ r.tick = u.tick /\ r.cursor = u.cursor
      /\ r.local = u.local /\ r.carries = u.carries /\ r.inj = u.inj
      /\ AllOf(r) = (AllOf(u) \ {u.runNext}) \union ({None} \ {None})
  BY <1>1, <1>2, RunNextChanged
<1> HIDE DEF r
<1>5. Quick(r) \subseteq Quick(q)
  BY <1>1, <1>4 DEF Quick
<1> QED BY <1>1, <1>3, <1>4, <1>5 DEF q, u

(* A step that returns c and lets go of the handles of g.                  *)
LEMMA ServedKeepsCore ==
  ASSUME Core, NEW p \in Processors, NEW q, Good(q), q.state = procs[p].state,
         NEW c \in AllOf(procs[p]), NEW g \in SUBSET Quick(procs[p]), c \notin g,
         AllOf(q) = AllOf(procs[p]) \ ({c} \union g), Quick(q) \subseteq Quick(procs[p]),
         \A s \in ShardSet :
           Announced(q.carries[s], batch) => Announced(procs[p].carries[s], batch),
         Return(p, c, q), lost' = lost \union g, StepFrame
  PROVE  Core'
<1>1. /\ held \intersect lost = {} /\ lost \intersect batch = {}
      /\ AllOf(procs[p]) \intersect (held \union lost) = {}
      /\ Quick(procs[p]) \intersect batch = {}
      /\ Quick(procs[p]) \subseteq AllOf(procs[p])
  BY PlacesAre, ProcessorsAre, Parts
<1>2. Runnables' = Runnables /\ life' = life
  BY DEF Runnables, StepFrame
<1>3. /\ procs' = [procs EXCEPT ![p] = q] /\ held' = held \union {c}
      /\ UNCHANGED <<batch, parallelism, staging, workSeq, idle, look>>
  BY DEF Return, StepFrame, registry
<1>4. AllOf(q) \union held' \union lost'
        = AllOf(procs[p]) \union held \union lost \union (Runnables' \ Runnables)
  BY <1>1, <1>2, <1>3
<1>5. AllOf(q) \intersect (held' \union lost') = {} /\ held' \intersect lost' = {}
  BY <1>1, <1>3
<1>6. Quick(q) \intersect batch = {} /\ lost' \intersect batch = {}
  BY <1>1
<1>7. Exchange(p, q)
  BY <1>2, <1>3, <1>4, <1>5, <1>6 DEF Exchange, Core
<1> QED BY <1>7, ExchangeKeepsCore

LEMMA ServiceStep ==
  ASSUME Core, NEW p \in Processors, StepService(p)
  PROVE  Core'
<1> DEFINE u == Ticked(p)
           q == AfterExternal(u)
           c == External(u)
<1>1. /\ Good(u) /\ u.state = procs[p].state /\ u.carries = procs[p].carries
      /\ u.inj = procs[p].inj /\ u.cursor = procs[p].cursor
      /\ AllOf(u) = AllOf(procs[p]) /\ Quick(u) = Quick(procs[p])
  BY TickedIs
<1>2. HasExternal(u) /\ c = External(procs[p])
  BY <1>1, SameService DEF StepService, ServiceDue
<1> HIDE DEF u
<1>3. /\ Good(q) /\ AllOf(q) = AllOf(u) \ {c} /\ Quick(q) = Quick(u)
      /\ c \in AllOf(u) /\ q.state = u.state
      /\ \A s \in ShardSet : q.carries[s] # <<>> =>
           u.carries[s] # <<>> /\ Head(q.carries[s]) = Head(u.carries[s])
  BY <1>1, <1>2, Serviced
<1>4. Return(p, c, q) /\ StepFrame /\ lost' = lost
  BY <1>2 DEF StepService, u
<1> HIDE DEF q, c
<1>5. \A s \in ShardSet :
        Announced(q.carries[s], batch) => Announced(procs[p].carries[s], batch)
  BY <1>1, <1>3 DEF Announced
<1>6. /\ q.state = procs[p].state /\ c \in AllOf(procs[p])
      /\ AllOf(q) = AllOf(procs[p]) \ ({c} \union {})
      /\ Quick(q) \subseteq Quick(procs[p]) /\ {} \in SUBSET Quick(procs[p]) /\ c \notin {}
      /\ lost' = lost \union {}
  BY <1>1, <1>3, <1>4
<1> QED BY <1>3, <1>4, <1>5, <1>6, ServedKeepsCore

LEMMA RunNextStep ==
  ASSUME Core, NEW p \in Processors, StepRunNext(p)
  PROVE  Core'
<1> DEFINE u == Ticked(p)
           q == [u EXCEPT !.runNext = None, !.hits = 1]
           c == procs[p].runNext
<1>1. /\ Good(u) /\ u.state = procs[p].state /\ u.carries = procs[p].carries
      /\ u.runNext = c /\ u.local = procs[p].local
      /\ AllOf(u) = AllOf(procs[p]) /\ Quick(u) = Quick(procs[p])
  BY TickedIs
<1>2. Return(p, c, q) /\ StepFrame /\ lost' = lost /\ c # None
  BY DEF StepRunNext, RunNextDue
<1>3. None \notin AllOf(u) /\ c \in AllOf(procs[p])
  BY <1>1, <1>2, PlacesAre, ProcessorsAre, Parts
<1> HIDE DEF u, c
<1>4. /\ Good(q) /\ q.runNext = None /\ q.state = u.state /\ q.carries = u.carries
      /\ q.local = u.local
      /\ AllOf(q) = (AllOf(u) \ {u.runNext}) \union ({None} \ {None})
  BY <1>1, <1>3, RunNextChanged
<1> HIDE DEF q
<1>5. Quick(q) \subseteq Quick(procs[p])
  BY <1>1, <1>4 DEF Quick
<1> DEFINE g == {}
<1>7. /\ AllOf(q) = AllOf(procs[p]) \ ({c} \union g)
      /\ g \in SUBSET Quick(procs[p]) /\ c \notin g
      /\ lost' = lost \union g
  BY <1>1, <1>2, <1>4
<1> HIDE DEF g
<1>6. /\ q.state = procs[p].state /\ c \in AllOf(procs[p])
      /\ \A s \in ShardSet :
           Announced(q.carries[s], batch) => Announced(procs[p].carries[s], batch)
  BY <1>1, <1>2, <1>3, <1>4
<1> QED BY <1>2, <1>4, <1>5, <1>6, <1>7, ServedKeepsCore

(* What a passed run_next loses.                                           *)
LEMMA GoneIs ==
  ASSUME Core, NEW p \in Processors
  PROVE  LET g == {procs[p].runNext} \ {None}
         IN  /\ g \in SUBSET Quick(procs[p])
             /\ AllOf(Passed(p)) = AllOf(procs[p]) \ g
             /\ g \intersect AllOf(Passed(p)) = {}
  BY PassedIs, PlacesAre DEF Quick

LEMMA LocalStep ==
  ASSUME Core, NEW p \in Processors, StepLocal(p)
  PROVE  Core'
<1> DEFINE u == Passed(p)
           k == Front(procs[p].local)
           q == [u EXCEPT !.local = k]
           c == Last(procs[p].local)
           g == {procs[p].runNext} \ {None}
<1>1. /\ Good(u) /\ u.state = procs[p].state /\ u.carries = procs[p].carries
      /\ u.local = procs[p].local /\ u.runNext = None
      /\ Quick(u) \subseteq Quick(procs[p])
  BY PassedIs
<1>2. /\ g \in SUBSET Quick(procs[p]) /\ AllOf(u) = AllOf(procs[p]) \ g
      /\ g \intersect AllOf(u) = {}
  BY GoneIs
<1>3. procs[p].local # <<>> /\ lost' = lost \union g /\ StepFrame /\ Return(p, c, q)
  BY <1>1 DEF StepLocal, PassRunNext
<1>4. /\ u.local \in HandleSeq /\ IsInjective(u.local) /\ Len(u.local) <= LocalCapacity
      /\ u \in ProcessorType
  BY <1>1 DEF Good, Neat, ProcessorType
<1>5. /\ k \in HandleSeq /\ IsInjective(k) /\ Len(k) = Len(u.local) - 1
      /\ Len(u.local) \in Nat
      /\ c \in Handles(u.local) /\ Handles(k) = Handles(u.local) \ {c}
  BY <1>1, <1>3, <1>4, Popped
<1>6. Len(k) <= LocalCapacity
  BY <1>4, <1>5, SchedulerAssumption
<1>7. Handles(u.local) \subseteq Quick(u) /\ Quick(u) \subseteq AllOf(u)
  BY <1>4, Parts DEF Quick
<1> HIDE DEF u, k, c, g
<1>8. Handles(k) \intersect (AllOf(u) \ Handles(u.local)) = {}
  BY <1>5
<1>9. /\ Good(q) /\ q.state = u.state /\ q.carries = u.carries
      /\ AllOf(q) = (AllOf(u) \ Handles(u.local)) \union Handles(k)
      /\ Quick(q) \subseteq Quick(u) \union Handles(k)
  BY <1>1, <1>5, <1>6, <1>8, LocalChanged
<1> HIDE DEF q
<1>10. /\ c \in AllOf(procs[p]) /\ c \notin g
       /\ AllOf(q) = AllOf(procs[p]) \ ({c} \union g)
       /\ Quick(q) \subseteq Quick(procs[p]) /\ q.state = procs[p].state
       /\ \A s \in ShardSet :
            Announced(q.carries[s], batch) => Announced(procs[p].carries[s], batch)
  BY <1>1, <1>2, <1>5, <1>7, <1>9
<1> QED BY <1>2, <1>3, <1>9, <1>10, ServedKeepsCore

LEMMA ExternalStep ==
  ASSUME Core, NEW p \in Processors, StepExternal(p)
  PROVE  Core'
<1> DEFINE u == Passed(p)
           q == AfterExternal(u)
           c == External(u)
           g == {procs[p].runNext} \ {None}
<1>1. /\ Good(u) /\ u.state = procs[p].state /\ u.carries = procs[p].carries
      /\ u.inj = procs[p].inj /\ u.cursor = procs[p].cursor
      /\ Quick(u) \subseteq Quick(procs[p])
  BY PassedIs
<1>2. /\ g \in SUBSET Quick(procs[p]) /\ AllOf(u) = AllOf(procs[p]) \ g
      /\ g \intersect AllOf(u) = {}
  BY GoneIs
<1>3. HasExternal(u) /\ c = External(procs[p])
  BY <1>1, SameService DEF StepExternal
<1> HIDE DEF u
<1>4. /\ Good(q) /\ AllOf(q) = AllOf(u) \ {c} /\ Quick(q) = Quick(u)
      /\ c \in AllOf(u) /\ q.state = u.state
      /\ \A s \in ShardSet : q.carries[s] # <<>> =>
           u.carries[s] # <<>> /\ Head(q.carries[s]) = Head(u.carries[s])
  BY <1>1, <1>3, Serviced
<1>5. Return(p, c, q) /\ StepFrame /\ lost' = lost \union g
  BY <1>3 DEF StepExternal, PassRunNext, u
<1> HIDE DEF q, c, g
<1>6. \A s \in ShardSet :
        Announced(q.carries[s], batch) => Announced(procs[p].carries[s], batch)
  BY <1>1, <1>4 DEF Announced
<1>7. /\ q.state = procs[p].state /\ c \in AllOf(procs[p]) /\ c \notin g
      /\ AllOf(q) = AllOf(procs[p]) \ ({c} \union g)
      /\ Quick(q) \subseteq Quick(procs[p])
  BY <1>1, <1>2, <1>4
<1> QED BY <1>2, <1>4, <1>5, <1>6, <1>7, ServedKeepsCore

LEMMA NothingStep ==
  ASSUME Core, NEW p \in Processors, StepNothing(p)
  PROVE  Core'
<1> DEFINE q == Passed(p)
           g == {procs[p].runNext} \ {None}
<1>1. /\ Good(q) /\ q.state = procs[p].state /\ q.carries = procs[p].carries
      /\ Quick(q) \subseteq Quick(procs[p])
  BY PassedIs
<1>2. /\ g \in SUBSET Quick(procs[p]) /\ AllOf(q) = AllOf(procs[p]) \ g
      /\ g \intersect AllOf(q) = {}
  BY GoneIs
<1>3. procs' = [procs EXCEPT ![p] = q] /\ lost' = lost \union g /\ held' = held /\ StepFrame
  BY DEF StepNothing, PassRunNext
<1> HIDE DEF q, g
<1>4. /\ held \intersect lost = {} /\ lost \intersect batch = {}
      /\ AllOf(procs[p]) \intersect (held \union lost) = {}
      /\ Quick(procs[p]) \intersect batch = {}
      /\ Quick(procs[p]) \subseteq AllOf(procs[p])
  BY PlacesAre, ProcessorsAre, Parts
<1>5. Runnables' = Runnables /\ life' = life
  BY <1>3 DEF Runnables, StepFrame
<1>6. AllOf(q) \union held' \union lost'
        = AllOf(procs[p]) \union held \union lost \union (Runnables' \ Runnables)
  BY <1>2, <1>3, <1>4, <1>5
<1>7. AllOf(q) \intersect (held' \union lost') = {} /\ held' \intersect lost' = {}
  BY <1>2, <1>3, <1>4
<1>8. Quick(q) \intersect batch = {} /\ lost' \intersect batch = {}
  BY <1>1, <1>2, <1>3, <1>4
<1>9. Exchange(p, q)
  BY <1>1, <1>3, <1>5, <1>6, <1>7, <1>8 DEF Exchange, Core, StepFrame, registry
<1> QED BY <1>1, <1>9, ExchangeKeepsCore

(* Two processors: what one gives is first with the caller (u), then the   *)
(* other takes it.                                                         *)
Lent(u, p, r, part) ==
  /\ Sound(u)
  /\ u.procs = [procs EXCEPT ![p] = r] /\ u.held = held \union part
  /\ u.seq = workSeq /\ u.idle = idle /\ u.staging = staging /\ u.batch = batch
  /\ u.run = Runnables /\ u.lost = lost /\ u.look = look
  /\ Len(u.procs) = Len(procs) /\ ActiveIn(u.procs) = ActiveIn(procs)

LEMMA LendingIsSound ==
  ASSUME Core, NEW p \in Processors, NEW r, Good(r), r.state = procs[p].state,
         NEW part \in SUBSET Quick(procs[p]),
         AllOf(r) = AllOf(procs[p]) \ part, Quick(r) \subseteq Quick(procs[p]),
         r.carries = procs[p].carries
  PROVE  \E u : Lent(u, p, r, part)
<1> DEFINE pd == [procs EXCEPT ![p] = r]
           u == [procs |-> pd, seq |-> workSeq, idle |-> idle, staging |-> staging,
                 batch |-> batch, run |-> Runnables, held |-> held \union part,
                 lost |-> lost, look |-> look]
<1>1. /\ held \intersect lost = {} /\ lost \intersect batch = {}
      /\ AllOf(procs[p]) \intersect (held \union lost) = {}
      /\ Quick(procs[p]) \intersect batch = {}
      /\ Quick(procs[p]) \subseteq AllOf(procs[p])
  BY PlacesAre, ProcessorsAre, Parts
<1>2. ProcsOK(procs) /\ p \in DOMAIN procs
  BY ProcessorsAre DEF Processors
<1>3. /\ Len(pd) = Len(procs) /\ pd[p] = r
      /\ ActiveIn(pd) = ActiveIn(procs)
  BY <1>2, OneProcessor
<1>4. pd = [procs EXCEPT ![p] = r]
  OBVIOUS
<1> HIDE DEF pd
<1>5. /\ u.procs = pd /\ u.seq = workSeq /\ u.idle = idle /\ u.staging = staging
      /\ u.batch = batch /\ u.run = Runnables /\ u.held = held \union part
      /\ u.lost = lost /\ u.look = look
  OBVIOUS
<1> HIDE DEF u
<1>6. Swapped(Now, u, p)
  <2>1. /\ AllOf(r) \union u.held \union u.lost
             = AllOf(procs[p]) \union held \union lost \union (u.run \ Runnables)
        /\ Runnables \subseteq u.run
        /\ AllOf(r) \intersect (u.held \union u.lost) = {}
        /\ u.held \intersect u.lost = {}
        /\ Quick(r) \intersect batch = {} /\ u.lost \intersect batch = {}
    BY <1>1, <1>5
  <2> QED BY <1>3, <1>4, <1>5, <2>1, NowIs DEF Swapped
<1>7. Sound(u)
  BY <1>2, <1>6, NowIs, SwapKeepsSound DEF Core
<1> QED BY <1>3, <1>4, <1>5, <1>7 DEF Lent

LEMMA TakingKeepsCore ==
  ASSUME Core, NEW u, NEW p \in Processors, NEW r, NEW part, Lent(u, p, r, part),
         NEW t \in Processors, NEW q, Good(q), q.state = u.procs[t].state,
         procs' = [u.procs EXCEPT ![t] = q], StepFrame,
         AllOf(q) \union held' \union lost' = AllOf(u.procs[t]) \union u.held \union lost,
         AllOf(q) \intersect (held' \union lost') = {}, held' \intersect lost' = {},
         Quick(q) \intersect batch = {}, lost' \intersect batch = {},
         \A s \in ShardSet :
           Announced(q.carries[s], batch) => Announced(u.procs[t].carries[s], batch)
  PROVE  Core'
<1>1. Runnables' = Runnables /\ life' = life
  BY DEF Runnables, StepFrame
<1>2. ProcsOK(u.procs) /\ t \in DOMAIN u.procs
  <2>1. ProcsOK(u.procs) /\ Len(u.procs) = Len(procs)
    BY DEF Lent, Sound
  <2> QED BY <2>1, ProcessorsAre, ProcsAre
<1>3. /\ Len(procs') = Len(u.procs) /\ ActiveIn(procs') = ActiveIn(u.procs) /\ procs'[t] = q
  BY <1>2, OneProcessor
<1>4. Swapped(u, Now', t)
  <2>1. /\ procs'[t] = q /\ procs' = [u.procs EXCEPT ![t] = procs'[t]]
        /\ workSeq' = u.seq /\ idle' = u.idle /\ look' = u.look /\ staging' = u.staging
        /\ batch' = u.batch /\ u.batch = batch /\ u.lost = lost
        /\ u.run = Runnables'
    BY <1>1, <1>3 DEF Lent, StepFrame, registry
  <2>2. AllOf(q) \union held' \union lost'
          = AllOf(u.procs[t]) \union u.held \union u.lost \union (Runnables' \ u.run)
    BY <2>1
  <2> QED BY <2>1, <2>2, NowIs DEF Swapped
<1>5. Sound(Now')
  BY <1>2, <1>4, SwapKeepsSound DEF Lent
<1> QED BY <1>1, <1>3, <1>5 DEF Core, Lent, StepFrame

LEMMA ClaimedIs ==
  ASSUME NEW q, q \in ProcessorType, q.local # <<>>
  PROVE  Claimed(q) \in 1 .. Len(q.local)
<1>1. Len(q.local) \in Nat \ {0}
  BY EmptySeq DEF ProcessorType, HandleSeq
<1>2. BatchMax \in Nat \ {0}
  BY SchedulerAssumption
<1>3. PICK m \in Nat \ {0} : m = Len(q.local)
  BY <1>1
<1>4. (m + 1) \div 2 \in 1 .. m
  OBVIOUS
<1>5. PICK h \in 1 .. m : h = (m + 1) \div 2
  BY <1>4
<1>6. PICK b \in Nat \ {0} : b = BatchMax
  BY <1>2
<1>7. Claimed(q) = IF h <= b THEN h ELSE b
  BY <1>3, <1>5, <1>6 DEF Claimed, SmallerOf
<1>8. (IF h <= b THEN h ELSE b) \in 1 .. m
  OBVIOUS
<1> QED BY <1>3, <1>7, <1>8

LEMMA StealingStep ==
  ASSUME Core, NEW p \in Processors, StepSteal(p)
  PROVE  Core'
<1>1. PICK v \in Victims(p) :
        LET n    == Claimed(procs[v])
            part == SubSeq(procs[v].local, 1, n)
        IN  /\ procs' = [procs EXCEPT
                           ![p] = [Passed(p) EXCEPT !.local = Tail(part)],
                           ![v].local = SubSeq(@, n + 1, Len(@))]
            /\ held' = held \union {Head(part)}
  BY DEF StepSteal
<1> DEFINE n    == Claimed(procs[v])
           part == SubSeq(procs[v].local, 1, n)
           rest == SubSeq(procs[v].local, n + 1, Len(procs[v].local))
           r    == [procs[v] EXCEPT !.local = rest]
           q    == [Passed(p) EXCEPT !.local = Tail(part)]
           g    == {procs[p].runNext} \ {None}
<1>2. v \in Processors /\ v # p /\ procs[v].local # <<>>
  BY DEF Victims, Active
<1>3. procs[v] \in ProcessorType /\ Good(procs[v])
  BY <1>2, ProcessorsAre
<1>4. n \in 1 .. Len(procs[v].local)
  BY <1>2, <1>3, ClaimedIs
<1>5. /\ procs[v].local \in HandleSeq /\ IsInjective(procs[v].local)
      /\ Len(procs[v].local) <= LocalCapacity /\ Len(procs[v].local) \in Nat
  BY <1>3, HandlesAre DEF Good, Neat, ProcessorType
<1>6. n \in 0 .. Len(procs[v].local) /\ n # 0
  BY <1>4
<1> HIDE DEF n
<1>7. /\ part \in HandleSeq /\ rest \in HandleSeq
      /\ Len(part) = n /\ Len(rest) = Len(procs[v].local) - n
      /\ IsInjective(part) /\ IsInjective(rest)
      /\ Handles(part) \union Handles(rest) = Handles(procs[v].local)
      /\ Handles(part) \intersect Handles(rest) = {}
  BY <1>5, <1>6, Split
<1> HIDE DEF part, rest
<1>8. Len(rest) <= LocalCapacity /\ Len(part) - 1 <= LocalCapacity /\ part # <<>>
  <2>1. LocalCapacity \in Nat
    BY SchedulerAssumption
  <2>2. part = <<>> => Len(part) = 0
    OBVIOUS
  <2> QED BY <1>4, <1>5, <1>7, <2>1, <2>2
<1>9. /\ Tail(part) \in HandleSeq /\ Len(Tail(part)) = Len(part) - 1 /\ IsInjective(Tail(part))
      /\ Head(part) \in Handles(part) /\ Handles(Tail(part)) = Handles(part) \ {Head(part)}
  BY <1>7, <1>8, HeadTaken
(* The victim gives its oldest handles.                                    *)
<1>10. Handles(part) \in SUBSET Quick(procs[v]) /\ Handles(procs[v].local) \subseteq AllOf(procs[v])
  BY <1>3, <1>7, Parts DEF Quick
<1>11. Handles(rest) \intersect (AllOf(procs[v]) \ Handles(procs[v].local)) = {}
  BY <1>7
<1>12. /\ Good(r) /\ r.state = procs[v].state /\ r.carries = procs[v].carries
       /\ r.local = rest /\ r.runNext = procs[v].runNext
       /\ AllOf(r) = (AllOf(procs[v]) \ Handles(procs[v].local)) \union Handles(rest)
  BY <1>3, <1>7, <1>8, <1>11, LocalChanged
<1> HIDE DEF r
<1>13. AllOf(r) = AllOf(procs[v]) \ Handles(part) /\ Quick(r) \subseteq Quick(procs[v])
  BY <1>7, <1>10, <1>12 DEF Quick
<1>14. PICK u : Lent(u, v, r, Handles(part))
  BY <1>2, <1>10, <1>12, <1>13, LendingIsSound
<1>15. u.procs[p] = procs[p] /\ u.procs = [procs EXCEPT ![v] = r] /\ u.held = held \union Handles(part)
  BY <1>2, <1>14 DEF Lent
(* The thief, whose deque is empty, takes all but the first.               *)
<1>16. /\ Good(Passed(p)) /\ Passed(p).state = procs[p].state
       /\ Passed(p).local = <<>> /\ Passed(p).carries = procs[p].carries
       /\ Quick(Passed(p)) \subseteq Quick(procs[p])
  BY PassedIs DEF StepSteal, Dry
<1>17. /\ g \in SUBSET Quick(procs[p]) /\ AllOf(Passed(p)) = AllOf(procs[p]) \ g
       /\ g \intersect AllOf(Passed(p)) = {}
  BY GoneIs
<1>18. /\ held \intersect lost = {} /\ lost \intersect batch = {}
       /\ AllOf(procs[p]) \intersect (held \union lost) = {}
       /\ AllOf(procs[v]) \intersect (held \union lost) = {}
       /\ AllOf(procs[p]) \intersect AllOf(procs[v]) = {}
       /\ Quick(procs[p]) \intersect batch = {} /\ Quick(procs[v]) \intersect batch = {}
       /\ Quick(procs[p]) \subseteq AllOf(procs[p]) /\ Quick(procs[v]) \subseteq AllOf(procs[v])
  BY <1>2, PlacesAre, ProcessorsAre, Parts
<1>19. /\ Good(q) /\ q.state = procs[p].state /\ q.carries = procs[p].carries
       /\ AllOf(q) = AllOf(Passed(p)) \union Handles(Tail(part))
       /\ Quick(q) \subseteq Quick(Passed(p)) \union Handles(Tail(part))
  <2>1. Handles(Tail(part)) \intersect (AllOf(Passed(p)) \ Handles(Passed(p).local)) = {}
    BY <1>9, <1>10, <1>17, <1>18
  <2>2. Len(Tail(part)) <= LocalCapacity /\ Handles(Passed(p).local) = {}
    BY <1>8, <1>9, <1>16, NothingQueued
  <2> DEFINE k == Tail(part)
             z == Passed(p)
  <2>3. /\ Good(z) /\ k \in HandleSeq /\ IsInjective(k) /\ Len(k) <= LocalCapacity
        /\ Handles(k) \intersect (AllOf(z) \ Handles(z.local)) = {}
    BY <1>9, <1>16, <2>1, <2>2
  <2> HIDE DEF k, z
  <2>4. LET y == [z EXCEPT !.local = k]
        IN  /\ Good(y) /\ y.state = z.state /\ y.carries = z.carries
            /\ AllOf(y) = (AllOf(z) \ Handles(z.local)) \union Handles(k)
            /\ Quick(y) \subseteq Quick(z) \union Handles(k)
    BY <2>3, LocalChanged
  <2> QED BY <1>16, <2>2, <2>4 DEF k, z
<1>20. procs' = [u.procs EXCEPT ![p] = q] /\ held' = held \union {Head(part)}
       /\ lost' = lost \union g /\ StepFrame
  <2>1. procs' = [procs EXCEPT ![p] = q, ![v].local = rest] /\ held' = held \union {Head(part)}
    BY <1>1 DEF n, part, rest
  <2>2. p \in DOMAIN procs /\ v \in DOMAIN procs
    BY <1>2 DEF Processors
  <2> HIDE DEF q
  <2>3. procs' = [[procs EXCEPT ![v] = r] EXCEPT ![p] = q]
    BY <1>2, <2>1, <2>2 DEF r
  <2> QED BY <1>15, <2>1, <2>3 DEF StepSteal, PassRunNext
<1> HIDE DEF q, g
<1>21. /\ AllOf(q) \union held' \union lost' = AllOf(u.procs[p]) \union u.held \union lost
       /\ AllOf(q) \intersect (held' \union lost') = {} /\ held' \intersect lost' = {}
  <2>1. AllOf(q) \union held' \union lost' = AllOf(u.procs[p]) \union u.held \union lost
    BY <1>9, <1>15, <1>17, <1>18, <1>19, <1>20
  <2>2. AllOf(q) \intersect (held' \union lost') = {}
    BY <1>9, <1>10, <1>17, <1>18, <1>19, <1>20
  <2>3. held' \intersect lost' = {}
    BY <1>9, <1>10, <1>17, <1>18, <1>20
  <2> QED BY <2>1, <2>2, <2>3
<1>22. Quick(q) \intersect batch = {} /\ lost' \intersect batch = {}
  BY <1>9, <1>10, <1>16, <1>17, <1>18, <1>19, <1>20
<1>23. /\ q.state = u.procs[p].state
       /\ \A s \in ShardSet :
            Announced(q.carries[s], batch) => Announced(u.procs[p].carries[s], batch)
  BY <1>15, <1>19
<1> QED BY <1>2, <1>14, <1>19, <1>20, <1>21, <1>22, <1>23, TakingKeepsCore

LEMMA Pushed ==
  ASSUME NEW q, Good(q), NEW c \in Coroutines, c \notin AllOf(q)
  PROVE  LET r == Push(q, c)
         IN  /\ Good(r)
             /\ r.runNext = q.runNext /\ r.hits = q.hits
             /\ r.state = q.state /\ r.tick = q.tick /\ r.cursor = q.cursor
             /\ r.carries = q.carries /\ r.inj = q.inj
             /\ AllOf(r) = IF Full(q) THEN AllOf(q) ELSE AllOf(q) \union {c}
             /\ Quick(r) \subseteq Quick(q) \union {c}
<1>1. CASE Full(q)
  <2>1. Push(q, c) = q
    BY <1>1 DEF Push
  <2> QED BY <1>1, <2>1
<1>2. CASE ~Full(q)
  <2> DEFINE k == Append(q.local, c)
             r == [q EXCEPT !.local = k]
  <2>1. Push(q, c) = r
    BY <1>2 DEF Push
  <2>2. /\ q.local \in HandleSeq /\ IsInjective(q.local) /\ Len(q.local) \in Nat
        /\ Handles(q.local) \subseteq AllOf(q)
    BY HandlesAre, Parts DEF Good, Neat, ProcessorType
  <2>3. /\ k \in HandleSeq /\ IsInjective(k) /\ Len(k) = Len(q.local) + 1
        /\ Handles(k) = Handles(q.local) \union {c}
    BY <2>2, Appended
  <2>4. Len(k) <= LocalCapacity
    <3>1. PICK m \in Nat : m = Len(q.local)
      BY <2>2
    <3>2. LocalCapacity \in Nat /\ m < LocalCapacity
      BY <1>2, <3>1, SchedulerAssumption DEF Full
    <3> QED BY <2>3, <3>1, <3>2
  <2> HIDE DEF k
  <2>5. Handles(k) \intersect (AllOf(q) \ Handles(q.local)) = {}
    BY <2>3
  <2>6. /\ Good(r)
        /\ r.runNext = q.runNext /\ r.hits = q.hits
        /\ r.state = q.state /\ r.tick = q.tick /\ r.cursor = q.cursor
        /\ r.carries = q.carries /\ r.inj = q.inj /\ r.local = k
        /\ AllOf(r) = (AllOf(q) \ Handles(q.local)) \union Handles(k)
    BY <2>3, <2>4, <2>5, LocalChanged
  <2> HIDE DEF r
  <2>7. AllOf(r) = AllOf(q) \union {c} /\ Quick(r) \subseteq Quick(q) \union {c}
    BY <2>2, <2>3, <2>6 DEF Quick
  <2> QED BY <1>2, <2>1, <2>6, <2>7
<1> QED BY <1>1, <1>2

LEMMA RunNextPushed ==
  ASSUME NEW q, Good(q), NEW c \in Coroutines, c \notin AllOf(q), None \notin AllOf(q)
  PROVE  LET r == PushRunNext(q, c)
             g == IF q.runNext # None /\ Full(q) THEN {q.runNext} ELSE {}
         IN  /\ Good(r)
             /\ r.state = q.state /\ r.tick = q.tick
             /\ r.carries = q.carries
             /\ AllOf(r) = (AllOf(q) \ g) \union {c}
             /\ g \subseteq Quick(q)
             /\ Quick(r) \subseteq Quick(q) \union {c}
<1>0. q \in ProcessorType
  BY DEF Good
<1>3. c # None
  BY SchedulerAssumption
<1>1. CASE q.runNext = None
  <2> DEFINE r == [q EXCEPT !.runNext = c]
  <2>1. PushRunNext(q, c) = r
    BY <1>1 DEF PushRunNext
  <2>2. r \in ProcessorType /\ RunNextOnly(q, r) /\ r.runNext = c
    BY <1>0 DEF ProcessorType, RunNextOnly
  <2> HIDE DEF r
  <2>3. /\ Good(r) /\ AllOf(r) = (AllOf(q) \ {q.runNext}) \union ({c} \ {None})
        /\ Quick(r) \subseteq Quick(q) \union {c}
    BY <2>2, RunNextMoved
  <2> QED BY <1>1, <1>3, <2>1, <2>2, <2>3 DEF RunNextOnly
<1>2. CASE q.runNext # None
  <2> DEFINE u == [q EXCEPT !.runNext = c, !.hits = 0]
             a == q.runNext
  <2>1. c # None /\ a \in Coroutines /\ a \in AllOf(q)
    BY <1>0, <1>2, <1>3, Parts DEF ProcessorType
  <2>9. u \in ProcessorType /\ RunNextOnly(q, u) /\ u.runNext = c
    BY <1>0 DEF ProcessorType, RunNextOnly
  <2>2. /\ Good(u) /\ u.runNext = c /\ u.state = q.state /\ u.tick = q.tick
        /\ u.carries = q.carries /\ u.local = q.local
        /\ AllOf(u) = (AllOf(q) \ {a}) \union ({c} \ {None})
    <3> HIDE DEF u
    <3> QED BY <2>9, RunNextMoved DEF RunNextOnly
  <2>3. PushRunNext(q, c) = Push(u, a)
    <3>1. Full(u) = Full(q)
      BY <2>2 DEF Full
    <3>2. CASE Full(q)
      BY <1>2, <3>1, <3>2 DEF PushRunNext, Push
    <3>3. CASE ~Full(q)
      BY <1>0, <1>2, <3>1, <3>3 DEF PushRunNext, Push, ProcessorType
    <3> QED BY <3>2, <3>3
  <2>4. Full(u) = Full(q)
    BY <2>2 DEF Full
  <2> HIDE DEF u, a
  <2>5. a \notin AllOf(u)
    BY <2>1, <2>2
  <2> DEFINE r == Push(u, a)
  <2>6. /\ Good(r) /\ r.runNext = u.runNext /\ r.state = u.state /\ r.tick = u.tick
        /\ r.carries = u.carries
        /\ AllOf(r) = IF Full(u) THEN AllOf(u) ELSE AllOf(u) \union {a}
        /\ Quick(r) \subseteq Quick(u) \union {a}
    BY <2>1, <2>2, <2>5, Pushed
  <2> HIDE DEF r
  <2>7. Quick(u) \subseteq Quick(q) \union {c} /\ a \in Quick(q)
    BY <1>2, <2>2 DEF Quick, a
  <2>8. AllOf(r) = (AllOf(q) \ (IF Full(q) THEN {a} ELSE {})) \union {c}
    BY <2>1, <2>2, <2>4, <2>6
  <2> QED BY <1>2, <2>2, <2>3, <2>6, <2>7, <2>8 DEF a, r
<1> QED BY <1>1, <1>2

LEMMA ReadyOwnerStep ==
  ASSUME IInv, NEW c \in Coroutines, NEW t \in Processors, ReadyOwner(c, t)
  PROVE  Core'
<1> DEFINE q == procs[t]
           r == PushRunNext(q, c)
           g == IF q.runNext # None /\ Full(q) THEN {q.runNext} ELSE {}
<1>1. Core
  BY DEF IInv
<1>2. /\ life' \in [Coroutines -> {"Runnable", "Running", "Waiting"}]
      /\ Runnables' = Runnables \union {c} /\ c \notin Runnables
  <2>1. life' = [life EXCEPT ![c] = "Runnable"] /\ life[c] = "Waiting"
    BY DEF ReadyOwner
  <2>2. c \notin Runnables
    BY <2>1 DEF Runnables
  <2>3. /\ life' \in [Coroutines -> {"Runnable", "Running", "Waiting"}]
        /\ Runnables' = Runnables \union {c}
    BY <1>1, <2>1, RunnablesAre DEF Core
  <2> QED BY <2>2, <2>3
<1>3. /\ held \intersect lost = {} /\ lost \intersect batch = {} /\ batch \subseteq Runnables
      /\ held \union lost \subseteq Runnables
      /\ AllOf(q) \subseteq Runnables /\ AllOf(q) \intersect (held \union lost) = {}
      /\ Quick(q) \intersect batch = {} /\ None \notin AllOf(q)
      /\ Good(q) /\ Quick(q) \subseteq AllOf(q)
  BY <1>1, PlacesAre, ProcessorsAre, Parts
<1>4. /\ procs' = [procs EXCEPT ![t] = r] /\ lost' = lost \union g
      /\ UNCHANGED <<batch, parallelism, staging, workSeq, idle, look, held>>
  BY DEF ReadyOwner, registry
<1> HIDE DEF q
<1>5. /\ Good(r) /\ r.state = q.state /\ r.carries = q.carries
      /\ AllOf(r) = (AllOf(q) \ g) \union {c} /\ g \subseteq Quick(q)
      /\ Quick(r) \subseteq Quick(q) \union {c}
  BY <1>2, <1>3, RunNextPushed
<1> HIDE DEF r, g
<1>6. AllOf(r) \union held' \union lost'
        = AllOf(q) \union held \union lost \union (Runnables' \ Runnables)
  BY <1>2, <1>3, <1>4, <1>5
<1>7. AllOf(r) \intersect (held' \union lost') = {} /\ held' \intersect lost' = {}
  BY <1>2, <1>3, <1>4, <1>5
<1>8. Quick(r) \intersect batch = {} /\ lost' \intersect batch = {}
  BY <1>2, <1>3, <1>4, <1>5
<1>9. Exchange(t, r)
  BY <1>2, <1>4, <1>5, <1>6, <1>7, <1>8 DEF Exchange, q
<1> QED BY <1>1, <1>5, <1>9, ExchangeKeepsCore DEF q

LEMMA YieldStep ==
  ASSUME IInv, NEW c \in Coroutines, NEW p \in Processors, Yield(c, p)
  PROVE  Core'
<1> DEFINE q == procs[p]
           r == Push(q, c)
           g == IF Full(q) THEN {c} ELSE {}
<1>1. Core
  BY DEF IInv
<1>2. /\ life' \in [Coroutines -> {"Runnable", "Running", "Waiting"}]
      /\ Runnables' = Runnables \union {c} /\ c \notin Runnables
  <2>1. life' = [life EXCEPT ![c] = "Runnable"] /\ life[c] = "Running"
    BY DEF Yield
  <2>2. c \notin Runnables
    BY <2>1 DEF Runnables
  <2>3. /\ life' \in [Coroutines -> {"Runnable", "Running", "Waiting"}]
        /\ Runnables' = Runnables \union {c}
    BY <1>1, <2>1, RunnablesAre DEF Core
  <2> QED BY <2>2, <2>3
<1>3. /\ held \intersect lost = {} /\ lost \intersect batch = {} /\ batch \subseteq Runnables
      /\ held \union lost \subseteq Runnables
      /\ AllOf(q) \subseteq Runnables /\ AllOf(q) \intersect (held \union lost) = {}
      /\ Quick(q) \intersect batch = {}
      /\ Good(q) /\ Quick(q) \subseteq AllOf(q)
  BY <1>1, PlacesAre, ProcessorsAre, Parts
<1>4. /\ procs' = [procs EXCEPT ![p] = r] /\ lost' = lost \union g
      /\ UNCHANGED <<batch, parallelism, staging, workSeq, idle, look, held>>
  BY DEF Yield, registry
<1> HIDE DEF q
<1>5. /\ Good(r) /\ r.state = q.state /\ r.carries = q.carries
      /\ AllOf(r) = (IF Full(q) THEN AllOf(q) ELSE AllOf(q) \union {c})
      /\ Quick(r) \subseteq Quick(q) \union {c}
  BY <1>2, <1>3, Pushed
<1> HIDE DEF r
<1>6. AllOf(r) \union held' \union lost'
        = AllOf(q) \union held \union lost \union (Runnables' \ Runnables)
  BY <1>2, <1>3, <1>4, <1>5
<1>7. AllOf(r) \intersect (held' \union lost') = {} /\ held' \intersect lost' = {}
  BY <1>2, <1>3, <1>4, <1>5
<1>8. Quick(r) \intersect batch = {} /\ lost' \intersect batch = {}
  BY <1>2, <1>3, <1>4, <1>5
<1>9. Exchange(p, r)
  BY <1>2, <1>4, <1>5, <1>6, <1>7, <1>8 DEF Exchange, q
<1> QED BY <1>1, <1>5, <1>9, ExchangeKeepsCore DEF q

LEMMA RetireStep ==
  ASSUME Core, NEW p \in Processors, Retire(p)
  PROVE  Core'
<1> DEFINE q == procs[p]
           r == [Drained(q) EXCEPT !.state = "Idle"]
<1>1. q \in ProcessorType
  BY ProcessorsAre
<1>2. r \in ProcessorType /\ Bare(r) /\ r.state = "Idle"
  BY <1>1, DrainedIsBare
<1>3. /\ procs' = [procs EXCEPT ![p] = r] /\ held' = held \union AllOf(q)
      /\ UNCHANGED <<life, batch, parallelism, staging, workSeq, idle, look, lost>>
  BY DEF Retire, registry
<1> HIDE DEF q, r
<1>4. Good(r) /\ AllOf(r) = {} /\ Quick(r) = {}
  BY <1>2, BareIsGood
<1>5. /\ held \intersect lost = {} /\ lost \intersect batch = {}
      /\ AllOf(q) \intersect (held \union lost) = {}
  BY PlacesAre DEF q
<1>6. Runnables' = Runnables
  BY <1>3 DEF Runnables
<1>7. \A s \in ShardSet : ~Announced(r.carries[s], batch)
  BY <1>2 DEF Bare, Announced
<1>8. AllOf(r) \union held' \union lost'
        = AllOf(q) \union held \union lost \union (Runnables' \ Runnables)
  BY <1>3, <1>4, <1>6
<1>9. Exchange(p, r)
  BY <1>3, <1>4, <1>5, <1>6, <1>7, <1>8 DEF Exchange, Core, q
<1> QED BY <1>2, <1>4, <1>9, ExchangeKeepsCore

LEMMA HitsChanged ==
  ASSUME NEW q, Good(q)
  PROVE  LET r == [q EXCEPT !.hits = 0]
         IN  /\ Good(r) /\ r.state = q.state /\ r.carries = q.carries
             /\ AllOf(r) = AllOf(q) /\ Quick(r) = Quick(q)
<1> DEFINE r == [q EXCEPT !.hits = 0]
<1>1. /\ r \in ProcessorType /\ r.state = q.state /\ r.runNext = q.runNext
      /\ r.local = q.local /\ r.carries = q.carries /\ r.inj = q.inj
  BY DEF ProcessorType, Good
<1> HIDE DEF r
<1>2. Good(r) /\ AllOf(r) = AllOf(q) /\ Quick(r) = Quick(q)
  BY <1>1 DEF Good, Neat, AllOf, Quick
<1> QED BY <1>1, <1>2 DEF r

(* The oldest handles of a full deque, for a carry that they may head:     *)
(* they were never published.                                              *)
LEMMA OverflowStep ==
  ASSUME Core, NEW p \in Processors, NEW t \in Processors, Overflow(p, t)
  PROVE  Core'
<1> DEFINE q    == procs[p]
           n    == SmallerOf(Len(q.local), BatchMax)
           part == SubSeq(q.local, 1, n)
           rest == SubSeq(q.local, n + 1, Len(q.local))
           k1   == [q EXCEPT !.local = rest]
           kept == [k1 EXCEPT !.hits = 0]
<1>1. q \in ProcessorType /\ Good(q)
  BY ProcessorsAre
<1>2. /\ q.local \in HandleSeq /\ IsInjective(q.local)
      /\ Len(q.local) <= LocalCapacity /\ Len(q.local) \in Nat
  BY <1>1, HandlesAre DEF Good, Neat, ProcessorType
<1>3. n \in 0 .. Len(q.local)
  <2>1. PICK m \in Nat : m = Len(q.local)
    BY <1>2
  <2>2. PICK b \in Nat : b = BatchMax
    BY SchedulerAssumption
  <2> QED BY <2>1, <2>2 DEF SmallerOf
<1>4. /\ StepFrame /\ lost' = lost /\ held' = held
      /\ LET base == [procs EXCEPT ![p] = [q EXCEPT !.local = rest, !.hits = 0]]
         IN  procs' = IF t = p THEN [base EXCEPT ![p].inj = @ \o part]
                      ELSE [base EXCEPT ![t].carries[base[t].cursor] = @ \o part]
  BY DEF Overflow, StepFrame
<1> HIDE DEF n
<1>5. /\ part \in HandleSeq /\ rest \in HandleSeq
      /\ Len(rest) = Len(q.local) - n
      /\ IsInjective(part) /\ IsInjective(rest)
      /\ Handles(part) \union Handles(rest) = Handles(q.local)
      /\ Handles(part) \intersect Handles(rest) = {}
  BY <1>2, <1>3, Split
<1>6. Len(rest) <= LocalCapacity
  <2>1. PICK m \in Nat : m = Len(q.local)
    BY <1>2
  <2>2. PICK b \in Nat : b = LocalCapacity
    BY SchedulerAssumption
  <2>3. n \in 0 .. m /\ m <= b
    BY <1>2, <1>3, <2>1, <2>2
  <2>4. m - n <= b
    BY <2>3
  <2> QED BY <1>5, <2>1, <2>2, <2>4
<1> HIDE DEF part, rest, q
<1>7. /\ Handles(part) \in SUBSET Quick(q) /\ Handles(q.local) \subseteq AllOf(q)
      /\ Quick(q) \subseteq AllOf(q)
  BY <1>1, <1>5, Parts DEF Quick
<1>8. Handles(rest) \intersect (AllOf(q) \ Handles(q.local)) = {}
  BY <1>5
<1>9. /\ Good(k1) /\ k1.state = q.state /\ k1.carries = q.carries
      /\ k1.local = rest /\ k1.runNext = q.runNext
      /\ AllOf(k1) = (AllOf(q) \ Handles(q.local)) \union Handles(rest)
  BY <1>1, <1>5, <1>6, <1>8, LocalChanged
<1>10. kept = [q EXCEPT !.local = rest, !.hits = 0]
  BY <1>1 DEF ProcessorType
<1> HIDE DEF k1
<1>11. /\ Good(kept) /\ kept.state = k1.state /\ kept.carries = k1.carries
       /\ AllOf(kept) = AllOf(k1) /\ Quick(kept) = Quick(k1)
  BY <1>9, HitsChanged
<1> HIDE DEF kept
<1>12. AllOf(kept) = AllOf(q) \ Handles(part) /\ Quick(kept) \subseteq Quick(q)
  BY <1>5, <1>7, <1>9, <1>11 DEF Quick
<1>13. PICK u : Lent(u, p, kept, Handles(part))
  BY <1>7, <1>9, <1>11, <1>12, LendingIsSound DEF q
<1>14. u.procs = [procs EXCEPT ![p] = kept] /\ u.held = held \union Handles(part)
       /\ Sound(u) /\ ProcsOK(u.procs) /\ u.batch = batch /\ u.lost = lost
       /\ Len(u.procs) = Len(procs)
  BY <1>13 DEF Lent, Sound
<1> DEFINE z == u.procs[t]
<1>15. Good(z) /\ z \in ProcessorType
  BY <1>14, ProcessorsAre, ProcsAre
<1>16. /\ AllOf(z) \intersect (held \union Handles(part) \union lost) = {}
       /\ Quick(z) \intersect batch = {} /\ lost \intersect batch = {}
       /\ held \intersect lost = {} /\ Handles(part) \intersect lost = {}
       /\ Handles(part) \intersect batch = {} /\ Handles(part) \intersect held = {}
  <2>1. Placed(u.procs, u.staging, u.held, u.lost, u.run) /\ Batches(u.procs, u.batch, u.lost, u.run)
    BY <1>14 DEF Sound
  <2>2. t \in DOMAIN u.procs
    BY <1>14, ProcessorsAre, ProcsAre
  <2>3. /\ AllOf(z) \intersect (u.held \union u.lost) = {} /\ u.held \intersect u.lost = {}
    BY <2>1, <2>2 DEF Placed, Apart
  <2>4. Quick(z) \intersect batch = {} /\ lost \intersect batch = {}
    BY <1>14, <2>1, <2>2 DEF Batches
  <2>5. Handles(part) \intersect batch = {} /\ Handles(part) \intersect held = {}
    BY <1>7, PlacesAre DEF q
  <2> QED BY <1>14, <2>3, <2>4, <2>5
<1>17. \E y : /\ procs' = [u.procs EXCEPT ![t] = y] /\ Good(y) /\ y.state = z.state
              /\ AllOf(y) = AllOf(z) \union Handles(part) /\ Quick(y) = Quick(z)
              /\ \A s \in ShardSet : Announced(y.carries[s], batch) => Announced(z.carries[s], batch)
  <2> HIDE DEF z
  <2>1. CASE t = p
    <3> DEFINE k == z.inj \o part
               y == [z EXCEPT !.inj = k]
    <3>1. z.inj \in HandleSeq /\ IsInjective(z.inj) /\ Handles(z.inj) \subseteq AllOf(z)
      BY <1>15, Parts DEF Good, Neat, ProcessorType
    <3>2. /\ k \in HandleSeq /\ IsInjective(k)
          /\ Handles(k) = Handles(z.inj) \union Handles(part)
      BY <1>5, <1>16, <3>1, Joined
    <3>3. procs' = [u.procs EXCEPT ![t] = y]
      BY <1>4, <1>10, <1>14, <2>1 DEF z
    <3> HIDE DEF k
    <3>4. Handles(k) \intersect (AllOf(z) \ Handles(z.inj)) = {}
      BY <1>16, <3>2
    <3>5. /\ Good(y) /\ y.state = z.state /\ y.carries = z.carries
          /\ AllOf(y) = (AllOf(z) \ Handles(z.inj)) \union Handles(k)
          /\ Quick(y) = Quick(z)
      BY <1>15, <3>2, <3>4, InjChanged
    <3> HIDE DEF y
    <3>6. AllOf(y) = AllOf(z) \union Handles(part)
      BY <3>1, <3>2, <3>5
    <3> QED BY <3>3, <3>5, <3>6
  <2>2. CASE t # p
    <3> DEFINE s == z.cursor
               k == z.carries[s] \o part
               y == [z EXCEPT !.carries[s] = k]
    <3>1. s \in ShardSet /\ \A c : c \in Handles(z.carries[s]) => c \in AllOf(z)
      BY <1>15, Parts DEF ProcessorType
    <3>2. z.carries[s] \in HandleSeq /\ IsInjective(z.carries[s])
      BY <1>15, <3>1 DEF Good, Neat, ProcessorType
    <3>3. procs' = [u.procs EXCEPT ![t] = y]
      BY <1>4, <1>10, <1>14, <2>2 DEF z
    <3>4. /\ k \in HandleSeq /\ IsInjective(k)
          /\ Handles(k) = Handles(z.carries[s]) \union Handles(part)
          /\ z.carries[s] # <<>> => Head(k) = Head(z.carries[s])
          /\ z.carries[s] = <<>> => k = part
      BY <1>5, <1>16, <3>1, <3>2, Joined
    <3> HIDE DEF k, s
    <3>5. Announced(k, batch) => Announced(z.carries[s], batch)
      <4>1. ASSUME k = part, k # <<>> PROVE Head(k) \notin batch
        <5>1. Len(part) \in Nat \ {0}
          BY <4>1, <1>5, EmptySeq DEF HandleSeq
        <5>2. 1 \in 1 .. Len(part) /\ Head(part) = part[1]
          BY <5>1
        <5>3. Head(part) \in Handles(part)
          BY <1>5, <5>2, HandlesAre
        <5> QED BY <1>16, <4>1, <5>3
      <4> QED BY <3>4, <4>1 DEF Announced
    <3>6. Handles(k) \intersect (AllOf(z) \ Handles(z.carries[s])) = {}
      BY <1>16, <3>4
    <3>7. y \in ProcessorType /\ CarryOnly(z, y, s) /\ y.carries[s] = k
      BY <1>15, <3>1, <3>4 DEF ProcessorType, CarryOnly
    <3> HIDE DEF y
    <3>8. /\ Good(y) /\ Quick(y) = Quick(z)
          /\ AllOf(y) = (AllOf(z) \ Handles(z.carries[s])) \union Handles(k)
      BY <1>15, <3>1, <3>4, <3>6, <3>7, CarryChanged
    <3>9. AllOf(y) = AllOf(z) \union Handles(part)
      BY <3>1, <3>4, <3>8
    <3>10. \A n1 \in ShardSet : Announced(y.carries[n1], batch) => Announced(z.carries[n1], batch)
      BY <3>5, <3>7 DEF CarryOnly
    <3>11. y.state = z.state
      BY <3>7 DEF CarryOnly
    <3> QED BY <3>3, <3>8, <3>9, <3>10, <3>11
  <2> QED BY <2>1, <2>2
<1>18. PICK y : /\ procs' = [u.procs EXCEPT ![t] = y] /\ Good(y) /\ y.state = z.state
                /\ AllOf(y) = AllOf(z) \union Handles(part) /\ Quick(y) = Quick(z)
                /\ \A s \in ShardSet : Announced(y.carries[s], batch) => Announced(z.carries[s], batch)
  BY <1>17
<1>19. /\ AllOf(y) \union held' \union lost' = AllOf(z) \union u.held \union lost
       /\ AllOf(y) \intersect (held' \union lost') = {} /\ held' \intersect lost' = {}
       /\ Quick(y) \intersect batch = {} /\ lost' \intersect batch = {}
  <2> HIDE DEF z
  <2> QED BY <1>4, <1>14, <1>16, <1>18
<1>20. Good(y) /\ y.state = u.procs[t].state /\ procs' = [u.procs EXCEPT ![t] = y] /\ StepFrame
       /\ \A s \in ShardSet : Announced(y.carries[s], batch) => Announced(u.procs[t].carries[s], batch)
  BY <1>4, <1>18
<1> QED BY <1>13, <1>19, <1>20, TakingKeepsCore

-----------------------------------------------------------------------------
(* The steps of the specification: the topology                            *)

LEMMA GrowStep ==
  ASSUME Core, NEW n \in 1 .. MaxProcessors, Grow(n)
  PROVE  Core'
<1> DEFINE k == n - parallelism
           new == [i \in 1 .. k |-> NewProcessor]
           pd == procs \o new
<1>1. /\ ProcsOK(procs) /\ Len(procs) \in Nat /\ DOMAIN procs = 1 .. Len(procs)
      /\ Sound(Now) /\ MaxProcessors \in Nat
  BY ProcessorsAre, SchedulerAssumption DEF Core
<1>2. k \in Nat \ {0} /\ Len(procs) + k <= MaxProcessors /\ n = parallelism + k
      /\ parallelism \in Nat
  BY <1>1 DEF Grow, Core
<1>3. /\ procs' = pd /\ parallelism' = n
      /\ UNCHANGED <<life, batch, staging, workSeq, idle, look, held, lost>>
  BY DEF Grow, registry
<1>4. /\ NewProcessor \in ProcessorType /\ Good(NewProcessor) /\ AllOf(NewProcessor) = {}
      /\ Quick(NewProcessor) = {} /\ NewProcessor.state = "Idle"
  BY NewIsBare, BareIsGood
<1> HIDE DEF k
<1>5. new \in Seq(ProcessorType) /\ Len(new) = k /\ \A i \in 1 .. k : new[i] = NewProcessor
  <2>1. \A i \in 1 .. k : new[i] \in ProcessorType
    BY <1>4
  <2>2. new \in Seq(ProcessorType)
    BY <1>2, <1>4, IsASeq
  <2> QED BY <1>2, <2>2
<1> HIDE DEF new
<1>6. /\ pd \in Seq(ProcessorType) /\ Len(pd) = Len(procs) + k
      /\ \A i \in 1 .. Len(procs) + k : pd[i] = IF i <= Len(procs) THEN procs[i] ELSE new[i - Len(procs)]
  <2>1. procs \in Seq(ProcessorType)
    BY <1>1 DEF ProcsOK
  <2> QED BY <1>5, <2>1, ConcatProperties
<1> HIDE DEF pd
<1>7. DOMAIN pd = 1 .. Len(procs) + k
  BY <1>6, LenProperties
<1>8. ASSUME NEW i \in DOMAIN pd
      PROVE  IF i \in DOMAIN procs THEN pd[i] = procs[i] ELSE pd[i] = NewProcessor
  <2>1. CASE i <= Len(procs)
    BY <2>1, <1>1, <1>2, <1>6, <1>7
  <2>2. CASE ~(i <= Len(procs))
    <3>1. i - Len(procs) \in 1 .. k
      BY <2>2, <1>1, <1>2, <1>7
    <3> QED BY <2>2, <3>1, <1>1, <1>5, <1>6, <1>7
  <2> QED BY <2>1, <2>2
<1>9. DOMAIN procs \subseteq DOMAIN pd /\ Len(procs) <= Len(pd) /\ Len(pd) \in Nat
  BY <1>1, <1>2, <1>6, <1>7
<1>10. ProcsOK(pd)
  BY <1>1, <1>4, <1>6, <1>8 DEF ProcsOK
<1>11. Runnables' = Runnables
  BY <1>3 DEF Runnables
<1>12. Sound(Now')
  <2>1. /\ StagingOK(staging, Len(procs)) /\ SleepersOK(idle, Len(procs)) /\ LookOK(look, Len(procs))
        /\ Placed(procs, staging, held, lost, Runnables) /\ Batches(procs, batch, lost, Runnables)
        /\ Watched(procs, batch, workSeq, idle, look) /\ workSeq \in 0 .. SeqLimit
    BY <1>1, NowIs DEF Sound
  <2>2. 1 .. Len(procs) \subseteq 1 .. Len(pd)
    BY <1>1, <1>9
  <2>3. StagingOK(staging, Len(pd)) /\ SleepersOK(idle, Len(pd)) /\ LookOK(look, Len(pd))
    <3>1. StagingOK(staging, Len(pd))
      BY <2>1, <2>2 DEF StagingOK
    <3>2. SleepersOK(idle, Len(pd))
      BY <2>1, <2>2 DEF SleepersOK
    <3>3. LookOK(look, Len(pd))
      BY <2>1, <2>2 DEF LookOK
    <3> QED BY <3>1, <3>2, <3>3
  <2>4. \A i \in DOMAIN pd : IF i \in DOMAIN procs THEN AllOf(pd[i]) = AllOf(procs[i]) ELSE AllOf(pd[i]) = {}
    BY <1>4, <1>8
  <2>5. Placed(pd, staging, held, lost, Runnables)
    <3>1. Apart(pd, staging, held, lost)
      BY <2>1, <2>4 DEF Placed, Apart
    <3>2. ASSUME NEW c PROVE c \in Runnables <=> Somewhere(c, pd, staging, held, lost)
      BY <2>1, <2>4, <1>9 DEF Placed, Somewhere
    <3> QED BY <3>1, <3>2 DEF Placed
  <2>6. Batches(pd, batch, lost, Runnables)
    BY <2>1, <1>4, <1>8 DEF Batches
  <2>7. Watched(pd, batch, workSeq, idle, look)
    <3>1. Calm(procs, batch, pd, batch)
      BY <1>8, <1>9 DEF Calm
    <3> QED BY <3>1, <2>1, <1>1, CalmWatch
  <2> QED BY <1>3, <1>10, <1>11, <2>1, <2>3, <2>5, <2>6, <2>7, NowIs DEF Sound
<1>13. Cardinality(ActiveIn(pd)) >= n
  <2> DEFINE A == ActiveIn(procs)
             B == Len(procs) + 1 .. Len(procs) + k
  <2>1. A \subseteq DOMAIN procs /\ IsFiniteSet(A)
    BY <1>1, ProcsAre
  <2>2. IsFiniteSet(B) /\ Cardinality(B) = k
    <3>1. PICK m \in Nat : m = Len(procs)
      BY <1>1
    <3>2. PICK x \in Int, y \in Int : x = m + 1 /\ y = m + k
      BY <1>2
    <3>3. IsFiniteSet(x .. y) /\ Cardinality(x .. y) = IF x > y THEN 0 ELSE y - x + 1
      BY FS_Interval
    <3>4. (IF x > y THEN 0 ELSE y - x + 1) = k
      BY <1>2, <3>2
    <3>5. B = x .. y
      BY <3>1, <3>2
    <3> QED BY <3>3, <3>4, <3>5
  <2>3. A \intersect B = {}
    BY <1>1, <2>1
  <2>4. ActiveIn(pd) = A \union B
    <3>1. \A i \in B : i \in DOMAIN pd /\ i \notin DOMAIN procs
      BY <1>1, <1>2, <1>7
    <3>2. \A i \in DOMAIN pd : i \in DOMAIN procs \/ i \in B
      BY <1>1, <1>2, <1>7
    <3>3. \A i \in DOMAIN procs : i \in DOMAIN pd /\ pd[i] = procs[i]
      BY <1>8, <1>9
    <3>4. \A i \in B : pd[i].state # "Retiring"
      BY <1>4, <1>8, <3>1
    <3> HIDE DEF B
    <3> QED BY <3>1, <3>2, <3>3, <3>4 DEF ActiveIn
  <2> HIDE DEF A, B
  <2>5. Cardinality(A \union B) = Cardinality(A) + Cardinality(B) - Cardinality(A \intersect B)
    BY <2>1, <2>2, FS_Union
  <2>6. Cardinality({}) = 0 /\ Cardinality(A) \in Nat /\ Cardinality(A) >= parallelism
    BY <2>1, FS_EmptySet, FS_CardinalityType DEF A, Core
  <2>7. Cardinality(ActiveIn(pd)) = Cardinality(A) + k - 0
    BY <2>2, <2>3, <2>4, <2>5, <2>6
  <2>8. PICK a \in Nat : a = Cardinality(A)
    BY <2>6
  <2>9. a + k - 0 >= n
    BY <1>2, <2>6, <2>8
  <2> QED BY <2>7, <2>8, <2>9
<1>14. Len(pd) <= MaxProcessors
  BY <1>2, <1>6
<1> QED BY <1>3, <1>12, <1>13, <1>14 DEF Core

(* The last ones of a finite set of numbers.                               *)
LEMMA LastOnes ==
  ASSUME NEW A, A \in SUBSET Nat, IsFiniteSet(A), NEW k \in Nat
  PROVE  LET L == {p \in A : Cardinality({a \in A : a > p}) < k}
         IN  IsFiniteSet(L) /\ Cardinality(L) <= k
<1> DEFINE L == {p \in A : Cardinality({a \in A : a > p}) < k}
<1>1. L \subseteq A /\ IsFiniteSet(L)
  BY FS_Subset
<1>2. CASE L = {}
  <2> HIDE DEF L
  <2>1. Cardinality(L) = 0
    BY <1>2, FS_EmptySet
  <2> QED BY <1>1, <2>1 DEF L
<1>3. CASE L # {}
  <2>1. L \in SUBSET Nat
    BY <1>1
  <2>2. PICK m \in L : \A x \in L : m <= x
    BY <1>3, <2>1, Least
  <2> DEFINE U == {a \in A : a > m}
  <2>3. Cardinality(U) < k /\ m \in A
    OBVIOUS
  <2>4. IsFiniteSet(U) /\ Cardinality(U) \in Nat
    BY FS_Subset, FS_CardinalityType
  <2> HIDE DEF L
  <2>5. L \ {m} \subseteq U
    BY <1>1, <2>1, <2>2
  <2>6. IsFiniteSet(L \ {m}) /\ Cardinality(L \ {m}) = Cardinality(L) - 1 /\ Cardinality(L) \in Nat
    BY <1>1, <2>2, FS_RemoveElement, FS_CardinalityType
  <2>7. Cardinality(L \ {m}) <= Cardinality(U)
    BY <2>4, <2>5, FS_Subset
  <2>8. PICK x \in Nat : x = Cardinality(L)
    BY <2>6
  <2>9. PICK y \in Nat : y = Cardinality(U)
    BY <2>4
  <2>10. x - 1 <= y /\ y < k
    BY <2>3, <2>6, <2>7, <2>8, <2>9
  <2>11. x <= k
    BY <2>10
  <2>12. Cardinality(L) <= k
    BY <2>8, <2>11
  <2> QED BY <1>1, <2>12 DEF L
<1> QED BY <1>2, <1>3

LEMMA ShrinkStep ==
  ASSUME Core, NEW n \in 1 .. MaxProcessors, Shrink(n)
  PROVE  Core'
<1> DEFINE leaving == {p \in Active : Cardinality({a \in Active : a > p}) < parallelism - n}
           pd == [p \in Processors |->
                    IF p \in leaving THEN [procs[p] EXCEPT !.state = "Retiring"] ELSE procs[p]]
<1>1. /\ ProcsOK(procs) /\ Len(procs) \in Nat /\ DOMAIN procs = 1 .. Len(procs)
      /\ Processors = 1 .. Len(procs) /\ Sound(Now) /\ MaxProcessors \in Nat
      /\ \A p \in Processors : Good(procs[p])
  BY ProcessorsAre, SchedulerAssumption DEF Core
<1>2. /\ procs' = pd /\ parallelism' = n /\ n \in 1 .. parallelism - 1 /\ parallelism \in Nat
      /\ UNCHANGED <<life, batch, staging, workSeq, idle, look, held, lost>>
  BY <1>1 DEF Shrink, registry, Core
<1>3. \A p \in Processors :
        /\ Good(pd[p]) /\ AllOf(pd[p]) = AllOf(procs[p]) /\ Quick(pd[p]) = Quick(procs[p])
        /\ pd[p].carries = procs[p].carries
        /\ pd[p].state = IF p \in leaving THEN "Retiring" ELSE procs[p].state
  <2>1. TAKE p \in Processors
  <2>2. CASE p \in leaving
    <3>1. pd[p] = [procs[p] EXCEPT !.state = "Retiring"]
      BY <2>2
    <3> DEFINE r == [procs[p] EXCEPT !.state = "Retiring"]
    <3>2. /\ Good(r) /\ r.state = "Retiring" /\ r.carries = procs[p].carries
          /\ AllOf(r) = AllOf(procs[p]) /\ Quick(r) = Quick(procs[p])
      BY <1>1, StateChanged
    <3> QED BY <2>2, <3>1, <3>2
  <2>3. CASE p \notin leaving
    BY <1>1, <2>3
  <2> QED BY <2>2, <2>3
<1>4. DOMAIN pd = 1 .. Len(procs)
  BY <1>1
<1>5. pd = [p \in 1 .. Len(procs) |-> pd[p]]
  BY <1>1
<1> HIDE DEF pd, leaving
<1>6. pd \in Seq(ProcessorType) /\ Len(pd) = Len(procs)
  <2>1. pd \in [1 .. Len(procs) -> ProcessorType]
    BY <1>1, <1>3, <1>5 DEF Good
  <2> QED BY <1>1, <2>1, SeqDef, LenProperties
<1>7. ProcsOK(pd)
  BY <1>1, <1>3, <1>4, <1>6 DEF ProcsOK
<1>8. Runnables' = Runnables
  BY <1>2 DEF Runnables
<1>9. Sound(Now')
  <2>1. /\ StagingOK(staging, Len(procs)) /\ SleepersOK(idle, Len(procs)) /\ LookOK(look, Len(procs))
        /\ Placed(procs, staging, held, lost, Runnables) /\ Batches(procs, batch, lost, Runnables)
        /\ Watched(procs, batch, workSeq, idle, look) /\ workSeq \in 0 .. SeqLimit
    BY <1>1, NowIs DEF Sound
  <2>2. Placed(pd, staging, held, lost, Runnables)
    <3>1. Apart(pd, staging, held, lost)
      BY <2>1, <1>1, <1>3, <1>4 DEF Placed, Apart
    <3>2. ASSUME NEW c PROVE c \in Runnables <=> Somewhere(c, pd, staging, held, lost)
      BY <2>1, <1>1, <1>3, <1>4 DEF Placed, Somewhere
    <3> QED BY <3>1, <3>2 DEF Placed
  <2>3. Batches(pd, batch, lost, Runnables)
    BY <2>1, <1>1, <1>3, <1>4 DEF Batches
  <2>4. Watched(pd, batch, workSeq, idle, look)
    <3>1. Calm(procs, batch, pd, batch)
      BY <1>1, <1>3 DEF Calm
    <3> QED BY <3>1, <2>1, <1>1, CalmWatch
  <2> QED BY <1>2, <1>6, <1>7, <1>8, <2>1, <2>2, <2>3, <2>4, NowIs DEF Sound
<1>10. Cardinality(ActiveIn(pd)) >= n
  <2>1. /\ IsFiniteSet(Active) /\ Active \in SUBSET Nat
        /\ Cardinality(Active) \in Nat /\ Cardinality(Active) >= parallelism
    BY <1>1, ProcsAre, ActiveIs, FS_CardinalityType DEF Core
  <2>2. PICK k \in Nat : k = parallelism - n
    BY <1>2
  <2>3. leaving = {p \in Active : Cardinality({a \in Active : a > p}) < k}
    BY <2>2 DEF leaving
  <2>4. IsFiniteSet(leaving) /\ Cardinality(leaving) <= k /\ leaving \subseteq Active
    BY <2>1, <2>3, LastOnes
  <2>5. ActiveIn(pd) = Active \ leaving
    BY <1>1, <1>3, <1>4, ActiveIs DEF ActiveIn
  <2>6. Cardinality(Active \ leaving) = Cardinality(Active) - Cardinality(Active \intersect leaving)
    BY <2>1, FS_Difference
  <2>7. Active \intersect leaving = leaving /\ Cardinality(leaving) \in Nat
    BY <2>4, FS_CardinalityType
  <2>8. PICK a \in Nat : a = Cardinality(Active)
    BY <2>1
  <2>9. PICK b \in Nat : b = Cardinality(leaving)
    BY <2>7
  <2>10. a >= parallelism /\ b <= k
    BY <2>1, <2>4, <2>8, <2>9
  <2>11. a - b >= n
    BY <1>2, <2>2, <2>10
  <2> QED BY <2>5, <2>6, <2>7, <2>8, <2>9, <2>11
<1> QED BY <1>1, <1>2, <1>6, <1>9, <1>10 DEF Core

-----------------------------------------------------------------------------
(* The steps of the specification: parking                                 *)

(* Only the registry changes.                                              *)
Registers ==
  UNCHANGED <<life, batch, procs, parallelism, staging, workSeq, held, lost>>

LEMMA RegistryKeepsCore ==
  ASSUME Core, Registers, SleepersOK(idle', Len(procs)), LookOK(look', Len(procs)),
         Watched(procs, batch, workSeq, idle', look')
  PROVE  Core'
<1>1. Runnables' = Runnables
  BY DEF Runnables, Registers
<1>2. Sound(Now')
  BY <1>1, NowIs DEF Sound, Registers, Core
<1> QED BY <1>2 DEF Core, Registers

LEMMA RegistryIs ==
  ASSUME Core
  PROVE  /\ SleepersOK(idle, Len(procs)) /\ LookOK(look, Len(procs))
         /\ Watched(procs, batch, workSeq, idle, look)
         /\ Len(idle) \in Nat /\ Len(idle) <= Cardinality(Workers)
         /\ Cardinality(Workers) \in Nat \ {0}
         /\ workSeq \in 0 .. SeqLimit /\ workSeq \in Nat /\ SeqLimit \in Nat
         /\ DOMAIN look = Workers
<1>1. /\ SleepersOK(idle, Len(procs)) /\ LookOK(look, Len(procs))
      /\ Watched(procs, batch, workSeq, idle, look) /\ workSeq \in 0 .. SeqLimit
  BY NowIs DEF Core, Sound
<1>2. Len(procs) \in Nat /\ SeqLimit \in Nat
  BY ProcessorsAre, SchedulerAssumption
<1>3. workSeq \in Nat /\ DOMAIN look = Workers
  BY <1>1, <1>2 DEF LookOK
<1> QED BY <1>1, <1>2, <1>3, SleepersFit

LookType == [at : {"awake", "snapshot", "empty"}, proc : Nat, seen : 0 .. SeqLimit]

LEMMA LookChanged ==
  ASSUME NEW lk, NEW n, LookOK(lk, n), NEW w \in Workers, NEW e \in LookType,
         e.at # "awake" => e.proc \in 1 .. n
  PROVE  LookOK([lk EXCEPT ![w] = e], n)
  BY DEF LookOK, LookType

LEMMA TakeSnapshotStep ==
  ASSUME Core, NEW w \in Workers, NEW p \in Processors, TakeSnapshot(w, p)
  PROVE  Core'
<1> DEFINE e == [at |-> "snapshot", proc |-> p, seen |-> workSeq]
<1>1. Registers /\ idle' = idle /\ look' = [look EXCEPT ![w] = e]
  BY DEF TakeSnapshot, Registers, queues
<1>2. p \in 1 .. Len(procs) /\ Len(procs) \in Nat
  BY ProcessorsAre
<1>3. e \in LookType /\ e.proc \in 1 .. Len(procs) /\ e.at = "snapshot" /\ e.seen = workSeq
  BY <1>2, RegistryIs DEF LookType
<1> HIDE DEF e
<1>4. LookOK(look', Len(procs))
  BY <1>1, <1>3, RegistryIs, LookChanged
<1>5. look'[w] = e /\ \A x \in Workers \ {w} : look'[x] = look[x]
  BY <1>1, RegistryIs
<1>6. Watched(procs, batch, workSeq, idle', look')
  BY <1>1, <1>3, <1>5, RegistryIs DEF Watched
<1> QED BY <1>1, <1>4, <1>6, RegistryIs, RegistryKeepsCore

LEMMA NotLookingIs == NotLooking \in LookType /\ NotLooking.at = "awake"
  BY SchedulerAssumption DEF NotLooking, LookType

LEMMA LookStep ==
  ASSUME Core, NEW w \in Workers, LookForWork(w)
  PROVE  Core'
<1> DEFINE e == IF HasWork(procs[look[w].proc]) THEN NotLooking ELSE [look[w] EXCEPT !.at = "empty"]
<1>1. Registers /\ idle' = idle /\ look' = [look EXCEPT ![w] = e] /\ look[w].at = "snapshot"
  BY RegistryIs DEF LookForWork, Registers, queues, Looking
<1>2. look[w] \in LookType /\ look[w].proc \in 1 .. Len(procs) /\ look[w].seen <= workSeq
  BY <1>1, RegistryIs DEF LookOK, LookType, Watched
<1>3. /\ e \in LookType /\ (e.at # "awake" => e.proc \in 1 .. Len(procs))
      /\ e.at # "awake" => e.seen <= workSeq
      /\ e.at = "empty" => Quiet(procs, batch, e.proc)
  <2>1. CASE HasWork(procs[look[w].proc])
    <3>1. e = NotLooking
      BY <2>1
    <3> QED BY <3>1, NotLookingIs
  <2>2. CASE ~HasWork(procs[look[w].proc])
    <3>1. e = [look[w] EXCEPT !.at = "empty"]
      BY <2>2
    <3>2. e \in LookType /\ e.proc = look[w].proc /\ e.seen = look[w].seen
      BY <1>2, <3>1 DEF LookType
    <3>3. Quiet(procs, batch, look[w].proc)
      BY <2>2 DEF HasWork, HasExternal, Quiet, Announced
    <3> HIDE DEF e
    <3> QED BY <1>2, <3>2, <3>3
  <2> QED BY <2>1, <2>2
<1> HIDE DEF e
<1>4. LookOK(look', Len(procs))
  BY <1>1, <1>3, RegistryIs, LookChanged
<1>5. look'[w] = e /\ \A x \in Workers \ {w} : look'[x] = look[x]
  BY <1>1, RegistryIs
<1>6. Watched(procs, batch, workSeq, idle', look')
  BY <1>1, <1>3, <1>5, RegistryIs DEF Watched
<1> QED BY <1>1, <1>4, <1>6, RegistryIs, RegistryKeepsCore

LEMMA ParkStep ==
  ASSUME Core, NEW w \in Workers, Park(w)
  PROVE  Core'
<1> DEFINE e == [worker |-> w, proc |-> look[w].proc, seen |-> look[w].seen]
<1>1. /\ Registers /\ look' = [look EXCEPT ![w] = NotLooking] /\ look[w].at = "empty"
      /\ idle' = IF workSeq = look[w].seen THEN Append(idle, e) ELSE idle
      /\ w \notin Parked
  BY DEF Park, Registers, queues, Looking
<1>2. /\ look[w] \in LookType /\ look[w].proc \in 1 .. Len(procs)
      /\ workSeq = look[w].seen => Quiet(procs, batch, look[w].proc)
  BY <1>1, RegistryIs DEF LookOK, LookType, Watched
<1>3. LookOK(look', Len(procs))
  BY <1>1, NotLookingIs, RegistryIs, LookChanged
<1>4. look'[w] = NotLooking /\ \A x \in Workers \ {w} : look'[x] = look[x]
  BY <1>1, RegistryIs
<1>5. CASE workSeq # look[w].seen
  <2>1. idle' = idle
    BY <1>1, <1>5
  <2>2. Watched(procs, batch, workSeq, idle', look')
    BY <2>1, <1>4, NotLookingIs, RegistryIs DEF Watched
  <2> QED BY <1>1, <1>3, <2>1, <2>2, RegistryIs, RegistryKeepsCore
<1>6. CASE workSeq = look[w].seen
  <2>1. e \in SleeperType /\ e.proc = look[w].proc /\ e.seen = look[w].seen /\ e.worker = w
    BY <1>2 DEF SleeperType, LookType
  <2> HIDE DEF e
  <2>2. idle' = Append(idle, e)
    BY <1>1, <1>6
  <2>3. idle \in Seq(SleeperType)
    BY RegistryIs DEF SleepersOK
  <2>4. PICK m \in Nat : m = Len(idle)
    BY RegistryIs
  <2>5. /\ idle' \in Seq(SleeperType) /\ Len(idle') = m + 1
        /\ \A i \in 1 .. m : idle'[i] = idle[i]
        /\ idle'[m + 1] = e
    BY <2>1, <2>2, <2>3, <2>4, AppendProperties
  <2>6. \A i \in 1 .. m : idle[i].worker # w
    <3>1. DOMAIN idle = 1 .. m
      BY <2>3, <2>4, LenProperties
    <3> QED BY <1>1, <3>1 DEF Parked
  <2>7. \A i \in 1 .. m + 1 : i \in 1 .. m \/ i = m + 1
    OBVIOUS
  <2>8. SleepersOK(idle', Len(procs))
    <3>1. \A i \in 1 .. m : idle[i].proc \in 1 .. Len(procs)
      BY <2>4, RegistryIs DEF SleepersOK
    <3>2. \A i, j \in 1 .. m : idle[i].worker = idle[j].worker => i = j
      BY <2>4, RegistryIs DEF SleepersOK
    <3>3. \A i \in 1 .. m + 1 : idle'[i].proc \in 1 .. Len(procs)
      BY <1>2, <2>1, <2>5, <2>7, <3>1
    <3>4. \A i, j \in 1 .. m + 1 : idle'[i].worker = idle'[j].worker => i = j
      BY <2>1, <2>5, <2>6, <2>7, <3>2
    <3> QED BY <2>5, <3>3, <3>4 DEF SleepersOK
  <2>9. Watched(procs, batch, workSeq, idle', look')
    <3>1. idle'[Len(idle')] = e
      BY <2>5
    <3>2. e.seen = workSeq /\ Quiet(procs, batch, e.proc)
      BY <1>2, <1>6, <2>1
    <3> QED BY <3>1, <3>2, <1>4, NotLookingIs, RegistryIs DEF Watched
  <2> QED BY <1>1, <1>3, <2>8, <2>9, RegistryKeepsCore
<1> QED BY <1>5, <1>6

LEMMA Removed ==
  ASSUME NEW sl \in Seq(SleeperType), NEW i \in 1 .. Len(sl)
  PROVE  LET sm == RemoveAt(sl, i)
         IN  /\ sm \in Seq(SleeperType) /\ Len(sm) = Len(sl) - 1
             /\ \A j \in 1 .. Len(sl) - 1 : sm[j] = IF j < i THEN sl[j] ELSE sl[j + 1]
<1> DEFINE a == SubSeq(sl, 1, i - 1)
           b == SubSeq(sl, i + 1, Len(sl))
<1>1. PICK m \in Nat : m = Len(sl)
  BY LenProperties
<1>2. \A j \in 1 .. m : sl[j] \in SleeperType
  BY <1>1, ElementOfSeq
<1>3. i \in 1 .. m
  BY <1>1
<1>4. PICK x \in Int, y \in Int, z \in Int : x = i - 1 /\ y = i + 1 /\ z = 1
  BY <1>3
<1>5. /\ a \in Seq(SleeperType) /\ Len(a) = i - 1
      /\ \A j \in 1 .. i - 1 : a[j] = sl[j]
  <2>1. \A j \in z .. x : sl[j] \in SleeperType
    BY <1>2, <1>3, <1>4
  <2>2. /\ SubSeq(sl, z, x) \in Seq(SleeperType)
        /\ Len(SubSeq(sl, z, x)) = IF z <= x THEN x - z + 1 ELSE 0
        /\ \A j \in 1 .. x - z + 1 : SubSeq(sl, z, x)[j] = sl[z + j - 1]
    BY <2>1, SubSeqProperties
  <2>3. a = SubSeq(sl, z, x)
    BY <1>4
  <2>4. (IF z <= x THEN x - z + 1 ELSE 0) = i - 1 /\ x - z + 1 = i - 1
    BY <1>3, <1>4
  <2>5. \A j \in 1 .. i - 1 : z + j - 1 = j
    BY <1>4
  <2> HIDE DEF a
  <2> QED BY <2>2, <2>3, <2>4, <2>5
<1>6. /\ b \in Seq(SleeperType) /\ Len(b) = m - i
      /\ \A j \in 1 .. m - i : b[j] = sl[i + j]
  <2>1. \A j \in y .. m : sl[j] \in SleeperType
    BY <1>2, <1>3, <1>4
  <2>2. /\ SubSeq(sl, y, m) \in Seq(SleeperType)
        /\ Len(SubSeq(sl, y, m)) = IF y <= m THEN m - y + 1 ELSE 0
        /\ \A j \in 1 .. m - y + 1 : SubSeq(sl, y, m)[j] = sl[y + j - 1]
    BY <2>1, SubSeqProperties
  <2>3. b = SubSeq(sl, y, m)
    BY <1>1, <1>4
  <2>4. (IF y <= m THEN m - y + 1 ELSE 0) = m - i /\ m - y + 1 = m - i
    BY <1>3, <1>4
  <2>5. \A j \in 1 .. m - i : y + j - 1 = i + j
    BY <1>3, <1>4
  <2> HIDE DEF b
  <2> QED BY <2>2, <2>3, <2>4, <2>5
<1> DEFINE sm == a \o b
<1>7. RemoveAt(sl, i) = sm
  BY DEF RemoveAt
<1> HIDE DEF a, b
<1>8. /\ sm \in Seq(SleeperType) /\ Len(sm) = Len(a) + Len(b)
      /\ \A j \in 1 .. Len(a) + Len(b) : sm[j] = IF j <= Len(a) THEN a[j] ELSE b[j - Len(a)]
  BY <1>5, <1>6, ConcatProperties
<1> HIDE DEF sm
<1>9. Len(a) + Len(b) = m - 1
  BY <1>3, <1>5, <1>6
<1>10. ASSUME NEW j \in 1 .. m - 1
       PROVE  sm[j] = IF j < i THEN sl[j] ELSE sl[j + 1]
  <2>1. CASE j < i
    <3>1. j \in 1 .. i - 1 /\ j <= Len(a)
      BY <2>1, <1>3, <1>5
    <3> QED BY <2>1, <3>1, <1>5, <1>8, <1>9
  <2>2. CASE ~(j < i)
    <3>1. /\ ~(j <= Len(a)) /\ j - (i - 1) \in 1 .. m - i
          /\ i + (j - (i - 1)) = j + 1
      BY <2>2, <1>3, <1>5
    <3>2. sm[j] = b[j - (i - 1)]
      BY <3>1, <1>5, <1>8, <1>9
    <3>3. b[j - (i - 1)] = sl[j + 1]
      BY <3>1, <1>6
    <3> QED BY <2>2, <3>2, <3>3
  <2> QED BY <2>1, <2>2
<1> QED BY <1>1, <1>7, <1>8, <1>9, <1>10

LEMMA UnparkStep ==
  ASSUME Core, NEW i \in DOMAIN idle, Unpark(i)
  PROVE  Core'
<1>1. Registers /\ look' = look /\ idle' = RemoveAt(idle, i)
  BY DEF Unpark, Registers, queues
<1>2. idle \in Seq(SleeperType)
  BY RegistryIs DEF SleepersOK
<1>3. i \in 1 .. Len(idle)
  BY <1>2, LenProperties
<1>4. PICK m \in Nat : m = Len(idle)
  BY RegistryIs
<1>5. /\ idle' \in Seq(SleeperType) /\ Len(idle') = m - 1
      /\ \A j \in 1 .. m - 1 : idle'[j] = IF j < i THEN idle[j] ELSE idle[j + 1]
  BY <1>1, <1>2, <1>3, <1>4, Removed
<1>6. /\ \A j \in 1 .. m : idle[j].proc \in 1 .. Len(procs)
      /\ \A j, k \in 1 .. m : idle[j].worker = idle[k].worker => j = k
  BY <1>4, RegistryIs DEF SleepersOK
<1>7. \A j \in 1 .. m - 1 :
        \/ j < i /\ j \in 1 .. m /\ idle'[j] = idle[j]
        \/ ~(j < i) /\ j + 1 \in 1 .. m /\ idle'[j] = idle[j + 1]
  BY <1>5
<1>8. \A j \in 1 .. m - 1 : idle'[j].proc \in 1 .. Len(procs)
  BY <1>6, <1>7
<1>9. ASSUME NEW j \in 1 .. m - 1, NEW k \in 1 .. m - 1, idle'[j].worker = idle'[k].worker
      PROVE  j = k
  <2>1. CASE j < i /\ k < i
    BY <2>1, <1>6, <1>7, <1>9
  <2>2. CASE ~(j < i) /\ ~(k < i)
    <3>1. j + 1 = k + 1
      BY <2>2, <1>6, <1>7, <1>9
    <3> QED BY <3>1
  <2>3. CASE j < i /\ ~(k < i)
    <3>1. j = k + 1
      BY <2>3, <1>6, <1>7, <1>9
    <3> QED BY <2>3, <3>1, <1>3, <1>4
  <2>4. CASE ~(j < i) /\ k < i
    <3>1. k = j + 1
      BY <2>4, <1>6, <1>7, <1>9
    <3> QED BY <2>4, <3>1, <1>3, <1>4
  <2> QED BY <2>1, <2>2, <2>3, <2>4
<1>10. SleepersOK(idle', Len(procs))
  BY <1>5, <1>8, <1>9 DEF SleepersOK
<1>11. Len(idle') # Cardinality(Workers)
  <2>1. PICK c \in Nat : c = Cardinality(Workers)
    BY RegistryIs
  <2>2. m <= c
    BY <1>4, <2>1, RegistryIs
  <2> QED BY <1>5, <2>1, <2>2
<1>12. Watched(procs, batch, workSeq, idle', look')
  BY <1>1, <1>11, RegistryIs DEF Watched
<1> QED BY <1>1, <1>10, <1>12, RegistryIs, RegistryKeepsCore

LEMMA NobodySleeps ==
  ASSUME NEW n PROVE SleepersOK(<<>>, n) /\ Len(<<>>) # Cardinality(Workers)
<1>1. <<>> \in Seq(SleeperType) /\ Len(<<>>) = 0
  BY EmptySeq
<1>2. Cardinality(Workers) # 0
  BY SchedulerAssumption, FS_EmptySet
<1>3. 1 .. 0 = {}
  OBVIOUS
<1>4. 1 .. Len(<<>>) = {}
  BY <1>1, <1>3
<1> QED BY <1>1, <1>2, <1>4 DEF SleepersOK

LEMMA WakeAllStep ==
  ASSUME Core, WakeAll
  PROVE  Core'
<1>1. Registers /\ look' = look /\ idle' = <<>>
  BY DEF WakeAll, Registers, queues
<1>2. SleepersOK(idle', Len(procs)) /\ Len(idle') # Cardinality(Workers)
  BY <1>1, NobodySleeps
<1>3. Watched(procs, batch, workSeq, idle', look')
  BY <1>1, <1>2, RegistryIs DEF Watched
<1> QED BY <1>1, <1>2, <1>3, RegistryIs, RegistryKeepsCore

-----------------------------------------------------------------------------
(* The invariant is inductive                                              *)

LEMMA InitInvariant == Init => IInv
<1> SUFFICES ASSUME Init PROVE IInv
  OBVIOUS
<1> DEFINE n == Parallelism
<1>1. n \in Nat \ {0} /\ MaxProcessors \in Nat /\ n <= MaxProcessors /\ MaxCalls \in Nat
      /\ SeqLimit \in Nat
  BY SchedulerAssumption
<1> HIDE DEF n
<1>2. /\ life = [c \in Coroutines |-> "Waiting"]
      /\ batch = {} /\ held = {} /\ lost = {} /\ calls = 0
      /\ procs = [p \in 1 .. n |-> NewProcessor] /\ parallelism = n
      /\ staging = [pr \in Producers |-> NoStaging]
      /\ workSeq = 0 /\ idle = <<>>
      /\ look = [w \in Workers |-> NotLooking]
  BY DEF Init, n
<1>3. /\ NewProcessor \in ProcessorType /\ Good(NewProcessor) /\ AllOf(NewProcessor) = {}
      /\ Quick(NewProcessor) = {} /\ NewProcessor.state = "Idle"
  BY NewIsBare, BareIsGood
<1>4. procs \in Seq(ProcessorType) /\ Len(procs) = n /\ DOMAIN procs = 1 .. n
      /\ \A p \in 1 .. n : procs[p] = NewProcessor
  <2>1. procs \in [1 .. n -> ProcessorType]
    BY <1>2, <1>3
  <2>2. procs \in Seq(ProcessorType)
    BY <1>1, <2>1, SeqDef
  <2> QED BY <1>1, <1>2, <2>2, LenProperties
<1>5. ProcsOK(procs)
  BY <1>3, <1>4 DEF ProcsOK
<1>6. Runnables = {}
  BY <1>2 DEF Runnables
<1>7. StagingOK(staging, Len(procs)) /\ \A x \in Producers : Handles(staging[x].handles) = {}
  BY <1>2, NothingStaged DEF StagingOK
<1>8. SleepersOK(idle, Len(procs)) /\ Len(idle) # Cardinality(Workers)
  BY <1>2, NobodySleeps
<1>9. LookOK(look, Len(procs)) /\ \A w \in Workers : look[w].at = "awake"
  BY <1>2, NotLookingIs DEF LookOK, LookType
<1>10. Placed(procs, staging, held, lost, Runnables)
  <2>1. Apart(procs, staging, held, lost)
    BY <1>2, <1>3, <1>4, <1>7 DEF Apart
  <2>2. \A c : ~Somewhere(c, procs, staging, held, lost)
    BY <1>2, <1>3, <1>4, <1>7 DEF Somewhere
  <2> QED BY <1>6, <2>1, <2>2 DEF Placed
<1>11. Batches(procs, batch, lost, Runnables)
  BY <1>2, <1>3, <1>4 DEF Batches
<1>12. Watched(procs, batch, workSeq, idle, look)
  BY <1>8, <1>9 DEF Watched
<1>13. workSeq \in 0 .. SeqLimit
  BY <1>1, <1>2
<1>14. Sound(Now)
  BY <1>5, <1>7, <1>8, <1>9, <1>10, <1>11, <1>12, <1>13, NowIs DEF Sound
<1>15. Cardinality(ActiveIn(procs)) >= parallelism
  <2>1. ActiveIn(procs) = 1 .. n
    BY <1>3, <1>4 DEF ActiveIn
  <2>2. PICK x \in Int, y \in Int : x = 1 /\ y = n
    BY <1>1
  <2>3. Cardinality(x .. y) = IF x > y THEN 0 ELSE y - x + 1
    BY FS_Interval
  <2>4. (IF x > y THEN 0 ELSE y - x + 1) = n
    BY <1>1, <2>2
  <2> QED BY <1>1, <1>2, <2>1, <2>2, <2>3, <2>4
<1>16. life \in [Coroutines -> {"Runnable", "Running", "Waiting"}]
  BY <1>2
<1> QED BY <1>1, <1>2, <1>4, <1>14, <1>15, <1>16 DEF IInv, Core

LEMMA StepsKeepCore ==
  ASSUME IInv, Request \/ Execute \/ Schedule
  PROVE  Core'
<1>1. Core
  BY DEF IInv
<1>2. CASE Request
  <2>1. ASSUME NEW c \in Coroutines, NEW p \in Processors, ReadyOwner(c, p) PROVE Core'
    BY <2>1, ReadyOwnerStep
  <2>2. ASSUME NEW c \in Coroutines, NEW p \in Processors, NEW pr \in Producers, ReadyBatch(c, p, pr)
        PROVE  Core'
    BY <2>2, ReadyBatchStep
  <2>3. ASSUME NEW n \in 1 .. MaxProcessors, Grow(n) PROVE Core'
    BY <1>1, <2>3, GrowStep
  <2>4. ASSUME NEW n \in 1 .. MaxProcessors, Shrink(n) PROVE Core'
    BY <1>1, <2>4, ShrinkStep
  <2> QED BY <1>2, <2>1, <2>2, <2>3, <2>4 DEF Request
<1>3. CASE Execute
  <2>1. ASSUME NEW c \in Coroutines, Enter(c) PROVE Core'
    BY <2>1, EnterStep
  <2>2. ASSUME NEW c \in Coroutines, NEW waiting \in BOOLEAN, Save(c, waiting) PROVE Core'
    BY <2>2, SaveStep
  <2>3. ASSUME NEW c \in Coroutines, NEW p \in Processors, Yield(c, p) PROVE Core'
    BY <2>3, YieldStep
  <2> QED BY <1>3, <2>1, <2>2, <2>3 DEF Execute
<1>4. CASE Schedule
  <2>1. ASSUME NEW p \in Processors, ScheduleStep(p) PROVE Core'
    BY <1>1, <2>1, ServiceStep, RunNextStep, LocalStep, ExternalStep, StealingStep, NothingStep
       DEF ScheduleStep
  <2>2. ASSUME NEW p \in Processors, Retire(p) PROVE Core'
    BY <1>1, <2>2, RetireStep
  <2>3. ASSUME NEW p \in Processors, NEW t \in Processors, Overflow(p, t) PROVE Core'
    BY <1>1, <2>3, OverflowStep
  <2>4. ASSUME NEW pr \in Producers, FlushStaging(pr) PROVE Core'
    BY <2>4, FlushStep
  <2>5. ASSUME NEW w \in Workers, LookForWork(w) PROVE Core'
    BY <1>1, <2>5, LookStep
  <2>6. ASSUME NEW w \in Workers, Park(w) PROVE Core'
    BY <1>1, <2>6, ParkStep
  <2>7. ASSUME NEW w \in Workers, NEW p \in Processors, TakeSnapshot(w, p) PROVE Core'
    BY <1>1, <2>7, TakeSnapshotStep
  <2>8. ASSUME NEW i \in DOMAIN idle, Unpark(i) PROVE Core'
    BY <1>1, <2>8, UnparkStep
  <2>9. ASSUME WakeAll PROVE Core'
    BY <1>1, <2>9, WakeAllStep
  <2> QED BY <1>4, <2>1, <2>2, <2>3, <2>4, <2>5, <2>6, <2>7, <2>8, <2>9 DEF Schedule
<1> QED BY <1>2, <1>3, <1>4

LEMMA NextInvariant == IInv /\ [Next]_vars => IInv'
<1> SUFFICES ASSUME IInv, [Next]_vars PROVE IInv'
  OBVIOUS
<1>1. MaxCalls \in Nat /\ calls \in 0 .. MaxCalls
  BY SchedulerAssumption DEF IInv
<1>2. CASE Request /\ calls < MaxCalls /\ calls' = calls + 1
  BY <1>1, <1>2, StepsKeepCore DEF IInv
<1>3. CASE (Execute \/ Schedule) /\ UNCHANGED calls
  BY <1>1, <1>3, StepsKeepCore DEF IInv
<1>4. CASE UNCHANGED vars
  <2>1. Runnables' = Runnables
    BY <1>4 DEF Runnables, vars
  <2>2. Now' = Now
    BY <1>4, <2>1 DEF Now, vars, queues, registry
  <2> QED BY <1>4, <2>2 DEF IInv, Core, vars, queues
<1> QED BY <1>2, <1>3, <1>4 DEF Next

(* The inductive invariant of the scheduler.                               *)
THEOREM Invariant == Spec => []IInv
<1> QED BY InitInvariant, NextInvariant, PTL DEF Spec

-----------------------------------------------------------------------------
(* What the invariant says                                                 *)

LEMMA InvariantTypes == IInv => TypeOK
<1> SUFFICES ASSUME IInv PROVE TypeOK
  OBVIOUS
<1>1. Core /\ calls \in 0 .. MaxCalls
  BY DEF IInv
<1>2. /\ life \in [Coroutines -> {"Runnable", "Running", "Waiting"}]
      /\ Len(procs) <= MaxProcessors /\ parallelism \in 1 .. MaxProcessors
  BY <1>1 DEF Core
<1>3. /\ ProcsOK(procs) /\ Processors = 1 .. Len(procs)
      /\ \A p \in Processors : Good(procs[p])
      /\ Len(procs) \in Nat
  BY <1>1, ProcessorsAre
<1>4. batch \subseteq Coroutines /\ held \subseteq Coroutines /\ lost \subseteq Coroutines
  BY <1>1, PlacesAre DEF Runnables
<1>5. /\ procs \in Seq(ProcessorType)
      /\ \A p \in Processors : Len(procs[p].local) <= LocalCapacity
  BY <1>3 DEF ProcsOK, Good
<1>6. StagingOK(staging, Len(procs))
  BY <1>1, NowIs DEF Core, Sound
<1>7. /\ staging \in [Producers -> [target : Nat, handles : HandleSeq]]
      /\ \A pr \in Producers :
           /\ Len(staging[pr].handles) <= BatchMax
           /\ staging[pr].handles # <<>> => staging[pr].target \in Processors
  BY <1>3, <1>6 DEF StagingOK
<1>8. /\ SleepersOK(idle, Len(procs)) /\ LookOK(look, Len(procs)) /\ workSeq \in 0 .. SeqLimit
      /\ Len(idle) \in Nat
  BY <1>1, RegistryIs
<1> DEFINE SleeperHere == [worker : Workers, proc : Processors, seen : 0 .. SeqLimit]
<1>9. idle \in Seq(SleeperType)
  BY <1>8 DEF SleepersOK
<1>10. idle \in [1 .. Len(idle) -> SleeperType] /\ DOMAIN idle = 1 .. Len(idle)
  BY <1>9, LenProperties
<1>11. \A i \in 1 .. Len(idle) : idle[i] \in SleeperHere
  <2>1. \A i \in 1 .. Len(idle) : idle[i] \in SleeperType /\ idle[i].proc \in Processors
    BY <1>3, <1>8, <1>10 DEF SleepersOK
  <2> QED BY <2>1 DEF SleeperType
<1> HIDE DEF SleeperHere
<1>12. idle \in Seq(SleeperHere)
  <2>1. idle \in [1 .. Len(idle) -> SleeperHere]
    BY <1>10, <1>11
  <2> QED BY <1>8, <2>1, SeqDef
<1>13. \A i, j \in DOMAIN idle : idle[i].worker = idle[j].worker => i = j
  BY <1>8, <1>10 DEF SleepersOK
<1>14. look \in [Workers -> [at : {"awake", "snapshot", "empty"}, proc : Nat, seen : 0 .. SeqLimit]]
  BY <1>8 DEF LookOK
<1> USE DEF SleeperHere
<1> QED BY <1>1, <1>2, <1>4, <1>5, <1>7, <1>8, <1>12, <1>13, <1>14 DEF TypeOK

(* The state keeps its types; a deque and a batch never exceed their       *)
(* capacity, and no worker is registered twice as a sleeper.               *)
THEOREM TypeCorrect == Spec => []TypeOK
<1> QED BY Invariant, InvariantTypes, PTL

LEMMA InvariantActive == IInv => EnoughActive
  BY ActiveIs DEF IInv, Core, EnoughActive

(* Shrinking, growing and retiring leave the requested number of           *)
(* processors active: a publication to a retiring one finds another.       *)
THEOREM ActiveEnough == Spec => []EnoughActive
<1> QED BY Invariant, InvariantActive, PTL

LEMMA InvariantWatched == IInv => LastSleeperSawAll
<1> SUFFICES ASSUME IInv, Len(idle) = Cardinality(Workers)
             PROVE  /\ Last(idle).seen = workSeq
                    /\ \A s \in ShardSet : ~HeadPublished(procs[Last(idle).proc].carries[s])
  BY DEF LastSleeperSawAll
<1>1. Watched(procs, batch, workSeq, idle, look)
  BY RegistryIs DEF IInv
<1>2. idle[Len(idle)].seen = workSeq /\ Quiet(procs, batch, idle[Len(idle)].proc)
  BY <1>1 DEF Watched
<1> QED BY <1>2 DEF Last, Quiet, Announced, HeadPublished

(* No wake-up falls between a worker's look at the queues and its sleep:   *)
(* when all sleep, the last one knew the last notification.                *)
THEOREM SleepersWatch == Spec => []LastSleeperSawAll
<1> QED BY Invariant, InvariantWatched, PTL

-----------------------------------------------------------------------------
(* The places of a handle                                                  *)

(* The places inside a processor, with the handles that are there.         *)
Inside(l, c, p) ==
  \/ l = <<"run_next", p>> /\ c = procs[p].runNext /\ c # None
  \/ l = <<"local", p>> /\ c \in Handles(procs[p].local)
  \/ l = <<"inj", p>> /\ c \in Handles(procs[p].inj)
  \/ \E s \in ShardSet : l = <<"carry", p, s>> /\ c \in Handles(procs[p].carries[s])

Outside(l, c) ==
  \/ \E x \in Producers : l = <<"staged", x>> /\ c \in Handles(staging[x].handles)
  \/ l = <<"held">> /\ c \in held

LEMMA LocationsAre ==
  /\ \A p \in Processors :
       /\ <<"run_next", p>> \in Locations /\ <<"local", p>> \in Locations
       /\ <<"inj", p>> \in Locations
       /\ \A s \in ShardSet : <<"carry", p, s>> \in Locations
  /\ \A x \in Producers : <<"staged", x>> \in Locations
  /\ <<"held">> \in Locations
  /\ \A l \in Locations :
       \/ \E p \in Processors :
            \/ l = <<"run_next", p>> \/ l = <<"local", p>> \/ l = <<"inj", p>>
            \/ \E s \in ShardSet : l = <<"carry", p, s>>
       \/ \E x \in Producers : l = <<"staged", x>>
       \/ l = <<"held">>
  BY DEF Locations

LEMMA HandlesAtIs ==
  /\ \A p : HandlesAt(<<"run_next", p>>) = {procs[p].runNext} \ {None}
  /\ \A p : HandlesAt(<<"local", p>>) = Handles(procs[p].local)
  /\ \A p : HandlesAt(<<"inj", p>>) = Handles(procs[p].inj)
  /\ \A p, s : HandlesAt(<<"carry", p, s>>) = Handles(procs[p].carries[s])
  /\ \A x : HandlesAt(<<"staged", x>>) = Handles(staging[x].handles)
  /\ HandlesAt(<<"held">>) = held
  BY DEF HandlesAt, QueueAt

LEMMA QueueAtIs ==
  /\ \A p : QueueAt(<<"run_next", p>>) = <<>>
  /\ \A p : QueueAt(<<"local", p>>) = procs[p].local
  /\ \A p : QueueAt(<<"inj", p>>) = procs[p].inj
  /\ \A p, s : QueueAt(<<"carry", p, s>>) = procs[p].carries[s]
  /\ \A x : QueueAt(<<"staged", x>>) = staging[x].handles
  /\ QueueAt(<<"held">>) = <<>>
  BY DEF QueueAt

LEMMA PlaceIs ==
  ASSUME NEW l, NEW c
  PROVE  (l \in Locations /\ c \in HandlesAt(l))
           <=> Outside(l, c) \/ \E p \in Processors : Inside(l, c, p)
<1>1. ASSUME l \in Locations, c \in HandlesAt(l)
      PROVE  Outside(l, c) \/ \E p \in Processors : Inside(l, c, p)
  <2>1. CASE \E p \in Processors :
            \/ l = <<"run_next", p>> \/ l = <<"local", p>> \/ l = <<"inj", p>>
            \/ \E s \in ShardSet : l = <<"carry", p, s>>
    BY <1>1, <2>1, HandlesAtIs DEF Inside
  <2>2. CASE \/ \E x \in Producers : l = <<"staged", x>>
             \/ l = <<"held">>
    BY <1>1, <2>2, HandlesAtIs DEF Outside
  <2> QED BY <1>1, <2>1, <2>2, LocationsAre
<1>2. ASSUME Outside(l, c) PROVE l \in Locations /\ c \in HandlesAt(l)
  BY <1>2, HandlesAtIs, LocationsAre DEF Outside
<1>3. ASSUME NEW p \in Processors, Inside(l, c, p) PROVE l \in Locations /\ c \in HandlesAt(l)
  BY <1>3, HandlesAtIs, LocationsAre DEF Inside
<1> QED BY <1>1, <1>2, <1>3

LEMMA InsideIs ==
  ASSUME Core, NEW p \in Processors, NEW c
  PROVE  /\ c \in AllOf(procs[p]) <=> \E l : Inside(l, c, p)
         /\ \A k, l : Inside(k, c, p) /\ Inside(l, c, p) => k = l
         /\ \A l : Inside(l, c, p) /\ c \in batch => l[1] \in {"carry", "inj"}
<1> DEFINE q == procs[p]
<1>1. q \in ProcessorType /\ Good(q) /\ Quick(q) \intersect batch = {}
  BY ProcessorsAre, PlacesAre
<1>2. c \in AllOf(q) <=>
        \/ c = q.runNext /\ c # None
        \/ c \in Handles(q.local) \/ c \in Handles(q.inj)
        \/ \E s \in ShardSet : c \in Handles(q.carries[s])
  BY <1>1, Parts
<1>3. c \in AllOf(q) <=> \E l : Inside(l, c, p)
  BY <1>2 DEF Inside
<1>4. ASSUME NEW k, NEW l, Inside(k, c, p), Inside(l, c, p) PROVE k = l
  <2>1. CASE k = <<"run_next", p>>
    BY <1>1, <1>4, <2>1 DEF Inside, Good, Neat
  <2>2. CASE k = <<"local", p>>
    BY <1>1, <1>4, <2>2 DEF Inside, Good, Neat
  <2>3. CASE k = <<"inj", p>>
    BY <1>1, <1>4, <2>3 DEF Inside, Good, Neat
  <2>4. CASE \E s \in ShardSet : k = <<"carry", p, s>>
    BY <1>1, <1>4, <2>4 DEF Inside, Good, Neat
  <2> QED BY <1>4, <2>1, <2>2, <2>3, <2>4 DEF Inside
<1>5. ASSUME NEW l, Inside(l, c, p), c \in batch PROVE l[1] \in {"carry", "inj"}
  <2>1. c \notin Quick(q)
    BY <1>1, <1>5
  <2> QED BY <1>5, <2>1 DEF Inside, Quick
<1> QED BY <1>3, <1>4, <1>5

LEMMA OnePlace ==
  ASSUME Core, NEW k, NEW l, NEW c,
         k \in Locations, c \in HandlesAt(k), l \in Locations, c \in HandlesAt(l)
  PROVE  k = l
<1>1. Apart(procs, staging, held, lost)
  BY NowIs DEF Core, Sound, Placed
<1>2. /\ Outside(k, c) \/ \E p \in Processors : Inside(k, c, p)
      /\ Outside(l, c) \/ \E p \in Processors : Inside(l, c, p)
  BY PlaceIs
<1>3. \A p \in Processors : \A m : Inside(m, c, p) => c \in AllOf(procs[p])
  BY InsideIs
<1>4. CASE Outside(k, c) /\ Outside(l, c)
  BY <1>1, <1>4 DEF Outside, Apart
<1>5. ASSUME NEW m, NEW n, NEW p \in Processors, Outside(m, c), Inside(n, c, p) PROVE FALSE
  BY <1>1, <1>3, <1>5 DEF Outside, Apart, Processors
<1>6. ASSUME NEW p \in Processors, NEW r \in Processors, Inside(k, c, p), Inside(l, c, r) PROVE k = l
  <2>1. p = r
    BY <1>1, <1>3, <1>6 DEF Apart, Processors
  <2> QED BY <1>6, <2>1, InsideIs
<1> QED BY <1>2, <1>4, <1>5, <1>6

LEMMA OccupiedIs ==
  \A o : o \in Occupied <=> \E l \in Locations : \E c \in HandlesAt(l) : o = <<l, c>>
  BY DEF Occupied

(* Queued are the runnable coroutines that have not been lost.             *)
LEMMA QueuedAre ==
  ASSUME Core, NEW c
  PROVE  Queued(c) <=> c \in Runnables /\ c \notin lost
<1>1. /\ Apart(procs, staging, held, lost)
      /\ c \in Runnables <=> Somewhere(c, procs, staging, held, lost)
  BY NowIs DEF Core, Sound, Placed
<1>2. Queued(c) <=> (\E l : Outside(l, c)) \/ \E p \in Processors : \E l : Inside(l, c, p)
  BY PlaceIs DEF Queued
<1>3. (\E l : Outside(l, c)) <=> c \in held \/ \E x \in Producers : c \in Handles(staging[x].handles)
  BY DEF Outside
<1>4. \A p \in Processors : c \in AllOf(procs[p]) <=> \E l : Inside(l, c, p)
  BY InsideIs
<1>5. c \in lost => /\ c \notin held
                    /\ \A p \in Processors : c \notin AllOf(procs[p])
                    /\ \A x \in Producers : c \notin Handles(staging[x].handles)
  BY <1>1 DEF Apart, Processors
<1>6. c \in Runnables <=> \/ c \in lost \/ c \in held
                          \/ \E p \in Processors : c \in AllOf(procs[p])
                          \/ \E x \in Producers : c \in Handles(staging[x].handles)
  BY <1>1 DEF Somewhere, Processors
<1> QED BY <1>2, <1>3, <1>4, <1>5, <1>6

QueuedFit == \A c : Queued(c) <=> c \in Runnables /\ c \notin lost

LEMMA QueuedAlways == IInv => QueuedFit
<1> SUFFICES ASSUME Core PROVE QueuedFit
  BY DEF IInv
<1> QED BY QueuedAre DEF QueuedFit

LEMMA InvariantPlace == IInv => NeverTwice
<1> SUFFICES ASSUME Core PROVE NeverTwice
  BY DEF IInv
<1>1. ASSUME NEW l \in Locations PROVE IsInjective(QueueAt(l))
  <2>1. \A p \in Processors :
          /\ IsInjective(procs[p].local) /\ IsInjective(procs[p].inj)
          /\ \A s \in ShardSet : IsInjective(procs[p].carries[s])
    BY ProcessorsAre DEF Good, Neat
  <2>2. \A x \in Producers : IsInjective(staging[x].handles)
    BY NowIs DEF Core, Sound, StagingOK
  <2> QED BY <2>1, <2>2, QueueAtIs, LocationsAre, NothingQueued
<1>2. ASSUME NEW o \in Occupied, NEW other \in Occupied, o[2] = other[2] PROVE o = other
  BY <1>2, OccupiedIs, OnePlace
<1>3. ASSUME NEW o \in Occupied PROVE life[o[2]] = "Runnable"
  <2>1. PICK l \in Locations : \E c \in HandlesAt(l) : o = <<l, c>>
    BY OccupiedIs
  <2>2. PICK c \in HandlesAt(l) : o = <<l, c>>
    BY <2>1
  <2>3. c \in Runnables
    BY <2>2, QueuedAre DEF Queued
  <2> QED BY <2>2, <2>3 DEF Runnables
<1> QED BY <1>1, <1>2, <1>3 DEF NeverTwice

(* No handle is in two queues, slots or hands, or twice in one, and only   *)
(* runnable coroutines have one there, whatever is pushed, stolen,         *)
(* spilled, staged, flushed or drained, and however the set of processors  *)
(* changes.                                                                *)
THEOREM HandlesNeverTwice == Spec => []NeverTwice
<1> QED BY Invariant, InvariantPlace, PTL

-----------------------------------------------------------------------------
(* Where handles get lost                                                  *)

(* A step of a processor that passes over run_next counts its tick.        *)
LEMMA PassedTick ==
  ASSUME Core, NEW p \in Processors
  PROVE  /\ Passed(p).tick # procs[p].tick
         /\ procs[p].hits # 0 => procs[p].hits > 0
<1>1. procs[p] \in ProcessorType
  BY ProcessorsAre
<1>2. procs[p].tick \in 0 .. (ServiceInterval - 1) /\ procs[p].hits \in {0, 1}
  BY <1>1 DEF ProcessorType
<1>3. ServiceInterval \in Nat /\ ServiceInterval > 1
  BY SchedulerAssumption
<1>4. Passed(p).tick = After(procs[p].tick, ServiceInterval)
  BY <1>1 DEF Passed, Ticked, ProcessorType
<1> QED BY <1>2, <1>3, <1>4 DEF After

(* What a passed-over run_next loses is a second hit.                      *)
LEMMA PassLoses ==
  ASSUME Core, NEW p \in Processors, PassRunNext(p),
         procs'[p].tick = Passed(p).tick, NEW c \in lost' \ lost
  PROVE  SecondHit(c)
<1>1. c = procs[p].runNext /\ c # None
  BY DEF PassRunNext
<1>2. procs[p].hits # 0
  BY <1>1 DEF PassRunNext, RunNextDue
<1> QED BY <1>1, <1>2, PassedTick DEF SecondHit

LEMMA StepLoses ==
  ASSUME Core, NEW p \in Processors, ScheduleStep(p), NEW c \in lost' \ lost
  PROVE  SecondHit(c)
<1>0. /\ DOMAIN procs = Processors
      /\ DOMAIN Passed(p) = DOMAIN procs[p] /\ procs[p] \in ProcessorType
  BY ProcessorsAre DEF Passed, Ticked
<1>1. PassRunNext(p)
  BY DEF ScheduleStep, StepService, StepRunNext, StepLocal, StepExternal, StepSteal, StepNothing
<1>2. procs'[p].tick = Passed(p).tick
  <2>1. CASE StepLocal(p)
    BY <1>0, <2>1 DEF StepLocal, Return
  <2>2. CASE StepExternal(p)
    <3>1. procs'[p] = AfterExternal(Passed(p))
      BY <1>0, <2>2 DEF StepExternal, Return
    <3>2. AfterExternal(Passed(p)).tick = Passed(p).tick
      BY DEF AfterExternal
    <3> QED BY <3>1, <3>2
  <2>3. CASE StepSteal(p)
    <3>0. PICK v \in Victims(p) : \E taken :
            procs' = [procs EXCEPT
                        ![p] = [Passed(p) EXCEPT !.local = taken],
                        ![v].local = SubSeq(@, Claimed(procs[v]) + 1, Len(@))]
      BY <2>3 DEF StepSteal
    <3>1. PICK taken :
            procs' = [procs EXCEPT
                        ![p] = [Passed(p) EXCEPT !.local = taken],
                        ![v].local = SubSeq(@, Claimed(procs[v]) + 1, Len(@))]
      BY <3>0
    <3>2. v # p /\ v \in Processors
      BY DEF Victims, Active
    <3>3. procs'[p] = [Passed(p) EXCEPT !.local = taken]
      BY <1>0, <3>1, <3>2
    <3> QED BY <3>3
  <2>4. CASE StepNothing(p)
    BY <1>0, <2>4 DEF StepNothing
  <2>5. CASE StepService(p) \/ StepRunNext(p)
    BY <2>5 DEF StepService, StepRunNext
  <2> QED BY <2>1, <2>2, <2>3, <2>4, <2>5 DEF ScheduleStep
<1> QED BY <1>1, <1>2, PassLoses

(* Every step loses handles in the two known ways only.                    *)
LEMMA Loses ==
  ASSUME Core, [Next]_vars, NEW c \in lost' \ lost
  PROVE  SecondHit(c) \/ RefusedByDeque(c)
<1>1. ASSUME NEW d \in Coroutines, NEW t \in Processors, ReadyOwner(d, t)
      PROVE  RefusedByDeque(c)
  <2>1. c = procs[t].runNext /\ c # None /\ Full(procs[t])
    BY <1>1, NothingQueued DEF ReadyOwner
  <2>2. procs'[t] = PushRunNext(procs[t], d) /\ procs[t] \in ProcessorType
    BY <1>1, ProcessorsAre DEF ReadyOwner
  <2>3. procs'[t].local = procs[t].local
    BY <2>1, <2>2 DEF PushRunNext, Push, ProcessorType
  <2> QED BY <2>1, <2>3 DEF RefusedByDeque
<1>2. ASSUME NEW d \in Coroutines, NEW p \in Processors, Yield(d, p)
      PROVE  RefusedByDeque(c)
  <2>1. c = d /\ Full(procs[p]) /\ life[d] = "Running"
    BY <1>2 DEF Yield
  <2>2. procs'[p] = Push(procs[p], d)
    BY <1>2, ProcessorsAre DEF Yield
  <2>3. procs'[p].local = procs[p].local
    BY <2>1, <2>2 DEF Push
  <2> QED BY <2>1, <2>3 DEF RefusedByDeque
<1>3. CASE Request
  <2>1. /\ \A d \in Coroutines, t \in Processors, x \in Producers :
             ReadyBatch(d, t, x) => lost' = lost
        /\ \A n \in 1 .. MaxProcessors : Grow(n) \/ Shrink(n) => lost' = lost
    BY DEF ReadyBatch, Grow, Shrink
  <2>2. lost' # lost
    OBVIOUS
  <2>3. \E d \in Coroutines, t \in Processors : ReadyOwner(d, t)
    BY <1>3, <2>1, <2>2 DEF Request
  <2> QED BY <1>1, <2>3
<1>4. CASE Execute
  <2>1. \A d \in Coroutines : \A waiting \in BOOLEAN :
          Enter(d) \/ Save(d, waiting) => lost' = lost
    BY DEF Enter, Save
  <2>2. lost' # lost
    OBVIOUS
  <2>3. \E d \in Coroutines, p \in Processors : Yield(d, p)
    BY <1>4, <2>1, <2>2 DEF Execute
  <2> QED BY <1>2, <2>3
<1>5. CASE Schedule
  <2>1. /\ \A p \in Processors : Retire(p) => lost' = lost
        /\ \A p, t \in Processors : Overflow(p, t) => lost' = lost
        /\ \A pr \in Producers : FlushStaging(pr) => lost' = lost
        /\ \A w \in Workers : LookForWork(w) \/ Park(w) => lost' = lost
        /\ \A w \in Workers : \A p \in Processors : TakeSnapshot(w, p) => lost' = lost
        /\ \A i \in DOMAIN idle : Unpark(i) => lost' = lost
        /\ WakeAll => lost' = lost
    BY DEF Retire, Overflow, FlushStaging, LookForWork, Park, TakeSnapshot, Unpark, WakeAll
  <2>2. lost' # lost
    OBVIOUS
  <2>3. \E p \in Processors : ScheduleStep(p)
    BY <1>5, <2>1, <2>2 DEF Schedule
  <2> QED BY <2>3, StepLoses
<1>6. CASE UNCHANGED vars
  BY <1>6 DEF vars
<1> QED BY <1>3, <1>4, <1>5, <1>6 DEF Next

(* A runnable coroutine keeps its place in every step, and one that        *)
(* becomes runnable gets one, unless the step is a second hit on run_next  *)
(* or meets a full deque.                                                  *)
THEOREM DropsKnown == Spec => OnlyKnownDrops
<1>1. ASSUME IInv, QueuedFit, QueuedFit', [Next]_vars, NEW c \in Coroutines,
             life'[c] = "Runnable", life[c] = "Runnable" => Queued(c), ~Queued(c)'
      PROVE  SecondHit(c) \/ RefusedByDeque(c)
  <2>1. Core
    BY <1>1 DEF IInv
  <2>2. c \in lost'
    BY <1>1 DEF QueuedFit, Runnables
  <2>3. c \notin lost
    BY <1>1, <2>1, PlacesAre DEF QueuedFit, Runnables
  <2> QED BY <1>1, <2>1, <2>2, <2>3, Loses
<1>2. IInv /\ QueuedFit /\ QueuedFit' /\ [Next]_vars
        => [\A c \in Coroutines :
              life'[c] = "Runnable" /\ (life[c] = "Runnable" => Queued(c))
                => Queued(c)' \/ SecondHit(c) \/ RefusedByDeque(c)]_vars
  BY <1>1
<1> QED BY <1>2, Invariant, QueuedAlways, PTL DEF Spec, OnlyKnownDrops

LEMMA InvariantBatch == IInv => BatchBitMeansPublished
<1> SUFFICES ASSUME Core PROVE BatchBitMeansPublished
  BY DEF IInv
<1>1. \A c \in batch : life[c] = "Runnable"
  BY PlacesAre DEF Runnables
<1>2. ASSUME NEW o \in Occupied, o[2] \in batch
      PROVE  o[1][1] \in {"carry", "inj", "staged", "held"}
  <2>1. PICK l \in Locations : \E c \in HandlesAt(l) : o = <<l, c>>
    BY OccupiedIs
  <2>6. PICK c \in HandlesAt(l) : o = <<l, c>>
    BY <2>1
  <2>2. c \in batch /\ c \notin lost
    BY <1>2, <2>6, PlacesAre
  <2>3. Outside(l, c) \/ \E p \in Processors : Inside(l, c, p)
    BY <2>1, PlaceIs
  <2>4. l[1] \in {"carry", "inj", "staged", "held"}
    <3>1. CASE Outside(l, c)
      BY <2>2, <3>1 DEF Outside
    <3>2. CASE \E p \in Processors : Inside(l, c, p)
      BY <2>2, <3>2, InsideIs
    <3> QED BY <2>3, <3>1, <3>2
  <2> QED BY <2>4, <2>6
<1> QED BY <1>1, <1>2 DEF BatchBitMeansPublished

(* BATCH_PUBLISHING is only on runnable handles that are in staging, in a  *)
(* carry, in the injection carry or with a caller.                         *)
THEOREM BatchPublished == Spec => []BatchBitMeansPublished
<1> QED BY Invariant, InvariantBatch, PTL

-----------------------------------------------------------------------------
(* The service of the carries                                              *)

(* What one step of a processor does for its carries.                      *)
Serves(q, r) ==
  r.tick # q.tick =>
    \A s \in ShardSet :
      q.carries[s] # <<>> =>
        \/ r.carries[s] = Front(q.carries[s])
        \/ Away(r, s) < Away(q, s)
        \/ Away(r, s) = Away(q, s) /\ r.tick > q.tick

(* Only schedule_step moves the tick.                                      *)
TicksKept == \A p \in Processors : procs'[p].tick = procs[p].tick

LEMMA TicksServe == TicksKept => \A p \in Processors : Serves(procs[p], procs'[p])
  BY DEF TicksKept, Serves

Ticking(pc) == \A p \in DOMAIN pc : "tick" \in DOMAIN pc[p]

LEMMA CoreTicks ==
  ASSUME Core
  PROVE  Ticking(procs) /\ \A p \in Processors : "tick" \in DOMAIN procs[p]
  BY ProcessorsAre DEF Ticking, ProcessorType, Processors

LEMMA OneTick ==
  ASSUME NEW pc, NEW p, NEW q, q.tick = pc[p].tick
  PROVE  \A r \in DOMAIN pc : [pc EXCEPT ![p] = q][r].tick = pc[r].tick
  OBVIOUS

LEMMA FlushTicks ==
  ASSUME NEW sh, Ticking(sh.procs), NEW t, NEW s, NEW chain
  PROVE  LET v == Flush(sh, t, s, chain)
         IN  /\ DOMAIN v.procs = DOMAIN sh.procs /\ Ticking(v.procs)
             /\ \A p \in DOMAIN sh.procs : v.procs[p].tick = sh.procs[p].tick
<1> DEFINE v == Flush(sh, t, s, chain)
<1>1. v.procs = IF Retiring(t)
                THEN [sh.procs EXCEPT ![Route(t)].inj = @ \o chain]
                ELSE [sh.procs EXCEPT ![t].carries[s] = @ \o chain]
  BY DEF Flush
<1> HIDE DEF v
<1>2. CASE Retiring(t)
  <2>1. v.procs = [sh.procs EXCEPT ![Route(t)].inj = @ \o chain]
    BY <1>1, <1>2
  <2> QED BY <2>1 DEF Ticking, v
<1>3. CASE ~Retiring(t)
  <2>1. v.procs = [sh.procs EXCEPT ![t].carries[s] = @ \o chain]
    BY <1>1, <1>3
  <2> QED BY <2>1 DEF Ticking, v
<1> QED BY <1>2, <1>3

LEMMA PublicationTicks ==
  ASSUME Core
  PROVE  /\ \A c \in Coroutines, p \in Processors, pr \in Producers :
              ReadyBatch(c, p, pr) => TicksKept
         /\ \A pr \in Producers : FlushStaging(pr) => TicksKept
<1>1. Shared.procs = procs /\ Ticking(Shared.procs)
  BY CoreTicks DEF Shared
<1>2. ASSUME NEW pr \in Producers, FlushStaging(pr) PROVE TicksKept
  <2>1. procs' = Flush(Shared, staging[pr].target, ShardOf[pr], staging[pr].handles).procs
    BY <1>2 DEF FlushStaging, Become
  <2> QED BY <1>1, <2>1, FlushTicks DEF TicksKept, Processors
<1>3. ASSUME NEW c \in Coroutines, NEW t \in Processors, NEW pr \in Producers, ReadyBatch(c, t, pr)
      PROVE  TicksKept
  <2> DEFINE st    == staging[pr]
             flush == /\ st.handles # <<>>
                      /\ st.target # t \/ Len(st.handles) = BatchMax
             sh    == IF flush THEN Flush(Shared, st.target, ShardOf[pr], st.handles) ELSE Shared
             chain == Append(IF flush THEN <<>> ELSE st.handles, c)
  <2>1. procs' = Flush(sh, t, ShardOf[pr], chain).procs \/ procs' = sh.procs
    BY <1>3 DEF ReadyBatch, Become
  <2>2. /\ DOMAIN sh.procs = DOMAIN procs /\ Ticking(sh.procs)
        /\ \A p \in DOMAIN procs : sh.procs[p].tick = procs[p].tick
    <3> HIDE DEF flush
    <3>1. CASE flush
      BY <1>1, <3>1, FlushTicks
    <3>2. CASE ~flush
      BY <1>1, <3>2
    <3> QED BY <3>1, <3>2
  <2> HIDE DEF sh, chain
  <2> QED BY <2>1, <2>2, FlushTicks DEF TicksKept, Processors
<1> QED BY <1>2, <1>3

LEMMA PushTicks ==
  ASSUME NEW q, "tick" \in DOMAIN q, NEW c
  PROVE  Push(q, c).tick = q.tick /\ PushRunNext(q, c).tick = q.tick
<1>1. \A x : Push(q, x).tick = q.tick /\ "tick" \in DOMAIN Push(q, x)
  BY DEF Push
<1> QED BY <1>1 DEF PushRunNext

LEMMA OtherTicks ==
  ASSUME Core
  PROVE  /\ \A c \in Coroutines, p \in Processors : ReadyOwner(c, p) \/ Yield(c, p) => TicksKept
         /\ \A n \in 1 .. MaxProcessors : Grow(n) \/ Shrink(n) => TicksKept
         /\ \A p \in Processors : Retire(p) => TicksKept
         /\ \A p, t \in Processors : Overflow(p, t) => TicksKept
<1>0. /\ \A p \in Processors : "tick" \in DOMAIN procs[p]
      /\ \A p \in Processors : procs[p] \in ProcessorType
      /\ ProcsOK(procs) /\ Len(procs) \in Nat /\ Processors = 1 .. Len(procs)
  BY CoreTicks, ProcessorsAre
<1>1. ASSUME NEW c \in Coroutines, NEW p \in Processors, ReadyOwner(c, p) PROVE TicksKept
  BY <1>0, <1>1, PushTicks, OneTick DEF ReadyOwner, TicksKept, Processors
<1>2. ASSUME NEW c \in Coroutines, NEW p \in Processors, Yield(c, p) PROVE TicksKept
  BY <1>0, <1>2, PushTicks, OneTick DEF Yield, TicksKept, Processors
<1>3. ASSUME NEW n \in 1 .. MaxProcessors, Grow(n) PROVE TicksKept
  <2> DEFINE new == [i \in 1 .. (n - parallelism) |-> NewProcessor]
  <2>1. n - parallelism \in Nat
    BY <1>3, SchedulerAssumption DEF Grow, Core
  <2>2. \A i \in 1 .. (n - parallelism) : NewProcessor \in ProcessorType
    BY NewIsBare
  <2>3. new \in Seq(ProcessorType)
    BY <2>1, <2>2, IsASeq
  <2>4. procs' = procs \o new
    BY <1>3 DEF Grow
  <2> HIDE DEF new
  <2>5. Len(new) \in Nat
    BY <2>3, LenProperties
  <2>6. \A p \in 1 .. Len(procs) : procs'[p] = procs[p]
    <3>1. \A p \in 1 .. Len(procs) + Len(new) :
            (procs \o new)[p] = IF p <= Len(procs) THEN procs[p] ELSE new[p - Len(procs)]
      BY <1>0, <2>3, ConcatProperties DEF ProcsOK
    <3> QED BY <1>0, <2>4, <2>5, <3>1
  <2> QED BY <1>0, <2>6 DEF TicksKept
<1>4. ASSUME NEW n \in 1 .. MaxProcessors, Shrink(n) PROVE TicksKept
  BY <1>0, <1>4 DEF Shrink, TicksKept
<1>5. ASSUME NEW p \in Processors, Retire(p) PROVE TicksKept
  <2>1. [Drained(procs[p]) EXCEPT !.state = "Idle"].tick = procs[p].tick
    BY <1>0, DrainedIsBare
  <2>2. procs' = [procs EXCEPT ![p] = [Drained(procs[p]) EXCEPT !.state = "Idle"]]
    BY <1>5 DEF Retire
  <2> QED BY <2>1, <2>2, OneTick DEF TicksKept, Processors
<1>6. ASSUME NEW p \in Processors, NEW t \in Processors, Overflow(p, t) PROVE TicksKept
  <2> DEFINE q    == procs[p]
             n    == SmallerOf(Len(q.local), BatchMax)
             part == SubSeq(q.local, 1, n)
             rest == SubSeq(q.local, n + 1, Len(q.local))
             kept == [q EXCEPT !.local = rest, !.hits = 0]
             base == [procs EXCEPT ![p] = kept]
  <2>1. procs' = IF t = p THEN [base EXCEPT ![p].inj = @ \o part]
                 ELSE [base EXCEPT ![t].carries[base[t].cursor] = @ \o part]
    BY <1>6 DEF Overflow
  <2> HIDE DEF part, rest
  <2>2. kept.tick = q.tick /\ "tick" \in DOMAIN kept
    BY <1>0
  <2> HIDE DEF kept, q
  <2>3. /\ DOMAIN base = Processors
        /\ \A r \in Processors : base[r].tick = procs[r].tick /\ "tick" \in DOMAIN base[r]
    BY <1>0, <2>2 DEF q, Processors
  <2> HIDE DEF base
  <2>4. CASE t = p
    BY <2>1, <2>3, <2>4 DEF TicksKept
  <2>5. CASE t # p
    BY <2>1, <2>3, <2>5 DEF TicksKept
  <2> QED BY <2>4, <2>5
<1> QED BY <1>1, <1>2, <1>3, <1>4, <1>5, <1>6

LEMMA AwaySame ==
  ASSUME NEW q, NEW r, r.cursor = q.cursor, NEW s
  PROVE  Away(r, s) = Away(q, s)
  BY DEF Away

(* A step that serves no carry was not due to.                             *)
LEMMA TickedServes ==
  ASSUME Core, NEW p \in Processors, ~ServiceDue(p), NEW r,
         r.tick = Ticked(p).tick, r.cursor = procs[p].cursor
  PROVE  Serves(procs[p], r)
<1> DEFINE q == procs[p]
<1>1. ASSUME NEW s \in ShardSet, q.carries[s] # <<>> PROVE Away(r, s) = Away(q, s) /\ r.tick > q.tick
  <2>1. HasExternal(q)
    BY <1>1 DEF HasExternal
  <2>2. Ticked(p).tick # 0
    BY <2>1 DEF ServiceDue
  <2>3. Ticked(p).tick > q.tick
    BY <2>2, TickedIs
  <2> QED BY <2>3, AwaySame
<1> QED BY <1>1 DEF Serves

LEMMA ServiceServes ==
  ASSUME NEW q, NEW u, Good(u), u.carries = q.carries, u.cursor = q.cursor, HasExternal(u)
  PROVE  Serves(q, AfterExternal(u))
<1> DEFINE r == AfterExternal(u)
<1>1. \A s \in ShardSet : u.carries[s] # <<>> =>
        r.carries[s] = Front(u.carries[s]) \/ Away(r, s) < Away(u, s)
  BY Serviced
<1> HIDE DEF r
<1>2. ASSUME NEW s \in ShardSet, q.carries[s] # <<>>
      PROVE  r.carries[s] = Front(q.carries[s]) \/ Away(r, s) < Away(q, s)
  BY <1>1, <1>2, AwaySame
<1>3. Serves(q, r)
  BY <1>2 DEF Serves
<1> QED BY <1>3 DEF r

(* The processor of the step serves; the others do not tick.               *)
LEMMA StepServes ==
  ASSUME Core, NEW p \in Processors, NEW q, Serves(procs[p], q),
         procs' = [procs EXCEPT ![p] = q]
  PROVE  \A r \in Processors : Serves(procs[r], procs'[r])
<1>1. \A r \in Processors \ {p} : procs'[r] = procs[r]
  BY DEF Processors
<1>2. procs'[p] = q
  BY DEF Processors
<1> QED BY <1>1, <1>2 DEF Serves

LEMMA ScheduleServes ==
  ASSUME Core, NEW p \in Processors, ScheduleStep(p)
  PROVE  \A r \in Processors : Serves(procs[r], procs'[r])
<1>1. /\ Good(Ticked(p)) /\ Ticked(p) \in ProcessorType
      /\ Ticked(p).carries = procs[p].carries
      /\ Ticked(p).inj = procs[p].inj /\ Ticked(p).cursor = procs[p].cursor
  BY TickedIs DEF Good
<1>2. /\ Good(Passed(p)) /\ Passed(p) \in ProcessorType /\ Passed(p).tick = Ticked(p).tick
      /\ Passed(p).carries = procs[p].carries
      /\ Passed(p).inj = procs[p].inj /\ Passed(p).cursor = procs[p].cursor
  BY PassedIs DEF Good
<1>3. CASE StepService(p)
  <2>1. HasExternal(Ticked(p))
    BY <1>1, <1>3, SameService DEF StepService, ServiceDue
  <2>2. Serves(procs[p], AfterExternal(Ticked(p)))
    BY <1>1, <2>1, ServiceServes
  <2> QED BY <1>3, <2>2, StepServes DEF StepService, Return
<1>4. CASE StepRunNext(p)
  <2> DEFINE u == Ticked(p)
             q == [u EXCEPT !.runNext = None, !.hits = 1]
  <2>1. q.tick = u.tick /\ q.cursor = u.cursor
    BY <1>1 DEF ProcessorType
  <2>2. procs' = [procs EXCEPT ![p] = q]
    BY <1>4 DEF StepRunNext, Return
  <2> HIDE DEF q
  <2>3. Serves(procs[p], q)
    BY <1>1, <1>4, <2>1, TickedServes DEF StepRunNext
  <2> QED BY <2>2, <2>3, StepServes
<1>5. CASE StepLocal(p)
  <2> DEFINE u == Passed(p)
             q == [u EXCEPT !.local = Front(@)]
  <2>1. q.tick = u.tick /\ q.cursor = u.cursor
    BY <1>2 DEF ProcessorType
  <2>2. procs' = [procs EXCEPT ![p] = q]
    BY <1>5 DEF StepLocal, Return
  <2> HIDE DEF q
  <2>3. Serves(procs[p], q)
    BY <1>2, <1>5, <2>1, TickedServes DEF StepLocal, PassRunNext
  <2> QED BY <2>2, <2>3, StepServes
<1>6. CASE StepExternal(p)
  <2>1. HasExternal(Passed(p))
    BY <1>2, <1>6, SameService DEF StepExternal
  <2>2. Serves(procs[p], AfterExternal(Passed(p)))
    BY <1>2, <2>1, ServiceServes
  <2> QED BY <1>6, <2>2, StepServes DEF StepExternal, Return
<1>7. CASE StepSteal(p)
  <2>1. PICK v \in Victims(p) :
          procs' = [procs EXCEPT
                      ![p] = [Passed(p) EXCEPT
                                !.local = Tail(SubSeq(procs[v].local, 1, Claimed(procs[v])))],
                      ![v].local = SubSeq(@, Claimed(procs[v]) + 1, Len(@))]
    BY <1>7 DEF StepSteal
  <2> DEFINE u == Passed(p)
             k == Tail(SubSeq(procs[v].local, 1, Claimed(procs[v])))
             q == [u EXCEPT !.local = k]
  <2>2. v \in Processors /\ v # p
    BY DEF Victims, Active
  <2>3. q.tick = u.tick /\ q.cursor = u.cursor
    BY <1>2 DEF ProcessorType
  <2>4. Serves(procs[p], q)
    <3> HIDE DEF q
    <3> QED BY <1>2, <1>7, <2>3, TickedServes DEF StepSteal, PassRunNext
  <2>7. procs'[p] = q /\ \A r \in Processors \ {p, v} : procs'[r] = procs[r]
    BY <2>1, <2>2 DEF Processors
  <2>8. procs'[v] = [procs[v] EXCEPT
                       !.local = SubSeq(procs[v].local, Claimed(procs[v]) + 1, Len(procs[v].local))]
    BY <2>1, <2>2 DEF Processors
  <2>9. procs'[v].tick = procs[v].tick
    BY <2>2, <2>8, ProcessorsAre DEF ProcessorType
  <2> QED BY <2>4, <2>7, <2>9 DEF Serves
<1>8. CASE StepNothing(p)
  <2>1. Serves(procs[p], Passed(p))
    BY <1>2, <1>8, TickedServes DEF StepNothing, PassRunNext
  <2> QED BY <1>8, <2>1, StepServes DEF StepNothing
<1> QED BY <1>3, <1>4, <1>5, <1>6, <1>7, <1>8 DEF ScheduleStep

LEMMA NextServes ==
  ASSUME IInv, [Next]_vars
  PROVE  \A p \in Processors : Serves(procs[p], procs'[p])
<1>1. Core
  BY DEF IInv
<1>2. CASE UNCHANGED procs
  BY <1>2 DEF Serves
<1>3. CASE Request
  <2>1. TicksKept
    BY <1>1, <1>3, PublicationTicks, OtherTicks DEF Request
  <2> QED BY <2>1, TicksServe
<1>4. CASE Execute
  <2>1. UNCHANGED procs \/ \E c \in Coroutines, p \in Processors : Yield(c, p)
    BY <1>4 DEF Execute, Enter, Save, queues
  <2>2. UNCHANGED procs \/ TicksKept
    BY <1>1, <2>1, OtherTicks
  <2> QED BY <1>2, <2>2, TicksServe
<1>5. CASE Schedule
  <2>1. \/ UNCHANGED procs
        \/ \E p \in Processors : ScheduleStep(p)
        \/ TicksKept
    <3>1. \A w \in Workers, p \in Processors :
            LookForWork(w) \/ Park(w) \/ TakeSnapshot(w, p) => UNCHANGED procs
      BY DEF LookForWork, Park, TakeSnapshot, queues
    <3>2. \A w \in Workers : LookForWork(w) \/ Park(w) => UNCHANGED procs
      BY DEF LookForWork, Park, queues
    <3>3. \A i : Unpark(i) => UNCHANGED procs
      BY DEF Unpark, queues
    <3>4. WakeAll => UNCHANGED procs
      BY DEF WakeAll, queues
    <3> QED BY <1>1, <1>5, <3>1, <3>2, <3>3, <3>4, PublicationTicks, OtherTicks DEF Schedule
  <2> QED BY <1>1, <1>2, <2>1, TicksServe, ScheduleServes
<1>6. CASE UNCHANGED vars
  BY <1>2, <1>6 DEF vars, queues
<1> QED BY <1>3, <1>4, <1>5, <1>6 DEF Next

(* Local work, run_next hits and thieves do not starve a remote carry:     *)
(* every step of its processor takes from it, brings the cursor nearer to  *)
(* it, or brings the next service nearer.                                  *)
THEOREM CarriesAreServed == Spec => CarriesServed
<1> DEFINE Served ==
      \A p \in Processors :
        LET q == procs[p]
            r == procs'[p]
        IN  r.tick # q.tick =>
              \A s \in ShardSet :
                q.carries[s] # <<>> =>
                  \/ r.carries[s] = Front(q.carries[s])
                  \/ Away(r, s) < Away(q, s)
                  \/ Away(r, s) = Away(q, s) /\ r.tick > q.tick
<1>1. IInv /\ [Next]_vars => [Served]_vars
  <2>1. IInv /\ [Next]_vars => Served
    BY NextServes DEF Serves
  <2> QED BY <2>1
<1>2. CarriesServed <=> [][Served]_vars
  BY DEF CarriesServed
<1> QED BY <1>1, <1>2, Invariant, PTL DEF Spec
=============================================================================
