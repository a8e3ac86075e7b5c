-------------------------- MODULE MarkCountProofs --------------------------
(***************************************************************************)
(* Proofs about what MarkCycle counts: the credits against the messages    *)
(* that carry them, the mailboxes against the tickets under way, the two   *)
(* sides of every pair of blocks against each other and against the heap,  *)
(* and the rounds of a pass against the work that is left. They stand on   *)
(* the invariant of MarkCycleProofs.                                       *)
(***************************************************************************)
EXTENDS MarkCycleProofs, WellFoundedInduction

(* Sums. MapThenSumSet folds a set in an order of its own choosing; the    *)
(* lemmas show that the order does not matter: a member can be taken off   *)
(* first, and the sum of a disjoint union is the sum of the sums. They     *)
(* hold by induction on the number of members, over sets of numbers that   *)
(* hold 0 and every successor.                                             *)

(* Every nonempty set of numbers has a least member.                       *)
LEMMA Least ==
  ASSUME NEW T, T \subseteq Nat, T # {}
  PROVE \E m \in T : \A k \in T : ~(k < m)
<1> DEFINE R == OpToRel(<, Nat)
<1>1. IsWellFoundedOn(R, Nat) BY NatLessThanWellFounded, Zenon
<1>2. \A k, m \in Nat : k < m => <<k, m>> \in R
  BY DEF OpToRel
<1> HIDE DEF R
<1>3. \E m \in T : \A k \in T : <<k, m>> \notin R
  BY <1>1, WFMin, Zenon
<1> QED BY <1>3, <1>2

(* Induction: a set with 0 and every successor holds every number.         *)
LEMMA SetInduction ==
  ASSUME NEW T, 0 \in T, \A i \in Nat : i \in T => i + 1 \in T
  PROVE  Nat \subseteq T
<1> SUFFICES ASSUME Nat \ T # {} PROVE FALSE
  OBVIOUS
<1>1. PICK m \in Nat \ T : \A k \in Nat \ T : ~(k < m)
  <2> DEFINE U == Nat \ T
  <2>1. U \subseteq Nat /\ U # {} OBVIOUS
  <2> HIDE DEF U
  <2>2. \E m \in U : \A k \in U : ~(k < m) BY <2>1, Least
  <2> QED BY <2>2 DEF U
<1>2. m # 0 /\ m - 1 \in Nat BY <1>1
<1>3. m - 1 \in T BY <1>1, <1>2
<1>4. (m - 1) + 1 \in T BY <1>2, <1>3
<1> QED BY <1>1, <1>2, <1>4

(* SumOf unfolds to the last value of this function on the subsets of S,   *)
(* here up to k members.                                                   *)
Pick(s) == CHOOSE x \in s : TRUE
Level(S, k) == {s \in SUBSET S : Cardinality(s) <= k}
SumStep(f, s) == IF s = {} THEN 0 ELSE Pick(s).delta + f[s \ {Pick(s)}]
SumFcn(f, S, k) == f = [s \in Level(S, k) |-> SumStep(f, s)]

\* Subsets of a finite set, and one member less.
LEMMA LevelFacts ==
  ASSUME NEW S, IsFiniteSet(S)
  PROVE  /\ \A s \in SUBSET S : IsFiniteSet(s) /\ Cardinality(s) \in Nat
         /\ \A s \in SUBSET S : \A x \in s :
              s \ {x} \in SUBSET S /\ Cardinality(s \ {x}) = Cardinality(s) - 1
         /\ \A s \in SUBSET S : s = {} <=> Cardinality(s) = 0
         /\ Level(S, Cardinality(S)) = SUBSET S
<1>1. \A s \in SUBSET S : IsFiniteSet(s) /\ Cardinality(s) \in Nat /\ Cardinality(s) <= Cardinality(S)
  BY FS_Subset, FS_CardinalityType
<1>2. \A s \in SUBSET S : \A x \in s : Cardinality(s \ {x}) = Cardinality(s) - 1
  BY <1>1, FS_RemoveElement
<1>3. \A s \in SUBSET S : s = {} <=> Cardinality(s) = 0
  BY <1>1, FS_EmptySet
<1> QED BY <1>1, <1>2, <1>3 DEF Level

\* The function that sums subsets of up to k members exists ...
LEMMA SumExists ==
  ASSUME NEW S, IsFiniteSet(S)
  PROVE  \A k \in Nat : \E f : SumFcn(f, S, k)
<1> DEFINE T == {k \in Nat : \E f : SumFcn(f, S, k)}
<1>1. 0 \in T
  <2> DEFINE f == [s \in Level(S, 0) |-> 0]
  <2>1. \A s \in Level(S, 0) : s = {} BY LevelFacts DEF Level
  <2>2. \A s \in Level(S, 0) : f[s] = SumStep(f, s) BY <2>1 DEF SumStep
  <2>3. SumFcn(f, S, 0)
    <3>1. f = [s \in Level(S, 0) |-> f[s]] OBVIOUS
    <3> HIDE DEF f
    <3> QED BY <3>1, <2>2 DEF SumFcn
  <2> QED BY <2>3
<1>2. ASSUME NEW k \in Nat, k \in T PROVE k + 1 \in T
  <2>1. PICK f : SumFcn(f, S, k) BY <1>2
  <2> DEFINE g == [s \in Level(S, k + 1) |-> IF Cardinality(s) = k + 1 THEN SumStep(f, s) ELSE f[s]]
  <2>2. \A s \in Level(S, k + 1) : g[s] = SumStep(g, s)
    <3> TAKE s \in Level(S, k + 1)
    <3>1. s \in SUBSET S /\ Cardinality(s) \in Nat /\ Cardinality(s) <= k + 1
      BY LevelFacts DEF Level
    <3>2. CASE s = {}
      <4>1. Cardinality(s) = 0 BY <3>1, <3>2, LevelFacts
      <4>2. s \in Level(S, k) BY <3>1, <4>1 DEF Level
      <4>3. g[s] = f[s] BY <4>1
      <4>4. f[s] = SumStep(f, s) BY <2>1, <4>2 DEF SumFcn
      <4> HIDE DEF g
      <4> QED BY <4>3, <4>4, <3>2 DEF SumStep
    <3>3. CASE s # {}
      <4> DEFINE t == s \ {Pick(s)}
      <4>0. Pick(s) \in s BY <3>3 DEF Pick
      <4>1. t \in SUBSET S /\ Cardinality(t) = Cardinality(s) - 1 BY <3>1, <4>0, LevelFacts
      <4>2. t \in Level(S, k) /\ t \in Level(S, k + 1) /\ Cardinality(t) # k + 1
        BY <3>1, <4>1 DEF Level
      <4>3. g[t] = f[t] BY <4>2
      <4>4. SumStep(g, s) = SumStep(f, s) BY <3>3, <4>3 DEF SumStep
      <4>5. CASE Cardinality(s) = k + 1 BY <4>4, <4>5
      <4>6. CASE Cardinality(s) # k + 1
        <5>1. s \in Level(S, k) BY <3>1, <4>6 DEF Level
        <5>2. f[s] = SumStep(f, s) BY <2>1, <5>1 DEF SumFcn
        <5>3. g[s] = f[s] BY <4>6
        <5> QED BY <5>2, <5>3, <4>4
      <4> QED BY <4>5, <4>6
    <3> QED BY <3>2, <3>3
  <2>3. SumFcn(g, S, k + 1)
    <3>1. g = [s \in Level(S, k + 1) |-> g[s]] OBVIOUS
    <3> HIDE DEF g
    <3> QED BY <3>1, <2>2 DEF SumFcn
  <2> HIDE DEF g
  <2> QED BY <2>3
<1> HIDE DEF T
<1>3. Nat \subseteq T BY <1>1, <1>2, SetInduction
<1> QED BY <1>3 DEF T

\* ... and SumOf is its value on the whole set.
LEMMA SumUnfold ==
  ASSUME NEW S, IsFiniteSet(S)
  PROVE  \E f : SumOf(S) = f[S] /\ \A s \in SUBSET S : f[s] = SumStep(f, s)
<1> DEFINE F == CHOOSE f : f = [s \in SUBSET S |->
        IF s = {} THEN 0
        ELSE (CHOOSE x \in s : TRUE).delta + f[s \ {CHOOSE x \in s : TRUE}]]
<1>1. \E f : f = [s \in SUBSET S |->
        IF s = {} THEN 0
        ELSE (CHOOSE x \in s : TRUE).delta + f[s \ {CHOOSE x \in s : TRUE}]]
  <2>1. Cardinality(S) \in Nat BY FS_CardinalityType
  <2>2. PICK f : SumFcn(f, S, Cardinality(S)) BY <2>1, SumExists
  <2>3. f = [s \in SUBSET S |-> SumStep(f, s)] BY <2>2, LevelFacts DEF SumFcn
  <2> QED BY <2>3 DEF SumStep, Pick
<1>2. SumOf(S) = F[S] BY DEF SumOf, MapThenSumSet, MapThenFoldSet
<1>3. F = [s \in SUBSET S |-> SumStep(F, s)]
  BY <1>1 DEF SumStep, Pick
<1> HIDE DEF F
<1>4. \A s \in SUBSET S : F[s] = SumStep(F, s) BY <1>3
<1> QED BY <1>2, <1>4

Summable(S) == IsFiniteSet(S) /\ \A r \in S : r.delta \in Int
Sums(f, S) == \A s \in SUBSET S : f[s] = SumStep(f, s)

\* The sum of integers is an integer.
LEMMA SumIsInt ==
  ASSUME NEW S, Summable(S), NEW f, Sums(f, S)
  PROVE  \A s \in SUBSET S : f[s] \in Int
<1> DEFINE T == {k \in Nat : \A s \in SUBSET S : Cardinality(s) = k => f[s] \in Int}
<1>0. /\ \A s \in SUBSET S : Cardinality(s) \in Nat
      /\ \A s \in SUBSET S : \A x \in s :
           s \ {x} \in SUBSET S /\ Cardinality(s \ {x}) = Cardinality(s) - 1
      /\ \A s \in SUBSET S : s = {} <=> Cardinality(s) = 0
  BY LevelFacts DEF Summable
<1>1. 0 \in T
  <2>1. f[{}] = 0 BY DEF SumStep, Sums
  <2>2. \A s \in SUBSET S : Cardinality(s) = 0 => s = {} BY <1>0
  <2> QED BY <2>1, <2>2
<1>2. ASSUME NEW k \in Nat, k \in T PROVE k + 1 \in T
  <2>1. ASSUME NEW s \in SUBSET S, Cardinality(s) = k + 1 PROVE f[s] \in Int
    <3>1. s # {} BY <1>0, <2>1
    <3>2. Pick(s) \in s BY <3>1 DEF Pick
    <3>3. f[s] = Pick(s).delta + f[s \ {Pick(s)}] BY <3>1 DEF SumStep, Sums
    <3>4. s \ {Pick(s)} \in SUBSET S /\ Cardinality(s \ {Pick(s)}) = k BY <1>0, <2>1, <3>2
    <3>5. Pick(s).delta \in Int BY <3>2 DEF Summable
    <3>6. f[s \ {Pick(s)}] \in Int BY <1>2, <3>4
    <3> QED BY <3>3, <3>5, <3>6
  <2> QED BY <2>1
<1>3. Nat \subseteq T BY <1>1, <1>2, SetInduction
<1> QED BY <1>0, <1>3

(* The sum does not depend on the order in which members are picked.       *)
LEMMA AnyOrder ==
  ASSUME NEW S, Summable(S), NEW f, Sums(f, S)
  PROVE  \A s \in SUBSET S : \A x \in s : f[s] = x.delta + f[s \ {x}]
<1> DEFINE P(s) == \A x \in s : f[s] = x.delta + f[s \ {x}]
           T == {k \in Nat : \A s \in SUBSET S : Cardinality(s) = k => P(s)}
<1>0. /\ \A s \in SUBSET S : Cardinality(s) \in Nat
      /\ \A s \in SUBSET S : \A x \in s :
           s \ {x} \in SUBSET S /\ Cardinality(s \ {x}) = Cardinality(s) - 1
      /\ \A s \in SUBSET S : s = {} <=> Cardinality(s) = 0
  BY LevelFacts DEF Summable
<1>i. \A s \in SUBSET S : f[s] \in Int BY SumIsInt
<1>1. 0 \in T BY <1>0
<1>2. ASSUME NEW k \in Nat, k \in T PROVE k + 1 \in T
  <2>1. ASSUME NEW s \in SUBSET S, Cardinality(s) = k + 1 PROVE P(s)
    <3> PICK y : y = Pick(s) OBVIOUS
    <3>1. s # {} BY <1>0, <2>1
    <3>2. y \in s BY <3>1 DEF Pick
    <3>3. f[s] = y.delta + f[s \ {y}] BY <3>1 DEF SumStep, Sums
    <3>4. \A x \in s : s \ {x} \in SUBSET S /\ Cardinality(s \ {x}) = k BY <1>0, <2>1
    <3> HIDE DEF P
    <3>5. \A x \in s : P(s \ {x}) BY <1>2, <3>4
    <3>6. \A x \in s : x.delta \in Int BY DEF Summable
    <3>8. ASSUME NEW x \in s PROVE f[s] = x.delta + f[s \ {x}]
      <4>1. CASE x = y BY <4>1, <3>3
      <4>2. CASE x # y
        <5> DEFINE u == (s \ {y}) \ {x}
        <5>1. u = (s \ {x}) \ {y} OBVIOUS
        <5>2. x \in s \ {y} /\ y \in s \ {x} BY <4>2, <3>2
        <5>3. f[s \ {y}] = x.delta + f[u] BY <3>2, <3>5, <5>2 DEF P
        <5>5. u \in SUBSET S OBVIOUS
        <5> HIDE DEF u
        <5>4. f[s \ {x}] = y.delta + f[u] BY <3>5, <5>1, <5>2 DEF P
        <5> QED BY <1>i, <3>2, <3>3, <3>6, <5>3, <5>4, <5>5
      <4> QED BY <4>1, <4>2
    <3> QED BY <3>8 DEF P
  <2>2. \A s \in SUBSET S : Cardinality(s) = k + 1 => P(s) BY <2>1
  <2> HIDE DEF P
  <2> QED BY <2>2
<1>3. Nat \subseteq T BY <1>1, <1>2, SetInduction
<1> QED BY <1>0, <1>3

(* Two such functions agree on what both sum.                              *)
LEMMA SumsAgree ==
  ASSUME NEW S, IsFiniteSet(S), NEW R \in SUBSET S, NEW f, NEW g, Sums(f, S), Sums(g, R)
  PROVE  \A s \in SUBSET R : f[s] = g[s]
<1> DEFINE T == {k \in Nat : \A s \in SUBSET R : Cardinality(s) = k => f[s] = g[s]}
<1>0. /\ \A s \in SUBSET S : Cardinality(s) \in Nat
      /\ \A s \in SUBSET S : \A x \in s :
           s \ {x} \in SUBSET S /\ Cardinality(s \ {x}) = Cardinality(s) - 1
      /\ \A s \in SUBSET S : s = {} <=> Cardinality(s) = 0
  BY LevelFacts
<1>1. 0 \in T BY <1>0 DEF SumStep, Sums
<1>2. ASSUME NEW k \in Nat, k \in T PROVE k + 1 \in T
  <2>1. ASSUME NEW s \in SUBSET R, Cardinality(s) = k + 1 PROVE f[s] = g[s]
    <3> PICK t : t = s \ {Pick(s)} OBVIOUS
    <3>1. s # {} /\ s \in SUBSET S BY <1>0, <2>1
    <3>2. Pick(s) \in s BY <3>1 DEF Pick
    <3>3. t \in SUBSET R /\ Cardinality(t) = k BY <1>0, <2>1, <3>1, <3>2
    <3>4. f[t] = g[t] BY <1>2, <3>3
    <3>5. f[s] = Pick(s).delta + f[t] /\ g[s] = Pick(s).delta + g[t]
      BY <3>1 DEF Sums, SumStep
    <3> QED BY <3>4, <3>5
  <2> QED BY <2>1
<1>3. Nat \subseteq T BY <1>1, <1>2, SetInduction
<1> QED BY <1>0, <1>3

\* Any member can be taken off the sum.
LEMMA SumRemoves ==
  ASSUME NEW S, Summable(S)
  PROVE  /\ SumOf(S) \in Int
         /\ S = {} => SumOf(S) = 0
         /\ \A x \in S : SumOf(S) = x.delta + SumOf(S \ {x})
<1>0. IsFiniteSet(S) BY DEF Summable
<1>1. PICK f : SumOf(S) = f[S] /\ Sums(f, S) BY <1>0, SumUnfold DEF Sums
<1>2. SumOf(S) \in Int BY <1>1, SumIsInt
<1>3. S = {} => SumOf(S) = 0 BY <1>1 DEF Sums, SumStep
<1>4. ASSUME NEW x \in S PROVE SumOf(S) = x.delta + SumOf(S \ {x})
  <2> PICK R : R = S \ {x} OBVIOUS
  <2>1. R \in SUBSET S /\ IsFiniteSet(R) BY <1>0, FS_Subset
  <2>2. PICK g : SumOf(R) = g[R] /\ Sums(g, R) BY <2>1, SumUnfold DEF Sums
  <2>3. f[R] = g[R] BY <1>0, <1>1, <2>1, <2>2, SumsAgree
  <2>4. f[S] = x.delta + f[R] BY <1>1, AnyOrder
  <2> QED BY <1>1, <2>2, <2>3, <2>4
<1> QED BY <1>2, <1>3, <1>4

(* The sum of a disjoint union.                                            *)
LEMMA SumDisjoint ==
  ASSUME NEW A, NEW B, Summable(A), Summable(B), A \intersect B = {}
  PROVE  Summable(A \union B) /\ SumOf(A \union B) = SumOf(A) + SumOf(B)
<1> DEFINE T == {k \in Nat : \A s \in SUBSET B : Cardinality(s) = k =>
                   SumOf(A \union s) = SumOf(A) + SumOf(s)}
<1>0. /\ \A s \in SUBSET B : Cardinality(s) \in Nat
      /\ \A s \in SUBSET B : \A x \in s :
           s \ {x} \in SUBSET B /\ Cardinality(s \ {x}) = Cardinality(s) - 1
      /\ \A s \in SUBSET B : s = {} <=> Cardinality(s) = 0
  BY LevelFacts DEF Summable
<1>f. \A s \in SUBSET B : Summable(s) /\ Summable(A \union s)
  BY FS_Subset, FS_Union DEF Summable
<1>1. 0 \in T
  <2>0. \A s \in SUBSET B : Cardinality(s) = 0 => s = {} BY <1>0
  <2>1. A \union {} = A OBVIOUS
  <2>2. SumOf({}) = 0 BY <1>f, SumRemoves
  <2>3. SumOf(A) \in Int BY SumRemoves
  <2>4. SumOf(A \union {}) = SumOf(A) + SumOf({}) BY <2>1, <2>2, <2>3
  <2> QED BY <2>0, <2>4
<1>2. ASSUME NEW k \in Nat, k \in T PROVE k + 1 \in T
  <2>1. ASSUME NEW s \in SUBSET B, Cardinality(s) = k + 1
        PROVE  SumOf(A \union s) = SumOf(A) + SumOf(s)
    <3>1. PICK x \in s : TRUE BY <1>0, <2>1
    <3> PICK t : t = s \ {x} OBVIOUS
    <3>2. t \in SUBSET B /\ Cardinality(t) = k BY <1>0, <2>1, <3>1
    <3>3. (A \union s) \ {x} = A \union t BY <3>1
    <3>4. SumOf(A \union s) = x.delta + SumOf(A \union t) BY <1>f, <3>1, <3>3, SumRemoves
    <3>5. SumOf(s) = x.delta + SumOf(t) BY <1>f, <3>1, SumRemoves
    <3>6. SumOf(A \union t) = SumOf(A) + SumOf(t) BY <1>2, <3>2
    <3>7. SumOf(A) \in Int /\ SumOf(t) \in Int /\ x.delta \in Int
      BY <1>f, <3>1, <3>2, SumRemoves DEF Summable
    <3> QED BY <3>4, <3>5, <3>6, <3>7
  <2> QED BY <2>1
<1>3. Nat \subseteq T BY <1>1, <1>2, SetInduction
<1>4. B \in SUBSET B OBVIOUS
<1> QED BY <1>0, <1>3, <1>4, <1>f

-----------------------------------------------------------------------------
(* What the target of a pair of blocks has not applied yet: the deltas     *)
(* under way and those it keeps. With what it has applied they make up     *)
(* what the source has published.                                          *)
NotApplied(ds, pl, p) == {ds[p][k] : k \in 1 .. Len(ds[p])} \union pl[p].held

Ledger(sm, ds, pl) ==
  \A p \in Pairs :
    /\ IsFiniteSet(pl[p].held) /\ pl[p].applied \in Int /\ pl[p].next \in Nat
    /\ pl[p].applied + SumOf(NotApplied(ds, pl, p)) = sm[p].published

\* Membership, for the steps that compare two of these sets.
LEMMA NotAppliedMembers ==
  ASSUME NEW ds, NEW pl, NEW p
  PROVE  \A x : x \in NotApplied(ds, pl, p) <=> x \in pl[p].held \/ \E k \in 1 .. Len(ds[p]) : x = ds[p][k]
BY DEF NotApplied

\* They are finitely many records, so they can be summed.
LEMMA NotAppliedFacts ==
  ASSUME NEW pool, NEW ts, NEW ds, NEW pl, PoolTypes(pool, ts, ds, pl),
         NEW p \in Pairs, IsFiniteSet(pl[p].held)
  PROVE  /\ NotApplied(ds, pl, p) \subseteq Delta
         /\ \A R \in SUBSET NotApplied(ds, pl, p) : Summable(R)
<1>1. NotApplied(ds, pl, p) \subseteq Delta
  <2>1. ds[p] \in Seq(Delta) BY DEF PoolTypes
  <2>2. pl[p].held \subseteq Delta BY DEF PoolTypes, PlaneTypes
  <2> QED BY <2>1, <2>2 DEF NotApplied
<1>2. IsFiniteSet(NotApplied(ds, pl, p))
  <2>1. Len(ds[p]) \in Nat BY DEF PoolTypes
  <2>2. IsFiniteSet(1 .. Len(ds[p])) BY <2>1, FS_Interval
  <2> DEFINE T == {ds[p][k] : k \in 1 .. Len(ds[p])}
             f == [k \in 1 .. Len(ds[p]) |-> ds[p][k]]
  <2>3. f \in Surjection(1 .. Len(ds[p]), T) BY DEF Surjection
  <2> HIDE DEF f
  <2>4. IsFiniteSet(T) BY <2>2, <2>3, FS_Surjection
  <2> QED BY <2>4, FS_Union DEF NotApplied
<1>3. \A d \in Delta : d.delta \in Int BY DEF Delta
<1> QED BY <1>1, <1>2, <1>3, FS_Subset DEF Summable

\* What happens to one pair of blocks is nothing to the others.
LEMMA OtherPairs ==
  ASSUME NEW ds, NEW pl, NEW es, NEW ql, NEW p, es[p] = ds[p], ql[p] = pl[p]
  PROVE  NotApplied(es, ql, p) = NotApplied(ds, pl, p)
BY DEF NotApplied

(* A delta that is published: its change joins the sum.                    *)
LEMMA LedgerPublished ==
  ASSUME NEW pool, NEW ts, NEW ds, NEW pl, PoolTypes(pool, ts, ds, pl),
         Credits(pool, ts, ds, pl), NEW sm, Ledger(sm, ds, pl),
         sm \in [Pairs -> [active : Int, published : Int, sequence : Nat]],
         NEW p \in Pairs, NEW d \in Delta, pool[d.credit] = Free, d.delta = NetChange(sm[p])
  PROVE  Ledger([sm EXCEPT ![p] = Published(sm[p])], [ds EXCEPT ![p] = Append(@, d)], pl)
<1> DEFINE es == [ds EXCEPT ![p] = Append(@, d)]
           tm == [sm EXCEPT ![p] = Published(sm[p])]
<1>1. /\ es[p] = Append(ds[p], d) /\ \A q \in Pairs : q # p => es[q] = ds[q] /\ tm[q] = sm[q]
      /\ ds[p] \in Seq(Delta) /\ tm[p] = Published(sm[p])
  BY DEF PoolTypes
<1> HIDE DEF es, tm
<1>2. tm[p].published = sm[p].active BY <1>1 DEF Published, Entry
<1>3. NotApplied(es, pl, p) = NotApplied(ds, pl, p) \union {d}
  <2>1. /\ Len(es[p]) = Len(ds[p]) + 1 /\ Len(ds[p]) \in Nat
        /\ \A k \in 1 .. Len(ds[p]) : es[p][k] = ds[p][k]
        /\ es[p][Len(ds[p]) + 1] = d
    BY <1>1, AppendProperties
  <2>2. \A x : (\E k \in 1 .. Len(es[p]) : x = es[p][k]) <=> x = d \/ \E k \in 1 .. Len(ds[p]) : x = ds[p][k]
    <3>1. \A k \in 1 .. Len(es[p]) : k \in 1 .. Len(ds[p]) \/ k = Len(ds[p]) + 1 BY <2>1
    <3>2. Len(ds[p]) + 1 \in 1 .. Len(es[p]) /\ 1 .. Len(ds[p]) \subseteq 1 .. Len(es[p]) BY <2>1
    <3> QED BY <2>1, <3>1, <3>2
  <2>3. \A x : x \in NotApplied(es, pl, p) <=> x \in pl[p].held \/ \E k \in 1 .. Len(es[p]) : x = es[p][k]
    BY NotAppliedMembers
  <2>4. \A x : x \in NotApplied(ds, pl, p) <=> x \in pl[p].held \/ \E k \in 1 .. Len(ds[p]) : x = ds[p][k]
    BY NotAppliedMembers
  <2>5. \A x : x \in NotApplied(es, pl, p) <=> x \in NotApplied(ds, pl, p) \/ x = d BY <2>2, <2>3, <2>4
  <2> QED BY <2>5
<1>4. d \notin NotApplied(ds, pl, p)
  <2>1. \A f \in Families : ~Backed(pool, d.credit, f) BY FreeIsUnused
  <2>2. \A x \in NotApplied(ds, pl, p) : Backed(pool, x.credit, "EdgeDelta")
    BY DEF NotApplied, Credits, DeltaCredits, KeptCredits
  <2> QED BY <2>1, <2>2 DEF Families
<1>5. /\ IsFiniteSet(pl[p].held) /\ pl[p].applied \in Int
      /\ pl[p].applied + SumOf(NotApplied(ds, pl, p)) = sm[p].published
  BY DEF Ledger
<1>6. Summable(NotApplied(ds, pl, p)) BY <1>5, NotAppliedFacts
<1>7. Summable(NotApplied(es, pl, p))
  <2>1. IsFiniteSet(NotApplied(es, pl, p))
    <3>1. IsFiniteSet(NotApplied(ds, pl, p)) BY <1>6 DEF Summable
    <3>2. IsFiniteSet(NotApplied(ds, pl, p) \union {d}) BY <3>1, FS_AddElement
    <3> QED BY <1>3, <3>2
  <2>2. d.delta \in Int BY DEF Delta
  <2> QED BY <1>3, <1>6, <2>1, <2>2 DEF Summable
<1>8. NotApplied(es, pl, p) \ {d} = NotApplied(ds, pl, p) BY <1>3, <1>4
<1>9. SumOf(NotApplied(es, pl, p)) = d.delta + SumOf(NotApplied(ds, pl, p))
  <2>1. d \in NotApplied(es, pl, p) BY <1>3
  <2>2. \A x \in NotApplied(es, pl, p) : SumOf(NotApplied(es, pl, p)) = x.delta + SumOf(NotApplied(es, pl, p) \ {x})
    BY <1>7, SumRemoves
  <2>3. SumOf(NotApplied(es, pl, p)) = d.delta + SumOf(NotApplied(es, pl, p) \ {d}) BY <2>1, <2>2
  <2> QED BY <2>3, <1>8
<1>10. SumOf(NotApplied(ds, pl, p)) \in Int /\ sm[p].active \in Int /\ sm[p].published \in Int
  BY <1>6, SumRemoves
<1>11. pl[p].applied + SumOf(NotApplied(es, pl, p)) = tm[p].published
  BY <1>2, <1>5, <1>9, <1>10 DEF NetChange
<1>12. \A q \in Pairs : q # p => NotApplied(es, pl, q) = NotApplied(ds, pl, q)
  <2>1. ASSUME NEW q \in Pairs, q # p PROVE NotApplied(es, pl, q) = NotApplied(ds, pl, q)
    <3>1. es[q] = ds[q] BY <1>1, <2>1
    <3> QED BY <3>1, OtherPairs
  <2> QED BY <2>1
<1>13. Ledger(tm, es, pl)
  BY <1>1, <1>11, <1>12 DEF Ledger
<1> QED BY <1>13 DEF es, tm

SameLedger(sm, ds, pl, es, ql) ==
  Ledger(sm, es, ql) /\ \A q \in Pairs : NotApplied(es, ql, q) = NotApplied(ds, pl, q)

(* A delta that is kept changes its place only.                            *)
LEMMA LedgerKept ==
  ASSUME NEW pool, NEW ts, NEW ds, NEW pl, PoolTypes(pool, ts, ds, pl),
         NEW sm, Ledger(sm, ds, pl), NEW p \in Pairs, ds[p] # << >>
  PROVE  SameLedger(sm, ds, pl, [ds EXCEPT ![p] = Tail(@)],
                    [pl EXCEPT ![p] = Hold(@, Head(ds[p]))])
<1> DEFINE es == [ds EXCEPT ![p] = Tail(@)]
           ql == [pl EXCEPT ![p] = Hold(@, Head(ds[p]))]
           d == Head(ds[p])
<1>1. /\ d \in Delta /\ 1 \in 1 .. Len(ds[p]) /\ d = ds[p][1]
      /\ \A q \in Pairs : q # p => es[q] = ds[q]
      /\ \A k \in 1 .. Len(es[p]) : k + 1 \in 1 .. Len(ds[p]) /\ es[p][k] = ds[p][k + 1]
  BY HeadTaken DEF PoolTypes
<1>2. ds[p] \in Seq(Delta) /\ es[p] = Tail(ds[p]) BY DEF PoolTypes
<1>3. Len(es[p]) = Len(ds[p]) - 1 /\ Len(ds[p]) \in Nat
  <2> PICK u : u = ds[p] OBVIOUS
  <2>1. u \in Seq(Delta) /\ u # << >> BY <1>2
  <2>2. Len(Tail(u)) = Len(u) - 1 /\ Len(u) \in Nat BY <2>1, HeadTailProperties
  <2> QED BY <1>2, <2>2
<1>4. ql[p] = [applied |-> pl[p].applied, next |-> pl[p].next, held |-> pl[p].held \union {d}]
  <2>1. pl[p] = [applied |-> pl[p].applied, next |-> pl[p].next, held |-> pl[p].held]
    BY DEF PoolTypes, PlaneTypes
  <2>2. ql[p] = Hold(pl[p], d) BY DEF PoolTypes, PlaneTypes
  <2> QED BY <2>1, <2>2, HoldIsRecord
<1>5. \A q \in Pairs : q # p => ql[q] = pl[q] BY DEF PoolTypes, PlaneTypes
<1> HIDE DEF es, ql, d
<1>6. NotApplied(es, ql, p) = NotApplied(ds, pl, p)
  <2>1. \A x : (\E k \in 1 .. Len(ds[p]) : x = ds[p][k]) <=> x = d \/ \E k \in 1 .. Len(es[p]) : x = es[p][k]
    <3>1. \A k \in 1 .. Len(ds[p]) : k = 1 \/ (k - 1 \in 1 .. Len(es[p]) /\ es[p][k - 1] = ds[p][k])
      BY <1>1, <1>3
    <3>2. ASSUME NEW k \in 1 .. Len(ds[p])
          PROVE  ds[p][k] = d \/ \E l \in 1 .. Len(es[p]) : ds[p][k] = es[p][l]
      BY <1>1, <3>1
    <3>3. \A k \in 1 .. Len(es[p]) : \E l \in 1 .. Len(ds[p]) : es[p][k] = ds[p][l] BY <1>1
    <3>4. \E l \in 1 .. Len(ds[p]) : d = ds[p][l] BY <1>1
    <3> DEFINE old(x) == \E k \in 1 .. Len(ds[p]) : x = ds[p][k]
               new(x) == \E k \in 1 .. Len(es[p]) : x = es[p][k]
    <3>5. \A x : old(x) => x = d \/ new(x) BY <3>2
    <3>6. \A x : new(x) => old(x) BY <3>3
    <3>7. old(d) BY <3>4
    <3> HIDE DEF old, new
    <3>8. \A x : old(x) <=> x = d \/ new(x) BY <3>5, <3>6, <3>7
    <3> QED BY <3>8 DEF old, new
  <2>2. ql[p].held = pl[p].held \union {d} BY <1>4
  <2>3. \A x : x \in NotApplied(es, ql, p) <=> x \in ql[p].held \/ \E k \in 1 .. Len(es[p]) : x = es[p][k]
    BY NotAppliedMembers
  <2>4. \A x : x \in NotApplied(ds, pl, p) <=> x \in pl[p].held \/ \E k \in 1 .. Len(ds[p]) : x = ds[p][k]
    BY NotAppliedMembers
  <2>5. \A x : x \in NotApplied(es, ql, p) <=> x \in NotApplied(ds, pl, p) BY <2>1, <2>2, <2>3, <2>4
  <2> QED BY <2>5
<1>7. \A q \in Pairs : NotApplied(es, ql, q) = NotApplied(ds, pl, q)
  <2>1. ASSUME NEW q \in Pairs, q # p PROVE NotApplied(es, ql, q) = NotApplied(ds, pl, q)
    <3>1. es[q] = ds[q] /\ ql[q] = pl[q] BY <1>1, <1>5, <2>1
    <3> QED BY <3>1, OtherPairs
  <2> QED BY <1>6, <2>1
<1>8. IsFiniteSet(ql[p].held)
  <2>1. IsFiniteSet(pl[p].held) BY DEF Ledger
  <2> QED BY <1>4, <2>1, FS_AddElement
<1>9. Ledger(sm, es, ql)
  <2>1. ql[p].applied = pl[p].applied /\ ql[p].next = pl[p].next BY <1>4
  <2> QED BY <2>1, <1>5, <1>7, <1>8 DEF Ledger
<1>10. SameLedger(sm, ds, pl, es, ql) BY <1>7, <1>9 DEF SameLedger
<1> QED BY <1>10 DEF es, ql, d

(* What an applied delta leaves on the pair, and what it takes.            *)
Splits(ds, pl, es, ql, p, d, turn) ==
  /\ NotApplied(ds, pl, p) = (NotApplied(es, ql, p) \union turn) \union {d}
  /\ NotApplied(es, ql, p) \intersect turn = {}
  /\ d \notin NotApplied(es, ql, p) \union turn
  /\ \A q \in Pairs : q # p => NotApplied(es, ql, q) = NotApplied(ds, pl, q)

\* The head of the queue and the kept records it releases leave together.
LEMMA AppliedSplits ==
  ASSUME NEW pool, NEW ts, NEW ds, NEW pl, PoolTypes(pool, ts, ds, pl),
         Credits(pool, ts, ds, pl), NEW p \in Pairs, ds[p] # << >>
  PROVE  Splits(ds, pl, [ds EXCEPT ![p] = Tail(@)],
                [pl EXCEPT ![p] = ApplyInOrder(@, Head(ds[p]))],
                p, Head(ds[p]), InTurn(pl[p].held, Head(ds[p]).sequence))
<1> DEFINE es == [ds EXCEPT ![p] = Tail(@)]
           ql == [pl EXCEPT ![p] = ApplyInOrder(@, Head(ds[p]))]
           d == Head(ds[p])
           turn == InTurn(pl[p].held, d.sequence)
<1>1. /\ d \in Delta /\ 1 \in 1 .. Len(ds[p]) /\ d = ds[p][1]
      /\ \A q \in Pairs : q # p => es[q] = ds[q]
      /\ \A k \in 1 .. Len(es[p]) : k + 1 \in 1 .. Len(ds[p]) /\ es[p][k] = ds[p][k + 1]
  BY HeadTaken DEF PoolTypes
<1>2. \A k \in 1 .. Len(es[p]) :
        /\ es[p][k].credit # d.credit
        /\ \A h \in pl[p].held : h.credit # es[p][k].credit
  BY RestIsOther
<1>3. ds[p] \in Seq(Delta) /\ es[p] = Tail(ds[p]) BY DEF PoolTypes
<1>4. Len(es[p]) = Len(ds[p]) - 1 /\ Len(ds[p]) \in Nat
  <2> PICK u : u = ds[p] OBVIOUS
  <2>1. u \in Seq(Delta) /\ u # << >> BY <1>3
  <2>2. Len(Tail(u)) = Len(u) - 1 /\ Len(u) \in Nat BY <2>1, HeadTailProperties
  <2> QED BY <1>3, <2>2
<1>5. turn \subseteq pl[p].held BY DEF InTurn
<1>6. ql[p].held = pl[p].held \ turn /\ \A q \in Pairs : q # p => ql[q] = pl[q]
  BY DEF PoolTypes, PlaneTypes, ApplyInOrder
<1>7. \A h \in pl[p].held : h # d
  BY <1>1 DEF Credits, KeptCredits
<1> HIDE DEF es, ql, d, turn
<1>8. \A x : x \in NotApplied(es, ql, p) <=> x \in ql[p].held \/ \E k \in 1 .. Len(es[p]) : x = es[p][k]
  BY NotAppliedMembers
<1>9. \A x : x \in NotApplied(ds, pl, p) <=> x \in pl[p].held \/ \E k \in 1 .. Len(ds[p]) : x = ds[p][k]
  BY NotAppliedMembers
<1> DEFINE old(x) == \E k \in 1 .. Len(ds[p]) : x = ds[p][k]
           new(x) == \E k \in 1 .. Len(es[p]) : x = es[p][k]
<1>10. \A x : old(x) <=> x = d \/ new(x)
  <2>1. \A k \in 1 .. Len(ds[p]) : k = 1 \/ (k - 1 \in 1 .. Len(es[p]) /\ es[p][k - 1] = ds[p][k])
    BY <1>1, <1>4
  <2>2. ASSUME NEW k \in 1 .. Len(ds[p])
        PROVE  ds[p][k] = d \/ \E l \in 1 .. Len(es[p]) : ds[p][k] = es[p][l]
    BY <1>1, <2>1
  <2>3. \A k \in 1 .. Len(es[p]) : \E l \in 1 .. Len(ds[p]) : es[p][k] = ds[p][l] BY <1>1
  <2>4. \E l \in 1 .. Len(ds[p]) : d = ds[p][l] BY <1>1
  <2>5. \A x : old(x) => x = d \/ new(x) BY <2>2
  <2>6. \A x : new(x) => old(x) BY <2>3
  <2>7. old(d) BY <2>4
  <2> HIDE DEF old, new
  <2> QED BY <2>5, <2>6, <2>7
<1>11. \A x : new(x) => x # d /\ x \notin pl[p].held BY <1>2
<1> HIDE DEF old, new
<1>12. \A x : x \in NotApplied(es, ql, p) <=> x \in ql[p].held \/ new(x) BY <1>8 DEF new
<1>13. \A x : x \in NotApplied(ds, pl, p) <=> x \in pl[p].held \/ old(x) BY <1>9 DEF old
<1>14. NotApplied(ds, pl, p) = (NotApplied(es, ql, p) \union turn) \union {d}
  BY <1>5, <1>6, <1>10, <1>12, <1>13
<1>15. NotApplied(es, ql, p) \intersect turn = {}
  BY <1>5, <1>6, <1>11, <1>12
<1>16. d \notin NotApplied(es, ql, p) \union turn
  BY <1>5, <1>6, <1>7, <1>11, <1>12
<1>17. \A q \in Pairs : q # p => NotApplied(es, ql, q) = NotApplied(ds, pl, q)
  <2>1. ASSUME NEW q \in Pairs, q # p PROVE NotApplied(es, ql, q) = NotApplied(ds, pl, q)
    <3>1. es[q] = ds[q] /\ ql[q] = pl[q] BY <1>1, <1>6, <2>1
    <3> QED BY <3>1, OtherPairs
  <2> QED BY <2>1
<1>18. Splits(ds, pl, es, ql, p, d, turn) BY <1>14, <1>15, <1>16, <1>17 DEF Splits
<1> QED BY <1>18 DEF es, ql, d, turn

(* A delta that is applied, with those it releases: their changes move     *)
(* from the sum into the count.                                            *)
LEMMA LedgerApplied ==
  ASSUME NEW pool, NEW ts, NEW ds, NEW pl, PoolTypes(pool, ts, ds, pl),
         Credits(pool, ts, ds, pl), NEW sm, Ledger(sm, ds, pl), NEW p \in Pairs, ds[p] # << >>
  PROVE  LET es == [ds EXCEPT ![p] = Tail(@)]
             ql == [pl EXCEPT ![p] = ApplyInOrder(@, Head(ds[p]))]
         IN  Ledger(sm, es, ql)
<1> DEFINE es == [ds EXCEPT ![p] = Tail(@)]
           ql == [pl EXCEPT ![p] = ApplyInOrder(@, Head(ds[p]))]
           d == Head(ds[p])
           turn == InTurn(pl[p].held, d.sequence)
           rest == NotApplied(es, ql, p)
           all == NotApplied(ds, pl, p)
<1>1. /\ all = (rest \union turn) \union {d}
      /\ rest \intersect turn = {} /\ d \notin rest \union turn
      /\ \A q \in Pairs : q # p => NotApplied(es, ql, q) = NotApplied(ds, pl, q)
  <2>1. Splits(ds, pl, es, ql, p, d, turn) BY AppliedSplits
  <2> HIDE DEF es, ql, d, turn
  <2> QED BY <2>1 DEF Splits
<1>2. d \in Delta BY HeadTaken DEF PoolTypes
<1>3. turn \subseteq pl[p].held BY DEF InTurn
<1>4. /\ ql[p].applied = pl[p].applied + d.delta + SumOf(turn)
      /\ ql[p].next = d.sequence + 1 + Cardinality(turn)
      /\ ql[p].held = pl[p].held \ turn
      /\ \A q \in Pairs : q # p => ql[q] = pl[q]
  BY DEF PoolTypes, PlaneTypes, ApplyInOrder
<1>5. /\ IsFiniteSet(pl[p].held) /\ pl[p].applied \in Int
      /\ pl[p].applied + SumOf(all) = sm[p].published
  BY DEF Ledger
<1>6. \A R \in SUBSET all : Summable(R) BY <1>5, NotAppliedFacts
<1> HIDE DEF es, ql, d, turn, rest, all
<1>7. Summable(rest) /\ Summable(turn) /\ Summable(rest \union turn) /\ Summable(all)
  BY <1>1, <1>6
<1>8. SumOf(rest \union turn) = SumOf(rest) + SumOf(turn) BY <1>1, <1>7, SumDisjoint
<1>9. SumOf(all) = d.delta + SumOf(rest \union turn)
  <2>1. \A x \in all : SumOf(all) = x.delta + SumOf(all \ {x}) BY <1>7, SumRemoves
  <2>2. d \in all /\ all \ {d} = rest \union turn BY <1>1
  <2> QED BY <2>1, <2>2
<1>10. SumOf(rest) \in Int /\ SumOf(turn) \in Int BY <1>7, SumRemoves
<1>11. d.delta \in Int /\ d.sequence \in Nat BY <1>2 DEF Delta
<1>12. IsFiniteSet(turn) /\ IsFiniteSet(ql[p].held) BY <1>3, <1>4, <1>5, FS_Subset
<1>13. Cardinality(turn) \in Nat BY <1>12, FS_CardinalityType
<1>14. /\ ql[p].applied \in Int /\ ql[p].next \in Nat
       /\ ql[p].applied + SumOf(rest) = sm[p].published
  <2>1. ql[p].applied \in Int BY <1>4, <1>5, <1>10, <1>11
  <2>2. ql[p].next \in Nat BY <1>4, <1>11, <1>13
  <2>3. SumOf(all) = d.delta + (SumOf(rest) + SumOf(turn)) BY <1>8, <1>9
  <2>4. ql[p].applied + SumOf(rest) = pl[p].applied + SumOf(all)
    BY <1>4, <1>5, <1>10, <1>11, <2>3
  <2> QED BY <1>5, <2>1, <2>2, <2>4
<1>15. ASSUME NEW q \in Pairs
       PROVE  /\ IsFiniteSet(ql[q].held) /\ ql[q].applied \in Int /\ ql[q].next \in Nat
              /\ ql[q].applied + SumOf(NotApplied(es, ql, q)) = sm[q].published
  <2>1. CASE q = p BY <2>1, <1>12, <1>14 DEF rest
  <2>2. CASE q # p
    <3>1. NotApplied(es, ql, q) = NotApplied(ds, pl, q) /\ ql[q] = pl[q] BY <2>2, <1>1, <1>4
    <3> QED BY <3>1 DEF Ledger
  <2> QED BY <2>1, <2>2
<1>16. Ledger(sm, es, ql) BY <1>15 DEF Ledger
<1> QED BY <1>16 DEF es, ql, d

(* Forgetting the pairs whose count is zero changes no sum.                *)
LEMMA LedgerRetired ==
  ASSUME NEW ds, NEW pl, PlaneTypes(pl), NEW sm, Ledger(sm, ds, pl)
  PROVE  Ledger(sm, ds, RetireZeroPairs(pl)) /\
         \A q \in Pairs : NotApplied(ds, RetireZeroPairs(pl), q) = NotApplied(ds, pl, q)
<1> DEFINE ql == RetireZeroPairs(pl)
<1>1. ASSUME NEW q \in Pairs
      PROVE  /\ ql[q].held = pl[q].held /\ ql[q].applied = pl[q].applied
             /\ ql[q].next = pl[q].next \/ ql[q].next = 1
  BY DEF RetireZeroPairs, NewPair
<1> HIDE DEF ql
<1>2. \A q \in Pairs : NotApplied(ds, ql, q) = NotApplied(ds, pl, q) BY <1>1 DEF NotApplied
<1>3. Ledger(sm, ds, ql)
  <2>1. 1 \in Nat OBVIOUS
  <2> QED BY <1>1, <1>2, <2>1 DEF Ledger
<1> QED BY <1>2, <1>3 DEF ql

-----------------------------------------------------------------------------
(* The other half of Credits: every credit in flight is carried by a       *)
(* message, and a mailbox counts the tickets on their way to its owner.    *)
(* Every credit in flight has a message that carries it.                   *)
CarriedBy(pool, ts, ds, pl) ==
  \A s \in Slots : pool[s].state = "InFlight" =>
    \/ \E t \in ts : t.credit = s
    \/ \E p \in Pairs : \E d \in NotApplied(ds, pl, p) : d.credit = s

(* The mailbox of an owner counts the tickets on their way to it.          *)
TicketsTo(ts, w) == {t \in ts : OwnerOf(t.object) = w}
Boxes(box, ts) ==
  /\ IsFiniteSet(ts)
  /\ box \in [Owners -> Nat]
  /\ \A w \in Owners : box[w] = Cardinality(TicketsTo(ts, w))

\* A ticket carries the credit it was given.
LEMMA CarriedTicket ==
  ASSUME NEW pool \in Pools, ~Exhausted(pool), NEW ts, NEW ds, NEW pl,
         CarriedBy(pool, ts, ds, pl), NEW v \in Owners, NEW w \in Owners, NEW o
  PROVE  CarriedBy(AcquireWork(pool, v, w, "MarkTicket"),
                   ts \union {[credit |-> NextCredit(pool), object |-> o]}, ds, pl)
<1> DEFINE n == NextCredit(pool)
           new == AcquireWork(pool, v, w, "MarkTicket")
           t0 == [credit |-> n, object |-> o]
<1>1. \A s \in Slots \ {n} : new[s] = pool[s] BY Acquired DEF Families
<1>2. t0.credit = n OBVIOUS
<1> HIDE DEF n, new, t0
<1>3. CarriedBy(new, ts \union {t0}, ds, pl)
  BY <1>1, <1>2 DEF CarriedBy
<1> QED BY <1>3 DEF n, new, t0

\* A served ticket leaves its credit consumed, no longer in flight.
LEMMA CarriedServed ==
  ASSUME NEW pool \in Pools, NEW ts, NEW ds, NEW pl,
         CarriedBy(pool, ts, ds, pl), NEW t \in ts, t.credit \in Slots, pool[t.credit] # Free
  PROVE  CarriedBy(ConsumeWork(pool, t.credit), ts \ {t}, ds, pl)
<1> DEFINE new == ConsumeWork(pool, t.credit)
<1>1. \A s \in Slots \ {t.credit} : new[s] = pool[s] BY DEF ConsumeWork, Pools
<1>2. new[t.credit].state = "Done"
  <2>1. pool[t.credit] \in Credit BY DEF Pools
  <2>2. new[t.credit] = [pool[t.credit] EXCEPT !.state = "Done"] BY DEF ConsumeWork, Pools
  <2> QED BY <2>1, <2>2 DEF Credit
<1> HIDE DEF new
<1>3. CarriedBy(new, ts \ {t}, ds, pl) BY <1>1, <1>2 DEF CarriedBy
<1> QED BY <1>3 DEF new

\* Returned credits are in flight no more.
LEMMA CarriedSettled ==
  ASSUME NEW pool, NEW ts, NEW ds, NEW pl, CarriedBy(pool, ts, ds, pl), NEW S
  PROVE  CarriedBy(ReturnWork(pool, S), ts, ds, pl)
<1>1. \A s \in Slots : ReturnWork(pool, S)[s] \in {Free, pool[s]} BY DEF ReturnWork
<1>2. Free.state # "InFlight" BY DEF Free
<1> QED BY <1>1, <1>2 DEF CarriedBy

\* A published delta carries the credit it was given.
LEMMA CarriedPublished ==
  ASSUME NEW pool, NEW ts, NEW ds, NEW pl, PoolTypes(pool, ts, ds, pl),
         CarriedBy(pool, ts, ds, pl), ~Exhausted(pool),
         NEW v \in Owners, NEW w \in Owners,
         NEW p \in Pairs, NEW d \in Delta, d.credit = NextCredit(pool)
  PROVE  CarriedBy(AcquireWork(pool, v, w, "EdgeDelta"), ts,
                   [ds EXCEPT ![p] = Append(@, d)], pl)
<1> DEFINE n == NextCredit(pool)
           new == AcquireWork(pool, v, w, "EdgeDelta")
           es == [ds EXCEPT ![p] = Append(@, d)]
<1>1. \A s \in Slots \ {n} : new[s] = pool[s] BY Acquired DEF Families, PoolTypes
<1>2. d.credit = n OBVIOUS
<1>3. /\ es[p] = Append(ds[p], d) /\ ds[p] \in Seq(Delta)
      /\ \A q \in Pairs : q # p => es[q] = ds[q]
  BY DEF PoolTypes
<1> HIDE DEF n, new, es
<1>4. /\ Len(es[p]) = Len(ds[p]) + 1 /\ Len(ds[p]) \in Nat
      /\ \A k \in 1 .. Len(ds[p]) : es[p][k] = ds[p][k]
      /\ es[p][Len(ds[p]) + 1] = d
  BY <1>3, AppendProperties
<1>5. \A q \in Pairs : \A x \in NotApplied(ds, pl, q) : x \in NotApplied(es, pl, q)
  <2>1. ASSUME NEW q \in Pairs, NEW k \in 1 .. Len(ds[q]) PROVE \E l \in 1 .. Len(es[q]) : ds[q][k] = es[q][l]
    <3>1. CASE q = p
      <4>1. k \in 1 .. Len(es[p]) BY <1>4, <3>1
      <4> QED BY <1>4, <3>1, <4>1
    <3>2. CASE q # p BY <1>3, <3>2
    <3> QED BY <3>1, <3>2
  <2> QED BY <2>1, NotAppliedMembers
<1>6. d \in NotApplied(es, pl, p)
  <2>1. Len(ds[p]) + 1 \in 1 .. Len(es[p]) BY <1>4
  <2> QED BY <2>1, <1>4, NotAppliedMembers
<1>7. CarriedBy(new, ts, es, pl)
  BY <1>1, <1>2, <1>5, <1>6 DEF CarriedBy
<1> QED BY <1>7 DEF new, es

\* A record that is kept instead of under way still carries its credit.
LEMMA CarriedElsewhere ==
  ASSUME NEW pool, NEW ts, NEW ds, NEW pl, NEW es, NEW ql, CarriedBy(pool, ts, ds, pl),
         \A q \in Pairs : NotApplied(es, ql, q) = NotApplied(ds, pl, q)
  PROVE  CarriedBy(pool, ts, es, ql)
BY DEF CarriedBy

\* Applied records give back the credits they carried.
LEMMA CarriedApplied ==
  ASSUME NEW pool, NEW ts, NEW ds, NEW pl, PoolTypes(pool, ts, ds, pl),
         Credits(pool, ts, ds, pl), CarriedBy(pool, ts, ds, pl), NEW p \in Pairs, ds[p] # << >>
  PROVE  LET es == [ds EXCEPT ![p] = Tail(@)]
             ql == [pl EXCEPT ![p] = ApplyInOrder(@, Head(ds[p]))]
         IN  CarriedBy(ReturnWork(pool, ReleasedCredits(pl[p], Head(ds[p]))), ts, es, ql)
<1> DEFINE es == [ds EXCEPT ![p] = Tail(@)]
           ql == [pl EXCEPT ![p] = ApplyInOrder(@, Head(ds[p]))]
           d == Head(ds[p])
           turn == InTurn(pl[p].held, d.sequence)
           back == ReleasedCredits(pl[p], d)
           new == ReturnWork(pool, back)
<1>1. /\ NotApplied(ds, pl, p) = (NotApplied(es, ql, p) \union turn) \union {d}
      /\ \A q \in Pairs : q # p => NotApplied(es, ql, q) = NotApplied(ds, pl, q)
  <2>1. Splits(ds, pl, es, ql, p, d, turn) BY AppliedSplits
  <2> HIDE DEF es, ql, d, turn
  <2> QED BY <2>1 DEF Splits
<1>2. \A x \in turn \union {d} : x.credit \in back BY DEF ReleasedCredits
<1>3. \A s \in Slots : new[s] = IF s \in back THEN Free ELSE pool[s] BY DEF ReturnWork
<1>4. Free.state # "InFlight" BY DEF Free
<1> HIDE DEF es, ql, d, turn, back, new
<1>5. ASSUME NEW s \in Slots, new[s].state = "InFlight"
      PROVE  \/ \E t \in ts : t.credit = s
             \/ \E q \in Pairs : \E x \in NotApplied(es, ql, q) : x.credit = s
  <2>1. s \notin back /\ pool[s].state = "InFlight" BY <1>3, <1>4, <1>5
  <2>2. CASE \E t \in ts : t.credit = s BY <2>2
  <2>3. ASSUME NEW q \in Pairs, NEW x \in NotApplied(ds, pl, q), x.credit = s
        PROVE  x \in NotApplied(es, ql, q)
    <3>1. CASE q = p BY <3>1, <2>3, <2>1, <1>1, <1>2
    <3>2. CASE q # p BY <3>2, <1>1
    <3> QED BY <3>1, <3>2
  <2> QED BY <2>1, <2>2, <2>3 DEF CarriedBy
<1>6. CarriedBy(new, ts, es, ql) BY <1>5 DEF CarriedBy
<1> QED BY <1>6 DEF es, ql, d, back, new

\* A ticket is counted when it is published ...
LEMMA BoxesPublished ==
  ASSUME NEW box, NEW ts, Boxes(box, ts), NEW t, t \notin ts, OwnerOf(t.object) \in Owners
  PROVE  Boxes([box EXCEPT ![OwnerOf(t.object)] = @ + 1], ts \union {t})
<1> DEFINE w == OwnerOf(t.object)
           new == [box EXCEPT ![w] = @ + 1]
<1>1. IsFiniteSet(ts \union {t}) BY FS_AddElement DEF Boxes
<1>2. new[w] = box[w] + 1 /\ (\A v \in Owners : v # w => new[v] = box[v]) /\ new \in [Owners -> Nat]
  BY DEF Boxes
<1> HIDE DEF new
<1>3. ASSUME NEW v \in Owners PROVE new[v] = Cardinality(TicketsTo(ts \union {t}, v))
  <2>1. CASE v = w
    <3>1. TicketsTo(ts \union {t}, v) = TicketsTo(ts, v) \union {t} BY <2>1 DEF TicketsTo
    <3>2. t \notin TicketsTo(ts, v) /\ IsFiniteSet(TicketsTo(ts, v)) BY FS_Subset DEF TicketsTo, Boxes
    <3>3. Cardinality(TicketsTo(ts, v) \union {t}) = Cardinality(TicketsTo(ts, v)) + 1 BY <3>2, FS_AddElement
    <3> QED BY <1>2, <2>1, <3>1, <3>3 DEF Boxes
  <2>2. CASE v # w
    <3>1. TicketsTo(ts \union {t}, v) = TicketsTo(ts, v) BY <2>2 DEF TicketsTo
    <3> QED BY <1>2, <2>2, <3>1 DEF Boxes
  <2> QED BY <2>1, <2>2
<1> QED BY <1>1, <1>2, <1>3 DEF Boxes, new

\* ... and no longer once it is consumed.
LEMMA BoxesConsumed ==
  ASSUME NEW box, NEW ts, Boxes(box, ts), NEW t \in ts, OwnerOf(t.object) \in Owners
  PROVE  Boxes([box EXCEPT ![OwnerOf(t.object)] = @ - 1], ts \ {t})
<1> DEFINE w == OwnerOf(t.object)
           new == [box EXCEPT ![w] = @ - 1]
<1>1. IsFiniteSet(ts \ {t}) BY FS_RemoveElement DEF Boxes
<1>2. new[w] = box[w] - 1 /\ (\A v \in Owners : v # w => new[v] = box[v])
  BY DEF Boxes
<1>3. \A v \in Owners : IsFiniteSet(TicketsTo(ts, v)) BY FS_Subset DEF TicketsTo, Boxes
<1>4. t \in TicketsTo(ts, w) BY DEF TicketsTo
<1>5. Cardinality(TicketsTo(ts, w)) \in Nat /\ Cardinality(TicketsTo(ts, w)) # 0
  BY <1>3, <1>4, FS_CardinalityType, FS_EmptySet
<1>6. new \in [Owners -> Nat] BY <1>5 DEF Boxes
<1> HIDE DEF new
<1>7. ASSUME NEW v \in Owners PROVE new[v] = Cardinality(TicketsTo(ts \ {t}, v))
  <2>1. CASE v = w
    <3>1. TicketsTo(ts \ {t}, v) = TicketsTo(ts, v) \ {t} BY <2>1 DEF TicketsTo
    <3>2. Cardinality(TicketsTo(ts, v) \ {t}) = Cardinality(TicketsTo(ts, v)) - 1
      BY <1>3, <1>4, <2>1, FS_RemoveElement
    <3> QED BY <1>2, <2>1, <3>1, <3>2 DEF Boxes
  <2>2. CASE v # w
    <3>1. TicketsTo(ts \ {t}, v) = TicketsTo(ts, v) BY <2>2 DEF TicketsTo
    <3> QED BY <1>2, <2>2, <3>1 DEF Boxes
  <2> QED BY <2>1, <2>2
<1> QED BY <1>1, <1>6, <1>7 DEF Boxes, new

-----------------------------------------------------------------------------
(* These three facts along the steps of the cycle.                         *)
MsgInv ==
  /\ Ledger(summary, deltas, plane)
  /\ CarriedBy(credits, tickets, deltas, plane)
  /\ Boxes(mailbox, tickets)

\* The parts of IInv that concern messages.
LEMMA Backing ==
  ASSUME IInv
  PROVE  /\ PoolTypes(credits, tickets, deltas, plane)
         /\ Credits(credits, tickets, deltas, plane)
         /\ credits \in Pools /\ PlaneTypes(plane)
         /\ summary \in [Pairs -> [active : Int, published : Int, sequence : Nat]]
BY DEF IInv, Typing, PoolTypes

\* Steps that touch no message and publish nothing.
LEMMA MsgSame ==
  ASSUME MsgInv, UNCHANGED <<tickets, mailbox, credits, deltas, plane>>,
         \A p \in Pairs : summary'[p].published = summary[p].published
  PROVE  MsgInv'
<1>1. Ledger(summary, deltas, plane)' BY DEF MsgInv, Ledger
<1> QED BY <1>1 DEF MsgInv

\* Pairs whose count is zero are forgotten at the end of a cycle.
LEMMA MsgRetired ==
  ASSUME IInv, MsgInv, UNCHANGED <<tickets, mailbox, credits, deltas, summary>>,
         plane' = RetireZeroPairs(plane)
  PROVE  MsgInv'
<1>1. /\ Ledger(summary, deltas, plane')
      /\ \A q \in Pairs : NotApplied(deltas, plane', q) = NotApplied(deltas, plane, q)
  BY Backing, LedgerRetired DEF MsgInv
<1>2. CarriedBy(credits, tickets, deltas, plane') BY <1>1, CarriedElsewhere DEF MsgInv
<1> QED BY <1>1, <1>2 DEF MsgInv

\* A ticket is taken from an inbox.
LEMMA MsgServeTicket ==
  ASSUME IInv, MsgInv, NEW t \in tickets, ServeTicket(t)
  PROVE  MsgInv'
<1>1. CASE Fail
  BY <1>1, MsgSame DEF Fail, markVars, edgeVars
<1>2. CASE ~Fail
  <2>1. /\ ConsumeTicket(t, OwnerOf(t.object))
        /\ ValidConsume(credits, t.credit, "MarkTicket", OwnerOf(t.object))
        /\ UNCHANGED <<summary, deltas, plane>>
    BY <1>2 DEF ServeTicket, edgeVars
  <2>2. t.credit \in Slots /\ t.object \in Objects /\ OwnerOf(t.object) \in Owners
    BY MarkAssumption DEF IInv, Typing, OwnerOf
  <2>3. credits[t.credit] # Free BY <2>1 DEF ValidConsume, ValidInFlight, Free
  <2>4. CarriedBy(credits', tickets', deltas, plane)
    BY <2>1, <2>2, <2>3, Backing, CarriedServed DEF MsgInv, ConsumeTicket
  <2>5. Boxes(mailbox', tickets')
    BY <2>1, <2>2, BoxesConsumed DEF MsgInv, ConsumeTicket
  <2> QED BY <2>1, <2>4, <2>5 DEF MsgInv
<1> QED BY <1>1, <1>2

\* A delta is applied or kept.
LEMMA MsgServeDelta ==
  ASSUME IInv, MsgInv, NEW p \in Pairs, ServeDelta(p)
  PROVE  MsgInv'
<1>1. CASE Fail
  BY <1>1, MsgSame DEF Fail, markVars, edgeVars
<1>2. CASE ~Fail
  <2>1. /\ deltas[p] # << >>
        /\ ApplyDelta(p) \/ HoldDelta(p)
        /\ deltas' = [deltas EXCEPT ![p] = Tail(@)]
        /\ UNCHANGED <<tickets, mailbox, summary>>
    BY <1>2 DEF ServeDelta, markVars
  <2>2. Ledger(summary, deltas', plane') /\ CarriedBy(credits', tickets, deltas', plane')
    <3>1. CASE ApplyDelta(p)
      <4>1. /\ plane' = [plane EXCEPT ![p] = ApplyInOrder(@, Head(deltas[p]))]
            /\ credits' = ReturnWork(credits, ReleasedCredits(plane[p], Head(deltas[p])))
        BY <3>1 DEF ApplyDelta
      <4>2. Ledger(summary, deltas', plane')
        BY <2>1, <4>1, Backing, LedgerApplied DEF MsgInv
      <4>3. CarriedBy(credits', tickets, deltas', plane')
        BY <2>1, <4>1, Backing, CarriedApplied DEF MsgInv
      <4> QED BY <4>2, <4>3
    <3>2. CASE HoldDelta(p)
      <4>1. /\ plane' = [plane EXCEPT ![p] = Hold(@, Head(deltas[p]))]
            /\ credits' = credits
        BY <3>2 DEF HoldDelta
      <4>2. /\ Ledger(summary, deltas', plane')
            /\ \A q \in Pairs : NotApplied(deltas', plane', q) = NotApplied(deltas, plane, q)
        <5>1. SameLedger(summary, deltas, plane, [deltas EXCEPT ![p] = Tail(@)],
                         [plane EXCEPT ![p] = Hold(@, Head(deltas[p]))])
          BY <2>1, Backing, LedgerKept DEF MsgInv
        <5>2. SameLedger(summary, deltas, plane, deltas', plane') BY <2>1, <4>1, <5>1
        <5> QED BY <5>2 DEF SameLedger
      <4>3. CarriedBy(credits, tickets, deltas', plane') BY <4>2, CarriedElsewhere DEF MsgInv
      <4> QED BY <4>1, <4>2, <4>3
    <3> QED BY <2>1, <3>1, <3>2
  <2> QED BY <2>1, <2>2 DEF MsgInv
<1> QED BY <1>1, <1>2

\* A net change is published.
LEMMA MsgPublishDelta ==
  ASSUME IInv, MsgInv, NEW p \in Pairs, PublishDelta(p)
  PROVE  MsgInv'
<1>1. CASE Exhausted(credits)
  <2>1. Fail BY <1>1 DEF PublishDelta
  <2> QED BY <2>1, MsgSame DEF Fail, markVars, edgeVars
<1>2. CASE ~Exhausted(credits)
  <2> DEFINE d == [sequence |-> summary[p].sequence + 1, delta |-> NetChange(summary[p]),
                   credit |-> NextCredit(credits), stale |-> skew # 0]
  <2>1. /\ summary' = [summary EXCEPT ![p] = Published(summary[p])]
        /\ deltas' = [deltas EXCEPT ![p] = Append(@, d)]
        /\ credits' = AcquireWork(credits, HeapOf[p[1]], HeapOf[p[2]], "EdgeDelta")
        /\ UNCHANGED <<tickets, mailbox, plane>>
    BY <1>2 DEF PublishDelta, markVars
  <2>2. HeapOf[p[1]] \in Owners /\ HeapOf[p[2]] \in Owners
    BY MarkAssumption DEF Pairs
  <2>3. NextCredit(credits) \in Slots /\ credits[NextCredit(credits)] = Free
    BY <1>2, Backing, NextIsFree
  <2>4. /\ summary[p] \in [active : Int, published : Int, sequence : Nat]
        /\ NetChange(summary[p]) \in Int
    BY Backing DEF NetChange
  <2>5. d \in Delta /\ d.credit = NextCredit(credits) /\ d.delta = NetChange(summary[p])
    BY <2>3, <2>4 DEF Delta
  <2> HIDE DEF d
  <2>6. Ledger(summary', deltas', plane)
    BY <2>1, <2>3, <2>5, Backing, LedgerPublished DEF MsgInv
  <2>7. CarriedBy(credits', tickets, deltas', plane)
    BY <1>2, <2>1, <2>2, <2>5, Backing, CarriedPublished DEF MsgInv
  <2> QED BY <2>1, <2>6, <2>7 DEF MsgInv
<1> QED BY <1>1, <1>2

\* A field of another owner becomes a ticket.
LEMMA MsgScanField ==
  ASSUME IInv, MsgInv, NEW x \in Fields, ScanField(x)
  PROVE  MsgInv'
<1> PICK v : v = fields[scan.object][x] OBVIOUS
<1>1. CASE Fail
  BY <1>1, MsgSame DEF Fail, markVars, edgeVars
<1>2. CASE UNCHANGED <<tickets, mailbox, credits, edgeVars>>
  BY <1>2, MsgSame DEF edgeVars
<1>3. CASE ~Fail /\ ~UNCHANGED <<tickets, mailbox, credits, edgeVars>>
  <2>1. /\ phase = "worklist" /\ x \in scan.todo
        /\ v # Null /\ ~Exhausted(credits) /\ PublishTicket(v)
        /\ UNCHANGED edgeVars
    BY <1>3 DEF ScanField, PushLocal
  <2>2. scan # Idle BY <2>1 DEF Idle
  <2>3. v \in Objects /\ at \in Owners
    <3>1. scan.object \in marked /\ at \in Owners BY <2>1, <2>2 DEF IInv, Control
    <3> QED BY <2>1, <3>1 DEF IInv, Typing
  <2>4. OwnerOf(v) \in Owners BY <2>3, MarkAssumption DEF OwnerOf
  <2> DEFINE t == [credit |-> NextCredit(credits), object |-> v]
  <2>5. t.object = v /\ t.credit = NextCredit(credits) OBVIOUS
  <2>6. t \notin tickets
    <3>1. credits[NextCredit(credits)] = Free BY <2>1, Backing, NextIsFree
    <3>2. ~Backed(credits, NextCredit(credits), "MarkTicket") BY <3>1, FreeIsUnused
    <3> QED BY <2>5, <3>2, Backing DEF Credits, TicketCredits
  <2>7. /\ tickets' = tickets \union {t}
        /\ mailbox' = [mailbox EXCEPT ![OwnerOf(v)] = @ + 1]
        /\ credits' = AcquireWork(credits, at, OwnerOf(v), "MarkTicket")
    BY <2>1 DEF PublishTicket
  <2>8. CarriedBy(credits', tickets', deltas, plane)
    BY <2>1, <2>3, <2>4, <2>7, Backing, CarriedTicket DEF MsgInv
  <2> HIDE DEF t
  <2>9. Boxes(mailbox', tickets')
    BY <2>4, <2>5, <2>6, <2>7, BoxesPublished DEF MsgInv
  <2> QED BY <2>1, <2>8, <2>9 DEF MsgInv, edgeVars
<1> QED BY <1>1, <1>2, <1>3

\* A cycle begins with empty mailboxes: no ticket is under way.
LEMMA MsgBeginCycle ==
  ASSUME IInv, MsgInv, BeginCycle
  PROVE  MsgInv'
<1>1. CASE Fail
  BY <1>1, MsgSame DEF Fail, markVars, edgeVars
<1>2. CASE ~Fail
  <2>1. /\ Pending(credits) = {} /\ mailbox' = [w \in Owners |-> 0]
        /\ UNCHANGED <<tickets, credits, edgeVars>>
    BY <1>2 DEF BeginCycle
  <2>2. tickets = {}
    <3>1. \A t \in tickets : t.credit \in Slots /\ Backed(credits, t.credit, "MarkTicket")
      BY Backing, CreditsAreSlots DEF Credits, TicketCredits
    <3> QED BY <2>1, <3>1 DEF Pending, Backed, Free
  <2>3. Boxes(mailbox', tickets)
    <3>1. \A w \in Owners : TicketsTo(tickets, w) = {} BY <2>2 DEF TicketsTo
    <3>2. Cardinality({}) = 0 /\ IsFiniteSet({}) BY FS_EmptySet
    <3>3. \A w \in Owners : Cardinality(TicketsTo(tickets, w)) = 0 BY <3>1, <3>2
    <3>4. IsFiniteSet(tickets) BY <2>2, <3>2
    <3> QED BY <2>1, <3>3, <3>4 DEF Boxes
  <2> QED BY <2>1, <2>3 DEF MsgInv, edgeVars
<1> QED BY <1>1, <1>2

\* The end of a round returns consumed credits only.
LEMMA MsgEndRound ==
  ASSUME IInv, MsgInv, EndRound
  PROVE  MsgInv'
<1>1. /\ credits' = ReturnWork(credits, Settleable(credits, scope))
      /\ UNCHANGED <<tickets, mailbox, summary, deltas, plane>>
  BY DEF EndRound, SettleOwners, markVars, edgeVars
<1>2. CarriedBy(credits', tickets, deltas, plane) BY <1>1, CarriedSettled DEF MsgInv
<1> QED BY <1>1, <1>2 DEF MsgInv

\* What merging a store into the summary does to one pair.
LEMMA MergedKeepsPublished ==
  ASSUME NEW s \in [Pairs -> [active : Int, published : Int, sequence : Nat]],
         NEW b, NEW old, NEW new, NEW p \in Pairs
  PROVE  /\ Merged(s, b, old, new)[p].published = s[p].published
         /\ p \in Added(b, new) => Merged(s, b, old, new)[p].active = s[p].active + 1
         /\ p \in Removed(b, old, new) \ Added(b, new) =>
              Merged(s, b, old, new)[p].active = s[p].active - 1
         /\ p \notin Removed(b, old, new) \union Added(b, new) =>
              Merged(s, b, old, new)[p].active = s[p].active
<1> DEFINE n == CASE p \in Added(b, new)        -> s[p].active + 1
                  [] p \in Removed(b, old, new) -> s[p].active - 1
                  [] OTHER                      -> s[p].active
<1>1. Merged(s, b, old, new)[p] = [s[p] EXCEPT !.active = n] BY DEF Merged
<1>2. s[p] \in [active : Int, published : Int, sequence : Nat] OBVIOUS
<1>3. /\ p \in Added(b, new) => n = s[p].active + 1
      /\ p \in Removed(b, old, new) \ Added(b, new) => n = s[p].active - 1
      /\ p \notin Removed(b, old, new) \union Added(b, new) => n = s[p].active
  <2>0. p \in Added(b, new) => p \notin Removed(b, old, new) BY DEF Added, Removed
  <2>1. p \in Added(b, new) => n = s[p].active + 1 BY <2>0
  <2>2. p \in Removed(b, old, new) /\ p \notin Added(b, new) => n = s[p].active - 1 OBVIOUS
  <2>3. p \notin Removed(b, old, new) /\ p \notin Added(b, new) => n = s[p].active OBVIOUS
  <2> QED BY <2>1, <2>2, <2>3
<1> HIDE DEF n
<1>4. /\ Merged(s, b, old, new)[p].published = s[p].published
      /\ Merged(s, b, old, new)[p].active = n
  BY <1>1, <1>2
<1> QED BY <1>3, <1>4

\* Mutators send nothing.
LEMMA MsgMutate ==
  ASSUME IInv, MsgInv, Mutate
  PROVE  MsgInv'
<1>1. UNCHANGED <<tickets, mailbox, credits, deltas, plane>>
  BY DEF Mutate, Store, SetRoot, AllocateIntoRoot, AllocateIntoField, MinorCycle,
         markVars, edgeVars
<1>2. \A p \in Pairs : summary'[p].published = summary[p].published
  <2>1. summary \in [Pairs -> [active : Int, published : Int, sequence : Nat]] BY Backing
  <2>2. \/ summary' = summary
        \/ \E b, old, new : summary' = Merged(summary, b, old, new)
    BY DEF Mutate, Store, SetRoot, AllocateIntoRoot, AllocateIntoField, MinorCycle, edgeVars
  <2> QED BY <2>1, <2>2, MergedKeepsPublished
<1> QED BY <1>1, <1>2, MsgSame

\* Every step of the collector.
LEMMA MsgCollect ==
  ASSUME IInv, MsgInv, Collect
  PROVE  MsgInv'
<1>1. CASE \E t \in tickets : ServeTicket(t) BY <1>1, MsgServeTicket
<1>2. CASE \E p \in Pairs : ServeDelta(p) \/ PublishDelta(p)
  BY <1>2, MsgServeDelta, MsgPublishDelta
<1>3. CASE BeginCycle BY <1>3, MsgBeginCycle
<1>4. CASE \E x \in Fields : ScanField(x) BY <1>4, MsgScanField
<1>5. CASE EndRound BY <1>5, MsgEndRound
<1>6. CASE Drained \/ AllPublished \/ Visit \/ WorklistEmpty \/ Continue \/ RemarkComplete
  <2>1. UNCHANGED <<tickets, mailbox, credits, deltas, plane, summary>>
    BY <1>6 DEF Drained, AllPublished, Visit, WorklistEmpty, Continue, RemarkComplete, Go,
                markVars, edgeVars
  <2> QED BY <2>1, MsgSame
<1>7. CASE \E o \in Objects : PopMark(o)
  <2>1. UNCHANGED <<tickets, mailbox, credits, deltas, plane, summary>>
    BY <1>7 DEF PopMark, Fail, markVars, edgeVars
  <2> QED BY <2>1, MsgSame
<1>8. CASE FinishMajor
  <2>1. UNCHANGED <<tickets, mailbox, credits, deltas, plane, summary>>
    BY <1>8 DEF FinishMajor, FinishMarkCycle
  <2> QED BY <2>1, MsgSame
<1>9. CASE FinishCycle \/ KeepOpen
  <2>1. /\ UNCHANGED <<tickets, mailbox, credits, deltas, summary>>
        /\ plane' = RetireZeroPairs(plane)
    BY <1>9 DEF FinishCycle, KeepOpen, FinishMarkCycle, markVars
  <2> QED BY <2>1, MsgRetired
<1> QED BY <1>1, <1>2, <1>3, <1>4, <1>5, <1>6, <1>7, <1>8, <1>9 DEF Collect

\* Every step.
LEMMA MsgStep ==
  ASSUME IInv, MsgInv, [Next]_vars
  PROVE  MsgInv'
<1>1. CASE Call
  <2>1. UNCHANGED <<tickets, mailbox, credits, deltas, plane, summary>>
    BY <1>1 DEF Call, CallCycle, CallBounded, CallMajor, StartDrain, Go, markVars, edgeVars
  <2> QED BY <2>1, MsgSame
<1>2. CASE UNCHANGED vars
  <2>1. UNCHANGED <<tickets, mailbox, credits, deltas, plane, summary>>
    BY <1>2 DEF vars, markVars, edgeVars
  <2> QED BY <2>1, MsgSame
<1> QED BY <1>1, <1>2, MsgMutate, MsgCollect DEF Next

-----------------------------------------------------------------------------
(* The references there are, for a heap of its own.                        *)
Refs(al, f, p) ==
  {ox \in al \X Fields : BlockOf[ox[1]] = p[1] /\ Block(f[ox[1]][ox[2]]) = p[2]}

EdgeCover == \A p \in Pairs : summary[p].active >= Cardinality(Refs(allocated, fields, p))

\* There are finitely many references.
LEMMA RefsAreFinite ==
  ASSUME NEW al \in SUBSET Objects, NEW f, NEW p
  PROVE  /\ IsFiniteSet(Refs(al, f, p)) /\ Cardinality(Refs(al, f, p)) \in Nat
         /\ \A R \in SUBSET Refs(al, f, p) :
              /\ IsFiniteSet(R) /\ Cardinality(R) \in Nat
              /\ Cardinality(R) <= Cardinality(Refs(al, f, p))
<1>1. IsFiniteSet(Objects \X Fields) BY MarkAssumption, FS_Product
<1>2. Refs(al, f, p) \subseteq Objects \X Fields BY DEF Refs
<1>3. IsFiniteSet(Refs(al, f, p)) BY <1>1, <1>2, FS_Subset
<1> QED BY <1>3, FS_CardinalityType, FS_Subset

(* A store of v where old was: the counts of the pairs cover what follows. *)
LEMMA StoreIsCovered ==
  ASSUME NEW al \in SUBSET Objects, NEW f, NEW g,
         NEW s \in [Pairs -> [active : Int, published : Int, sequence : Nat]],
         \A p \in Pairs : s[p].active >= Cardinality(Refs(al, f, p)),
         NEW src \in al, NEW x \in Fields, NEW v,
         \A o \in Objects, y \in Fields : g[o][y] = IF o = src /\ y = x THEN v ELSE f[o][y],
         NEW p \in Pairs
  PROVE  Merged(s, BlockOf[src], Block(f[src][x]), Block(v))[p].active
           >= Cardinality(Refs(al, g, p))
<1> DEFINE b == BlockOf[src]
           old == Block(f[src][x])
           new == Block(v)
           F == Refs(al, f, p)
           G == Refs(al, g, p)
           m == Merged(s, b, old, new)[p].active
<1>1. s[p].active \in Int /\ s[p].active >= Cardinality(F) OBVIOUS
<1>2. /\ IsFiniteSet(F) /\ Cardinality(F) \in Nat
      /\ \A R \in SUBSET F : Cardinality(R) \in Nat /\ Cardinality(R) <= Cardinality(F)
  BY RefsAreFinite
<1>3. /\ p \in Added(b, new) => m = s[p].active + 1
      /\ p \in Removed(b, old, new) \ Added(b, new) => m = s[p].active - 1
      /\ p \notin Removed(b, old, new) \union Added(b, new) => m = s[p].active
  BY MergedKeepsPublished
<1>4. \A ox : ox \in F <=> ox \in al \X Fields /\ BlockOf[ox[1]] = p[1] /\ Block(f[ox[1]][ox[2]]) = p[2]
  BY DEF Refs
<1>5. \A ox : ox \in G <=> ox \in al \X Fields /\ BlockOf[ox[1]] = p[1] /\ Block(g[ox[1]][ox[2]]) = p[2]
  BY DEF Refs
<1>6. ASSUME NEW ox \in al \X Fields, ox # <<src, x>>
      PROVE  g[ox[1]][ox[2]] = f[ox[1]][ox[2]]
  BY <1>6
<1>7. g[src][x] = v OBVIOUS
<1>8. \A ox : ox # <<src, x>> => (ox \in G <=> ox \in F)
  <2>1. ASSUME NEW ox, ox # <<src, x>> PROVE ox \in G <=> ox \in F
    <3>1. CASE ox \in al \X Fields
      <4>1. g[ox[1]][ox[2]] = f[ox[1]][ox[2]] BY <1>6, <2>1, <3>1
      <4> QED BY <4>1, <1>4, <1>5, <3>1
    <3>2. CASE ox \notin al \X Fields BY <1>4, <1>5, <3>2
    <3> QED BY <3>1, <3>2
  <2> QED BY <2>1
<1>9. /\ <<src, x>> \in F <=> b = p[1] /\ old = p[2]
      /\ <<src, x>> \in G <=> b = p[1] /\ new = p[2]
  BY <1>4, <1>5, <1>7
<1>10. p = <<p[1], p[2]>> BY DEF Pairs
<1>11. /\ p \in Added(b, new) <=> b = p[1] /\ new = p[2]
       /\ p \in Removed(b, old, new) <=> b = p[1] /\ old = p[2] /\ new # old
  <2>1. p = <<b, new>> <=> b = p[1] /\ new = p[2] BY <1>10
  <2>2. p = <<b, old>> <=> b = p[1] /\ old = p[2] BY <1>10
  <2> QED BY <2>1, <2>2 DEF Added, Removed
<1> DEFINE e == <<src, x>>
<1>e. /\ \A ox : ox # e => (ox \in G <=> ox \in F)
      /\ e \in F <=> b = p[1] /\ old = p[2]
      /\ e \in G <=> b = p[1] /\ new = p[2]
  BY <1>8, <1>9
<1> HIDE DEF b, old, new, F, G, m, e
<1>12. CASE p \in Added(b, new)
  <2>1. G \subseteq F \union {e} BY <1>e
  <2>2. IsFiniteSet(F \union {e}) /\ Cardinality(F \union {e}) <= Cardinality(F) + 1
    <3>1. \/ Cardinality(F \union {e}) = Cardinality(F) + 1
          \/ Cardinality(F \union {e}) = Cardinality(F)
      BY <1>2, FS_AddElement
    <3>2. IsFiniteSet(F \union {e}) BY <1>2, FS_AddElement
    <3> QED BY <3>1, <3>2, <1>2
  <2>3. Cardinality(G) <= Cardinality(F \union {e}) BY <2>1, <2>2, FS_Subset
  <2>4. Cardinality(G) \in Nat /\ Cardinality(F \union {e}) \in Nat
    BY <2>1, <2>2, FS_Subset, FS_CardinalityType
  <2> QED BY <1>1, <1>2, <1>3, <1>12, <2>2, <2>3, <2>4 DEF m, G, b, old, new
<1>13. CASE p \in Removed(b, old, new) \ Added(b, new)
  <2>1. e \in F /\ e \notin G BY <1>e, <1>11, <1>13
  <2>2. G = F \ {e} BY <1>e, <2>1
  <2>3. Cardinality(G) = Cardinality(F) - 1 BY <1>2, <2>1, <2>2, FS_RemoveElement
  <2> QED BY <1>1, <1>2, <1>3, <1>13, <2>3 DEF m, G, b, old, new
<1>14. CASE p \notin Removed(b, old, new) \union Added(b, new)
  <2>1. G \subseteq F BY <1>e, <1>11, <1>14
  <2>2. Cardinality(G) \in Nat /\ Cardinality(G) <= Cardinality(F) BY <1>2, <2>1
  <2> QED BY <1>1, <1>2, <1>3, <1>14, <2>2 DEF m, G, b, old, new
<1> QED BY <1>12, <1>13, <1>14

(* Heaps with no more references.                                          *)
LEMMA FewerRefs ==
  ASSUME NEW al \in SUBSET Objects, NEW bl \in SUBSET Objects, NEW f, NEW g, NEW p \in Pairs,
         \A o \in bl, y \in Fields :
           \/ o \in al /\ g[o][y] = f[o][y]
           \/ g[o][y] = Null
  PROVE  Cardinality(Refs(bl, g, p)) <= Cardinality(Refs(al, f, p))
<1>1. Refs(bl, g, p) \subseteq Refs(al, f, p)
  <2>1. ASSUME NEW ox \in Refs(bl, g, p) PROVE ox \in Refs(al, f, p)
    <3>1. /\ ox \in bl \X Fields /\ BlockOf[ox[1]] = p[1] /\ Block(g[ox[1]][ox[2]]) = p[2]
      BY DEF Refs
    <3>2. p[2] # NoBlock BY MarkAssumption DEF Pairs
    <3>3. g[ox[1]][ox[2]] # Null BY <3>1, <3>2 DEF Block
    <3>4. ox[1] \in al /\ g[ox[1]][ox[2]] = f[ox[1]][ox[2]] BY <3>1, <3>3
    <3> QED BY <3>1, <3>4 DEF Refs
  <2> QED BY <2>1
<1> QED BY <1>1, RefsAreFinite

-----------------------------------------------------------------------------
(* The source counts at least the references there are.                    *)
LEMMA CoverSame ==
  ASSUME EdgeCover, UNCHANGED <<allocated, fields>>,
         \A p \in Pairs : summary'[p].active = summary[p].active
  PROVE  EdgeCover'
BY DEF EdgeCover

\* A store into a reachable, hence allocated, object.
LEMMA CoverStore ==
  ASSUME IInv, EdgeCover, NEW src \in Objects, NEW x \in Fields, NEW v \in Objects \union {Null},
         Store(src, x, v)
  PROVE  EdgeCover'
<1>1. Typing BY DEF IInv
<1>2. src \in allocated
  <2>1. PICK T \in SUBSET allocated : Keeps(T, fields, RootObjects, ShieldIn(MarkActive))
    BY DEF IInv, Kept
  <2> QED BY <1>1, <2>1, ReachableIsKept DEF Keeps, Typing, Store
<1>3. /\ summary' = Merged(summary, BlockOf[src], Block(fields[src][x]), Block(v))
      /\ fields' = [fields EXCEPT ![src][x] = v]
      /\ allocated' = allocated
  BY DEF Store
<1>4. \A o \in Objects, y \in Fields : fields'[o][y] = IF o = src /\ y = x THEN v ELSE fields[o][y]
  BY <1>1, <1>3 DEF Typing
<1>5. ASSUME NEW p \in Pairs
      PROVE  summary'[p].active >= Cardinality(Refs(allocated, fields', p))
  <2>1. /\ allocated \in SUBSET Objects
        /\ summary \in [Pairs -> [active : Int, published : Int, sequence : Nat]]
        /\ \A q \in Pairs : summary[q].active >= Cardinality(Refs(allocated, fields, q))
    BY <1>1 DEF Typing, EdgeCover
  <2>2. Merged(summary, BlockOf[src], Block(fields[src][x]), Block(v))[p].active
          >= Cardinality(Refs(allocated, fields', p))
    BY <1>2, <1>4, <2>1, StoreIsCovered
  <2> QED BY <2>2, <1>3
<1> QED BY <1>3, <1>5 DEF EdgeCover

\* A new object holds no reference.
LEMMA CoverNew ==
  ASSUME IInv, EdgeCover, NEW o \in Objects \ allocated, NEW p \in Pairs
  PROVE  summary[p].active >= Cardinality(Refs(allocated \union {o}, fields, p))
<1>1. /\ Typing /\ \A y \in Fields : fields[o][y] = Null BY DEF IInv, FreeHoldsNothing
<1>2. allocated \in SUBSET Objects /\ allocated \union {o} \in SUBSET Objects
      /\ summary[p].active \in Int
  BY <1>1 DEF Typing
<1>3. Cardinality(Refs(allocated \union {o}, fields, p)) <= Cardinality(Refs(allocated, fields, p))
  BY <1>1, <1>2, FewerRefs
<1>4. /\ Cardinality(Refs(allocated \union {o}, fields, p)) \in Nat
      /\ Cardinality(Refs(allocated, fields, p)) \in Nat
  BY <1>2, RefsAreFinite
<1> QED BY <1>2, <1>3, <1>4 DEF EdgeCover

\* An allocation into a root or a field.
LEMMA CoverAllocate ==
  ASSUME IInv, EdgeCover, NEW o \in Objects \ allocated,
         \/ \E r \in Roots : AllocateIntoRoot(o, r)
         \/ \E src \in Objects, x \in Fields : AllocateIntoField(o, src, x)
  PROVE  EdgeCover'
<1>1. CASE \E r \in Roots : AllocateIntoRoot(o, r)
  <2>1. allocated' = allocated \union {o} /\ fields' = fields /\ summary' = summary
    BY <1>1 DEF AllocateIntoRoot, edgeVars
  <2> QED BY <2>1, CoverNew DEF EdgeCover
<1>2. ASSUME NEW src \in Objects, NEW x \in Fields, AllocateIntoField(o, src, x)
      PROVE  EdgeCover'
  <2>1. Typing BY DEF IInv
  <2>2. src \in allocated
    <3>1. PICK T \in SUBSET allocated : Keeps(T, fields, RootObjects, ShieldIn(MarkActive))
      BY DEF IInv, Kept
    <3> QED BY <1>2, <2>1, <3>1, ReachableIsKept DEF Keeps, Typing, AllocateIntoField
  <2>3. /\ summary' = Merged(summary, BlockOf[src], Block(fields[src][x]), Block(o))
        /\ fields' = [fields EXCEPT ![src][x] = o]
        /\ allocated' = allocated \union {o}
    BY <1>2 DEF AllocateIntoField
  <2>4. \A q \in Objects, y \in Fields : fields'[q][y] = IF q = src /\ y = x THEN o ELSE fields[q][y]
    BY <2>1, <2>3 DEF Typing
  <2>5. ASSUME NEW p \in Pairs
        PROVE  summary'[p].active >= Cardinality(Refs(allocated', fields', p))
    <3>1. /\ allocated' \in SUBSET Objects /\ src \in allocated'
          /\ summary \in [Pairs -> [active : Int, published : Int, sequence : Nat]]
      BY <2>1, <2>2, <2>3 DEF Typing
    <3>2. \A q \in Pairs : summary[q].active >= Cardinality(Refs(allocated', fields, q))
      BY <2>3, CoverNew
    <3>3. Merged(summary, BlockOf[src], Block(fields[src][x]), Block(o))[p].active
            >= Cardinality(Refs(allocated', fields', p))
      BY <2>4, <3>1, <3>2, StoreIsCovered
    <3> QED BY <3>3, <2>3
  <2> QED BY <2>5 DEF EdgeCover
<1> QED BY <1>1, <1>2

\* A sweep takes references away, never adds one.
LEMMA CoverSwept ==
  ASSUME IInv, EdgeCover, NEW W, Sweep(W), summary' = summary
  PROVE  EdgeCover'
<1>1. Typing BY DEF IInv
<1> DEFINE dead == {o \in allocated : o \notin marked /\ OwnerOf(o) \in W}
<1>2. /\ allocated' = allocated \ dead
      /\ fields' = [o \in Objects |-> IF o \in dead THEN [x \in Fields |-> Null] ELSE fields[o]]
  BY DEF Sweep
<1> HIDE DEF dead
<1>3. ASSUME NEW p \in Pairs
      PROVE  summary'[p].active >= Cardinality(Refs(allocated', fields', p))
  <2>1. allocated \in SUBSET Objects /\ allocated' \in SUBSET Objects /\ summary[p].active \in Int
    BY <1>1, <1>2 DEF Typing
  <2>2. \A o \in allocated', y \in Fields : o \in allocated /\ fields'[o][y] = fields[o][y]
    BY <1>2, <2>1
  <2>3. Cardinality(Refs(allocated', fields', p)) <= Cardinality(Refs(allocated, fields, p))
    BY <2>1, <2>2, FewerRefs
  <2>4. /\ Cardinality(Refs(allocated', fields', p)) \in Nat
        /\ Cardinality(Refs(allocated, fields, p)) \in Nat
    BY <2>1, RefsAreFinite
  <2> QED BY <2>1, <2>3, <2>4 DEF EdgeCover
<1> QED BY <1>3 DEF EdgeCover

\* Every step.
LEMMA CoverStep ==
  ASSUME IInv, EdgeCover, [Next]_vars
  PROVE  EdgeCover'
<1>1. CASE Mutate
  <2>1. CASE MinorCycle \/ \E r \in Roots, v \in Objects \union {Null} : SetRoot(r, v)
    BY <2>1, CoverSame DEF MinorCycle, SetRoot, heapVars, edgeVars
  <2>2. ASSUME NEW w \in Owners, CanAllocate(w) PROVE  FreeObject(w) \in Objects \ allocated
    BY <2>2 DEF CanAllocate, FreeObject, ObjectsOf
  <2> QED BY <1>1, <2>1, <2>2, CoverStore, CoverAllocate DEF Mutate
<1>2. CASE Call
  BY <1>2, CoverSame DEF Call, CallCycle, CallBounded, CallMajor, StartDrain, Go, heapVars, edgeVars
<1>3. CASE Collect
  <2>1. CASE \E t \in tickets : ServeTicket(t)
    BY <2>1, CoverSame DEF ServeTicket, Fail, heapVars, edgeVars
  <2>2. CASE \E p \in Pairs : ServeDelta(p)
    BY <2>2, CoverSame DEF ServeDelta, Fail, heapVars, edgeVars
  <2>3. ASSUME NEW p \in Pairs, PublishDelta(p) PROVE EdgeCover'
    <3>1. UNCHANGED <<allocated, fields>> BY <2>3 DEF PublishDelta, Fail, heapVars
    <3>2. \/ summary' = summary
          \/ summary' = [summary EXCEPT ![p] = Published(summary[p])]
      BY <2>3 DEF PublishDelta, Fail, edgeVars
    <3>3. Published(summary[p]).active = summary[p].active BY DEF Published, Entry
    <3>4. \A q \in Pairs : summary'[q].active = summary[q].active
      BY <3>2, <3>3 DEF IInv, Typing
    <3> QED BY <3>1, <3>4, CoverSame
  <2>4. CASE BeginCycle BY <2>4, CoverSame DEF BeginCycle, Fail, heapVars, edgeVars
  <2>5. CASE (\E o \in Objects : PopMark(o)) \/ (\E x \in Fields : ScanField(x))
    BY <2>5, CoverSame DEF PopMark, ScanField, Fail, heapVars, edgeVars
  <2>6. CASE EndRound BY <2>6, CoverSame DEF EndRound, heapVars, edgeVars
  <2>7. CASE Drained \/ AllPublished \/ Visit \/ WorklistEmpty \/ Continue \/ RemarkComplete \/ KeepOpen
    BY <2>7, CoverSame DEF Drained, AllPublished, Visit, WorklistEmpty, Continue, RemarkComplete,
       KeepOpen, Go, heapVars, edgeVars
  <2>8. CASE FinishMajor \/ FinishCycle
    <3>1. summary' = summary /\ \E W : Sweep(W)
      BY <2>8 DEF FinishMajor, FinishCycle, FinishMarkCycle
    <3> QED BY <3>1, CoverSwept
  <2> QED BY <1>3, <2>1, <2>2, <2>3, <2>4, <2>5, <2>6, <2>7, <2>8 DEF Collect
<1>4. CASE UNCHANGED vars BY <1>4, CoverSame DEF vars, heapVars, edgeVars
<1> QED BY <1>1, <1>2, <1>3, <1>4 DEF Next

-----------------------------------------------------------------------------
(* Rounds. A pass that covers every owner ends in a round in which nothing *)
(* moved, and then nothing is left anywhere.                               *)
PassTypes ==
  /\ kind \in {"none", "cycle", "bounded", "major"}
  /\ progress \in BOOLEAN /\ skew \in Int /\ events \in Nat

(* A round without progress: every owner that had its turn in it has an    *)
(* empty worklist and an empty inbox.                                      *)
Quiet(w) == grey[w] = {} /\ InboxEmpty(w)
RoundQuiet ==
  /\ phase \in {"drain", "publish", "begin", "visit"} => visit = scope
  /\ scan # Idle => progress
  /\ ~progress /\ phase \in {"worklist", "inbox"} =>
       /\ \A w \in scope \ visit : w # at => Quiet(w)
       /\ phase = "inbox" => grey[at] = {}

PassInv == PassTypes /\ RoundQuiet /\ FullPassConverges

\* Steps that leave the round, or never were in one.
LEMMA PassAway ==
  ASSUME PassTypes', phase' \notin {"worklist", "inbox", "judged"},
         scan' # Idle => progress',
         phase' \in {"drain", "publish", "begin", "visit"} => visit' = scope'
  PROVE  PassInv'
BY DEF PassInv, RoundQuiet, FullPassConverges

\* Stuttering.
LEMMA PassSame ==
  ASSUME PassInv, UNCHANGED vars
  PROVE  PassInv'
<1>1. RoundQuiet'
  BY DEF PassInv, RoundQuiet, Quiet, InboxEmpty, TicketsFor, DeltasFor,
         vars, heapVars, markVars, edgeVars, cycleVars, passVars
<1>2. PassTypes' /\ FullPassConverges'
  BY DEF PassInv, PassTypes, FullPassConverges,
         vars, heapVars, markVars, edgeVars, cycleVars, passVars
<1> QED BY <1>1, <1>2 DEF PassInv

\* A failed pass is in no round.
LEMMA PassFail ==
  ASSUME PassInv, Fail
  PROVE  PassInv'
BY PassAway DEF Fail, PassInv, PassTypes, RoundQuiet, markVars, cycleVars, passVars

\* Mutators run between calls.
LEMMA PassMutate ==
  ASSUME IInv, PassInv, Mutate
  PROVE  PassInv'
<1>1. /\ phase' = phase /\ phase = "mutate" /\ UNCHANGED <<kind, progress, scan>>
      /\ events' = events + 1 /\ (skew' = skew \/ skew' = skew + 1)
  BY DEF Mutate, Store, SetRoot, AllocateIntoRoot, AllocateIntoField, MinorCycle, Event,
         markVars, cycleVars, passVars
<1> QED BY <1>1, PassAway DEF PassInv, PassTypes, RoundQuiet

\* A call starts its first round with every owner of its scope to visit.
LEMMA PassCall ==
  ASSUME IInv, PassInv, Call
  PROVE  PassInv'
<1>1. /\ phase = "mutate" /\ phase' \in {"drain", "begin", "visit"}
      /\ visit' = scope' /\ progress' = FALSE /\ UNCHANGED <<scan, skew>>
      /\ kind' \in {"cycle", "bounded", "major"} /\ events' = events + 1
  BY DEF Call, CallCycle, CallBounded, CallMajor, StartDrain, Go, FirstRound, Event,
         markVars, cycleVars
<1>2. scan' = Idle BY <1>1 DEF IInv, Control
<1>3. PassTypes'
  <2>1. kind' \in {"none", "cycle", "bounded", "major"} /\ skew' \in Int /\ events' \in Nat
    BY <1>1 DEF PassInv, PassTypes
  <2>2. progress' \in BOOLEAN
    BY Zenon DEF Call, CallCycle, CallBounded, CallMajor, StartDrain, FirstRound
  <2> QED BY <2>1, <2>2 DEF PassTypes
<1>4. phase' \notin {"worklist", "inbox", "judged"} BY <1>1
<1> QED BY <1>1, <1>2, <1>3, <1>4, PassAway

\* Return to the mutators.
LEMMA PassReturns ==
  ASSUME IInv, PassInv, UNCHANGED <<scan, events>>, Return, skew' \in Int,
         phase \notin {"worklist", "failed"}
  PROVE  PassInv'
<1>1. scan = Idle BY DEF IInv, Control
<1> QED BY <1>1, PassAway DEF Return, PassInv, PassTypes

\* The steps before the first round and after the last.
LEMMA PassAdvances ==
  ASSUME IInv, PassInv,
         Drained \/ AllPublished \/ BeginCycle \/ Continue \/ FinishMajor \/ RemarkComplete
           \/ FinishCycle \/ KeepOpen \/ \E p \in Pairs : PublishDelta(p)
  PROVE  PassInv'
<1>0. skew \in Int BY DEF PassInv, PassTypes
<1>1. CASE Drained
  BY <1>1, PassAway DEF Drained, Go, PassInv, PassTypes, RoundQuiet, markVars, cycleVars, passVars
<1>2. CASE AllPublished
  <2>1. CASE kind = "bounded"
    BY <1>0, <1>2, <2>1, PassReturns DEF AllPublished, markVars, cycleVars
  <2>2. CASE kind # "bounded"
    BY <1>2, <2>2, PassAway DEF AllPublished, PassInv, PassTypes, RoundQuiet, markVars, cycleVars, passVars
  <2> QED BY <2>1, <2>2
<1>3. CASE BeginCycle
  <2>1. CASE Fail BY <2>1, PassFail
  <2>2. CASE ~Fail
    BY <1>3, <2>2, PassAway DEF BeginCycle, PassInv, PassTypes, RoundQuiet, passVars
  <2> QED BY <2>1, <2>2
<1>4. CASE Continue \/ KeepOpen
  BY <1>0, <1>4, PassReturns DEF Continue, KeepOpen, Settled, markVars, cycleVars
<1>5. CASE FinishMajor
  <2>1. skew' \in Int BY <1>0, <1>5 DEF FinishMajor
  <2> QED BY <1>5, <2>1, PassReturns DEF FinishMajor, FinishMarkCycle
<1>6. CASE FinishCycle
  BY <1>0, <1>6, PassReturns DEF FinishCycle, Settled, FinishMarkCycle
<1>7. CASE RemarkComplete
  BY <1>7, PassAway DEF RemarkComplete, PassInv, PassTypes, RoundQuiet, markVars, passVars
<1>8. ASSUME NEW p \in Pairs, PublishDelta(p) PROVE PassInv'
  <2>1. CASE Fail BY <2>1, PassFail
  <2>2. CASE ~Fail
    BY <1>8, <2>2, PassAway DEF PublishDelta, PassInv, PassTypes, RoundQuiet, markVars, cycleVars, passVars
  <2> QED BY <2>1, <2>2
<1> QED BY <1>1, <1>2, <1>3, <1>4, <1>5, <1>6, <1>7, <1>8

\* Serving an inbox inside a round is progress.
LEMMA PassServe ==
  ASSUME IInv, PassInv,
         \/ \E t \in tickets : ServeTicket(t)
         \/ \E p \in Pairs : ServeDelta(p)
  PROVE  PassInv'
<1>1. CASE Fail BY <1>1, PassFail
<1>2. CASE ~Fail
  <2>1. /\ phase \in {"drain", "begin", "late", "inbox"} /\ phase' = phase
        /\ UNCHANGED <<scan, kind, scope, visit, at, events, skew>> /\ Served
    BY <1>2 DEF ServeTicket, ServeDelta, Serving, cycleVars, markVars
  <2>2. CASE phase = "inbox"
    BY <2>1, <2>2 DEF Served, PassInv, PassTypes, RoundQuiet, FullPassConverges
  <2>3. CASE phase # "inbox"
    BY <2>1, <2>3, PassAway DEF Served, PassInv, PassTypes, RoundQuiet
  <2> QED BY <2>2, <2>3
<1> QED BY <1>1, <1>2

\* The owner whose turn ends is quiet, if the round made no progress.
LEMMA PassVisit ==
  ASSUME IInv, PassInv, Visit
  PROVE  PassInv'
<1>1. /\ visit # {} /\ at' = (CHOOSE w \in visit : TRUE) /\ visit' = visit \ {at'}
      /\ phase' = "worklist"
      /\ UNCHANGED <<grey, tickets, deltas, scan, kind, scope, progress, events, skew>>
      /\ \/ phase = "visit"
         \/ phase = "inbox" /\ InboxEmpty(at)
  BY DEF Visit, BetweenOwners, Go, markVars, edgeVars, cycleVars
<1>2. at' \in visit BY <1>1
<1>3. \A w : Quiet(w)' = Quiet(w)
  BY <1>1 DEF Quiet, InboxEmpty, TicketsFor, DeltasFor
<1>4. ASSUME ~progress, NEW w \in scope \ visit', w # at' PROVE Quiet(w)
  <2>1. w \in scope \ visit BY <1>1, <1>4
  <2>2. CASE phase = "visit" BY <2>1, <2>2 DEF PassInv, RoundQuiet
  <2>3. CASE phase = "inbox" /\ InboxEmpty(at)
    BY <1>4, <2>1, <2>3 DEF PassInv, RoundQuiet, Quiet
  <2> QED BY <1>1, <2>2, <2>3
<1>5. RoundQuiet' BY <1>1, <1>3, <1>4 DEF PassInv, RoundQuiet
<1> QED BY <1>1, <1>5 DEF PassInv, PassTypes, FullPassConverges

\* An object that was marked already is no progress, one that was not is.
LEMMA PassPopMark ==
  ASSUME IInv, PassInv, NEW o \in Objects, PopMark(o)
  PROVE  PassInv'
<1>1. CASE Fail BY <1>1, PassFail
<1>2. CASE ~Fail
  <2>1. /\ phase = "worklist" /\ grey' = [grey EXCEPT ![at] = @ \ {o}]
        /\ UNCHANGED <<tickets, deltas, phase, kind, scope, visit, at, events, skew>>
        /\ MarkObject(o)
    BY <1>2 DEF PopMark, edgeVars, cycleVars
  <2>2. progress' = TRUE \/ UNCHANGED <<scan, progress>> BY <2>1 DEF MarkObject
  <2>3. \A w \in Owners : w # at => Quiet(w)' = Quiet(w)
    BY <2>1 DEF IInv, Typing, Quiet, InboxEmpty, TicketsFor, DeltasFor
  <2>4. scope \subseteq Owners BY DEF IInv, Typing
  <2>5. RoundQuiet'
    BY <2>1, <2>2, <2>3, <2>4 DEF PassInv, RoundQuiet
  <2> QED BY <2>1, <2>2, <2>5 DEF PassInv, PassTypes, FullPassConverges
<1> QED BY <1>1, <1>2

\* Scanning goes on only after an object was marked: progress.
LEMMA PassScanField ==
  ASSUME IInv, PassInv, NEW x \in Fields, ScanField(x)
  PROVE  PassInv'
<1>1. CASE Fail BY <1>1, PassFail
<1>2. CASE ~Fail
  <2>1. /\ phase = "worklist" /\ phase' = phase /\ x \in scan.todo
        /\ UNCHANGED <<passVars, events, skew>>
    BY <1>2 DEF ScanField, cycleVars
  <2>2. progress
    <3>1. scan # Idle BY <2>1 DEF Idle
    <3> QED BY <3>1 DEF PassInv, RoundQuiet
  <2> QED BY <2>1, <2>2 DEF passVars, PassInv, PassTypes, RoundQuiet, FullPassConverges
<1> QED BY <1>1, <1>2

\* The worklist of the owner is empty when its inbox is served.
LEMMA PassWorklistEmpty ==
  ASSUME IInv, PassInv, WorklistEmpty
  PROVE  PassInv'
<1>1. /\ phase = "worklist" /\ grey[at] = {} /\ phase' = "inbox"
      /\ UNCHANGED <<grey, tickets, deltas, scan, passVars, events, skew>>
  BY DEF WorklistEmpty, Go, markVars, edgeVars, cycleVars
<1>2. \A w : Quiet(w)' = Quiet(w)
  BY <1>1 DEF Quiet, InboxEmpty, TicketsFor, DeltasFor
<1> QED BY <1>1, <1>2 DEF passVars, PassInv, PassTypes, RoundQuiet, FullPassConverges

\* A round over all owners in which nothing moved leaves nothing anywhere.
LEMMA NothingMoved ==
  ASSUME IInv, MsgInv, PassInv, BetweenOwners, visit = {}, scope = Owners, ~RoundMoved,
         \A p \in Pairs : plane[p].held = {}
  PROVE  Converged(grey, mailbox, SettleOwners(credits, scope))
<1>1. \A w \in Owners : Quiet(w)
  BY DEF BetweenOwners, PassInv, RoundQuiet, RoundMoved, Quiet
<1>2. tickets = {}
  <2>1. ASSUME NEW t \in tickets PROVE FALSE
    <3>1. OwnerOf(t.object) \in Owners BY MarkAssumption DEF IInv, Typing, OwnerOf
    <3>2. t \in TicketsFor(OwnerOf(t.object)) BY DEF TicketsFor
    <3> QED BY <1>1, <3>1, <3>2 DEF Quiet, InboxEmpty
  <2> QED BY <2>1
<1>3. \A p \in Pairs : deltas[p] = << >>
  <2>1. ASSUME NEW p \in Pairs, deltas[p] # << >> PROVE FALSE
    <3>1. HeapOf[p[2]] \in Owners BY MarkAssumption DEF Pairs
    <3>2. p \in DeltasFor(HeapOf[p[2]]) BY <2>1 DEF DeltasFor
    <3> QED BY <1>1, <3>1, <3>2 DEF Quiet, InboxEmpty
  <2> QED BY <2>1
<1>4. \A s \in Slots : credits[s].state # "InFlight"
  <2>1. \A p \in Pairs : NotApplied(deltas, plane, p) = {} BY <1>3 DEF NotApplied
  <2> QED BY <1>2, <2>1 DEF MsgInv, CarriedBy
<1>5. \A s \in Slots : credits[s] = Free
  <2>1. ASSUME NEW s \in Slots, credits[s] # Free PROVE FALSE
    <3>1. credits[s] \in Credit BY <2>1 DEF IInv, Typing, Pools
    <3>2. credits[s].state = "Done" /\ credits[s].source \in Owners BY <3>1, <1>4 DEF Credit
    <3>3. s \in Settleable(credits, scope) BY <3>2 DEF Settleable
    <3> QED BY <3>3 DEF RoundMoved
  <2> QED BY <2>1
<1>6. Pending(SettleOwners(credits, scope)) = {}
  BY <1>5 DEF Pending, SettleOwners, ReturnWork
<1>7. ASSUME NEW w \in Owners PROVE mailbox[w] = 0
  <2>1. TicketsTo(tickets, w) = {} BY <1>2 DEF TicketsTo
  <2> QED BY <2>1, FS_EmptySet DEF MsgInv, Boxes
<1> QED BY <1>1, <1>6, <1>7 DEF Converged, Quiet

\* The end of a round.
LEMMA PassEndRound ==
  ASSUME IInv, MsgInv, PassInv, EndRound
  PROVE  PassInv'
<1>1. /\ BetweenOwners /\ visit = {} /\ credits' = SettleOwners(credits, scope)
      /\ UNCHANGED <<scan, plane, skew, kind, scope, at, events>>
  BY DEF EndRound, markVars, edgeVars
<1>2. CASE RoundMoved
  <2>1. scan = Idle BY <1>1 DEF IInv, Control, BetweenOwners
  <2>2. phase' = "visit" /\ visit' = scope /\ progress' = FALSE
    BY <1>2 DEF EndRound, NextRound, FirstRound
  <2> QED BY <1>1, <2>1, <2>2, PassAway DEF PassInv, PassTypes
<1>3. CASE ~RoundMoved
  <2>1. /\ phase' = "judged" /\ last' = Converged(grey, mailbox, credits')
        /\ UNCHANGED <<visit, progress>>
    BY <1>3 DEF EndRound, Remember
  <2>2. ASSUME scope' = Owners, \A p \in Pairs : plane'[p].held = {} PROVE last'
    <3>1. Converged(grey, mailbox, SettleOwners(credits, scope))
      BY <1>1, <1>3, <2>2, NothingMoved
    <3> QED BY <1>1, <2>1, <3>1
  <2>3. FullPassConverges' BY <2>2 DEF FullPassConverges
  <2>4. PassTypes' /\ RoundQuiet' BY <1>1, <2>1 DEF PassInv, PassTypes, RoundQuiet
  <2> QED BY <2>3, <2>4 DEF PassInv
<1> QED BY <1>2, <1>3

\* Every step.
LEMMA PassStep ==
  ASSUME IInv, MsgInv, PassInv, [Next]_vars
  PROVE  PassInv'
<1>1. CASE Collect
  BY <1>1, PassAdvances, PassServe, PassVisit, PassPopMark, PassScanField, PassWorklistEmpty,
     PassEndRound DEF Collect
<1> QED BY <1>1, PassMutate, PassCall, PassSame DEF Next

-----------------------------------------------------------------------------
(* The inductive invariant and what follows from it.                       *)
CountInv == MsgInv /\ EdgeCover /\ PassInv

\* Every step keeps the invariant ...
LEMMA CountStep ==
  ASSUME IInv, CountInv, [Next]_vars
  PROVE  CountInv'
BY MsgStep, CoverStep, PassStep DEF CountInv

\* ... and every start heap satisfies it.
LEMMA CountInit ==
  ASSUME Init
  PROVE  CountInv
<1> DEFINE n(p) == Cardinality(Refs(allocated, fields, p))
<1>1. allocated \in SUBSET Objects BY InitHolds DEF IInv, Typing
<1>2. \A p \in Pairs : n(p) \in Nat BY <1>1, RefsAreFinite
<1>3. /\ summary = [p \in Pairs |-> StartEntry(n(p))]
      /\ plane = [p \in Pairs |-> StartPair(n(p))]
      /\ deltas = [p \in Pairs |-> << >>] /\ tickets = {}
  BY DEF Init, References, Refs
<1> HIDE DEF n
<1>4. \A p \in Pairs : /\ summary[p].active = n(p) /\ summary[p].published = n(p)
                       /\ plane[p].applied = n(p) /\ plane[p].next \in Nat /\ plane[p].held = {}
  BY <1>2, <1>3 DEF StartEntry, Entry, StartPair, NewPair
<1>5. \A p \in Pairs : NotApplied(deltas, plane, p) = {} BY <1>3, <1>4 DEF NotApplied
<1>6. IsFiniteSet({}) /\ Cardinality({}) = 0 BY FS_EmptySet
<1>7. SumOf({}) = 0
  <2>1. Summable({}) BY <1>6 DEF Summable
  <2> QED BY <2>1, SumRemoves
<1>8. Ledger(summary, deltas, plane)
  <2>1. ASSUME NEW p \in Pairs
        PROVE  /\ IsFiniteSet(plane[p].held) /\ plane[p].applied \in Int /\ plane[p].next \in Nat
               /\ plane[p].applied + SumOf(NotApplied(deltas, plane, p)) = summary[p].published
    <3>1. SumOf(NotApplied(deltas, plane, p)) = 0 BY <1>5, <1>7
    <3>2. IsFiniteSet(plane[p].held) BY <1>4, <1>6
    <3> QED BY <1>2, <1>4, <3>1, <3>2
  <2> QED BY <2>1 DEF Ledger
<1>9. CarriedBy(credits, tickets, deltas, plane) BY DEF Init, EmptyPool, CarriedBy, Free
<1>10. Boxes(mailbox, tickets)
  <2>1. \A w \in Owners : TicketsTo(tickets, w) = {} BY <1>3 DEF TicketsTo
  <2> QED BY <2>1, <1>3, <1>6 DEF Init, Boxes
<1>11. EdgeCover BY <1>2, <1>4 DEF EdgeCover, n
<1>12. PassInv
  <2>1. phase = "mutate" /\ scan = Idle BY DEF Init
  <2>2. PassTypes
    <3>1. kind = "none" /\ skew = 0 /\ events = 0 BY DEF Init
    <3>2. progress \in BOOLEAN BY Zenon DEF Init
    <3> QED BY <3>1, <3>2 DEF PassTypes
  <2>3. RoundQuiet /\ FullPassConverges BY <2>1 DEF RoundQuiet, FullPassConverges
  <2> QED BY <2>2, <2>3 DEF PassInv
<1> QED BY <1>8, <1>9, <1>10, <1>11, <1>12 DEF CountInv, MsgInv

(* The counts hold always: every credit in flight has one message, every   *)
(* mailbox counts its tickets, the two sides of every pair of blocks       *)
(* balance, the source counts every reference, and a round without         *)
(* progress leaves quiet owners behind (mark.rs, edge.rs, barrier.rs,      *)
(* run_mark_pass).                                                         *)
THEOREM CountInvariant == Spec => [](IInv /\ CountInv)
<1>1. Init => IInv /\ CountInv
  BY InitHolds, CountInit
<1>2. IInv /\ CountInv /\ [Next]_vars => IInv' /\ CountInv'
  BY NextStep, CountStep
<1> QED BY <1>1, <1>2, PTL DEF Spec

(* Every variable has its type; no worklist holds an object of another     *)
(* owner (mark_impl.rs).                                                   *)
THEOREM MarkTypes == Spec => []TypeOK
<1>1. ASSUME IInv, CountInv PROVE TypeOK
  <2>1. Typing /\ Control /\ MsgInv /\ PassTypes BY <1>1 DEF IInv, CountInv, PassInv
  <2>2. plane \in [Pairs -> [applied : Int, next : Nat, held : SUBSET Delta]]
    <3>1. PlaneTypes(plane) BY <2>1 DEF Typing
    <3>2. \A p \in Pairs : plane[p].applied \in Int /\ plane[p].next \in Nat BY <2>1 DEF MsgInv, Ledger
    <3> QED BY <3>1, <3>2 DEF PlaneTypes
  <2>3. mailbox \in [Owners -> Nat] BY <2>1 DEF MsgInv, Boxes
  <2>4. scan # Idle => scan.object \in ObjectsOf(at) BY <2>1 DEF Control, Typing, ObjectsOf
  <2> QED BY <2>1, <2>2, <2>3, <2>4 DEF TypeOK, Typing, PassTypes
<1> QED BY <1>1, CountInvariant, PTL

\* A set whose members are all equal.
LEMMA AtMostOne ==
  ASSUME NEW S, \A x, y \in S : x = y
  PROVE  Cardinality(S) = IF S = {} THEN 0 ELSE 1
<1>1. CASE S = {} BY <1>1, FS_EmptySet
<1>2. ASSUME NEW x \in S PROVE Cardinality(S) = 1
  <2>1. S = {x} OBVIOUS
  <2> QED BY <2>1, FS_Singleton
<1> QED BY <1>1, <1>2

\* Deltas of one pair have distinct credits: there are no more than slots.
LEMMA NoMoreThanSlots ==
  ASSUME NEW pool, NEW ts, NEW ds, NEW pl, PoolTypes(pool, ts, ds, pl),
         Credits(pool, ts, ds, pl), NEW p \in Pairs
  PROVE  Len(ds[p]) \in Nat /\ Len(ds[p]) <= Cardinality(Slots) /\ Cardinality(Slots) \in Nat
<1>1. Len(ds[p]) \in Nat BY DEF PoolTypes
<1>2. IsFiniteSet(1 .. Len(ds[p])) /\ Cardinality(1 .. Len(ds[p])) = Len(ds[p])
  BY <1>1, FS_Interval
<1> DEFINE f == [k \in 1 .. Len(ds[p]) |-> ds[p][k].credit]
<1>3. f \in Injection(1 .. Len(ds[p]), Slots)
  <2>1. f \in [1 .. Len(ds[p]) -> Slots] BY CreditsAreSlots
  <2>2. \A k, l \in 1 .. Len(ds[p]) : f[k] = f[l] => k = l BY DEF Credits, DeltaCredits
  <2> QED BY <2>1, <2>2 DEF Injection, IsInjective
<1> HIDE DEF f
<1>4. IsFiniteSet(Slots) /\ Cardinality(Slots) \in Nat BY MarkAssumption, FS_CardinalityType
<1>5. Cardinality(1 .. Len(ds[p])) <= Cardinality(Slots) BY <1>3, <1>4, FS_Injection
<1> QED BY <1>1, <1>2, <1>4, <1>5

\* The messages that carry a credit, counted as CreditsMatchMessages does.
CarriersOf(ts, ds, pl, s) ==
  Cardinality({t \in ts : t.credit = s})
    + Cardinality({pk \in Pairs \X (1..Cardinality(Slots)) :
                     /\ pk[2] <= Len(ds[pk[1]])
                     /\ ds[pk[1]][pk[2]].credit = s})
    + Cardinality({p \in Pairs : \E h \in pl[p].held : h.credit = s})

\* A credit in flight has one carrier, any other has none.
LEMMA OneCarrier ==
  ASSUME NEW pool, NEW ts, NEW ds, NEW pl, PoolTypes(pool, ts, ds, pl),
         Credits(pool, ts, ds, pl), CarriedBy(pool, ts, ds, pl), NEW s \in Slots
  PROVE  CarriersOf(ts, ds, pl, s) = IF pool[s].state = "InFlight" THEN 1 ELSE 0
<1> DEFINE A == {t \in ts : t.credit = s}
           B == {pk \in Pairs \X (1..Cardinality(Slots)) :
                   /\ pk[2] <= Len(ds[pk[1]])
                   /\ ds[pk[1]][pk[2]].credit = s}
           C == {p \in Pairs : \E h \in pl[p].held : h.credit = s}
<1>1. /\ \A t \in A : t \in ts /\ t.credit = s
      /\ \A p \in C : p \in Pairs /\ \E h \in pl[p].held : h.credit = s
  OBVIOUS
<1>2. ASSUME NEW pk \in B
      PROVE  /\ pk = <<pk[1], pk[2]>> /\ pk[1] \in Pairs /\ pk[2] \in 1 .. Len(ds[pk[1]])
             /\ ds[pk[1]][pk[2]].credit = s
  <2>1. Len(ds[pk[1]]) \in Nat /\ Cardinality(Slots) \in Nat BY NoMoreThanSlots
  <2> QED BY <2>1
<1>3. \A x, y \in A : x = y BY <1>1 DEF Credits, TicketCredits
<1>4. \A x, y \in B : x = y
  <2>1. ASSUME NEW x \in B, NEW y \in B PROVE x = y
    <3>1. x[1] = y[1] /\ x[2] = y[2]
      <4>1. /\ x[1] \in Pairs /\ x[2] \in 1 .. Len(ds[x[1]]) /\ ds[x[1]][x[2]].credit = s
            /\ y[1] \in Pairs /\ y[2] \in 1 .. Len(ds[y[1]]) /\ ds[y[1]][y[2]].credit = s
        BY <1>2
      <4> HIDE DEF B
      <4> QED BY <4>1 DEF Credits, DeltaCredits
    <3>2. x = <<x[1], x[2]>> /\ y = <<y[1], y[2]>> BY <1>2
    <3> QED BY <3>1, <3>2
  <2> QED BY <2>1
<1>5. \A x, y \in C : x = y BY <1>1 DEF Credits, KeptCredits
<1>6. /\ A # {} => Backed(pool, s, "MarkTicket")
      /\ B # {} => Backed(pool, s, "EdgeDelta")
      /\ C # {} => Backed(pool, s, "EdgeDelta")
  <2>1. A # {} => Backed(pool, s, "MarkTicket") BY <1>1 DEF Credits, TicketCredits
  <2>2. B # {} => Backed(pool, s, "EdgeDelta") BY <1>2 DEF Credits, DeltaCredits
  <2>3. C # {} => Backed(pool, s, "EdgeDelta") BY <1>1 DEF Credits, KeptCredits
  <2> QED BY <2>1, <2>2, <2>3
<1>7. ~(B # {} /\ C # {})
  <2>1. ASSUME NEW pk \in B, NEW p \in C PROVE FALSE
    <3>1. pk[1] \in Pairs /\ pk[2] \in 1 .. Len(ds[pk[1]]) /\ ds[pk[1]][pk[2]].credit = s
      BY <1>2
    <3>2. PICK h \in pl[p].held : h.credit = s BY <1>1
    <3> QED BY <1>1, <3>1, <3>2 DEF Credits, KeptCredits
  <2> QED BY <2>1
<1>8. pool[s].state = "InFlight" => A # {} \/ B # {} \/ C # {}
  <2>1. ASSUME NEW p \in Pairs, NEW d \in NotApplied(ds, pl, p), d.credit = s PROVE B # {} \/ C # {}
    <3>1. CASE d \in pl[p].held
      <4>1. p \in C BY <2>1, <3>1
      <4> QED BY <4>1
    <3>2. ASSUME NEW k \in 1 .. Len(ds[p]), d = ds[p][k] PROVE B # {}
      <4>1. /\ Len(ds[p]) \in Nat /\ Len(ds[p]) <= Cardinality(Slots)
            /\ Cardinality(Slots) \in Nat
        BY NoMoreThanSlots
      <4>2. k \in 1 .. Cardinality(Slots) /\ k <= Len(ds[p]) BY <4>1
      <4>3. <<p, k>> \in B BY <2>1, <3>2, <4>2
      <4> QED BY <4>3
    <3> QED BY <3>1, <3>2, NotAppliedMembers
  <2>2. ASSUME NEW t \in ts, t.credit = s PROVE A # {} BY <2>2
  <2> HIDE DEF A, B, C
  <2> QED BY <2>1, <2>2 DEF CarriedBy
<1> HIDE DEF A, B, C
<1>9. /\ Cardinality(A) = IF A = {} THEN 0 ELSE 1
      /\ Cardinality(B) = IF B = {} THEN 0 ELSE 1
      /\ Cardinality(C) = IF C = {} THEN 0 ELSE 1
  BY <1>3, <1>4, <1>5, AtMostOne
<1>10. Cardinality(A) + Cardinality(B) + Cardinality(C) = IF pool[s].state = "InFlight" THEN 1 ELSE 0
  BY <1>6, <1>7, <1>8, <1>9 DEF Backed
<1> QED BY <1>10 DEF A, B, C, CarriersOf

(* A credit in flight is carried by exactly one ticket, delta under way or *)
(* kept delta, and the mailbox of an owner counts its tickets              *)
(* (publish_ticket, consume_ticket).                                       *)
THEOREM CreditsAreMessages == Spec => []CreditsMatchMessages
<1>1. ASSUME IInv, CountInv PROVE CreditsMatchMessages
  <2>1. /\ PoolTypes(credits, tickets, deltas, plane)
        /\ Credits(credits, tickets, deltas, plane)
        /\ CarriedBy(credits, tickets, deltas, plane)
        /\ Boxes(mailbox, tickets)
    BY <1>1, Backing DEF CountInv, MsgInv
  <2>2. \A w \in Owners : mailbox[w] = Cardinality(TicketsFor(w))
    BY <2>1 DEF Boxes, TicketsTo, TicketsFor
  <2>3. ASSUME NEW s \in Slots
        PROVE  CarriersOf(tickets, deltas, plane, s) = IF credits[s].state = "InFlight" THEN 1 ELSE 0
    BY <2>1, OneCarrier
  <2> QED BY <2>2, <2>3 DEF CreditsMatchMessages, CarriersOf
<1> QED BY <1>1, CountInvariant, PTL

(* What a target has applied, keeps and is still to receive adds up to     *)
(* what the source has published, and the source counts at least the       *)
(* references there are (EdgeSummary::apply and publish,                   *)
(* EdgePlane::apply).                                                      *)
THEOREM EdgesAreConserved == Spec => []EdgesConserved
<1>1. ASSUME IInv, CountInv PROVE EdgesConserved
  <2>1. \A p \in Pairs : DeltasOn(p) = NotApplied(deltas, plane, p) /\ References(p) = Refs(allocated, fields, p)
    BY DEF DeltasOn, NotApplied, References, Refs
  <2> QED BY <1>1, <2>1 DEF CountInv, MsgInv, Ledger, EdgeCover, EdgesConserved
<1> QED BY <1>1, CountInvariant, PTL

(* A pass over all owners is remembered as converged, unless an edge delta *)
(* is kept for a sequence number to come (run_mark_pass).                  *)
THEOREM FullPassesConverge == Spec => []FullPassConverges
<1>1. CountInv => FullPassConverges BY DEF CountInv, PassInv
<1> QED BY <1>1, CountInvariant, PTL
=============================================================================
