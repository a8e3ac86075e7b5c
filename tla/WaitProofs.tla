------------------------------ MODULE WaitProofs ------------------------------
(***************************************************************************)
(* Proofs about WaitSystem, for any coroutines, channels, capacities,      *)
(* menus and bounds that satisfy WaitAssumption: the types of the state,   *)
(* and for each coroutine how its place in a handler, its lifecycle state, *)
(* its round and its claim fit together (Local).                           *)
(*                                                                         *)
(* An action of c changes c freely, and every other coroutine only as a    *)
(* Bystander: its round may be claimed, or it may be woken.                *)
(***************************************************************************)
EXTENDS WaitSystem, SequenceTheorems, WellFoundedInduction, TLAPS

-----------------------------------------------------------------------------
(* The operators the wait plane is built from: the subsequence of a queue, *)
(* its head and tail, and the effect of a claim.  Keep is a recursive      *)
(* function, so its facts are proved by induction on a set of numbers,     *)
(* from the least-number principle.                                        *)

(* Every nonempty set of numbers has a least member.                       *)
LEMMA Least ==
  ASSUME NEW T, T \subseteq Nat, T # {}
  PROVE \E m \in T : \A k \in T : ~(k < m)
<1> DEFINE R == OpToRel(<, Nat)
<1>1. IsWellFoundedOn(R, Nat) BY NatLessThanWellFounded, Zenon
<1>2. \A k, m \in Nat : k < m => <<k, m>> \in R 
   BY DEF OpToRel
<1> HIDE DEF R
<1>3. \E m \in T : \A k \in T : <<k, m>> \notin R
  BY <1>1, WFMin, Zenon
<1> QED BY <1>3, <1>2

(* Induction: a set with 0 and every successor holds every number.         *)
LEMMA SetInduction ==
  ASSUME NEW T, 0 \in T, \A i \in Nat : i \in T => i + 1 \in T
  PROVE  Nat \subseteq T
<1> SUFFICES ASSUME Nat \ T # {} PROVE FALSE
  OBVIOUS
<1>1. PICK m \in Nat \ T : \A k \in Nat \ T : ~(k < m)
  <2> DEFINE U == Nat \ T
  <2>1. U \subseteq Nat /\ U # {} OBVIOUS
  <2> HIDE DEF U
  <2>2. \E m \in U : \A k \in U : ~(k < m) BY <2>1, Least
  <2> QED BY <2>2 DEF U
<1>2. m # 0 /\ m - 1 \in Nat BY <1>1
<1>3. m - 1 \in T BY <1>1, <1>2
<1>4. (m - 1) + 1 \in T BY <1>2, <1>3
<1> QED BY <1>1, <1>2, <1>4

KeepStep(f, q, S, i) ==
  IF i = 0 THEN <<>>
  ELSE IF q[i] \in S THEN Append(f[i - 1], q[i]) ELSE f[i - 1]
KeepFcn(f, q, S, k) == f = [i \in 0 .. k |-> KeepStep(f, q, S, i)]

(* The recursive function Keep unfolds to exists, for every length.        *)
LEMMA KeepExists ==
  ASSUME NEW q, NEW S
  PROVE  \A k \in Nat : \E f : KeepFcn(f, q, S, k)
<1> DEFINE T == {k \in Nat : \E f : KeepFcn(f, q, S, k)}
<1>1. 0 \in T
  <2> DEFINE f == [i \in 0 .. 0 |-> <<>>]
  <2>1. f = [i \in 0 .. 0 |-> KeepStep(f, q, S, i)]
    BY DEF KeepStep
  <2> QED BY <2>1 DEF KeepFcn
<1>2. ASSUME NEW k \in Nat, k \in T PROVE k + 1 \in T
  <2>1. PICK f : KeepFcn(f, q, S, k) BY <1>2
  <2> DEFINE g == [i \in 0 .. k + 1 |-> IF i = k + 1 THEN KeepStep(f, q, S, k + 1) ELSE f[i]]
  <2>2. \A i \in 0 .. k + 1 : g[i] = KeepStep(g, q, S, i)
    <3> TAKE i \in 0 .. k + 1
    <3>1. CASE i = 0 
      BY <3>1, <2>1 DEF KeepFcn, KeepStep
    <3>2. CASE i \in 1 .. k
      <4>1. f[i] = KeepStep(f, q, S, i) BY <2>1, <3>2 DEF KeepFcn
      <4>2. g[i] = f[i] /\ g[i - 1] = f[i - 1] BY <3>2
      <4> HIDE DEF g
      <4> QED BY <4>1, <4>2, <3>2 DEF KeepStep
    <3>3. CASE i = k + 1
      <4>1. g[i] = KeepStep(f, q, S, i) BY <3>3
      <4>2. g[i - 1] = f[i - 1] BY <3>3
      <4> HIDE DEF g
      <4> QED BY <4>1, <4>2, <3>3 DEF KeepStep
    <3> QED BY <3>1, <3>2, <3>3
  <2>3. KeepFcn(g, q, S, k + 1)
    <3>1. g = [i \in 0 .. k + 1 |-> g[i]] OBVIOUS
    <3> HIDE DEF g
    <3> QED BY <3>1, <2>2 DEF KeepFcn
  <2> HIDE DEF g
  <2> QED BY <2>3
<1> HIDE DEF T
<1>3. Nat \subseteq T BY <1>1, <1>2, SetInduction
<1> QED BY <1>3 DEF T

(* Keep is the last value of that function.                                *)
LEMMA KeepUnfold ==
  ASSUME NEW A, NEW q \in Seq(A), NEW S
  PROVE  \E f : KeepFcn(f, q, S, Len(q)) /\ Keep(q, S) = f[Len(q)]
<1> DEFINE F == CHOOSE f : f = [i \in 0 .. Len(q) |->
        IF i = 0 THEN <<>>
        ELSE IF q[i] \in S THEN Append(f[i - 1], q[i]) ELSE f[i - 1]]
<1>1. \E f : f = [i \in 0 .. Len(q) |->
        IF i = 0 THEN <<>>
        ELSE IF q[i] \in S THEN Append(f[i - 1], q[i]) ELSE f[i - 1]]
  <2>1. Len(q) \in Nat OBVIOUS
  <2>2. PICK f : KeepFcn(f, q, S, Len(q)) BY <2>1, KeepExists
  <2>3. f = [i \in 0 .. Len(q) |-> KeepStep(f, q, S, i)] BY <2>2 DEF KeepFcn
  <2> QED BY <2>3 DEF KeepStep
<1>2. Keep(q, S) = F[Len(q)] BY DEF Keep
<1>3. KeepFcn(F, q, S, Len(q))
  BY <1>1 DEF KeepFcn, KeepStep
<1> HIDE DEF F
<1> QED BY <1>2, <1>3

(* After k steps the function holds the members of S among the first k of  *)
(* q, each as often as q does.                                             *)
LEMMA KeepFcnFacts ==
  ASSUME NEW A, NEW q \in Seq(A), NEW S, NEW f, KeepFcn(f, q, S, Len(q))
  PROVE  \A k \in 0 .. Len(q) :
           /\ f[k] \in Seq(A)
           /\ \A x : x \in Range(f[k]) <=> x \in S /\ \E i \in 1 .. k : q[i] = x
           /\ IsInjective(q) => IsInjective(f[k])
<1> PICK n \in Nat : n = Len(q) OBVIOUS
<1> DEFINE P(k) == /\ f[k] \in Seq(A)
                   /\ \A x : x \in Range(f[k]) <=> x \in S /\ \E i \in 1 .. k : q[i] = x
                   /\ IsInjective(q) => IsInjective(f[k])
           T == {k \in Nat : k <= n => P(k)}
<1>1. 0 \in T
  <2>1. f[0] = <<>> BY DEF KeepFcn, KeepStep
  <2>2. P(0) BY <2>1 DEF Range, IsInjective
  <2> HIDE DEF P
  <2> QED BY <2>2
<1>2. ASSUME NEW k \in Nat, k \in T PROVE k + 1 \in T
  <2> SUFFICES ASSUME k + 1 <= n PROVE P(k + 1)
    OBVIOUS
  <2>1. P(k) BY <1>2
  <2>2. f[k + 1] = IF q[k + 1] \in S THEN Append(f[k], q[k + 1]) ELSE f[k]
    <3>1. f[k + 1] = KeepStep(f, q, S, k + 1) BY DEF KeepFcn
    <3>2. (k + 1) - 1 = k /\ k + 1 # 0 OBVIOUS
    <3> QED BY <3>1, <3>2 DEF KeepStep
  <2>3. q[k + 1] \in A BY ElementOfSeq
  <2>4. \A i \in 1 .. k + 1 : i \in 1 .. k \/ i = k + 1 OBVIOUS
  <2>5. \A i \in 1 .. k : i \in 1 .. k + 1 OBVIOUS
  <2>6. k + 1 \in 1 .. k + 1 OBVIOUS
  <2> DEFINE y == q[k + 1] 
             g == f[k]
             h == f[k + 1]
  <2>7. CASE y \notin S
    <3>1. h = g BY <2>2, <2>7
    <3>2. \A x : x \in Range(h) <=> x \in S /\ \E i \in 1 .. k + 1 : q[i] = x
      BY <3>1, <2>1, <2>4, <2>5, <2>6, <2>7
    <3> QED BY <2>1, <3>1, <3>2
  <2>8. CASE y \in S
    <3>1. h = Append(g, y) BY <2>2, <2>8
    <3>2. g \in Seq(A) BY <2>1
    <3>3. \A x : x \in Range(g) <=> x \in S /\ \E i \in 1 .. k : q[i] = x BY <2>1
    <3>4. IsInjective(q) => IsInjective(g) BY <2>1
    <3>5. PICK m \in Nat : m = Len(g) BY <3>2
    <3>7. DOMAIN q = 1 .. n OBVIOUS
    <3> HIDE DEF g, h
    <3>6. /\ h \in Seq(A) /\ Len(h) = m + 1 /\ h[m + 1] = y
          /\ \A i \in 1 .. m : h[i] = g[i]
      BY <3>1, <3>2, <3>5, <2>3, AppendProperties
    <3>8. \A x : x \in Range(h) <=> x \in Range(g) \/ x = y
      <4>1. DOMAIN h = 1 .. m + 1 /\ DOMAIN g = 1 .. m BY <3>6, <3>2, <3>5
      <4>2. \A i \in 1 .. m + 1 : i \in 1 .. m \/ i = m + 1 OBVIOUS
      <4>3. m + 1 \in 1 .. m + 1 /\ \A i \in 1 .. m : i \in 1 .. m + 1 OBVIOUS
      <4> HIDE DEF y
      <4> QED BY <4>1, <4>2, <4>3, <3>6 DEF Range
    <3>9. \A x : x \in Range(h) <=> x \in S /\ \E i \in 1 .. k + 1 : q[i] = x
      BY <3>8, <3>3, <2>4, <2>5, <2>6, <2>8
    <3>10. ASSUME IsInjective(q) PROVE IsInjective(h)
      <4>1. IsInjective(g) BY <3>10, <3>4
      <4>2. y \notin Range(g)
        <5>1. \A i \in 1 .. k : q[i] # y
          BY <3>10, <3>7 DEF IsInjective
        <5> QED BY <5>1, <3>3
      <4>3. DOMAIN h = 1 .. m + 1 /\ DOMAIN g = 1 .. m BY <3>6, <3>2, <3>5
      <4>4. \A i \in 1 .. m + 1 : i \in 1 .. m \/ i = m + 1 OBVIOUS
      <4>5. \A i \in 1 .. m : g[i] # y BY <4>2, <4>3 DEF Range
      <4> HIDE DEF y
      <4> QED BY <4>1, <4>3, <4>4, <4>5, <3>6 DEF IsInjective
    <3> QED BY <3>6, <3>9, <3>10 DEF h
  <2> HIDE DEF P
  <2> QED BY <2>7, <2>8
<1> HIDE DEF P
<1>3. Nat \subseteq T BY <1>1, <1>2, SetInduction
<1>4. \A k \in 0 .. n : P(k) BY <1>3
<1> QED BY <1>4 DEF P

(* Keep keeps exactly the members of S, and stays injective.               *)
LEMMA KeepFacts ==
  ASSUME NEW A, NEW q \in Seq(A), NEW S
  PROVE  /\ Keep(q, S) \in Seq(A)
         /\ \A x : x \in Range(Keep(q, S)) <=> x \in Range(q) /\ x \in S
         /\ IsInjective(q) => IsInjective(Keep(q, S))
<1>1. PICK f : KeepFcn(f, q, S, Len(q)) /\ Keep(q, S) = f[Len(q)] BY KeepUnfold
<1>2. Len(q) \in 0 .. Len(q) /\ DOMAIN q = 1 .. Len(q) OBVIOUS
<1>3. /\ f[Len(q)] \in Seq(A)
      /\ \A x : x \in Range(f[Len(q)]) <=> x \in S /\ \E i \in 1 .. Len(q) : q[i] = x
      /\ IsInjective(q) => IsInjective(f[Len(q)])
   BY <1>1, <1>2, KeepFcnFacts
<1> QED BY <1>1, <1>2, <1>3 DEF Range

(* The nodes of a queue that an operation of c may commit.                 *)
LEMMA PendingFacts ==
  ASSUME NEW A, NEW q \in Seq(A), NEW c
  PROVE  /\ Pending(q, c) \in Seq(A)
         /\ \A n : n \in Range(Pending(q, c)) <=> n \in Range(q) /\ NodePending(n) /\ n.co # c
         /\ IsInjective(q) => IsInjective(Pending(q, c))
<1> DEFINE S == {n \in Range(q) : NodePending(n) /\ n.co # c}
<1>1. Pending(q, c) = Keep(q, S) BY DEF Pending
<1>2. \A n : n \in Range(q) /\ n \in S <=> n \in Range(q) /\ NodePending(n) /\ n.co # c
  OBVIOUS
<1> HIDE DEF S
<1> QED BY <1>1, <1>2, KeepFacts

(* Unlinking the nodes of S from a queue.                                  *)
LEMMA WithoutFacts ==
  ASSUME NEW A, NEW q \in Seq(A), NEW S
  PROVE  /\ Without(q, S) \in Seq(A)
         /\ \A n : n \in Range(Without(q, S)) <=> n \in Range(q) /\ n \notin S
         /\ IsInjective(q) => IsInjective(Without(q, S))
<1> DEFINE T == Range(q) \ S
<1>1. Without(q, S) = Keep(q, T) BY DEF Without
<1>2. \A n : n \in Range(q) /\ n \in T <=> n \in Range(q) /\ n \notin S OBVIOUS
<1> HIDE DEF T
<1> QED BY <1>1, <1>2, KeepFacts

(* Head, tail and members of a sequence.                                   *)
LEMMA HeadFacts ==
  ASSUME NEW A, NEW q \in Seq(A), q # <<>>
  PROVE  /\ Head(q) \in A /\ Head(q) \in Range(q)
         /\ Tail(q) \in Seq(A)
         /\ \A n : n \in Range(q) => n = Head(q) \/ n \in Range(Tail(q))
         /\ \A n : n \in Range(Tail(q)) => n \in Range(q)
         /\ Len(q) = 1 <=> Tail(q) = <<>>
         /\ Len(q) > 1 <=> Tail(q) # <<>>
<1>1. PICK k \in Nat : k = Len(q) OBVIOUS
<1>2. k > 0 BY <1>1, EmptySeq
<1>3. Head(q) = q[1] /\ q[1] \in A BY <1>1, <1>2, ElementOfSeq
<1>4. DOMAIN q = 1 .. k BY <1>1
<1>5. /\ Tail(q) \in Seq(A) /\ Len(Tail(q)) = k - 1
      /\ \A i \in 1 .. k - 1 : Tail(q)[i] = q[i + 1]
  BY <1>1, HeadTailProperties
<1>6. DOMAIN Tail(q) = 1 .. k - 1 BY <1>5, LenProperties
<1>9. \A i \in 1 .. k - 1 : i + 1 \in 1 .. k BY <1>2
<1> DEFINE t == Tail(q)
<1>14. t \in Seq(A) /\ Len(t) = k - 1 /\ DOMAIN t = 1 .. k - 1
       /\ \A i \in 1 .. k - 1 : t[i] = q[i + 1]
  BY <1>5, <1>6
<1> HIDE DEF t
<1>7. t = <<>> <=> k = 1 BY <1>2, <1>14, EmptySeq
<1>10. ASSUME NEW n \in Range(q) PROVE n = q[1] \/ n \in Range(t)
  <2>1. PICK i \in 1 .. k : n = q[i] BY <1>4 DEF Range
  <2>2. CASE i = 1 BY <2>1, <2>2
  <2>3. CASE i # 1
    <3>1. i - 1 \in 1 .. k - 1 /\ (i - 1) + 1 = i BY <2>3, <1>2
    <3>2. t[i - 1] = n BY <3>1, <1>14, <2>1
    <3> QED BY <3>1, <3>2, <1>14 DEF Range
  <2> QED BY <2>2, <2>3
<1>11. \A n : n \in Range(t) => n \in Range(q)
  BY <1>4, <1>14, <1>9 DEF Range
<1>12. 1 \in 1 .. k BY <1>2
<1>13. q[1] \in Range(q) BY <1>4, <1>12 DEF Range
<1> QED BY <1>1, <1>2, <1>3, <1>5, <1>7, <1>10, <1>11, <1>13 DEF t

LEMMA RangeFacts ==
  ASSUME NEW A, NEW q \in Seq(A)
  PROVE  /\ \A n \in Range(q) : n \in A
         /\ q # <<>> <=> \E n : n \in Range(q)
<1>1. \A i \in DOMAIN q : q[i] \in A OBVIOUS
<1>2. \A n \in Range(q) : n \in A BY <1>1 DEF Range
<1>3. q # <<>> => \E n : n \in Range(q) BY HeadFacts
<1>4. Range(<<>>) = {} BY DEF Range
<1> QED BY <1>2, <1>3, <1>4

LEMMA AppendFacts ==
  ASSUME NEW A, NEW q \in Seq(A), NEW x \in A
  PROVE  /\ Append(q, x) \in Seq(A)
         /\ \A n : n \in Range(Append(q, x)) <=> n \in Range(q) \/ n = x
         /\ IsInjective(q) /\ x \notin Range(q) => IsInjective(Append(q, x))
<1>1. PICK k \in Nat : k = Len(q) OBVIOUS
<1> DEFINE h == Append(q, x)
<1>2. /\ h \in Seq(A) /\ Len(h) = k + 1 /\ h[k + 1] = x
      /\ \A i \in 1 .. k : h[i] = q[i]
  BY <1>1, AppendProperties
<1>3. DOMAIN h = 1 .. k + 1 /\ DOMAIN q = 1 .. k BY <1>1, <1>2, LenProperties
<1>4. \A i \in 1 .. k + 1 : i \in 1 .. k \/ i = k + 1 OBVIOUS
<1>5. k + 1 \in 1 .. k + 1 /\ \A i \in 1 .. k : i \in 1 .. k + 1 OBVIOUS
<1> HIDE DEF h
<1>6. \A n : n \in Range(h) <=> n \in Range(q) \/ n = x
  BY <1>2, <1>3, <1>4, <1>5 DEF Range
<1>7. ASSUME IsInjective(q), x \notin Range(q) PROVE IsInjective(h)
  <2>1. \A i \in 1 .. k : q[i] # x BY <1>3, <1>7 DEF Range
  <2> QED BY <1>2, <1>3, <1>4, <1>7, <2>1 DEF IsInjective
<1> QED BY <1>2, <1>6, <1>7 DEF h

LEMMA ConcatFacts ==
  ASSUME NEW A, NEW p \in Seq(A), NEW q \in Seq(A)
  PROVE  /\ p \o q \in Seq(A)
         /\ \A n : n \in Range(p \o q) <=> n \in Range(p) \/ n \in Range(q)
         /\ IsInjective(p) /\ IsInjective(q) /\ (\A n \in Range(p) : n \notin Range(q))
              => IsInjective(p \o q)
<1>1. PICK k \in Nat : k = Len(p) OBVIOUS
<1>2. PICK l \in Nat : l = Len(q) OBVIOUS
<1> DEFINE h == p \o q
<1>3. /\ h \in Seq(A) /\ Len(h) = k + l
      /\ \A i \in 1 .. k + l : h[i] = IF i <= k THEN p[i] ELSE q[i - k]
  BY <1>1, <1>2, ConcatProperties
<1>4. DOMAIN h = 1 .. k + l /\ DOMAIN p = 1 .. k /\ DOMAIN q = 1 .. l
  BY <1>1, <1>2, <1>3, LenProperties
<1> HIDE DEF h
<1>5. \A i \in 1 .. k : i \in 1 .. k + l /\ h[i] = p[i] BY <1>3
<1>6. \A j \in 1 .. l : j + k \in 1 .. k + l /\ h[j + k] = q[j]
  <2> TAKE j \in 1 .. l
  <2>1. j + k \in 1 .. k + l /\ ~(j + k <= k) /\ (j + k) - k = j OBVIOUS
  <2> QED BY <2>1, <1>3
<1>7. \A i \in 1 .. k + l : i \in 1 .. k \/ \E j \in 1 .. l : i = j + k
  <2> TAKE i \in 1 .. k + l
  <2>1. CASE i <= k BY <2>1
  <2>2. CASE i > k
    <3>1. i - k \in 1 .. l /\ i = (i - k) + k BY <2>2
    <3> QED BY <3>1
  <2> QED BY <2>1, <2>2
<1>8. \A n : n \in Range(h) <=> n \in Range(p) \/ n \in Range(q)
  <2>1. ASSUME NEW n \in Range(h) PROVE n \in Range(p) \/ n \in Range(q)
    <3>1. PICK i \in 1 .. k + l : n = h[i] BY <1>4 DEF Range
    <3>2. CASE i \in 1 .. k BY <3>1, <3>2, <1>4, <1>5 DEF Range
    <3>3. CASE i \notin 1 .. k
      <4>1. PICK j \in 1 .. l : i = j + k BY <3>3, <1>7
      <4>2. n = q[j] BY <3>1, <4>1, <1>6
      <4> QED BY <4>2, <1>4 DEF Range
    <3> QED BY <3>2, <3>3
  <2>2. \A n : n \in Range(p) => n \in Range(h) BY <1>4, <1>5 DEF Range
  <2>3. \A n : n \in Range(q) => n \in Range(h) BY <1>4, <1>6 DEF Range
  <2> QED BY <2>1, <2>2, <2>3
<1>9. ASSUME IsInjective(p), IsInjective(q), \A n \in Range(p) : n \notin Range(q)
      PROVE  IsInjective(h)
  <2>1. \A i \in 1 .. k, j \in 1 .. l : p[i] # q[j] BY <1>4, <1>9 DEF Range
  <2> SUFFICES ASSUME NEW a \in 1 .. k + l, NEW b \in 1 .. k + l, h[a] = h[b] PROVE a = b
    BY <1>4 DEF IsInjective
  <2>2. CASE a \in 1 .. k /\ b \in 1 .. k BY <2>2, <1>4, <1>5, <1>9 DEF IsInjective
  <2>3. CASE a \in 1 .. k /\ b \notin 1 .. k
    <3>1. PICK j \in 1 .. l : b = j + k BY <2>3, <1>7
    <3>2. h[b] = q[j] /\ h[a] = p[a] BY <3>1, <2>3, <1>5, <1>6
    <3> QED BY <3>2, <2>1, <2>3
  <2>4. CASE a \notin 1 .. k /\ b \in 1 .. k
    <3>1. PICK j \in 1 .. l : a = j + k BY <2>4, <1>7
    <3>2. h[a] = q[j] /\ h[b] = p[b] BY <3>1, <2>4, <1>5, <1>6
    <3> QED BY <3>2, <2>1, <2>4
  <2>5. CASE a \notin 1 .. k /\ b \notin 1 .. k
    <3>1. PICK i \in 1 .. l : a = i + k BY <2>5, <1>7
    <3>2. PICK j \in 1 .. l : b = j + k BY <2>5, <1>7
    <3>3. h[a] = q[i] /\ h[b] = q[j] BY <3>1, <3>2, <1>6
    <3>4. i = j BY <3>3, <1>4, <1>9 DEF IsInjective
    <3> QED BY <3>1, <3>2, <3>4
  <2> QED BY <2>2, <2>3, <2>4, <2>5
<1> QED BY <1>3, <1>8, <1>9 DEF h

(* What Claim does to one coroutine: the record that names it, if any, is  *)
(* what it is given.                                                       *)
LEMMA ClaimFacts ==
  ASSUME NEW K, Claim(K), NEW c \in Coroutines
  PROVE  \/ /\ \A k \in K : k.co # c
            /\ delivered'[c] = delivered[c] /\ winner'[c] = winner[c]
         \/ \E k \in K :
              /\ k.co = c
              /\ delivered'[c] = [gen |-> wgen[c], res |-> k.res]
              /\ winner'[c] = IF IsSelect(c) THEN CaseWinner(k.case) ELSE winner[c]
<1> DEFINE m == CHOOSE k \in K : k.co = c
<1>1. CASE \A k \in K : k.co # c BY <1>1 DEF Claim
<1>2. CASE \E k \in K : k.co = c
  <2>1. m \in K /\ m.co = c BY <1>2
  <2>2. delivered'[c] = [gen |-> wgen[c], res |-> m.res] BY <1>2 DEF Claim
  <2>3. winner'[c] = IF IsSelect(c) THEN CaseWinner(m.case) ELSE winner[c] BY <1>2 DEF Claim
  <2> HIDE DEF m
  <2> QED BY <2>1, <2>2, <2>3
<1> QED BY <1>1, <1>2

LEMMA ClaimDomains ==
  ASSUME NEW K, Claim(K)
  PROVE  /\ DOMAIN delivered' = Coroutines /\ DOMAIN winner' = Coroutines
         /\ delivered' = [c \in Coroutines |-> delivered'[c]]
         /\ winner' = [c \in Coroutines |-> winner'[c]]
  BY DEF Claim

-----------------------------------------------------------------------------
(* The places of a handler, by what has been done there: nothing of a      *)
(* round exists, a select looks for a ready case, a select is under way.   *)
Early        == {"idle", "call", "checked", "reserved"}
Trying       == {"try", "probe", "retry"}
SelectPlaces == Trying \union {"register", "arm", "armed", "cleanup"}
Places       == Early \union SelectPlaces \union InWait \union
  {"register_cancel", "join", "wake", "wake_join", "done", "cancel", "cancel_wake"}

(* The operations that may wait, and those that a token cancels.           *)
WaitOps   == {"send", "send_large", "recv", "recv_cancel", "join", "join_cancel", "select"}
CancelOps == {"recv_cancel", "join_cancel"}

(* A channel of capacity cap; a reserved slot is the one at the tail, and  *)
(* stays free for its owner.                                               *)
ChannelType(cap) ==
  [closed : BOOLEAN, head : Nat, tail : Nat, len : 0 .. cap, ring : [0 .. cap - 1 -> Slots],
   sendQ : Seq(Nodes), recvQ : Seq(Nodes)]

RingOK(q, cap) ==
  /\ q \in ChannelType(cap)
  /\ cap > 0 => q.head < cap /\ q.tail < cap
  /\ \A i \in 0 .. cap - 1 : q.ring[i].state = "Reserved" => i = q.tail /\ q.len < cap

ChanTypes == DOMAIN chan = Channels /\ \A ch \in Channels : RingOK(chan[ch], Capacity[ch])

Types ==
  /\ life \in [Coroutines -> States]
  /\ calls \in [Coroutines -> 0 .. MaxCalls]
  /\ req \in [Coroutines -> Requests \union {NoRequest}]
  /\ pc \in [Coroutines -> Places]
  /\ out \in [Coroutines -> CallResults]
  /\ wgen \in [Coroutines -> 0 .. MaxCalls]
  /\ delivered \in [Coroutines -> [gen : 0 .. MaxCalls, res : WaitResults \union {NoResult}]]
  /\ armed \in [Coroutines -> Seq(Nodes)]
  /\ readied \in [Coroutines -> 0 .. MaxCalls]
  /\ phase \in [Coroutines -> {"Building", "Armed"}]
  /\ winner \in [Coroutines -> Nat]
  /\ scan \in [Coroutines -> [todo : SUBSET Sources, ready : SUBSET Nat]]
  /\ wakes \in [Coroutines -> Seq(Nodes)]
  /\ waitQ \in [Coroutines \union {Never} -> Seq(Nodes)]
  /\ cancelled \in BOOLEAN
  /\ cancelQ \in Seq(Nodes)

(* The wait-nodes of generation g of c for these cases.                    *)
RoundOf(c, cases, g) ==
  IF cases = <<>> THEN <<[co |-> c, gen |-> g, case |-> 0]>>
  ELSE [i \in DOMAIN cases |-> [co |-> c, gen |-> g, case |-> i]]

(* The lifecycle word goes with the place of the handler.                  *)
LifeFits(c) ==
  /\ pc[c] \in Early \union Trying \union {"register", "arm", "join", "cancel", "cancel_wake", "cleanup"}
       => life[c] = "Running"
  /\ pc[c] = "armed" =>
       life[c] \in {"Running", "Parking"} /\ (life[c] = "Running" => winner[c] # Unset)
  /\ pc[c] \in {"register_cancel", "park", "sleep"} => life[c] = "Parking"
  /\ pc[c] \in {"recheck", "blocked"} => life[c] \in {"Waiting", "Runnable"}
  /\ pc[c] = "wake" => life[c] \in {"Running", "Dead"} /\ (req[c].op = "select" => life[c] = "Running")
  /\ pc[c] \in {"wake_join", "done"} => life[c] = "Dead"

(* ... and the request with it.                                            *)
OpFits(c) ==
  /\ pc[c] # "idle" => req[c] \in Requests
  /\ pc[c] \in SelectPlaces => req[c].op = "select"
  /\ pc[c] \in Trying => req[c].cases # <<>> \/ req[c].default
  /\ pc[c] \in {"checked", "register_cancel"} => req[c].op \in CancelOps
  /\ pc[c] = "reserved" => req[c].op = "send_large" /\ Capacity[req[c].cases[1].src] > 0
  /\ pc[c] = "join" => req[c].op \in {"join", "join_cancel"}
  /\ pc[c] \in {"cancel", "cancel_wake"} => req[c].op = "cancel"
  /\ pc[c] = "wake_join" => req[c].op = "finish"
  /\ pc[c] \in InWait => req[c].op \in WaitOps /\ (req[c].op = "select" => phase[c] = "Armed")
  /\ pc[c] \in {"call", "checked", "reserved"} => wgen[c] < calls[c]

(* A scan visits sources of the request and finds cases of it ready.       *)
ScanFits(c) ==
  pc[c] \in {"probe", "retry", "register"} =>
    /\ scan[c].todo \subseteq {Case(c, i).src : i \in Cases(c)}
    /\ scan[c].ready \subseteq Cases(c)

(* A coroutine has all wait-nodes of its latest round or none, and once    *)
(* it is made runnable none.                                               *)
ArmedFits(c) ==
  /\ wgen[c] <= calls[c] /\ readied[c] <= wgen[c]
  /\ armed[c] # <<>> => armed[c] = RoundOf(c, req[c].cases, wgen[c]) /\ readied[c] < wgen[c]
  /\ pc[c] \in Early \union Trying \union {"cancel", "cancel_wake", "wake_join", "done"} => armed[c] = <<>>
  /\ pc[c] = "wake" /\ req[c].op # "select" => armed[c] = <<>>
  /\ pc[c] \in Trying => readied[c] < wgen[c]
  /\ pc[c] \in {"register", "register_cancel", "join", "park", "sleep"} => armed[c] # <<>>
  /\ pc[c] \in {"arm", "armed"} => armed[c] # <<>> \/ winner[c] # Unset
  /\ pc[c] \in {"recheck", "blocked"} =>
       \/ life[c] = "Waiting" /\ armed[c] # <<>>
       \/ life[c] = "Runnable" /\ armed[c] = <<>> /\ readied[c] = wgen[c] /\ Completed(c)

(* Wake-ups are owed at the places where they are made.                    *)
WakesFits(c) ==
  /\ pc[c] \notin {"wake", "arm", "armed", "cancel", "cancel_wake"} => wakes[c] = <<>>
  /\ pc[c] \in {"wake", "cancel", "cancel_wake"} => wakes[c] # <<>>
  /\ pc[c] \in {"arm", "armed"} /\ winner[c] = Unset => wakes[c] = <<>>

(* A claim is of the latest generation; for a select it is the same as a   *)
(* winner, and one of its nodes won.                                       *)
ClaimFits(c) ==
  /\ delivered[c].gen \in {0, wgen[c]}
  /\ pc[c] \in Trying => winner[c] = Unset
  /\ req[c].op = "select" /\ pc[c] \in SelectPlaces \union InWait \union {"wake"} =>
       (delivered[c].gen = wgen[c] <=> winner[c] # Unset)
  /\ pc[c] = "cleanup" => winner[c] # Unset
  /\ pc[c] = "wake" /\ req[c].op = "select" => winner[c] # Unset
  /\ armed[c] # <<>> /\ delivered[c].gen = wgen[c] =>
       /\ delivered[c].res # NoResult
       /\ req[c].op = "select" => \E n \in Range(armed[c]) : winner[c] = CaseWinner(n.case)

Local(c) ==
  LifeFits(c) /\ OpFits(c) /\ ScanFits(c) /\ ArmedFits(c) /\ WakesFits(c) /\ ClaimFits(c)

LocalInv == Types /\ ChanTypes /\ \A c \in Coroutines : Local(c)

-----------------------------------------------------------------------------
(* What an action of another coroutine leaves alone in e ...               *)
Steady(e) ==
  /\ pc'[e] = pc[e] /\ req'[e] = req[e] /\ calls'[e] = calls[e] /\ out'[e] = out[e]
  /\ wgen'[e] = wgen[e] /\ phase'[e] = phase[e] /\ scan'[e] = scan[e] /\ wakes'[e] = wakes[e]

(* ... and what it may do to it: nothing, claim its round, or wake it.     *)
Same(e) ==
  /\ life'[e] = life[e] /\ delivered'[e] = delivered[e] /\ armed'[e] = armed[e]
  /\ readied'[e] = readied[e] /\ winner'[e] = winner[e]

Given(e) ==
  \E n, r :
    /\ NodePending(n) /\ n.co = e /\ r \in WaitResults
    /\ delivered'[e] = [gen |-> wgen[e], res |-> r]
    /\ winner'[e] = IF req[e].op = "select" THEN CaseWinner(n.case) ELSE winner[e]
    /\ life'[e] = life[e] /\ armed'[e] = armed[e] /\ readied'[e] = readied[e]

Woken(e) ==
  \E n :
    /\ CanWake(n) /\ n.co = e
    /\ life'[e] = "Runnable" /\ readied'[e] = n.gen /\ armed'[e] = <<>>
    /\ delivered'[e] = delivered[e] /\ winner'[e] = winner[e]

Bystander(e) == Steady(e) /\ (Same(e) \/ Given(e) \/ Woken(e))

LEMMA NodeOfRound ==
  ASSUME NEW c, NEW cases, NEW g, NEW n \in Range(RoundOf(c, cases, g))
  PROVE  n.co = c /\ n.gen = g /\ n = [co |-> c, gen |-> g, case |-> n.case]
         /\ (cases = <<>> => n.case = 0) /\ (cases # <<>> => n.case \in DOMAIN cases)
<1>1. CASE cases = <<>> BY <1>1 DEF RoundOf, Range
<1>2. CASE cases # <<>>
  <2>1. PICK i \in DOMAIN cases : n = [co |-> c, gen |-> g, case |-> i]
    BY <1>2 DEF RoundOf, Range
  <2> QED BY <1>2, <2>1
<1> QED BY <1>1, <1>2

LEMMA ResultNotNone == \A r \in WaitResults : r # NoResult
  BY DEF WaitResults, WaitKinds, Result, Received, NoResult

LEMMA NodeTypes ==
  ASSUME Types, NEW e \in Coroutines
  PROVE  /\ \A n \in Range(armed[e]) : n \in Nodes
         /\ \A n \in Range(wakes[e]) : n \in Nodes
<1>1. armed[e] \in Seq(Nodes) /\ wakes[e] \in Seq(Nodes) BY DEF Types
<1> QED BY <1>1, RangeFacts

LEMMA BystanderLocal ==
  ASSUME Types, NEW e \in Coroutines, Local(e), Bystander(e)
  PROVE  Local(e)'
<1> USE DEF Local
<1>0. /\ pc'[e] = pc[e] /\ req'[e] = req[e] /\ calls'[e] = calls[e] /\ out'[e] = out[e]
      /\ wgen'[e] = wgen[e] /\ phase'[e] = phase[e] /\ scan'[e] = scan[e] /\ wakes'[e] = wakes[e]
  BY DEF Bystander, Steady
<1>1. CASE Same(e)
  <2>1. LifeFits(e)' BY <1>0, <1>1 DEF Same, LifeFits
  <2>2. OpFits(e)' BY <1>0, <1>1 DEF Same, OpFits
  <2>3. ScanFits(e)' BY <1>0, <1>1 DEF Same, ScanFits, Case, Cases
  <2>4. ArmedFits(e)' BY <1>0, <1>1 DEF Same, ArmedFits, Completed
  <2>5. WakesFits(e)' BY <1>0, <1>1 DEF Same, WakesFits
  <2>6. ClaimFits(e)' BY <1>0, <1>1 DEF Same, ClaimFits
  <2> QED BY <2>1, <2>2, <2>3, <2>4, <2>5, <2>6
<1>2. CASE Given(e)
  <2>1. PICK n, r : /\ NodePending(n) /\ n.co = e /\ r \in WaitResults
                    /\ delivered'[e] = [gen |-> wgen[e], res |-> r]
                    /\ winner'[e] = IF req[e].op = "select" THEN CaseWinner(n.case) ELSE winner[e]
                    /\ life'[e] = life[e] /\ armed'[e] = armed[e] /\ readied'[e] = readied[e]
    BY <1>2 DEF Given
  <2>2. n \in Range(armed[e]) /\ armed[e] # <<>> /\ n.gen = wgen[e]
    BY <2>1 DEF NodePending, Live, Range
  <2>3. wgen[e] # 0 /\ delivered[e].gen # wgen[e] /\ (req[e].op = "select" => winner[e] = Unset)
    BY <2>1 DEF NodePending, CanClaim, IsSelect
  <2>4. r # NoResult /\ delivered'[e].gen = wgen[e] /\ delivered'[e].res = r BY <2>1, ResultNotNone
  <2>5. n.case \in Nat BY <2>2, NodeTypes DEF Nodes
  <2>6. CaseWinner(n.case) # Unset BY <2>5 DEF CaseWinner, Unset
  <2>7. LifeFits(e)' BY <1>0, <2>1, <2>6, <2>2 DEF LifeFits
  <2>8. OpFits(e)' BY <1>0, <2>1 DEF OpFits
  <2>9. ScanFits(e)' BY <1>0, <2>1 DEF ScanFits, Case, Cases
  <2>10. ArmedFits(e)' BY <1>0, <2>1, <2>2, <2>6 DEF ArmedFits, Completed
  <2>11. WakesFits(e)' BY <1>0, <2>1, <2>3, <2>6 DEF WakesFits
  <2>12. ClaimFits(e)' BY <1>0, <2>1, <2>2, <2>3, <2>4, <2>6 DEF ClaimFits, ArmedFits, LifeFits
  <2> QED BY <2>7, <2>8, <2>9, <2>10, <2>11, <2>12
<1>3. CASE Woken(e)
  <2>1. PICK n : /\ CanWake(n) /\ n.co = e
                 /\ life'[e] = "Runnable" /\ readied'[e] = n.gen /\ armed'[e] = <<>>
                 /\ delivered'[e] = delivered[e] /\ winner'[e] = winner[e]
    BY <1>3 DEF Woken
  <2>2. life[e] = "Waiting" /\ n.gen = wgen[e] /\ Completed(e)
    BY <2>1 DEF CanWake, NodeCompleted
  <2>3. pc[e] \in {"recheck", "blocked"}
    BY <2>2 DEF LifeFits, Types, Places, SelectPlaces, Early, Trying, InWait
  <2>4. LifeFits(e)' BY <1>0, <2>1, <2>3 DEF LifeFits, Early, Trying
  <2>5. OpFits(e)' BY <1>0, <2>1 DEF OpFits
  <2>6. ScanFits(e)' BY <1>0, <2>1 DEF ScanFits, Case, Cases
  <2>7. ArmedFits(e)' 
    <3>1. wgen[e] \in Nat BY DEF Types
    <3> QED BY <1>0, <2>1, <2>2, <2>3, <3>1 DEF ArmedFits, Completed, Early, Trying
  <2>8. WakesFits(e)' BY <1>0, <2>1 DEF WakesFits
  <2>9. ClaimFits(e)' BY <1>0, <2>1 DEF ClaimFits
  <2> QED BY <2>4, <2>5, <2>6, <2>7, <2>8, <2>9
<1> QED BY <1>1, <1>2, <1>3 DEF Bystander

Step(c) ==
  Types' /\ ChanTypes' /\ Local(c)' /\ \A e \in Coroutines \ {c} : Bystander(e)

LEMMA ResultTypes ==
  /\ \A k \in {"none", "Full", "Empty", "Default", "Error", "Done"} : Result(k) \in CallResults
  /\ \A k \in WaitKinds : Result(k) \in WaitResults
  /\ \A v \in Payloads : Received(v) \in WaitResults
  /\ \A r \in WaitResults : r \in CallResults
  /\ NoResult \in CallResults
  BY DEF CallResults, WaitResults, NoResult

SendOps == {"try_send", "send", "send_large"}
RecvOps == {"try_recv", "recv", "recv_cancel"}
JoinOps == {"join", "join_cancel"}

LEMMA RequestFacts ==
  ASSUME NEW r \in Requests
  PROVE  /\ r.op \in SendOps \union RecvOps \union JoinOps \union {"close"} =>
              DOMAIN r.cases = {1} /\ r.cases # <<>>
         /\ r.op \in SendOps => r.cases[1].dir = "send" /\ r.cases[1].src \in Channels
         /\ r.op \in RecvOps => r.cases[1].dir = "recv" /\ r.cases[1].src \in Channels
         /\ r.op = "close" => r.cases[1].src \in Channels
         /\ r.op \in JoinOps => r.cases[1].dir = "wait" /\ r.cases[1].src \in Coroutines
         /\ r.op = "select" => r.cases \in Seq(SelectCases)
         /\ r.op \in {"finish", "cancel"} => r.cases = <<>>
         /\ r.op \in SendOps \union RecvOps \union JoinOps \union {"close", "select", "finish", "cancel"}
<1> USE DEF SendOps, RecvOps, JoinOps
<1>1. CASE r \in OnOne({"try_send", "send", "send_large"}, "send", Channels) BY <1>1 DEF OnOne
<1>2. CASE r \in OnOne({"try_recv", "recv", "recv_cancel"}, "recv", Channels) BY <1>2 DEF OnOne
<1>3. CASE r \in OnOne({"close"}, "close", Channels) BY <1>3 DEF OnOne
<1>4. CASE r \in OnOne({"join", "join_cancel"}, "wait", Coroutines) BY <1>4 DEF OnOne
<1>5. CASE r \in [op : {"select"}, cases : Seq(SelectCases), default : BOOLEAN] BY <1>5
<1>6. CASE r \in Bare({"finish", "cancel"}) BY <1>6 DEF Bare
<1> QED BY <1>1, <1>2, <1>3, <1>4, <1>5, <1>6 DEF Requests

LEMMA OneRound ==
  ASSUME NEW c, NEW cases, NEW g, DOMAIN cases = {1}, cases # <<>>
  PROVE  RoundOf(c, cases, g) = <<[co |-> c, gen |-> g, case |-> 1]>>
<1> DEFINE x == [co |-> c, gen |-> g, case |-> 1]
<1>1. RoundOf(c, cases, g) = [i \in {1} |-> x] BY DEF RoundOf
<1>2. [i \in {1} |-> x] = <<x>>
  <2> HIDE DEF x
  <2>1. {1} = 1 .. 1 OBVIOUS
  <2> QED BY <2>1
<1> QED BY <1>1, <1>2

LEMMA NewNodeType ==
  ASSUME Types, NEW c \in Coroutines, Local(c), pc[c] \in {"call", "checked"}, NEW i \in Nat
  PROVE  /\ NewNode(c, i) \in Nodes /\ NewNode(c, i).co = c
         /\ wgen[c] + 1 \in 1 .. MaxCalls /\ wgen[c] + 1 <= calls[c] /\ readied[c] < wgen[c] + 1
<1>1. wgen[c] \in Nat /\ calls[c] \in 0 .. MaxCalls /\ MaxCalls \in Nat /\ readied[c] \in Nat
  BY WaitAssumption DEF Types
<1>2. wgen[c] < calls[c] /\ readied[c] <= wgen[c] BY DEF Local, OpFits, ArmedFits
<1> QED BY <1>1, <1>2 DEF NewNode, Nodes

(* An action that leaves the other coroutines alone.                       *)
LEMMA SameBystander ==
  ASSUME NEW e, Steady(e), Same(e) PROVE Bystander(e)
  BY DEF Bystander

LEMMA CallStep ==
  ASSUME Types, ChanTypes, NEW c \in Coroutines, Local(c), Call(c)
  PROVE  Step(c)
<1> USE DEF Call, planeVars, roundVars, claimVars, cancelVars, Goto, At
<1>1. Types'
  <2>1. PICK r \in Menu[c] : req' = [req EXCEPT ![c] = r] OBVIOUS
  <2>2. r \in Requests BY WaitAssumption
  <2>3. req' \in [Coroutines -> Requests \union {NoRequest}] BY <2>1, <2>2 DEF Types
  <2>4. calls' \in [Coroutines -> 0 .. MaxCalls] BY WaitAssumption DEF Types
  <2>5. out' \in [Coroutines -> CallResults] BY ResultTypes DEF Types
  <2> QED BY <2>3, <2>4, <2>5 DEF Types, Places, Early
<1>2. ChanTypes' BY DEF ChanTypes
<1>3. ASSUME NEW e \in Coroutines \ {c} PROVE Bystander(e)
  BY DEF Types, Bystander, Steady, Same
<1>4. LifeFits(c)'
  BY DEF Types, Local, LifeFits, Early, Trying
<1>5. OpFits(c)'
  BY WaitAssumption DEF Types, Local, OpFits, ArmedFits, SelectPlaces, Trying, InWait
<1>6. ScanFits(c)' BY DEF Types, ScanFits
<1>7. ArmedFits(c)' BY WaitAssumption DEF Types, Local, ArmedFits, Early, Trying
<1>8. WakesFits(c)' BY DEF Types, Local, WakesFits
<1>9. ClaimFits(c)' BY DEF Types, Local, ClaimFits, ArmedFits, SelectPlaces, Trying, InWait, Early
<1> QED BY <1>1, <1>2, <1>3, <1>4, <1>5, <1>6, <1>7, <1>8, <1>9 DEF Step, Local

LEMMA SelectFacts ==
  ASSUME Types, NEW c \in Coroutines, Local(c), pc[c] # "idle", req[c].op = "select"
  PROVE  /\ req[c].cases \in Seq(SelectCases) /\ req[c].default \in BOOLEAN
         /\ \A i \in Cases(c) : i \in Nat /\ i # 0 /\ Case(c, i) \in SelectCases
         /\ \A i \in Cases(c) : Case(c, i).src \in Sources
         /\ \A S \in SUBSET Cases(c) : S \in SUBSET Nat
         /\ {Case(c, i).src : i \in Cases(c)} \in SUBSET Sources
         /\ Cases(c) # {} <=> req[c].cases # <<>>
<1>1. req[c] \in Requests BY DEF Local, OpFits
<1>2. req[c].cases \in Seq(SelectCases) BY <1>1, RequestFacts
<1>3. req[c].default \in BOOLEAN BY <1>1 DEF Requests, OnOne, Bare
<1>4. \A i \in Cases(c) : i \in Nat /\ i # 0 /\ Case(c, i) \in SelectCases
  BY <1>2, ElementOfSeq DEF Cases, Case
<1>5. \A k \in SelectCases : k.src \in Sources BY DEF SelectCases, Sources
<1>6. Cases(c) # {} <=> req[c].cases # <<>>
  <2>1. PICK m \in Nat : m = Len(req[c].cases) BY <1>2
  <2>2. Cases(c) = 1 .. m BY <1>2, <2>1 DEF Cases
  <2>3. req[c].cases = <<>> <=> m = 0 BY <1>2, <2>1, EmptySeq
  <2> QED BY <2>2, <2>3
<1> QED BY <1>2, <1>3, <1>4, <1>5, <1>6

LEMMA WaitQAppend ==
  ASSUME Types, NEW s, NEW x \in Nodes
  PROVE  [waitQ EXCEPT ![s] = Append(@, x)] \in [Coroutines \union {Never} -> Seq(Nodes)]
<1>1. CASE s \in Coroutines \union {Never}
  <2>1. waitQ[s] \in Seq(Nodes) BY <1>1 DEF Types
  <2>2. Append(waitQ[s], x) \in Seq(Nodes) BY <2>1
  <2> QED BY <2>2 DEF Types
<1>2. CASE s \notin Coroutines \union {Never} BY <1>2 DEF Types
<1> QED BY <1>1, <1>2

LEMMA ArmEnterStep ==
  ASSUME Types, ChanTypes, NEW c \in Coroutines, Local(c), ArmEnter(c)
  PROVE  Step(c)
<1> USE DEF ArmEnter, Unset, Goto, At, callVars, roundVars, lifeVars, claimVars, cancelVars
<1>1. Types'
  BY DEF Types, Places, SelectPlaces, Early, InWait, States
<1>2. ChanTypes'
  BY DEF ChanTypes
<1>3. ASSUME NEW e \in Coroutines \ {c} PROVE Bystander(e)
  BY DEF Types, Bystander, Steady, Same
<1>4. Local(c)'
  BY DEF Types, Local, LifeFits, OpFits, ScanFits, ArmedFits, WakesFits, ClaimFits, SelectPlaces, Early, Trying, InWait, Case, Cases, Completed, WaitOps, CancelOps
<1> QED BY <1>1, <1>2, <1>3, <1>4 DEF Step

LEMMA ArmFinishStep ==
  ASSUME Types, ChanTypes, NEW c \in Coroutines, Local(c), ArmFinish(c)
  PROVE  Step(c)
<1> USE DEF ArmFinish, Unset, Goto, At, callVars, roundVars, lifeVars, claimVars, cancelVars
<1>1. Types'
  BY DEF Types, Places, SelectPlaces, Early, InWait, States
<1>2. ChanTypes'
  BY DEF ChanTypes
<1>3. ASSUME NEW e \in Coroutines \ {c} PROVE Bystander(e)
  BY DEF Types, Bystander, Steady, Same
<1>0. winner[c] = 0 => life[c] = "Parking"
  BY DEF Local, LifeFits
<1>4. LifeFits(c)'
  BY <1>0 DEF Types, Local, LifeFits, OpFits, ScanFits, ArmedFits, WakesFits, ClaimFits, SelectPlaces, Early, Trying, InWait, Case, Cases, Completed, WaitOps, CancelOps
<1>5. OpFits(c)'
  BY <1>0 DEF Types, Local, LifeFits, OpFits, ScanFits, ArmedFits, WakesFits, ClaimFits, SelectPlaces, Early, Trying, InWait, Case, Cases, Completed, WaitOps, CancelOps
<1>6. ScanFits(c)'
  BY <1>0 DEF Types, Local, LifeFits, OpFits, ScanFits, ArmedFits, WakesFits, ClaimFits, SelectPlaces, Early, Trying, InWait, Case, Cases, Completed, WaitOps, CancelOps
<1>7. ArmedFits(c)'
  BY <1>0 DEF Types, Local, LifeFits, OpFits, ScanFits, ArmedFits, WakesFits, ClaimFits, SelectPlaces, Early, Trying, InWait, Case, Cases, Completed, WaitOps, CancelOps
<1>8. WakesFits(c)'
  BY <1>0 DEF Types, Local, LifeFits, OpFits, ScanFits, ArmedFits, WakesFits, ClaimFits, SelectPlaces, Early, Trying, InWait, Case, Cases, Completed, WaitOps, CancelOps
<1>9. ClaimFits(c)'
  BY <1>0 DEF Types, Local, LifeFits, OpFits, ScanFits, ArmedFits, WakesFits, ClaimFits, SelectPlaces, Early, Trying, InWait, Case, Cases, Completed, WaitOps, CancelOps
<1> QED BY <1>1, <1>2, <1>3, <1>4, <1>5, <1>6, <1>7, <1>8, <1>9 DEF Step, Local

LEMMA ParkEnterStep ==
  ASSUME Types, ChanTypes, NEW c \in Coroutines, Local(c), ParkEnter(c)
  PROVE  Step(c)
<1> USE DEF ParkEnter, planeVars, Goto, At, callVars, roundVars, lifeVars, claimVars, cancelVars
<1>1. Types'
  BY DEF Types, Places, SelectPlaces, Early, InWait, States
<1>2. ChanTypes'
  BY DEF ChanTypes
<1>3. ASSUME NEW e \in Coroutines \ {c} PROVE Bystander(e)
  BY DEF Types, Bystander, Steady, Same
<1>4. Local(c)'
  BY DEF Types, Local, LifeFits, OpFits, ScanFits, ArmedFits, WakesFits, ClaimFits, SelectPlaces, Early, Trying, InWait, Case, Cases, Completed, WaitOps, CancelOps
<1> QED BY <1>1, <1>2, <1>3, <1>4 DEF Step

LEMMA ParkSleepStep ==
  ASSUME Types, ChanTypes, NEW c \in Coroutines, Local(c), ParkSleep(c)
  PROVE  Step(c)
<1> USE DEF ParkSleep, planeVars, Goto, At, callVars, roundVars, lifeVars, claimVars, cancelVars
<1>1. Types'
  BY DEF Types, Places, SelectPlaces, Early, InWait, States
<1>2. ChanTypes'
  BY DEF ChanTypes
<1>3. ASSUME NEW e \in Coroutines \ {c} PROVE Bystander(e)
  BY DEF Types, Bystander, Steady, Same
<1>4. Local(c)'
  BY DEF Types, Local, LifeFits, OpFits, ScanFits, ArmedFits, WakesFits, ClaimFits, SelectPlaces, Early, Trying, InWait, Case, Cases, Completed, WaitOps, CancelOps
<1> QED BY <1>1, <1>2, <1>3, <1>4 DEF Step

LEMMA FinishStep ==
  ASSUME Types, ChanTypes, NEW c \in Coroutines, Local(c), Finish(c)
  PROVE  Step(c)
<1> USE DEF Finish, joinRest, Serving, Goto, At, callVars, roundVars, lifeVars, claimVars, cancelVars
<1>1. Types'
  BY DEF Types, Places, SelectPlaces, Early, InWait, States
<1>2. ChanTypes'
  BY DEF ChanTypes
<1>3. ASSUME NEW e \in Coroutines \ {c} PROVE Bystander(e)
  BY DEF Types, Bystander, Steady, Same
<1>4. Local(c)'
  BY DEF Types, Local, LifeFits, OpFits, ScanFits, ArmedFits, WakesFits, ClaimFits, SelectPlaces, Early, Trying, InWait, Case, Cases, Completed, WaitOps, CancelOps
<1> QED BY <1>1, <1>2, <1>3, <1>4 DEF Step

LEMMA TrySendFullStep ==
  ASSUME Types, ChanTypes, NEW c \in Coroutines, Local(c), TrySendFull(c)
  PROVE  Step(c)
<1> USE DEF TrySendFull, restOfSend, Serving, Return, Goto, At, callVars, roundVars, lifeVars, claimVars, cancelVars
<1>1. Types'
  BY ResultTypes DEF Types, Places, SelectPlaces, Early, InWait, States
<1>2. ChanTypes'
  BY DEF ChanTypes
<1>3. ASSUME NEW e \in Coroutines \ {c} PROVE Bystander(e)
  BY DEF Types, Bystander, Steady, Same
<1>4. Local(c)'
  BY DEF Types, Local, LifeFits, OpFits, ScanFits, ArmedFits, WakesFits, ClaimFits, SelectPlaces, Early, Trying, InWait, Case, Cases, Completed, WaitOps, CancelOps
<1> QED BY <1>1, <1>2, <1>3, <1>4 DEF Step

LEMMA TryRecvEmptyStep ==
  ASSUME Types, ChanTypes, NEW c \in Coroutines, Local(c), TryRecvEmpty(c)
  PROVE  Step(c)
<1> USE DEF TryRecvEmpty, restOfSend, Serving, Return, Goto, At, callVars, roundVars, lifeVars, claimVars, cancelVars
<1>1. Types'
  BY ResultTypes DEF Types, Places, SelectPlaces, Early, InWait, States
<1>2. ChanTypes'
  BY DEF ChanTypes
<1>3. ASSUME NEW e \in Coroutines \ {c} PROVE Bystander(e)
  BY DEF Types, Bystander, Steady, Same
<1>4. Local(c)'
  BY DEF Types, Local, LifeFits, OpFits, ScanFits, ArmedFits, WakesFits, ClaimFits, SelectPlaces, Early, Trying, InWait, Case, Cases, Completed, WaitOps, CancelOps
<1> QED BY <1>1, <1>2, <1>3, <1>4 DEF Step

LEMMA CheckTokenStep ==
  ASSUME Types, ChanTypes, NEW c \in Coroutines, Local(c), CheckToken(c)
  PROVE  Step(c)
<1> USE DEF CheckToken, planeVars, Serving, Return, Goto, At, callVars, roundVars, lifeVars, claimVars, cancelVars
<1>0. \/ pc' = [pc EXCEPT ![c] = "idle"] /\ out' = [out EXCEPT ![c] = Result("Cancelled")]
      \/ pc' = [pc EXCEPT ![c] = "checked"] /\ out' = out
  <2>1. CASE cancelled BY <2>1
  <2>2. CASE ~cancelled BY <2>2
  <2> QED BY <2>1, <2>2
<1>00. Result("Cancelled") \in CallResults BY ResultTypes DEF WaitKinds
<1>000. UNCHANGED <<planeVars, callVars, wakes>> /\ pc[c] = "call" /\ req[c].op \in CancelOps
  BY DEF CancelOps
<1> HIDE DEF CheckToken
<1>1. Types'
  <2>1. out' \in [Coroutines -> CallResults] BY <1>0, <1>00 DEF Types
  <2>2. pc' \in [Coroutines -> Places] BY <1>0 DEF Types, Places, Early
  <2>3. cancelled' \in BOOLEAN BY <1>000 DEF Types
  <2> QED BY <2>1, <2>2, <2>3, <1>000 DEF Types, Places, SelectPlaces, Early, InWait, States
<1>2. ChanTypes'
  BY <1>000 DEF ChanTypes
<1>3. ASSUME NEW e \in Coroutines \ {c} PROVE Bystander(e)
  BY <1>0, <1>000 DEF Types, Bystander, Steady, Same
<1>4. Local(c)'
  BY <1>0, <1>000 DEF Types, Local, LifeFits, OpFits, ScanFits, ArmedFits, WakesFits, ClaimFits, SelectPlaces, Early, Trying, InWait, Case, Cases, Completed, WaitOps, CancelOps
<1> QED BY <1>1, <1>2, <1>3, <1>4 DEF Step

LEMMA ScanBeginStep ==
  ASSUME Types, ChanTypes, NEW c \in Coroutines, Local(c), ScanBegin(c)
  PROVE  Step(c)
<1> USE DEF ScanBegin, selectRest, Goto, At, callVars, roundVars, lifeVars, claimVars, cancelVars
<1> DEFINE D == {Case(c, i).src : i \in Cases(c)}
<1>0. D \in SUBSET Sources BY SelectFacts DEF Local, OpFits, SelectPlaces, Trying
<1>1. Types'
  <2>1. scan' \in [Coroutines -> [todo : SUBSET Sources, ready : SUBSET Nat]]
    <3> HIDE DEF D
    <3> SUFFICES scan' = [scan EXCEPT ![c] = [todo |-> D, ready |-> {}]] BY <1>0 DEF Types
    <3> QED BY DEF D
  <2> QED BY <2>1 DEF Types, Places, SelectPlaces, Trying
<1>2. ChanTypes'
  BY DEF ChanTypes
<1>3. ASSUME NEW e \in Coroutines \ {c} PROVE Bystander(e)
  BY DEF Types, Bystander, Steady, Same
<1>4. Local(c)'
  BY DEF Types, Local, LifeFits, OpFits, ScanFits, ArmedFits, WakesFits, ClaimFits, SelectPlaces, Early, Trying, InWait, Case, Cases, Completed, WaitOps, CancelOps
<1> QED BY <1>1, <1>2, <1>3, <1>4 DEF Step

LEMMA ResumeStep ==
  ASSUME Types, ChanTypes, NEW c \in Coroutines, Local(c), Resume(c)
  PROVE  Step(c)
<1> USE DEF Resume, TakeDelivered, Goto, At, callVars, roundVars, lifeVars, claimVars, cancelVars
<1>1. Types'
  BY ResultTypes DEF Types, Places, SelectPlaces, Early, InWait, States
<1>2. ChanTypes'
  BY DEF ChanTypes
<1>3. ASSUME NEW e \in Coroutines \ {c} PROVE Bystander(e)
  BY DEF Types, Bystander, Steady, Same
<1>4. Local(c)'
  BY DEF Types, Local, LifeFits, OpFits, ScanFits, ArmedFits, WakesFits, ClaimFits, SelectPlaces, Early, Trying, InWait, Case, Cases, Completed, WaitOps, CancelOps
<1> QED BY <1>1, <1>2, <1>3, <1>4 DEF Step

LEMMA RegisterWonStep ==
  ASSUME Types, ChanTypes, NEW c \in Coroutines, Local(c), RegisterWon(c)
  PROVE  Step(c)
<1> USE DEF RegisterWon, selectRest, IsSelect, NoScan, Unset, Goto, At, callVars, roundVars, lifeVars, claimVars, cancelVars
<1>1. Types'
  BY DEF Types, Places, SelectPlaces, Early, InWait, States
<1>2. ChanTypes'
  BY DEF ChanTypes
<1>3. ASSUME NEW e \in Coroutines \ {c} PROVE Bystander(e)
  BY DEF Types, Bystander, Steady, Same
<1>4. Local(c)'
  BY DEF Types, Local, LifeFits, OpFits, ScanFits, ArmedFits, WakesFits, ClaimFits, SelectPlaces, Early, Trying, InWait, Case, Cases, Completed, WaitOps, CancelOps
<1> QED BY <1>1, <1>2, <1>3, <1>4 DEF Step

LEMMA JoinParkStep ==
  ASSUME Types, ChanTypes, NEW c \in Coroutines, Local(c), JoinPark(c)
  PROVE  Step(c)
<1> USE DEF JoinPark, joinRest, Goto, At, callVars, roundVars, lifeVars, claimVars, cancelVars
<1>0. Node(c, 1) \in Nodes
  <2>1. wgen[c] \in 0 .. MaxCalls /\ readied[c] \in Nat BY DEF Types
  <2>2. readied[c] < wgen[c] BY DEF Local, ArmedFits
  <2> QED BY <2>1, <2>2, WaitAssumption DEF Node, Nodes
<1>1. Types'
  <2>1. waitQ' \in [Coroutines \union {Never} -> Seq(Nodes)]
    BY <1>0, WaitQAppend
  <2> QED BY <2>1 DEF Types, Places, SelectPlaces, Early, InWait, States
<1>2. ChanTypes'
  BY DEF ChanTypes
<1>3. ASSUME NEW e \in Coroutines \ {c} PROVE Bystander(e)
  BY DEF Types, Bystander, Steady, Same
<1>4. LifeFits(c)'
  BY DEF Types, Local, LifeFits, OpFits, ScanFits, ArmedFits, WakesFits, ClaimFits, SelectPlaces, Early, Trying, InWait, Case, Cases, Completed, WaitOps, CancelOps, WaitOps, CancelOps
<1>5. OpFits(c)'
  BY DEF Types, Local, LifeFits, OpFits, ScanFits, ArmedFits, WakesFits, ClaimFits, SelectPlaces, Early, Trying, InWait, Case, Cases, Completed, WaitOps, CancelOps, WaitOps, CancelOps
<1>6. ScanFits(c)'
  BY DEF Types, Local, LifeFits, OpFits, ScanFits, ArmedFits, WakesFits, ClaimFits, SelectPlaces, Early, Trying, InWait, Case, Cases, Completed, WaitOps, CancelOps, WaitOps, CancelOps
<1>7. ArmedFits(c)'
  BY DEF Types, Local, LifeFits, OpFits, ScanFits, ArmedFits, WakesFits, ClaimFits, SelectPlaces, Early, Trying, InWait, Case, Cases, Completed, WaitOps, CancelOps, WaitOps, CancelOps
<1>8. WakesFits(c)'
  BY DEF Types, Local, LifeFits, OpFits, ScanFits, ArmedFits, WakesFits, ClaimFits, SelectPlaces, Early, Trying, InWait, Case, Cases, Completed, WaitOps, CancelOps, WaitOps, CancelOps
<1>9. ClaimFits(c)'
  BY DEF Types, Local, LifeFits, OpFits, ScanFits, ArmedFits, WakesFits, ClaimFits, SelectPlaces, Early, Trying, InWait, Case, Cases, Completed, WaitOps, CancelOps, WaitOps, CancelOps
<1> QED BY <1>1, <1>2, <1>3, <1>4, <1>5, <1>6, <1>7, <1>8, <1>9 DEF Step, Local

LEMMA QueueSwap ==
  ASSUME NEW q, NEW cap, RingOK(q, cap), NEW s \in Seq(Nodes), NEW r \in Seq(Nodes)
  PROVE  /\ RingOK([q EXCEPT !.sendQ = s], cap)
         /\ RingOK([q EXCEPT !.recvQ = r], cap)
         /\ RingOK([q EXCEPT !.sendQ = s, !.recvQ = r], cap)
  BY DEF RingOK, ChannelType

LEMMA ChanUpdate ==
  ASSUME ChanTypes, NEW ch \in Channels, NEW q, RingOK(q, Capacity[ch]),
         chan' = [chan EXCEPT ![ch] = q]
  PROVE  ChanTypes'
  BY DEF ChanTypes

(* A wait on one source starts: the new round's node is live, the          *)
(* coroutine is Parking (or still Running on its way to the second look).  *)
LEMMA RoundStart ==
  ASSUME Types, NEW c \in Coroutines, Local(c), pc[c] \in {"call", "checked"},
         req[c].op \in {"send", "send_large", "recv", "recv_cancel", "join", "join_cancel"},
         BeginWait(c), armed' = [armed EXCEPT ![c] = <<NewNode(c, 1)>>]
  PROVE  /\ wgen' \in [Coroutines -> 0 .. MaxCalls]
         /\ delivered' \in [Coroutines -> [gen : 0 .. MaxCalls, res : WaitResults \union {NoResult}]]
         /\ armed' \in [Coroutines -> Seq(Nodes)]
         /\ wgen'[c] <= calls[c] /\ readied[c] < wgen'[c] /\ wgen'[c] # 0
         /\ delivered'[c].gen = 0
         /\ armed'[c] # <<>> /\ armed'[c] = RoundOf(c, req[c].cases, wgen'[c])
         /\ \A e \in Coroutines \ {c} :
              wgen'[e] = wgen[e] /\ delivered'[e] = delivered[e] /\ armed'[e] = armed[e]
<1>1. /\ NewNode(c, 1) \in Nodes /\ wgen[c] + 1 \in 1 .. MaxCalls
      /\ wgen[c] + 1 <= calls[c] /\ readied[c] < wgen[c] + 1
  BY NewNodeType
<1>2. /\ wgen' = [wgen EXCEPT ![c] = wgen[c] + 1]
      /\ delivered' = [delivered EXCEPT ![c] = [gen |-> 0, res |-> NoResult]]
  BY DEF BeginWait
<1>3. MaxCalls \in Nat BY WaitAssumption
<1>4. wgen' \in [Coroutines -> 0 .. MaxCalls] /\ wgen'[c] = wgen[c] + 1
  BY <1>1, <1>2 DEF Types
<1>5. delivered' \in [Coroutines -> [gen : 0 .. MaxCalls, res : WaitResults \union {NoResult}]]
  BY <1>2, <1>3 DEF Types
<1>6. armed' \in [Coroutines -> Seq(Nodes)] BY <1>1 DEF Types
<1>7. req[c] \in Requests BY DEF Local, OpFits
<1>8. DOMAIN req[c].cases = {1} /\ req[c].cases # <<>>
  BY <1>7, RequestFacts DEF SendOps, RecvOps, JoinOps
<1>9. <<NewNode(c, 1)>> = RoundOf(c, req[c].cases, wgen[c] + 1)
  BY <1>8, OneRound DEF NewNode
<1>10. wgen[c] \in Nat /\ readied[c] \in Nat /\ calls[c] \in Nat BY DEF Types
<1>11. armed'[c] = <<NewNode(c, 1)>> /\ delivered'[c].gen = 0 BY <1>2 DEF Types
<1>12. \A e \in Coroutines \ {c} :
         wgen'[e] = wgen[e] /\ delivered'[e] = delivered[e] /\ armed'[e] = armed[e]
  BY <1>2 DEF Types
<1> QED BY <1>1, <1>4, <1>5, <1>6, <1>9, <1>10, <1>11, <1>12

LEMMA RoundStartLocal ==
  ASSUME Types, NEW c \in Coroutines, Local(c), pc[c] \in {"call", "checked"},
         req'[c] = req[c], calls'[c] = calls[c], readied'[c] = readied[c], wakes'[c] = wakes[c],
         wgen'[c] <= calls[c], readied[c] < wgen'[c], wgen'[c] # 0, delivered'[c].gen = 0,
         armed'[c] # <<>>, armed'[c] = RoundOf(c, req[c].cases, wgen'[c]),
         wgen'[c] \in Nat,
         \/ /\ pc'[c] \in {"park", "register_cancel"} /\ life'[c] = "Parking"
            /\ req[c].op \in WaitOps \ {"select"}
            /\ pc'[c] = "register_cancel" => req[c].op \in CancelOps
         \/ pc'[c] = "join" /\ life'[c] = "Running" /\ req[c].op \in {"join", "join_cancel"}
  PROVE  Local(c)'
<1> USE DEF Local, Early, Trying, SelectPlaces, InWait, WaitOps, CancelOps
<1>1. LifeFits(c)' BY DEF LifeFits
<1>2. OpFits(c)' BY DEF OpFits
<1>3. ScanFits(c)' BY DEF ScanFits
<1>4. ArmedFits(c)' BY DEF ArmedFits, Types
<1>5. WakesFits(c)' BY DEF WakesFits
<1>6. ClaimFits(c)' BY DEF ClaimFits
<1> QED BY <1>1, <1>2, <1>3, <1>4, <1>5, <1>6

LEMMA ParkSendStep ==
  ASSUME Types, ChanTypes, NEW c \in Coroutines, Local(c), ParkSend(c)
  PROVE  Step(c)
<1>0. /\ pc[c] = "call" /\ req[c].op \in {"send", "send_large"} /\ BeginWait(c)
      /\ armed' = [armed EXCEPT ![c] = <<NewNode(c, 1)>>]
      /\ life' = [life EXCEPT ![c] = "Parking"] /\ pc' = [pc EXCEPT ![c] = "park"]
      /\ chan' = [chan EXCEPT ![Ch(c)] =
                    [chan[Ch(c)] EXCEPT !.sendQ = Append(chan[Ch(c)].sendQ, NewNode(c, 1))]]
      /\ UNCHANGED <<calls, req, out, readied, phase, winner, scan, wakes, waitQ, cancelled, cancelQ>>
  BY DEF ParkSend, ParkOn, Serving, At, Goto, callVars, cancelVars
<1>1. /\ wgen' \in [Coroutines -> 0 .. MaxCalls]
      /\ delivered' \in [Coroutines -> [gen : 0 .. MaxCalls, res : WaitResults \union {NoResult}]]
      /\ armed' \in [Coroutines -> Seq(Nodes)]
      /\ wgen'[c] <= calls[c] /\ readied[c] < wgen'[c] /\ wgen'[c] # 0
      /\ delivered'[c].gen = 0
      /\ armed'[c] # <<>> /\ armed'[c] = RoundOf(c, req[c].cases, wgen'[c])
      /\ \A e \in Coroutines \ {c} :
           wgen'[e] = wgen[e] /\ delivered'[e] = delivered[e] /\ armed'[e] = armed[e]
  BY <1>0, RoundStart
<1>2. Types' BY <1>0, <1>1 DEF Types, Places, InWait, States
<1>3. ChanTypes'
  <2>1. Ch(c) \in Channels BY <1>0, RequestFacts DEF Local, OpFits, SendOps, Ch
  <2>2. RingOK(chan[Ch(c)], Capacity[Ch(c)]) BY <2>1 DEF ChanTypes
  <2>3. NewNode(c, 1) \in Nodes BY <1>0, NewNodeType
  <2>4. chan[Ch(c)].sendQ \in Seq(Nodes) /\ chan[Ch(c)].recvQ \in Seq(Nodes)
    BY <2>2 DEF RingOK, ChannelType
  <2> DEFINE s == Append(chan[Ch(c)].sendQ, NewNode(c, 1))
  <2>5. s \in Seq(Nodes) BY <2>3, <2>4
  <2>6. chan' = [chan EXCEPT ![Ch(c)] = [chan[Ch(c)] EXCEPT !.sendQ = s]] BY <1>0
  <2> HIDE DEF s
  <2>7. RingOK([chan[Ch(c)] EXCEPT !.sendQ = s], Capacity[Ch(c)]) BY <2>2, <2>4, <2>5, QueueSwap
  <2> QED BY <2>1, <2>6, <2>7, ChanUpdate
<1>4. ASSUME NEW e \in Coroutines \ {c} PROVE Bystander(e)
  BY <1>0, <1>1 DEF Types, Bystander, Steady, Same
<1>5. Local(c)'
  <2>1. wgen'[c] \in Nat BY <1>1
  <2>2. pc'[c] = "park" /\ life'[c] = "Parking" BY <1>0 DEF Types
  <2> QED BY <1>0, <1>1, <2>1, <2>2, RoundStartLocal DEF WaitOps
<1> QED BY <1>2, <1>3, <1>4, <1>5 DEF Step

LEMMA ParkRecvStep ==
  ASSUME Types, ChanTypes, NEW c \in Coroutines, Local(c), ParkRecv(c)
  PROVE  Step(c)
<1>0. /\ pc[c] \in {"call", "checked"} /\ req[c].op \in {"recv", "recv_cancel"} /\ BeginWait(c)
      /\ armed' = [armed EXCEPT ![c] = <<NewNode(c, 1)>>]
      /\ life' = [life EXCEPT ![c] = "Parking"]
      /\ pc' = [pc EXCEPT ![c] = IF req[c].op = "recv_cancel" THEN "register_cancel" ELSE "park"]
      /\ chan' = [chan EXCEPT ![Ch(c)] =
                    [chan[Ch(c)] EXCEPT !.recvQ = Append(chan[Ch(c)].recvQ, NewNode(c, 1))]]
      /\ UNCHANGED <<calls, req, out, readied, phase, winner, scan, wakes, waitQ, cancelled, cancelQ>>
  BY DEF ParkRecv, ParkOn, Receiving, RecvRequests, Serving, At, Goto, callVars, cancelVars
<1>1. /\ wgen' \in [Coroutines -> 0 .. MaxCalls]
      /\ delivered' \in [Coroutines -> [gen : 0 .. MaxCalls, res : WaitResults \union {NoResult}]]
      /\ armed' \in [Coroutines -> Seq(Nodes)]
      /\ wgen'[c] <= calls[c] /\ readied[c] < wgen'[c] /\ wgen'[c] # 0
      /\ delivered'[c].gen = 0
      /\ armed'[c] # <<>> /\ armed'[c] = RoundOf(c, req[c].cases, wgen'[c])
      /\ \A e \in Coroutines \ {c} :
           wgen'[e] = wgen[e] /\ delivered'[e] = delivered[e] /\ armed'[e] = armed[e]
  BY <1>0, RoundStart
<1>2. Types' BY <1>0, <1>1 DEF Types, Places, InWait, States
<1>3. ChanTypes'
  <2>1. Ch(c) \in Channels BY <1>0, RequestFacts DEF Local, OpFits, RecvOps, Ch
  <2>2. RingOK(chan[Ch(c)], Capacity[Ch(c)]) BY <2>1 DEF ChanTypes
  <2>3. NewNode(c, 1) \in Nodes BY <1>0, NewNodeType
  <2>4. chan[Ch(c)].sendQ \in Seq(Nodes) /\ chan[Ch(c)].recvQ \in Seq(Nodes)
    BY <2>2 DEF RingOK, ChannelType
  <2> DEFINE s == Append(chan[Ch(c)].recvQ, NewNode(c, 1))
  <2>5. s \in Seq(Nodes) BY <2>3, <2>4
  <2>6. chan' = [chan EXCEPT ![Ch(c)] = [chan[Ch(c)] EXCEPT !.recvQ = s]] BY <1>0
  <2> HIDE DEF s
  <2>7. RingOK([chan[Ch(c)] EXCEPT !.recvQ = s], Capacity[Ch(c)]) BY <2>2, <2>4, <2>5, QueueSwap
  <2> QED BY <2>1, <2>6, <2>7, ChanUpdate
<1>4. ASSUME NEW e \in Coroutines \ {c} PROVE Bystander(e)
  BY <1>0, <1>1 DEF Types, Bystander, Steady, Same
<1>5. Local(c)'
  <2>1. wgen'[c] \in Nat BY <1>1
  <2>2. life'[c] = "Parking" BY <1>0 DEF Types
  <2>3. /\ pc'[c] \in {"park", "register_cancel"}
        /\ pc'[c] = "register_cancel" => req[c].op \in CancelOps
        /\ req[c].op \in WaitOps \ {"select"}
    BY <1>0 DEF Types, WaitOps, CancelOps
  <2>4. req'[c] = req[c] /\ calls'[c] = calls[c] /\ readied'[c] = readied[c] /\ wakes'[c] = wakes[c]
    BY <1>0
  <2> QED BY <1>0, <1>1, <2>1, <2>2, <2>3, <2>4, RoundStartLocal
<1> QED BY <1>2, <1>3, <1>4, <1>5 DEF Step

LEMMA JoinStartStep ==
  ASSUME Types, ChanTypes, NEW c \in Coroutines, Local(c), JoinStart(c)
  PROVE  Step(c)
<1>0. /\ pc[c] \in {"call", "checked"} /\ req[c].op \in {"join", "join_cancel"}
      /\ UNCHANGED <<life, calls, req, readied, phase, winner, scan, wakes, chan, waitQ,
                     cancelled, cancelQ>>
  BY DEF JoinStart, IsJoin, Serving, At, joinRest, callVars
<1>1. CASE life[Child(c)] = "Dead"
  <2>1. /\ UNCHANGED <<wgen, delivered, armed>>
        /\ out' = [out EXCEPT ![c] = Result("Join")] /\ pc' = [pc EXCEPT ![c] = "idle"]
    BY <1>1 DEF JoinStart, Return, Goto
  <2>2. Result("Join") \in CallResults BY ResultTypes DEF WaitKinds
  <2>3. Types' BY <1>0, <2>1, <2>2 DEF Types, Places, Early
  <2>4. ChanTypes' BY <1>0 DEF ChanTypes
  <2>5. ASSUME NEW e \in Coroutines \ {c} PROVE Bystander(e)
    BY <1>0, <2>1 DEF Types, Bystander, Steady, Same
  <2>6. Local(c)'
    BY <1>0, <2>1 DEF Types, Local, LifeFits, OpFits, ScanFits, ArmedFits, WakesFits, ClaimFits,
       SelectPlaces, Early, Trying, InWait, CancelOps
  <2> QED BY <2>3, <2>4, <2>5, <2>6 DEF Step
<1>2. CASE life[Child(c)] # "Dead"
  <2>1. /\ BeginWait(c) /\ armed' = [armed EXCEPT ![c] = <<NewNode(c, 1)>>]
        /\ pc' = [pc EXCEPT ![c] = "join"] /\ out' = out
    BY <1>2 DEF JoinStart, Goto
  <2>2. /\ wgen' \in [Coroutines -> 0 .. MaxCalls]
        /\ delivered' \in [Coroutines -> [gen : 0 .. MaxCalls, res : WaitResults \union {NoResult}]]
        /\ armed' \in [Coroutines -> Seq(Nodes)]
        /\ wgen'[c] <= calls[c] /\ readied[c] < wgen'[c] /\ wgen'[c] # 0
        /\ delivered'[c].gen = 0
        /\ armed'[c] # <<>> /\ armed'[c] = RoundOf(c, req[c].cases, wgen'[c])
        /\ \A e \in Coroutines \ {c} :
             wgen'[e] = wgen[e] /\ delivered'[e] = delivered[e] /\ armed'[e] = armed[e]
    BY <1>0, <2>1, RoundStart
  <2>3. Types' BY <1>0, <2>1, <2>2 DEF Types, Places
  <2>4. ChanTypes' BY <1>0 DEF ChanTypes
  <2>5. ASSUME NEW e \in Coroutines \ {c} PROVE Bystander(e)
    BY <1>0, <2>1, <2>2 DEF Types, Bystander, Steady, Same
  <2>6. Local(c)'
    <3>1. wgen'[c] \in Nat BY <2>2
    <3>2. pc'[c] = "join" BY <2>1 DEF Types
    <3>3. life'[c] = "Running" BY <1>0 DEF Local, LifeFits, Early
    <3> QED BY <1>0, <2>2, <3>1, <3>2, <3>3, RoundStartLocal
  <2> QED BY <2>3, <2>4, <2>5, <2>6 DEF Step
<1> QED BY <1>1, <1>2

LEMMA ModSucc ==
  ASSUME NEW n \in Nat, n > 0, NEW t \in Nat, t < n
  PROVE  (t + 1) % n = (IF t + 1 = n THEN 0 ELSE t + 1)
<1>1. CASE t + 1 = n BY <1>1
<1>2. CASE t + 1 < n BY <1>2
<1> QED BY <1>1, <1>2

LEMMA CommitFields ==
  ASSUME NEW ch \in Channels, NEW q, RingOK(q, Capacity[ch]), Capacity[ch] > 0, NEW v
  PROVE  LET r == CommitSlot(ch, q, v) IN
         /\ r = [closed |-> q.closed, head |-> q.head,
                 tail |-> IF q.tail + 1 = Capacity[ch] THEN 0 ELSE q.tail + 1, len |-> q.len + 1,
                 ring |-> [q.ring EXCEPT ![q.tail] = Slot("Occupied", v)],
                 sendQ |-> q.sendQ, recvQ |-> q.recvQ]
<1>1. q \in ChannelType(Capacity[ch]) /\ q.tail \in Nat /\ q.tail < Capacity[ch]
  BY DEF RingOK, ChannelType
<1>2. Capacity[ch] \in Nat BY WaitAssumption
<1>3. (q.tail + 1) % Capacity[ch] = IF q.tail + 1 = Capacity[ch] THEN 0 ELSE q.tail + 1
  BY <1>1, <1>2, ModSucc
<1> DEFINE t == (q.tail + 1) % Capacity[ch]
<1>4. CommitSlot(ch, q, v) =
        [closed |-> q.closed, head |-> q.head, tail |-> t, len |-> q.len + 1,
         ring |-> [q.ring EXCEPT ![q.tail] = Slot("Occupied", v)],
         sendQ |-> q.sendQ, recvQ |-> q.recvQ]
  <2>1. CommitSlot(ch, q, v) =
          [q EXCEPT !.ring[q.tail] = Slot("Occupied", v), !.tail = t, !.len = q.len + 1]
    BY DEF CommitSlot
  <2> HIDE DEF t
  <2> QED BY <2>1, <1>1 DEF ChannelType
<1> HIDE DEF t
<1> QED BY <1>3, <1>4 DEF t

LEMMA TakeFields ==
  ASSUME NEW ch \in Channels, NEW q, RingOK(q, Capacity[ch]), Capacity[ch] > 0
  PROVE  LET r == TakeSlot(ch, q) IN
         /\ r = [closed |-> q.closed,
                 head |-> IF q.head + 1 = Capacity[ch] THEN 0 ELSE q.head + 1,
                 tail |-> q.tail, len |-> q.len - 1,
                 ring |-> [q.ring EXCEPT ![q.head] = EmptySlot],
                 sendQ |-> q.sendQ, recvQ |-> q.recvQ]
<1>1. q \in ChannelType(Capacity[ch]) /\ q.head \in Nat /\ q.head < Capacity[ch]
  BY DEF RingOK, ChannelType
<1>2. Capacity[ch] \in Nat BY WaitAssumption
<1>3. (q.head + 1) % Capacity[ch] = IF q.head + 1 = Capacity[ch] THEN 0 ELSE q.head + 1
  BY <1>1, <1>2, ModSucc
<1> DEFINE t == (q.head + 1) % Capacity[ch]
<1>4. TakeSlot(ch, q) =
        [closed |-> q.closed, head |-> t, tail |-> q.tail, len |-> q.len - 1,
         ring |-> [q.ring EXCEPT ![q.head] = EmptySlot],
         sendQ |-> q.sendQ, recvQ |-> q.recvQ]
  <2>1. TakeSlot(ch, q) =
          [q EXCEPT !.ring[q.head] = EmptySlot, !.head = t, !.len = q.len - 1]
    BY DEF TakeSlot
  <2> HIDE DEF t
  <2> QED BY <2>1, <1>1 DEF ChannelType
<1> HIDE DEF t
<1> QED BY <1>3, <1>4 DEF t

LEMMA SlotTypes ==
  /\ EmptySlot \in Slots /\ EmptySlot.state = "Empty"
  /\ \A v \in Payloads : Slot("Occupied", v) \in Slots /\ Slot("Reserved", v) \in Slots
  /\ \A v : Slot("Occupied", v).state = "Occupied"
  /\ \A s \in Slots : s.state = "Occupied" => s.val \in Payloads
<1>1. EmptySlot \in Slots /\ EmptySlot.state = "Empty" BY DEF Slots, Slot, EmptySlot
<1>2. \A v \in Payloads : Slot("Occupied", v) \in Slots /\ Slot("Reserved", v) \in Slots
  BY DEF Slots
<1>3. \A v : Slot("Occupied", v).state = "Occupied" BY DEF Slot
<1>4. ASSUME NEW s \in Slots, s.state = "Occupied" PROVE s.val \in Payloads
  <2>1. s # EmptySlot BY <1>4 DEF EmptySlot, Slot
  <2>2. PICK t \in {"Reserved", "Occupied"}, v \in Payloads : s = Slot(t, v)
    BY <2>1 DEF Slots
  <2> QED BY <2>2 DEF Slot
<1> QED BY <1>1, <1>2, <1>3, <1>4

LEMMA CommitRing ==
  ASSUME NEW ch \in Channels, NEW q, RingOK(q, Capacity[ch]), q.len < Capacity[ch],
         NEW v \in Payloads
  PROVE  RingOK(CommitSlot(ch, q, v), Capacity[ch])
<1>1. PICK cap \in Nat : cap = Capacity[ch] BY WaitAssumption
<1>2. q \in ChannelType(cap) /\ q.len \in 0 .. cap /\ q.len < cap BY <1>1 DEF RingOK, ChannelType
<1>3. cap > 0 BY <1>2
<1> DEFINE r == CommitSlot(ch, q, v)
<1>4. /\ r = [closed |-> q.closed, head |-> q.head,
              tail |-> IF q.tail + 1 = cap THEN 0 ELSE q.tail + 1, len |-> q.len + 1,
              ring |-> [q.ring EXCEPT ![q.tail] = Slot("Occupied", v)],
              sendQ |-> q.sendQ, recvQ |-> q.recvQ]
  BY <1>1, <1>3, CommitFields
<1> HIDE DEF r
<1>5. q.ring \in [0 .. cap - 1 -> Slots] /\ q.tail \in Nat /\ q.tail < cap /\ q.head < cap
  BY <1>1, <1>2, <1>3 DEF RingOK, ChannelType
<1>6. r.ring \in [0 .. cap - 1 -> Slots] BY <1>4, <1>5, SlotTypes
<1>7. r \in ChannelType(cap) BY <1>2, <1>4, <1>5, <1>6 DEF ChannelType
<1>8. ASSUME NEW i \in 0 .. cap - 1, r.ring[i].state = "Reserved" PROVE FALSE
  <2>1. CASE i = q.tail BY <2>1, <1>4, <1>5, <1>8, SlotTypes
  <2>2. CASE i # q.tail
    <3>1. q.ring[i].state = "Reserved" BY <2>2, <1>4, <1>5, <1>8
    <3> QED BY <3>1, <2>2, <1>1 DEF RingOK
  <2> QED BY <2>1, <2>2
<1>9. r.head < cap /\ r.tail < cap BY <1>4, <1>5
<1> QED BY <1>1, <1>7, <1>8, <1>9 DEF RingOK, r

LEMMA TakeRing ==
  ASSUME NEW ch \in Channels, NEW q, RingOK(q, Capacity[ch]), q.len > 0
  PROVE  /\ RingOK(TakeSlot(ch, q), Capacity[ch])
         /\ TakeSlot(ch, q).len < Capacity[ch]
<1>1. PICK cap \in Nat : cap = Capacity[ch] BY WaitAssumption
<1>2. q \in ChannelType(cap) /\ q.len \in 0 .. cap /\ q.len > 0 BY <1>1 DEF RingOK, ChannelType
<1>3. cap > 0 BY <1>2
<1> DEFINE r == TakeSlot(ch, q)
<1>4. /\ r = [closed |-> q.closed, head |-> IF q.head + 1 = cap THEN 0 ELSE q.head + 1,
              tail |-> q.tail, len |-> q.len - 1,
              ring |-> [q.ring EXCEPT ![q.head] = EmptySlot],
              sendQ |-> q.sendQ, recvQ |-> q.recvQ]
  BY <1>1, <1>3, TakeFields
<1> HIDE DEF r
<1>5. q.ring \in [0 .. cap - 1 -> Slots] /\ q.head \in Nat /\ q.tail < cap /\ q.head < cap
  BY <1>1, <1>2, <1>3 DEF RingOK, ChannelType
<1>6. r.ring \in [0 .. cap - 1 -> Slots] BY <1>4, <1>5, SlotTypes
<1>7. r \in ChannelType(cap) BY <1>2, <1>4, <1>5, <1>6 DEF ChannelType
<1>8. ASSUME NEW i \in 0 .. cap - 1, r.ring[i].state = "Reserved"
      PROVE  i = r.tail /\ r.len < cap
  <2>1. CASE i = q.head BY <2>1, <1>4, <1>5, <1>8, SlotTypes
  <2>2. CASE i # q.head
    <3>1. q.ring[i].state = "Reserved" BY <2>2, <1>4, <1>5, <1>8
    <3> QED BY <3>1, <1>1, <1>2, <1>4 DEF RingOK
  <2> QED BY <2>1, <2>2
<1>9. r.head < cap /\ r.tail < cap /\ r.len < cap BY <1>2, <1>4, <1>5
<1> QED BY <1>1, <1>7, <1>8, <1>9 DEF RingOK, r

LEMMA ReserveRing ==
  ASSUME NEW cap \in Nat, NEW q, RingOK(q, cap), q.len < cap, NEW v \in Payloads
  PROVE  RingOK([q EXCEPT !.ring = [q.ring EXCEPT ![q.tail] = Slot("Reserved", v)]], cap)
<1>1. q \in ChannelType(cap) /\ q.len \in 0 .. cap /\ q.tail \in Nat /\ q.tail < cap
      /\ q.ring \in [0 .. cap - 1 -> Slots]
  BY DEF RingOK, ChannelType
<1> DEFINE s == [q.ring EXCEPT ![q.tail] = Slot("Reserved", v)]
<1>2. s \in [0 .. cap - 1 -> Slots] BY <1>1, SlotTypes
<1>3. \A i \in 0 .. cap - 1 : i # q.tail => s[i] = q.ring[i] BY <1>1
<1> DEFINE r == [q EXCEPT !.ring = s]
<1> HIDE DEF s
<1>4. r \in ChannelType(cap) /\ r.tail = q.tail /\ r.head = q.head /\ r.len = q.len /\ r.ring = s
  BY <1>1, <1>2 DEF ChannelType
<1> HIDE DEF r
<1>5. cap > 0 => r.head < cap /\ r.tail < cap BY <1>4 DEF RingOK
<1>6. \A i \in 0 .. cap - 1 : r.ring[i].state = "Reserved" => i = r.tail /\ r.len < cap
  BY <1>3, <1>4 DEF RingOK
<1>7. RingOK(r, cap) BY <1>4, <1>5, <1>6 DEF RingOK
<1> QED BY <1>7 DEF r, s

LEMMA AbortRing ==
  ASSUME NEW cap \in Nat, NEW q, RingOK(q, cap)
  PROVE  RingOK([q EXCEPT !.ring = [q.ring EXCEPT ![q.tail] = EmptySlot]], cap)
<1>1. q \in ChannelType(cap) /\ q.tail \in Nat /\ q.ring \in [0 .. cap - 1 -> Slots]
  BY DEF RingOK, ChannelType
<1> DEFINE s == [q.ring EXCEPT ![q.tail] = EmptySlot]
<1>2. s \in [0 .. cap - 1 -> Slots] BY <1>1, SlotTypes
<1>3. \A i \in 0 .. cap - 1 : i # q.tail => s[i] = q.ring[i] BY <1>1
<1>4. q.tail \in 0 .. cap - 1 => s[q.tail] = EmptySlot BY <1>1
<1> HIDE DEF s
<1> QED BY <1>1, <1>2, <1>3, <1>4, SlotTypes DEF RingOK, ChannelType

LEMMA ReserveLargeStep ==
  ASSUME Types, ChanTypes, NEW c \in Coroutines, Local(c), ReserveLarge(c)
  PROVE  Step(c)
<1> DEFINE ch == Ch(c)
           q == chan[ch]
<1>0. /\ pc[c] = "call" /\ req[c].op = "send_large" /\ SlotAvailable(ch)
      /\ chan' = [chan EXCEPT ![ch] =
                    [q EXCEPT !.ring = [q.ring EXCEPT ![q.tail] = Slot("Reserved", Payload(c))]]]
      /\ pc' = [pc EXCEPT ![c] = "reserved"]
      /\ UNCHANGED <<life, calls, req, out, wgen, delivered, armed, readied, phase,
                     winner, scan, wakes, waitQ, cancelled, cancelQ>>
  BY DEF ReserveLarge, Serving, At, Goto, MustReserve, restOfSend, callVars, roundVars, lifeVars,
     claimVars, cancelVars
<1>1. ch \in Channels BY <1>0, RequestFacts DEF Local, OpFits, SendOps, Ch
<1>2. Types' BY <1>0 DEF Types, Places, Early
<1>3. ChanTypes'
  <2>1. RingOK(q, Capacity[ch]) /\ q.len < Capacity[ch]
    BY <1>0, <1>1 DEF ChanTypes, SlotAvailable
  <2>2. Capacity[ch] \in Nat BY <1>1, WaitAssumption
  <2>3. calls[c] \in 0 .. MaxCalls /\ wgen[c] \in Nat /\ wgen[c] < calls[c] /\ MaxCalls \in Nat
    BY <1>0, WaitAssumption DEF Types, Local, OpFits
  <2>4. Payload(c) \in Payloads BY <2>3 DEF Payload, Payloads
  <2> HIDE DEF q
  <2> DEFINE r == [q EXCEPT !.ring = [q.ring EXCEPT ![q.tail] = Slot("Reserved", Payload(c))]]
  <2>5. RingOK(r, Capacity[ch]) BY <2>1, <2>2, <2>4, ReserveRing
  <2>6. chan' = [chan EXCEPT ![ch] = r] BY <1>0 DEF q
  <2> HIDE DEF r, ch
  <2> QED BY <1>1, <2>5, <2>6, ChanUpdate
<1>4. ASSUME NEW e \in Coroutines \ {c} PROVE Bystander(e)
  BY <1>0 DEF Types, Bystander, Steady, Same
<1>5. Local(c)'
  <2>1. Capacity[ch] > 0
    <3>1. RingOK(q, Capacity[ch]) /\ Capacity[ch] \in Nat BY <1>1, WaitAssumption DEF ChanTypes
    <3>2. q.len \in Nat BY <3>1 DEF RingOK, ChannelType
    <3>3. q.len < Capacity[ch] BY <1>0 DEF SlotAvailable
    <3> HIDE DEF q, ch
    <3> QED BY <3>1, <3>2, <3>3
  <2>2. Capacity[req'[c].cases[1].src] > 0 BY <1>0, <2>1 DEF Ch
  <2> HIDE DEF ch, q
  <2> QED BY <1>0, <2>2 DEF Types, Local, LifeFits, OpFits, ScanFits, ArmedFits, WakesFits, ClaimFits,
     SelectPlaces, Early, Trying, InWait, CancelOps
<1> QED BY <1>2, <1>3, <1>4, <1>5 DEF Step

LEMMA FinishLargeStep ==
  ASSUME Types, ChanTypes, NEW c \in Coroutines, Local(c), FinishLarge(c)
  PROVE  Step(c)
<1> DEFINE ch == Ch(c)
           q == chan[ch]
           cap == Capacity[ch]
<1>0. /\ pc[c] = "reserved" /\ req[c].op = "send_large" /\ q.ring[q.tail] = Slot("Reserved", Payload(c))
      /\ UNCHANGED <<life, calls, req, wgen, delivered, armed, readied, phase,
                     winner, scan, wakes, waitQ, cancelled, cancelQ>>
      /\ pc' = [pc EXCEPT ![c] = "idle"]
      /\ \E r \in {Result("SendClosed"), Result("Sent")} : out' = [out EXCEPT ![c] = r]
      /\ \/ chan' = [chan EXCEPT ![ch] = [q EXCEPT !.ring = [q.ring EXCEPT ![q.tail] = EmptySlot]]]
         \/ chan' = [chan EXCEPT ![ch] = CommitSlot(ch, q, Payload(c))]
  BY DEF FinishLarge, At, Goto, Return, restOfSend, callVars, roundVars, lifeVars, Local, OpFits,
     claimVars, cancelVars
<1>1. ch \in Channels BY <1>0, RequestFacts DEF Local, OpFits, SendOps, Ch
<1>2. Types'
  <2>1. out' \in [Coroutines -> CallResults]
    <3>1. Result("SendClosed") \in CallResults /\ Result("Sent") \in CallResults
      BY ResultTypes DEF WaitKinds
    <3> QED BY <1>0, <3>1 DEF Types
  <2> QED BY <1>0, <2>1 DEF Types, Places, Early
<1>3. ChanTypes'
  <2>1. RingOK(q, cap) /\ cap \in Nat BY <1>1, WaitAssumption DEF ChanTypes
  <2>2. calls[c] \in 0 .. MaxCalls /\ wgen[c] \in Nat /\ wgen[c] < calls[c] /\ MaxCalls \in Nat
    BY <1>0, WaitAssumption DEF Types, Local, OpFits
  <2>3. Payload(c) \in Payloads BY <2>2 DEF Payload, Payloads
  <2>4. q.len < cap
    <3>1. q \in ChannelType(cap) /\ (cap > 0 => q.tail < cap) BY <2>1 DEF RingOK
    <3>2. q.tail \in Nat BY <3>1 DEF ChannelType
    <3>3. q.ring[q.tail].state = "Reserved" BY <1>0 DEF Slot
    <3> HIDE DEF q, cap
    <3>4. cap > 0 => q.tail \in 0 .. cap - 1 BY <2>1, <3>1, <3>2
    <3>5. cap > 0 => q.len < cap BY <2>1, <3>3, <3>4 DEF RingOK
    <3>6. cap > 0 BY <1>0 DEF Local, OpFits, Ch, cap
    <3> QED BY <3>5, <3>6
  <2>5. CASE chan' = [chan EXCEPT ![ch] = [q EXCEPT !.ring = [q.ring EXCEPT ![q.tail] = EmptySlot]]]
    <3> HIDE DEF q
    <3> DEFINE r == [q EXCEPT !.ring = [q.ring EXCEPT ![q.tail] = EmptySlot]]
    <3>1. RingOK(r, cap) BY <2>1, AbortRing
    <3>2. chan' = [chan EXCEPT ![ch] = r] BY <2>5
    <3> HIDE DEF r, ch
    <3> QED BY <1>1, <3>1, <3>2, ChanUpdate
  <2>6. CASE chan' = [chan EXCEPT ![ch] = CommitSlot(ch, q, Payload(c))]
    <3> DEFINE r == CommitSlot(ch, q, Payload(c))
    <3>1. RingOK(r, cap) BY <1>1, <2>1, <2>3, <2>4, CommitRing
    <3>2. chan' = [chan EXCEPT ![ch] = r] BY <2>6
    <3> HIDE DEF r, ch
    <3> QED BY <1>1, <3>1, <3>2, ChanUpdate
  <2> QED BY <1>0, <2>5, <2>6
<1>4. ASSUME NEW e \in Coroutines \ {c} PROVE Bystander(e)
  BY <1>0 DEF Types, Bystander, Steady, Same
<1>5. Local(c)'
  BY <1>0 DEF Types, Local, LifeFits, OpFits, ScanFits, ArmedFits, WakesFits, ClaimFits,
     SelectPlaces, Early, Trying, InWait, CancelOps
<1> QED BY <1>2, <1>3, <1>4, <1>5 DEF Step

LEMMA SelectBeginStep ==
  ASSUME Types, ChanTypes, NEW c \in Coroutines, Local(c), SelectBegin(c)
  PROVE  Step(c)
<1>0. /\ pc[c] = "call" /\ req[c].op = "select"
      /\ wgen' = [wgen EXCEPT ![c] = wgen[c] + 1]
      /\ delivered' = [delivered EXCEPT ![c] = [gen |-> 0, res |-> NoResult]]
      /\ phase' = [phase EXCEPT ![c] = "Building"]
      /\ winner' = [winner EXCEPT ![c] = Unset]
      /\ UNCHANGED <<life, calls, req, out, readied, scan, wakes, chan, cancelled, cancelQ>>
  BY DEF SelectBegin, BeginWait, Serving, At, callVars, lifeVars, cancelVars
<1>1. \/ /\ req[c].cases = <<>> /\ armed' = [armed EXCEPT ![c] = <<NewNode(c, 0)>>]
         /\ waitQ' = [waitQ EXCEPT ![Never] = Append(@, NewNode(c, 0))]
         /\ pc' = [pc EXCEPT ![c] = "arm"]
      \/ /\ req[c].cases # <<>> \/ req[c].default
         /\ armed' = armed /\ waitQ' = waitQ /\ pc' = [pc EXCEPT ![c] = "try"]
  <2>1. CASE req[c].cases = <<>> /\ ~req[c].default BY <2>1 DEF SelectBegin, Goto
  <2>2. CASE ~(req[c].cases = <<>> /\ ~req[c].default) BY <2>2 DEF SelectBegin, Goto
  <2> QED BY <2>1, <2>2
<1>2. /\ NewNode(c, 0) \in Nodes /\ wgen[c] + 1 \in 1 .. MaxCalls
      /\ wgen[c] + 1 <= calls[c] /\ readied[c] < wgen[c] + 1
  BY <1>0, NewNodeType
<1>3. wgen[c] \in Nat /\ readied[c] \in Nat /\ calls[c] \in Nat /\ MaxCalls \in Nat
  BY WaitAssumption DEF Types
<1>4. Types'
  <2>1. wgen' \in [Coroutines -> 0 .. MaxCalls] BY <1>0, <1>2 DEF Types
  <2>2. delivered' \in [Coroutines -> [gen : 0 .. MaxCalls, res : WaitResults \union {NoResult}]]
    BY <1>0, <1>3 DEF Types
  <2>29. PICK x : x = NewNode(c, 0) OBVIOUS
  <2>30. \/ armed' = [armed EXCEPT ![c] = <<x>>] /\ waitQ' = [waitQ EXCEPT ![Never] = Append(@, x)]
         \/ armed' = armed /\ waitQ' = waitQ
    BY <1>1, <2>29
  <2>31. x \in Nodes BY <1>2, <2>29
  <2>32. <<x>> \in Seq(Nodes) BY <2>31
  <2>3. armed' \in [Coroutines -> Seq(Nodes)]
    <3> DEFINE y == <<x>>
    <3>1. armed' = [armed EXCEPT ![c] = y] \/ armed' = armed BY <2>30
    <3> HIDE DEF y
    <3> QED BY <2>32, <3>1 DEF Types, y
  <2>4. waitQ' \in [Coroutines \union {Never} -> Seq(Nodes)]
    <3>1. [waitQ EXCEPT ![Never] = Append(@, x)] \in [Coroutines \union {Never} -> Seq(Nodes)]
      BY <2>31, WaitQAppend
    <3>2. waitQ \in [Coroutines \union {Never} -> Seq(Nodes)] BY DEF Types
    <3> QED BY <2>30, <3>1, <3>2
  <2>5. winner' \in [Coroutines -> Nat] BY <1>0 DEF Types, Unset
  <2>6. pc' \in [Coroutines -> Places] BY <1>1 DEF Types, Places, SelectPlaces, Trying
  <2> QED BY <1>0, <2>1, <2>2, <2>3, <2>4, <2>5, <2>6 DEF Types
<1>5. ChanTypes' BY <1>0 DEF ChanTypes
<1>6. ASSUME NEW e \in Coroutines \ {c} PROVE Bystander(e)
  BY <1>0, <1>1 DEF Types, Bystander, Steady, Same
<1>7. Local(c)'
  <2>1. wgen'[c] = wgen[c] + 1 /\ delivered'[c].gen = 0 /\ winner'[c] = Unset
    BY <1>0 DEF Types
  <2>2. CASE pc' = [pc EXCEPT ![c] = "arm"] /\ req[c].cases = <<>>
             /\ armed' = [armed EXCEPT ![c] = <<NewNode(c, 0)>>]
    <3>1. armed'[c] = RoundOf(c, req[c].cases, wgen'[c]) /\ armed'[c] # <<>>
      BY <2>1, <2>2 DEF Types, RoundOf, NewNode
    <3>2. pc'[c] = "arm" BY <2>2 DEF Types
    <3> QED BY <1>0, <1>2, <1>3, <2>1, <3>1, <3>2 DEF Local, LifeFits, OpFits, ScanFits, ArmedFits, WakesFits,
            ClaimFits, SelectPlaces, Early, Trying, InWait, CancelOps
  <2>3. CASE pc' = [pc EXCEPT ![c] = "try"] /\ armed' = armed
             /\ (req[c].cases # <<>> \/ req[c].default)
    <3>1. armed[c] = <<>> BY <1>0 DEF Local, ArmedFits, Early
    <3>2. pc'[c] = "try" BY <2>3 DEF Types
    <3> QED BY <1>0, <1>2, <1>3, <2>1, <2>3, <3>1, <3>2 DEF Local, LifeFits, OpFits, ScanFits, ArmedFits, WakesFits,
            ClaimFits, SelectPlaces, Early, Trying, InWait, CancelOps
  <2> QED BY <1>1, <2>2, <2>3
<1> QED BY <1>4, <1>5, <1>6, <1>7 DEF Step

(* The nodes of a round of cases.                                          *)
LEMMA CasesRound ==
  ASSUME Types, NEW c \in Coroutines, Local(c), pc[c] \in SelectPlaces, req[c].cases # <<>>,
         readied[c] < wgen[c]
  PROVE  LET a == [i \in Cases(c) |-> Node(c, i)] IN
           a = RoundOf(c, req[c].cases, wgen[c]) /\ a # <<>> /\ a \in Seq(Nodes)
<1>1. pc[c] # "idle" /\ req[c].op = "select" BY DEF Local, OpFits, SelectPlaces, Trying
<1>2. req[c].cases \in Seq(SelectCases) BY <1>1, SelectFacts
<1>3. PICK m \in Nat : m = Len(req[c].cases) BY <1>2
<1>4. Cases(c) = 1 .. m BY <1>2, <1>3 DEF Cases
<1>5. m # 0 BY <1>2, <1>3, EmptySeq
<1>6. wgen[c] \in 1 .. MaxCalls BY WaitAssumption DEF Types
<1>7. \A i \in 1 .. m : Node(c, i) \in Nodes BY <1>6 DEF Node, Nodes
<1> DEFINE a == [i \in 1 .. m |-> Node(c, i)]
<1>8. a \in Seq(Nodes) /\ Len(a) = m BY <1>7
<1>9. a # <<>> BY <1>5, <1>8, EmptySeq
<1>10. a = RoundOf(c, req[c].cases, wgen[c]) BY <1>4 DEF RoundOf, Node, Cases
<1> QED BY <1>4, <1>8, <1>9, <1>10

LEMMA NothingCommittedStep ==
  ASSUME Types, ChanTypes, NEW c \in Coroutines, Local(c), pc[c] \in {"try", "retry"},
         NothingCommitted(c)
  PROVE  Step(c)
<1>0. /\ req[c].op = "select" /\ readied[c] < wgen[c] /\ armed[c] = <<>> /\ life[c] = "Running"
      /\ UNCHANGED <<life, calls, req, wgen, delivered, readied, wakes, chan, waitQ,
                     cancelled, cancelQ>>
  BY DEF NothingCommitted, TakeDefault, AllocateWaiters, callVars, lifeVars, claimVars, cancelVars,
     Local, LifeFits, OpFits, ArmedFits, SelectPlaces, Trying
<1>1. ChanTypes' BY <1>0 DEF ChanTypes
<1>2. CASE req[c].default
  <2>1. /\ winner' = [winner EXCEPT ![c] = DefaultWinner] /\ phase' = [phase EXCEPT ![c] = "Armed"]
        /\ scan' = [scan EXCEPT ![c] = NoScan] /\ armed' = armed
        /\ out' = [out EXCEPT ![c] = Result("Default")] /\ pc' = [pc EXCEPT ![c] = "idle"]
    BY <1>2 DEF NothingCommitted, TakeDefault, Return, Goto
  <2>2. Types' BY <1>0, <2>1, ResultTypes DEF Types, Places, Early, DefaultWinner, NoScan
  <2>3. ASSUME NEW e \in Coroutines \ {c} PROVE Bystander(e)
    BY <1>0, <2>1 DEF Types, Bystander, Steady, Same
  <2>4. Local(c)'
    BY <1>0, <2>1 DEF Types, Local, LifeFits, OpFits, ScanFits, ArmedFits, WakesFits, ClaimFits,
       SelectPlaces, Early, Trying, InWait, CancelOps
  <2> QED BY <1>1, <2>2, <2>3, <2>4 DEF Step
<1>3. CASE ~req[c].default
  <2> DEFINE a == [i \in Cases(c) |-> Node(c, i)]
             D == {Case(c, i).src : i \in Cases(c)}
  <2>0. req[c].cases # <<>> BY <1>3 DEF Local, OpFits, Trying
  <2>1. armed' = [armed EXCEPT ![c] = a] /\ scan' = [scan EXCEPT ![c] = [todo |-> D, ready |-> {}]]
        /\ pc' = [pc EXCEPT ![c] = "register"] /\ UNCHANGED <<winner, phase, out>>
    BY <1>3 DEF NothingCommitted, AllocateWaiters, Goto, claimVars
  <2>2. a = RoundOf(c, req[c].cases, wgen[c]) /\ a # <<>> /\ a \in Seq(Nodes)
    BY <1>0, <2>0, CasesRound DEF SelectPlaces, Trying
  <2>3. D \in SUBSET Sources /\ D \subseteq {Case(c, i).src : i \in Cases(c)}
    BY <1>0, SelectFacts
  <2>4. Case(c, 1) = Case(c, 1)' /\ Cases(c)' = Cases(c) /\ \A i : Case(c, i)' = Case(c, i)
    BY <1>0 DEF Case, Cases
  <2>5. {Case(c, i).src : i \in Cases(c)}' = D BY <1>0 DEF Case, Cases
  <2> HIDE DEF a, D
  <2>6. Types'
    <3>1. scan' \in [Coroutines -> [todo : SUBSET Sources, ready : SUBSET Nat]]
      BY <2>1, <2>3 DEF Types
    <3>2. armed' \in [Coroutines -> Seq(Nodes)] BY <2>1, <2>2 DEF Types
    <3>3. pc' \in [Coroutines -> Places] BY <2>1 DEF Types, Places, SelectPlaces
    <3> QED BY <1>0, <2>1, <3>1, <3>2, <3>3 DEF Types
  <2>7. ASSUME NEW e \in Coroutines \ {c} PROVE Bystander(e)
    BY <1>0, <2>1 DEF Types, Bystander, Steady, Same
  <2>8. Local(c)'
    <3>1. pc'[c] = "register" /\ armed'[c] = a /\ scan'[c] = [todo |-> D, ready |-> {}]
      BY <2>1 DEF Types
    <3>2. winner[c] = Unset /\ wgen[c] <= calls[c] /\ readied[c] <= wgen[c] /\ wakes[c] = <<>>
          /\ delivered[c].gen \in {0, wgen[c]} /\ (delivered[c].gen = wgen[c] <=> winner[c] # Unset)
          /\ req[c] \in Requests
      BY <1>0 DEF Local, ClaimFits, ArmedFits, WakesFits, OpFits, SelectPlaces, Trying
    <3>3. ScanFits(c)' BY <2>5, <3>1 DEF ScanFits
    <3>4. LifeFits(c)' BY <1>0, <3>1 DEF LifeFits, Early, Trying
    <3>5. OpFits(c)' BY <1>0, <3>1, <3>2 DEF OpFits, Early, Trying, SelectPlaces, InWait, CancelOps
    <3>6. ArmedFits(c)' BY <1>0, <2>2, <3>1, <3>2 DEF ArmedFits, Early, Trying
    <3>7. WakesFits(c)' BY <1>0, <3>1, <3>2 DEF WakesFits
    <3>8. ClaimFits(c)' BY <1>0, <2>1, <3>1, <3>2 DEF ClaimFits, Trying, SelectPlaces
    <3> QED BY <3>3, <3>4, <3>5, <3>6, <3>7, <3>8 DEF Local
  <2> QED BY <1>1, <2>6, <2>7, <2>8 DEF Step
<1> QED BY <1>2, <1>3

LEMMA ProbeStep ==
  ASSUME Types, ChanTypes, NEW c \in Coroutines, Local(c), Probe(c)
  PROVE  Step(c)
<1>0. /\ pc[c] = "probe" /\ req[c].op = "select"
      /\ UNCHANGED <<calls, req, wgen, armed, life, readied, phase, waitQ, cancelled, cancelQ,
                     delivered, winner, out, wakes, chan>>
  BY DEF Probe, At, selectRest, callVars, roundVars, lifeVars, claimVars, cancelVars,
     Local, OpFits, SelectPlaces, Trying
<1>1. PICK s \in scan[c].todo :
        /\ scan' = [scan EXCEPT ![c] = [todo |-> scan[c].todo \ {s},
               ready |-> scan[c].ready \union {i \in CasesOn(c, s) : CaseReady(c, i)}]]
        /\ pc' = [pc EXCEPT ![c] = IF scan[c].todo = {s} THEN "retry" ELSE "probe"]
  BY DEF Probe, Goto
<1> DEFINE T == scan[c].todo \ {s}
           R == scan[c].ready \union {i \in CasesOn(c, s) : CaseReady(c, i)}
           D == {Case(c, i).src : i \in Cases(c)}
<1>2. D' = D /\ Cases(c)' = Cases(c) BY <1>0 DEF Case, Cases
<1>3. T \subseteq D /\ R \subseteq Cases(c)
  <2>1. scan[c].todo \subseteq D /\ scan[c].ready \subseteq Cases(c) BY <1>0 DEF Local, ScanFits
  <2>2. CasesOn(c, s) \subseteq Cases(c) BY DEF CasesOn
  <2> HIDE DEF D
  <2> QED BY <2>1, <2>2
<1>4. D \in SUBSET Sources /\ \A S \in SUBSET Cases(c) : S \in SUBSET Nat
  BY <1>0, SelectFacts
<1>5. scan' = [scan EXCEPT ![c] = [todo |-> T, ready |-> R]] BY <1>1
<1>6. pc' = [pc EXCEPT ![c] = "retry"] \/ pc' = [pc EXCEPT ![c] = "probe"] BY <1>1
<1> HIDE DEF T, R, D
<1>7. Types'
  <2>1. T \in SUBSET Sources /\ R \in SUBSET Nat BY <1>3, <1>4
  <2>2. scan' \in [Coroutines -> [todo : SUBSET Sources, ready : SUBSET Nat]]
    BY <1>5, <2>1 DEF Types
  <2>3. pc' \in [Coroutines -> Places] BY <1>6 DEF Types, Places, SelectPlaces, Trying
  <2> QED BY <1>0, <2>2, <2>3 DEF Types
<1>8. ChanTypes' BY <1>0 DEF ChanTypes
<1>9. ASSUME NEW e \in Coroutines \ {c} PROVE Bystander(e)
  BY <1>0, <1>1 DEF Types, Bystander, Steady, Same
<1>10. Local(c)'
  <2>1. pc'[c] \in {"probe", "retry"} /\ scan'[c].todo = T /\ scan'[c].ready = R
    BY <1>5, <1>6 DEF Types
  <2>2. ScanFits(c)' BY <1>2, <1>3, <2>1 DEF ScanFits, D
  <2>3. LifeFits(c)' BY <1>0, <2>1 DEF Local, LifeFits, Early, Trying
  <2>4. OpFits(c)' BY <1>0, <2>1 DEF Local, OpFits, Early, Trying, SelectPlaces, InWait, CancelOps
  <2>5. ArmedFits(c)' BY <1>0, <2>1 DEF Local, ArmedFits, Early, Trying
  <2>6. WakesFits(c)' BY <1>0, <2>1 DEF Local, WakesFits
  <2>7. ClaimFits(c)' BY <1>0, <2>1 DEF Local, ClaimFits, Trying, SelectPlaces
  <2> QED BY <2>2, <2>3, <2>4, <2>5, <2>6, <2>7 DEF Local
<1> QED BY <1>7, <1>8, <1>9, <1>10 DEF Step

LEMMA CancelStartStep ==
  ASSUME Types, ChanTypes, NEW c \in Coroutines, Local(c), CancelStart(c)
  PROVE  Step(c)
<1>0. /\ pc[c] = "call" /\ req[c].op = "cancel" /\ cancelled' = TRUE
      /\ UNCHANGED <<calls, req, wgen, armed, life, readied, delivered, winner, phase, scan, chan, waitQ>>
  BY DEF CancelStart, Serving, At, callVars, roundVars, lifeVars, claimVars
<1>1. PICK w \in Seq(Nodes) :
        /\ wakes' = [wakes EXCEPT ![c] = w]
        /\ cancelQ' \in Seq(Nodes)
        /\ \/ /\ w = <<>> /\ pc' = [pc EXCEPT ![c] = "idle"]
              /\ out' = [out EXCEPT ![c] = Result("Done")]
           \/ w # <<>> /\ pc' = [pc EXCEPT ![c] = "cancel"] /\ out' = out
  <2>1. CASE cancelled
    <3>1. wakes' = [wakes EXCEPT ![c] = <<>>] /\ cancelQ' = cancelQ BY <2>1 DEF CancelStart
    <3>2. wakes'[c] = <<>> BY <3>1 DEF Types
    <3>3. pc' = [pc EXCEPT ![c] = "idle"] /\ out' = [out EXCEPT ![c] = Result("Done")]
      BY <3>2 DEF CancelStart, Return, Goto
    <3>4. <<>> \in Seq(Nodes) OBVIOUS
    <3> QED BY <3>1, <3>3, <3>4 DEF Types
  <2>2. CASE ~cancelled
    <3>1. wakes' = [wakes EXCEPT ![c] = cancelQ] /\ cancelQ' = <<>> BY <2>2 DEF CancelStart
    <3>2. wakes'[c] = cancelQ /\ cancelQ \in Seq(Nodes) BY <3>1 DEF Types
    <3>3. \/ /\ cancelQ = <<>> /\ pc' = [pc EXCEPT ![c] = "idle"]
             /\ out' = [out EXCEPT ![c] = Result("Done")]
          \/ cancelQ # <<>> /\ pc' = [pc EXCEPT ![c] = "cancel"] /\ out' = out
      BY <3>2 DEF CancelStart, Return, Goto
    <3>4. <<>> \in Seq(Nodes) OBVIOUS
    <3> QED BY <3>1, <3>2, <3>3, <3>4
  <2> QED BY <2>1, <2>2
<1>2. Types'
  <2>1. Result("Done") \in CallResults BY ResultTypes
  <2>2. out' \in [Coroutines -> CallResults] BY <1>1, <2>1 DEF Types
  <2>3. pc' \in [Coroutines -> Places] BY <1>1 DEF Types, Places, Early
  <2>4. wakes' \in [Coroutines -> Seq(Nodes)] BY <1>1 DEF Types
  <2>5. cancelled' \in BOOLEAN BY <1>0
  <2> QED BY <1>0, <1>1, <2>2, <2>3, <2>4, <2>5 DEF Types
<1>3. ChanTypes' BY <1>0 DEF ChanTypes
<1>4. ASSUME NEW e \in Coroutines \ {c} PROVE Bystander(e)
  BY <1>0, <1>1 DEF Types, Bystander, Steady, Same
<1>5. Local(c)'
  <2>0. wakes'[c] = w BY <1>1 DEF Types
  <2>1. wakes'[c] = w /\ ((pc'[c] = "idle" /\ w = <<>>) \/ (pc'[c] = "cancel" /\ w # <<>>))
    <3> HIDE DEF Types
    <3>1. pc \in [Coroutines -> Places] BY DEF Types
    <3>2. CASE w = <<>>
      <4>1. pc' = [pc EXCEPT ![c] = "idle"] BY <1>1, <3>2
      <4> QED BY <2>0, <3>1, <3>2, <4>1
    <3>3. CASE w # <<>>
      <4>1. pc' = [pc EXCEPT ![c] = "cancel"] BY <1>1, <3>3
      <4> QED BY <2>0, <3>1, <3>3, <4>1
    <3> QED BY <3>2, <3>3
  <2> QED BY <1>0, <2>1 DEF Local, LifeFits, OpFits, ScanFits, ArmedFits, WakesFits, ClaimFits,
     SelectPlaces, Early, Trying, InWait, CancelOps
<1> QED BY <1>2, <1>3, <1>4, <1>5 DEF Step

(* CancelNext: the next node or the end of the request.                    *)
LEMMA CancelNextFacts ==
  ASSUME Types, NEW c \in Coroutines, wakes[c] # <<>>, CancelNext(c)
  PROVE  /\ wakes' \in [Coroutines -> Seq(Nodes)] /\ pc' \in [Coroutines -> Places]
         /\ out' \in [Coroutines -> CallResults]
         /\ (pc'[c] = "idle" /\ wakes'[c] = <<>>) \/ (pc'[c] = "cancel" /\ wakes'[c] # <<>>)
         /\ \A e \in Coroutines \ {c} : pc'[e] = pc[e] /\ out'[e] = out[e] /\ wakes'[e] = wakes[e]
<1>1. wakes[c] \in Seq(Nodes) BY DEF Types
<1>2. Tail(wakes[c]) \in Seq(Nodes) /\ (Len(wakes[c]) = 1 <=> Tail(wakes[c]) = <<>>)
  BY <1>1, HeadFacts
<1>3. wakes' = [wakes EXCEPT ![c] = Tail(wakes[c])] BY DEF CancelNext
<1>4. \/ /\ Len(wakes[c]) = 1 /\ pc' = [pc EXCEPT ![c] = "idle"]
         /\ out' = [out EXCEPT ![c] = Result("Done")]
      \/ Len(wakes[c]) # 1 /\ pc' = [pc EXCEPT ![c] = "cancel"] /\ out' = out
  BY DEF CancelNext, Return, Goto
<1>5. wakes' \in [Coroutines -> Seq(Nodes)] /\ wakes'[c] = Tail(wakes[c]) BY <1>2, <1>3 DEF Types
<1>6. pc' \in [Coroutines -> Places] BY <1>4 DEF Types, Places, Early
<1>7. out' \in [Coroutines -> CallResults] BY <1>4, ResultTypes DEF Types
<1>8. (pc'[c] = "idle" /\ wakes'[c] = <<>>) \/ (pc'[c] = "cancel" /\ wakes'[c] # <<>>)
  <2>1. CASE Len(wakes[c]) = 1
    <3>1. pc'[c] = "idle" BY <1>4, <2>1 DEF Types
    <3> QED BY <1>2, <1>5, <2>1, <3>1
  <2>2. CASE Len(wakes[c]) # 1
    <3>1. pc'[c] = "cancel" BY <1>4, <2>2 DEF Types
    <3> QED BY <1>2, <1>5, <2>2, <3>1
  <2> QED BY <2>1, <2>2
<1>9. \A e \in Coroutines \ {c} : pc'[e] = pc[e] /\ out'[e] = out[e] /\ wakes'[e] = wakes[e]
  BY <1>3, <1>4 DEF Types
<1> QED BY <1>5, <1>6, <1>7, <1>8, <1>9

LEMMA CancelSkipStep ==
  ASSUME Types, ChanTypes, NEW c \in Coroutines, Local(c), CancelSkip(c)
  PROVE  Step(c)
<1>0. /\ pc[c] = "cancel" /\ wakes[c] # <<>> /\ CancelNext(c)
      /\ UNCHANGED <<life, wgen, armed, delivered, winner, readied, phase, scan, chan, waitQ,
                     cancelled, cancelQ, calls, req>>
  BY DEF CancelSkip, At, planeVars, callVars, roundVars, claimVars, cancelVars, Local, WakesFits
<1>1. /\ wakes' \in [Coroutines -> Seq(Nodes)] /\ pc' \in [Coroutines -> Places]
      /\ out' \in [Coroutines -> CallResults]
      /\ (pc'[c] = "idle" /\ wakes'[c] = <<>>) \/ (pc'[c] = "cancel" /\ wakes'[c] # <<>>)
      /\ \A e \in Coroutines \ {c} : pc'[e] = pc[e] /\ out'[e] = out[e] /\ wakes'[e] = wakes[e]
  BY <1>0, CancelNextFacts
<1>2. cancelled' \in BOOLEAN BY <1>0 DEF Types
<1>3. Types' BY <1>0, <1>1, <1>2 DEF Types
<1>4. ChanTypes' BY <1>0 DEF ChanTypes
<1>5. ASSUME NEW e \in Coroutines \ {c} PROVE Bystander(e)
  BY <1>0, <1>1 DEF Types, Bystander, Steady, Same
<1>6. Local(c)'
  BY <1>0, <1>1 DEF Local, LifeFits, OpFits, ScanFits, ArmedFits, WakesFits, ClaimFits,
     SelectPlaces, Early, Trying, InWait, CancelOps
<1> QED BY <1>3, <1>4, <1>5, <1>6 DEF Step

LEMMA UnlinkTypes ==
  ASSUME Types, ChanTypes, NEW G,
         chan' = [ch \in Channels |->
            [chan[ch] EXCEPT !.sendQ = Without(@, G), !.recvQ = Without(@, G)]],
         waitQ' = [s \in DOMAIN waitQ |-> Without(waitQ[s], G)],
         cancelQ' = Without(cancelQ, G)
  PROVE  /\ ChanTypes'
         /\ waitQ' \in [Coroutines \union {Never} -> Seq(Nodes)]
         /\ cancelQ' \in Seq(Nodes)
<1>1. ASSUME NEW ch \in Channels PROVE RingOK(chan'[ch], Capacity[ch])
  <2>1. RingOK(chan[ch], Capacity[ch]) BY DEF ChanTypes
  <2>2. chan[ch].sendQ \in Seq(Nodes) /\ chan[ch].recvQ \in Seq(Nodes)
    BY <2>1 DEF RingOK, ChannelType
  <2>3. Without(chan[ch].sendQ, G) \in Seq(Nodes) /\ Without(chan[ch].recvQ, G) \in Seq(Nodes)
    BY <2>2, WithoutFacts
  <2>4. chan'[ch] = [chan[ch] EXCEPT !.sendQ = Without(chan[ch].sendQ, G),
                                     !.recvQ = Without(chan[ch].recvQ, G)]
    OBVIOUS
  <2> QED BY <2>1, <2>3, <2>4, QueueSwap
<1>2. ChanTypes' BY <1>1 DEF ChanTypes
<1>3. \A s \in Coroutines \union {Never} : Without(waitQ[s], G) \in Seq(Nodes)
  <2>1. \A s \in Coroutines \union {Never} : waitQ[s] \in Seq(Nodes) BY DEF Types
  <2> QED BY <2>1, WithoutFacts
<1>4. waitQ' \in [Coroutines \union {Never} -> Seq(Nodes)] BY <1>3 DEF Types
<1>5. cancelQ' \in Seq(Nodes) BY WithoutFacts DEF Types
<1> QED BY <1>2, <1>4, <1>5

LEMMA CleanupTypes ==
  ASSUME Types, ChanTypes, NEW c \in Coroutines, Cleanup(c)
  PROVE  /\ armed' = [armed EXCEPT ![c] = <<>>] /\ armed' \in [Coroutines -> Seq(Nodes)]
         /\ ChanTypes'
         /\ waitQ' \in [Coroutines \union {Never} -> Seq(Nodes)]
         /\ cancelQ' \in Seq(Nodes)
<1> DEFINE G == Range(armed[c])
<1>1. /\ armed' = [armed EXCEPT ![c] = <<>>]
      /\ chan' = [ch \in Channels |->
            [chan[ch] EXCEPT !.sendQ = Without(@, G), !.recvQ = Without(@, G)]]
      /\ waitQ' = [s \in DOMAIN waitQ |-> Without(waitQ[s], G)]
      /\ cancelQ' = Without(cancelQ, G)
  BY DEF Cleanup
<1>2. armed' \in [Coroutines -> Seq(Nodes)]
  <2>1. <<>> \in Seq(Nodes) OBVIOUS
  <2> QED BY <1>1, <2>1 DEF Types
<1> HIDE DEF G
<1> QED BY <1>1, <1>2, UnlinkTypes

LEMMA WakeNodeFacts ==
  ASSUME Types, ChanTypes, NEW h \in Nodes, WakeNode(h)
  PROVE  /\ ChanTypes'
         /\ life' \in [Coroutines -> States] /\ readied' \in [Coroutines -> 0 .. MaxCalls]
         /\ armed' \in [Coroutines -> Seq(Nodes)]
         /\ waitQ' \in [Coroutines \union {Never} -> Seq(Nodes)]
         /\ cancelQ' \in Seq(Nodes)
         /\ \/ /\ CanWake(h)
               /\ life' = [life EXCEPT ![h.co] = "Runnable"]
               /\ readied' = [readied EXCEPT ![h.co] = h.gen]
               /\ armed' = [armed EXCEPT ![h.co] = <<>>]
            \/ UNCHANGED <<life, readied, armed>>
<1>1. h.co \in Coroutines /\ h.gen \in 0 .. MaxCalls BY WaitAssumption DEF Nodes
<1>2. CASE CanWake(h)
  <2>1. /\ life' = [life EXCEPT ![h.co] = "Runnable"]
        /\ readied' = [readied EXCEPT ![h.co] = h.gen]
        /\ Cleanup(h.co)
    BY <1>2 DEF WakeNode
  <2>2. /\ armed' = [armed EXCEPT ![h.co] = <<>>] /\ armed' \in [Coroutines -> Seq(Nodes)]
        /\ ChanTypes'
        /\ waitQ' \in [Coroutines \union {Never} -> Seq(Nodes)]
        /\ cancelQ' \in Seq(Nodes)
    BY <1>1, <2>1, CleanupTypes
  <2>3. life' \in [Coroutines -> States] BY <2>1 DEF Types, States
  <2>4. readied' \in [Coroutines -> 0 .. MaxCalls] BY <1>1, <2>1 DEF Types
  <2> QED BY <1>2, <2>1, <2>2, <2>3, <2>4
<1>3. CASE ~CanWake(h)
  <2>1. UNCHANGED <<life, readied, armed, chan, waitQ, cancelQ>>
    BY <1>3 DEF WakeNode, lifeVars, queueVars
  <2> QED BY <2>1 DEF Types, ChanTypes
<1> QED BY <1>2, <1>3

(* A handler that wakes another coroutine's node.                          *)
LEMMA WakeBystanders ==
  ASSUME Types, NEW h \in Nodes,
         \/ /\ CanWake(h)
            /\ life' = [life EXCEPT ![h.co] = "Runnable"]
            /\ readied' = [readied EXCEPT ![h.co] = h.gen]
            /\ armed' = [armed EXCEPT ![h.co] = <<>>]
         \/ UNCHANGED <<life, readied, armed>>,
         UNCHANGED <<delivered, winner>>,
         NEW e \in Coroutines, Steady(e)
  PROVE  /\ Bystander(e)
         /\ life[e] # "Waiting" => life'[e] = life[e] /\ readied'[e] = readied[e] /\ armed'[e] = armed[e]
<1>1. CASE CanWake(h) /\ h.co = e /\ life' = [life EXCEPT ![h.co] = "Runnable"]
            /\ readied' = [readied EXCEPT ![h.co] = h.gen]
            /\ armed' = [armed EXCEPT ![h.co] = <<>>]
  <2>1. Woken(e) BY <1>1 DEF Woken, Types
  <2>2. life[e] = "Waiting" BY <1>1 DEF CanWake
  <2> QED BY <2>1, <2>2 DEF Bystander
<1>2. CASE h.co # e \/ UNCHANGED <<life, readied, armed>>
  <2>1. Same(e) BY <1>2 DEF Types, Same
  <2> QED BY <2>1 DEF Bystander, Same
<1> QED BY <1>1, <1>2

(* A round whose result has been taken is still a round.                   *)
LEMMA ResultCleared ==
  ASSUME Types, NEW c \in Coroutines
  PROVE  [delivered EXCEPT ![c] = [delivered[c] EXCEPT !.res = NoResult]]
           \in [Coroutines -> [gen : 0 .. MaxCalls, res : WaitResults \union {NoResult}]]
<1> DEFINE T == [gen : 0 .. MaxCalls, res : WaitResults \union {NoResult}]
<1>1. delivered \in [Coroutines -> T] BY DEF Types
<1>2. delivered[c] \in T BY <1>1
<1>3. [delivered[c] EXCEPT !.res = NoResult] \in T BY <1>2
<1> HIDE DEF T
<1>4. [delivered EXCEPT ![c] = [delivered[c] EXCEPT !.res = NoResult]] \in [Coroutines -> T]
  BY <1>1, <1>3
<1> QED BY <1>4 DEF T

LEMMA SelectDoneStep ==
  ASSUME Types, ChanTypes, NEW c \in Coroutines, Local(c), SelectDone(c)
  PROVE  Step(c)
<1>0. /\ pc[c] = "cleanup" /\ Cleanup(c)
      /\ delivered' = [delivered EXCEPT ![c] = [delivered[c] EXCEPT !.res = NoResult]]
      /\ out' = [out EXCEPT ![c] = delivered[c].res]
      /\ pc' = [pc EXCEPT ![c] = "idle"]
      /\ UNCHANGED <<calls, req, wgen, life, readied, winner, phase, scan, wakes, cancelled>>
  BY DEF SelectDone, TakeDelivered, At, Goto, callVars, lifeVars
<1>1. /\ armed' = [armed EXCEPT ![c] = <<>>] /\ armed' \in [Coroutines -> Seq(Nodes)]
      /\ ChanTypes'
      /\ waitQ' \in [Coroutines \union {Never} -> Seq(Nodes)]
      /\ cancelQ' \in Seq(Nodes)
  BY <1>0, CleanupTypes
<1>2. Types'
  <2>1. out' \in [Coroutines -> CallResults]
    <3>1. delivered[c].res \in CallResults BY ResultTypes DEF Types
    <3> QED BY <1>0, <3>1 DEF Types
  <2>2. delivered' \in [Coroutines -> [gen : 0 .. MaxCalls, res : WaitResults \union {NoResult}]]
    BY <1>0, ResultCleared
  <2>3. pc' \in [Coroutines -> Places] BY <1>0 DEF Types, Places, Early
  <2>4. cancelled' \in BOOLEAN BY <1>0 DEF Types
  <2> QED BY <1>0, <1>1, <2>1, <2>2, <2>3, <2>4 DEF Types
<1>3. ASSUME NEW e \in Coroutines \ {c} PROVE Bystander(e)
  BY <1>0, <1>1 DEF Types, Bystander, Steady, Same
<1>4. Local(c)'
  <2>1. pc'[c] = "idle" /\ armed'[c] = <<>> /\ delivered'[c].gen = delivered[c].gen
    BY <1>0, <1>1 DEF Types
  <2> QED BY <1>0, <2>1 DEF Local, LifeFits, OpFits, ScanFits, ArmedFits, WakesFits, ClaimFits,
     SelectPlaces, Early, Trying, InWait, CancelOps
<1> QED BY <1>1, <1>2, <1>3, <1>4 DEF Step

LEMMA ParkUndoneStep ==
  ASSUME Types, ChanTypes, NEW c \in Coroutines, Local(c), ParkUndone(c)
  PROVE  Step(c)
<1>0. /\ pc[c] = "park" /\ Cleanup(c)
      /\ life' = [life EXCEPT ![c] = "Running"]
      /\ delivered' = [delivered EXCEPT ![c] = [delivered[c] EXCEPT !.res = NoResult]]
      /\ out' = [out EXCEPT ![c] = delivered[c].res]
      /\ pc' = [pc EXCEPT ![c] = "idle"]
      /\ UNCHANGED <<calls, req, wgen, readied, winner, phase, scan, wakes, cancelled>>
  BY DEF ParkUndone, TakeDelivered, At, Goto, callVars
<1>1. /\ armed' = [armed EXCEPT ![c] = <<>>] /\ armed' \in [Coroutines -> Seq(Nodes)]
      /\ ChanTypes'
      /\ waitQ' \in [Coroutines \union {Never} -> Seq(Nodes)]
      /\ cancelQ' \in Seq(Nodes)
  BY <1>0, CleanupTypes
<1>2. Types'
  <2>1. out' \in [Coroutines -> CallResults]
    <3>1. delivered[c].res \in CallResults BY ResultTypes DEF Types
    <3> QED BY <1>0, <3>1 DEF Types
  <2>2. delivered' \in [Coroutines -> [gen : 0 .. MaxCalls, res : WaitResults \union {NoResult}]]
    BY <1>0, ResultCleared
  <2>3. pc' \in [Coroutines -> Places] BY <1>0 DEF Types, Places, Early
  <2>4. cancelled' \in BOOLEAN BY <1>0 DEF Types
  <2>5. life' \in [Coroutines -> States] BY <1>0 DEF Types, States
  <2> QED BY <1>0, <1>1, <2>1, <2>2, <2>3, <2>4, <2>5 DEF Types
<1>3. ASSUME NEW e \in Coroutines \ {c} PROVE Bystander(e)
  BY <1>0, <1>1 DEF Types, Bystander, Steady, Same
<1>4. Local(c)'
  <2>1. /\ pc'[c] = "idle" /\ armed'[c] = <<>> /\ delivered'[c].gen = delivered[c].gen
        /\ life'[c] = "Running"
    BY <1>0, <1>1 DEF Types
  <2> QED BY <1>0, <2>1 DEF Local, LifeFits, OpFits, ScanFits, ArmedFits, WakesFits, ClaimFits,
     SelectPlaces, Early, Trying, InWait, CancelOps
<1> QED BY <1>1, <1>2, <1>3, <1>4 DEF Step

LEMMA JoinLateStep ==
  ASSUME Types, ChanTypes, NEW c \in Coroutines, Local(c), JoinLate(c)
  PROVE  Step(c)
<1>0. /\ pc[c] = "join" /\ Cleanup(c)
      /\ out' = [out EXCEPT ![c] = Result("Join")]
      /\ pc' = [pc EXCEPT ![c] = "idle"]
      /\ UNCHANGED <<calls, req, wgen, life, readied, delivered, winner, phase, scan, wakes, cancelled>>
  BY DEF JoinLate, Return, At, Goto, callVars, lifeVars, claimVars
<1>1. /\ armed' = [armed EXCEPT ![c] = <<>>] /\ armed' \in [Coroutines -> Seq(Nodes)]
      /\ ChanTypes'
      /\ waitQ' \in [Coroutines \union {Never} -> Seq(Nodes)]
      /\ cancelQ' \in Seq(Nodes)
  BY <1>0, CleanupTypes
<1>2. Types'
  <2>1. Result("Join") \in CallResults BY ResultTypes DEF WaitKinds
  <2>2. out' \in [Coroutines -> CallResults] BY <1>0, <2>1 DEF Types
  <2>3. pc' \in [Coroutines -> Places] BY <1>0 DEF Types, Places, Early
  <2>4. cancelled' \in BOOLEAN BY <1>0 DEF Types
  <2> QED BY <1>0, <1>1, <2>2, <2>3, <2>4 DEF Types
<1>3. ASSUME NEW e \in Coroutines \ {c} PROVE Bystander(e)
  BY <1>0, <1>1 DEF Types, Bystander, Steady, Same
<1>4. Local(c)'
  <2>1. pc'[c] = "idle" /\ armed'[c] = <<>> BY <1>0, <1>1 DEF Types
  <2> QED BY <1>0, <2>1 DEF Local, LifeFits, OpFits, ScanFits, ArmedFits, WakesFits, ClaimFits,
     SelectPlaces, Early, Trying, InWait, CancelOps
<1> QED BY <1>1, <1>2, <1>3, <1>4 DEF Step

LEMMA WakeStep ==
  ASSUME Types, ChanTypes, NEW c \in Coroutines, Local(c), Wake(c)
  PROVE  Step(c)
<1> DEFINE h == Head(wakes[c])
<1>0. /\ pc[c] = "wake" /\ WakeNode(h)
      /\ wakes' = [wakes EXCEPT ![c] = Tail(wakes[c])]
      /\ UNCHANGED <<calls, req, out, wgen, delivered, winner, phase, scan, cancelled>>
  BY DEF Wake, At, callVars, claimVars
<1>1. wakes[c] \in Seq(Nodes) /\ wakes[c] # <<>> BY <1>0 DEF Types, Local, WakesFits
<1>2. h \in Nodes /\ Tail(wakes[c]) \in Seq(Nodes) /\ (Len(wakes[c]) = 1 <=> Tail(wakes[c]) = <<>>)
      /\ (Len(wakes[c]) > 1 <=> Tail(wakes[c]) # <<>>)
  BY <1>1, HeadFacts
<1>3. \/ Tail(wakes[c]) # <<>> /\ pc' = [pc EXCEPT ![c] = "wake"]
      \/ Tail(wakes[c]) = <<>> /\ req[c].op = "select" /\ pc' = [pc EXCEPT ![c] = "cleanup"]
      \/ /\ Tail(wakes[c]) = <<>> /\ req[c].op # "select" /\ life[c] = "Dead"
         /\ pc' = [pc EXCEPT ![c] = "done"]
      \/ /\ Tail(wakes[c]) = <<>> /\ req[c].op # "select" /\ life[c] # "Dead"
         /\ pc' = [pc EXCEPT ![c] = "idle"]
  <2>1. CASE Len(wakes[c]) > 1 BY <1>2, <2>1 DEF Wake, Goto
  <2>2. CASE ~(Len(wakes[c]) > 1) /\ Len(wakes[c]) = 1 /\ IsSelect(c)
    <3> DEFINE x == CASE Len(wakes[c]) > 1 -> "wake"
                      [] Len(wakes[c]) = 1 /\ IsSelect(c) -> "cleanup"
                      [] Len(wakes[c]) = 1 /\ life[c] = "Dead" -> "done"
                      [] OTHER -> "idle"
    <3>0. x = "cleanup"
      <4>1. life[c] # "Dead" BY <1>0, <2>2 DEF Local, LifeFits, IsSelect
      <4> QED BY <2>2, <4>1, Zenon
    <3>4. pc' = [pc EXCEPT ![c] = x] BY DEF Wake, Goto
    <3> HIDE DEF x
    <3>1. pc' = [pc EXCEPT ![c] = "cleanup"] BY <3>0, <3>4
    <3>2. req[c].op = "select" BY <2>2 DEF IsSelect
    <3>3. Tail(wakes[c]) = <<>> BY <1>2, <2>2
    <3> QED BY <3>1, <3>2, <3>3
  <2>3. CASE ~(Len(wakes[c]) > 1) /\ Len(wakes[c]) = 1 /\ ~IsSelect(c) /\ life[c] = "Dead"
    BY <1>2, <2>3 DEF Wake, Goto, IsSelect
  <2>4. CASE ~(Len(wakes[c]) > 1) /\ Len(wakes[c]) = 1 /\ ~IsSelect(c) /\ life[c] # "Dead"
    BY <1>2, <2>4 DEF Wake, Goto, IsSelect
  <2> QED BY <1>2, <2>1, <2>2, <2>3, <2>4
<1> HIDE DEF h
<1>4. /\ ChanTypes'
      /\ life' \in [Coroutines -> States] /\ readied' \in [Coroutines -> 0 .. MaxCalls]
      /\ armed' \in [Coroutines -> Seq(Nodes)]
      /\ waitQ' \in [Coroutines \union {Never} -> Seq(Nodes)]
      /\ cancelQ' \in Seq(Nodes)
      /\ \/ /\ CanWake(h)
            /\ life' = [life EXCEPT ![h.co] = "Runnable"]
            /\ readied' = [readied EXCEPT ![h.co] = h.gen]
            /\ armed' = [armed EXCEPT ![h.co] = <<>>]
         \/ UNCHANGED <<life, readied, armed>>
  BY <1>0, <1>2, WakeNodeFacts
<1>5. pc' \in [Coroutines -> Places] /\ wakes' \in [Coroutines -> Seq(Nodes)]
      /\ wakes'[c] = Tail(wakes[c])
  <2>1. pc' \in [Coroutines -> Places] BY <1>3 DEF Types, Places, SelectPlaces, Early
  <2> QED BY <1>0, <1>2, <2>1 DEF Types
<1>6. Types'
  <2>1. cancelled' \in BOOLEAN BY <1>0 DEF Types
  <2> QED BY <1>0, <1>4, <1>5, <2>1 DEF Types
<1>7. ASSUME NEW e \in Coroutines \ {c} PROVE Bystander(e)
  <2>1. Steady(e)
    <3>1. pc'[e] = pc[e] BY <1>3 DEF Types
    <3>2. wakes'[e] = wakes[e] BY <1>0 DEF Types
    <3> QED BY <1>0, <3>1, <3>2 DEF Steady
  <2> QED BY <1>0, <1>2, <1>4, <2>1, WakeBystanders
<1>8. life'[c] = life[c] /\ readied'[c] = readied[c] /\ armed'[c] = armed[c]
  <2>1. life[c] # "Waiting" BY <1>0 DEF Local, LifeFits
  <2>2. CanWake(h) => h.co # c BY <2>1 DEF CanWake
  <2> QED BY <1>4, <2>2 DEF Types
<1>9. Local(c)'
  <2>1. \/ wakes'[c] # <<>> /\ pc'[c] = "wake"
        \/ wakes'[c] = <<>> /\ req[c].op = "select" /\ pc'[c] = "cleanup"
        \/ wakes'[c] = <<>> /\ req[c].op # "select" /\ life[c] = "Dead" /\ pc'[c] = "done"
        \/ wakes'[c] = <<>> /\ req[c].op # "select" /\ life[c] # "Dead" /\ pc'[c] = "idle"
    <3>1. pc \in [Coroutines -> Places] BY DEF Types
    <3> QED BY <1>3, <1>5, <3>1
  <2> QED BY <1>0, <1>8, <2>1 DEF Local, LifeFits, OpFits, ScanFits, ArmedFits, WakesFits, ClaimFits,
     SelectPlaces, Early, Trying, InWait, CancelOps, Completed
<1> QED BY <1>4, <1>6, <1>7, <1>9 DEF Step

LEMMA CancelWakeStep ==
  ASSUME Types, ChanTypes, NEW c \in Coroutines, Local(c), CancelWake(c)
  PROVE  Step(c)
<1> DEFINE h == Head(wakes[c])
<1>0. /\ pc[c] = "cancel_wake" /\ WakeNode(h) /\ CancelNext(c)
      /\ UNCHANGED <<calls, req, wgen, delivered, winner, phase, scan, cancelled>>
  BY DEF CancelWake, At, callVars, claimVars
<1>1. wakes[c] \in Seq(Nodes) /\ wakes[c] # <<>> BY <1>0 DEF Types, Local, WakesFits
<1>2. h \in Nodes BY <1>1, HeadFacts
<1> HIDE DEF h
<1>3. /\ wakes' \in [Coroutines -> Seq(Nodes)] /\ pc' \in [Coroutines -> Places]
      /\ out' \in [Coroutines -> CallResults]
      /\ (pc'[c] = "idle" /\ wakes'[c] = <<>>) \/ (pc'[c] = "cancel" /\ wakes'[c] # <<>>)
      /\ \A e \in Coroutines \ {c} : pc'[e] = pc[e] /\ out'[e] = out[e] /\ wakes'[e] = wakes[e]
  BY <1>0, <1>1, CancelNextFacts
<1>4. /\ ChanTypes'
      /\ life' \in [Coroutines -> States] /\ readied' \in [Coroutines -> 0 .. MaxCalls]
      /\ armed' \in [Coroutines -> Seq(Nodes)]
      /\ waitQ' \in [Coroutines \union {Never} -> Seq(Nodes)]
      /\ cancelQ' \in Seq(Nodes)
      /\ \/ /\ CanWake(h)
            /\ life' = [life EXCEPT ![h.co] = "Runnable"]
            /\ readied' = [readied EXCEPT ![h.co] = h.gen]
            /\ armed' = [armed EXCEPT ![h.co] = <<>>]
         \/ UNCHANGED <<life, readied, armed>>
  BY <1>0, <1>2, WakeNodeFacts
<1>6. Types'
  <2>1. cancelled' \in BOOLEAN BY <1>0 DEF Types
  <2> QED BY <1>0, <1>3, <1>4, <2>1 DEF Types
<1>7. ASSUME NEW e \in Coroutines \ {c} PROVE Bystander(e)
  <2>1. Steady(e) BY <1>0, <1>3 DEF Steady
  <2> QED BY <1>0, <1>2, <1>4, <2>1, WakeBystanders
<1>8. life'[c] = life[c] /\ readied'[c] = readied[c] /\ armed'[c] = armed[c]
  <2>1. life[c] # "Waiting" BY <1>0 DEF Local, LifeFits
  <2>2. CanWake(h) => h.co # c BY <2>1 DEF CanWake
  <2> QED BY <1>4, <2>2 DEF Types
<1>9. Local(c)'
  BY <1>0, <1>3, <1>8 DEF Local, LifeFits, OpFits, ScanFits, ArmedFits, WakesFits, ClaimFits,
     SelectPlaces, Early, Trying, InWait, CancelOps, Completed
<1> QED BY <1>4, <1>6, <1>7, <1>9 DEF Step

LEMMA ParkRecheckStep ==
  ASSUME Types, ChanTypes, NEW c \in Coroutines, Local(c), ParkRecheck(c)
  PROVE  Step(c)
<1> DEFINE won == {n \in Range(armed[c]) : NodeCompleted(n)}
<1>0. /\ pc[c] = "recheck" /\ pc' = [pc EXCEPT ![c] = "blocked"]
      /\ IF won # {} THEN \E n \in won : WakeNode(n)
         ELSE UNCHANGED <<life, readied, armed, chan, waitQ, cancelQ>>
      /\ UNCHANGED <<calls, req, out, wgen, delivered, winner, phase, scan, wakes, cancelled>>
  BY DEF ParkRecheck, At, Goto, lifeVars, queueVars, callVars, claimVars
<1>1. /\ ChanTypes'
      /\ life' \in [Coroutines -> States] /\ readied' \in [Coroutines -> 0 .. MaxCalls]
      /\ armed' \in [Coroutines -> Seq(Nodes)]
      /\ waitQ' \in [Coroutines \union {Never} -> Seq(Nodes)]
      /\ cancelQ' \in Seq(Nodes)
      /\ \/ \E n : /\ CanWake(n) /\ n.co = c /\ n.gen = wgen[c] /\ Completed(c)
                   /\ life' = [life EXCEPT ![c] = "Runnable"]
                   /\ readied' = [readied EXCEPT ![c] = wgen[c]]
                   /\ armed' = [armed EXCEPT ![c] = <<>>]
         \/ UNCHANGED <<life, readied, armed>>
  <2>1. CASE won # {}
    <3>1. PICK n \in won : WakeNode(n) BY <1>0, <2>1
    <3>2. n \in Nodes BY <3>1, NodeTypes
    <3>3. n.co = c
      <4>1. armed[c] # <<>> BY <3>1 DEF Range
      <4>2. armed[c] = RoundOf(c, req[c].cases, wgen[c]) BY <4>1 DEF Local, ArmedFits
      <4> QED BY <3>1, <4>2, NodeOfRound
    <3>4. n.gen = wgen[c] /\ Completed(c) BY <3>1, <3>3 DEF NodeCompleted
    <3> HIDE DEF won
    <3> QED BY <3>1, <3>2, <3>3, <3>4, WakeNodeFacts
  <2>2. CASE won = {}
    <3>1. UNCHANGED <<life, readied, armed, chan, waitQ, cancelQ>> BY <1>0, <2>2
    <3> QED BY <3>1 DEF Types, ChanTypes
  <2> QED BY <2>1, <2>2
<1>2. UNCHANGED <<calls, req, out, wgen, delivered, winner, phase, scan, wakes, cancelled>>
      /\ pc[c] = "recheck" /\ pc' = [pc EXCEPT ![c] = "blocked"]
  BY <1>0
<1> HIDE DEF won
<1>3. Types'
  <2>1. cancelled' \in BOOLEAN BY <1>2 DEF Types
  <2>2. pc' \in [Coroutines -> Places] BY <1>2 DEF Types, Places, InWait
  <2> QED BY <1>1, <1>2, <2>1, <2>2 DEF Types
<1>4. ASSUME NEW e \in Coroutines \ {c} PROVE Bystander(e)
  BY <1>1, <1>2 DEF Types, Bystander, Steady, Same
<1>5. Local(c)'
  <2>0. pc'[c] = "blocked" BY <1>2 DEF Types
  <2>1. CASE UNCHANGED <<life, readied, armed>>
    BY <1>2, <2>0, <2>1 DEF Local, LifeFits, OpFits, ScanFits, ArmedFits, WakesFits, ClaimFits,
     SelectPlaces, Early, Trying, InWait, CancelOps, Completed
  <2>2. CASE /\ Completed(c)
             /\ life' = [life EXCEPT ![c] = "Runnable"]
             /\ readied' = [readied EXCEPT ![c] = wgen[c]]
             /\ armed' = [armed EXCEPT ![c] = <<>>]
    <3>1. life'[c] = "Runnable" /\ readied'[c] = wgen[c] /\ armed'[c] = <<>> BY <2>2 DEF Types
    <3>2. wgen[c] \in Nat BY DEF Types
    <3> QED BY <1>2, <2>0, <2>2, <3>1, <3>2 DEF Local, LifeFits, OpFits, ScanFits, ArmedFits, WakesFits, ClaimFits,
     SelectPlaces, Early, Trying, InWait, CancelOps, Completed
  <2> QED BY <1>1, <2>1, <2>2
<1> QED BY <1>1, <1>3, <1>4, <1>5 DEF Step

-----------------------------------------------------------------------------
(* The claims of other coroutines' rounds that a handler of c may make.    *)
PeerClaims(c, P) ==
  \A k \in P : \E n \in Nodes :
    /\ NodePending(n) /\ n.co # c
    /\ k.co = n.co /\ k.case = n.case /\ k.res \in WaitResults

(* What such a claim does to the coroutine e.                              *)
PeerGiven(e) ==
  \/ delivered'[e] = delivered[e] /\ winner'[e] = winner[e]
  \/ \E n, r :
       /\ NodePending(n) /\ n.co = e /\ r \in WaitResults
       /\ delivered'[e] = [gen |-> wgen[e], res |-> r]
       /\ winner'[e] = IF req[e].op = "select" THEN CaseWinner(n.case) ELSE winner[e]

ClaimedTypes ==
  /\ delivered' \in [Coroutines -> [gen : 0 .. MaxCalls, res : WaitResults \union {NoResult}]]
  /\ winner' \in [Coroutines -> Nat]

LEMMA PeerBystander ==
  ASSUME NEW e, Steady(e), PeerGiven(e),
         life'[e] = life[e] /\ armed'[e] = armed[e] /\ readied'[e] = readied[e]
  PROVE  Bystander(e)
  BY DEF Bystander, PeerGiven, Same, Given

LEMMA PeersClaimed ==
  ASSUME Types, NEW c \in Coroutines, NEW P, PeerClaims(c, P),
         NEW i \in Nat, NEW res \in WaitResults, i # 0 => req[c].op = "select",
         Claim(SelfClaim(c, i, res) \union P)
  PROVE  /\ ClaimedTypes
         /\ \A e \in Coroutines \ {c} : PeerGiven(e)
         /\ i = 0 => delivered'[c] = delivered[c] /\ winner'[c] = winner[c]
         /\ i # 0 => delivered'[c] = [gen |-> wgen[c], res |-> res] /\ winner'[c] = CaseWinner(i)
<1> DEFINE S == SelfClaim(c, i, res)
           K == S \union P
<1>1. \A k \in S : i # 0 /\ k.co = c /\ k.case = i /\ k.res = res BY DEF SelfClaim
<1>2. i # 0 => \E k \in S : k.co = c BY DEF SelfClaim
<1>3. \A k \in P : k.co # c BY DEF PeerClaims
<1>4. \A k \in P : k.case \in Nat /\ k.res \in WaitResults BY DEF PeerClaims, Nodes
<1>5. Claim(K) OBVIOUS
<1> HIDE DEF S
<1>6. \A k \in K : k.case \in Nat /\ k.res \in WaitResults BY <1>1, <1>4
<1>7. ASSUME NEW e \in Coroutines \ {c} PROVE PeerGiven(e)
  <2>1. CASE delivered'[e] = delivered[e] /\ winner'[e] = winner[e] BY <2>1 DEF PeerGiven
  <2>2. CASE \E k \in K :
              /\ k.co = e
              /\ delivered'[e] = [gen |-> wgen[e], res |-> k.res]
              /\ winner'[e] = IF IsSelect(e) THEN CaseWinner(k.case) ELSE winner[e]
    <3>1. PICK k \in K :
              /\ k.co = e
              /\ delivered'[e] = [gen |-> wgen[e], res |-> k.res]
              /\ winner'[e] = IF IsSelect(e) THEN CaseWinner(k.case) ELSE winner[e]
      BY <2>2
    <3>2. k \in P BY <1>1, <3>1
    <3>3. PICK n \in Nodes : NodePending(n) /\ n.co = e /\ k.case = n.case /\ k.res \in WaitResults
      BY <3>1, <3>2 DEF PeerClaims
    <3> QED BY <3>1, <3>3 DEF PeerGiven, IsSelect
  <2> HIDE DEF K
  <2> QED BY <1>5, <2>1, <2>2, ClaimFacts
<1>8. i = 0 => delivered'[c] = delivered[c] /\ winner'[c] = winner[c]
  <2>1. i = 0 => \A k \in K : k.co # c BY <1>1, <1>3
  <2> HIDE DEF K
  <2> QED BY <1>5, <2>1, ClaimFacts
<1>9. i # 0 => delivered'[c] = [gen |-> wgen[c], res |-> res] /\ winner'[c] = CaseWinner(i)
  <2>1. i # 0 => \E k \in K : k.co = c BY <1>2
  <2>2. \A k \in K : k.co = c => k.case = i /\ k.res = res BY <1>1, <1>3
  <2> HIDE DEF K
  <2> SUFFICES ASSUME i # 0
               PROVE  delivered'[c] = [gen |-> wgen[c], res |-> res] /\ winner'[c] = CaseWinner(i)
    OBVIOUS
  <2>3. PICK k \in K :
              /\ k.co = c
              /\ delivered'[c] = [gen |-> wgen[c], res |-> k.res]
              /\ winner'[c] = IF IsSelect(c) THEN CaseWinner(k.case) ELSE winner[c]
    BY <1>5, <2>1, ClaimFacts
  <2> QED BY <2>2, <2>3 DEF IsSelect
<1>10. ClaimedTypes
  <2> HIDE DEF K
  <2>1. ASSUME NEW e \in Coroutines
        PROVE  /\ delivered'[e] \in [gen : 0 .. MaxCalls, res : WaitResults \union {NoResult}]
               /\ winner'[e] \in Nat
    <3>1. /\ delivered[e] \in [gen : 0 .. MaxCalls, res : WaitResults \union {NoResult}]
          /\ winner[e] \in Nat /\ wgen[e] \in 0 .. MaxCalls
      BY DEF Types
    <3>2. CASE delivered'[e] = delivered[e] /\ winner'[e] = winner[e] BY <3>1, <3>2
    <3>3. CASE \E k \in K :
              /\ k.co = e
              /\ delivered'[e] = [gen |-> wgen[e], res |-> k.res]
              /\ winner'[e] = IF IsSelect(e) THEN CaseWinner(k.case) ELSE winner[e]
      BY <1>6, <3>1, <3>3 DEF CaseWinner
    <3> QED BY <1>5, <3>2, <3>3, ClaimFacts
  <2>2. /\ delivered' = [e \in Coroutines |-> delivered'[e]]
        /\ winner' = [e \in Coroutines |-> winner'[e]]
    BY <1>5, ClaimDomains
  <2>3. delivered' \in [Coroutines -> [gen : 0 .. MaxCalls, res : WaitResults \union {NoResult}]]
    BY <2>1, <2>2
  <2>4. winner' \in [Coroutines -> Nat] BY <2>1, <2>2
  <2> QED BY <2>3, <2>4 DEF ClaimedTypes
<1> QED BY <1>7, <1>8, <1>9, <1>10

(* A handler that commits its peers only.                                  *)
LEMMA PeersOnlyClaimed ==
  ASSUME Types, NEW c \in Coroutines, NEW P, PeerClaims(c, P), Claim(P)
  PROVE  /\ ClaimedTypes
         /\ \A e \in Coroutines \ {c} : PeerGiven(e)
         /\ delivered'[c] = delivered[c] /\ winner'[c] = winner[c]
<1> PICK res \in WaitResults : res = Result("Sent") BY ResultTypes DEF WaitKinds
<1> PICK i \in Nat : i = 0 OBVIOUS
<1>1. SelfClaim(c, i, res) \union P = P BY DEF SelfClaim
<1>2. Claim(SelfClaim(c, i, res) \union P) BY <1>1
<1> QED BY <1>2, PeersClaimed

LEMMA PayloadType ==
  ASSUME Types, NEW e \in Coroutines, Local(e),
         wgen[e] # 0 \/ pc[e] \in {"call", "checked"}
  PROVE  Payload(e) \in Payloads
<1>1. wgen[e] \in Nat /\ calls[e] \in 0 .. MaxCalls /\ MaxCalls \in Nat
  BY WaitAssumption DEF Types
<1>2. calls[e] # 0 BY <1>1 DEF Local, OpFits, ArmedFits
<1>3. calls[e] \in 1 .. MaxCalls BY <1>1, <1>2
<1> QED BY <1>3 DEF Payload, Payloads

(* chan0 differs from chan in the queues only.                             *)
SameRings(chan0) ==
  /\ DOMAIN chan0 = Channels
  /\ \A x \in Channels :
       /\ RingOK(chan0[x], Capacity[x])
       /\ chan0[x].closed = chan[x].closed /\ chan0[x].len = chan[x].len
       /\ chan0[x].head = chan[x].head /\ chan0[x].tail = chan[x].tail
       /\ chan0[x].ring = chan[x].ring

LEMMA SameRingsChan == ASSUME ChanTypes PROVE SameRings(chan)
  BY DEF ChanTypes, SameRings

LEMMA Chan0Update ==
  ASSUME NEW chan0, SameRings(chan0), NEW ch \in Channels, NEW q, RingOK(q, Capacity[ch]),
         chan' = [chan0 EXCEPT ![ch] = q]
  PROVE  ChanTypes'
  BY DEF ChanTypes, SameRings

(* What a lock region that commits for c does: i = 0 for a plain request,  *)
(* or the case of c's select.                                              *)
Commits(c, i) ==
  /\ ClaimedTypes /\ ChanTypes'
  /\ wakes' \in [Coroutines -> Seq(Nodes)]
  /\ out' \in [Coroutines -> CallResults]
  /\ pc' \in [Coroutines -> Places]
  /\ \A e \in Coroutines \ {c} :
       PeerGiven(e) /\ pc'[e] = pc[e] /\ out'[e] = out[e] /\ wakes'[e] = wakes[e]
  /\ i = 0 =>
       /\ delivered'[c] = delivered[c] /\ winner'[c] = winner[c]
       /\ (pc'[c] = "idle" /\ wakes'[c] = <<>>) \/ (pc'[c] = "wake" /\ wakes'[c] # <<>>)
  /\ i # 0 =>
       /\ delivered'[c].gen = wgen[c] /\ delivered'[c].res \in WaitResults
       /\ winner'[c] = CaseWinner(i)
       /\ pc'[c] = "arm" \/ (pc'[c] = "cleanup" /\ wakes'[c] = wakes[c])

(* The caller's side of a commit: its own claim, result and wake-ups.      *)
LEMMA CommitOwn ==
  ASSUME Types, NEW c \in Coroutines, NEW P, PeerClaims(c, P),
         NEW i \in Nat, NEW res \in WaitResults, i # 0 => req[c].op = "select",
         NEW N \in Seq(Nodes), ChanTypes',
         Claim(SelfClaim(c, i, res) \union P), SelfReturn(c, i, res) \/ (i # 0 /\ out' = out),
         AfterCommit(c, i, N)
  PROVE  Commits(c, i)
<1>1. /\ ClaimedTypes
      /\ \A e \in Coroutines \ {c} : PeerGiven(e)
      /\ i = 0 => delivered'[c] = delivered[c] /\ winner'[c] = winner[c]
      /\ i # 0 => delivered'[c] = [gen |-> wgen[c], res |-> res] /\ winner'[c] = CaseWinner(i)
  BY PeersClaimed
<1>2. wakes' = [wakes EXCEPT ![c] = N] BY DEF AfterCommit
<1>3. out' = out \/ out' = [out EXCEPT ![c] = res]
  <2>1. CASE i = 0 BY <2>1 DEF SelfReturn
  <2>2. CASE i # 0 BY <2>2 DEF SelfReturn
  <2> QED BY <2>1, <2>2
<1>4. \/ i # 0 /\ pc' = [pc EXCEPT ![c] = "arm"]
      \/ i = 0 /\ N = <<>> /\ pc' = [pc EXCEPT ![c] = "idle"]
      \/ i = 0 /\ N # <<>> /\ pc' = [pc EXCEPT ![c] = "wake"]
  <2>1. CASE i # 0 BY <2>1 DEF AfterCommit
  <2>2. CASE i = 0 /\ N = <<>> BY <2>2 DEF AfterCommit
  <2>3. CASE i = 0 /\ N # <<>> BY <2>3 DEF AfterCommit
  <2> QED BY <2>1, <2>2, <2>3
<1>5. wakes' \in [Coroutines -> Seq(Nodes)] /\ wakes'[c] = N BY <1>2 DEF Types
<1>6. out' \in [Coroutines -> CallResults]
  <2>1. res \in CallResults BY ResultTypes
  <2> QED BY <1>3, <2>1 DEF Types
<1>7. pc' \in [Coroutines -> Places] BY <1>4 DEF Types, Places, SelectPlaces, Early
<1>8. \A e \in Coroutines \ {c} : pc'[e] = pc[e] /\ out'[e] = out[e] /\ wakes'[e] = wakes[e]
  BY <1>2, <1>3, <1>4 DEF Types
<1>9. i = 0 => (pc'[c] = "idle" /\ wakes'[c] = <<>>) \/ (pc'[c] = "wake" /\ wakes'[c] # <<>>)
  <2>1. pc \in [Coroutines -> Places] BY DEF Types
  <2>2. CASE N = <<>> BY <1>4, <1>5, <2>1, <2>2
  <2>3. CASE N # <<>> BY <1>4, <1>5, <2>1, <2>3
  <2> QED BY <2>2, <2>3
<1>10. i # 0 => pc'[c] = "arm" BY <1>4 DEF Types
<1> QED BY <1>1, <1>5, <1>6, <1>7, <1>8, <1>9, <1>10 DEF Commits

LEMMA PendingHead ==
  ASSUME NEW c, NEW q \in Seq(Nodes), Pending(q, c) # <<>>
  PROVE  LET h == Head(Pending(q, c)) IN
           h \in Nodes /\ NodePending(h) /\ h.co # c /\ h \in Range(q)
<1>1. Pending(q, c) \in Seq(Nodes) BY PendingFacts
<1>2. Head(Pending(q, c)) \in Nodes /\ Head(Pending(q, c)) \in Range(Pending(q, c))
  BY <1>1, HeadFacts
<1> QED BY <1>2, PendingFacts

LEMMA OnePeer ==
  ASSUME NEW c, NEW h \in Nodes, NodePending(h), h.co # c, NEW r \in WaitResults
  PROVE  PeerClaims(c, {PeerClaim(h, r)})
  BY DEF PeerClaims, PeerClaim

LEMMA QueueTypes ==
  ASSUME ChanTypes, NEW ch \in Channels
  PROVE  chan[ch].sendQ \in Seq(Nodes) /\ chan[ch].recvQ \in Seq(Nodes)
  BY DEF ChanTypes, RingOK, ChannelType

LEMMA CommitSendStep ==
  ASSUME Types, ChanTypes, NEW c \in Coroutines, Payload(c) \in Payloads, NEW ch \in Channels,
         NEW i \in Nat, i # 0 => req[c].op = "select",
         NEW chan0, SameRings(chan0), CommitSend(c, ch, i, chan0)
  PROVE  Commits(c, i)
<1> DEFINE rs == Receivers(c, ch)
           v  == Payload(c)
           q  == chan0[ch]
           P  == IF rs # <<>> THEN {PeerClaim(Head(rs), Received(v))} ELSE {}
           N  == IF rs # <<>> THEN <<Head(rs)>> ELSE <<>>
           q2 == IF rs # <<>> THEN [q EXCEPT !.recvQ = Without(q.recvQ, {Head(rs)})]
                 ELSE CommitSlot(ch, q, v)
<1>1. /\ SendReady(c, ch) /\ chan' = [chan0 EXCEPT ![ch] = q2]
      /\ Claim(SelfClaim(c, i, Result("Sent")) \union P)
      /\ SelfReturn(c, i, Result("Sent"))
      /\ AfterCommit(c, i, N)
  BY DEF CommitSend
<1>2. rs # <<>> => /\ Head(rs) \in Nodes /\ NodePending(Head(rs)) /\ Head(rs).co # c
  BY QueueTypes, PendingHead DEF Receivers
<1>3. Result("Sent") \in WaitResults /\ Received(v) \in WaitResults
  BY ResultTypes DEF WaitKinds
<1>4. RingOK(q, Capacity[ch]) /\ q.len = chan[ch].len BY DEF SameRings
<1>5. PeerClaims(c, P)
  <2>1. CASE rs # <<>> BY <1>2, <1>3, <2>1, OnePeer
  <2>2. CASE rs = <<>> BY <2>2 DEF PeerClaims
  <2> QED BY <2>1, <2>2
<1>6. N \in Seq(Nodes)
  <2>1. CASE rs # <<>> BY <1>2, <2>1
  <2>2. CASE rs = <<>>
    <3>1. N = <<>> BY <2>2
    <3> QED BY <3>1
  <2> QED BY <2>1, <2>2
<1>7. RingOK(q2, Capacity[ch])
  <2>1. CASE rs # <<>>
    <3> DEFINE s == Without(q.recvQ, {Head(rs)})
    <3>1. q.recvQ \in Seq(Nodes) BY <1>4 DEF RingOK, ChannelType
    <3>2. s \in Seq(Nodes) BY <3>1, WithoutFacts
    <3>3. q2 = [q EXCEPT !.recvQ = s] BY <2>1
    <3> HIDE DEF q2, s, q
    <3> QED BY <1>4, <3>2, <3>3, QueueSwap
  <2>2. CASE rs = <<>>
    <3>1. q2 = CommitSlot(ch, q, v) BY <2>2
    <3>2. q.len < Capacity[ch] BY <1>1, <1>4, <2>2 DEF SendReady, SlotAvailable
    <3> HIDE DEF q2, q, rs, v
    <3>3. v \in Payloads BY DEF v
    <3> QED BY <1>4, <3>1, <3>2, <3>3, CommitRing
  <2> QED BY <2>1, <2>2
<1> HIDE DEF rs, v, q, P, N, q2
<1>8. ChanTypes' BY <1>1, <1>7, Chan0Update
<1> QED BY <1>1, <1>3, <1>5, <1>6, <1>8, CommitOwn

LEMMA CommitRecvStep ==
  ASSUME LocalInv, NEW c \in Coroutines, NEW ch \in Channels,
         NEW i \in Nat, i # 0 => req[c].op = "select",
         NEW chan0, SameRings(chan0), CommitRecv(c, ch, i, chan0)
  PROVE  Commits(c, i)
<1> DEFINE ss == Senders(c, ch)
           B  == Buffered(ch)
           u  == Payload(Head(ss).co)
           v  == IF B THEN PeekSlot(ch) ELSE u
           q0 == chan0[ch]
           q  == IF B THEN TakeSlot(ch, q0) ELSE q0
           r  == IF B /\ ss # <<>> THEN CommitSlot(ch, q, u) ELSE q
           P  == IF ss # <<>> THEN {PeerClaim(Head(ss), Result("Sent"))} ELSE {}
           N  == IF ss # <<>> THEN <<Head(ss)>> ELSE <<>>
           q2 == IF ss # <<>> THEN [r EXCEPT !.sendQ = Without(r.sendQ, {Head(ss)})] ELSE r
<1>0. Types /\ ChanTypes BY DEF LocalInv
<1>1. /\ RecvReady(c, ch) /\ chan' = [chan0 EXCEPT ![ch] = q2]
      /\ Claim(SelfClaim(c, i, Received(v)) \union P)
      /\ SelfReturn(c, i, Received(v))
      /\ AfterCommit(c, i, N)
  BY DEF CommitRecv
<1>2. ss # <<>> => /\ Head(ss) \in Nodes /\ NodePending(Head(ss)) /\ Head(ss).co # c
  <2> SUFFICES ASSUME ss # <<>> 
               PROVE  Head(ss) \in Nodes /\ NodePending(Head(ss)) /\ Head(ss).co # c
    OBVIOUS
  <2>1. ss = Pending(chan[ch].sendQ, c) BY DEF Senders
  <2> HIDE DEF ss
  <2> QED BY <1>0, <2>1, QueueTypes, PendingHead
<1>3. ss # <<>> => u \in Payloads
  <2> SUFFICES ASSUME ss # <<>> PROVE u \in Payloads OBVIOUS
  <2>1. Head(ss).co \in Coroutines BY <1>2 DEF Nodes
  <2>2. wgen[Head(ss).co] # 0 BY <1>2 DEF NodePending, CanClaim
  <2>3. Local(Head(ss).co) BY <2>1 DEF LocalInv
  <2> HIDE DEF ss
  <2> QED BY <1>0, <2>1, <2>2, <2>3, PayloadType
<1>4. /\ RingOK(q0, Capacity[ch]) /\ q0.len = chan[ch].len /\ q0.head = chan[ch].head
      /\ q0.ring = chan[ch].ring
  BY DEF SameRings
<1>5. v \in Payloads
  <2>1. CASE B
    <3>1. v = q0.ring[q0.head].val /\ q0.ring[q0.head].state = "Occupied" /\ q0.len > 0
      BY <1>4, <2>1 DEF PeekSlot, Buffered
    <3>2. PICK cap \in Nat : cap = Capacity[ch] BY WaitAssumption
    <3> HIDE DEF q0, v, B
    <3>3. q0 \in ChannelType(cap) /\ (cap > 0 => q0.head < cap) BY <1>4, <3>2 DEF RingOK
    <3>4. q0.len \in 0 .. cap /\ q0.head \in Nat /\ q0.ring \in [0 .. cap - 1 -> Slots]
      BY <3>3 DEF ChannelType
    <3>5. q0.ring[q0.head] \in Slots BY <3>1, <3>2, <3>3, <3>4
    <3> QED BY <3>1, <3>5, SlotTypes
  <2>2. CASE ~B
    <3>1. ss # <<>> BY <1>1, <2>2 DEF RecvReady
    <3> QED BY <1>3, <2>2, <3>1
  <2> QED BY <2>1, <2>2
<1>6. Received(v) \in WaitResults /\ Result("Sent") \in WaitResults
  <2> HIDE DEF v
  <2> QED BY <1>5, ResultTypes DEF WaitKinds
<1>7. RingOK(q, Capacity[ch]) /\ (B => q.len < Capacity[ch])
  <2>1. CASE B
    <3>1. q0.len > 0 BY <1>4, <2>1 DEF Buffered
    <3>2. q = TakeSlot(ch, q0) BY <2>1
    <3> HIDE DEF q, q0, B
    <3> QED BY <1>4, <3>1, <3>2, TakeRing
  <2>2. CASE ~B
    <3>1. q = q0 BY <2>2
    <3> QED BY <1>4, <2>2, <3>1
  <2> QED BY <2>1, <2>2
<1>8. RingOK(r, Capacity[ch])
  <2>1. CASE B /\ ss # <<>>
    <3>1. r = CommitSlot(ch, q, u) /\ u \in Payloads BY <1>3, <2>1
    <3>2. q.len < Capacity[ch] BY <1>7, <2>1
    <3> HIDE DEF r, q, u
    <3> QED BY <1>7, <3>1, <3>2, CommitRing
  <2>2. CASE ~(B /\ ss # <<>>)
    <3>1. r = q BY <2>2
    <3> QED BY <1>7, <3>1
  <2> QED BY <2>1, <2>2
<1>9. RingOK(q2, Capacity[ch])
  <2>1. CASE ss # <<>>
    <3> DEFINE s == Without(r.sendQ, {Head(ss)})
    <3>1. r.sendQ \in Seq(Nodes)
      <4> HIDE DEF r
      <4> QED BY <1>8 DEF RingOK, ChannelType
    <3>2. s \in Seq(Nodes)
      <4> HIDE DEF r, ss
      <4> QED BY <3>1, WithoutFacts
    <3>3. q2 = [r EXCEPT !.sendQ = s] BY <2>1
    <3> HIDE DEF q2, s, r
    <3> QED BY <1>8, <3>2, <3>3, QueueSwap
  <2>2. CASE ss = <<>>
    <3>1. q2 = r BY <2>2
    <3> QED BY <1>8, <3>1
  <2> QED BY <2>1, <2>2
<1>10. PeerClaims(c, P)
  <2>1. CASE ss # <<>>
    <3>1. P = {PeerClaim(Head(ss), Result("Sent"))} BY <2>1
    <3> HIDE DEF P, ss
    <3> QED BY <1>2, <1>6, <2>1, <3>1, OnePeer
  <2>2. CASE ss = <<>>
    <3>1. P = {} BY <2>2
    <3> QED BY <3>1 DEF PeerClaims
  <2> QED BY <2>1, <2>2
<1>11. N \in Seq(Nodes)
  <2>1. CASE ss # <<>> BY <1>2, <2>1
  <2>2. CASE ss = <<>>
    <3>1. N = <<>> BY <2>2
    <3> QED BY <3>1
  <2> QED BY <2>1, <2>2
<1> HIDE DEF ss, B, u, v, q0, q, r, P, N, q2
<1>12. ChanTypes' BY <1>1, <1>9, Chan0Update
<1> QED BY <1>0, <1>1, <1>6, <1>10, <1>11, <1>12, CommitOwn

LEMMA SendClosedStep ==
  ASSUME Types, ChanTypes, NEW c \in Coroutines, NEW ch \in Channels,
         NEW i \in Nat, i # 0 => req[c].op = "select", SendClosed(c, ch, i),
         pc' = [pc EXCEPT ![c] = IF i = 0 THEN "idle" ELSE "cleanup"], UNCHANGED wakes,
         i = 0 => wakes[c] = <<>>
  PROVE  Commits(c, i)
<1>1. /\ Claim(SelfClaim(c, i, Result("SendClosed")) \union {})
      /\ SelfReturn(c, i, Result("SendClosed"))
      /\ UNCHANGED chan
  BY DEF SendClosed
<1>2. Result("SendClosed") \in WaitResults BY ResultTypes DEF WaitKinds
<1>3. PeerClaims(c, {}) BY DEF PeerClaims
<1>4. /\ ClaimedTypes
      /\ \A e \in Coroutines \ {c} : PeerGiven(e)
      /\ i = 0 => delivered'[c] = delivered[c] /\ winner'[c] = winner[c]
      /\ i # 0 => /\ delivered'[c] = [gen |-> wgen[c], res |-> Result("SendClosed")]
                  /\ winner'[c] = CaseWinner(i)
  BY <1>1, <1>2, <1>3, PeersClaimed
<1>5. out' = out \/ out' = [out EXCEPT ![c] = Result("SendClosed")] BY <1>1 DEF SelfReturn
<1>6. out' \in [Coroutines -> CallResults]
  <2>1. Result("SendClosed") \in CallResults BY <1>2, ResultTypes
  <2> QED BY <1>5, <2>1 DEF Types
<1>7. pc' \in [Coroutines -> Places] BY DEF Types, Places, SelectPlaces, Early
<1>8. ChanTypes' BY <1>1 DEF ChanTypes
<1>9. \A e \in Coroutines \ {c} : pc'[e] = pc[e] /\ out'[e] = out[e] BY <1>5 DEF Types
<1>10. (i = 0 => pc'[c] = "idle") /\ (i # 0 => pc'[c] = "cleanup") BY DEF Types
<1>11. wakes' \in [Coroutines -> Seq(Nodes)] /\ wakes' = wakes BY DEF Types
<1> QED BY <1>2, <1>4, <1>6, <1>7, <1>8, <1>9, <1>10, <1>11 DEF Commits

LEMMA RecvClosedStep ==
  ASSUME Types, ChanTypes, NEW c \in Coroutines, NEW ch \in Channels,
         NEW i \in Nat, i # 0 => req[c].op = "select",
         NEW chan0, SameRings(chan0), RecvClosed(c, ch, i, chan0)
  PROVE  Commits(c, i)
<1>1. /\ Claim(SelfClaim(c, i, Result("RecvClosed")) \union {})
      /\ SelfReturn(c, i, Result("RecvClosed"))
      /\ AfterCommit(c, i, <<>>)
      /\ chan' = chan0
  BY DEF RecvClosed
<1>2. Result("RecvClosed") \in WaitResults BY ResultTypes DEF WaitKinds
<1>3. PeerClaims(c, {}) BY DEF PeerClaims
<1>4. <<>> \in Seq(Nodes) OBVIOUS
<1>5. ChanTypes' BY <1>1 DEF ChanTypes, SameRings
<1> QED BY <1>1, <1>2, <1>3, <1>4, <1>5, CommitOwn

LEMMA PlainCommit ==
  ASSUME Types, ChanTypes, NEW c \in Coroutines, Local(c), Commits(c, 0),
         pc[c] \in {"call", "checked"}, req[c].op # "select",
         UNCHANGED <<calls, req, wgen, armed, life, readied, phase, scan, waitQ, cancelled, cancelQ>>
  PROVE  Step(c)
<1>1. /\ ClaimedTypes /\ ChanTypes'
      /\ wakes' \in [Coroutines -> Seq(Nodes)]
      /\ out' \in [Coroutines -> CallResults]
      /\ pc' \in [Coroutines -> Places]
      /\ \A e \in Coroutines \ {c} :
           PeerGiven(e) /\ pc'[e] = pc[e] /\ out'[e] = out[e] /\ wakes'[e] = wakes[e]
      /\ delivered'[c] = delivered[c] /\ winner'[c] = winner[c]
      /\ (pc'[c] = "idle" /\ wakes'[c] = <<>>) \/ (pc'[c] = "wake" /\ wakes'[c] # <<>>)
  BY DEF Commits
<1>2. Types'
  <2>1. cancelled' \in BOOLEAN BY DEF Types
  <2> QED BY <1>1, <2>1 DEF Types, ClaimedTypes
<1>3. ASSUME NEW e \in Coroutines \ {c} PROVE Bystander(e)
  <2>1. Steady(e) BY <1>1 DEF Steady
  <2> QED BY <1>1, <2>1, PeerBystander
<1>4. Local(c)'
  BY <1>1 DEF Local, LifeFits, OpFits, ScanFits, ArmedFits, WakesFits, ClaimFits,
     SelectPlaces, Early, Trying, InWait, CancelOps
<1> QED BY <1>1, <1>2, <1>3, <1>4 DEF Step

LEMMA SelectCommit ==
  ASSUME Types, ChanTypes, NEW c \in Coroutines, Local(c),
         pc[c] \in {"try", "retry", "register"}, NEW i \in Cases(c), Commits(c, i),
         scan' = scan \/ scan' = [scan EXCEPT ![c] = NoScan],
         waitQ' \in [Coroutines \union {Never} -> Seq(Nodes)],
         UNCHANGED <<calls, req, wgen, armed, life, readied, phase, cancelled, cancelQ>>
  PROVE  Step(c)
<1>0. req[c].op = "select" /\ wakes[c] = <<>> /\ life[c] = "Running" /\ req[c] \in Requests
      /\ wgen[c] <= calls[c] /\ readied[c] <= wgen[c]
      /\ (armed[c] # <<>> => armed[c] = RoundOf(c, req[c].cases, wgen[c]) /\ readied[c] < wgen[c])
  BY DEF Local, OpFits, WakesFits, LifeFits, ArmedFits, SelectPlaces, Trying
<1>1. i \in Nat /\ i # 0 /\ req[c].cases # <<>> BY <1>0, SelectFacts
<1>2. /\ ClaimedTypes /\ ChanTypes'
      /\ wakes' \in [Coroutines -> Seq(Nodes)]
      /\ out' \in [Coroutines -> CallResults]
      /\ pc' \in [Coroutines -> Places]
      /\ \A e \in Coroutines \ {c} :
           PeerGiven(e) /\ pc'[e] = pc[e] /\ out'[e] = out[e] /\ wakes'[e] = wakes[e]
      /\ delivered'[c].gen = wgen[c] /\ delivered'[c].res \in WaitResults
      /\ winner'[c] = CaseWinner(i)
      /\ pc'[c] = "arm" \/ (pc'[c] = "cleanup" /\ wakes'[c] = wakes[c])
  BY <1>1 DEF Commits
<1>3. scan' \in [Coroutines -> [todo : SUBSET Sources, ready : SUBSET Nat]]
      /\ \A e \in Coroutines \ {c} : scan'[e] = scan[e]
  <2>1. NoScan \in [todo : SUBSET Sources, ready : SUBSET Nat] BY DEF NoScan
  <2>2. scan \in [Coroutines -> [todo : SUBSET Sources, ready : SUBSET Nat]] BY DEF Types
  <2>3. CASE scan' = scan BY <2>2, <2>3
  <2>4. CASE scan' = [scan EXCEPT ![c] = NoScan] BY <2>1, <2>2, <2>4
  <2> QED BY <2>3, <2>4
<1>4. Types'
  <2>1. cancelled' \in BOOLEAN BY DEF Types
  <2> QED BY <1>2, <1>3, <2>1 DEF Types, ClaimedTypes
<1>5. ASSUME NEW e \in Coroutines \ {c} PROVE Bystander(e)
  <2>1. Steady(e) BY <1>2, <1>3 DEF Steady
  <2> QED BY <1>2, <2>1, PeerBystander
<1>6. winner'[c] # Unset BY <1>1, <1>2 DEF CaseWinner, Unset
<1>7. delivered'[c].res # NoResult BY <1>2, ResultNotNone
<1>8. armed[c] # <<>> => \E n \in Range(armed[c]) : winner'[c] = CaseWinner(n.case)
  <2> SUFFICES ASSUME armed[c] # <<>>
               PROVE  \E n \in Range(armed[c]) : winner'[c] = CaseWinner(n.case)
    OBVIOUS
  <2>1. armed[c] = [j \in DOMAIN req[c].cases |-> [co |-> c, gen |-> wgen[c], case |-> j]]
    BY <1>0, <1>1 DEF RoundOf
  <2>2. i \in DOMAIN req[c].cases BY DEF Cases
  <2>3. armed[c][i].case = i /\ armed[c][i] \in Range(armed[c]) BY <2>1, <2>2 DEF Range
  <2> QED BY <1>2, <2>3
<1>9. LifeFits(c)' BY <1>0, <1>2 DEF LifeFits, Early, Trying, InWait
<1>10. OpFits(c)'
  BY <1>0, <1>2 DEF OpFits, Early, Trying, InWait, SelectPlaces, CancelOps
<1>11. ScanFits(c)' BY <1>2 DEF ScanFits
<1>12. ArmedFits(c)' BY <1>0, <1>2, <1>6 DEF ArmedFits, Early, Trying
<1>13. WakesFits(c)' BY <1>0, <1>2, <1>6 DEF WakesFits
<1>14. ClaimFits(c)' BY <1>0, <1>2, <1>6, <1>7, <1>8 DEF ClaimFits, Trying, SelectPlaces, InWait
<1> QED BY <1>2, <1>4, <1>5, <1>9, <1>10, <1>11, <1>12, <1>13, <1>14 DEF Step, Local

LEMMA PlainChannel ==
  ASSUME Types, NEW c \in Coroutines, Local(c), pc[c] \in {"call", "checked"},
         req[c].op \in SendOps \union RecvOps \union {"close"}
  PROVE  Ch(c) \in Channels /\ Payload(c) \in Payloads /\ req[c].op # "select" /\ wakes[c] = <<>>
<1>1. req[c] \in Requests /\ wakes[c] = <<>> BY DEF Local, OpFits, WakesFits
<1>2. Ch(c) \in Channels BY <1>1, RequestFacts DEF Ch
<1>3. Payload(c) \in Payloads BY PayloadType
<1> QED BY <1>1, <1>2, <1>3 DEF SendOps, RecvOps

LEMMA SendNowStep ==
  ASSUME Types, ChanTypes, NEW c \in Coroutines, Local(c), SendNow(c)
  PROVE  Step(c)
<1>0. /\ pc[c] = "call" /\ req[c].op \in SendOps /\ CommitSend(c, Ch(c), 0, chan)
      /\ UNCHANGED <<calls, req, wgen, armed, life, readied, phase, scan, waitQ, cancelled, cancelQ>>
  BY DEF SendNow, Serving, At, SendOps, restOfSend, callVars, roundVars, lifeVars, cancelVars
<1>1. Ch(c) \in Channels /\ Payload(c) \in Payloads /\ req[c].op # "select"
  BY <1>0, PlainChannel
<1>2. 0 \in Nat /\ SameRings(chan) BY SameRingsChan
<1>3. Commits(c, 0) BY <1>0, <1>1, <1>2, CommitSendStep
<1> QED BY <1>0, <1>1, <1>3, PlainCommit

LEMMA SendOnClosedStep ==
  ASSUME Types, ChanTypes, NEW c \in Coroutines, Local(c), SendOnClosed(c)
  PROVE  Step(c)
<1>0. /\ pc[c] = "call" /\ req[c].op \in SendOps /\ SendClosed(c, Ch(c), 0)
      /\ pc' = [pc EXCEPT ![c] = "idle"] /\ UNCHANGED wakes
      /\ UNCHANGED <<calls, req, wgen, armed, life, readied, phase, scan, waitQ, cancelled, cancelQ>>
  BY DEF SendOnClosed, Serving, At, Goto, SendOps, restOfSend, callVars, roundVars, lifeVars, cancelVars
<1>1. Ch(c) \in Channels /\ req[c].op # "select" /\ wakes[c] = <<>> BY <1>0, PlainChannel
<1>2. 0 \in Nat OBVIOUS
<1>3. Commits(c, 0) BY <1>0, <1>1, <1>2, SendClosedStep
<1> QED BY <1>0, <1>1, <1>3, PlainCommit

LEMMA RecvNowStep ==
  ASSUME LocalInv, NEW c \in Coroutines, RecvNow(c)
  PROVE  Step(c)
<1>0. /\ pc[c] \in {"call", "checked"} /\ req[c].op \in RecvOps /\ CommitRecv(c, Ch(c), 0, chan)
      /\ UNCHANGED <<calls, req, wgen, armed, life, readied, phase, scan, waitQ, cancelled, cancelQ>>
  BY DEF RecvNow, Receiving, RecvRequests, Serving, At, RecvOps, restOfSend, callVars, roundVars,
     lifeVars, cancelVars
<1>1. Types /\ ChanTypes /\ Local(c) BY DEF LocalInv
<1>2. Ch(c) \in Channels /\ req[c].op # "select" BY <1>0, <1>1, PlainChannel
<1>3. 0 \in Nat /\ SameRings(chan) BY <1>1, SameRingsChan
<1>4. Commits(c, 0) BY <1>0, <1>2, <1>3, CommitRecvStep
<1> QED BY <1>0, <1>1, <1>2, <1>4, PlainCommit

LEMMA RecvOnClosedStep ==
  ASSUME Types, ChanTypes, NEW c \in Coroutines, Local(c), RecvOnClosed(c)
  PROVE  Step(c)
<1>0. /\ pc[c] \in {"call", "checked"} /\ req[c].op \in RecvOps /\ RecvClosed(c, Ch(c), 0, chan)
      /\ UNCHANGED <<calls, req, wgen, armed, life, readied, phase, scan, waitQ, cancelled, cancelQ>>
  BY DEF RecvOnClosed, Receiving, RecvRequests, Serving, At, RecvOps, restOfSend, callVars, roundVars,
     lifeVars, cancelVars
<1>2. Ch(c) \in Channels /\ req[c].op # "select" BY <1>0, PlainChannel
<1>3. 0 \in Nat /\ SameRings(chan) BY SameRingsChan
<1>4. Commits(c, 0) BY <1>0, <1>2, <1>3, RecvClosedStep
<1> QED BY <1>0, <1>2, <1>4, PlainCommit

LEMMA CommitCaseStep ==
  ASSUME LocalInv, NEW c \in Coroutines, pc[c] \in {"try", "retry", "register"},
         NEW i \in Cases(c), NEW chan0, SameRings(chan0), CommitCase(c, i, chan0)
  PROVE  Commits(c, i)
<1>0. Types /\ ChanTypes /\ Local(c) BY DEF LocalInv
<1>1. req[c].op = "select" /\ wakes[c] = <<>>
  BY <1>0 DEF Local, OpFits, WakesFits, SelectPlaces, Trying
<1>2. i \in Nat /\ i # 0 /\ Case(c, i) \in SelectCases BY <1>0, <1>1, SelectFacts
<1> DEFINE s == Case(c, i).src
<1>3. CASE Case(c, i).dir = "send"
  <2>1. s \in Channels BY <1>2, <1>3 DEF SelectCases
  <2>2. Payload(c) \in Payloads
    <3>1. wgen[c] # 0
      <4>1. wgen[c] \in Nat /\ readied[c] \in Nat BY <1>0 DEF Types
      <4>2. readied[c] < wgen[c] BY <1>0 DEF Local, ArmedFits, Trying
      <4> QED BY <4>1, <4>2
    <3> QED BY <1>0, <3>1, PayloadType
  <2>3. \/ CommitSend(c, s, i, chan0)
        \/ SendClosed(c, s, i) /\ pc' = [pc EXCEPT ![c] = "cleanup"] /\ UNCHANGED wakes
    BY <1>3 DEF CommitCase, Goto
  <2>4. CASE CommitSend(c, s, i, chan0)
    BY <1>0, <1>1, <1>2, <2>1, <2>2, <2>4, CommitSendStep
  <2>5. CASE SendClosed(c, s, i) /\ pc' = [pc EXCEPT ![c] = "cleanup"] /\ UNCHANGED wakes
    BY <1>0, <1>1, <1>2, <2>1, <2>5, SendClosedStep
  <2> QED BY <2>3, <2>4, <2>5
<1>4. CASE Case(c, i).dir = "recv"
  <2>1. s \in Channels BY <1>2, <1>4 DEF SelectCases
  <2>2. CommitRecv(c, s, i, chan0) \/ RecvClosed(c, s, i, chan0)
    BY <1>4 DEF CommitCase
  <2>3. CASE CommitRecv(c, s, i, chan0) BY <1>1, <1>2, <2>1, <2>3, CommitRecvStep
  <2>4. CASE RecvClosed(c, s, i, chan0) BY <1>0, <1>1, <1>2, <2>1, <2>4, RecvClosedStep
  <2> QED BY <2>2, <2>3, <2>4
<1>5. CASE Case(c, i).dir = "wait"
  <2>1. /\ Claim(SelfClaim(c, i, Result("Join")) \union {})
        /\ AfterCommit(c, i, <<>>) /\ chan' = chan0 /\ UNCHANGED out
    BY <1>5 DEF CommitCase
  <2>2. Result("Join") \in WaitResults BY ResultTypes DEF WaitKinds
  <2>3. PeerClaims(c, {}) BY DEF PeerClaims
  <2>4. <<>> \in Seq(Nodes) OBVIOUS
  <2>5. ChanTypes' BY <2>1 DEF ChanTypes, SameRings
  <2> QED BY <1>0, <1>1, <1>2, <2>1, <2>2, <2>3, <2>4, <2>5, CommitOwn
<1> QED BY <1>2, <1>3, <1>4, <1>5 DEF SelectCases

LEMMA SelectInlineStep ==
  ASSUME LocalInv, NEW c \in Coroutines, SelectInline(c)
  PROVE  Step(c)
<1>0. Types /\ ChanTypes /\ Local(c) BY DEF LocalInv
<1>1. PICK i \in Cases(c) : CommitCase(c, i, chan) BY DEF SelectInline
<1>2. /\ pc[c] = "try" /\ UNCHANGED scan
      /\ UNCHANGED <<calls, req, wgen, armed, life, readied, phase, waitQ, cancelled, cancelQ>>
  BY DEF SelectInline, At, selectRest, callVars, roundVars, lifeVars, cancelVars
<1>3. SameRings(chan) BY <1>0, SameRingsChan
<1>4. Commits(c, i) BY <1>1, <1>2, <1>3, CommitCaseStep
<1>5. waitQ' \in [Coroutines \union {Never} -> Seq(Nodes)] BY <1>0, <1>2 DEF Types
<1> QED BY <1>0, <1>2, <1>4, <1>5, SelectCommit

LEMMA RetryStep ==
  ASSUME LocalInv, NEW c \in Coroutines, Retry(c)
  PROVE  Step(c)
<1>0. Types /\ ChanTypes /\ Local(c) BY DEF LocalInv
<1>1. /\ pc[c] = "retry"
      /\ UNCHANGED <<calls, req, wgen, armed, life, readied, phase, waitQ, cancelled, cancelQ>>
  BY DEF Retry, At, selectRest, callVars, roundVars, lifeVars, cancelVars
<1>2. PICK i \in scan[c].ready :
       \/ /\ CommitCase(c, i, chan)
          /\ scan' = [scan EXCEPT ![c] = NoScan]
       \/ /\ scan' = [scan EXCEPT ![c] = [todo |-> scan[c].todo, ready |-> scan[c].ready \ {i}]]
          /\ UNCHANGED <<delivered, winner, out, wakes, chan, pc>>
  <2>1. PICK i \in scan[c].ready :
       \/ /\ CommitCase(c, i, chan)
          /\ scan' = [scan EXCEPT ![c] = NoScan]
       \/ /\ scan' = [scan EXCEPT ![c].ready = @ \ {i}]
          /\ UNCHANGED <<delivered, winner, out, wakes, chan, pc>>
    BY DEF Retry, claimVars
  <2>2. scan[c] \in [todo : SUBSET Sources, ready : SUBSET Nat] BY <1>0 DEF Types
  <2>3. [scan[c] EXCEPT !.ready = @ \ {i}] = [todo |-> scan[c].todo, ready |-> scan[c].ready \ {i}]
    BY <2>2
  <2> QED BY <2>1, <2>3
<1>3. scan[c].todo \subseteq {Case(c, j).src : j \in Cases(c)} /\ scan[c].ready \subseteq Cases(c)
  BY <1>0, <1>1 DEF Local, ScanFits
<1>4. CASE CommitCase(c, i, chan) /\ scan' = [scan EXCEPT ![c] = NoScan]
  <2>1. SameRings(chan) BY <1>0, SameRingsChan
  <2>2. i \in Cases(c) BY <1>3
  <2>3. Commits(c, i) BY <1>1, <1>4, <2>1, <2>2, CommitCaseStep
  <2>4. waitQ' \in [Coroutines \union {Never} -> Seq(Nodes)] BY <1>0, <1>1 DEF Types
  <2> QED BY <1>0, <1>1, <1>4, <2>2, <2>3, <2>4, SelectCommit
<1>5. CASE /\ scan' = [scan EXCEPT ![c] = [todo |-> scan[c].todo, ready |-> scan[c].ready \ {i}]]
           /\ UNCHANGED <<delivered, winner, out, wakes, chan, pc>>
  <2> DEFINE R == scan[c].ready \ {i}
             D == {Case(c, j).src : j \in Cases(c)}
  <2>1. D' = D /\ Cases(c)' = Cases(c) BY <1>1 DEF Case, Cases
  <2>2. R \in SUBSET Nat /\ R \subseteq Cases(c) BY <1>0, <1>3 DEF Types
  <2>3. scan' = [scan EXCEPT ![c] = [todo |-> scan[c].todo, ready |-> R]] BY <1>5
  <2> HIDE DEF R
  <2>4. scan' \in [Coroutines -> [todo : SUBSET Sources, ready : SUBSET Nat]]
    BY <1>0, <2>2, <2>3 DEF Types
  <2>5. Types'
    <3>1. cancelled' \in BOOLEAN BY <1>0, <1>1 DEF Types
    <3> QED BY <1>0, <1>1, <1>5, <2>4, <3>1 DEF Types
  <2>6. ChanTypes' BY <1>0, <1>5 DEF ChanTypes
  <2>7. ASSUME NEW e \in Coroutines \ {c} PROVE Bystander(e)
    BY <1>0, <1>1, <1>5, <2>3 DEF Types, Bystander, Steady, Same
  <2>8. Local(c)'
    <3>1. scan'[c].todo = scan[c].todo /\ scan'[c].ready = R BY <1>0, <2>3 DEF Types
    <3>2. ScanFits(c)'
      <4>1. scan[c].todo \subseteq D BY <1>3
      <4> QED BY <2>1, <2>2, <3>1, <4>1 DEF ScanFits, D
    <3>3. LifeFits(c)' BY <1>0, <1>1, <1>5 DEF Local, LifeFits
    <3>4. OpFits(c)' BY <1>0, <1>1, <1>5 DEF Local, OpFits
    <3>5. ArmedFits(c)' BY <1>0, <1>1, <1>5 DEF Local, ArmedFits, Completed
    <3>6. WakesFits(c)' BY <1>0, <1>1, <1>5 DEF Local, WakesFits
    <3>7. ClaimFits(c)' BY <1>0, <1>1, <1>5 DEF Local, ClaimFits
    <3> QED BY <3>2, <3>3, <3>4, <3>5, <3>6, <3>7 DEF Local
  <2> QED BY <2>5, <2>6, <2>7, <2>8 DEF Step
<1> QED BY <1>2, <1>4, <1>5

LEMMA QueueCasesRings ==
  ASSUME Types, ChanTypes, NEW c \in Coroutines, NEW s, NEW S
  PROVE  SameRings(QueueCases(c, s, S))
<1> DEFINE a == Keep(armed[c], {Node(c, i) : i \in {j \in S : Case(c, j).dir = "send"}})
           b == Keep(armed[c], {Node(c, i) : i \in {j \in S : Case(c, j).dir = "recv"}})
<1>1. armed[c] \in Seq(Nodes) BY DEF Types
<1>2. a \in Seq(Nodes) /\ b \in Seq(Nodes) BY <1>1, KeepFacts
<1>3. CASE s \in Channels
  <2>1. QueueCases(c, s, S) =
          [chan EXCEPT ![s] = [chan[s] EXCEPT !.sendQ = chan[s].sendQ \o a,
                                              !.recvQ = chan[s].recvQ \o b]]
    BY <1>3 DEF QueueCases
  <2> DEFINE p == chan[s].sendQ \o a
             r == chan[s].recvQ \o b
  <2>2. RingOK(chan[s], Capacity[s]) BY <1>3 DEF ChanTypes
  <2>3. p \in Seq(Nodes) /\ r \in Seq(Nodes)
    <3>1. chan[s].sendQ \in Seq(Nodes) /\ chan[s].recvQ \in Seq(Nodes) BY <1>3, QueueTypes
    <3> HIDE DEF a, b
    <3> QED BY <1>2, <3>1, ConcatFacts
  <2>4. QueueCases(c, s, S) = [chan EXCEPT ![s] = [chan[s] EXCEPT !.sendQ = p, !.recvQ = r]]
    BY <2>1
  <2> HIDE DEF p, r
  <2> DEFINE q == [chan[s] EXCEPT !.sendQ = p, !.recvQ = r]
  <2>5. RingOK(q, Capacity[s]) BY <2>2, <2>3, QueueSwap
  <2>6. /\ q.closed = chan[s].closed /\ q.len = chan[s].len /\ q.head = chan[s].head
        /\ q.tail = chan[s].tail /\ q.ring = chan[s].ring
    BY <2>2 DEF RingOK, ChannelType
  <2>7. QueueCases(c, s, S) = [chan EXCEPT ![s] = q] BY <2>4
  <2> HIDE DEF q
  <2> QED BY <1>3, <2>5, <2>6, <2>7 DEF SameRings, ChanTypes
<1>4. CASE s \notin Channels
  <2>1. QueueCases(c, s, S) = chan BY <1>4 DEF QueueCases
  <2> QED BY <2>1, SameRingsChan
<1> QED BY <1>3, <1>4

LEMMA QueueWaitsType ==
  ASSUME Types, NEW c \in Coroutines, NEW s, NEW S
  PROVE  QueueWaits(c, s, S) \in [Coroutines \union {Never} -> Seq(Nodes)]
<1> DEFINE a == Keep(armed[c], {Node(c, i) : i \in S})
<1>1. armed[c] \in Seq(Nodes) BY DEF Types
<1>2. a \in Seq(Nodes) BY <1>1, KeepFacts
<1>3. QueueWaits(c, s, S) = waitQ \/ QueueWaits(c, s, S) = [waitQ EXCEPT ![s] = waitQ[s] \o a]
  BY DEF QueueWaits
<1>4. waitQ \in [Coroutines \union {Never} -> Seq(Nodes)] BY DEF Types
<1>5. CASE s \in Coroutines \union {Never}
  <2>1. waitQ[s] \o a \in Seq(Nodes)
    <3>1. waitQ[s] \in Seq(Nodes) BY <1>4, <1>5
    <3> HIDE DEF a
    <3> QED BY <1>2, <3>1, ConcatFacts
  <2> QED BY <1>3, <1>4, <2>1
<1>6. CASE s \notin Coroutines \union {Never} BY <1>3, <1>4, <1>6
<1> QED BY <1>5, <1>6

LEMMA RegisterStep ==
  ASSUME LocalInv, NEW c \in Coroutines, Register(c)
  PROVE  Step(c)
<1>0. Types /\ ChanTypes /\ Local(c) BY DEF LocalInv
<1>1. /\ pc[c] = "register" /\ req[c].op = "select" /\ winner[c] = Unset
      /\ UNCHANGED <<calls, req, wgen, armed, life, readied, phase, cancelled, cancelQ>>
  BY DEF Register, At, IsSelect, selectRest, callVars, roundVars, lifeVars, cancelVars
<1>2. PICK s \in scan[c].todo :
        \/ /\ chan' = QueueCases(c, s, CasesOn(c, s))
           /\ waitQ' = QueueWaits(c, s, CasesOn(c, s))
           /\ scan' = [scan EXCEPT ![c].todo = @ \ {s}]
           /\ pc' = [pc EXCEPT ![c] = IF scan[c].todo = {s} THEN "arm" ELSE "register"]
           /\ UNCHANGED <<delivered, winner, out, wakes>>
        \/ \E i \in Cases(c) :
           /\ CommitCase(c, i, QueueCases(c, s, {j \in CasesOn(c, s) : j < i}))
           /\ waitQ' = QueueWaits(c, s, {j \in CasesOn(c, s) : j < i})
           /\ scan' = [scan EXCEPT ![c] = NoScan]
  BY DEF Register, Goto, claimVars, CasesOn
<1>3. scan[c].todo \subseteq {Case(c, j).src : j \in Cases(c)} /\ scan[c].ready \subseteq Cases(c)
  BY <1>0, <1>1 DEF Local, ScanFits
<1>4. CASE \E i \in Cases(c) :
           /\ CommitCase(c, i, QueueCases(c, s, {j \in CasesOn(c, s) : j < i}))
           /\ waitQ' = QueueWaits(c, s, {j \in CasesOn(c, s) : j < i})
           /\ scan' = [scan EXCEPT ![c] = NoScan]
  <2>1. PICK i \in Cases(c) :
           /\ CommitCase(c, i, QueueCases(c, s, {j \in CasesOn(c, s) : j < i}))
           /\ waitQ' = QueueWaits(c, s, {j \in CasesOn(c, s) : j < i})
           /\ scan' = [scan EXCEPT ![c] = NoScan]
    BY <1>4
  <2> DEFINE S == {j \in CasesOn(c, s) : j < i}
             chan0 == QueueCases(c, s, S)
  <2>2. SameRings(chan0) BY <1>0, QueueCasesRings
  <2>3. waitQ' \in [Coroutines \union {Never} -> Seq(Nodes)] BY <1>0, <2>1, QueueWaitsType
  <2>4. CommitCase(c, i, chan0) BY <2>1
  <2> HIDE DEF chan0, S
  <2>5. Commits(c, i) BY <1>1, <2>2, <2>4, CommitCaseStep
  <2> QED BY <1>0, <1>1, <2>1, <2>3, <2>5, SelectCommit
<1>5. CASE /\ chan' = QueueCases(c, s, CasesOn(c, s))
           /\ waitQ' = QueueWaits(c, s, CasesOn(c, s))
           /\ scan' = [scan EXCEPT ![c].todo = @ \ {s}]
           /\ pc' = [pc EXCEPT ![c] = IF scan[c].todo = {s} THEN "arm" ELSE "register"]
           /\ UNCHANGED <<delivered, winner, out, wakes>>
  <2> DEFINE T == scan[c].todo \ {s}
             D == {Case(c, j).src : j \in Cases(c)}
  <2>1. D' = D /\ Cases(c)' = Cases(c) BY <1>1 DEF Case, Cases
  <2>2. T \in SUBSET Sources /\ T \subseteq D
    <3>1. scan[c].todo \in SUBSET Sources BY <1>0 DEF Types
    <3>2. scan[c].todo \subseteq D BY <1>3
    <3> HIDE DEF D
    <3> QED BY <3>1, <3>2
  <2>3. scan' = [scan EXCEPT ![c] = [todo |-> T, ready |-> scan[c].ready]]
    <3>1. scan[c] \in [todo : SUBSET Sources, ready : SUBSET Nat] BY <1>0 DEF Types
    <3>2. [scan[c] EXCEPT !.todo = @ \ {s}] = [todo |-> T, ready |-> scan[c].ready] BY <3>1
    <3> QED BY <1>5, <3>2
  <2>4. pc' = [pc EXCEPT ![c] = "arm"] \/ pc' = [pc EXCEPT ![c] = "register"] BY <1>5
  <2> HIDE DEF T, D
  <2>5. scan' \in [Coroutines -> [todo : SUBSET Sources, ready : SUBSET Nat]]
    BY <1>0, <2>2, <2>3 DEF Types
  <2>6. Types'
    <3>1. cancelled' \in BOOLEAN BY <1>0, <1>1 DEF Types
    <3>2. waitQ' \in [Coroutines \union {Never} -> Seq(Nodes)] BY <1>0, <1>5, QueueWaitsType
    <3>3. pc' \in [Coroutines -> Places] BY <1>0, <2>4 DEF Types, Places, SelectPlaces
    <3> QED BY <1>0, <1>1, <1>5, <2>5, <3>1, <3>2, <3>3 DEF Types
  <2>7. ChanTypes'
    <3>1. SameRings(chan') BY <1>0, <1>5, QueueCasesRings
    <3> QED BY <3>1 DEF ChanTypes, SameRings
  <2>8. ASSUME NEW e \in Coroutines \ {c} PROVE Bystander(e)
    BY <1>0, <1>1, <1>5, <2>3, <2>4 DEF Types, Bystander, Steady, Same
  <2>9. Local(c)'
    <3>0. pc'[c] = "arm" \/ pc'[c] = "register" BY <1>0, <2>4 DEF Types
    <3>1. scan'[c].todo = T /\ scan'[c].ready = scan[c].ready BY <1>0, <2>3 DEF Types
    <3>2. ScanFits(c)' BY <1>3, <2>1, <2>2, <3>1 DEF ScanFits, D
    <3>3. LifeFits(c)' BY <1>0, <1>1, <1>5, <3>0 DEF Local, LifeFits, Early, Trying
    <3>4. OpFits(c)'
      BY <1>0, <1>1, <1>5, <3>0 DEF Local, OpFits, Early, Trying, SelectPlaces, InWait, CancelOps
    <3>5. ArmedFits(c)' BY <1>0, <1>1, <1>5, <3>0 DEF Local, ArmedFits, Completed, Early, Trying
    <3>6. WakesFits(c)' BY <1>0, <1>1, <1>5, <3>0 DEF Local, WakesFits
    <3>7. ClaimFits(c)'
      BY <1>0, <1>1, <1>5, <3>0 DEF Local, ClaimFits, Trying, SelectPlaces, InWait
    <3> QED BY <3>2, <3>3, <3>4, <3>5, <3>6, <3>7 DEF Local
  <2> QED BY <2>6, <2>7, <2>8, <2>9 DEF Step
<1> QED BY <1>2, <1>4, <1>5

(* A drained queue: claims of some of its nodes.                           *)
LEMMA DrainFacts ==
  ASSUME NEW c, NEW all \in Seq(Nodes), \A n \in Range(all) : NodePending(n) /\ n.co # c,
         NEW P,
         \A k \in P : /\ k.res \in WaitResults
                     /\ \E i \in DOMAIN all : k.co = all[i].co /\ k.case = all[i].case
  PROVE  PeerClaims(c, P)
<1>1. \A i \in DOMAIN all : all[i] \in Nodes /\ all[i] \in Range(all)
  BY ElementOfSeq DEF Range
<1> QED BY <1>1 DEF PeerClaims

(* The wake-ups of a drained queue.                                        *)
LEMMA DrainWakes ==
  ASSUME NEW all \in Seq(Nodes),
         NEW won, won = {i \in DOMAIN all : \A j \in 1 .. i - 1 : all[j].co # all[i].co}
  PROVE  /\ Keep(all, {all[i] : i \in won}) \in Seq(Nodes)
         /\ Keep(all, {all[i] : i \in won}) = <<>> <=> all = <<>>
<1> DEFINE S == {all[i] : i \in won}
           K == Keep(all, S)
<1>1. K \in Seq(Nodes) /\ \A x : x \in Range(K) <=> x \in Range(all) /\ x \in S
  <2> HIDE DEF S
  <2> QED BY KeepFacts
<1>2. CASE all = <<>>
  <2>1. Range(all) = {} BY <1>2 DEF Range
  <2>2. \A x : x \notin Range(K) BY <1>1, <2>1
  <2> HIDE DEF K
  <2>3. K = <<>> BY <1>1, <2>2, RangeFacts
  <2> QED BY <1>1, <1>2, <2>3 DEF K
<1>3. CASE all # <<>>
  <2>1. PICK m \in Nat : m = Len(all) OBVIOUS
  <2>2. m # 0 BY <1>3, <2>1, EmptySeq
  <2>3. 1 \in DOMAIN all BY <2>1, <2>2
  <2>4. 1 \in won BY <2>3
  <2>5. all[1] \in Range(all) /\ all[1] \in S BY <2>3, <2>4 DEF Range
  <2>6. all[1] \in Range(K) BY <1>1, <2>5
  <2>7. K # <<>> BY <2>6 DEF Range
  <2> QED BY <1>1, <1>3, <2>7
<1> QED BY <1>2, <1>3

LEMMA CloseStep ==
  ASSUME Types, ChanTypes, NEW c \in Coroutines, Local(c), Close(c)
  PROVE  Step(c)
<1> DEFINE ch    == Ch(c)
           sends == Pending(chan[ch].sendQ, c)
           recvs == Pending(chan[ch].recvQ, c)
           all   == sends \o recvs
           won   == {i \in DOMAIN all : \A j \in 1 .. i - 1 : all[j].co # all[i].co}
           P     == {PeerClaim(all[i],
                       Result(IF i <= Len(sends) THEN "SendClosed" ELSE "RecvClosed")) : i \in won}
           K     == Keep(all, {all[i] : i \in won})
<1>0. /\ pc[c] = "call" /\ req[c].op = "close"
      /\ UNCHANGED <<calls, req, wgen, armed, life, readied, phase, scan, waitQ, cancelled, cancelQ>>
  BY DEF Close, Serving, At, restOfSend, callVars, roundVars, lifeVars, cancelVars
<1>1. ch \in Channels /\ req[c].op # "select" /\ wakes[c] = <<>> BY <1>0, PlainChannel
<1>2. CASE chan[ch].closed
  <2>1. /\ out' = [out EXCEPT ![c] = Result("Error")] /\ pc' = [pc EXCEPT ![c] = "idle"]
        /\ UNCHANGED <<chan, delivered, winner, wakes>>
    BY <1>2 DEF Close, Return, Goto, claimVars
  <2>2. Types'
    <3>1. out' \in [Coroutines -> CallResults] BY <2>1, ResultTypes DEF Types
    <3>2. pc' \in [Coroutines -> Places] BY <2>1 DEF Types, Places, Early
    <3>3. cancelled' \in BOOLEAN BY <1>0 DEF Types
    <3> QED BY <1>0, <2>1, <3>1, <3>2, <3>3 DEF Types
  <2>3. ChanTypes' BY <2>1 DEF ChanTypes
  <2>4. ASSUME NEW e \in Coroutines \ {c} PROVE Bystander(e)
    BY <1>0, <2>1 DEF Types, Bystander, Steady, Same
  <2>5. Local(c)'
    BY <1>0, <2>1 DEF Types, Local, LifeFits, OpFits, ScanFits, ArmedFits, WakesFits, ClaimFits,
       SelectPlaces, Early, Trying, InWait, CancelOps
  <2> QED BY <2>2, <2>3, <2>4, <2>5 DEF Step
<1>3. CASE ~chan[ch].closed
  <2>1. /\ chan' = [chan EXCEPT ![ch] =
                      [chan[ch] EXCEPT !.closed = TRUE, !.sendQ = <<>>, !.recvQ = <<>>]]
        /\ Claim(P) /\ SelfReturn(c, 0, Result("Done")) /\ AfterCommit(c, 0, K)
    BY <1>3 DEF Close
  <2>2. /\ sends \in Seq(Nodes) /\ recvs \in Seq(Nodes)
        /\ \A n \in Range(sends) : NodePending(n) /\ n.co # c
        /\ \A n \in Range(recvs) : NodePending(n) /\ n.co # c
    BY <1>1, QueueTypes, PendingFacts
  <2>3. all \in Seq(Nodes) /\ \A n \in Range(all) : NodePending(n) /\ n.co # c
    <3> HIDE DEF sends, recvs
    <3> QED BY <2>2, ConcatFacts
  <2>4. \A k \in P : /\ k.res \in WaitResults
                    /\ \E i \in DOMAIN all : k.co = all[i].co /\ k.case = all[i].case
    <3>1. Result("SendClosed") \in WaitResults /\ Result("RecvClosed") \in WaitResults
      BY ResultTypes DEF WaitKinds
    <3>2. won \subseteq DOMAIN all OBVIOUS
    <3> HIDE DEF won, all, sends
    <3> QED BY <3>1, <3>2 DEF PeerClaim
  <2>5. K \in Seq(Nodes)
    <3>1. won = {i \in DOMAIN all : \A j \in 1 .. i - 1 : all[j].co # all[i].co} OBVIOUS
    <3> HIDE DEF all, won
    <3> QED BY <2>3, <3>1, DrainWakes
  <2>6. PeerClaims(c, P)
    <3> HIDE DEF P, all
    <3> QED BY <2>3, <2>4, DrainFacts
  <2>7. ChanTypes'
    <3> DEFINE q == [chan[ch] EXCEPT !.closed = TRUE, !.sendQ = <<>>, !.recvQ = <<>>]
    <3>1. RingOK(chan[ch], Capacity[ch]) BY <1>1 DEF ChanTypes
    <3>2. <<>> \in Seq(Nodes) OBVIOUS
    <3>3. RingOK(q, Capacity[ch]) BY <3>1, <3>2 DEF RingOK, ChannelType
    <3>4. chan' = [chan EXCEPT ![ch] = q] BY <2>1
    <3> HIDE DEF q, ch
    <3> QED BY <1>1, <3>3, <3>4, ChanUpdate
  <2> HIDE DEF P, K, all, sends, recvs, won, ch
  <2>8. /\ ClaimedTypes
        /\ \A e \in Coroutines \ {c} : PeerGiven(e)
        /\ delivered'[c] = delivered[c] /\ winner'[c] = winner[c]
    BY <2>1, <2>6, PeersOnlyClaimed
  <2>9. /\ wakes' = [wakes EXCEPT ![c] = K]
        /\ out' = [out EXCEPT ![c] = Result("Done")]
        /\ \/ K = <<>> /\ pc' = [pc EXCEPT ![c] = "idle"]
           \/ K # <<>> /\ pc' = [pc EXCEPT ![c] = "wake"]
    <3>1. CASE K = <<>> BY <2>1, <3>1 DEF AfterCommit, SelfReturn
    <3>2. CASE K # <<>> BY <2>1, <3>2 DEF AfterCommit, SelfReturn
    <3> QED BY <3>1, <3>2
  <2>10. Commits(c, 0)
    <3>1. wakes' \in [Coroutines -> Seq(Nodes)] /\ wakes'[c] = K BY <2>5, <2>9 DEF Types
    <3>2. out' \in [Coroutines -> CallResults] BY <2>9, ResultTypes DEF Types
    <3>3. pc' \in [Coroutines -> Places] BY <2>9 DEF Types, Places, Early
    <3>4. (pc'[c] = "idle" /\ K = <<>>) \/ (pc'[c] = "wake" /\ K # <<>>) BY <2>9 DEF Types
    <3>5. \A e \in Coroutines \ {c} : pc'[e] = pc[e] /\ out'[e] = out[e] /\ wakes'[e] = wakes[e]
      BY <2>9 DEF Types
    <3> QED BY <2>7, <2>8, <3>1, <3>2, <3>3, <3>4, <3>5 DEF Commits
  <2> QED BY <1>0, <1>1, <2>10, PlainCommit
<1> QED BY <1>2, <1>3

LEMMA WakeJoinStep ==
  ASSUME Types, ChanTypes, NEW c \in Coroutines, Local(c), WakeJoin(c)
  PROVE  Step(c)
<1> DEFINE all == Pending(waitQ[c], c)
           won == {i \in DOMAIN all : \A j \in 1 .. i - 1 : all[j].co # all[i].co}
           P   == {PeerClaim(all[i], Result("Join")) : i \in won}
           K   == Keep(all, {all[i] : i \in won})
<1>0. /\ pc[c] = "wake_join" /\ waitQ' = [waitQ EXCEPT ![c] = <<>>]
      /\ Claim(P) /\ wakes' = [wakes EXCEPT ![c] = K]
      /\ pc' = [pc EXCEPT ![c] = IF all = <<>> THEN "done" ELSE "wake"]
      /\ UNCHANGED <<calls, req, out, wgen, armed, life, readied, phase, scan, chan, cancelled, cancelQ>>
  BY DEF WakeJoin, At, Goto, callVars, roundVars, lifeVars, cancelVars
<1>1. all \in Seq(Nodes) /\ \A n \in Range(all) : NodePending(n) /\ n.co # c
  <2>1. waitQ[c] \in Seq(Nodes) BY DEF Types
  <2> QED BY <2>1, PendingFacts
<1>2. PeerClaims(c, P)
  <2>1. Result("Join") \in WaitResults BY ResultTypes DEF WaitKinds
  <2>2. won \subseteq DOMAIN all OBVIOUS
  <2> HIDE DEF won, all
  <2>3. \A k \in P : /\ k.res \in WaitResults
                    /\ \E i \in DOMAIN all : k.co = all[i].co /\ k.case = all[i].case
    BY <2>1, <2>2 DEF PeerClaim
  <2> HIDE DEF P
  <2> QED BY <1>1, <2>3, DrainFacts
<1>3. K \in Seq(Nodes) /\ (K = <<>> <=> all = <<>>)
  <2>1. won = {i \in DOMAIN all : \A j \in 1 .. i - 1 : all[j].co # all[i].co} OBVIOUS
  <2> HIDE DEF all, won
  <2> QED BY <1>1, <2>1, DrainWakes
<1>4. \/ K = <<>> /\ pc' = [pc EXCEPT ![c] = "done"]
      \/ K # <<>> /\ pc' = [pc EXCEPT ![c] = "wake"]
  <2>1. CASE all = <<>> BY <1>0, <1>3, <2>1
  <2>2. CASE all # <<>> BY <1>0, <1>3, <2>2
  <2> QED BY <2>1, <2>2
<1>5. UNCHANGED <<calls, req, out, wgen, armed, life, readied, phase, scan, chan, cancelled, cancelQ>>
      /\ pc[c] = "wake_join" /\ waitQ' = [waitQ EXCEPT ![c] = <<>>]
      /\ wakes' = [wakes EXCEPT ![c] = K] /\ Claim(P)
  BY <1>0
<1> HIDE DEF all, won, P, K
<1>6. /\ ClaimedTypes
      /\ \A e \in Coroutines \ {c} : PeerGiven(e)
      /\ delivered'[c] = delivered[c] /\ winner'[c] = winner[c]
  BY <1>2, <1>5, PeersOnlyClaimed
<1>7. Types'
  <2>1. wakes' \in [Coroutines -> Seq(Nodes)] BY <1>3, <1>5 DEF Types
  <2>2. pc' \in [Coroutines -> Places] BY <1>4 DEF Types, Places
  <2>3. cancelled' \in BOOLEAN BY <1>5 DEF Types
  <2>4. waitQ' \in [Coroutines \union {Never} -> Seq(Nodes)]
    <3>1. <<>> \in Seq(Nodes) OBVIOUS
    <3> QED BY <1>5, <3>1 DEF Types
  <2> QED BY <1>5, <1>6, <2>1, <2>2, <2>3, <2>4 DEF Types, ClaimedTypes
<1>8. ChanTypes' BY <1>5 DEF ChanTypes
<1>9. ASSUME NEW e \in Coroutines \ {c} PROVE Bystander(e)
  <2>1. Steady(e)
    <3>1. pc'[e] = pc[e] BY <1>4 DEF Types
    <3>2. wakes'[e] = wakes[e] BY <1>5 DEF Types
    <3> QED BY <1>5, <3>1, <3>2 DEF Steady
  <2> QED BY <1>5, <1>6, <2>1, PeerBystander
<1>10. Local(c)'
  <2>1. wakes'[c] = K BY <1>5 DEF Types
  <2>2. (K = <<>> /\ pc'[c] = "done") \/ (K # <<>> /\ pc'[c] = "wake")
    <3>1. pc \in [Coroutines -> Places] BY DEF Types
    <3> QED BY <1>4, <3>1
  <2>3. req[c].op = "finish" BY <1>5 DEF Local, OpFits
  <2> QED BY <1>5, <1>6, <2>1, <2>2, <2>3 DEF Local, LifeFits, OpFits, ScanFits, ArmedFits, WakesFits,
     ClaimFits, SelectPlaces, Early, Trying, InWait, CancelOps
<1> QED BY <1>7, <1>8, <1>9, <1>10 DEF Step

LEMMA CancelNodeStep ==
  ASSUME Types, ChanTypes, NEW c \in Coroutines, Local(c), CancelNode(c)
  PROVE  Step(c)
<1> DEFINE h == Head(wakes[c])
<1>0. /\ pc[c] = "cancel" /\ NodePending(h) /\ Claim({PeerClaim(h, Result("Cancelled"))})
      /\ pc' = [pc EXCEPT ![c] = "cancel_wake"]
      /\ UNCHANGED <<calls, req, out, wgen, armed, life, readied, phase, scan, wakes, chan, waitQ,
                     cancelled, cancelQ>>
  BY DEF CancelNode, CancelClaim, At, Goto, callVars, roundVars, lifeVars, cancelVars
<1>1. h \in Nodes /\ h.co # c
  <2>1. wakes[c] \in Seq(Nodes) /\ wakes[c] # <<>> /\ armed[c] = <<>>
    BY <1>0 DEF Types, Local, WakesFits, ArmedFits
  <2>2. h \in Nodes BY <2>1, HeadFacts
  <2>3. h.co # c BY <1>0, <2>1 DEF NodePending, Live, Range
  <2> QED BY <2>2, <2>3
<1> HIDE DEF h
<1> DEFINE P == {PeerClaim(h, Result("Cancelled"))}
<1>2. Result("Cancelled") \in WaitResults BY ResultTypes DEF WaitKinds
<1>3. PeerClaims(c, P) BY <1>0, <1>1, <1>2, OnePeer
<1>4. Claim(P) BY <1>0
<1> HIDE DEF P
<1>5. /\ ClaimedTypes
      /\ \A e \in Coroutines \ {c} : PeerGiven(e)
      /\ delivered'[c] = delivered[c] /\ winner'[c] = winner[c]
  BY <1>3, <1>4, PeersOnlyClaimed
<1>6. Types'
  <2>1. pc' \in [Coroutines -> Places] BY <1>0 DEF Types, Places
  <2>2. cancelled' \in BOOLEAN BY <1>0 DEF Types
  <2> QED BY <1>0, <1>5, <2>1, <2>2 DEF Types, ClaimedTypes
<1>7. ChanTypes' BY <1>0 DEF ChanTypes
<1>8. ASSUME NEW e \in Coroutines \ {c} PROVE Bystander(e)
  <2>1. Steady(e) BY <1>0 DEF Steady, Types
  <2> QED BY <1>0, <1>5, <2>1, PeerBystander
<1>9. Local(c)'
  <2>1. pc'[c] = "cancel_wake" BY <1>0 DEF Types
  <2> QED BY <1>0, <1>5, <2>1 DEF Local, LifeFits, OpFits, ScanFits, ArmedFits, WakesFits,
     ClaimFits, SelectPlaces, Early, Trying, InWait, CancelOps
<1> QED BY <1>6, <1>7, <1>8, <1>9 DEF Step

LEMMA RegisterCancelStep ==
  ASSUME Types, ChanTypes, NEW c \in Coroutines, Local(c), RegisterCancel(c)
  PROVE  Step(c)
<1> DEFINE h == Head(armed[c])
<1>0. /\ pc[c] = "register_cancel" /\ pc' = [pc EXCEPT ![c] = "park"]
      /\ UNCHANGED <<calls, req, out, wgen, armed, life, readied, phase, scan, wakes, chan, waitQ,
                     cancelled>>
  BY DEF RegisterCancel, At, Goto, callVars, roundVars, lifeVars
<1>1. \/ /\ NodePending(h) /\ Claim({PeerClaim(h, Result("Cancelled"))}) /\ UNCHANGED cancelQ
      \/ UNCHANGED <<delivered, winner, cancelQ>>
      \/ cancelQ' = Append(cancelQ, h) /\ UNCHANGED <<delivered, winner>>
  <2>1. CASE cancelled /\ NodePending(h) BY <2>1 DEF RegisterCancel, CancelClaim
  <2>2. CASE cancelled /\ ~NodePending(h) BY <2>2 DEF RegisterCancel, CancelClaim, claimVars
  <2>3. CASE ~cancelled BY <2>3 DEF RegisterCancel, claimVars
  <2> QED BY <2>1, <2>2, <2>3
<1>2. armed[c] \in Seq(Nodes) /\ armed[c] # <<>> /\ armed[c] = RoundOf(c, req[c].cases, wgen[c])
      /\ req[c].op \in CancelOps
  BY <1>0 DEF Types, Local, ArmedFits, OpFits
<1>3. h \in Nodes /\ h \in Range(armed[c]) BY <1>2, HeadFacts
<1>4. h.co = c BY <1>2, <1>3, NodeOfRound
<1> HIDE DEF h
<1>5. /\ ClaimedTypes /\ cancelQ' \in Seq(Nodes)
      /\ \A e \in Coroutines \ {c} : delivered'[e] = delivered[e] /\ winner'[e] = winner[e]
      /\ winner'[c] = winner[c]
      /\ \/ delivered'[c] = delivered[c]
         \/ delivered'[c] = [gen |-> wgen[c], res |-> Result("Cancelled")]
  <2>1. CASE NodePending(h) /\ Claim({PeerClaim(h, Result("Cancelled"))}) /\ UNCHANGED cancelQ
    <3> DEFINE K == {PeerClaim(h, Result("Cancelled"))}
    <3>1. \A k \in K : k.co = c /\ k.res = Result("Cancelled") BY <1>4 DEF PeerClaim
    <3>2. Claim(K) BY <2>1
    <3>3. PeerClaim(h, Result("Cancelled")) \in K OBVIOUS
    <3> HIDE DEF K
    <3>4. ASSUME NEW e \in Coroutines \ {c}
          PROVE  delivered'[e] = delivered[e] /\ winner'[e] = winner[e]
      <4>1. \A k \in K : k.co # e BY <3>1
      <4> QED BY <3>2, <4>1, ClaimFacts
    <3>5. ~IsSelect(c) BY <1>2 DEF IsSelect, CancelOps
    <3>6. \E k \in K :
              /\ k.co = c
              /\ delivered'[c] = [gen |-> wgen[c], res |-> k.res]
              /\ winner'[c] = IF IsSelect(c) THEN CaseWinner(k.case) ELSE winner[c]
      <4>1. \E k \in K : k.co = c BY <3>1, <3>3
      <4> QED BY <3>2, <4>1, ClaimFacts
    <3>7. delivered'[c] = [gen |-> wgen[c], res |-> Result("Cancelled")] /\ winner'[c] = winner[c]
      BY <3>1, <3>5, <3>6
    <3>8. ClaimedTypes
      <4>1. /\ delivered' = [e \in Coroutines |-> delivered'[e]]
            /\ winner' = [e \in Coroutines |-> winner'[e]]
        BY <3>2, ClaimDomains
      <4>2. Result("Cancelled") \in WaitResults BY ResultTypes DEF WaitKinds
      <4>3. \A e \in Coroutines :
              /\ delivered[e] \in [gen : 0 .. MaxCalls, res : WaitResults \union {NoResult}]
              /\ winner[e] \in Nat /\ wgen[e] \in 0 .. MaxCalls
        BY DEF Types
      <4>4. \A e \in Coroutines :
              /\ delivered'[e] \in [gen : 0 .. MaxCalls, res : WaitResults \union {NoResult}]
              /\ winner'[e] \in Nat
        BY <3>4, <3>7, <4>2, <4>3
      <4>5. delivered' \in [Coroutines -> [gen : 0 .. MaxCalls, res : WaitResults \union {NoResult}]]
        BY <4>1, <4>4
      <4>6. winner' \in [Coroutines -> Nat] BY <4>1, <4>4
      <4> QED BY <4>5, <4>6 DEF ClaimedTypes
    <3>9. cancelQ' \in Seq(Nodes) BY <2>1 DEF Types
    <3> QED BY <3>4, <3>7, <3>8, <3>9
  <2>2. CASE UNCHANGED <<delivered, winner, cancelQ>> BY <2>2 DEF Types, ClaimedTypes
  <2>3. CASE cancelQ' = Append(cancelQ, h) /\ UNCHANGED <<delivered, winner>>
    <3>1. cancelQ \in Seq(Nodes) BY DEF Types
    <3>2. cancelQ' \in Seq(Nodes) BY <1>3, <2>3, <3>1, AppendFacts
    <3> QED BY <2>3, <3>2 DEF Types, ClaimedTypes
  <2> QED BY <1>1, <2>1, <2>2, <2>3
<1>6. Types'
  <2>1. pc' \in [Coroutines -> Places] BY <1>0 DEF Types, Places, InWait
  <2>2. cancelled' \in BOOLEAN BY <1>0 DEF Types
  <2> QED BY <1>0, <1>5, <2>1, <2>2 DEF Types, ClaimedTypes
<1>7. ChanTypes' BY <1>0 DEF ChanTypes
<1>8. ASSUME NEW e \in Coroutines \ {c} PROVE Bystander(e)
  BY <1>0, <1>5 DEF Types, Bystander, Steady, Same
<1>9. Local(c)'
  <2>1. pc'[c] = "park" BY <1>0 DEF Types
  <2>2. req[c].op # "select" /\ req[c].op \in WaitOps BY <1>2 DEF CancelOps, WaitOps
  <2>3. Result("Cancelled") # NoResult BY DEF Result, NoResult
  <2>4. ClaimFits(c)'
    BY <1>0, <1>5, <2>1, <2>2, <2>3 DEF Local, ClaimFits, SelectPlaces, Trying, InWait
  <2> QED BY <1>0, <2>1, <2>2, <2>4 DEF Local, LifeFits, OpFits, ScanFits, ArmedFits, WakesFits,
     SelectPlaces, Early, Trying, InWait, CancelOps
<1> QED BY <1>6, <1>7, <1>8, <1>9 DEF Step

-----------------------------------------------------------------------------
(* The first state satisfies the local invariant.                          *)
LEMMA InitLocal == Init => LocalInv
<1> SUFFICES ASSUME Init PROVE LocalInv OBVIOUS
<1> USE DEF Init
<1>1. Types
  <2>1. NoResult \in CallResults BY ResultTypes
  <2>2. <<>> \in Seq(Nodes) OBVIOUS
  <2>3. NoScan \in [todo : SUBSET Sources, ready : SUBSET Nat] BY DEF NoScan
  <2>4. 0 \in 0 .. MaxCalls /\ 0 \in Nat BY WaitAssumption
  <2>5. delivered \in [Coroutines -> [gen : 0 .. MaxCalls, res : WaitResults \union {NoResult}]]
    BY <2>4
  <2>6. life \in [Coroutines -> States] /\ pc \in [Coroutines -> Places]
        /\ phase \in [Coroutines -> {"Building", "Armed"}]
    BY DEF States, Places, Early
  <2>7. /\ calls \in [Coroutines -> 0 .. MaxCalls] /\ wgen \in [Coroutines -> 0 .. MaxCalls]
        /\ readied \in [Coroutines -> 0 .. MaxCalls] /\ winner \in [Coroutines -> Nat]
    BY <2>4 DEF Unset
  <2>8. /\ req \in [Coroutines -> Requests \union {NoRequest}]
        /\ out \in [Coroutines -> CallResults]
        /\ scan \in [Coroutines -> [todo : SUBSET Sources, ready : SUBSET Nat]]
    BY <2>1, <2>3
  <2>9. /\ armed \in [Coroutines -> Seq(Nodes)] /\ wakes \in [Coroutines -> Seq(Nodes)]
        /\ waitQ \in [Coroutines \union {Never} -> Seq(Nodes)] /\ cancelQ \in Seq(Nodes)
    BY <2>2
  <2>10. cancelled \in BOOLEAN OBVIOUS
  <2> HIDE DEF Init
  <2> QED BY <2>5, <2>6, <2>7, <2>8, <2>9, <2>10 DEF Types
<1>2. ChanTypes
  <2>1. ASSUME NEW ch \in Channels PROVE RingOK(NewChannel(ch), Capacity[ch])
    <3>1. Capacity[ch] \in Nat BY WaitAssumption
    <3>2. <<>> \in Seq(Nodes) OBVIOUS
    <3>3. EmptySlot \in Slots BY DEF Slots
    <3>4. EmptySlot.state # "Reserved" BY DEF EmptySlot, Slot
    <3> QED BY <3>1, <3>2, <3>3, <3>4 DEF NewChannel, RingOK, ChannelType
  <2> QED BY <2>1 DEF ChanTypes
<1>3. ASSUME NEW c \in Coroutines PROVE Local(c)
  <2>1. /\ life[c] = "Running" /\ pc[c] = "idle" /\ wgen[c] = 0 /\ calls[c] = 0 /\ readied[c] = 0
        /\ armed[c] = <<>> /\ wakes[c] = <<>> /\ delivered[c].gen = 0
    OBVIOUS
  <2> QED BY <2>1 DEF Local, LifeFits, OpFits, ScanFits, ArmedFits, WakesFits, ClaimFits,
       SelectPlaces, Early, Trying, InWait
<1> QED BY <1>1, <1>2, <1>3 DEF LocalInv

(* Every action of c keeps the invariant at c and moves the others only as *)
(* bystanders.                                                             *)
LEMMA ActionStep ==
  ASSUME LocalInv, NEW c \in Coroutines, Call(c) \/ Handler(c) \/ Resume(c)
  PROVE  Step(c)
<1>0. Types /\ ChanTypes /\ Local(c) BY DEF LocalInv
<1>1. CASE Call(c) BY <1>0, <1>1, CallStep
<1>2. CASE ChannelStep(c)
  <2>1. CASE SendNow(c) BY <1>0, <2>1, SendNowStep
  <2>2. CASE SendOnClosed(c) BY <1>0, <2>2, SendOnClosedStep
  <2>3. CASE TrySendFull(c) BY <1>0, <2>3, TrySendFullStep
  <2>4. CASE ParkSend(c) BY <1>0, <2>4, ParkSendStep
  <2>5. CASE ReserveLarge(c) BY <1>0, <2>5, ReserveLargeStep
  <2>6. CASE FinishLarge(c) BY <1>0, <2>6, FinishLargeStep
  <2>7. CASE RecvNow(c) BY <2>7, RecvNowStep
  <2>8. CASE RecvOnClosed(c) BY <1>0, <2>8, RecvOnClosedStep
  <2>9. CASE TryRecvEmpty(c) BY <1>0, <2>9, TryRecvEmptyStep
  <2>10. CASE ParkRecv(c) BY <1>0, <2>10, ParkRecvStep
  <2>11. CASE Close(c) BY <1>0, <2>11, CloseStep
  <2> QED BY <1>2, <2>1, <2>2, <2>3, <2>4, <2>5, <2>6, <2>7, <2>8, <2>9, <2>10, <2>11
       DEF ChannelStep
<1>3. CASE SelectStep(c)
  <2>1. CASE SelectBegin(c) BY <1>0, <2>1, SelectBeginStep
  <2>2. CASE SelectInline(c) BY <2>2, SelectInlineStep
  <2>3. CASE SelectInlineNone(c) BY <1>0, <2>3, NothingCommittedStep DEF SelectInlineNone, At
  <2>4. CASE ScanBegin(c) BY <1>0, <2>4, ScanBeginStep
  <2>5. CASE Probe(c) BY <1>0, <2>5, ProbeStep
  <2>6. CASE Retry(c) BY <2>6, RetryStep
  <2>7. CASE ScanNone(c) BY <1>0, <2>7, NothingCommittedStep DEF ScanNone, At
  <2>8. CASE Register(c) BY <2>8, RegisterStep
  <2>9. CASE RegisterWon(c) BY <1>0, <2>9, RegisterWonStep
  <2>10. CASE ArmEnter(c) BY <1>0, <2>10, ArmEnterStep
  <2>11. CASE ArmFinish(c) BY <1>0, <2>11, ArmFinishStep
  <2>12. CASE SelectDone(c) BY <1>0, <2>12, SelectDoneStep
  <2> QED BY <1>3, <2>1, <2>2, <2>3, <2>4, <2>5, <2>6, <2>7, <2>8, <2>9, <2>10, <2>11, <2>12
       DEF SelectStep
<1>4. CASE ParkStep(c)
  <2>1. CASE ParkUndone(c) BY <1>0, <2>1, ParkUndoneStep
  <2>2. CASE ParkEnter(c) BY <1>0, <2>2, ParkEnterStep
  <2>3. CASE ParkSleep(c) BY <1>0, <2>3, ParkSleepStep
  <2>4. CASE ParkRecheck(c) BY <1>0, <2>4, ParkRecheckStep
  <2> QED BY <1>4, <2>1, <2>2, <2>3, <2>4 DEF ParkStep
<1>5. CASE JoinStep(c)
  <2>1. CASE JoinStart(c) BY <1>0, <2>1, JoinStartStep
  <2>2. CASE JoinPark(c) BY <1>0, <2>2, JoinParkStep
  <2>3. CASE JoinLate(c) BY <1>0, <2>3, JoinLateStep
  <2>4. CASE Finish(c) BY <1>0, <2>4, FinishStep
  <2>5. CASE WakeJoin(c) BY <1>0, <2>5, WakeJoinStep
  <2> QED BY <1>5, <2>1, <2>2, <2>3, <2>4, <2>5 DEF JoinStep
<1>6. CASE CancelStep(c)
  <2>1. CASE CheckToken(c) BY <1>0, <2>1, CheckTokenStep
  <2>2. CASE RegisterCancel(c) BY <1>0, <2>2, RegisterCancelStep
  <2>3. CASE CancelStart(c) BY <1>0, <2>3, CancelStartStep
  <2>4. CASE CancelNode(c) BY <1>0, <2>4, CancelNodeStep
  <2>5. CASE CancelSkip(c) BY <1>0, <2>5, CancelSkipStep
  <2>6. CASE CancelWake(c) BY <1>0, <2>6, CancelWakeStep
  <2> QED BY <1>6, <2>1, <2>2, <2>3, <2>4, <2>5, <2>6 DEF CancelStep
<1>7. CASE Wake(c) BY <1>0, <1>7, WakeStep
<1>8. CASE Resume(c) BY <1>0, <1>8, ResumeStep
<1> QED BY <1>1, <1>2, <1>3, <1>4, <1>5, <1>6, <1>7, <1>8 DEF Handler

LEMMA StutterLocal ==
  ASSUME LocalInv, UNCHANGED vars
  PROVE  LocalInv' /\ \A e \in Coroutines : Bystander(e)
<1> USE DEF vars
<1>1. \A e \in Coroutines : Steady(e) /\ Same(e) BY DEF Steady, Same
<1>2. \A e \in Coroutines : Bystander(e) BY <1>1, SameBystander
<1>3. Types' BY DEF LocalInv, Types
<1>4. ChanTypes' BY DEF LocalInv, ChanTypes
<1>5. \A e \in Coroutines : Local(e)' BY <1>2, BystanderLocal DEF LocalInv
<1> QED BY <1>2, <1>3, <1>4, <1>5 DEF LocalInv

LEMMA NextLocal == LocalInv /\ [Next]_vars => LocalInv'
<1> SUFFICES ASSUME LocalInv, [Next]_vars PROVE LocalInv' OBVIOUS
<1>1. CASE UNCHANGED vars BY <1>1, StutterLocal
<1>2. CASE Next
  <2>1. PICK c \in Coroutines : Call(c) \/ Handler(c) \/ Resume(c) BY <1>2 DEF Next
  <2>2. Step(c) BY <2>1, ActionStep
  <2>3. \A e \in Coroutines \ {c} : Local(e)' BY <2>2, BystanderLocal DEF LocalInv, Step
  <2> QED BY <2>2, <2>3 DEF LocalInv, Step
<1> QED BY <1>1, <1>2

(* The local invariant holds in every reachable state.                     *)
THEOREM LocalSafe == Spec => []LocalInv
<1> QED BY InitLocal, NextLocal, PTL DEF Spec

(* Types of the state, and of the queues' contents: nodes are those of     *)
(* coroutines and of generations that can exist, ring lengths stay within  *)
(* the capacity.                                                           *)
THEOREM TypesHold == Spec => []TypeOK
<1>1. LocalInv => TypeOK
  <2> SUFFICES ASSUME LocalInv PROVE TypeOK OBVIOUS
  <2>1. ASSUME NEW ch \in Channels
        PROVE  /\ chan[ch].len \in 0 .. Capacity[ch]
               /\ chan[ch].ring \in [0 .. Capacity[ch] - 1 -> Slots]
               /\ chan[ch].sendQ \in Seq(Nodes) /\ chan[ch].recvQ \in Seq(Nodes)
    BY DEF LocalInv, ChanTypes, RingOK, ChannelType
  <2> QED BY <2>1 DEF LocalInv, Types, TypeOK
<1> QED BY <1>1, LocalSafe, PTL

(* Nobody is made runnable without a result, and no node of the round      *)
(* outlives the wake-up (wake_wait checks the claim before it publishes    *)
(* Runnable).                                                              *)
THEOREM RunnableHasResultHolds == Spec => []RunnableHasResult
<1>1. LocalInv => RunnableHasResult
  <2> SUFFICES ASSUME LocalInv, NEW c \in Coroutines, life[c] = "Runnable"
               PROVE  Completed(c) /\ armed[c] = <<>> /\ readied[c] = wgen[c]
    BY DEF RunnableHasResult
  <2>1. Local(c) /\ pc[c] \in Places BY DEF LocalInv, Types
  <2>2. pc[c] \in {"recheck", "blocked"}
    BY <2>1 DEF Local, LifeFits, Places, SelectPlaces, Early, Trying, InWait
  <2> QED BY <2>1, <2>2 DEF Local, ArmedFits
<1> QED BY <1>1, LocalSafe, PTL
=============================================================================
