--------------------------- MODULE MarkCycleProofs ---------------------------
(***************************************************************************)
(* Proofs about MarkCycle, for every heap, every set of owners, any number *)
(* of credits and any bounds.                                              *)
(***************************************************************************)
EXTENDS MarkCycle, SequenceTheorems, FiniteSetTheorems, TLAPS

PlaneTypes(pl) ==
  /\ pl = [p \in Pairs |-> [applied |-> pl[p].applied, next |-> pl[p].next, held |-> pl[p].held]]
  /\ \A p \in Pairs : pl[p].held \in SUBSET Delta

(* The variables the proofs use have their types; of a pair of blocks at   *)
(* the target only the kept records matter.                                *)
Typing ==
  /\ allocated \in SUBSET Objects
  /\ fields \in [Objects -> [Fields -> Objects \union {Null}]]
  /\ roots \in [Roots -> Objects \union {Null}]
  /\ marked \in SUBSET Objects
  /\ grey \in [Owners -> SUBSET Objects]
  /\ \A w \in Owners : grey[w] \subseteq ObjectsOf(w)
  /\ scan \in [object : Objects \union {Null}, todo : SUBSET Fields]
  /\ tickets \in SUBSET [credit : Slots, object : Objects]
  /\ credits \in Pools
  /\ summary \in [Pairs -> [active : Int, published : Int, sequence : Nat]]
  /\ deltas \in [Pairs -> Seq(Delta)]
  /\ PlaneTypes(plane)
  /\ cycle \in {"Idle", "Marking", "Converging"}
  /\ last \in BOOLEAN
  /\ phase \in Phases
  /\ scope \in SUBSET Owners /\ visit \in SUBSET Owners
  /\ at \in Owners \union {Null}

(* A free object holds no reference.                                       *)
FreeHoldsNothing == \A o \in Objects \ allocated : \A x \in Fields : fields[o][x] = Null

(* Some closed set of allocated objects has every root and, in an open     *)
(* cycle, everything that was shaded.                                      *)
Keeps(T, f, R, S) == Closed(f, T) /\ R \subseteq T /\ S \subseteq T
ShieldIn(active) == IF active THEN Shielded ELSE {}
Kept == \E T \in SUBSET allocated : Keeps(T, fields, RootObjects, ShieldIn(MarkActive))

(* What a marked object refers to is shielded, or still to be scanned.     *)
Unscanned(o, x) == scan.object = o /\ x \in scan.todo
Traces ==
  MarkActive =>
    \A o \in marked, x \in Fields :
      fields[o][x] \in Shielded \union {Null} \/ Unscanned(o, x)

(* A closed set with everything that is shielded has every root.           *)
Covers(f, S, R) ==
  \A T \in SUBSET Objects : Closed(f, T) /\ S \subseteq T => R \subseteq T
Covered == MarkActive => Covers(fields, Shielded, RootObjects)

(* The collector's control.                                                *)
Control ==
  /\ scan # Idle => /\ phase \in {"worklist", "failed"}
                    /\ scan.object \in marked
                    /\ OwnerOf(scan.object) = at
  /\ ~MarkActive => marked = {} /\ Grey = {} /\ tickets = {} /\ scan = Idle
  /\ phase \in {"visit", "worklist", "inbox", "judged", "late"} => MarkActive
  /\ phase = "begin" => ~MarkActive
  /\ phase \in {"worklist", "inbox"} => at \in Owners
  /\ phase = "late" => last
  /\ phase \in {"judged", "late"} /\ last => Grey = {} /\ tickets = {}
  /\ phase = "judged" /\ last => Pending(credits) = {}

(* Every message has a credit of its own, in flight for its family: the   *)
(* tickets ts, the deltas ds under way and those that pl keeps.            *)
Backed(pool, s, family) == pool[s].state = "InFlight" /\ pool[s].family = family

TicketCredits(pool, ts) ==
  /\ \A t \in ts : Backed(pool, t.credit, "MarkTicket")
  /\ \A t, u \in ts : t.credit = u.credit => t = u

DeltaCredits(pool, ds) ==
  /\ \A p \in Pairs : \A k \in 1 .. Len(ds[p]) : Backed(pool, ds[p][k].credit, "EdgeDelta")
  /\ \A p, q \in Pairs : \A k \in 1 .. Len(ds[p]), l \in 1 .. Len(ds[q]) :
       ds[p][k].credit = ds[q][l].credit => p = q /\ k = l

KeptCredits(pool, ds, pl) ==
  /\ \A p \in Pairs : \A h \in pl[p].held : Backed(pool, h.credit, "EdgeDelta")
  /\ \A p, q \in Pairs : \A h \in pl[p].held, g \in pl[q].held :
       h.credit = g.credit => p = q /\ h = g
  /\ \A p, q \in Pairs : \A h \in pl[p].held, k \in 1 .. Len(ds[q]) :
       h.credit # ds[q][k].credit

Credits(pool, ts, ds, pl) ==
  TicketCredits(pool, ts) /\ DeltaCredits(pool, ds) /\ KeptCredits(pool, ds, pl)

IInv ==
  /\ Typing /\ FreeHoldsNothing /\ Kept /\ Traces /\ Covered /\ Control
  /\ Credits(credits, tickets, deltas, plane)

-----------------------------------------------------------------------------
(* What the operations of the pool do to the credits of messages.          *)
PoolTypes(pool, ts, ds, pl) ==
  /\ pool \in Pools
  /\ ts \in SUBSET [credit : Slots, object : Objects]
  /\ ds \in [Pairs -> Seq(Delta)]
  /\ PlaneTypes(pl)

LEMMA CreditsAreSlots ==
  ASSUME NEW pool, NEW ts, NEW ds, NEW pl, PoolTypes(pool, ts, ds, pl)
  PROVE  /\ \A t \in ts : t.credit \in Slots
         /\ \A p \in Pairs : \A k \in 1 .. Len(ds[p]) : ds[p][k] \in Delta /\ ds[p][k].credit \in Slots
         /\ \A p \in Pairs : \A h \in pl[p].held : h.credit \in Slots
<1>1. \A d \in Delta : d.credit \in Slots
  BY DEF Delta
<1>2. ASSUME NEW p \in Pairs, NEW k \in 1 .. Len(ds[p])
      PROVE  ds[p][k] \in Delta
  <2>1. ds[p] \in Seq(Delta)
    BY DEF PoolTypes
  <2> QED BY <2>1
<1>3. \A p \in Pairs : pl[p].held \subseteq Delta
  BY DEF PoolTypes, PlaneTypes
<1>4. \A t \in ts : t.credit \in Slots
  BY DEF PoolTypes
<1> QED BY <1>1, <1>2, <1>3, <1>4

LEMMA NextIsFree ==
  ASSUME NEW pool \in Pools, ~Exhausted(pool)
  PROVE  NextCredit(pool) \in Slots /\ pool[NextCredit(pool)] = Free
BY DEF Exhausted, Pending, NextCredit

LEMMA Acquired ==
  ASSUME NEW pool \in Pools, ~Exhausted(pool),
         NEW v \in Owners, NEW w \in Owners, NEW f \in Families
  PROVE  LET new == AcquireWork(pool, v, w, f)
             n == NextCredit(pool)
         IN  /\ new \in Pools
             /\ n \in Slots /\ pool[n] = Free
             /\ Backed(new, n, f)
             /\ \A s \in Slots \ {n} : new[s] = pool[s]
<1>1. NextCredit(pool) \in Slots /\ pool[NextCredit(pool)] = Free
  BY NextIsFree
<1> QED BY <1>1 DEF AcquireWork, Pools, Credit, Backed, Families

LEMMA FreeIsUnused ==
  ASSUME NEW pool, NEW n, pool[n] = Free, NEW f
  PROVE  ~Backed(pool, n, f)
BY DEF Free, Backed

LEMMA TicketAcquires ==
  ASSUME NEW pool, NEW ts, NEW ds, NEW pl, PoolTypes(pool, ts, ds, pl),
         Credits(pool, ts, ds, pl), ~Exhausted(pool),
         NEW v \in Owners, NEW w \in Owners, NEW o
  PROVE  Credits(AcquireWork(pool, v, w, "MarkTicket"),
                 ts \union {[credit |-> NextCredit(pool), object |-> o]}, ds, pl)
<1> DEFINE n == NextCredit(pool)
           new == AcquireWork(pool, v, w, "MarkTicket")
           t0 == [credit |-> n, object |-> o]
<1>1. /\ n \in Slots /\ Backed(new, n, "MarkTicket")
      /\ \A s \in Slots \ {n} : new[s] = pool[s]
      /\ ~Backed(pool, n, "MarkTicket") /\ ~Backed(pool, n, "EdgeDelta")
  BY Acquired, FreeIsUnused DEF Families, PoolTypes
<1>2. t0.credit = n
  OBVIOUS
<1>3. /\ \A t \in ts : t.credit \in Slots
      /\ \A p \in Pairs : \A k \in 1 .. Len(ds[p]) : ds[p][k].credit \in Slots
      /\ \A p \in Pairs : \A h \in pl[p].held : h.credit \in Slots
  BY CreditsAreSlots
<1> HIDE DEF n, new, t0
<1>4. ASSUME NEW s \in Slots, NEW f \in Families, Backed(pool, s, f)
      PROVE  s # n /\ Backed(new, s, f)
  BY <1>1, <1>4 DEF Backed, Families
<1>5. TicketCredits(new, ts \union {t0})
  BY <1>1, <1>2, <1>3, <1>4 DEF Credits, TicketCredits, Families
<1>6. DeltaCredits(new, ds)
  BY <1>3, <1>4 DEF Credits, DeltaCredits, Families
<1>7. KeptCredits(new, ds, pl)
  BY <1>3, <1>4 DEF Credits, KeptCredits, Families
<1> QED BY <1>5, <1>6, <1>7 DEF Credits, n, new, t0

LEMMA TicketConsumed ==
  ASSUME NEW pool, NEW ts, NEW ds, NEW pl, PoolTypes(pool, ts, ds, pl),
         Credits(pool, ts, ds, pl), NEW t \in ts
  PROVE  /\ ConsumeWork(pool, t.credit) \in Pools
         /\ Credits(ConsumeWork(pool, t.credit), ts \ {t}, ds, pl)
<1> DEFINE new == ConsumeWork(pool, t.credit)
<1>1. /\ t.credit \in Slots /\ Backed(pool, t.credit, "MarkTicket")
      /\ \A u \in ts : u.credit \in Slots
      /\ \A p \in Pairs : \A k \in 1 .. Len(ds[p]) : ds[p][k].credit \in Slots
      /\ \A p \in Pairs : \A h \in pl[p].held : h.credit \in Slots
  BY CreditsAreSlots DEF Credits, TicketCredits
<1>2. \A s \in Slots \ {t.credit} : new[s] = pool[s]
  BY DEF ConsumeWork, PoolTypes, Pools
<1>3. new \in Pools
  <2>1. pool[t.credit] \in Credit
    BY <1>1 DEF PoolTypes, Pools, Backed, Free
  <2>2. [pool[t.credit] EXCEPT !.state = "Done"] \in Credit
    BY <2>1 DEF Credit
  <2> QED BY <1>1, <2>2 DEF ConsumeWork, PoolTypes, Pools
<1> HIDE DEF new
<1>4. \A s \in Slots, f \in Families : s # t.credit /\ Backed(pool, s, f) => Backed(new, s, f)
  BY <1>2 DEF Backed
<1>5. \A s \in Slots : Backed(pool, s, "EdgeDelta") => Backed(new, s, "EdgeDelta")
  BY <1>1, <1>2 DEF Backed
<1>6. TicketCredits(new, ts \ {t})
  BY <1>1, <1>4 DEF Credits, TicketCredits, Families
<1>7. DeltaCredits(new, ds)
  BY <1>1, <1>5 DEF Credits, DeltaCredits
<1>8. KeptCredits(new, ds, pl)
  BY <1>1, <1>5 DEF Credits, KeptCredits
<1> QED BY <1>3, <1>6, <1>7, <1>8 DEF Credits, new

LEMMA OwnersSettled ==
  ASSUME NEW pool, NEW ts, NEW ds, NEW pl, PoolTypes(pool, ts, ds, pl),
         Credits(pool, ts, ds, pl), NEW W
  PROVE  /\ SettleOwners(pool, W) \in Pools
         /\ Credits(SettleOwners(pool, W), ts, ds, pl)
<1> DEFINE new == SettleOwners(pool, W)
<1>1. /\ \A u \in ts : u.credit \in Slots
      /\ \A p \in Pairs : \A k \in 1 .. Len(ds[p]) : ds[p][k].credit \in Slots
      /\ \A p \in Pairs : \A h \in pl[p].held : h.credit \in Slots
  BY CreditsAreSlots
<1>2. new \in Pools
  BY DEF SettleOwners, ReturnWork, PoolTypes, Pools
<1>3. \A s \in Slots, f \in Families : Backed(pool, s, f) => Backed(new, s, f)
  BY DEF SettleOwners, ReturnWork, Settleable, Backed
<1> HIDE DEF new
<1>4. TicketCredits(new, ts)
  BY <1>1, <1>3 DEF Credits, TicketCredits, Families
<1>5. DeltaCredits(new, ds)
  BY <1>1, <1>3 DEF Credits, DeltaCredits, Families
<1>6. KeptCredits(new, ds, pl)
  BY <1>1, <1>3 DEF Credits, KeptCredits, Families
<1> QED BY <1>2, <1>4, <1>5, <1>6 DEF Credits, new

LEMMA DeltaAcquires ==
  ASSUME NEW pool, NEW ts, NEW ds, NEW pl, PoolTypes(pool, ts, ds, pl),
         Credits(pool, ts, ds, pl), ~Exhausted(pool),
         NEW v \in Owners, NEW w \in Owners,
         NEW p \in Pairs, NEW d \in Delta, d.credit = NextCredit(pool)
  PROVE  Credits(AcquireWork(pool, v, w, "EdgeDelta"), ts,
                 [ds EXCEPT ![p] = Append(@, d)], pl)
<1> DEFINE n == NextCredit(pool)
           new == AcquireWork(pool, v, w, "EdgeDelta")
           es == [ds EXCEPT ![p] = Append(@, d)]
<1>1. /\ n \in Slots /\ Backed(new, n, "EdgeDelta")
      /\ \A s \in Slots \ {n} : new[s] = pool[s]
      /\ ~Backed(pool, n, "MarkTicket") /\ ~Backed(pool, n, "EdgeDelta")
  BY Acquired, FreeIsUnused DEF Families, PoolTypes
<1>2. /\ \A t \in ts : t.credit \in Slots
      /\ \A q \in Pairs : \A k \in 1 .. Len(ds[q]) : ds[q][k].credit \in Slots
      /\ \A q \in Pairs : \A h \in pl[q].held : h.credit \in Slots
  BY CreditsAreSlots
<1>3. /\ Len(es[p]) = Len(ds[p]) + 1 /\ Len(ds[p]) \in Nat
      /\ es[p][Len(ds[p]) + 1] = d
      /\ \A k \in 1 .. Len(ds[p]) : es[p][k] = ds[p][k]
  <2>1. ds[p] \in Seq(Delta) /\ es[p] = Append(ds[p], d)
    BY DEF PoolTypes
  <2> QED BY <2>1, AppendProperties
<1>4. \A q \in Pairs : q # p => es[q] = ds[q]
  BY DEF PoolTypes
<1>5. d.credit = n
  OBVIOUS
<1> HIDE DEF n, new, es
<1>6. ASSUME NEW s \in Slots, NEW f \in Families, Backed(pool, s, f)
      PROVE  s # n /\ Backed(new, s, f)
  BY <1>1, <1>6 DEF Backed, Families
<1>7. TicketCredits(new, ts)
  BY <1>2, <1>6 DEF Credits, TicketCredits, Families
<1>8. \* an element of es is the new one, or one of ds
      ASSUME NEW q \in Pairs, NEW k \in 1 .. Len(es[q])
      PROVE  \/ q = p /\ k = Len(ds[p]) + 1 /\ es[q][k].credit = n
             \/ /\ k \in 1 .. Len(ds[q]) /\ es[q][k] = ds[q][k]
                /\ es[q][k].credit # n /\ Backed(new, es[q][k].credit, "EdgeDelta")
  <2>1. CASE q = p /\ k = Len(ds[p]) + 1
    BY <2>1, <1>3, <1>5
  <2>2. CASE ~(q = p /\ k = Len(ds[p]) + 1)
    <3>1. k \in 1 .. Len(ds[q]) /\ es[q][k] = ds[q][k]
      BY <2>2, <1>3, <1>4
    <3>2. Backed(pool, ds[q][k].credit, "EdgeDelta") /\ ds[q][k].credit \in Slots
      BY <3>1, <1>2 DEF Credits, DeltaCredits
    <3> QED BY <3>1, <3>2, <1>6 DEF Families
  <2> QED BY <2>1, <2>2
<1>9. DeltaCredits(new, es)
  <2>1. ASSUME NEW q \in Pairs, NEW k \in 1 .. Len(es[q])
        PROVE  Backed(new, es[q][k].credit, "EdgeDelta")
    BY <1>1, <1>8
  <2>2. ASSUME NEW q \in Pairs, NEW r \in Pairs,
               NEW k \in 1 .. Len(es[q]), NEW l \in 1 .. Len(es[r]),
               es[q][k].credit = es[r][l].credit
        PROVE  q = r /\ k = l
    <3>1. CASE es[q][k].credit = n
      <4>1. q = p /\ k = Len(ds[p]) + 1
        BY <3>1, <1>8
      <4>2. r = p /\ l = Len(ds[p]) + 1
        BY <3>1, <2>2, <1>8
      <4> QED BY <4>1, <4>2
    <3>2. CASE es[q][k].credit # n
      <4>1. k \in 1 .. Len(ds[q]) /\ es[q][k] = ds[q][k]
        BY <3>2, <1>8
      <4>2. l \in 1 .. Len(ds[r]) /\ es[r][l] = ds[r][l]
        BY <3>2, <2>2, <1>8
      <4>3. ds[q][k].credit = ds[r][l].credit
        BY <4>1, <4>2, <2>2
      <4> QED BY <4>1, <4>2, <4>3 DEF Credits, DeltaCredits
    <3> QED BY <3>1, <3>2
  <2> QED BY <2>1, <2>2 DEF DeltaCredits
<1>10. KeptCredits(new, es, pl)
  <2>1. ASSUME NEW q \in Pairs, NEW h \in pl[q].held
        PROVE  h.credit # n /\ Backed(new, h.credit, "EdgeDelta")
    BY <1>2, <1>6 DEF Credits, KeptCredits, Families
  <2>2. ASSUME NEW q \in Pairs, NEW r \in Pairs, NEW h \in pl[q].held, NEW k \in 1 .. Len(es[r])
        PROVE  h.credit # es[r][k].credit
    BY <1>8, <2>1 DEF Credits, KeptCredits
  <2> QED BY <2>1, <2>2 DEF Credits, KeptCredits
<1> QED BY <1>7, <1>9, <1>10 DEF Credits, new, es

\* The first delta of a pair is taken off: the others move up by one.
LEMMA HeadTaken ==
  ASSUME NEW ds \in [Pairs -> Seq(Delta)], NEW p \in Pairs, ds[p] # << >>
  PROVE  LET es == [ds EXCEPT ![p] = Tail(@)]
         IN  /\ es \in [Pairs -> Seq(Delta)]
             /\ Head(ds[p]) \in Delta /\ 1 \in 1 .. Len(ds[p]) /\ Head(ds[p]) = ds[p][1]
             /\ \A q \in Pairs : q # p => es[q] = ds[q]
             /\ \A k \in 1 .. Len(es[p]) : k + 1 \in 1 .. Len(ds[p]) /\ es[p][k] = ds[p][k + 1]
<1>1. /\ ds[p] \in Seq(Delta) /\ Tail(ds[p]) \in Seq(Delta)
      /\ Len(ds[p]) \in Nat \ {0} /\ Len(Tail(ds[p])) = Len(ds[p]) - 1
      /\ Head(ds[p]) \in Delta /\ Head(ds[p]) = ds[p][1]
      /\ \A k \in 1 .. Len(Tail(ds[p])) : Tail(ds[p])[k] = ds[p][k + 1]
  BY HeadTailProperties, EmptySeq
<1> DEFINE es == [ds EXCEPT ![p] = Tail(@)]
<1>2. es \in [Pairs -> Seq(Delta)] /\ es[p] = Tail(ds[p]) /\ \A q \in Pairs : q # p => es[q] = ds[q]
  BY <1>1
<1> HIDE DEF es
<1>3. \A k \in 1 .. Len(es[p]) : k + 1 \in 1 .. Len(ds[p]) /\ es[p][k] = ds[p][k + 1]
  BY <1>1, <1>2
<1>4. 1 \in 1 .. Len(ds[p])
  BY <1>1
<1> QED BY <1>1, <1>2, <1>3, <1>4 DEF es

\* What is left after the head of p was taken comes from other messages.
LEMMA RestIsOther ==
  ASSUME NEW pool, NEW ts, NEW ds, NEW pl, PoolTypes(pool, ts, ds, pl),
         Credits(pool, ts, ds, pl), NEW p \in Pairs, ds[p] # << >>
  PROVE  LET es == [ds EXCEPT ![p] = Tail(@)]
         IN  /\ \A q \in Pairs : \A k \in 1 .. Len(es[q]) :
                  /\ es[q][k].credit # Head(ds[p]).credit
                  /\ es[q][k].credit \in Slots /\ Backed(pool, es[q][k].credit, "EdgeDelta")
                  /\ \A r \in Pairs : \A h \in pl[r].held : h.credit # es[q][k].credit
             /\ DeltaCredits(pool, es)
<1> DEFINE es == [ds EXCEPT ![p] = Tail(@)]
<1>1. /\ Head(ds[p]) \in Delta /\ 1 \in 1 .. Len(ds[p]) /\ Head(ds[p]) = ds[p][1]
      /\ \A q \in Pairs : q # p => es[q] = ds[q]
      /\ \A k \in 1 .. Len(es[p]) : k + 1 \in 1 .. Len(ds[p]) /\ es[p][k] = ds[p][k + 1]
      /\ es \in [Pairs -> Seq(Delta)]
  BY HeadTaken DEF PoolTypes
<1> HIDE DEF es
<1> DEFINE old(q, k) == IF q = p THEN k + 1 ELSE k
<1>2. ASSUME NEW q \in Pairs, NEW k \in 1 .. Len(es[q])
      PROVE  /\ k \in Nat /\ old(q, k) \in 1 .. Len(ds[q]) /\ es[q][k] = ds[q][old(q, k)]
             /\ q = p => old(q, k) # 1
  BY <1>1
<1>3. \A q \in Pairs : \A k, l \in Nat : old(q, k) = old(q, l) => k = l
  OBVIOUS
<1> HIDE DEF old
<1>4. ASSUME NEW q \in Pairs, NEW k \in 1 .. Len(es[q])
      PROVE  /\ es[q][k].credit # Head(ds[p]).credit
             /\ es[q][k].credit \in Slots /\ Backed(pool, es[q][k].credit, "EdgeDelta")
             /\ \A r \in Pairs : \A h \in pl[r].held : h.credit # es[q][k].credit
  <2>1. old(q, k) \in 1 .. Len(ds[q]) /\ es[q][k] = ds[q][old(q, k)] /\ (q = p => old(q, k) # 1)
    BY <1>2
  <2>2. es[q][k].credit # ds[p][1].credit
    BY <2>1, <1>1 DEF Credits, DeltaCredits
  <2>3. Backed(pool, es[q][k].credit, "EdgeDelta") /\ es[q][k].credit \in Slots
    BY <2>1, CreditsAreSlots DEF Credits, DeltaCredits
  <2>4. \A r \in Pairs : \A h \in pl[r].held : h.credit # es[q][k].credit
    BY <2>1 DEF Credits, KeptCredits
  <2> QED BY <1>1, <2>2, <2>3, <2>4
<1>5. ASSUME NEW q \in Pairs, NEW r \in Pairs,
             NEW k \in 1 .. Len(es[q]), NEW l \in 1 .. Len(es[r]),
             es[q][k].credit = es[r][l].credit
      PROVE  q = r /\ k = l
  <2>1. q = r /\ old(q, k) = old(r, l)
    <3>1. old(q, k) \in 1 .. Len(ds[q]) /\ es[q][k] = ds[q][old(q, k)]
      BY <1>2
    <3>2. old(r, l) \in 1 .. Len(ds[r]) /\ es[r][l] = ds[r][old(r, l)]
      BY <1>2
    <3>3. ds[q][old(q, k)].credit = ds[r][old(r, l)].credit
      BY <3>1, <3>2, <1>5
    <3> QED BY <3>1, <3>2, <3>3 DEF Credits, DeltaCredits
  <2> QED BY <2>1, <1>2, <1>3
<1>6. DeltaCredits(pool, es)
  BY <1>4, <1>5 DEF DeltaCredits
<1> QED BY <1>4, <1>6 DEF es

LEMMA HoldIsRecord ==
  ASSUME NEW pair, NEW d,
         pair = [applied |-> pair.applied, next |-> pair.next, held |-> pair.held]
  PROVE  Hold(pair, d) = [applied |-> pair.applied, next |-> pair.next, held |-> pair.held \union {d}]
<1>1. ASSUME NEW a, NEW n, NEW h
      PROVE  Hold([applied |-> a, next |-> n, held |-> h], d)
               = [applied |-> a, next |-> n, held |-> h \union {d}]
  BY DEF Hold
<1>2. Hold([applied |-> pair.applied, next |-> pair.next, held |-> pair.held], d)
        = [applied |-> pair.applied, next |-> pair.next, held |-> pair.held \union {d}]
  BY <1>1
<1> QED BY <1>2

LEMMA DeltaKept ==
  ASSUME NEW pool, NEW ts, NEW ds, NEW pl, PoolTypes(pool, ts, ds, pl),
         Credits(pool, ts, ds, pl), NEW p \in Pairs, ds[p] # << >>
  PROVE  LET es == [ds EXCEPT ![p] = Tail(@)]
             ql == [pl EXCEPT ![p] = Hold(@, Head(ds[p]))]
         IN  PoolTypes(pool, ts, es, ql) /\ Credits(pool, ts, es, ql)
<1> DEFINE es == [ds EXCEPT ![p] = Tail(@)]
           ql == [pl EXCEPT ![p] = Hold(@, Head(ds[p]))]
           d == Head(ds[p])
<1>1. /\ \A q \in Pairs : \A k \in 1 .. Len(es[q]) :
           /\ es[q][k].credit # d.credit
           /\ es[q][k].credit \in Slots /\ Backed(pool, es[q][k].credit, "EdgeDelta")
           /\ \A r \in Pairs : \A h \in pl[r].held : h.credit # es[q][k].credit
      /\ DeltaCredits(pool, es)
  BY RestIsOther
<1>2. /\ d \in Delta /\ d = ds[p][1] /\ 1 \in 1 .. Len(ds[p])
      /\ es \in [Pairs -> Seq(Delta)]
  BY HeadTaken DEF PoolTypes
<1>3. Backed(pool, d.credit, "EdgeDelta") /\ \A q \in Pairs : \A h \in pl[q].held : h.credit # d.credit
  BY <1>2 DEF Credits, DeltaCredits, KeptCredits
<1>4. /\ ql[p].held = pl[p].held \union {d}
      /\ \A q \in Pairs : q # p => ql[q].held = pl[q].held
      /\ \A q \in Pairs : \A h \in ql[q].held : h \in pl[q].held \/ (q = p /\ h = d)
      /\ ql = [q \in Pairs |-> [applied |-> ql[q].applied, next |-> ql[q].next, held |-> ql[q].held]]
  <2>1. Hold(pl[p], d) = [applied |-> pl[p].applied, next |-> pl[p].next, held |-> pl[p].held \union {d}]
    <3>1. pl[p] = [applied |-> pl[p].applied, next |-> pl[p].next, held |-> pl[p].held]
      BY DEF PoolTypes, PlaneTypes
    <3> QED BY <3>1, HoldIsRecord
  <2>2. ql = [q \in Pairs |-> IF q = p THEN Hold(pl[p], d) ELSE pl[q]]
    BY DEF PoolTypes, PlaneTypes
  <2>3. \A q \in Pairs : pl[q] = [applied |-> pl[q].applied, next |-> pl[q].next, held |-> pl[q].held]
    BY DEF PoolTypes, PlaneTypes
  <2> HIDE DEF ql, d
  <2>4. \A q \in Pairs : ql[q] = [applied |-> ql[q].applied, next |-> ql[q].next, held |-> ql[q].held]
    BY <2>1, <2>2, <2>3
  <2> QED BY <2>1, <2>2, <2>4
<1> HIDE DEF es, ql, d
<1>5. KeptCredits(pool, es, ql)
  <2>1. \A q \in Pairs : \A h \in ql[q].held : Backed(pool, h.credit, "EdgeDelta")
    BY <1>3, <1>4 DEF Credits, KeptCredits
  <2>2. \A q, r \in Pairs : \A h \in ql[q].held, g \in ql[r].held :
          h.credit = g.credit => q = r /\ h = g
    BY <1>3, <1>4 DEF Credits, KeptCredits
  <2>3. \A q, r \in Pairs : \A h \in ql[q].held, k \in 1 .. Len(es[r]) :
          h.credit # es[r][k].credit
    BY <1>1, <1>4
  <2> QED BY <2>1, <2>2, <2>3 DEF KeptCredits
<1>6. PoolTypes(pool, ts, es, ql)
  BY <1>2, <1>4 DEF PoolTypes, PlaneTypes
<1> QED BY <1>1, <1>5, <1>6 DEF Credits, es, ql, d

LEMMA DeltaApplied ==
  ASSUME NEW pool, NEW ts, NEW ds, NEW pl, PoolTypes(pool, ts, ds, pl),
         Credits(pool, ts, ds, pl), NEW p \in Pairs, ds[p] # << >>
  PROVE  LET es == [ds EXCEPT ![p] = Tail(@)]
             ql == [pl EXCEPT ![p] = ApplyInOrder(@, Head(ds[p]))]
             new == ReturnWork(pool, ReleasedCredits(pl[p], Head(ds[p])))
         IN  PoolTypes(new, ts, es, ql) /\ Credits(new, ts, es, ql)
<1> DEFINE es == [ds EXCEPT ![p] = Tail(@)]
           ql == [pl EXCEPT ![p] = ApplyInOrder(@, Head(ds[p]))]
           d == Head(ds[p])
           turn == InTurn(pl[p].held, d.sequence)
           back == ReleasedCredits(pl[p], d)
           new == ReturnWork(pool, back)
<1>1. /\ \A q \in Pairs : \A k \in 1 .. Len(es[q]) :
           /\ es[q][k].credit # d.credit
           /\ es[q][k].credit \in Slots /\ Backed(pool, es[q][k].credit, "EdgeDelta")
           /\ \A r \in Pairs : \A h \in pl[r].held : h.credit # es[q][k].credit
      /\ DeltaCredits(pool, es)
  BY RestIsOther
<1>2. /\ d \in Delta /\ d = ds[p][1] /\ 1 \in 1 .. Len(ds[p])
      /\ es \in [Pairs -> Seq(Delta)]
  BY HeadTaken DEF PoolTypes
<1>3. Backed(pool, d.credit, "EdgeDelta") /\ \A q \in Pairs : \A h \in pl[q].held : h.credit # d.credit
  BY <1>2 DEF Credits, DeltaCredits, KeptCredits
<1>4. /\ turn \subseteq pl[p].held
      /\ \A s : s \in back <=> s = d.credit \/ \E h \in turn : s = h.credit
  BY DEF InTurn, ReleasedCredits
<1>5. /\ \A q \in Pairs : ql[q].held \subseteq pl[q].held
      /\ \A h \in ql[p].held : h \notin turn
  <2>1. ql = [q \in Pairs |-> IF q = p THEN ApplyInOrder(pl[p], d) ELSE pl[q]]
    BY DEF PoolTypes, PlaneTypes
  <2>2. ApplyInOrder(pl[p], d).held = pl[p].held \ turn
    BY DEF ApplyInOrder
  <2> HIDE DEF ql, d, turn
  <2> QED BY <2>1, <2>2
<1>6. new = [s \in Slots |-> IF s \in back THEN Free ELSE pool[s]]
  BY DEF ReturnWork
<1>7. /\ \A t \in ts : t.credit \in Slots
      /\ \A q \in Pairs : \A h \in pl[q].held : h.credit \in Slots
  BY CreditsAreSlots
<1> HIDE DEF es, ql, d, turn, back, new
<1>8. \A s \in Slots, f \in Families : s \notin back /\ Backed(pool, s, f) => Backed(new, s, f)
  BY <1>6 DEF Backed
<1>9. \A s \in back : Backed(pool, s, "EdgeDelta")
  BY <1>3, <1>4 DEF Credits, KeptCredits
<1>10. TicketCredits(new, ts)
  <2>1. \A t \in ts : t.credit \notin back
    BY <1>9 DEF Credits, TicketCredits, Backed
  <2> QED BY <2>1, <1>7, <1>8 DEF Credits, TicketCredits, Families
<1>11. DeltaCredits(new, es)
  <2>1. \A q \in Pairs : \A k \in 1 .. Len(es[q]) : es[q][k].credit \notin back
    BY <1>1, <1>4
  <2> QED BY <2>1, <1>1, <1>8 DEF DeltaCredits, Families
<1>12. KeptCredits(new, es, ql)
  <2>1. ASSUME NEW q \in Pairs, NEW h \in ql[q].held
        PROVE  h.credit \notin back
    <3>1. h \in pl[q].held /\ h.credit # d.credit
      BY <1>3, <1>5
    <3>2. ASSUME NEW g \in turn, g.credit = h.credit PROVE FALSE
      BY <3>1, <3>2, <1>4, <1>5 DEF Credits, KeptCredits
    <3> QED BY <3>1, <3>2, <1>4
  <2>2. \A q \in Pairs : \A h \in ql[q].held : Backed(new, h.credit, "EdgeDelta")
    BY <2>1, <1>5, <1>7, <1>8 DEF Credits, KeptCredits, Families
  <2>3. \A q, r \in Pairs : \A h \in ql[q].held, g \in ql[r].held :
          h.credit = g.credit => q = r /\ h = g
    BY <1>5 DEF Credits, KeptCredits
  <2>4. \A q, r \in Pairs : \A h \in ql[q].held, k \in 1 .. Len(es[r]) :
          h.credit # es[r][k].credit
    BY <1>1, <1>5
  <2> QED BY <2>2, <2>3, <2>4 DEF KeptCredits
<1>13. PoolTypes(new, ts, es, ql)
  <2>1. new \in Pools
    BY <1>6 DEF PoolTypes, Pools
  <2>2. \A q \in Pairs : ql[q].held \in SUBSET Delta
    BY <1>5 DEF PoolTypes, PlaneTypes
  <2>3. ql = [q \in Pairs |-> [applied |-> ql[q].applied, next |-> ql[q].next, held |-> ql[q].held]]
    BY DEF ql, ApplyInOrder, PoolTypes, PlaneTypes
  <2> QED BY <2>1, <2>2, <2>3, <1>2 DEF PoolTypes, PlaneTypes
<1> QED BY <1>10, <1>11, <1>12, <1>13 DEF Credits, es, ql, d, back, new

-----------------------------------------------------------------------------
(* No step inside an open cycle shields less than before.                  *)
Grows == MarkActive /\ MarkActive' => Shielded \subseteq Shielded'

LEMMA ReachableIsKept ==
  ASSUME NEW T \in SUBSET Objects, Closed(fields, T), RootObjects \subseteq T
  PROVE  Reachable \subseteq T
BY DEF Reachable, Closure

\* A step that leaves the heap and the shading alone.
LEMMA SameShading ==
  ASSUME FreeHoldsNothing, Kept, Traces, Covered,
         UNCHANGED <<allocated, fields, roots, marked, grey, scan, tickets>>,
         MarkActive' = MarkActive
  PROVE  FreeHoldsNothing' /\ Kept' /\ Traces' /\ Covered' /\ Grows
<1>1. Grey' = Grey /\ Ticketed' = Ticketed
  BY DEF Grey, Ticketed
<1>2. Shielded' = Shielded /\ RootObjects' = RootObjects
  BY <1>1 DEF Shielded, RootObjects
<1>3. ShieldIn(MarkActive)' = ShieldIn(MarkActive)
  BY <1>2 DEF ShieldIn
<1>4. FreeHoldsNothing'
  BY DEF FreeHoldsNothing
<1>5. Kept'
  BY <1>2, <1>3 DEF Kept
<1>6. Traces'
  BY <1>2 DEF Traces, Unscanned
<1>7. Covered'
  BY <1>2 DEF Covered
<1> QED BY <1>2, <1>4, <1>5, <1>6, <1>7 DEF Grows

LEMMA SameHeld ==
  ASSUME NEW pool, NEW ts, NEW ds, NEW pl, Credits(pool, ts, ds, pl),
         NEW ql, \A p \in Pairs : ql[p].held = pl[p].held
  PROVE  Credits(pool, ts, ds, ql)
BY DEF Credits, KeptCredits

LEMMA ZeroPairsRetired ==
  ASSUME NEW pl, PlaneTypes(pl)
  PROVE  /\ PlaneTypes(RetireZeroPairs(pl))
         /\ \A p \in Pairs : RetireZeroPairs(pl)[p].held = pl[p].held
<1>1. ASSUME NEW p \in Pairs
      PROVE  LET r == RetireZeroPairs(pl)[p]
             IN  r.held = pl[p].held /\ r = [applied |-> r.applied, next |-> r.next, held |-> r.held]
  <2>1. CASE pl[p].applied = 0 /\ pl[p].held = {}
    BY <2>1 DEF RetireZeroPairs, NewPair
  <2>2. CASE ~(pl[p].applied = 0 /\ pl[p].held = {})
    BY <2>2 DEF RetireZeroPairs, PlaneTypes
  <2> QED BY <2>1, <2>2
<1>2. RetireZeroPairs(pl) = [p \in Pairs |-> RetireZeroPairs(pl)[p]]
  BY DEF RetireZeroPairs
<1> QED BY <1>1, <1>2 DEF PlaneTypes

\* A step of the collector's control alone.
LEMMA ControlStep ==
  ASSUME IInv,
         UNCHANGED <<allocated, fields, roots, marked, grey, scan, tickets, credits,
                     summary, deltas, cycle, last>>,
         plane' = plane \/ plane' = RetireZeroPairs(plane),
         phase' \in Phases, scope' \in SUBSET Owners, visit' \in SUBSET Owners,
         at' \in Owners \union {Null}, Control'
  PROVE  IInv' /\ Grows
<1>1. /\ Typing /\ FreeHoldsNothing /\ Kept /\ Traces /\ Covered
      /\ Credits(credits, tickets, deltas, plane)
  BY DEF IInv
<1>2. PlaneTypes(plane') /\ \A p \in Pairs : plane'[p].held = plane[p].held
  BY <1>1, ZeroPairsRetired DEF Typing
<1>3. Typing'
  BY <1>1, <1>2 DEF Typing
<1>4. MarkActive' = MarkActive
  BY DEF MarkActive
<1>5. FreeHoldsNothing' /\ Kept' /\ Traces' /\ Covered' /\ Grows
  BY <1>1, <1>4, SameShading
<1>6. Credits(credits, tickets, deltas, plane)'
  BY <1>1, <1>2, SameHeld
<1> QED BY <1>3, <1>5, <1>6 DEF IInv

LEMMA FailStep ==
  ASSUME IInv, Fail
  PROVE  IInv' /\ Grows
<1>1. Typing /\ Control
  BY DEF IInv
<1>2. Grey' = Grey /\ MarkActive' = MarkActive
  BY DEF Fail, markVars, cycleVars, Grey, MarkActive
<1>3. Control'
  BY <1>1, <1>2 DEF Fail, Control, heapVars, markVars, cycleVars, passVars, Phases, Typing
<1> QED BY <1>1, <1>3, ControlStep
        DEF Fail, Typing, Phases, heapVars, markVars, edgeVars, cycleVars, passVars

LEMMA MinorCycleStep ==
  ASSUME IInv, MinorCycle
  PROVE  IInv' /\ Grows
<1>1. Typing /\ Control
  BY DEF IInv
<1>2. Grey' = Grey /\ MarkActive' = MarkActive
  BY DEF MinorCycle, markVars, Grey, MarkActive
<1>3. Control'
  BY <1>1, <1>2 DEF MinorCycle, Control, heapVars, markVars, passVars
<1> QED BY <1>1, <1>3, ControlStep
        DEF MinorCycle, Typing, heapVars, markVars, edgeVars, passVars

LEMMA CallStep ==
  ASSUME IInv, Call
  PROVE  IInv' /\ Grows
<1>1. Typing /\ Control
  BY DEF IInv
<1>2. /\ phase = "mutate"
      /\ UNCHANGED <<heapVars, markVars, credits, edgeVars, cycleVars, at>>
      /\ \/ phase' = "drain"
         \/ phase' = IF MarkActive THEN "visit" ELSE "begin"
      /\ scope' \in SUBSET Owners /\ visit' \in SUBSET Owners
  <2>1. CASE CallCycle \/ CallBounded
    BY <2>1 DEF CallCycle, CallBounded, StartDrain, Go, Event, FirstRound
  <2>2. ASSUME NEW w \in Owners, CallMajor(w)
        PROVE  <1>2!1 /\ <1>2!2 /\ <1>2!3 /\ <1>2!4
    BY <2>2 DEF CallMajor, Go, Event, FirstRound
  <2> QED BY <2>1, <2>2 DEF Call
<1>3. Grey' = Grey /\ MarkActive' = MarkActive
  BY <1>2 DEF markVars, cycleVars, Grey, MarkActive
<1>4. Control'
  BY <1>1, <1>2, <1>3 DEF Control, markVars, cycleVars
<1> QED BY <1>1, <1>2, <1>4, ControlStep
        DEF Typing, Phases, heapVars, markVars, edgeVars, cycleVars

LEMMA ReturnSteps ==
  ASSUME IInv, Continue \/ KeepOpen
  PROVE  IInv' /\ Grows
<1>1. Typing /\ Control
  BY DEF IInv
<1>2. /\ phase' = "mutate" /\ scope' = {} /\ visit' = {} /\ at' = Null
      /\ UNCHANGED <<heapVars, markVars, credits, summary, deltas, cycleVars>>
      /\ plane' = plane \/ plane' = RetireZeroPairs(plane)
      /\ phase # "worklist" /\ phase # "failed"
  BY DEF Continue, KeepOpen, Settled, Return, edgeVars
<1>3. Grey' = Grey /\ MarkActive' = MarkActive
  BY <1>2 DEF markVars, cycleVars, Grey, MarkActive
<1>4. Control'
  BY <1>1, <1>2, <1>3 DEF Control, markVars, cycleVars
<1> QED BY <1>1, <1>2, <1>4, ControlStep
        DEF Typing, Phases, heapVars, markVars, cycleVars

LEMMA AdvanceSteps ==
  ASSUME IInv, Drained \/ AllPublished \/ WorklistEmpty \/ RemarkComplete
  PROVE  IInv' /\ Grows
<1>1. Typing /\ Control
  BY DEF IInv
<1>2. /\ UNCHANGED <<heapVars, markVars, credits, edgeVars, cycle, last>>
      /\ \/ at' = Null /\ scope' = {} /\ visit' = {}
         \/ UNCHANGED <<at, scope, visit>>
      /\ \/ phase' \in {"publish", "mutate"} /\ phase = "drain"
         \/ phase' = "mutate" /\ phase = "publish"
         \/ phase' = (IF MarkActive THEN "visit" ELSE "begin") /\ phase = "publish"
         \/ phase' = "inbox" /\ phase = "worklist" /\ scan = Idle /\ at' = at
         \/ phase' = "late" /\ phase = "judged" /\ last
  BY DEF Drained, AllPublished, WorklistEmpty, RemarkComplete, Go, Return, cycleVars, passVars
<1>3. Grey' = Grey /\ MarkActive' = MarkActive
  BY <1>2 DEF markVars, Grey, MarkActive
<1>4. Control'
  BY <1>1, <1>2, <1>3 DEF Control, markVars
<1>5. phase' \in Phases /\ scope' \in SUBSET Owners /\ visit' \in SUBSET Owners /\ at' \in Owners \union {Null}
  BY <1>1, <1>2 DEF Typing, Phases
<1> QED BY <1>2, <1>4, <1>5, ControlStep DEF heapVars, markVars, edgeVars

LEMMA VisitStep ==
  ASSUME IInv, Visit
  PROVE  IInv' /\ Grows
<1>1. Typing /\ Control
  BY DEF IInv
<1>2. /\ phase \in {"visit", "inbox"} /\ phase' = "worklist"
      /\ visit # {} /\ at' = (CHOOSE w \in visit : TRUE) /\ visit' = visit \ {at'}
      /\ UNCHANGED <<heapVars, markVars, credits, edgeVars, cycleVars, scope>>
  BY DEF Visit, BetweenOwners, Go
<1>3. at' \in visit
  BY <1>2
<1>4. at' \in Owners /\ visit' \in SUBSET Owners /\ scope' \in SUBSET Owners
  BY <1>1, <1>2, <1>3 DEF Typing
<1>5. Grey' = Grey /\ MarkActive' = MarkActive
  BY <1>2 DEF markVars, cycleVars, Grey, MarkActive
<1>6. Control'
  BY <1>1, <1>2, <1>4, <1>5 DEF Control, markVars, cycleVars
<1> QED BY <1>2, <1>4, <1>6, ControlStep DEF Phases, heapVars, markVars, edgeVars, cycleVars

\* Credits are given back, the state of the cycle moves inside an open one.
LEMMA EndRoundStep ==
  ASSUME IInv, EndRound
  PROVE  IInv' /\ Grows
<1>1. /\ Typing /\ Control /\ FreeHoldsNothing /\ Kept /\ Traces /\ Covered
      /\ Credits(credits, tickets, deltas, plane)
  BY DEF IInv
<1>2. /\ phase \in {"visit", "inbox"}
      /\ credits' = SettleOwners(credits, scope)
      /\ UNCHANGED <<heapVars, markVars, edgeVars, scope, at>>
      /\ \/ phase' = "visit" /\ visit' = scope /\ UNCHANGED <<cycle, last>>
         \/ /\ phase' = "judged" /\ cycle' = "Converging" /\ visit' = visit
            /\ last' = Converged(grey, mailbox, credits')
  BY DEF EndRound, BetweenOwners, NextRound, FirstRound, Remember
<1>3. PoolTypes(credits, tickets, deltas, plane)
  BY <1>1 DEF Typing, PoolTypes
<1>4. credits' \in Pools /\ Credits(credits', tickets, deltas, plane)
  BY <1>1, <1>2, <1>3, OwnersSettled
<1>5. Credits(credits, tickets, deltas, plane)'
  BY <1>2, <1>4 DEF markVars, edgeVars
<1>6. Grey' = Grey /\ MarkActive /\ MarkActive' /\ scan = Idle
  BY <1>1, <1>2 DEF markVars, Grey, MarkActive, Control
<1>7. Typing'
  BY <1>1, <1>2, <1>4 DEF Typing, Converged, Phases, heapVars, markVars, edgeVars
<1>8. FreeHoldsNothing' /\ Kept' /\ Traces' /\ Covered' /\ Grows
  BY <1>1, <1>2, <1>6, SameShading DEF heapVars, markVars
<1>9. ASSUME phase' = "judged", last' = TRUE
      PROVE  Grey' = {} /\ tickets' = {} /\ Pending(credits') = {}
  <2>1. phase' = "judged" /\ Converged(grey, mailbox, credits')
    BY <1>2, <1>9
  <2>2. Grey = {} /\ Pending(credits') = {}
    BY <2>1 DEF Converged, Grey
  <2>3. ASSUME NEW t \in tickets PROVE FALSE
    <3>1. t.credit \in Slots /\ Backed(credits', t.credit, "MarkTicket")
      BY <1>3, <1>4, CreditsAreSlots DEF Credits, TicketCredits
    <3> QED BY <3>1, <2>2 DEF Pending, Backed, Free
  <2> QED BY <1>2, <1>6, <2>2, <2>3 DEF markVars
<1>10. last' \in BOOLEAN
  BY <1>7 DEF Typing
<1>11. Control'
  BY <1>1, <1>2, <1>6, <1>9, <1>10 DEF Control, markVars
<1> QED BY <1>5, <1>7, <1>8, <1>11 DEF IInv

LEMMA PublishedIsEntry ==
  ASSUME NEW entry \in [active : Int, published : Int, sequence : Nat]
  PROVE  Published(entry) \in [active : Int, published : Int, sequence : Nat]
BY DEF Published, Entry

LEMMA PublishDeltaStep ==
  ASSUME IInv, NEW p \in Pairs, PublishDelta(p)
  PROVE  IInv' /\ Grows
<1>1. /\ Typing /\ Control /\ FreeHoldsNothing /\ Kept /\ Traces /\ Covered
      /\ Credits(credits, tickets, deltas, plane)
  BY DEF IInv
<1>2. CASE Exhausted(credits)
  BY <1>2, FailStep DEF PublishDelta
<1> DEFINE d == [sequence |-> summary[p].sequence + 1, delta |-> NetChange(summary[p]),
                 credit |-> NextCredit(credits), stale |-> skew # 0]
<1>3. CASE ~Exhausted(credits)
  <2>1. /\ phase = "publish"
        /\ summary' = [summary EXCEPT ![p] = Published(summary[p])]
        /\ deltas' = [deltas EXCEPT ![p] = Append(@, d)]
        /\ credits' = AcquireWork(credits, HeapOf[p[1]], HeapOf[p[2]], "EdgeDelta")
        /\ UNCHANGED <<heapVars, markVars, plane, cycleVars, phase, passVars>>
    BY <1>3 DEF PublishDelta
  <2>2. HeapOf[p[1]] \in Owners /\ HeapOf[p[2]] \in Owners
    BY MarkAssumption DEF Pairs
  <2>3. PoolTypes(credits, tickets, deltas, plane)
    BY <1>1 DEF Typing, PoolTypes
  <2>4. credits' \in Pools /\ NextCredit(credits) \in Slots
    BY <1>3, <2>1, <2>2, <2>3, Acquired DEF PoolTypes, Families
  <2>5. /\ summary[p] \in [active : Int, published : Int, sequence : Nat]
        /\ NetChange(summary[p]) \in Int
    BY <1>1 DEF Typing, NetChange
  <2>6. d \in Delta /\ d.credit = NextCredit(credits)
    BY <2>4, <2>5 DEF Delta
  <2> HIDE DEF d
  <2>7. Credits(credits', tickets, deltas', plane)
    BY <1>1, <1>3, <2>1, <2>2, <2>3, <2>6, DeltaAcquires
  <2>8. Credits(credits, tickets, deltas, plane)'
    BY <2>1, <2>7 DEF markVars
  <2>9. deltas' \in [Pairs -> Seq(Delta)]
    <3>1. Append(deltas[p], d) \in Seq(Delta)
      BY <1>1, <2>6, AppendProperties DEF Typing
    <3> QED BY <1>1, <2>1, <3>1 DEF Typing
  <2>10. summary' \in [Pairs -> [active : Int, published : Int, sequence : Nat]]
    <3>1. Published(summary[p]) \in [active : Int, published : Int, sequence : Nat]
      BY <2>5, PublishedIsEntry
    <3> QED BY <1>1, <2>1, <3>1 DEF Typing
  <2>11. Typing'
    BY <1>1, <2>1, <2>4, <2>9, <2>10 DEF Typing, heapVars, markVars, cycleVars, passVars
  <2>12. MarkActive' = MarkActive /\ Grey' = Grey
    BY <2>1 DEF cycleVars, markVars, MarkActive, Grey
  <2>13. FreeHoldsNothing' /\ Kept' /\ Traces' /\ Covered' /\ Grows
    BY <1>1, <2>1, <2>12, SameShading DEF heapVars, markVars
  <2>14. Control'
    BY <1>1, <2>1, <2>12 DEF Control, markVars, cycleVars, passVars
  <2> QED BY <2>8, <2>11, <2>13, <2>14 DEF IInv
<1> QED BY <1>2, <1>3

LEMMA ServeDeltaStep ==
  ASSUME IInv, NEW p \in Pairs, ServeDelta(p)
  PROVE  IInv' /\ Grows
<1>1. /\ Typing /\ Control /\ FreeHoldsNothing /\ Kept /\ Traces /\ Covered
      /\ Credits(credits, tickets, deltas, plane)
  BY DEF IInv
<1>2. CASE Fail
  BY <1>2, FailStep
<1>3. CASE ~Fail
  <2>1. /\ deltas[p] # << >>
        /\ ApplyDelta(p) \/ HoldDelta(p)
        /\ deltas' = [deltas EXCEPT ![p] = Tail(@)]
        /\ UNCHANGED <<heapVars, markVars, summary, cycleVars, phase, scope, visit, at>>
    BY <1>3 DEF ServeDelta
  <2>2. PoolTypes(credits, tickets, deltas, plane)
    BY <1>1 DEF Typing, PoolTypes
  <2>3. PoolTypes(credits', tickets, deltas', plane') /\ Credits(credits', tickets, deltas', plane')
    <3>1. CASE ApplyDelta(p)
      BY <1>1, <2>1, <2>2, <3>1, DeltaApplied DEF ApplyDelta
    <3>2. CASE HoldDelta(p)
      BY <1>1, <2>1, <2>2, <3>2, DeltaKept DEF HoldDelta
    <3> QED BY <2>1, <3>1, <3>2
  <2>4. Credits(credits, tickets, deltas, plane)'
    BY <2>1, <2>3 DEF markVars
  <2>5. Typing'
    BY <1>1, <2>1, <2>3 DEF Typing, PoolTypes, heapVars, markVars, cycleVars
  <2>6. MarkActive' = MarkActive /\ Grey' = Grey
    BY <2>1 DEF cycleVars, markVars, MarkActive, Grey
  <2>7. FreeHoldsNothing' /\ Kept' /\ Traces' /\ Covered' /\ Grows
    BY <1>1, <2>1, <2>6, SameShading DEF heapVars, markVars
  <2>8. phase # "judged"
    BY <1>3 DEF ServeDelta, Serving
  <2>9. Control'
    BY <1>1, <2>1, <2>6, <2>8 DEF Control, markVars, cycleVars
  <2> QED BY <2>4, <2>5, <2>7, <2>9 DEF IInv
<1> QED BY <1>2, <1>3

\* A ticket becomes grey at its owner: nothing is less shielded.
LEMMA ServeTicketStep ==
  ASSUME IInv, NEW t \in tickets, ServeTicket(t)
  PROVE  IInv' /\ Grows
<1>1. /\ Typing /\ Control /\ FreeHoldsNothing /\ Kept /\ Traces /\ Covered
      /\ Credits(credits, tickets, deltas, plane)
  BY DEF IInv
<1>2. CASE Fail
  BY <1>2, FailStep
<1>3. CASE ~Fail
  <2> DEFINE w == OwnerOf(t.object)
  <2>1. /\ Serving(w)
        /\ tickets' = tickets \ {t}
        /\ credits' = ConsumeWork(credits, t.credit)
        /\ grey' = [grey EXCEPT ![w] = @ \union {t.object}]
        /\ UNCHANGED <<heapVars, marked, scan, edgeVars, cycleVars, phase, scope, visit, at>>
    BY <1>3 DEF ServeTicket, ConsumeTicket
  <2>2. t.object \in Objects /\ w \in Owners /\ t.object \in ObjectsOf(w)
    BY <1>1, MarkAssumption DEF Typing, OwnerOf, ObjectsOf
  <2>3. PoolTypes(credits, tickets, deltas, plane)
    BY <1>1 DEF Typing, PoolTypes
  <2>4. credits' \in Pools /\ Credits(credits', tickets', deltas, plane)
    BY <1>1, <2>1, <2>3, TicketConsumed
  <2>5. Credits(credits, tickets, deltas, plane)'
    BY <2>1, <2>4 DEF edgeVars
  <2> HIDE DEF w
  <2>6. /\ grey' \in [Owners -> SUBSET Objects]
        /\ \A v \in Owners : grey'[v] = IF v = w THEN grey[v] \union {t.object} ELSE grey[v]
    BY <1>1, <2>1, <2>2 DEF Typing
  <2>7. Typing'
    <3>1. \A v \in Owners : grey'[v] \subseteq ObjectsOf(v)
      BY <1>1, <2>2, <2>6 DEF Typing
    <3> QED BY <1>1, <2>1, <2>4, <2>6, <3>1 DEF Typing, heapVars, edgeVars, cycleVars
  <2>8. Grey' = Grey \union {t.object}
    BY <2>2, <2>6 DEF Grey
  <2>9. Ticketed \subseteq Ticketed' \union {t.object} /\ Ticketed' \subseteq Ticketed /\ t.object \in Ticketed
    BY <2>1 DEF Ticketed
  <2>10. Shielded' = Shielded /\ RootObjects' = RootObjects /\ MarkActive' = MarkActive
    BY <2>1, <2>8, <2>9 DEF Shielded, RootObjects, MarkActive, heapVars, cycleVars
  <2>11. FreeHoldsNothing'
    BY <1>1, <2>1 DEF FreeHoldsNothing, heapVars
  <2>12. Kept' /\ Traces' /\ Covered'
    BY <1>1, <2>1, <2>10 DEF Kept, Traces, Covered, ShieldIn, Unscanned, heapVars
  <2>13. MarkActive /\ phase # "judged" /\ ~(phase = "late" /\ last)
    BY <1>1, <2>1 DEF Control, Serving
  <2>14. Control'
    BY <1>1, <2>1, <2>10, <2>13 DEF Control, heapVars, cycleVars
  <2> QED BY <2>5, <2>7, <2>10, <2>11, <2>12, <2>14 DEF IInv, Grows
<1> QED BY <1>2, <1>3

\* An object is tested and marked; it stays shielded, its fields are to scan.
LEMMA PopMarkStep ==
  ASSUME IInv, NEW o \in Objects, PopMark(o)
  PROVE  IInv' /\ Grows
<1>1. /\ Typing /\ Control /\ FreeHoldsNothing /\ Kept /\ Traces /\ Covered
      /\ Credits(credits, tickets, deltas, plane)
  BY DEF IInv
<1>2. CASE Fail
  BY <1>2, FailStep
<1>3. CASE ~Fail
  <2>1. /\ phase = "worklist" /\ scan = Idle /\ o \in grey[at]
        /\ grey' = [grey EXCEPT ![at] = @ \ {o}]
        /\ \/ o \in marked /\ UNCHANGED <<marked, scan>>
           \/ marked' = marked \union {o} /\ scan' = [object |-> o, todo |-> Fields]
        /\ UNCHANGED <<heapVars, tickets, credits, edgeVars, cycleVars, phase, scope, visit, at>>
    BY <1>3 DEF PopMark, MarkObject
  <2>2. at \in Owners /\ OwnerOf(o) = at /\ MarkActive /\ MarkActive'
    BY <1>1, <2>1 DEF Control, Typing, ObjectsOf, MarkActive, cycleVars
  <2>3. /\ grey' \in [Owners -> SUBSET Objects]
        /\ \A v \in Owners : grey'[v] = IF v = at THEN grey[v] \ {o} ELSE grey[v]
    BY <1>1, <2>1, <2>2 DEF Typing
  <2>4. marked \subseteq marked' /\ o \in marked' /\ marked' \subseteq marked \union {o}
    BY <2>1
  <2>5. Typing'
    <3>1. \A v \in Owners : grey'[v] \subseteq ObjectsOf(v)
      BY <1>1, <2>3 DEF Typing
    <3>2. scan' \in [object : Objects \union {Null}, todo : SUBSET Fields]
      BY <1>1, <2>1 DEF Typing
    <3>3. marked' \in SUBSET Objects
      BY <1>1, <2>4 DEF Typing
    <3> QED BY <1>1, <2>1, <2>3, <3>1, <3>2, <3>3 DEF Typing, heapVars, edgeVars, cycleVars
  <2>6. Grey \subseteq Grey' \union {o} /\ Grey' \subseteq Grey /\ o \in Grey
    BY <2>1, <2>2, <2>3 DEF Grey
  <2>7. Shielded' = Shielded
    BY <2>1, <2>4, <2>6 DEF Shielded, Ticketed
  <2>8. RootObjects' = RootObjects
    BY <2>1 DEF RootObjects, heapVars
  <2>9. FreeHoldsNothing' /\ Kept' /\ Covered'
    BY <1>1, <2>1, <2>2, <2>7, <2>8 DEF FreeHoldsNothing, Kept, Covered, ShieldIn, heapVars
  <2>10. ASSUME NEW s \in marked', NEW x \in Fields
         PROVE  fields[s][x] \in Shielded \union {Null} \/ Unscanned(s, x)'
    <3>1. CASE s \in marked
      BY <1>1, <2>1, <2>2, <3>1 DEF Traces, Unscanned, Idle
    <3>2. CASE s \notin marked
      BY <2>1, <2>4, <3>2 DEF Unscanned
    <3> QED BY <3>1, <3>2
  <2>11. Traces'
    BY <2>1, <2>7, <2>10 DEF Traces, heapVars
  <2>12. Credits(credits, tickets, deltas, plane)'
    BY <1>1, <2>1 DEF edgeVars
  <2>13. Control'
    BY <1>1, <2>1, <2>2, <2>4 DEF Control, Idle
  <2> QED BY <2>5, <2>7, <2>9, <2>11, <2>12, <2>13 DEF IInv, Grows
<1> QED BY <1>2, <1>3

\* One field of a marked object is traced: what it holds is shielded.
LEMMA ScanFieldStep ==
  ASSUME IInv, NEW x \in Fields, ScanField(x)
  PROVE  IInv' /\ Grows
<1>1. /\ Typing /\ Control /\ FreeHoldsNothing /\ Kept /\ Traces /\ Covered
      /\ Credits(credits, tickets, deltas, plane)
  BY DEF IInv
<1>2. CASE Fail
  BY <1>2, FailStep
<1>3. CASE ~Fail
  <2> DEFINE v == fields[scan.object][x]
  <2>1. /\ phase = "worklist" /\ x \in scan.todo
        /\ Traced(x)
        /\ \/ v = Null /\ UNCHANGED <<grey, tickets, credits>>
           \/ v # Null /\ grey' = [grey EXCEPT ![at] = @ \union {v}] /\ OwnerOf(v) = at
              /\ UNCHANGED <<tickets, credits>>
           \/ /\ v # Null /\ ~Exhausted(credits)
              /\ tickets' = tickets \union {[credit |-> NextCredit(credits), object |-> v]}
              /\ credits' = AcquireWork(credits, at, OwnerOf(v), "MarkTicket")
              /\ UNCHANGED grey
        /\ UNCHANGED <<heapVars, marked, edgeVars, cycleVars, phase, scope, visit, at>>
    BY <1>3 DEF ScanField, PushLocal, PublishTicket, passVars
  <2>2. /\ scan # Idle /\ scan.object \in marked /\ OwnerOf(scan.object) = at
        /\ MarkActive /\ MarkActive' /\ at \in Owners
        /\ scan.object \in Objects
    BY <1>1, <2>1 DEF Control, Typing, Idle, MarkActive, cycleVars
  <2>3. v \in Objects \union {Null}
    BY <1>1, <2>2 DEF Typing
  <2>4. v # Null => OwnerOf(v) \in Owners
    BY <2>3, MarkAssumption DEF OwnerOf
  <2>5. PoolTypes(credits, tickets, deltas, plane)
    BY <1>1 DEF Typing, PoolTypes
  <2>6. credits' \in Pools /\ Credits(credits', tickets', deltas, plane)
    <3>1. CASE UNCHANGED <<tickets, credits>>
      BY <1>1, <2>5, <3>1 DEF PoolTypes
    <3>2. CASE ~UNCHANGED <<tickets, credits>>
      <4>1. /\ ~Exhausted(credits) /\ OwnerOf(v) \in Owners
            /\ tickets' = tickets \union {[credit |-> NextCredit(credits), object |-> v]}
            /\ credits' = AcquireWork(credits, at, OwnerOf(v), "MarkTicket")
        BY <2>1, <2>4, <3>2
      <4>2. credits' \in Pools
        BY <2>2, <2>5, <4>1, Acquired DEF PoolTypes, Families
      <4>3. Credits(credits', tickets', deltas, plane)
        BY <1>1, <2>2, <2>5, <4>1, TicketAcquires
      <4> QED BY <4>2, <4>3
    <3> QED BY <3>1, <3>2
  <2>7. tickets' \in SUBSET [credit : Slots, object : Objects]
    <3>1. ~Exhausted(credits) => NextCredit(credits) \in Slots
      BY <2>5, NextIsFree DEF PoolTypes
    <3>2. tickets \in SUBSET [credit : Slots, object : Objects]
      BY <1>1 DEF Typing
    <3> QED BY <2>1, <2>3, <3>1, <3>2
  <2> HIDE DEF v
  <2>8. /\ scan' \in [object : Objects \union {Null}, todo : SUBSET Fields]
        /\ scan' # Idle => scan'.object = scan.object
        /\ \A s \in Objects, y \in Fields : Unscanned(s, y) => Unscanned(s, y)' \/ (s = scan.object /\ y = x)
    <3>1. scan \in [object : Objects \union {Null}, todo : SUBSET Fields]
      BY <1>1 DEF Typing
    <3>2. [scan EXCEPT !.todo = @ \ {x}] = [object |-> scan.object, todo |-> scan.todo \ {x}]
      BY <3>1
    <3>3. CASE scan.todo = {x}
      BY <2>1, <3>1, <3>3 DEF Traced, Unscanned, Idle
    <3>4. CASE scan.todo # {x}
      <4>1. scan' = [object |-> scan.object, todo |-> scan.todo \ {x}]
        BY <2>1, <3>2, <3>4 DEF Traced
      <4> QED BY <3>1, <4>1 DEF Unscanned
    <3> QED BY <3>3, <3>4
  <2>9. /\ grey' \in [Owners -> SUBSET Objects]
        /\ \A w \in Owners : grey[w] \subseteq grey'[w] /\ grey'[w] \subseteq grey[w] \union ({v} \ {Null})
        /\ \A w \in Owners : grey'[w] \subseteq ObjectsOf(w)
    <3>1. /\ grey \in [Owners -> SUBSET Objects]
          /\ \A w \in Owners : grey[w] \subseteq ObjectsOf(w)
      BY <1>1 DEF Typing
    <3>2. CASE grey' = grey
      BY <3>1, <3>2
    <3>3. CASE v # Null /\ grey' = [grey EXCEPT ![at] = @ \union {v}] /\ OwnerOf(v) = at
      <4>1. v \in ObjectsOf(at)
        BY <2>3, <3>3 DEF ObjectsOf
      <4>2. v \in Objects
        BY <2>3, <3>3
      <4> QED BY <2>2, <3>1, <3>3, <4>1, <4>2
    <3> QED BY <2>1, <3>2, <3>3
  <2>10. Typing'
    BY <1>1, <2>1, <2>6, <2>7, <2>8, <2>9 DEF Typing, heapVars, edgeVars, cycleVars
  <2>11. Shielded \subseteq Shielded' /\ Shielded' \subseteq Shielded \union ({v} \ {Null})
         /\ v \in Shielded' \union {Null}
    <3>1. Grey \subseteq Grey' /\ Grey' \subseteq Grey \union ({v} \ {Null})
      BY <2>9 DEF Grey
    <3>2. Ticketed \subseteq Ticketed' /\ Ticketed' \subseteq Ticketed \union ({v} \ {Null})
      BY <2>1 DEF Ticketed
    <3>3. v \in Grey' \union Ticketed' \union {Null}
      <4>1. CASE grey' = [grey EXCEPT ![at] = @ \union {v}]
        BY <1>1, <2>2, <4>1 DEF Grey, Typing
      <4>2. CASE tickets' = tickets \union {[credit |-> NextCredit(credits), object |-> v]}
        <5> DEFINE t == [credit |-> NextCredit(credits), object |-> v]
        <5>1. t.object = v
          OBVIOUS
        <5> HIDE DEF t
        <5>2. t \in tickets'
          BY <4>2 DEF t
        <5> QED BY <5>1, <5>2 DEF Ticketed
      <4> QED BY <2>1, <4>1, <4>2
    <3> QED BY <2>1, <3>1, <3>2, <3>3 DEF Shielded
  <2>12. RootObjects' = RootObjects /\ fields' = fields /\ allocated' = allocated
    BY <2>1 DEF RootObjects, heapVars
  <2>13. Kept'
    <3>1. PICK T \in SUBSET allocated : Keeps(T, fields, RootObjects, Shielded)
      BY <1>1, <2>2 DEF Kept, ShieldIn
    <3>2. v \in T \union {Null}
      BY <3>1, <2>2 DEF Keeps, Closed, Shielded, v
    <3>3. Shielded' \subseteq T
      BY <3>1, <3>2, <2>11 DEF Keeps
    <3> QED BY <3>1, <3>3, <2>2, <2>12 DEF Kept, Keeps, ShieldIn
  <2>14. Covered'
    BY <1>1, <2>2, <2>11, <2>12 DEF Covered, Covers
  <2>15. Traces'
    <3>1. ASSUME NEW s \in marked, NEW y \in Fields
          PROVE  fields[s][y] \in Shielded' \union {Null} \/ Unscanned(s, y)'
      <4>1. CASE fields[s][y] \in Shielded \union {Null}
        BY <4>1, <2>11
      <4>2. CASE Unscanned(s, y)
        BY <1>1, <4>2, <2>8, <2>11 DEF v, Typing
      <4> QED BY <1>1, <2>2, <4>1, <4>2 DEF Traces
    <3> QED BY <2>1, <2>12, <3>1 DEF Traces
  <2>16. FreeHoldsNothing'
    BY <1>1, <2>12 DEF FreeHoldsNothing
  <2>17. Credits(credits, tickets, deltas, plane)'
    BY <2>1, <2>6 DEF edgeVars
  <2>18. Control'
    BY <1>1, <2>1, <2>2, <2>8 DEF Control
  <2> QED BY <2>10, <2>11, <2>13, <2>14, <2>15, <2>16, <2>17, <2>18 DEF IInv, Grows
<1> QED BY <1>2, <1>3

\* Every root is a seed; nothing else is shaded yet.
LEMMA BeginCycleStep ==
  ASSUME IInv, BeginCycle
  PROVE  IInv' /\ Grows
<1>1. /\ Typing /\ Control /\ FreeHoldsNothing /\ Kept /\ Traces /\ Covered
      /\ Credits(credits, tickets, deltas, plane)
  BY DEF IInv
<1>2. CASE Fail
  BY <1>2, FailStep
<1>3. CASE ~Fail
  <2>1. /\ phase = "begin" /\ phase' = "visit" /\ cycle' = "Marking"
        /\ \A o \in RootObjects : OwnerOf(o) \in scope
        /\ grey' = Seeds(scope)
        /\ UNCHANGED <<heapVars, marked, scan, tickets, credits, edgeVars, last, scope, visit, at>>
    BY <1>3 DEF BeginCycle, passVars
  <2>2. /\ marked = {} /\ tickets = {} /\ scan = Idle /\ ~MarkActive /\ MarkActive'
    BY <1>1, <2>1 DEF Control, MarkActive
  <2>3. RootObjects \subseteq Objects /\ scope \subseteq Owners
    BY <1>1 DEF Typing, RootObjects
  <2>4. grey' \in [Owners -> SUBSET Objects] /\ \A w \in Owners : grey'[w] \subseteq ObjectsOf(w)
    BY <2>1, <2>3 DEF Seeds, ObjectsOf
  <2>5. Grey' = RootObjects
    BY <2>1, <2>3 DEF Grey, Seeds
  <2>6. Shielded' = RootObjects /\ RootObjects' = RootObjects
    BY <2>1, <2>2, <2>5 DEF Shielded, Ticketed, RootObjects, heapVars
  <2>7. Typing'
    BY <1>1, <2>1, <2>4 DEF Typing, Phases, heapVars, edgeVars
  <2>8. Kept'
    BY <1>1, <2>1, <2>6 DEF Kept, Keeps, ShieldIn, heapVars
  <2>9. FreeHoldsNothing' /\ Traces' /\ Covered'
    BY <1>1, <2>1, <2>2, <2>6 DEF FreeHoldsNothing, Traces, Covered, Covers, heapVars
  <2>10. Credits(credits, tickets, deltas, plane)'
    BY <1>1, <2>1 DEF edgeVars
  <2>11. Control'
    BY <2>1, <2>2 DEF Control
  <2> QED BY <2>2, <2>7, <2>8, <2>9, <2>10, <2>11 DEF IInv, Grows
<1> QED BY <1>2, <1>3

\* A converged cycle: the marked objects are closed and have every root.
LEMMA MarkedIsKept ==
  ASSUME IInv, MarkActive, Grey = {}, tickets = {}, scan = Idle
  PROVE  /\ marked \in SUBSET Objects /\ marked \subseteq allocated
         /\ Closed(fields, marked) /\ RootObjects \subseteq marked
<1>1. Typing /\ Kept /\ Traces /\ Covered
  BY DEF IInv
<1>2. Shielded = marked
  BY DEF Shielded, Ticketed
<1>3. marked \in SUBSET Objects
  BY <1>1 DEF Typing
<1>4. marked \subseteq allocated
  BY <1>1, <1>2 DEF Kept, Keeps, ShieldIn
<1>5. Closed(fields, marked)
  BY <1>1, <1>2 DEF Traces, Closed, Unscanned, Idle
<1>6. RootObjects \subseteq marked
  BY <1>1, <1>2, <1>3, <1>5 DEF Covered, Covers
<1> QED BY <1>3, <1>4, <1>5, <1>6

LEMMA FinishSteps ==
  ASSUME IInv, FinishMajor \/ FinishCycle
  PROVE  IInv' /\ Grows
<1>1. /\ Typing /\ Control /\ FreeHoldsNothing
      /\ Credits(credits, tickets, deltas, plane)
  BY DEF IInv
<1>2. /\ phase \in {"judged", "late"} /\ (phase = "judged" => last)
      /\ \E W : Sweep(W)
      /\ cycle' = "Idle" /\ last' = FALSE /\ marked' = {}
      /\ grey' = [w \in Owners |-> {}]
      /\ phase' = "mutate" /\ scope' = {} /\ visit' = {} /\ at' = Null
      /\ UNCHANGED <<roots, scan, tickets, credits, summary, deltas>>
      /\ plane' = plane \/ plane' = RetireZeroPairs(plane)
  BY DEF FinishMajor, FinishCycle, Settled, FinishMarkCycle, Return
<1>3. MarkActive /\ Grey = {} /\ tickets = {} /\ scan = Idle
  BY <1>1, <1>2 DEF Control
<1>4. /\ marked \in SUBSET Objects /\ marked \subseteq allocated
      /\ Closed(fields, marked) /\ RootObjects \subseteq marked
  BY <1>3, MarkedIsKept
<1>5. PICK W : Sweep(W)
  BY <1>2
<1> DEFINE dead == {o \in allocated : o \notin marked /\ OwnerOf(o) \in W}
<1>6. /\ allocated' = allocated \ dead
      /\ fields' = [o \in Objects |-> IF o \in dead THEN [x \in Fields |-> Null] ELSE fields[o]]
  BY <1>5 DEF Sweep
<1>7. dead \cap marked = {} /\ dead \subseteq allocated
  OBVIOUS
<1> HIDE DEF dead
<1>8. ~MarkActive' /\ Grey' = {} /\ RootObjects' = RootObjects
  BY <1>2 DEF MarkActive, Grey, RootObjects
<1>9. PlaneTypes(plane') /\ \A p \in Pairs : plane'[p].held = plane[p].held
  BY <1>1, <1>2, ZeroPairsRetired DEF Typing
<1>10. fields' \in [Objects -> [Fields -> Objects \union {Null}]]
  BY <1>1, <1>6 DEF Typing
<1>11. Typing'
  BY <1>1, <1>2, <1>6, <1>9, <1>10 DEF Typing, Phases
<1>12. FreeHoldsNothing'
  BY <1>1, <1>6, <1>7 DEF FreeHoldsNothing, Typing
<1>13. Kept'
  <2>1. marked \subseteq allocated'
    BY <1>4, <1>6, <1>7
  <2>2. Closed(fields', marked)
    BY <1>4, <1>6, <1>7 DEF Closed
  <2>3. Keeps(marked, fields', RootObjects', {})
    BY <1>4, <1>8, <2>2 DEF Keeps
  <2> QED BY <1>8, <2>1, <2>3 DEF Kept, ShieldIn
<1>14. Traces' /\ Covered'
  BY <1>8 DEF Traces, Covered
<1>15. Credits(credits, tickets, deltas, plane)'
  BY <1>1, <1>2, <1>9, SameHeld
<1>16. Control'
  BY <1>2, <1>3, <1>8 DEF Control
<1> QED BY <1>8, <1>11, <1>12, <1>13, <1>14, <1>15, <1>16 DEF IInv, Grows

LEMMA MergedIsSummary ==
  ASSUME NEW s \in [Pairs -> [active : Int, published : Int, sequence : Nat]],
         NEW b, NEW old, NEW new
  PROVE  Merged(s, b, old, new) \in [Pairs -> [active : Int, published : Int, sequence : Nat]]
<1>1. ASSUME NEW e \in [active : Int, published : Int, sequence : Nat], NEW n \in Int
      PROVE  [e EXCEPT !.active = n] \in [active : Int, published : Int, sequence : Nat]
  OBVIOUS
<1> DEFINE n(p) == CASE p \in Added(b, new)        -> s[p].active + 1
                     [] p \in Removed(b, old, new) -> s[p].active - 1
                     [] OTHER                      -> s[p].active
<1>2. \A p \in Pairs : n(p) \in Int
  OBVIOUS
<1>3. Merged(s, b, old, new) = [p \in Pairs |-> [s[p] EXCEPT !.active = n(p)]]
  BY DEF Merged
<1> HIDE DEF n
<1> QED BY <1>1, <1>2, <1>3

LEMMA Shading ==
  ASSUME Typing, NEW S \in SUBSET (Objects \union {Null}),
         grey' = Shade(S), UNCHANGED <<marked, tickets>>
  PROVE  /\ grey' \in [Owners -> SUBSET Objects]
         /\ \A w \in Owners : grey'[w] \subseteq ObjectsOf(w)
         /\ MarkActive => Shielded' = Shielded \union (S \ {Null})
         /\ ~MarkActive => grey' = grey
<1>1. CASE ~MarkActive
  BY <1>1 DEF Shade, Typing
<1>2. CASE MarkActive
  <2>1. grey' = [w \in Owners |-> grey[w] \union {o \in S \ {Null} : OwnerOf(o) = w}]
    BY <1>2 DEF Shade
  <2>2. \A o \in Objects : OwnerOf(o) \in Owners
    BY MarkAssumption DEF OwnerOf
  <2>3. S \ {Null} \subseteq Objects
    OBVIOUS
  <2>4. Grey' = Grey \union (S \ {Null})
    BY <2>1, <2>2, <2>3 DEF Grey
  <2>5. Shielded' = Shielded \union (S \ {Null})
    BY <2>4 DEF Shielded, Ticketed
  <2>6. grey' \in [Owners -> SUBSET Objects]
    BY <2>1, <2>3 DEF Typing
  <2>7. \A w \in Owners : grey'[w] \subseteq ObjectsOf(w)
    BY <2>1, <2>3 DEF Typing, ObjectsOf
  <2> QED BY <1>2, <2>5, <2>6, <2>7
<1> QED BY <1>1, <1>2

\* What a mutator leaves alone: the collector's control and the messages.
LEMMA MutatorControl ==
  ASSUME IInv, phase = "mutate",
         UNCHANGED <<marked, scan, tickets, credits, deltas, plane, cycleVars, phase, passVars>>,
         ~MarkActive => grey' = grey
  PROVE  /\ Control' /\ Credits(credits, tickets, deltas, plane)'
         /\ MarkActive' = MarkActive
         /\ ~MarkActive => marked = {} /\ Grey = {} /\ tickets = {}
<1>1. Control /\ Credits(credits, tickets, deltas, plane)
  BY DEF IInv
<1>2. MarkActive' = MarkActive
  BY DEF MarkActive, cycleVars
<1>3. ~MarkActive => Grey' = Grey
  BY DEF Grey
<1>4. Control'
  BY <1>1, <1>2, <1>3 DEF Control, cycleVars, passVars
<1> QED BY <1>1, <1>2, <1>4 DEF Control

\* The new reference and the overwritten one are shaded: every closed set
\* with what is shaded now was closed before the store.
LEMMA StoreStep ==
  ASSUME IInv, NEW src \in Objects, NEW x \in Fields, NEW v \in Objects \union {Null},
         Store(src, x, v)
  PROVE  IInv' /\ Grows
<1> DEFINE old == fields[src][x]
<1>1. Typing /\ FreeHoldsNothing /\ Kept /\ Traces /\ Covered
  BY DEF IInv
<1>2. /\ phase = "mutate"
      /\ src \in Reachable /\ v \in Reachable \union {Null}
      /\ grey' = Shade({old, v})
      /\ summary' = Merged(summary, BlockOf[src], Block(old), Block(v))
      /\ fields' = [fields EXCEPT ![src][x] = v]
      /\ UNCHANGED <<allocated, roots, marked, scan, tickets, credits, deltas, plane,
                     cycleVars, phase, passVars>>
  BY DEF Store, Event, BarrierShades
<1>3. old \in Objects \union {Null}
  BY <1>1 DEF Typing
<1>4. /\ \A s \in Objects, y \in Fields :
           fields'[s][y] = IF s = src /\ y = x THEN v ELSE fields[s][y]
      /\ fields' \in [Objects -> [Fields -> Objects \union {Null}]]
  BY <1>1, <1>2 DEF Typing
<1> HIDE DEF old
<1>5. /\ grey' \in [Owners -> SUBSET Objects]
      /\ \A w \in Owners : grey'[w] \subseteq ObjectsOf(w)
      /\ MarkActive => Shielded' = Shielded \union ({old, v} \ {Null})
      /\ ~MarkActive => grey' = grey
  BY <1>1, <1>2, <1>3, Shading
<1>6. /\ Control' /\ Credits(credits, tickets, deltas, plane)'
      /\ MarkActive' = MarkActive
  BY <1>2, <1>5, MutatorControl
<1>7. summary' \in [Pairs -> [active : Int, published : Int, sequence : Nat]]
  BY <1>1, <1>2, MergedIsSummary DEF Typing
<1>8. Typing'
  BY <1>1, <1>2, <1>4, <1>5, <1>7 DEF Typing, cycleVars, passVars
<1>9. RootObjects' = RootObjects
  BY <1>2 DEF RootObjects
<1>10. Kept'
  <2>1. PICK T \in SUBSET allocated : Keeps(T, fields, RootObjects, ShieldIn(MarkActive))
    BY <1>1 DEF Kept
  <2>2. src \in T /\ v \in T \union {Null}
    BY <1>1, <1>2, <2>1, ReachableIsKept DEF Keeps, Typing
  <2>3. old \in T \union {Null}
    BY <2>1, <2>2 DEF Keeps, Closed, old
  <2>4. Closed(fields', T)
    <3>1. T \subseteq Objects
      BY <1>1 DEF Typing
    <3> QED BY <1>4, <2>1, <2>2, <3>1 DEF Keeps, Closed
  <2>5. ShieldIn(MarkActive)' \subseteq T
    BY <1>5, <1>6, <2>1, <2>2, <2>3 DEF ShieldIn, Keeps
  <2> QED BY <1>2, <1>9, <2>1, <2>4, <2>5 DEF Kept, Keeps
<1>11. FreeHoldsNothing'
  <2>1. src \in allocated
    <3>1. PICK T \in SUBSET allocated : Keeps(T, fields, RootObjects, ShieldIn(MarkActive))
      BY <1>1 DEF Kept
    <3> QED BY <1>1, <1>2, <3>1, ReachableIsKept DEF Keeps, Typing
  <2> QED BY <1>1, <1>2, <1>4, <2>1 DEF FreeHoldsNothing
<1>12. Traces'
  BY <1>1, <1>2, <1>4, <1>5, <1>6 DEF Traces, Unscanned, Typing
<1>13. Covered'
  <2>1. ASSUME MarkActive, NEW T \in SUBSET Objects, Closed(fields', T), Shielded' \subseteq T
        PROVE  RootObjects \subseteq T
    <3>1. Shielded \subseteq T /\ old \in T \union {Null}
      BY <1>5, <2>1
    <3>2. Closed(fields, T)
      BY <1>4, <2>1, <3>1 DEF Closed, old
    <3> QED BY <1>1, <2>1, <3>1, <3>2 DEF Covered, Covers
  <2> QED BY <1>6, <1>9, <2>1 DEF Covered, Covers
<1> QED BY <1>5, <1>6, <1>8, <1>10, <1>11, <1>12, <1>13 DEF IInv, Grows

LEMMA SetRootStep ==
  ASSUME IInv, NEW r \in Roots, NEW v \in Objects \union {Null}, SetRoot(r, v)
  PROVE  IInv' /\ Grows
<1>1. Typing /\ FreeHoldsNothing /\ Kept /\ Traces /\ Covered
  BY DEF IInv
<1>2. /\ phase = "mutate"
      /\ v \in Reachable \union {Null}
      /\ roots' = [roots EXCEPT ![r] = v]
      /\ UNCHANGED <<allocated, fields, grey, marked, scan, tickets, credits, summary, deltas, plane,
                     cycleVars, phase, passVars>>
  BY DEF SetRoot, Event, markVars, edgeVars
<1>3. /\ Control' /\ Credits(credits, tickets, deltas, plane)'
      /\ MarkActive' = MarkActive
  BY <1>2, MutatorControl
<1>4. Typing'
  BY <1>1, <1>2 DEF Typing, cycleVars, passVars
<1>5. RootObjects' \subseteq RootObjects \union ({v} \ {Null})
  BY <1>1, <1>2 DEF RootObjects, Typing
<1>6. Shielded' = Shielded
  BY <1>2 DEF Shielded, Grey, Ticketed
<1>7. \A T \in SUBSET Objects : Closed(fields, T) /\ RootObjects \subseteq T => RootObjects' \subseteq T
  BY <1>2, <1>5, ReachableIsKept
<1>8. FreeHoldsNothing' /\ Traces'
  BY <1>1, <1>2, <1>3, <1>6 DEF FreeHoldsNothing, Traces, Unscanned
<1>9. Kept'
  <2>1. PICK T \in SUBSET allocated : Keeps(T, fields, RootObjects, ShieldIn(MarkActive))
    BY <1>1 DEF Kept
  <2>2. RootObjects' \subseteq T
    BY <1>1, <1>7, <2>1 DEF Keeps, Typing
  <2> QED BY <1>2, <1>3, <1>6, <2>1, <2>2 DEF Kept, Keeps, ShieldIn
<1>10. Covered'
  BY <1>1, <1>2, <1>3, <1>6, <1>7 DEF Covered, Covers
<1> QED BY <1>3, <1>4, <1>6, <1>8, <1>9, <1>10 DEF IInv, Grows

\* A new object: nothing refers to it, it refers to nothing, it is shaded.
LEMMA WithNewObject ==
  ASSUME IInv, NEW o \in Objects \ allocated,
         NEW T \in SUBSET allocated, Closed(fields, T)
  PROVE  Closed(fields, T \union {o})
<1>1. \A x \in Fields : fields[o][x] = Null
  BY DEF IInv, FreeHoldsNothing
<1> QED BY <1>1 DEF Closed

LEMMA AllocateIntoRootStep ==
  ASSUME IInv, NEW o \in Objects \ allocated, NEW r \in Roots, AllocateIntoRoot(o, r)
  PROVE  IInv' /\ Grows
<1>1. Typing /\ FreeHoldsNothing /\ Kept /\ Traces /\ Covered
  BY DEF IInv
<1>2. /\ phase = "mutate"
      /\ allocated' = allocated \union {o}
      /\ grey' = Shade({o})
      /\ roots' = [roots EXCEPT ![r] = o]
      /\ UNCHANGED <<fields, marked, scan, tickets, credits, summary, deltas, plane,
                     cycleVars, phase, passVars>>
  BY DEF AllocateIntoRoot, Event, edgeVars
<1>3. /\ grey' \in [Owners -> SUBSET Objects]
      /\ \A w \in Owners : grey'[w] \subseteq ObjectsOf(w)
      /\ MarkActive => Shielded' = Shielded \union ({o} \ {Null})
      /\ ~MarkActive => grey' = grey
  BY <1>1, <1>2, Shading
<1>4. /\ Control' /\ Credits(credits, tickets, deltas, plane)'
      /\ MarkActive' = MarkActive
  BY <1>2, <1>3, MutatorControl
<1>5. o # Null
  BY MarkAssumption
<1>6. Typing'
  BY <1>1, <1>2, <1>3 DEF Typing, cycleVars, passVars
<1>7. RootObjects' \subseteq RootObjects \union {o}
  BY <1>1, <1>2 DEF RootObjects, Typing
<1>8. FreeHoldsNothing' /\ Traces'
  BY <1>1, <1>2, <1>3, <1>4 DEF FreeHoldsNothing, Traces, Unscanned
<1>9. Kept'
  <2>1. PICK T \in SUBSET allocated : Keeps(T, fields, RootObjects, ShieldIn(MarkActive))
    BY <1>1 DEF Kept
  <2>2. Closed(fields', T \union {o})
    BY <1>2, <2>1, WithNewObject DEF Keeps
  <2>3. ShieldIn(MarkActive)' \subseteq T \union {o}
    BY <1>3, <1>4, <2>1 DEF ShieldIn, Keeps
  <2>4. RootObjects' \subseteq T \union {o}
    BY <1>7, <2>1 DEF Keeps
  <2>5. T \union {o} \in SUBSET allocated'
    BY <1>2
  <2> QED BY <2>2, <2>3, <2>4, <2>5 DEF Kept, Keeps
<1>10. Covered'
  <2>1. ASSUME MarkActive, NEW T \in SUBSET Objects, Closed(fields, T), Shielded' \subseteq T
        PROVE  RootObjects' \subseteq T
    BY <1>1, <1>3, <1>5, <1>7, <2>1 DEF Covered, Covers
  <2> QED BY <1>2, <1>4, <2>1 DEF Covered, Covers
<1> QED BY <1>3, <1>4, <1>6, <1>8, <1>9, <1>10 DEF IInv, Grows

LEMMA AllocateIntoFieldStep ==
  ASSUME IInv, NEW o \in Objects \ allocated, NEW src \in Objects, NEW x \in Fields,
         AllocateIntoField(o, src, x)
  PROVE  IInv' /\ Grows
<1> DEFINE old == fields[src][x]
<1>1. Typing /\ FreeHoldsNothing /\ Kept /\ Traces /\ Covered
  BY DEF IInv
<1>2. /\ phase = "mutate"
      /\ src \in Reachable
      /\ grey' = Shade({old, o})
      /\ summary' = Merged(summary, BlockOf[src], Block(old), Block(o))
      /\ fields' = [fields EXCEPT ![src][x] = o]
      /\ allocated' = allocated \union {o}
      /\ UNCHANGED <<roots, marked, scan, tickets, credits, deltas, plane,
                     cycleVars, phase, passVars>>
  <2>1. BarrierShades(old, o) \union {o} = {old, o}
    BY DEF BarrierShades
  <2> QED BY <2>1 DEF AllocateIntoField, Event
<1>3. old \in Objects \union {Null} /\ o # Null
  BY <1>1, MarkAssumption DEF Typing
<1>4. /\ \A s \in Objects, y \in Fields :
           fields'[s][y] = IF s = src /\ y = x THEN o ELSE fields[s][y]
      /\ fields' \in [Objects -> [Fields -> Objects \union {Null}]]
  BY <1>1, <1>2 DEF Typing
<1> HIDE DEF old
<1>5. /\ grey' \in [Owners -> SUBSET Objects]
      /\ \A w \in Owners : grey'[w] \subseteq ObjectsOf(w)
      /\ MarkActive => Shielded' = Shielded \union ({old, o} \ {Null})
      /\ ~MarkActive => grey' = grey
  BY <1>1, <1>2, <1>3, Shading
<1>6. /\ Control' /\ Credits(credits, tickets, deltas, plane)'
      /\ MarkActive' = MarkActive
  BY <1>2, <1>5, MutatorControl
<1>7. summary' \in [Pairs -> [active : Int, published : Int, sequence : Nat]]
  BY <1>1, <1>2, MergedIsSummary DEF Typing
<1>8. Typing'
  BY <1>1, <1>2, <1>4, <1>5, <1>7 DEF Typing, cycleVars, passVars
<1>9. RootObjects' = RootObjects
  BY <1>2 DEF RootObjects
<1>10. PICK T \in SUBSET allocated : Keeps(T, fields, RootObjects, ShieldIn(MarkActive))
  BY <1>1 DEF Kept
<1>11. T \subseteq Objects /\ src \in T /\ src # o
  BY <1>1, <1>2, <1>10, ReachableIsKept DEF Keeps, Typing
<1>12. Kept'
  <2>1. old \in T \union {Null}
    BY <1>10, <1>11 DEF Keeps, Closed, old
  <2>2. Closed(fields, T \union {o})
    BY <1>10, WithNewObject DEF Keeps
  <2>3. Closed(fields', T \union {o})
    BY <1>4, <1>11, <2>2 DEF Closed
  <2>4. ShieldIn(MarkActive)' \subseteq T \union {o}
    BY <1>5, <1>6, <1>10, <2>1 DEF ShieldIn, Keeps
  <2>5. T \union {o} \in SUBSET allocated'
    BY <1>2
  <2>6. RootObjects' \subseteq T \union {o}
    BY <1>9, <1>10 DEF Keeps
  <2> QED BY <2>3, <2>4, <2>5, <2>6 DEF Kept, Keeps
<1>13. FreeHoldsNothing'
  BY <1>1, <1>2, <1>4, <1>11 DEF FreeHoldsNothing
<1>14. Traces'
  BY <1>1, <1>2, <1>4, <1>5, <1>6 DEF Traces, Unscanned, Typing
<1>15. Covered'
  <2>1. ASSUME MarkActive, NEW U \in SUBSET Objects, Closed(fields', U), Shielded' \subseteq U
        PROVE  RootObjects \subseteq U
    <3>1. Shielded \subseteq U /\ old \in U \union {Null}
      BY <1>5, <2>1
    <3>2. Closed(fields, U)
      BY <1>4, <2>1, <3>1 DEF Closed, old
    <3> QED BY <1>1, <2>1, <3>1, <3>2 DEF Covered, Covers
  <2> QED BY <1>6, <1>9, <2>1 DEF Covered, Covers
<1> QED BY <1>5, <1>6, <1>8, <1>12, <1>13, <1>14, <1>15 DEF IInv, Grows

LEMMA MutateStep ==
  ASSUME IInv, Mutate
  PROVE  IInv' /\ Grows
<1>1. ASSUME NEW w \in Owners, CanAllocate(w)
      PROVE  FreeObject(w) \in Objects \ allocated
  BY <1>1 DEF CanAllocate, FreeObject, ObjectsOf
<1> QED BY <1>1, StoreStep, SetRootStep, AllocateIntoRootStep, AllocateIntoFieldStep,
           MinorCycleStep DEF Mutate

LEMMA CollectStep ==
  ASSUME IInv, Collect
  PROVE  IInv' /\ Grows
BY ServeTicketStep, ServeDeltaStep, PublishDeltaStep, AdvanceSteps, BeginCycleStep, VisitStep,
   PopMarkStep, ScanFieldStep, EndRoundStep, ReturnSteps, FinishSteps DEF Collect

LEMMA NextStep ==
  ASSUME IInv, [Next]_vars
  PROVE  IInv' /\ Grows
<1>1. CASE Next
  BY <1>1, MutateStep, CallStep, CollectStep DEF Next
<1>2. CASE UNCHANGED vars
  <2>1. /\ UNCHANGED <<allocated, fields, roots, marked, grey, scan, tickets, credits,
                       summary, deltas, cycle, last, plane, phase, scope, visit, at>>
    BY <1>2 DEF vars, heapVars, markVars, edgeVars, cycleVars, passVars
  <2>2. Control' /\ Typing
    BY <2>1 DEF IInv, Control, MarkActive, Grey
  <2> QED BY <2>1, <2>2, ControlStep DEF Typing
<1> QED BY <1>1, <1>2

\* What is in use in a start heap is closed and has every root.
LEMMA StartIsKept ==
  ASSUME NEW h \in StartHeaps, allocated = Used(h), fields = h.fields, roots = h.roots
  PROVE  /\ fields \in [Objects -> [Fields -> Objects \union {Null}]]
         /\ roots \in [Roots -> Objects \union {Null}]
         /\ allocated \in SUBSET Objects
         /\ Closed(fields, allocated) /\ RootObjects \subseteq allocated
         /\ FreeHoldsNothing
<1>1. /\ h.fields \in [Objects -> [Fields -> Objects \union {Null}]]
      /\ h.roots \in [Roots -> Objects \union {Null}]
  BY MarkAssumption DEF Heaps
<1>2. allocated \in SUBSET Objects
  BY DEF Used
<1>3. Closed(fields, allocated)
  BY <1>1 DEF Closed, Used
<1>4. RootObjects \subseteq allocated
  BY <1>1 DEF RootObjects, Used
<1>5. FreeHoldsNothing
  BY MarkAssumption DEF FreeHoldsNothing
<1> QED BY <1>1, <1>2, <1>3, <1>4, <1>5

LEMMA ReferencesAreFinite ==
  ASSUME NEW p \in Pairs, allocated \in SUBSET Objects
  PROVE  Cardinality(References(p)) \in Nat
<1>1. IsFiniteSet(Objects \X Fields)
  BY MarkAssumption, FS_Product
<1>2. References(p) \subseteq Objects \X Fields
  BY DEF References
<1>3. IsFiniteSet(References(p))
  BY <1>1, <1>2, FS_Subset
<1> QED BY <1>3, FS_CardinalityType

LEMMA InitHolds ==
  ASSUME Init
  PROVE  IInv
<1>1. PICK h \in StartHeaps : allocated = Used(h) /\ fields = h.fields /\ roots = h.roots
  BY DEF Init
<1>2. /\ fields \in [Objects -> [Fields -> Objects \union {Null}]]
      /\ roots \in [Roots -> Objects \union {Null}]
      /\ allocated \in SUBSET Objects
      /\ Closed(fields, allocated) /\ RootObjects \subseteq allocated
      /\ FreeHoldsNothing
  BY <1>1, StartIsKept
<1>3. /\ summary \in [Pairs -> [active : Int, published : Int, sequence : Nat]]
      /\ PlaneTypes(plane) /\ \A p \in Pairs : plane[p].held = {}
  <2> DEFINE n(p) == Cardinality(References(p))
  <2>1. \A p \in Pairs : n(p) \in Nat
    BY <1>2, ReferencesAreFinite
  <2>2. /\ summary = [p \in Pairs |-> StartEntry(n(p))]
        /\ plane = [p \in Pairs |-> StartPair(n(p))]
    BY DEF Init
  <2> HIDE DEF n
  <2>3. summary \in [Pairs -> [active : Int, published : Int, sequence : Nat]]
    BY <2>1, <2>2 DEF StartEntry, Entry
  <2>4. \A p \in Pairs : /\ plane[p].held = {}
                         /\ plane[p] = [applied |-> plane[p].applied, next |-> plane[p].next,
                                        held |-> plane[p].held]
    BY <2>2 DEF StartPair, NewPair
  <2> QED BY <2>2, <2>3, <2>4 DEF PlaneTypes
<1>4. /\ deltas \in [Pairs -> Seq(Delta)] /\ \A p \in Pairs : Len(deltas[p]) = 0
      /\ credits \in Pools
  BY DEF Init, EmptyPool, Pools
<1>5. scan \in [object : Objects \union {Null}, todo : SUBSET Fields]
  BY DEF Init, Idle
<1>6. Typing
  BY <1>2, <1>3, <1>4, <1>5 DEF Init, Typing, Phases
<1>7. ~MarkActive /\ Grey = {}
  BY DEF Init, MarkActive, Grey
<1>8. Kept /\ Traces /\ Covered
  BY <1>2, <1>7 DEF Kept, Keeps, ShieldIn, Traces, Covered
<1>9. Control
  BY <1>7 DEF Init, Control
<1>10. Credits(credits, tickets, deltas, plane)
  BY <1>3, <1>4 DEF Init, Credits, TicketCredits, DeltaCredits, KeptCredits
<1> QED BY <1>2, <1>6, <1>8, <1>9, <1>10 DEF IInv

-----------------------------------------------------------------------------
(* The inductive invariant holds always: mark_impl.rs and heap_impl.rs     *)
(* keep every closed set of shaded and root objects allocated.             *)
THEOREM MarkInvariant == Spec => []IInv
<1>1. Init => IInv
  BY InitHolds
<1>2. IInv /\ [Next]_vars => IInv'
  BY NextStep
<1> QED BY <1>1, <1>2, PTL DEF Spec

(* No sweep takes an object that a mutator can still reach (sweep_owner,   *)
(* after a full cycle or after the major cycle of one owner).              *)
THEOREM NoReachableObjectSwept == Spec => []ReachableIsAllocated
<1>1. ASSUME IInv PROVE ReachableIsAllocated
  <2>1. PICK T \in SUBSET allocated : Keeps(T, fields, RootObjects, ShieldIn(MarkActive))
    BY <1>1 DEF IInv, Kept
  <2>2. T \in SUBSET Objects
    BY <1>1 DEF IInv, Typing
  <2> QED BY <2>1, <2>2, ReachableIsKept DEF Keeps, ReachableIsAllocated
<1> QED BY <1>1, MarkInvariant, PTL

(* In an open cycle, however often it was left and resumed, all that is    *)
(* reachable can be reached from what is marked, grey or ticketed (the     *)
(* hybrid barrier of store_managed_field, seed_mark_roots).                *)
THEOREM GreyProtects == Spec => []GreyProtectsReachable
<1>1. ASSUME IInv PROVE GreyProtectsReachable
  <2>1. ASSUME MarkActive, NEW o \in Reachable PROVE o \in Closure(Shielded)
    <3>1. o \in Objects
      BY DEF Reachable, Closure
    <3>2. ASSUME NEW T \in SUBSET Objects, Shielded \subseteq T, Closed(fields, T)
          PROVE  o \in T
      <4>1. RootObjects \subseteq T
        BY <1>1, <2>1, <3>2 DEF IInv, Covered, Covers
      <4> QED BY <3>2, <4>1, ReachableIsKept
    <3> QED BY <3>1, <3>2 DEF Closure
  <2> QED BY <2>1 DEF GreyProtectsReachable
<1> QED BY <1>1, MarkInvariant, PTL

(* A pass remembered as converged left no ticket, no delta and no grey     *)
(* object, and marked everything reachable (MarkPlane::termination).       *)
THEOREM TerminationIsSound == Spec => []TerminationSound
<1>1. ASSUME IInv, phase = "judged", last = TRUE PROVE TerminationSound
  <2>1. /\ Typing /\ Control /\ Credits(credits, tickets, deltas, plane)
    BY <1>1 DEF IInv
  <2>2. MarkActive /\ Grey = {} /\ tickets = {} /\ scan = Idle /\ Pending(credits) = {}
    BY <1>1, <2>1 DEF Control
  <2>3. ASSUME NEW p \in Pairs PROVE deltas[p] = << >> /\ plane[p].held = {}
    <3>1. PoolTypes(credits, tickets, deltas, plane)
      BY <2>1 DEF Typing, PoolTypes
    <3>2. \A s \in Slots : ~Backed(credits, s, "EdgeDelta")
      BY <2>2 DEF Pending, Backed, Free
    <3>3. plane[p].held = {}
      BY <2>1, <3>1, <3>2, CreditsAreSlots DEF Credits, KeptCredits
    <3>4. ASSUME deltas[p] # << >> PROVE FALSE
      <4>1. 1 \in 1 .. Len(deltas[p])
        BY <2>1, <3>4, HeadTaken DEF Typing
      <4> QED BY <2>1, <3>1, <3>2, <4>1, CreditsAreSlots DEF Credits, DeltaCredits
    <3> QED BY <3>3, <3>4
  <2>4. Reachable \subseteq marked
    BY <1>1, <2>2, MarkedIsKept, ReachableIsKept
  <2> QED BY <2>2, <2>3, <2>4 DEF TerminationSound
<1>2. ASSUME IInv PROVE TerminationSound
  <2>1. last \in BOOLEAN
    BY <1>2 DEF IInv, Typing
  <2> QED BY <1>1, <1>2, <2>1 DEF TerminationSound
<1> QED BY <1>2, MarkInvariant, PTL

(* Nothing that is marked, grey or ticketed ceases to be so inside an open *)
(* cycle: leaving it and resuming it loses no work (run_mark_pass).        *)
THEOREM NothingIsUngreyed == Spec => NothingUngreyed
<1>1. ASSUME IInv, [Next]_vars
      PROVE  [MarkActive /\ MarkActive' => Shielded \subseteq Shielded']_vars
  BY <1>1, NextStep DEF Grows
<1> QED BY <1>1, MarkInvariant, PTL DEF Spec, NothingUngreyed
=============================================================================
