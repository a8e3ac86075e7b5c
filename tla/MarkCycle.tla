------------------------------ MODULE MarkCycle ------------------------------
(***************************************************************************)
(* The mark cycle of the runtime: tracing across owners by mark tickets,   *)
(* termination by credits, and the cycle boundary at which unmarked        *)
(* objects are swept (world/mark_impl.rs, mark.rs), driven as              *)
(* pressure_drain (world/pacing_impl.rs) and collect_major drive it, with  *)
(* the edge deltas that share the credit pool (world/edge_impl.rs) and the *)
(* stores, root events and allocations of mutators (world/heap_impl.rs).   *)
(*                                                                         *)
(* The collector runs while mutators stand still, but a cycle it leaves    *)
(* open (a continuation, an unconverged major) is resumed by a later call, *)
(* and mutators run in between.  An error of the collector is fatal to the *)
(* program (docs/src/spec/runtime.md): it ends the behaviour in the phase  *)
(* "failed".  The exception is a pass that ends unconverged.               *)
(***************************************************************************)
EXTENDS CreditPool, EdgePlane

CONSTANTS Objects, Fields, Roots,
          Null,           \* no object, no owner
          BlockOf,        \* the heap block of every object
          HeapOf,         \* the owner of every block
          StartHeaps,     \* heaps that were built before the first event
          MaxEvents,      \* bound on events, minor cycles and calls
          MaxSkew         \* bound on epochs advanced without a mark cycle

Heaps == [fields : [Objects -> [Fields -> Objects \union {Null}]],
          roots : [Roots -> Objects \union {Null}]]
\* The objects in use in a start heap: whatever a root or a field names.
Used(h) == {o \in Objects : \/ \E r \in Roots : h.roots[r] = o
                            \/ \E s \in Objects, x \in Fields : h.fields[s][x] = o}

ASSUME MarkAssumption ==
  /\ Null \notin Objects \union Owners
  /\ NoBlock \notin Blocks
  /\ IsFiniteSet(Objects) /\ IsFiniteSet(Fields)
  /\ IsFiniteSet(Slots)   \* CreditPool::capacity
  /\ BlockOf \in [Objects -> Blocks]
  /\ HeapOf \in [Blocks -> Owners]
  /\ StartHeaps \subseteq Heaps
  /\ \A h \in StartHeaps, o \in Objects, x \in Fields :
       o \notin Used(h) => h.fields[o][x] = Null
  /\ MaxEvents \in Nat /\ MaxSkew \in Nat

OwnerOf(o) == HeapOf[BlockOf[o]]
ObjectsOf(w) == {o \in Objects : OwnerOf(o) = w}
Block(v) == IF v = Null THEN NoBlock ELSE BlockOf[v]
Idle == [object |-> Null, todo |-> {}]

VARIABLES
  allocated, fields, roots,         \* the heap and the root slots
  marked,                           \* mark bits of this cycle
  grey,                             \* each owner's mark worklist
  scan,                             \* the object being traced, its fields left
  tickets,                          \* mark tickets in the inboxes
  mailbox,                          \* each owner's count of tickets to come
  credits,
  summary, deltas, plane,           \* edges: source, under way, target
  cycle,                            \* MarkCycleState
  last,                             \* the remembered termination converged
  skew,                             \* cycle epoch minus mark plane's cycle
  phase, kind, scope, visit, at, progress,   \* the collector's control
  events

heapVars == <<allocated, fields, roots>>
markVars == <<marked, grey, scan, tickets, mailbox>>
edgeVars == <<summary, deltas, plane>>
cycleVars == <<cycle, last, skew>>
passVars == <<kind, scope, visit, at, progress>>
vars == <<heapVars, markVars, credits, edgeVars, cycleVars, phase, passVars, events>>

(***************************************************************************)
(* What is reachable.                                                      *)
(***************************************************************************)
Closed(f, T) == \A o \in T : \A x \in Fields : f[o][x] # Null => f[o][x] \in T
Closure(S) ==
  {o \in Objects : \A T \in SUBSET Objects : S \subseteq T /\ Closed(fields, T) => o \in T}
RootObjects == {roots[r] : r \in Roots} \ {Null}
Reachable == Closure(RootObjects)

Grey == UNION {grey[w] : w \in Owners}
Ticketed == {t.object : t \in tickets}
Shielded == marked \union Grey \union Ticketed

MarkActive == cycle # "Idle"

(***************************************************************************)
(* Mutators.                                                               *)
(***************************************************************************)
Event ==
  /\ phase = "mutate"
  /\ events < MaxEvents
  /\ events' = events + 1

\* The worklists after the objects of S were shaded.
Shade(S) ==
  IF MarkActive
  THEN [w \in Owners |-> grey[w] \union {o \in S \ {Null} : OwnerOf(o) = w}]
  ELSE grey

\* Mutant: the insertion half of the barrier only.
InsertionOnly(old, new) == {new}

\* The hybrid barrier: deletion keeps the overwritten reference, insertion
\* the new one.
BarrierShades(old, new) == {old, new}

Store(src, x, v) ==
  /\ Event
  /\ src \in Reachable /\ v \in Reachable \union {Null}
  /\ LET old == fields[src][x]
     IN  /\ grey' = Shade(BarrierShades(old, v))
         /\ summary' = Merged(summary, BlockOf[src], Block(old), Block(v))
         /\ fields' = [fields EXCEPT ![src][x] = v]
  /\ UNCHANGED <<allocated, roots, marked, scan, tickets, mailbox, credits,
                 deltas, plane, cycleVars, phase, passVars>>

\* A root slot is written without a barrier.
SetRoot(r, v) ==
  /\ Event
  /\ v \in Reachable \union {Null}
  /\ roots' = [roots EXCEPT ![r] = v]
  /\ UNCHANGED <<allocated, fields, markVars, credits, edgeVars, cycleVars,
                 phase, passVars>>

\* An owner's allocator decides which free object it hands out.
CanAllocate(w) == ObjectsOf(w) \ allocated # {}
FreeObject(w) == CHOOSE o \in ObjectsOf(w) : o \notin allocated

\* A new object is shaded, then its only reference is stored in a root ...
AllocateIntoRoot(o, r) ==
  /\ Event
  /\ allocated' = allocated \union {o}
  /\ grey' = Shade({o})
  /\ roots' = [roots EXCEPT ![r] = o]
  /\ UNCHANGED <<fields, marked, scan, tickets, mailbox, credits, edgeVars,
                 cycleVars, phase, passVars>>

\* ... or in a field.
AllocateIntoField(o, src, x) ==
  /\ Event
  /\ src \in Reachable
  /\ LET old == fields[src][x]
     IN  /\ grey' = Shade(BarrierShades(old, o) \union {o})
         /\ summary' = Merged(summary, BlockOf[src], Block(old), Block(o))
         /\ fields' = [fields EXCEPT ![src][x] = o]
  /\ allocated' = allocated \union {o}
  /\ UNCHANGED <<roots, marked, scan, tickets, mailbox, credits, deltas, plane,
                 cycleVars, phase, passVars>>

\* All that a minor cycle does to this state: the cycle epoch advances.
MinorCycle ==
  /\ Event
  /\ skew < MaxSkew
  /\ skew' = skew + 1
  /\ UNCHANGED <<heapVars, markVars, credits, edgeVars, cycle, last, phase,
                 passVars>>

Mutate ==
  \/ \E src \in Objects, x \in Fields, v \in Objects \union {Null} : Store(src, x, v)
  \/ \E r \in Roots, v \in Objects \union {Null} : SetRoot(r, v)
  \/ \E w \in Owners :
       /\ CanAllocate(w)
       /\ \/ \E r \in Roots : AllocateIntoRoot(FreeObject(w), r)
          \/ \E src \in Objects, x \in Fields : AllocateIntoField(FreeObject(w), src, x)
  \/ MinorCycle

(***************************************************************************)
(* Inboxes.  They are drained at four places of a pass; an owner's         *)
(* messages are taken in any order, those of one pair of blocks in the     *)
(* order they were published.                                              *)
(***************************************************************************)
Fail ==
  /\ phase' = "failed"
  /\ UNCHANGED <<heapVars, markVars, credits, edgeVars, cycleVars, passVars, events>>

TicketsFor(w) == {t \in tickets : OwnerOf(t.object) = w}
DeltasFor(w) == {p \in Pairs : HeapOf[p[2]] = w /\ deltas[p] # << >>}
InboxEmpty(w) == TicketsFor(w) = {} /\ DeltasFor(w) = {}
InboxesEmpty == \A w \in Owners : InboxEmpty(w)

Serving(w) ==
  \/ phase \in {"drain", "begin", "late"}
  \/ phase = "inbox" /\ at = w
Served == progress' = (progress \/ phase = "inbox")

ConsumeTicket(t, w) ==
  /\ tickets' = tickets \ {t}
  /\ mailbox' = [mailbox EXCEPT ![w] = @ - 1]
  /\ credits' = ConsumeWork(credits, t.credit)

ServeTicket(t) ==
  LET w == OwnerOf(t.object)
  IN  /\ Serving(w)
      /\ IF /\ t.object \in allocated
            /\ ValidConsume(credits, t.credit, "MarkTicket", w)
            /\ mailbox[w] > 0
         THEN /\ ConsumeTicket(t, w)
              /\ grey' = [grey EXCEPT ![w] = @ \union {t.object}]
              /\ Served
              /\ UNCHANGED <<heapVars, marked, scan, edgeVars, cycleVars,
                             phase, kind, scope, visit, at, events>>
         ELSE Fail

\* Mutant: a kept delta gives its credit back.
HoldReturns(p) ==
  /\ plane' = [plane EXCEPT ![p] = Hold(@, Head(deltas[p]))]
  /\ credits' = ReturnWork(credits, {Head(deltas[p]).credit})

\* A later sequence number than expected: kept, and its credit with it.
HoldDelta(p) ==
  /\ plane' = [plane EXCEPT ![p] = Hold(@, Head(deltas[p]))]
  /\ UNCHANGED credits

ApplyDelta(p) ==
  LET d == Head(deltas[p])
  IN  /\ plane' = [plane EXCEPT ![p] = ApplyInOrder(@, d)]
      /\ credits' = ReturnWork(credits, ReleasedCredits(plane[p], d))

ServeDelta(p) ==
  LET d == Head(deltas[p])
      w == HeapOf[p[2]]
      due == d.sequence = plane[p].next
  IN  /\ Serving(w)
      /\ deltas[p] # << >>
      /\ IF \/ d.stale
            \/ ~ValidInFlight(credits, d.credit, "EdgeDelta")
            \/ d.sequence < plane[p].next
            \/ /\ due
               /\ \E s \in ReleasedCredits(plane[p], d) :
                    ~ValidConsume(credits, s, "EdgeDelta", w)
         THEN Fail
         ELSE /\ IF due THEN ApplyDelta(p) ELSE HoldDelta(p)
              /\ deltas' = [deltas EXCEPT ![p] = Tail(@)]
              /\ Served
              /\ UNCHANGED <<heapVars, markVars, summary, cycleVars, phase,
                             kind, scope, visit, at, events>>

(***************************************************************************)
(* The callers: a full cycle or a bounded drain over all owners, and the   *)
(* major cycle of one owner.                                               *)
(***************************************************************************)
Go(p) ==
  /\ phase' = p
  /\ UNCHANGED <<heapVars, markVars, credits, edgeVars, cycleVars>>

FirstRound(owners) == visit' = owners /\ progress' = FALSE

StartDrain(k) ==
  /\ Go("drain")
  /\ kind' = k /\ scope' = Owners
  /\ FirstRound(Owners)
  /\ UNCHANGED at

CallCycle == Event /\ StartDrain("cycle")
CallBounded == Event /\ StartDrain("bounded")

CallMajor(w) ==
  /\ Event
  /\ Go(IF MarkActive THEN "visit" ELSE "begin")
  /\ kind' = "major" /\ scope' = {w}
  /\ FirstRound({w})
  /\ UNCHANGED at

\* The call returns to the mutators.
Return ==
  /\ phase' = "mutate"
  /\ kind' = "none" /\ scope' = {} /\ visit' = {} /\ at' = Null
  /\ progress' = FALSE

\* A bounded drain may leave messages behind.
Drained ==
  /\ phase = "drain"
  /\ kind = "bounded" \/ InboxesEmpty
  /\ Go("publish")
  /\ UNCHANGED <<passVars, events>>

PublishDelta(p) ==
  /\ phase = "publish"
  /\ p \in Unpublished(summary)
  /\ IF Exhausted(credits)
     THEN Fail
     ELSE /\ LET entry == summary[p]
             IN  /\ summary' = [summary EXCEPT ![p] = Published(entry)]
                 /\ deltas' = [deltas EXCEPT ![p] = Append(@,
                      [sequence |-> entry.sequence + 1, delta |-> NetChange(entry),
                       credit |-> NextCredit(credits), stale |-> skew # 0])]
          /\ credits' = AcquireWork(credits, HeapOf[p[1]], HeapOf[p[2]], "EdgeDelta")
          /\ UNCHANGED <<heapVars, markVars, plane, cycleVars, phase, passVars, events>>

AllPublished ==
  /\ phase = "publish"
  /\ Unpublished(summary) = {}
  /\ IF kind = "bounded"
     THEN Return
     ELSE /\ phase' = IF MarkActive THEN "visit" ELSE "begin"
          /\ UNCHANGED passVars
  /\ UNCHANGED <<heapVars, markVars, credits, edgeVars, cycleVars, events>>

(***************************************************************************)
(* A pass: the snapshot of a new cycle, then rounds over the owners in     *)
(* scope until one makes no progress.                                      *)
(***************************************************************************)
\* Mutant: every owner takes every root.
SeedsUnfiltered(owners) ==
  [w \in Owners |-> IF w \in owners THEN RootObjects ELSE {}]

Seeds(owners) ==
  [w \in Owners |-> IF w \in owners THEN {o \in RootObjects : OwnerOf(o) = w} ELSE {}]

BeginCycle ==
  /\ phase = "begin"
  /\ InboxesEmpty
  /\ IF Pending(credits) # {} \/ \E o \in RootObjects : OwnerOf(o) \notin scope
     THEN Fail
     ELSE /\ grey' = Seeds(scope)
          /\ mailbox' = [w \in Owners |-> 0]
          /\ cycle' = "Marking"
          /\ skew' = skew - 1
          /\ phase' = "visit"
          /\ UNCHANGED <<heapVars, marked, scan, tickets, credits, edgeVars, last, passVars, events>>

\* An owner's inbox is emptied before the next owner has its turn; owners
\* are visited in one fixed order.
BetweenOwners ==
  \/ phase = "visit"
  \/ phase = "inbox" /\ InboxEmpty(at)

Visit ==
  /\ BetweenOwners
  /\ visit # {}
  /\ Go("worklist")
  /\ at' = CHOOSE w \in visit : TRUE
  /\ visit' = visit \ {at'}
  /\ UNCHANGED <<kind, scope, progress, events>>

\* Mutant: no test, an object is scanned whenever it is popped.
MarkAgain(o) ==
  /\ marked' = marked \union {o}
  /\ scan' = [object |-> o, todo |-> Fields]
  /\ progress' = TRUE

\* Test-and-mark: an object already marked is skipped.
MarkObject(o) ==
  IF o \in marked
  THEN UNCHANGED <<marked, scan, progress>>
  ELSE /\ marked' = marked \union {o}
       /\ scan' = [object |-> o, todo |-> Fields]
       /\ progress' = TRUE

PopMark(o) ==
  /\ phase = "worklist"
  /\ scan = Idle
  /\ o \in grey[at]
  /\ IF o \notin allocated
     THEN Fail
     ELSE /\ grey' = [grey EXCEPT ![at] = @ \ {o}]
          /\ MarkObject(o)
          /\ UNCHANGED <<heapVars, tickets, mailbox, credits, edgeVars, cycleVars,
                         phase, kind, scope, visit, at, events>>

Traced(x) ==
  scan' = IF scan.todo = {x} THEN Idle ELSE [scan EXCEPT !.todo = @ \ {x}]

PushLocal(v) ==
  /\ grey' = [grey EXCEPT ![at] = @ \union {v}]
  /\ UNCHANGED <<tickets, mailbox, credits>>

PublishTicket(v) ==
  /\ tickets' = tickets \union {[credit |-> NextCredit(credits), object |-> v]}
  /\ mailbox' = [mailbox EXCEPT ![OwnerOf(v)] = @ + 1]
  /\ credits' = AcquireWork(credits, at, OwnerOf(v), "MarkTicket")
  /\ UNCHANGED grey

ScanField(x) ==
  LET v == fields[scan.object][x]
      remote == v # Null /\ OwnerOf(v) # at
  IN  /\ phase = "worklist"
      /\ x \in scan.todo
      /\ IF v # Null /\ (v \notin allocated \/ (remote /\ Exhausted(credits)))
         THEN Fail
         ELSE /\ Traced(x)
              /\ \/ v = Null /\ UNCHANGED <<grey, tickets, mailbox, credits>>
                 \/ v # Null /\ ~remote /\ PushLocal(v)
                 \/ remote /\ PublishTicket(v)
              /\ UNCHANGED <<heapVars, marked, edgeVars, cycleVars, phase,
                             passVars, events>>

WorklistEmpty ==
  /\ phase = "worklist"
  /\ scan = Idle /\ grey[at] = {}
  /\ Go("inbox")
  /\ UNCHANGED <<passVars, events>>

\* Mutants: worklists alone decide; messages alone decide.
ConvergedLocally(g, box, pool) == \A w \in Owners : g[w] = {}
ConvergedByMessages(g, box, pool) ==
  (\A w \in Owners : box[w] = 0) /\ Pending(pool) = {}

\* All of the conditions of a termination record that this state has.
Converged(g, box, pool) ==
  /\ \A w \in Owners : g[w] = {}
  /\ \A w \in Owners : box[w] = 0
  /\ Pending(pool) = {}

\* The end of a round: consumed tickets give their credits back, and only
\* a round without any progress ends the pass.
NextRound ==
  /\ phase' = "visit"
  /\ FirstRound(scope)
  /\ UNCHANGED <<cycle, last>>
Remember ==
  /\ phase' = "judged"
  /\ cycle' = "Converging"
  /\ last' = Converged(grey, mailbox, credits')
  /\ UNCHANGED <<visit, progress>>

\* Mutant: a pass is one round.
OneRound == FALSE

RoundMoved == progress \/ Settleable(credits, scope) # {}

EndRound ==
  /\ BetweenOwners
  /\ visit = {}
  /\ credits' = SettleOwners(credits, scope)
  /\ IF RoundMoved THEN NextRound ELSE Remember
  /\ UNCHANGED <<heapVars, markVars, edgeVars, skew, kind, scope, at, events>>

(***************************************************************************)
(* After a pass.                                                           *)
(***************************************************************************)
\* Mutant: an unfinished pass clears the worklists as a finished one does.
ContinueClears ==
  /\ phase = "judged"
  /\ kind = "cycle" \/ ~last
  /\ Return
  /\ grey' = [w \in Owners |-> {}]
  /\ UNCHANGED <<heapVars, marked, scan, tickets, mailbox, credits, edgeVars,
                 cycleVars, events>>

\* Unconverged or over the remark budget: the cycle stays open.
Continue ==
  /\ phase = "judged"
  /\ kind = "cycle" \/ ~last
  /\ Return
  /\ UNCHANGED <<heapVars, markVars, credits, edgeVars, cycleVars, events>>

Sweep(owners) ==
  LET dead == {o \in allocated : o \notin marked /\ OwnerOf(o) \in owners}
  IN  /\ allocated' = allocated \ dead
      /\ fields' = [o \in Objects |-> IF o \in dead THEN [x \in Fields |-> Null]
                                                    ELSE fields[o]]

\* The mark bits and the termination record of a closed cycle have no reader
\* in this model; the code clears them when the next cycle begins.
FinishMarkCycle ==
  /\ cycle' = "Idle" /\ last' = FALSE
  /\ marked' = {}
  /\ grey' = [w \in Owners |-> {}]
  /\ Return
  /\ UNCHANGED <<roots, scan, tickets, mailbox, credits, summary, deltas, events>>

FinishMajor ==
  /\ phase = "judged"
  /\ kind = "major" /\ last
  /\ Sweep(scope)
  /\ skew' = skew + 1
  /\ FinishMarkCycle
  /\ UNCHANGED plane

\* The cycle epoch advances, then inboxes are drained once more.
RemarkComplete ==
  /\ phase = "judged"
  /\ kind = "cycle" /\ last
  /\ skew' = skew + 1
  /\ phase' = "late"
  /\ UNCHANGED <<heapVars, markVars, credits, edgeVars, cycle, last, passVars, events>>

Settled == phase = "late" /\ InboxesEmpty

FinishCycle ==
  /\ Settled
  /\ plane' = RetireZeroPairs(plane)
  /\ Sweep(Owners)
  /\ FinishMarkCycle
  /\ UNCHANGED skew

\* Other work is still under way (returns, card batches, transfers): the
\* epoch has advanced, the cycle has not ended.
KeepOpen ==
  /\ Settled
  /\ skew <= MaxSkew
  /\ plane' = RetireZeroPairs(plane)
  /\ Return
  /\ UNCHANGED <<heapVars, markVars, credits, summary, deltas, cycleVars, events>>

Call == CallCycle \/ CallBounded \/ \E w \in Owners : CallMajor(w)

Collect ==
  \/ \E t \in tickets : ServeTicket(t)
  \/ \E p \in Pairs : ServeDelta(p) \/ PublishDelta(p)
  \/ Drained \/ AllPublished
  \/ BeginCycle
  \/ Visit
  \/ \E o \in Objects : PopMark(o)
  \/ \E x \in Fields : ScanField(x)
  \/ WorklistEmpty \/ EndRound
  \/ Continue \/ FinishMajor \/ RemarkComplete \/ FinishCycle \/ KeepOpen

\* The fields that hold a reference across a pair of blocks.
References(p) ==
  {ox \in allocated \X Fields :
     /\ BlockOf[ox[1]] = p[1]
     /\ Block(fields[ox[1]][ox[2]]) = p[2]}

Init ==
  /\ \E h \in StartHeaps :
       /\ allocated = Used(h)
       /\ fields = h.fields
       /\ roots = h.roots
  /\ marked = {}
  /\ grey = [w \in Owners |-> {}]
  /\ scan = Idle
  /\ tickets = {}
  /\ mailbox = [w \in Owners |-> 0]
  /\ credits = EmptyPool
  /\ summary = [p \in Pairs |-> StartEntry(Cardinality(References(p)))]
  /\ deltas = [p \in Pairs |-> << >>]
  /\ plane = [p \in Pairs |-> StartPair(Cardinality(References(p)))]
  /\ cycle = "Idle" /\ last = FALSE /\ skew = 0
  /\ phase = "mutate" /\ kind = "none" /\ scope = {} /\ visit = {}
  /\ at = Null
  /\ progress = FALSE
  /\ events = 0

Next == Mutate \/ Call \/ Collect

\* A call that was made runs to its end; nothing obliges anyone to call.
Spec == Init /\ [][Next]_vars /\ WF_vars(Collect)

(***************************************************************************)
(* Properties.                                                             *)
(***************************************************************************)
Phases == {"mutate", "drain", "publish", "begin", "visit", "worklist", "inbox",
           "judged", "late", "failed"}
Delta == [sequence : Nat, delta : Int, credit : Slots, stale : BOOLEAN]

\* Every variable has its type; a worklist only ever holds objects of its
\* own owner (mark_impl.rs, rule 1: no owner events another's arena).
TypeOK ==
  /\ allocated \in SUBSET Objects
  /\ fields \in [Objects -> [Fields -> Objects \union {Null}]]
  /\ roots \in [Roots -> Objects \union {Null}]
  /\ marked \in SUBSET Objects
  /\ grey \in [Owners -> SUBSET Objects]
  /\ \A w \in Owners : grey[w] \subseteq ObjectsOf(w)
  /\ scan \in [object : Objects \union {Null}, todo : SUBSET Fields]
  /\ scan # Idle => scan.object \in ObjectsOf(at)
  /\ tickets \in SUBSET [credit : Slots, object : Objects]
  /\ mailbox \in [Owners -> Nat]
  /\ credits \in Pools
  /\ summary \in [Pairs -> [active : Int, published : Int, sequence : Nat]]
  /\ deltas \in [Pairs -> Seq(Delta)]
  /\ plane \in [Pairs -> [applied : Int, next : Nat, held : SUBSET Delta]]
  /\ cycle \in {"Idle", "Marking", "Converging"}
  /\ last \in BOOLEAN
  /\ skew \in Int
  /\ phase \in Phases
  /\ kind \in {"none", "cycle", "bounded", "major"}
  /\ scope \in SUBSET Owners /\ visit \in SUBSET Owners
  /\ at \in Owners \union {Null}
  /\ progress \in BOOLEAN
  /\ events \in Nat

\* No sweep ever takes an object that a mutator can still reach
\* (sweep_owner after finish_mark_cycle, for one owner or for all).
ReachableIsAllocated == Reachable \subseteq allocated

\* While a cycle is open, however often it was left and resumed, whatever
\* mutators can reach can still be reached from a marked object, from a
\* worklist or from a ticket under way (seed_mark_roots, shade_address).
GreyProtectsReachable == MarkActive => Reachable \subseteq Closure(Shielded)

\* A pass that is remembered as converged left nothing behind: no work of
\* any kind is under way, and every reachable object is marked
\* (MarkPlane::termination, run_mark_pass).
TerminationSound ==
  phase = "judged" /\ last =>
    /\ Grey = {} /\ tickets = {} /\ scan = Idle
    /\ \A p \in Pairs : deltas[p] = << >> /\ plane[p].held = {}
    /\ Reachable \subseteq marked

\* The other direction: a pass over all owners does converge, unless an
\* edge delta is kept for a sequence number to come (run_mark_pass: its
\* last round is one in which nothing moved).
FullPassConverges ==
  phase = "judged" /\ scope = Owners /\ (\A p \in Pairs : plane[p].held = {}) => last

\* A credit in flight is carried by exactly one message: a ticket, a delta
\* under way, or a delta kept by the target; the mailbox of an owner counts
\* the tickets on their way to it (publish_ticket, consume_ticket).
DeltasOn(p) == {deltas[p][k] : k \in 1..Len(deltas[p])} \union plane[p].held
CreditsMatchMessages ==
  LET carried(s) ==
        Cardinality({t \in tickets : t.credit = s})
          + Cardinality({pk \in Pairs \X (1..Cardinality(Slots)) :
                           /\ pk[2] <= Len(deltas[pk[1]])
                           /\ deltas[pk[1]][pk[2]].credit = s})
          + Cardinality({p \in Pairs : \E h \in plane[p].held : h.credit = s})
  IN  /\ \A s \in Slots :
           carried(s) = IF credits[s].state = "InFlight" THEN 1 ELSE 0
      /\ \A w \in Owners : mailbox[w] = Cardinality(TicketsFor(w))

\* What the target of a pair of blocks has applied, keeps and is still to
\* receive adds up to what the source has published, and the source counts
\* at least the references there are, so its count never underflows
\* (EdgeSummary::apply and publish, EdgePlane::apply).
EdgesConserved ==
  \A p \in Pairs :
    /\ plane[p].applied + SumOf(DeltasOn(p)) = summary[p].published
    /\ summary[p].active >= Cardinality(References(p))

\* A step inside an open cycle never takes an object out of the marked,
\* grey and ticketed ones: leaving and resuming a cycle loses nothing
\* (run_mark_pass: no new seed, no cleared worklist on resumption).
NothingUngreyed ==
  [][MarkActive /\ MarkActive' => Shielded \subseteq Shielded']_vars

\* Every call comes back to the mutators or fails: no pass runs for ever
\* (drain_mark_worklist's test-and-mark, run_mark_pass's progress).
CallEnds == phase # "mutate" ~> phase \in {"mutate", "failed"}
=============================================================================
