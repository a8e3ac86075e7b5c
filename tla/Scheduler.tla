----------------------------- MODULE Scheduler -----------------------------
(***************************************************************************)
(* The run queues of scheduler.rs: run_next, local deque, remote carries   *)
(* and injection carry of each processor, producer staging, stealing,      *)
(* overflow, parking of workers and changes of the parallelism.  A method  *)
(* of SchedulerWorld is one action; what a caller composes of several      *)
(* methods (look, check, park; step, enter) is several actions.            *)
(***************************************************************************)
EXTENDS Integers, Sequences, FiniteSets, SequencesExt

CONSTANTS
  Coroutines,       \* control blocks
  Workers,          \* threads that park in the idle registry
  Producers,        \* producer handles
  ShardOf,          \* Producers -> shard of the producer's seed
  None,             \* no coroutine
  Shards,           \* SCHED_REMOTE_SHARDS, 8 in the code
  LocalCapacity,    \* SCHED_LOCAL_CAPACITY, 256
  BatchMax,         \* SCHED_BATCH_MAX, 128
  ServiceInterval,  \* SCHED_SERVICE_INTERVAL, 61
  SeqLimit,         \* largest work_seq, 2^64 - 1
  Parallelism,      \* initial parallelism
  MaxCalls,         \* bound of the model: wake-ups and changes of the parallelism
  MaxProcessors     \* bound of the model: processors ever allocated

ShardSet == 0..(Shards - 1)

ASSUME SchedulerAssumption ==
  /\ {Shards, BatchMax, SeqLimit, Parallelism, MaxProcessors} \subseteq Nat \ {0}
  /\ MaxCalls \in Nat /\ Parallelism <= MaxProcessors
  /\ LocalCapacity \in Nat \ {0} /\ ServiceInterval \in Nat \ {0, 1}
  /\ BatchMax <= LocalCapacity
  /\ ShardOf \in [Producers -> ShardSet]
  /\ None \notin Coroutines
  /\ IsFiniteSet(Workers) /\ Workers # {}

VARIABLES
  life,         \* Coroutines -> lifecycle in the state word
  batch,        \* coroutines whose word has BATCH_PUBLISHING
  procs,        \* id -> processor record; the ids are 1..Len(procs)
  parallelism,  \* last applied request
  staging,      \* Producers -> [target, handles]
  workSeq,      \* work_seq of the idle registry
  idle,         \* parked workers, the last parked at the end: [worker, proc, seen],
                \* with the processor and the work_seq they had looked at
  look,         \* Workers -> [at, proc, seen]: where a worker is in the park protocol
  held,         \* runnable handles returned to a caller and not entered yet
  calls,        \* requests so far
  lost          \* history: runnable handles the code let go of

queues == <<procs, parallelism, staging>>
registry == <<workSeq, idle, look>>
vars == <<life, batch, queues, registry, held, calls, lost>>

Processors == DOMAIN procs
Retiring(p) == procs[p].state = "Retiring"

NewProcessor ==
  [state |-> "Idle", runNext |-> None, hits |-> 0, local |-> <<>>,
   carries |-> [s \in ShardSet |-> <<>>], inj |-> <<>>, cursor |-> 0, tick |-> 0]

NoStaging == [target |-> 0, handles |-> <<>>]

NotLooking == [at |-> "awake", proc |-> 0, seen |-> 0]

(* The dense snapshot: rebuild_snapshot follows every change of a state.   *)
Active == {p \in Processors : ~Retiring(p)}
FirstActive == CHOOSE p \in Active : \A a \in Active : p <= a

Init ==
  /\ life = [c \in Coroutines |-> "Waiting"]
  /\ batch = {} /\ held = {} /\ lost = {} /\ calls = 0
  /\ procs = [p \in 1..Parallelism |-> NewProcessor]
  /\ parallelism = Parallelism
  /\ staging = [pr \in Producers |-> NoStaging]
  /\ workSeq = 0 /\ idle = <<>>
  /\ look = [w \in Workers |-> NotLooking]

-----------------------------------------------------------------------------
(* The state words of the coroutines                                       *)

(* Mutant: enter_coroutine leaves BATCH_PUBLISHING set.                    *)
EnterKeepsBit(c) ==
  /\ c \in held /\ life[c] = "Runnable"
  /\ life' = [life EXCEPT ![c] = "Running"]
  /\ held' = held \ {c}
  /\ UNCHANGED <<batch, queues, registry, lost>>

(* take_running, enter_coroutine                                           *)
Enter(c) ==
  /\ c \in held /\ life[c] = "Runnable"
  /\ life' = [life EXCEPT ![c] = "Running"]
  /\ batch' = batch \ {c}
  /\ held' = held \ {c}
  /\ UNCHANGED <<queues, registry, lost>>

(* save_coroutine at a safepoint: the context is stored and the coroutine  *)
(* waits, or goes back to the caller as runnable.                          *)
Save(c, waiting) ==
  /\ life[c] = "Running"
  /\ life' = [life EXCEPT ![c] = IF waiting THEN "Waiting" ELSE "Runnable"]
  /\ held' = IF waiting THEN held ELSE held \union {c}
  /\ UNCHANGED <<batch, queues, registry, lost>>

-----------------------------------------------------------------------------
(* One processor                                                           *)

Full(q) == Len(q.local) >= LocalCapacity

(* Mutant: push_back without the capacity test.                            *)
PushUnchecked(q, c) == [q EXCEPT !.local = Append(@, c)]

(* push_back                                                               *)
Push(q, c) == IF Full(q) THEN q ELSE [q EXCEPT !.local = Append(@, c)]

(* push_run_next: the old handle goes to the local tail; when the deque is *)
(* full it is in neither place.                                            *)
PushRunNext(q, c) ==
  IF q.runNext = None THEN [q EXCEPT !.runNext = c]
  ELSE [Push(q, q.runNext) EXCEPT !.runNext = c, !.hits = 0]

After(i, n) == IF i + 1 = n THEN 0 ELSE i + 1
Away(q, s) == IF s >= q.cursor THEN s - q.cursor ELSE s - q.cursor + Shards

HasExternal(q) == q.inj # <<>> \/ \E s \in ShardSet : q.carries[s] # <<>>

(* The first shard with a carry, from the cursor on.                       *)
NextShard(q) ==
  CHOOSE s \in ShardSet :
    /\ q.carries[s] # <<>>
    /\ \A t \in ShardSet : q.carries[t] # <<>> => Away(q, s) <= Away(q, t)

(* service_external: a carry of the next shard, else the injection carry,  *)
(* each from its end.                                                      *)
RemoteReady(q) == \E s \in ShardSet : q.carries[s] # <<>>
External(q) ==
  IF RemoteReady(q) THEN Last(q.carries[NextShard(q)]) ELSE Last(q.inj)

(* Mutant: the cursor stays on the shard it has served.                    *)
AfterSameShard(q) ==
  IF RemoteReady(q) THEN [q EXCEPT !.carries[NextShard(q)] = Front(@)]
  ELSE [q EXCEPT !.inj = Front(@)]

AfterExternal(q) ==
  IF RemoteReady(q)
  THEN [q EXCEPT !.carries[NextShard(q)] = Front(@),
                 !.cursor = After(NextShard(q), Shards)]
  ELSE [q EXCEPT !.inj = Front(@)]

HasWork(q) == q.runNext # None \/ q.local # <<>> \/ HasExternal(q)

Handles(s) == {s[i] : i \in DOMAIN s}

(* Mutant: drain_all forgets the injection carry.                          *)
AllButInjection(q) ==
  ({q.runNext} \ {None}) \union Handles(q.local)
    \union UNION {Handles(q.carries[s]) : s \in ShardSet}

(* drain_all                                                               *)
AllOf(q) ==
  ({q.runNext} \ {None}) \union Handles(q.local) \union Handles(q.inj)
    \union UNION {Handles(q.carries[s]) : s \in ShardSet}

(* Mutant: drain_all reads run_next without taking it.                     *)
DrainedKeepsRunNext(q) ==
  [q EXCEPT !.hits = 0, !.local = <<>>, !.inj = <<>>,
            !.carries = [s \in ShardSet |-> <<>>]]

Drained(q) ==
  [q EXCEPT !.runNext = None, !.hits = 0, !.local = <<>>, !.inj = <<>>,
            !.carries = [s \in ShardSet |-> <<>>]]

-----------------------------------------------------------------------------
(* schedule_step                                                           *)

(* The walk of steal over the dense snapshot: from a random start, with a  *)
(* random step lowered while it divides the number of active processors.   *)
StealStep(n, r) ==
  CHOOSE k \in 1..r :
    /\ k = 1 \/ n % k # 0
    /\ \A j \in (k + 1)..r : n % j = 0
Position(p) == Cardinality({a \in Active : a < p})
Victims(p) ==
  {v \in Active \ {p} : Cardinality(Active) >= 2 /\ procs[v].local # <<>>}
WalkMisses(p) ==
  LET n == Cardinality(Active)
  IN  \E start \in 0..(n - 1), r \in 1..(n - 1) :
        \A v \in Victims(p), i \in 0..(n - 1) :
          Position(v) # (start + i * StealStep(n, r)) % n

SmallerOf(a, b) == IF a <= b THEN a ELSE b
Claimed(q) == SmallerOf((Len(q.local) + 1) \div 2, BatchMax)

(* What remains of processor p before the queues are looked at: the tick   *)
(* is counted, and a run_next that is not served is forgotten.             *)
Ticked(p) == [procs[p] EXCEPT !.tick = After(@, ServiceInterval)]
Passed(p) == [Ticked(p) EXCEPT !.runNext = None, !.hits = 0]
ServiceDue(p) == Ticked(p).tick = 0 /\ HasExternal(procs[p])
RunNextDue(p) == procs[p].runNext # None /\ procs[p].hits = 0
PassRunNext(p) ==
  /\ ~ServiceDue(p) /\ ~RunNextDue(p)
  /\ lost' = lost \union ({procs[p].runNext} \ {None})

Return(p, c, q) ==
  /\ procs' = [procs EXCEPT ![p] = q]
  /\ held' = held \union {c}
StepFrame == UNCHANGED <<life, batch, parallelism, staging, registry>>

StepService(p) ==
  /\ ServiceDue(p)
  /\ Return(p, External(procs[p]), AfterExternal(Ticked(p)))
  /\ UNCHANGED lost /\ StepFrame

StepRunNext(p) ==
  /\ ~ServiceDue(p) /\ RunNextDue(p)
  /\ Return(p, procs[p].runNext, [Ticked(p) EXCEPT !.runNext = None, !.hits = 1])
  /\ UNCHANGED lost /\ StepFrame

StepLocal(p) ==
  /\ PassRunNext(p)
  /\ procs[p].local # <<>>
  /\ Return(p, Last(procs[p].local), [Passed(p) EXCEPT !.local = Front(@)])
  /\ StepFrame

StepExternal(p) ==
  /\ PassRunNext(p)
  /\ procs[p].local = <<>> /\ HasExternal(procs[p])
  /\ Return(p, External(procs[p]), AfterExternal(Passed(p)))
  /\ StepFrame

Dry(p) == procs[p].local = <<>> /\ ~HasExternal(procs[p])

(* steal: half of the victim's deque from its head; the first is returned, *)
(* the rest goes to the thief's (empty) deque.                             *)
StepSteal(p) ==
  /\ PassRunNext(p)
  /\ Dry(p)
  /\ \E v \in Victims(p) :
       LET n    == Claimed(procs[v])
           part == SubSeq(procs[v].local, 1, n)
       IN  /\ procs' = [procs EXCEPT
                          ![p] = [Passed(p) EXCEPT !.local = Tail(part)],
                          ![v].local = SubSeq(@, n + 1, Len(@))]
           /\ held' = held \union {Head(part)}
  /\ StepFrame

StepNothing(p) ==
  /\ PassRunNext(p)
  /\ Dry(p)
  /\ Victims(p) = {} \/ WalkMisses(p)
  /\ procs' = [procs EXCEPT ![p] = Passed(p)]
  /\ UNCHANGED held /\ StepFrame

ScheduleStep(p) ==
  \/ StepService(p) \/ StepRunNext(p) \/ StepLocal(p)
  \/ StepExternal(p) \/ StepSteal(p) \/ StepNothing(p)

-----------------------------------------------------------------------------
(* Publication.  A chain goes to the shard's carry of its target, or to    *)
(* the injection carry of the first active processor when the target is    *)
(* retiring; only a carry that was empty advances work_seq and wakes the   *)
(* worker that parked last.                                                *)

Shared == [procs |-> procs, seq |-> workSeq, idle |-> idle]

Route(t) == IF Retiring(t) THEN FirstActive ELSE t
Carry(sh, t, s) == IF Retiring(t) THEN sh.procs[Route(t)].inj ELSE sh.procs[t].carries[s]
CanFlush(sh, t, s) == Carry(sh, t, s) = <<>> => sh.seq < SeqLimit

Flush(sh, t, s, chain) ==
  LET first == Carry(sh, t, s) = <<>>
  IN  [procs |-> IF Retiring(t)
                 THEN [sh.procs EXCEPT ![Route(t)].inj = @ \o chain]
                 ELSE [sh.procs EXCEPT ![t].carries[s] = @ \o chain],
       seq   |-> IF first THEN sh.seq + 1 ELSE sh.seq,
       idle  |-> IF first /\ sh.idle # <<>> THEN Front(sh.idle) ELSE sh.idle]

Become(sh) == procs' = sh.procs /\ workSeq' = sh.seq /\ idle' = sh.idle

(* flush_schedule_staging of what an earlier failure left behind.          *)
FlushStaging(pr) ==
  LET st == staging[pr]
  IN  /\ st.handles # <<>>
      /\ CanFlush(Shared, st.target, ShardOf[pr])
      /\ Become(Flush(Shared, st.target, ShardOf[pr], st.handles))
      /\ staging' = [staging EXCEPT ![pr] = NoStaging]
      /\ UNCHANGED <<life, batch, parallelism, look, held, lost>>

(* ready_publish by the owner of the target: run_next.                     *)
ReadyOwner(c, t) ==
  /\ life[c] = "Waiting" /\ ~Retiring(t)
  /\ life' = [life EXCEPT ![c] = "Runnable"]
  /\ procs' = [procs EXCEPT ![t] = PushRunNext(@, c)]
  /\ lost' = IF procs[t].runNext # None /\ Full(procs[t])
             THEN lost \union {procs[t].runNext} ELSE lost
  /\ UNCHANGED <<batch, parallelism, staging, registry, held>>

(* ready_batch: an older chain for another target, or a full one, is       *)
(* flushed first; when the last flush fails the handle stays in staging.   *)
ReadyBatch(c, t, pr) ==
  LET s     == ShardOf[pr]
      st    == staging[pr]
      flush == /\ st.handles # <<>>
               /\ st.target # t \/ Len(st.handles) = BatchMax
      sh    == IF flush THEN Flush(Shared, st.target, s, st.handles) ELSE Shared
      chain == Append(IF flush THEN <<>> ELSE st.handles, c)
  IN  /\ life[c] = "Waiting"
      /\ flush => CanFlush(Shared, st.target, s)
      /\ life' = [life EXCEPT ![c] = "Runnable"]
      /\ batch' = batch \union {c}
      /\ IF CanFlush(sh, t, s)
         THEN /\ Become(Flush(sh, t, s, chain))
              /\ staging' = [staging EXCEPT ![pr] = NoStaging]
         ELSE /\ Become(sh)
              /\ staging' = [staging EXCEPT ![pr] = [target |-> t, handles |-> chain]]
      /\ UNCHANGED <<parallelism, look, held, lost>>

(* yield_now: to the local tail; a full deque refuses the handle after the *)
(* state has become Runnable.                                              *)
Yield(c, p) ==
  /\ life[c] = "Running"
  /\ life' = [life EXCEPT ![c] = "Runnable"]
  /\ procs' = [procs EXCEPT ![p] = Push(@, c)]
  /\ lost' = IF Full(procs[p]) THEN lost \union {c} ELSE lost
  /\ UNCHANGED <<batch, parallelism, staging, registry, held>>

(* overflow_local: the oldest handles go to a remote carry of an idle      *)
(* processor, or to the own injection carry; nobody is notified.           *)
Overflow(p, t) ==
  LET q    == procs[p]
      n    == SmallerOf(Len(q.local), BatchMax)
      part == SubSeq(q.local, 1, n)
      kept == [q EXCEPT !.local = SubSeq(@, n + 1, Len(@)), !.hits = 0]
      base == [procs EXCEPT ![p] = kept]
  IN  /\ Full(q)
      /\ procs' = IF t = p THEN [base EXCEPT ![p].inj = @ \o part]
                  ELSE [base EXCEPT ![t].carries[base[t].cursor] = @ \o part]
      /\ UNCHANGED <<life, batch, parallelism, staging, registry, held, lost>>

-----------------------------------------------------------------------------
(* Topology                                                                *)

(* apply_parallelism: new processors with new ids, or the last active ones *)
(* retire.                                                                 *)
Grow(n) ==
  /\ n > parallelism
  /\ Len(procs) + n - parallelism <= MaxProcessors
  /\ procs' = procs \o [i \in 1..(n - parallelism) |-> NewProcessor]
  /\ parallelism' = n
  /\ UNCHANGED <<life, batch, staging, registry, held, lost>>

(* Mutant: the loop of apply_parallelism stops one processor too late.     *)
ShrinkOneMore(n) ==
  LET leaving == {p \in Active : Cardinality({a \in Active : a > p}) <= parallelism - n}
  IN  /\ n \in 1..(parallelism - 1)
      /\ procs' = [p \in Processors |->
                     IF p \in leaving THEN [procs[p] EXCEPT !.state = "Retiring"]
                     ELSE procs[p]]
      /\ parallelism' = n
      /\ UNCHANGED <<life, batch, staging, registry, held, lost>>

Shrink(n) ==
  LET leaving == {p \in Active : Cardinality({a \in Active : a > p}) < parallelism - n}
  IN  /\ n \in 1..(parallelism - 1)
      /\ procs' = [p \in Processors |->
                     IF p \in leaving THEN [procs[p] EXCEPT !.state = "Retiring"]
                     ELSE procs[p]]
      /\ parallelism' = n
      /\ UNCHANGED <<life, batch, staging, registry, held, lost>>

(* retire_processor: everything it holds goes to the caller; the id is     *)
(* active again.                                                           *)
Retire(p) ==
  /\ Retiring(p)
  /\ procs' = [procs EXCEPT ![p] = [Drained(@) EXCEPT !.state = "Idle"]]
  /\ held' = held \union AllOf(procs[p])
  /\ UNCHANGED <<life, batch, parallelism, staging, registry, lost>>

-----------------------------------------------------------------------------
(* Parking: snapshot of work_seq, look at the queues, register.            *)

Parked == {idle[i].worker : i \in DOMAIN idle}
Looking(w, at) == w \notin Parked /\ look[w].at = at

TakeSnapshot(w, p) ==
  /\ Looking(w, "awake")
  /\ look' = [look EXCEPT ![w] = [at |-> "snapshot", proc |-> p, seen |-> workSeq]]
  /\ UNCHANGED <<life, batch, queues, workSeq, idle, held, lost>>

(* has_local_work                                                          *)
LookForWork(w) ==
  /\ Looking(w, "snapshot")
  /\ look' = [look EXCEPT ![w] = IF HasWork(procs[@.proc]) THEN NotLooking
                                 ELSE [@ EXCEPT !.at = "empty"]]
  /\ UNCHANGED <<life, batch, queues, workSeq, idle, held, lost>>

(* Mutant: park trusts the caller's look and does not compare work_seq.    *)
ParkBlind(w) ==
  /\ Looking(w, "empty")
  /\ look' = [look EXCEPT ![w] = NotLooking]
  /\ idle' = Append(idle, [worker |-> w, proc |-> look[w].proc, seen |-> look[w].seen])
  /\ UNCHANGED <<life, batch, queues, workSeq, held, lost>>

(* park: registers only if work_seq has not moved since the snapshot.      *)
Park(w) ==
  /\ Looking(w, "empty")
  /\ look' = [look EXCEPT ![w] = NotLooking]
  /\ idle' = IF workSeq = look[w].seen
             THEN Append(idle, [worker |-> w, proc |-> look[w].proc, seen |-> look[w].seen])
             ELSE idle
  /\ UNCHANGED <<life, batch, queues, workSeq, held, lost>>

(* unpark: some registered worker, of a matching generation.               *)
Unpark(i) ==
  /\ idle' = RemoveAt(idle, i)
  /\ UNCHANGED <<life, batch, queues, workSeq, look, held, lost>>

(* execute_termination wakes everybody.                                    *)
WakeAll ==
  /\ idle # <<>> /\ idle' = <<>>
  /\ UNCHANGED <<life, batch, queues, workSeq, look, held, lost>>

-----------------------------------------------------------------------------
(* Requests from outside: wake-ups and changes of the parallelism.         *)
Request ==
  \/ \E c \in Coroutines, p \in Processors :
       \/ ReadyOwner(c, p)
       \/ \E pr \in Producers : ReadyBatch(c, p, pr)
  \/ \E n \in 1..MaxProcessors : Grow(n) \/ Shrink(n)

Execute ==
  \E c \in Coroutines :
    \/ Enter(c)
    \/ \E waiting \in BOOLEAN : Save(c, waiting)
    \/ \E p \in Processors : Yield(c, p)

Schedule ==
  \/ \E p \in Processors :
       \/ ScheduleStep(p) \/ Retire(p)
       \/ \E t \in Processors : Overflow(p, t)
  \/ \E pr \in Producers : FlushStaging(pr)
  \/ \E w \in Workers :
       \/ LookForWork(w) \/ Park(w)
       \/ \E p \in Processors : TakeSnapshot(w, p)
  \/ \E i \in DOMAIN idle : Unpark(i)
  \/ WakeAll

Next ==
  \/ Request /\ calls < MaxCalls /\ calls' = calls + 1
  \/ (Execute \/ Schedule) /\ UNCHANGED calls

Spec == Init /\ [][Next]_vars

-----------------------------------------------------------------------------
(* Properties                                                              *)

(* Shape of the state, with the capacity of the deque and of a batch.      *)
HandleSeq == Seq(Coroutines)
ProcessorType ==
  [state : {"Idle", "Retiring"}, runNext : Coroutines \union {None}, hits : {0, 1},
   local : HandleSeq, carries : [ShardSet -> HandleSeq], inj : HandleSeq,
   cursor : ShardSet, tick : 0..(ServiceInterval - 1)]

TypeOK ==
  /\ life \in [Coroutines -> {"Runnable", "Running", "Waiting"}]
  /\ batch \subseteq Coroutines /\ held \subseteq Coroutines /\ lost \subseteq Coroutines
  /\ procs \in Seq(ProcessorType) /\ Len(procs) <= MaxProcessors
  /\ \A p \in Processors : Len(procs[p].local) <= LocalCapacity
  /\ parallelism \in 1..MaxProcessors
  /\ staging \in [Producers -> [target : Nat, handles : HandleSeq]]
  /\ \A pr \in Producers :
       /\ Len(staging[pr].handles) <= BatchMax
       /\ staging[pr].handles # <<>> => staging[pr].target \in Processors
  /\ workSeq \in 0..SeqLimit
  /\ idle \in Seq([worker : Workers, proc : Processors, seen : 0..SeqLimit])
  /\ \A i, j \in DOMAIN idle : idle[i].worker = idle[j].worker => i = j
  /\ calls \in 0..MaxCalls
  /\ look \in [Workers -> [at : {"awake", "snapshot", "empty"}, proc : Nat, seen : 0..SeqLimit]]

(* The places where the handle of a runnable coroutine can be.             *)
Locations ==
  ({"run_next", "local", "inj"} \X Processors) \union ({"carry"} \X Processors \X ShardSet)
    \union ({"staged"} \X Producers) \union {<<"held">>}

QueueAt(l) ==
  CASE l[1] = "local"  -> procs[l[2]].local
    [] l[1] = "inj"    -> procs[l[2]].inj
    [] l[1] = "carry"  -> procs[l[2]].carries[l[3]]
    [] l[1] = "staged" -> staging[l[2]].handles
    [] OTHER           -> <<>>

HandlesAt(l) ==
  CASE l[1] = "run_next" -> {procs[l[2]].runNext} \ {None}
    [] l[1] = "held"     -> held
    [] OTHER             -> Handles(QueueAt(l))

Occupied == UNION {{l} \X HandlesAt(l) : l \in Locations}

(* scheduler.md, line 116: a handle is in one place at a time and there    *)
(* once, and only the handle of a runnable coroutine is in any.            *)
NeverTwice ==
  /\ \A l \in Locations : IsInjective(QueueAt(l))
  /\ \A o, other \in Occupied : o[2] = other[2] => o = other
  /\ \A o \in Occupied : life[o[2]] = "Runnable"

Queued(c) == \E l \in Locations : c \in HandlesAt(l)

(* scheduler.md, lines 116 and 550: every runnable coroutine is queued;    *)
(* take_run_next and full deques drop its handle (run scheduler_lost).     *)
RunnableIsQueued == \A c \in Coroutines : life[c] = "Runnable" => Queued(c)

(* The two ways in which the code lets go of a handle: a step passes over  *)
(* run_next on its second hit in a row, or a full deque refuses the handle *)
(* and stays as it is.                                                     *)
SecondHit(c) ==
  \E p \in Processors :
    procs[p].runNext = c /\ procs[p].hits > 0 /\ procs'[p].tick # procs[p].tick
RefusedByDeque(c) ==
  \E p \in Processors :
    /\ Full(procs[p]) /\ procs'[p].local = procs[p].local
    /\ procs[p].runNext = c \/ life[c] = "Running"

(* Whatever is pushed, stolen, spilled, staged, flushed, drained, returned *)
(* to a caller or rearranged: a coroutine that is runnable after the step  *)
(* is queued then, unless it was lost before or in one of these two ways.  *)
OnlyKnownDrops ==
  [][\A c \in Coroutines :
       life'[c] = "Runnable" /\ (life[c] = "Runnable" => Queued(c))
         => Queued(c)' \/ SecondHit(c) \/ RefusedByDeque(c)]_vars

(* scheduler.md, line 550: BATCH_PUBLISHING goes with Runnable, and such a *)
(* handle was published through staging: it is in a carry, in staging or   *)
(* with a caller, never in run_next or a local deque.                      *)
BatchBitMeansPublished ==
  /\ \A c \in batch : life[c] = "Runnable"
  /\ \A o \in Occupied :
       o[2] \in batch => o[1][1] \in {"carry", "inj", "staged", "held"}

(* Changes of the parallelism and retirement leave at least the requested  *)
(* number of processors active, so a publication always finds a target.    *)
EnoughActive == Cardinality(Active) >= parallelism

(* When every worker sleeps, the one that fell asleep last has seen the    *)
(* last notification, and no published chain heads a carry of the          *)
(* processor it looked at: no wake-up fell between look and sleep.         *)
HeadPublished(s) == s # <<>> /\ Head(s) \in batch

LastSleeperSawAll ==
  Len(idle) = Cardinality(Workers) =>
    /\ Last(idle).seen = workSeq
    /\ \A s \in ShardSet : ~HeadPublished(procs[Last(idle).proc].carries[s])

(* A remote carry is served within Shards * ServiceInterval steps of its   *)
(* processor whatever else the processor has to do: each step takes from   *)
(* the carry, or brings the cursor nearer, or the next service.            *)
CarriesServed ==
  [][\A p \in Processors :
       LET q == procs[p]
           r == procs'[p]
       IN  r.tick # q.tick =>
             \A s \in ShardSet :
               q.carries[s] # <<>> =>
                 \/ r.carries[s] = Front(q.carries[s])
                 \/ Away(r, s) < Away(q, s)
                 \/ Away(r, s) = Away(q, s) /\ r.tick > q.tick]_vars
=============================================================================
