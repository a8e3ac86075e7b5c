# A TLA+ verification project for the Gugu runtime

Gugu is a language with a compiler (`src/crates/gugu-compiler/src/frontend`,
`lir`, `backend`), a command line and a runtime with coroutines. The runtime
(`src/crates/gugu-compiler/src/runtime`) is where the program's own hard logic
lives: coroutines that wait on channels, selects and each other, foreign calls
that hand processors back and forth, lock-free queues between owners, and a
collector without a stop-the-world phase. This project models the runtime. File
names below are relative to `src/crates/gugu-compiler/src/runtime` unless they
start with `src/`.

## 1. Inventory

### Components, their state and operations

| component | state | operations | what makes it hard | what makes it correct |
| --- | --- | --- | --- | --- |
| Wait plane: `wait.rs`, `world/wait_impl.rs` | per coroutine: wait generation, claimed generation with its result, live wait-nodes, last readied generation; per source a lock and FIFO queues | begin a wait, arm nodes, park in two phases, claim, publish, wake, clean up, Join, finish | a peer commits a round between unlock and park, while the round is being armed, or after it was reopened | a round commits at most once; every committed round is returned; no node outlives its round; nobody runs without a result |
| Channels: `channel.rs` | closed flag, ring of slots (empty, reserved, occupied), head, tail, length, send and receive queue | try, blocking and large send, recv, close | hand-over, refill of a freed slot from a blocked sender, a copy outside the lock, close against both queues | a FIFO of at most `capacity` messages; no message lost, invented or overtaken; no waiter left beside its match |
| Select: `select.rs` | phase (Building, Armed), winner word | inline try, scan, registration, default, arming | one lock at a time: readiness read earlier is stale, a waker may win half way | at most one case commits, with its channel and partner in one step; default only when nothing is ready |
| Cancellation and locks: `sync.rs`, `world/sync_impl.rs` | cancelled flag, registered nodes; owners and queues of Mutex, RwLock, Condvar, OnceLock | cancel, cancellable wait; lock, unlock, wait, notify | cancel between the check of the token and the registration | a cancelled wait never sleeps on; explicit hand-over keeps exactly one owner |
| Foreign bridge: `foreign.rs` | lifecycle state and foreign generation of each caller, bridge record, credits, dirty quota (active, limit, target), two FIFO queues, idle processors, pressure watches | admit, complete, arm and fire a pressure watch, callbacks, `set_parallelism` | a processor taken back by a monitor while the call returns, quotas resized under load | processors and credits are conserved; FIFO; nobody waits beside a free quota |
| Owner inbox: `inbox.rs` | per shard: tail, front; per consumer: last node consumed; epoch gate | publish, batch publish, snapshot, advance, reset, grace | a producer stopped between exchange and link; nodes reused | each message drained once, in order, none lost |
| Node pool: `message.rs` | tagged head of a free stack, `free_next` per node | allocate, release | ABA | a node has one owner |
| Scheduler: `scheduler.rs`, `processor.rs`, `context.rs` | per processor: run_next with its hits, local deque, staging; carries, external and overflow queues, idle registry with a work sequence | ready, schedule step, steal, park, unpark, retire | parking against publication; queues at their limits; retirement | a coroutine is in exactly one runnable place; nobody is lost or starves |
| Control blocks: `coroutine.rs`, `world/coroutine_impl.rs` | state word, reference counts, stacks | create, transitions, finish | several subsystems change one word | only the documented transitions |
| Owners, slabs, routing: `owner.rs`, `slab.rs`, `routing.rs`, `world/mod.rs` | slots, generations, forwarding | publish, claim, retire, return blocks | retirement while messages are under way | every message is applied by the live owner |
| Resource cells: `resource.rs` | lease count, phase | lease, close, release | close against the last lease | released exactly once |
| Edges and candidates: `edge.rs`, `candidate.rs` | sequence numbers, held-back deltas | apply in order | reordered arrival | deltas applied once, in order |
| Mark and termination: `mark.rs`, `termination.rs` | credits, epochs | mark, confirm | termination seen too early | terminated only when no work is left |
| Combining queue: `combining.rs` | records, rounds | submit, claim, cancel, age | cancel against the claiming round | each record ends once |
| Pacing, ledger, regions, extents, heaps, stacks, layouts | numbers, address ranges, tables | arithmetic, allocation | large data, one owner | accounting |
| Start-up and shutdown: `startup.rs`, `lifecycle.rs` | phase | ordered steps | order | order |
| Compiler, project, cache, command line | syntax trees, files | transformations | large sequential data | out of TLC's reach |

### Interactions

A coroutine's request enters a channel, a select or a Join; the operation runs
under the locks of its sources and either commits or leaves wait-nodes there. A
later operation of another coroutine *claims* one of these nodes (which commits
the round), publishes the result in the waiter's control block, releases the
lock and then *wakes* the node: the coroutine becomes runnable, its other nodes
are unlinked and the scheduler gets its handle. The foreign bridge takes a
running coroutine out of the scheduler's hands and puts it back, as `Running`
when a processor is idle and otherwise as `Runnable`. Inboxes carry messages
between owners (returned blocks, edge deltas, mark requests); the epoch gate and
the node pool serve them.

The hazards found in this survey, each at the line where it bites, are listed in
`PROJECT.json` under `hazards`, with the properties that cover them.

## 2. Plan

Order: the most important behaviour first.

1. **Wait plane, channels, select, Join, cancellation** (`WaitPlane` <- `Channel`
   <- `Select` <- `WaitSystem`), with the abstract specification `ChannelSpec`
   and the refinement `WaitRefinement`. *Done*, with the inductive invariant of
   the claim discipline and its proofs (`WaitProofs` <- `WaitQueueProofs`), and
   the proof that channels and selects match every pair and implement
   `ChannelSpec` (`WaitMatchProofs`).
2. **Foreign bridge** (`ForeignBridge`), with the inductive invariant and its
   proof (`ForeignBridgeProofs`). *Done.*
3. **Owner inbox** (`OwnerInbox`): the linked queue one shared word at a time,
   consumer against producers, reset and reuse, with the abstract queue
   `InboxSpec` and the proof that it implements it (`OwnerInboxProofs`). *Done*;
   the epoch gate and the CAS loop of the node pool remain.
4. **Scheduler** (`Scheduler`): run queues, staging, stealing, overflow, parking,
   changes of the parallelism; inductive invariant and proofs
   (`SchedulerProofs`). *Done.*
5. **Mark cycle** (`CreditPool`, `EdgePlane` <- `MarkCycle`): tracing across
   owners, mutators between the calls of the collector, termination, sweeping,
   edge deltas on the same credits; inductive invariants and proofs
   (`MarkCycleProofs` <- `MarkCountProofs`). *Done.*
6. Remaining: the locks of `sync.rs`; resource cells; combining queue; candidates
   and owner retirement.

Runs are few and each asks its own question; bounds below.

## 3. Wait plane

### Granularity

The code guards a source (a channel, a Join queue) with a source lock and works
outside it between two lock regions. *A lock region is one action*, and so is a
handler step outside the locks that the code itself separates from the next one
by looking again: unlock and park (the comment at `wait.rs:402` and the hook of
`park_current_wait_with`, driven by `wait_tests.rs:439`), the per-source lock
regions of select (`fail_try_lock`, `wait.rs:223`, driven by
`wait_tests.rs:212`), reservation and publication of a large send, the two looks
of Join at its child, the check of a cancel token and the registration with it,
a commit and each wake-up it owes. The reference implementation runs handlers
one after the other; the algorithm it states (`src/docs/src/internals/scheduler.md`,
lines 211 to 300) is for processors that run in parallel, and the re-checks are
in the code for that. Within a region nothing interleaves. `wake_node` (the
transition to Runnable, and the clean-up) is one action.

### Modules

* `WaitPlane`: variables of all modules, wait-nodes, `CanClaim`, `Claim`,
  `NodeCompleted`, `Cleanup`, `WakeNode`, `BeginWait`. A node handle (slab index
  and generation) is a triple of coroutine, wait generation and case; it lives
  exactly while `armed` lists it. A payload is named by the call that sends it.
  `Requests` are the calls a program can make, whatever the menus of an instance
  offer. `Keep(q, S)` is the walk over a FIFO that skips nodes; it is a recursive
  function, because the provers know nothing of `SelectSeq`.
* `Channel`: the ring record and the lock regions `try_send_locked`,
  `try_recv_locked`, `close_locked`, parking, large send. `CommitSend` and
  `CommitRecv` are shared by plain requests and select cases, as in the code.
* `Select`: begin, inline path, scan path, registration per source, arming.
  The inline permutation is random in the code: any ready case may be taken.
* `WaitSystem`: park and its re-checks, wake, Join, finish, cancellation; `Next`,
  the fairness and the properties.
* `ChannelSpec`: what a program is promised. Channels are sequences, a call
  offers cases and commits at most one of them in one step. `WaitRefinement`
  maps the detailed state to it; `ImplementsChannels` is checked by a run and
  proved (section 9). A coroutine that finishes releases all its joiners in one
  step, so `Aside`, the step of `ChannelSpec` that touches no channel, may answer
  several calls at once.
* `MCWait`, `MCSelectDefault`: instances.

Left out because no control depends on them: the NOTIFIED bit (written, never
read), the counters for diagnostics, the diagnostics themselves, slab indices.
`phase = "Building"` stands for the BUILDING flag of the nodes. The generation
of a reservation is abstracted by the payload's name. A coroutine is resumed
only after its own park handler has ended, as one handler at a time works for a
coroutine.

### Runs

| run | instance | what it shows |
| --- | --- | --- |
| `wait_select` | a buffered and a rendezvous channel, one request each out of selects of both directions (with the same channel twice, with default, without cases), send, try_send, recv, try_recv, close; 39,152 states | types; no committable pair is left unmatched between regions (`NoMissedMatch`); queues hold the current rounds' nodes only (`QueuesMatchRounds`); `CommittedOnce`; every step is a step of FIFO channels (`ImplementsChannels`); under fairness every committed round returns |
| `wait_join` | Join, cancellable recv and Join, select on a child, large sends, cancel, close; 926,223 states | no wake-up lost (`NoLostWakeup`), nobody runnable without a result, no missed cancellation or completion |
| `wait_large` | a large send against one receiver | *violation*: section 8 |
| `select_default` | a select with default and two helpers | *violation*: section 8 |

Bounds: `MaxCalls` requests per coroutine. Two (`wait_join`) are needed to see a
stale node or wake of round *n* in round *n+1*; one is enough for the races inside
a round, which need a waiter, a waker and a third party that comes between.
Capacity 1 and 0 make every full, empty and rendezvous case happen, and a refill
from a blocked sender. Longer rings and more requests of one coroutine are left to
the proofs of section 9, which hold for every capacity and every menu without large
sends. Menus keep the instances small and contain every operation.

`NoMissedMatch` is not asked of `wait_join`: large sends break it (section 8).

Fairness: `WF_vars(Handler(c) \/ Resume(c))` for each coroutine. A handler is
straight-line code that takes locks held for bounded regions, so it runs to its
end; a runnable coroutine is entered because the scheduler's queues are served
(external queue every 61 ticks, run_next followed by the local queue). Requests
are the program's choice and are not fair. Runs say `CHECK_DEADLOCK FALSE`
because the requests are bounded and coroutines may legitimately all wait.

## 4. Foreign bridge

`ForeignBridge` has one action for each operation of `ForeignWorld`:
`spawn_running`, `admit_ordinary` and `admit_dirty` (each split in its admitted
and queued outcome), `complete` (ordinary and dirty), `arm_pressure`,
`retake_pressure`, `begin_callback`, `finish_callback`, `set_parallelism`. The
grant of a returned credit (`reclaim`, `service`) and the hand-over of dirty
quota are part of the completion, as in the code. The clock of a pressure watch
is abstracted: it may fire at any moment after it was armed. The scheduler that
runs a `Runnable` coroutine again is outside `ForeignWorld`, so such a coroutine
stays where it is. Left out: live frames, error capture, the I/O poller,
registered external threads, safepoint counters (they store data), and layouts.

`foreign`: three coroutines, two processors, one credit, resizes to 1 and 3, two
calls each, one callback, one watch (45,314 states): processors and quotas are
conserved, the queues are the waiting callers, nobody waits beside a free quota,
nobody overtakes, no stale watch fits a new call, and if native code returns
(`NativeReturns`, an assumption about native code only) every queued caller is
admitted. One credit and at most two dirty quotas for three callers make both
queues fill; the bounds `MaxGen`, `MaxDepth` and `MaxWatches` are the smallest
with a second call, a nested retake and a stale watch.

## 5. Owner inbox

Producers and the owner run on different threads here (`harness.rs:140` starts
them), so the granularity is finer: *an action loads or stores one shared word*
(`tail`, `front`, the `next` lane of a node). `Stage` is `stage_message` and its
siblings for the other payload families (the node is not shared yet);
`PrepareChain`, `ExchangeTail`, `LinkOldTail`, `PublishFront` are the four steps
of `publish_batch`; `SnapshotStart`, `SnapshotVisit`, `SnapshotBudget` and
`AdvanceFront` make up `service`: the first look, one node, the end at the
budget, and `advance_front`. Applying a message to the owner's tables does not
touch the queue and is left out. A forwarded message is a publication of another
producer. `Release` is `release_graced_nodes`, which its comment
(`world/mod.rs:1329`) allows only when producers and consumer are at rest.

A node stands for its message. The free stack is one sequence: while producers
run it is only popped, so the tag of its head cannot repeat; it is pushed to in
`Release`. `Next` leaves `Release` out: it describes the queue between two
graces, when each node carries one message, which `order` (nodes in the order of
their exchanges) and `processed` record as history. `ReuseNext` has it.

| run | instance | what it shows |
| --- | --- | --- |
| `inbox` | two producers, two shards, three nodes, chains and calls of up to two; 36,286 states | a link is right or still missing with its producer about to write it (`LinksFollowOrder`); each shard is the FIFO queue of `InboxSpec`, where a publication is the exchange of `tail` (`ImplementsQueue`); behind a first processed node everything is processed in the end (`LateLinksAppear`) |
| `inbox_front` | one producer, two nodes | *violation*: section 8 |
| `inbox_reuse` | one producer, one node, `ReuseSpec` | *violation*: section 8 |

Three nodes let two producers meet a third chain or a chain of two, so a link
can be missing in the middle with something published behind it; `BudgetItems`
2 ends a call inside and at the end of a chain. The byte limit never refuses the
first node, so it is: the call may end at any time after one node.

Fairness: the owner serves all shards over and over (`drain_inboxes`, the loop
of `harness.rs`), hence `SF(SnapshotStart(s))`: a call for one shard disables
the others for a while. A call ends, and a publication that has begun is
straight-line code, hence `WF` for these. That a node is staged is not fair.

## 6. Scheduler

`Scheduler` has one action for each operation of `SchedulerWorld` that touches a
queue, the idle registry or the set of processors. A method is one action, as the
methods take `&mut self`; what a worker composes of several methods is several
actions, because publications fall in between: `TakeSnapshot`, `LookForWork` and
`Park` (snapshot of `work_seq`, look at the queues, `park`), and a step that
returns a handle and the `Enter` that runs it (`held` has the handles in
between). `schedule_step` is split by the place the handle comes from:
`StepService` (the due service of external queues), `StepRunNext`, `StepLocal`,
`StepExternal`, `StepSteal`, `StepNothing`; what precedes the look at the local
queue in all of them is `PassRunNext`, `Ticked` and `Passed`. `ReadyOwner` and
`ReadyBatch` are the two halves of `ready_publish`, with the flushes of an older
chain in the action, and `FlushStaging` serves what a failed flush left behind.
`Grow`, `Shrink` and `Retire` are `apply_parallelism` and `retire_processor`;
retired ids become active again, as in the code.

Where the code lets a handle go (a second consecutive hit of run_next, a full
deque) no queue has it any more, and `RunnableIsQueued` fails (`scheduler_lost`,
section 8). `lost` is a history variable with these handles: no action reads it,
and no property counts it as a place; the inductive invariant needs it to say who
is not queued. What holds all the same is that nothing else drops a handle
(`OnlyKnownDrops`) and nothing puts one in two places (`NeverTwice`).

Left out: the topology epoch and the dirty limit (numbers nothing here reads),
the pending poll flag, NUMA, generations of the idle registry, the packed deque
(same operations), the states New, Dead and Foreign (spawn and finish are the
wait plane's and the bridge's). The victims of a steal are visited in the
pseudo-random order of the code; the model keeps which orders there are
(`StealStep`, `WalkMisses`). The tick is kept modulo the service interval.

| run | instance | what it shows |
| --- | --- | --- |
| `scheduler` | three coroutines, one producer, one worker, one processor growing to two, deque and batch of two, a service every second step, four requests; 344,672 states | no handle is in two queues or hands or twice in one, nor that of a coroutine that is not runnable (`NeverTwice`); a runnable coroutine is queued and stays so, unless a step passes over run_next on a second hit or a full deque refuses the handle (`OnlyKnownDrops`); `BATCH_PUBLISHING` tells where a handle came from (`BatchBitMeansPublished`); publications always find a target (`EnoughActive`); no wake-up falls between the last worker's look and its sleep (`LastSleeperSawAll`); every remote carry is served within a fixed number of steps (`CarriesServed`) |
| `scheduler_lost` | the same instance | *violation* of `RunnableIsQueued`: section 8 |

Bounds: `LocalCapacity` = `BatchMax` = 2 makes deque, batch and overflow full
with three handles; `SeqLimit` 1 makes `notify_empty_to_nonempty` fail and leave
a chain in staging; two processors make stealing, retirement and the route of a
retiring target happen. `CarriesServed` is an action property that bounds the
wait, so no fairness is assumed. The run says `CHECK_DEADLOCK FALSE` because
requests are bounded and the system may come to rest.

## 7. Mark cycle, credits and edges

`MarkCycle` models the collector as a sequence of small steps driven by calls:
`CallCycle` and `CallBounded` are the two scopes of `pressure_drain`
(`world/pacing_impl.rs`), `CallMajor` is `collect_major`. `phase` says where a
call stands: draining inboxes, publishing edge changes, beginning a cycle,
visiting owners (`worklist`, `inbox`), judging the pass, the late drain after a
complete remark. `PopMark`, `ScanField` and `WorklistEmpty` are
`drain_mark_worklist` object by object and field by field; `ServeTicket` and
`ServeDelta` are the service of mark tickets and edge deltas; `EndRound` settles
credits and either starts another round or judges the pass (`Remember`);
`Continue`, `FinishMajor`, `FinishCycle` and `KeepOpen` are the ends of a call.
An error return of the collector is fatal for the program
(`src/docs/src/spec/runtime.md:147`) and leads to the phase `failed`.

Mutators run only between calls (`phase = "mutate"`), as the collector of one
call runs while they stand still; a cycle that a call leaves open is resumed by
a later one, with any number of stores, root events, allocations and minor
cycles in between: `Store`, `SetRoot`, `AllocateIntoRoot`, `AllocateIntoField`,
`MinorCycle`. A store does its two barriers (`BarrierShades` and the edge change
`Merged`) in the same action, as `store_managed_field` does.

`CreditPool` is the slot table of `mark.rs` (free, in flight, consumed): a ticket
or an edge delta takes a slot, its service consumes it, settling returns it.
`EdgePlane` is `edge.rs`: net changes per pair of blocks, sequence numbers at the
source, kept records at the target that are applied when the missing number
arrives.

| run | instance | what it shows |
| --- | --- | --- |
| `mark` | two owners with a block each, three objects, one field, two roots, two credits, three start heaps (empty; a chain over the other owner and back; an object that has two references), four events, one epoch of skew; 173,058 states | no reachable object is swept (`ReachableIsAllocated`); in an open cycle all that is reachable is protected (`GreyProtectsReachable`, `NothingUngreyed`); termination is right (`TerminationSound`) and reached (`FullPassConverges`); each credit in flight is carried once (`CreditsMatchMessages`); deltas add up and counts never underflow (`EdgesConserved`); every call ends (`CallEnds`) |

Bounds: three objects over two owners give a chain that leaves an owner and
comes back, the case where one owner's worklist is empty too early; two credits
are enough to exhaust the pool; four events are a call that leaves the cycle
open, two mutations and the call that resumes it. Events count stores, root
events, allocations, minor cycles and calls. The run says `CHECK_DEADLOCK FALSE`
because mutators may stop after the last event and a failed collector ends the
program. Fairness: `WF_vars(Collect)`: a call that was made runs to its end, for
it is one thread that waits for nobody; nobody is obliged to make one.

Abstractions: worklists are sets (the code's order is one of those explored);
messages of one owner are served in any order, those of one pair of blocks in
theirs; the mark bits and the termination record of a closed cycle are forgotten
at its finish, in the code when the next cycle begins (nobody reads them in
between); all confirmations of the snapshot gate are in one call; staged
messages are flushed at once. Left out: the nursery with its cards (the seeds
of the remembered set), shared heaps, interior pointers, owner forwarding,
candidates, generations of credits, and the round limit of a pass.

## 8. Disagreements between code and documents

* **Large send and parked receivers** (`wait_large`). `finish_large_send`
  publishes the message without looking at the receive queue. A receiver that
  found the ring empty and parked while the payload was copied stays blocked
  beside the message.
* **default beside a ready case** (`select_default`). On the scan path readiness
  is collected source by source; default can be taken although at every moment
  of the call some case was ready. The history variable `quiet` of
  `MCSelectDefault` records whether there was a moment with no ready case.
* **Dirty quota above a lowered target** (`foreign_shrink`). The quota of a
  finished dirty call passes to the next waiter even when the active calls
  exceed the target, so the pool does not drain while somebody waits.
* **A first publication overwritten** (`inbox_front`). The owner finds `front`
  null, the first producer then stores `front`, and `advance_front` of the empty
  call stores null over it. `tail` is not null any more, so nobody sets `front`
  again and the shard never delivers. `PublishedIsReachable` says that at rest
  unprocessed messages are within the owner's reach; `LateLinksAppear` therefore
  speaks only of shards where the consumer has a position.
* **A second hit on run_next** (`scheduler_lost`). `take_run_next`
  (`scheduler.rs:332`) takes the handle out of run_next before it looks at the
  hits, and returns `None` on the second hit in a row; `schedule_step` goes on to
  the local queue. The coroutine is `Runnable` with ENQUEUED and in no queue, so
  nothing runs it. Two wake-ups by the owner with a step after each are enough.
  `src/docs/src/internals/scheduler.md:201` says that after one hit the coroutine
  goes through the ordinary queue; lines 116 and 550 say that it has one runnable
  position.
* **Messages after a grace** (`inbox_reuse`). `release_graced_nodes` resets the
  consumers but not the tails. The next publication links a released node and
  leaves `front` null, so its messages are not found, even if everything runs
  one after the other.

The scheduler and the collector showed further disagreements; no run is devoted
to these, the models contain the behaviour of the code.

Scheduler (documents: `src/docs/src/internals/scheduler.md`):

* `push_run_next` (`scheduler.rs:323`) and `yield_now` (`scheduler.rs:1134`) find
  the local deque full after the handle has left its old place; they return an
  error, and the coroutine is runnable and in no queue, against line 116. This is
  the second exception of `OnlyKnownDrops`; the run `scheduler_lost` meets the
  shorter way of the first.
* `yield_now` pushes to the local tail, where `schedule_step` pops next, so the
  yielding coroutine runs again first; line 274 says the others get a chance.
* A carry is popped from its end and chains are appended there, so newer handles
  overtake older ones; line 258 describes a carry that is emptied first.
* `overflow_local` to an idle processor neither advances `work_seq` nor wakes
  anybody (lines 190 and 203).
* The step of `steal` is not coprime to the number of processors from six on
  (line 260), so a victim can be missed: `WalkMisses`.
* `retire_processor` makes the id active again; after 3 -> 1 -> 3 more processors
  are active than asked for. `EnoughActive` therefore only says "at least".

Collector:

* The target forgets a pair of blocks when its count is zero
  (`EdgePlane::retire_zero_pairs`, from `edge_maintenance`), and expects sequence
  number 1 again; the source never does so outside tests and goes on with the next
  number, although `barrier.rs:397` says that the pair restarts at 1. The record
  is kept for ever, its credit never comes back, and no later cycle converges.
  This is why `FullPassConverges` speaks of states without kept records.
* An edge credit carries the mark plane's cycle, a delta the cycle epoch, and
  `validate_in_flight` compares them. After a minor cycle, or after a call that
  left its cycle open in `KeepOpen`, the next delta fails: `stale`.
* Overwriting a reference to another block with a second reference into the same
  block records +1 without -1 (`barrier.rs:188`; the comment above speaks of both
  directions). The source's count then stays too high, which keeps the block from
  ever being a candidate. `EdgesConserved` says "at least the references".
* `finish_mark_cycle` uses a remembered termination that can be stale; a failing
  drain loses the queue it took; a forwarded ticket is looked up in the heir's
  heap, where the object is not. An error of the collector is fatal, so these
  end the behaviour or are outside the model.

## 9. Proofs

`ForeignBridgeProofs` proves, for every finite set of coroutines and all values
of the constants that satisfy `ConstantsAssumption`:

    IInv == Structure /\ ProcessorsConserved /\ CountersMatch
            /\ NoIdleQuota /\ WatchesOld,   Structure == TypeOK
            /\ QueuesMatchStates /\ RecordsFit

is inductive. `RecordsFit` ties the bridge record to the lifecycle state
(detached only in native code, queued callers hold no credit); without it
`CreditsMatchCalls` is not inductive, because a completion would not know that
the returned credit existed. `QueuesMatchStates` (queues are exactly the waiting
callers, each once) is needed to know that the head of a queue is in the
matching state, so the cardinalities change by one. `WatchesOld` (no watch is
ahead of its coroutine's generation, and none fits a caller about to start)
gives `CallsStartUnwatched`. Each action has one step per conjunct it can
disturb. The counting lemmas rest on the theorems about cardinality of the
library. Theorems: `InductiveInvariant`, `TypeCorrect`, `ProcessorsAreConserved`,
`CreditsAreCalls`, `QueuesAreStates`, `QuotaIsUsed`, `NobodyBarges`,
`StaleWatchesNeverFit`.

`OwnerInboxProofs` proves about `Spec` of `OwnerInbox`, for any sets of
producers and shards and all values that satisfy `InboxAssumption`:

    IInv == TypeOK /\ Places /\ ChainsLinked /\ LinksFollowOrder
            /\ Published /\ Consumed /\ FirstUnseen

is inductive. `Places` (a node is free, in one chain, or once in one queue)
makes the node behind which a chain is linked unique, so a link never goes to
the wrong place; `ChainsLinked` carries the links of a staged chain into the
queue; `Published` remembers where an exchanged chain joined; `Consumed` says
that the processed nodes and those of the running call are a prefix of the
queue and that `front` or the cursor is null or its next node. `FirstUnseen`
is what makes the store of `front` by the first producer harmless: until it
happens the consumer has seen nothing of that shard. Theorems:
`InductiveInvariant`, `TypeCorrect`, `LinksAreRightOrLate` and `InboxIsQueue`,
the refinement: the exchange of `tail` maps to `Publish`, `advance_front` to
`Process`, every other step to a stutter. The theorems hold between two graces;
with `Release` the queue is not correct (section 8).

`MarkCycleProofs` proves about `Spec` of `MarkCycle`, for every finite set of
objects and fields, any owners, blocks, roots and number of credits, any start
heaps in which a free object holds no reference, and any bounds:

    IInv == Typing /\ FreeHoldsNothing /\ Kept /\ Traces /\ Covered
            /\ Control /\ Credits

is inductive. Reachability is not expressed by a recursion but by closed sets: an
object is reachable when every set that has the roots and is closed under
references has it. That turns the collector's argument into statements about
sets. `Kept` says that some closed set of allocated objects has all roots and, in
an open cycle, everything shaded; a store keeps that set closed because the new
value was reachable. `Traces` is the tri-colour condition, with the fields of the
object being scanned as its exception. `Covered` says that in an open cycle every
closed set over the shaded objects has the roots: a store deletes a reference only
after shading the old value, so this survives (the deletion half of the barrier);
a new reference is shaded, so `Traces` survives (the insertion half). When a pass
is remembered as converged there is nothing grey and no ticket (`Credits`: each
ticket and delta holds a slot of its own, so no pending slot means no message),
`Traces` makes the marked objects closed, and `Covered` puts the roots and thus
everything reachable into them; the sweep takes only unmarked objects. `Control`
ties the scan to its phase and says that between `Remember` and the sweep nothing
changes this. Theorems: `MarkInvariant`, `NoReachableObjectSwept`, `GreyProtects`,
`TerminationIsSound`, `NothingIsUngreyed`. They hold for a cycle left and resumed
any number of times, with any mutations in between.

`MarkCountProofs` adds what the cycle counts, for a finite set of credit slots
(`CreditPool::capacity`). Its invariant, inductive relative to `IInv`, is

    CountInv == MsgInv /\ EdgeCover /\ PassInv
    MsgInv   == Ledger /\ CarriedBy /\ Boxes

`Ledger` balances every pair of blocks: applied, plus the changes of the deltas
under way and kept, equals published. Publication adds one record to the sum;
applying moves the head and the kept records whose turn has come out of the sum
and into the count, which needs that the three sets are disjoint, and that is what
the credits of `IInv` say: two records with one credit are the same record.
`CarriedBy` is the converse of `Credits` (every credit in flight has a message), so
together they make "exactly one"; `Boxes` counts the tickets on their way to each
owner. `EdgeCover` says that the source counts at least the references there are:
a store changes the one field `<<src, x>>`, so at most one reference appears or
disappears, and a new or swept object has none. `PassInv` is about rounds: while a
round has made no progress, every owner that had its turn has an empty worklist
and an empty inbox; with all owners in scope the end of such a round leaves no
ticket and no delta, hence by `CarriedBy` no credit in flight, and a credit that
was consumed would have been settled, which is progress. `SumOf` is a fold, whose
definition picks members in an order of its own; the lemmas on sums show by
induction on the number of members that the order does not matter (the induction
runs over sets of numbers, from the least-number principle). Theorems:
`CountInvariant`, `MarkTypes`, `CreditsAreMessages`, `EdgesAreConserved`,
`FullPassesConverge`.

`SchedulerProofs` proves about `Spec` of `Scheduler`, for any coroutines,
producers, shards, capacities, intervals and bounds that satisfy
`SchedulerAssumption` (the workers are a finite, non-empty set, because the
argument about parking counts them):

    IInv == Core /\ calls \in 0..MaxCalls
    Core == types of life, procs and parallelism /\ enough active processors
            /\ Sound(Now)

is inductive. `Now` is the part of the state the scheduler works on, as a record,
and `Sound` speaks of any such record, so the lemmas about it also apply to the
state *between* the two flushes of one `ready_batch` and between the victim's and
the thief's half of a steal. Its parts: every processor is `Good` (typed, at most
`LocalCapacity` in the deque, no handle twice); `StagingOK`, `SleepersOK` and
`LookOK` type the stages and the registry and keep the target of a non-empty
stage and the processor of a sleeper valid; `Placed` says that no handle is in
two processors, stages, hands or among the lost, and that the handles somewhere
are exactly the runnable coroutines; `Batches` keeps batch-published handles out
of run_next, deques and the lost, which needs `Placed`, as a push must not meet
such a handle. `Watched` is the parking argument: a worker that looked, found
nothing and whose number is still the last one overlooks no announced carry (one
headed by a batch-published handle), and neither does the last of the sleepers
when all sleep. A flush into an empty carry moves the number and removes a
sleeper, so both premises become false; a flush into a non-empty carry, a pop
from the end, a steal and an overflow announce nothing that was not announced
(`Calm`). The property speaks of heads because a flush behind handles that an
overflow has put into the carry notifies nobody.

The steps fall into four patterns, each one lemma: the processor p is exchanged
(`ExchangeKeepsCore`: schedule_step, push, retire), a processor lends handles to
a caller who gives them to another (`Lent`: steal, overflow), a stage is flushed
(`FlushKeepsSound`), only the registry changes (`RegistryKeepsCore`); growing and
shrinking have lemmas of their own. `CarriesServed` follows from the choice of
the nearest non-empty shard (`NextShardIs`: the least distance exists by
well-foundedness) and the cursor moving past the shard it served (`CursorMoves`);
a step in which no service was due cannot have wrapped the tick to 0. For
`OnlyKnownDrops`, `Placed` makes the queued coroutines the runnable ones that are
not in `lost` (`QueuedAre`), and only passing over run_next, a wake-up by the owner
and a yield add to `lost` (`Loses`), each in its known way; so a drop anywhere else
would contradict `Placed`. Theorems: `Invariant`, `TypeCorrect`,
`HandlesNeverTwice`, `DropsKnown`, `BatchPublished`, `ActiveEnough`,
`SleepersWatch`, `CarriesAreServed`: all seven properties of the run `scheduler`.

`WaitProofs`, `WaitQueueProofs` and `WaitMatchProofs` prove about `Spec` of
`WaitSystem`, for any coroutines, channels, capacities, menus of requests and
bounds that satisfy `WaitAssumption` (channels, coroutines and the never source
are different things; capacities and the bound are numbers; the menus hold calls
of the interface). Selects may have any number of cases, on the same channel
twice or on none. The invariant has three layers.

    LocalInv == Types /\ ChanTypes /\ \A c \in Coroutines : Local(c)
    Local(c) == LifeFits(c) /\ OpFits(c) /\ ScanFits(c) /\ ArmedFits(c)
                /\ WakesFits(c) /\ ClaimFits(c)

says of each coroutine by itself how the place of its handler, its lifecycle
state, its request, its scan, its wait-nodes, the wake-ups it owes and its claim
fit together. An action of c changes c; of every other coroutine it can only
claim a pending round or wake a claimed one, which is `Bystander`. So there is
one lemma per action for c, and one for all bystanders of all actions
(`BystanderLocal`). A round is always whole or gone, a claim is of the latest
generation, and for a select claim and winner word agree: these are the facts
that make `can_claim` right when a handle of round *n* is met in round *n+1*.

    PlaneInv == LocalInv /\ QueueInv /\ RoundQueued /\ CancelQInv /\ JoinInv
                /\ CancelInv /\ WakeOwed

relates coroutines, queues and each other. `QueueInv` and `RoundQueued` say that
the queues hold exactly the queued nodes of unclaimed rounds (and possibly those
of claimed ones that nobody has unlinked yet), each once and under its own
source; a node counts as queued only after its handler has passed the source in
the registration, which makes them inductive while a select registers. `JoinInv`
needs that, as the second look of Join lies between queueing and sleeping.
`CancelInv` says which list an unclaimed cancellable wait is in: the registry
before the token is cancelled, the canceller's list afterwards; the node at the
head of that list has been claimed before its wake. `WakeOwed` gives each
completed sleeper a handler that still has its node ahead; that a wake-up met too
early (the round parks just now) is not consumed is what keeps it. Here the
queues of many coroutines change in one step, so the steps are not proved
conjunct by conjunct: `Effect(c)` says what an action of c may do (`Sticks`,
`Ages`, `QueueMove`, `JoinMove`, `CancelMove`, `OweMove`), `ActionEffect` proves it once
for each action, and `StepKept` derives `PlaneInv'` from it.

`WaitProofs` starts with the facts about sequences. What `Keep` returns is proved by
induction on the length of the sequence, which here takes the form of the
least-number principle (`Least`, from well-foundedness) on the set of lengths for
which the fact fails. Theorems: `LocalSafe`, `TypesHold`,
`RunnableHasResultHolds`, `PlaneSafe`, `QueuesMatchRoundsHolds`,
`NoLostWakeupHolds`, `NoMissedCancelHolds`, `NoMissedJoinHolds` and
`CommittedOnceHolds`. They hold with large sends, too.

    MatchInv == PlaneInv /\ NothingLarge /\ RingShape /\ AllResultsFit
                /\ WakesPast /\ AllMatched

is about messages, in `WaitMatchProofs`. `RingShape` says that the slots from
`head` on, as many as `len` says, are occupied, the others empty, and that `tail`
follows them: the indices, which the code moves with `%`, are then a window
around the ring, and `Held`, what it holds in order, is the abstract channel.
`AllResultsFit` says where the result of a call stands: nowhere before the commit,
in `delivered` until the call returns, in `out` after that; without it a handler
could commit a second time in the abstract. `WakesPast` says that the nodes a
handler has yet to wake belong to rounds that have begun, so that a Join that is
about to begin a round meets no such node of that round. `AllMatched` is
`NoMissedMatch`; it is inductive only together with the rest. A commit may stop at
the first counterpart because the queues hold every waiting node (`QueueInv` and
`RoundQueued`) and the walk skips none that can be claimed (`Keep`). A select that
registers can be claimed as soon as a case is queued, so each case is queued only
where the same lock region has found that no case of its source can commit.

Each action has one lemma, which proves `Kept(c)`: ring shape and matching after
the step, c's own part of the other conjuncts (`Tidy`), and `Abstract!Next`. The
abstract step is `Begin` for a request, and at a commit `Send`, `Receive`,
`ReceiveAndRefill` (a receiver makes room and the oldest sender's message enters),
`Rendezvous`, `SendOnClosed`, `ReceiveEnd`, `Close`, `Refuse` or `Aside`; every
other step changes nothing the abstract state shows. `CommitSendKept` and `CommitRecvKept` are stated for the lock region
alone, so plain calls, the inline path of select and the re-checks cite them.
Theorems: `MatchSafe`, `NoMissedMatchHolds` and `ImplementsChannelsHolds`. They
have one hypothesis more,

    NoLarge == \A c \in Coroutines : \A r \in Menu[c] : r.op # "send_large"

because large sends really break the property: run `wait_large` shows it, and
section 8 says how. The menu of `wait_select`, which checks the two properties,
satisfies it.

Only model-checked are the liveness properties: `EveryCallerAdmitted`,
`CommittedReturns`, `MessagesReachReceivers`, `LateLinksAppear`, `CallEnds`;
liveness under fairness is out of the prover's reach.

## 10. Not modelled, and why

`PROJECT.json` gives the reason for each component. In short: the compiler and
the tools are sequential transformations of large data; layouts, schemas and
verifiers have no state that changes; the ledgers and the allocators are
arithmetic over address ranges with one owner. Of the concurrent parts, resource
cells, the combining queue, candidates, owner retirement, start-up and shutdown,
the stack scan lock and the locks of `sync.rs` are in no model yet. What a
modelled component leaves out is said in its section.

## Running

    tlc -workers 2 -config MCWait_select.cfg MCWait.tla
    tlapm ForeignBridgeProofs.tla
    tlapm OwnerInboxProofs.tla
    tlapm MarkCycleProofs.tla
    tlapm MarkCountProofs.tla
    tlapm SchedulerProofs.tla
    tlapm WaitProofs.tla
    tlapm WaitQueueProofs.tla
    tlapm WaitMatchProofs.tla
