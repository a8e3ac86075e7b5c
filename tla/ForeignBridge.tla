---------------------------- MODULE ForeignBridge ----------------------------
(***************************************************************************)
(* Foreign calls (runtime/foreign.rs): the hand-over of a coroutine to     *)
(* native code and back.  An ordinary call needs one of MaxBlocking        *)
(* credits and keeps its processor until the runtime takes it back; a      *)
(* dirty call gives the processor up at once and needs dirty CPU quota.    *)
(* Callers that find no credit or quota wait in FIFO order, without a      *)
(* processor.  Every operation of ForeignWorld is one action.              *)
(***************************************************************************)
EXTENDS Naturals, Sequences, FiniteSets

CONSTANTS
  Coroutines,
  Processors,    \* logical processors the world starts with
  MaxBlocking,   \* MAX_BLOCKING_WORKERS
  QueueCap,      \* waiters the blocking queue may hold
  Parallelisms,  \* values set_parallelism may be called with
  MaxGen,        \* bound: foreign calls of one coroutine
  MaxDepth,      \* bound: callbacks in progress
  MaxWatches     \* bound: pressure watches armed at once

ASSUME ConstantsAssumption ==
  /\ IsFiniteSet(Coroutines)
  /\ Processors \in Nat \ {0}
  /\ MaxBlocking \in Nat \ {0}
  /\ QueueCap \in Nat
  /\ Parallelisms \subseteq Nat \ {0}
  /\ MaxGen \in Nat
  /\ MaxDepth \in Nat /\ MaxWatches \in Nat

VARIABLES
  state,        \* state[c]: lifecycle of the coroutine
  detached,     \* detached[c]: FOREIGN_DETACHED, the processor was taken back
  generation,   \* generation[c]: foreign generation in the state word
  mode,         \* mode[c]: mode of the published bridge record
  credit,       \* credit[c]: the record holds a BridgeCredit
  active,       \* active_blocking
  waiting,      \* callers without credit, oldest first
  dirtyActive, dirtyLimit, dirtyTarget,
  dirtyWait,    \* callers without dirty quota, oldest first
  idle,         \* idle_processors
  watches,      \* armed pressure watches
  depth         \* callback_depth

States == {"New", "Running", "Runnable", "Waiting", "Foreign", "DirtyWaiting"}
Modes  == {"none", "ordinary", "dirty"}

coroutineVars == <<state, detached, generation, mode, credit>>
ordinaryVars  == <<active, waiting>>
dirtyVars     == <<dirtyActive, dirtyLimit, dirtyTarget, dirtyWait>>

DirtyTarget(p) == IF p <= 1 THEN 1 ELSE p - 1
Larger(a, b)   == IF a >= b THEN a ELSE b

Init ==
  /\ state = [c \in Coroutines |-> "New"]
  /\ detached = [c \in Coroutines |-> FALSE]
  /\ generation = [c \in Coroutines |-> 0]
  /\ mode = [c \in Coroutines |-> "none"]
  /\ credit = [c \in Coroutines |-> FALSE]
  /\ active = 0 /\ waiting = <<>>
  /\ dirtyActive = 0 /\ dirtyWait = <<>>
  /\ dirtyTarget = DirtyTarget(Processors) /\ dirtyLimit = DirtyTarget(Processors)
  /\ idle = Processors
  /\ watches = {}
  /\ depth = 0

(* spawn_running: a new coroutine on an idle processor.                    *)
Spawn(c) ==
  /\ state[c] = "New" /\ idle > 0
  /\ state' = [state EXCEPT ![c] = "Running"]
  /\ idle' = idle - 1
  /\ UNCHANGED <<detached, generation, mode, credit, ordinaryVars, dirtyVars, watches, depth>>

-----------------------------------------------------------------------------
(* The state word and bridge record of a caller that leaves Running.       *)
Leave(c, to, m, isDetached, hasCredit) ==
  /\ state[c] = "Running" /\ generation[c] < MaxGen
  /\ state' = [state EXCEPT ![c] = to]
  /\ detached' = [detached EXCEPT ![c] = isDetached]
  /\ mode' = [mode EXCEPT ![c] = m]
  /\ credit' = [credit EXCEPT ![c] = hasCredit]

(* Mutant: publish keeps the generation of the call before.                *)
SameGeneration(c) == generation' = generation

NextGeneration(c) == generation' = [generation EXCEPT ![c] = @ + 1]

(* admit_ordinary: with a credit the call starts on its own processor; a   *)
(* full queue refuses the caller and changes nothing.                      *)
(* Mutant: off by one, a caller is admitted beside MaxBlocking calls.      *)
AdmitOneMore(c) ==
  /\ active <= MaxBlocking
  /\ Leave(c, "Foreign", "ordinary", FALSE, TRUE)
  /\ NextGeneration(c)
  /\ active' = active + 1
  /\ UNCHANGED <<waiting, dirtyVars, idle, watches, depth>>

AdmitOrdinary(c) ==
  /\ active < MaxBlocking
  /\ Leave(c, "Foreign", "ordinary", FALSE, TRUE)
  /\ NextGeneration(c)
  /\ active' = active + 1
  /\ UNCHANGED <<waiting, dirtyVars, idle, watches, depth>>

QueueOrdinary(c) ==
  /\ active >= MaxBlocking /\ Len(waiting) < QueueCap
  /\ Leave(c, "Waiting", "ordinary", FALSE, FALSE)
  /\ waiting' = Append(waiting, c)
  /\ idle' = idle + 1
  /\ UNCHANGED <<generation, active, dirtyVars, watches, depth>>

(* admit_dirty: the processor is given up in both cases.                   *)
(* Mutant: the dirty limit is not looked at.                               *)
AdmitUnlimited(c) ==
  /\ Leave(c, "Foreign", "dirty", TRUE, FALSE)
  /\ NextGeneration(c)
  /\ dirtyActive' = dirtyActive + 1
  /\ idle' = idle + 1
  /\ UNCHANGED <<ordinaryVars, dirtyLimit, dirtyTarget, dirtyWait, watches, depth>>

AdmitDirty(c) ==
  /\ dirtyActive < dirtyLimit
  /\ Leave(c, "Foreign", "dirty", TRUE, FALSE)
  /\ NextGeneration(c)
  /\ dirtyActive' = dirtyActive + 1
  /\ idle' = idle + 1
  /\ UNCHANGED <<ordinaryVars, dirtyLimit, dirtyTarget, dirtyWait, watches, depth>>

QueueDirty(c) ==
  /\ dirtyActive >= dirtyLimit
  /\ Leave(c, "DirtyWaiting", "dirty", FALSE, FALSE)
  /\ NextGeneration(c)
  /\ dirtyWait' = Append(dirtyWait, c)
  /\ idle' = idle + 1
  /\ UNCHANGED <<ordinaryVars, dirtyActive, dirtyLimit, dirtyTarget, watches, depth>>

-----------------------------------------------------------------------------
(* complete: the native call of c returned.  An attached caller goes on    *)
(* where it is, a detached one takes an idle processor or is handed to the *)
(* scheduler as Runnable.                                                  *)
(* Mutant: a detached caller takes a processor without looking for one.    *)
ResumedAnyway(c) ==
  \/ /\ ~detached[c] /\ UNCHANGED idle
  \/ /\ detached[c] /\ idle' = idle - 1

Resumed(c) ==
  \/ /\ ~detached[c] /\ UNCHANGED idle
  \/ /\ detached[c] /\ idle > 0 /\ idle' = idle - 1
  \/ /\ detached[c] /\ idle = 0 /\ UNCHANGED idle

ResumedState(c) == IF detached[c] /\ idle = 0 THEN "Runnable" ELSE "Running"

InNative(c, m) == state[c] = "Foreign" /\ mode[c] = m

(* reclaim gives the credit back and service grants it to the oldest       *)
(* waiter, which starts detached under a new generation.                   *)
(* Mutant: the credit is given back and nobody is served.                  *)
GrantsNobody == FALSE

Grants == waiting # <<>> /\ active - 1 < MaxBlocking

FinishOrdinary(c) ==
  /\ InNative(c, "ordinary") /\ credit[c]
  /\ Resumed(c)
  /\ mode' = [mode EXCEPT ![c] = "none"]
  /\ watches' = {w \in watches : w.co # c}
  /\ IF Grants
     THEN LET w == Head(waiting)
          IN  /\ state' = [state EXCEPT ![c] = ResumedState(c), ![w] = "Foreign"]
              /\ detached' = [detached EXCEPT ![c] = FALSE, ![w] = TRUE]
              /\ credit' = [credit EXCEPT ![c] = FALSE, ![w] = TRUE]
              /\ generation' = [generation EXCEPT ![w] = @ + 1]
              /\ waiting' = Tail(waiting)
              /\ active' = active
     ELSE /\ state' = [state EXCEPT ![c] = ResumedState(c)]
          /\ detached' = [detached EXCEPT ![c] = FALSE]
          /\ credit' = [credit EXCEPT ![c] = FALSE]
          /\ active' = active - 1
          /\ UNCHANGED <<generation, waiting>>
  /\ UNCHANGED <<dirtyVars, depth>>

(* transfer_or_release_dirty: the quota passes to the oldest waiter, or is *)
(* released and the limit follows.                                         *)
(* Mutant: the quota is handed on, the waiter stays queued.                *)
HandOverKeepsQueued(c) ==
  /\ InNative(c, "dirty")
  /\ Resumed(c)
  /\ mode' = [mode EXCEPT ![c] = "none"]
  /\ IF dirtyWait # <<>>
     THEN LET w == Head(dirtyWait)
          IN  /\ state' = [state EXCEPT ![c] = ResumedState(c), ![w] = "Foreign"]
              /\ detached' = [detached EXCEPT ![c] = FALSE, ![w] = TRUE]
              /\ UNCHANGED <<dirtyWait, dirtyActive, dirtyLimit>>
     ELSE /\ state' = [state EXCEPT ![c] = ResumedState(c)]
          /\ detached' = [detached EXCEPT ![c] = FALSE]
          /\ dirtyActive' = dirtyActive - 1
          /\ dirtyLimit' = Larger(dirtyTarget, dirtyActive - 1)
          /\ UNCHANGED dirtyWait
  /\ UNCHANGED <<generation, credit, ordinaryVars, dirtyTarget, watches, depth>>

FinishDirty(c) ==
  /\ InNative(c, "dirty")
  /\ Resumed(c)
  /\ mode' = [mode EXCEPT ![c] = "none"]
  /\ IF dirtyWait # <<>>
     THEN LET w == Head(dirtyWait)
          IN  /\ state' = [state EXCEPT ![c] = ResumedState(c), ![w] = "Foreign"]
              /\ detached' = [detached EXCEPT ![c] = FALSE, ![w] = TRUE]
              /\ dirtyWait' = Tail(dirtyWait)
              /\ UNCHANGED <<dirtyActive, dirtyLimit>>
     ELSE /\ state' = [state EXCEPT ![c] = ResumedState(c)]
          /\ detached' = [detached EXCEPT ![c] = FALSE]
          /\ dirtyActive' = dirtyActive - 1
          /\ dirtyLimit' = Larger(dirtyTarget, dirtyActive - 1)
          /\ UNCHANGED dirtyWait
  /\ UNCHANGED <<generation, credit, ordinaryVars, dirtyTarget, watches, depth>>

(* set_parallelism, promote_dirty: a new target; the limit never falls     *)
(* below what is active, and a larger target admits the oldest waiters.    *)
(* Mutant: the new target admits nobody.                                   *)
ResizeOnly(p) ==
  /\ dirtyTarget' = DirtyTarget(p)
  /\ dirtyLimit' = Larger(DirtyTarget(p), dirtyActive)
  /\ UNCHANGED <<dirtyActive, dirtyWait, coroutineVars, ordinaryVars, idle, watches, depth>>

SetParallelism(p) ==
  LET target == DirtyTarget(p)
      room   == IF dirtyActive < target THEN target - dirtyActive ELSE 0
      n      == IF room < Len(dirtyWait) THEN room ELSE Len(dirtyWait)
      chosen == {dirtyWait[i] : i \in 1 .. n}
  IN  /\ dirtyTarget' = target
      /\ dirtyLimit' = Larger(target, dirtyActive)
      /\ dirtyActive' = dirtyActive + n
      /\ dirtyWait' = SubSeq(dirtyWait, n + 1, Len(dirtyWait))
      /\ state' = [c \in Coroutines |-> IF c \in chosen THEN "Foreign" ELSE state[c]]
      /\ detached' = [c \in Coroutines |-> c \in chosen \/ detached[c]]
      /\ UNCHANGED <<generation, mode, credit, ordinaryVars, idle, watches, depth>>

-----------------------------------------------------------------------------
(* Taking the processor back from an attached call: a monitor arms a watch *)
(* for the generation it saw, and retakes when the grace time has passed;  *)
(* a callback retakes at once.                                             *)
Attached(c) == state[c] = "Foreign" /\ ~detached[c]

Retake(c) ==
  /\ detached' = [detached EXCEPT ![c] = TRUE]
  /\ idle' = idle + 1

Watch(c) == [co |-> c, gen |-> generation[c]]

ArmPressure(c) ==
  /\ ~detached[c] /\ Cardinality(watches) < MaxWatches
  /\ watches' = watches \union {Watch(c)}
  /\ UNCHANGED <<coroutineVars, ordinaryVars, dirtyVars, idle, depth>>

(* Mutant: the processor is retaken from a call that has none.             *)
RetakeTwice(c) ==
  /\ Watch(c) \in watches
  /\ state[c] = "Foreign"
  /\ Retake(c)
  /\ UNCHANGED <<state, generation, mode, credit, ordinaryVars, dirtyVars, watches, depth>>

RetakePressure(c) ==
  /\ Watch(c) \in watches
  /\ Attached(c)
  /\ Retake(c)
  /\ UNCHANGED <<state, generation, mode, credit, ordinaryVars, dirtyVars, watches, depth>>

BeginCallback(c) ==
  /\ InNative(c, "ordinary") /\ depth < MaxDepth
  /\ IF Attached(c) THEN Retake(c) ELSE UNCHANGED <<detached, idle>>
  /\ depth' = depth + 1
  /\ UNCHANGED <<state, generation, mode, credit, ordinaryVars, dirtyVars, watches>>

FinishCallback ==
  /\ depth > 0
  /\ depth' = depth - 1
  /\ UNCHANGED <<coroutineVars, ordinaryVars, dirtyVars, idle, watches>>

Step(c) ==
  \/ Spawn(c)
  \/ AdmitOrdinary(c) \/ QueueOrdinary(c) \/ AdmitDirty(c) \/ QueueDirty(c)
  \/ FinishOrdinary(c) \/ FinishDirty(c)
  \/ ArmPressure(c) \/ RetakePressure(c) \/ BeginCallback(c)

Next ==
  \/ \E c \in Coroutines : Step(c)
  \/ \E p \in Parallelisms : SetParallelism(p)
  \/ FinishCallback

vars == <<state, detached, generation, mode, credit, active, waiting, dirtyActive,
          dirtyLimit, dirtyTarget, dirtyWait, idle, watches, depth>>

Spec == Init /\ [][Next]_vars

(* Native calls return: an assumption about the foreign code, not about    *)
(* the runtime.                                                            *)
NativeReturns == \A c \in Coroutines : WF_vars(FinishOrdinary(c)) /\ WF_vars(FinishDirty(c))
FairSpec == Spec /\ NativeReturns

-----------------------------------------------------------------------------
TypeOK ==
  /\ state \in [Coroutines -> States]
  /\ detached \in [Coroutines -> BOOLEAN]
  /\ generation \in [Coroutines -> Nat]
  /\ mode \in [Coroutines -> Modes]
  /\ credit \in [Coroutines -> BOOLEAN]
  /\ active \in Nat /\ waiting \in Seq(Coroutines)
  /\ dirtyActive \in Nat /\ dirtyLimit \in Nat /\ dirtyTarget \in Nat \ {0}
  /\ dirtyWait \in Seq(Coroutines)
  /\ idle \in Nat
  /\ watches \subseteq [co : Coroutines, gen : Nat]
  /\ depth \in Nat

(* Every processor is idle, runs one coroutine, or is held by one attached *)
(* foreign call: none is lost and none is used twice.                      *)
Holders == {c \in Coroutines : state[c] = "Running" \/ Attached(c)}
ProcessorsConserved == idle + Cardinality(Holders) = Processors

(* The counters are the calls: each ordinary call in native code holds one *)
(* credit and nobody else does, never more than MaxBlocking; dirty_active  *)
(* counts the dirty calls in native code, never above the limit.           *)
OrdinaryCalls == {c \in Coroutines : InNative(c, "ordinary")}
DirtyCalls    == {c \in Coroutines : InNative(c, "dirty")}

CreditsMatchCalls ==
  /\ \A c \in Coroutines : credit[c] <=> InNative(c, "ordinary")
  /\ active = Cardinality(OrdinaryCalls) /\ active <= MaxBlocking
  /\ dirtyActive = Cardinality(DirtyCalls) /\ dirtyActive <= dirtyLimit

(* The queues hold exactly the callers in the matching state, each once.   *)
Queued(c, q) == \E i \in 1 .. Len(q) : q[i] = c
Distinct(q)  == \A i, j \in 1 .. Len(q) : q[i] = q[j] => i = j

QueuesMatchStates ==
  /\ Distinct(waiting) /\ Distinct(dirtyWait)
  /\ \A c \in Coroutines :
       /\ state[c] = "Waiting" <=> Queued(c, waiting)
       /\ state[c] = "DirtyWaiting" <=> Queued(c, dirtyWait)

(* Nobody waits beside a free credit or free dirty quota, whatever resizes *)
(* happened on the way.                                                    *)
NoIdleQuota ==
  /\ waiting # <<>> => active = MaxBlocking
  /\ dirtyWait # <<>> => dirtyActive >= dirtyTarget

(* A new caller never overtakes one that waits.                            *)
NoBarging ==
  [][\A c \in Coroutines :
       state[c] = "Running" /\ state'[c] = "Foreign" =>
         IF mode'[c] = "ordinary" THEN waiting = <<>> ELSE dirtyWait = <<>>]_vars

(* A pressure watch belongs to one call: no call starts attached with a    *)
(* watch, left over from an earlier moment, that already fits it.          *)
CallsStartUnwatched ==
  [][\A c \in Coroutines : ~Attached(c) /\ Attached(c)' => Watch(c)' \notin watches']_vars

(* A queued caller gets into native code, if native calls return.          *)
EveryCallerAdmitted ==
  \A c \in Coroutines :
    /\ state[c] = "Waiting" ~> state[c] = "Foreign"
    /\ state[c] = "DirtyWaiting" ~> state[c] = "Foreign"

(* scheduler.md: work above a lowered target only drains, no dirty call is *)
(* admitted meanwhile.                                                     *)
DrainsAboveTarget ==
  [][dirtyActive > dirtyTarget =>
       \A c \in Coroutines :
         state'[c] = "Foreign" /\ mode'[c] = "dirty" => state[c] = "Foreign"]_vars
=============================================================================
