------------------------- MODULE ForeignBridgeProofs -------------------------
(***************************************************************************)
(* Proofs about ForeignBridge, for every set of coroutines, number of      *)
(* processors, credit limit and sequence of resizes.                       *)
(***************************************************************************)
EXTENDS ForeignBridge, FiniteSetTheorems, TLAPS

(* The bridge record and the flags fit the lifecycle state.                *)
RecordsFit ==
  \A c \in Coroutines :
    /\ credit[c] <=> InNative(c, "ordinary")
    /\ detached[c] => state[c] = "Foreign"
    /\ state[c] = "Waiting" => mode[c] = "ordinary"
    /\ state[c] = "DirtyWaiting" => mode[c] = "dirty"
    /\ state[c] = "Foreign" => mode[c] \in {"ordinary", "dirty"}

(* The part of the inductive invariant that does not count.                *)
Structure == TypeOK /\ QueuesMatchStates /\ RecordsFit

-----------------------------------------------------------------------------
(* Queues of distinct callers: what joining and leaving them does.         *)
LEMMA JoinQueue ==
  ASSUME NEW S, NEW q \in Seq(S), NEW c \in S, Distinct(q), ~Queued(c, q)
  PROVE  /\ Append(q, c) \in Seq(S)
         /\ Distinct(Append(q, c))
         /\ \A d : Queued(d, Append(q, c)) <=> Queued(d, q) \/ d = c
<1> DEFINE a == Append(q, c)
<1>1. Len(a) = Len(q) + 1 /\ Len(q) \in Nat
  OBVIOUS
<1>2. a[Len(q) + 1] = c
  OBVIOUS
<1>3. \A i \in 1 .. Len(q) : a[i] = q[i]
  OBVIOUS
<1>4. Distinct(a)
  <2>1. SUFFICES ASSUME NEW i \in 1 .. Len(a), NEW j \in 1 .. Len(a), a[i] = a[j]
                 PROVE  i = j
    BY DEF Distinct
  <2>2. CASE i \in 1 .. Len(q) /\ j \in 1 .. Len(q)
    BY <1>3, <2>1, <2>2 DEF Distinct
  <2>3. CASE i = Len(q) + 1 /\ j \in 1 .. Len(q)
    BY <1>2, <1>3, <2>1, <2>3 DEF Queued
  <2>4. CASE j = Len(q) + 1 /\ i \in 1 .. Len(q)
    BY <1>2, <1>3, <2>1, <2>4 DEF Queued
  <2> QED BY <1>1, <2>2, <2>3, <2>4
<1>5. \A d : Queued(d, a) <=> Queued(d, q) \/ d = c
  BY <1>1, <1>2, <1>3 DEF Queued
<1> QED BY <1>4, <1>5

LEMMA LeaveQueue ==
  ASSUME NEW S, NEW q \in Seq(S), q # <<>>, Distinct(q)
  PROVE  /\ Head(q) \in S /\ Queued(Head(q), q)
         /\ Tail(q) \in Seq(S)
         /\ Distinct(Tail(q))
         /\ \A d : Queued(d, Tail(q)) <=> Queued(d, q) /\ d # Head(q)
<1> DEFINE t == Tail(q)
<1>1. Len(q) \in Nat /\ Len(q) > 0 /\ Len(t) = Len(q) - 1 /\ Head(q) = q[1]
  OBVIOUS
<1>2. \A i \in 1 .. Len(t) : t[i] = q[i + 1]
  OBVIOUS
<1>3. Distinct(t)
  <2>1. SUFFICES ASSUME NEW i \in 1 .. Len(t), NEW j \in 1 .. Len(t), t[i] = t[j]
                 PROVE  i = j
    BY DEF Distinct
  <2>2. i + 1 \in 1 .. Len(q) /\ j + 1 \in 1 .. Len(q) /\ q[i + 1] = q[j + 1]
    BY <1>1, <1>2, <2>1
  <2>3. i + 1 = j + 1
    BY <2>2 DEF Distinct
  <2> QED BY <1>1, <2>3
<1>4. ASSUME NEW d
      PROVE  Queued(d, t) <=> Queued(d, q) /\ d # Head(q)
  <2>1. ASSUME Queued(d, t) PROVE Queued(d, q) /\ d # Head(q)
    <3>1. PICK i \in 1 .. Len(t) : t[i] = d
      BY <2>1 DEF Queued
    <3>2. i + 1 \in 1 .. Len(q) /\ q[i + 1] = d /\ i + 1 # 1
      BY <1>1, <1>2, <3>1
    <3>3. d # q[1]
      BY <1>1, <3>2 DEF Distinct
    <3> QED BY <1>1, <3>2, <3>3 DEF Queued
  <2>2. ASSUME Queued(d, q), d # Head(q) PROVE Queued(d, t)
    <3>1. PICK i \in 1 .. Len(q) : q[i] = d
      BY <2>2 DEF Queued
    <3>2. i # 1
      BY <1>1, <2>2, <3>1
    <3>3. i - 1 \in 1 .. Len(t)
      BY <1>1, <3>2
    <3>4. t[i - 1] = d
      BY <1>1, <1>2, <3>1, <3>3
    <3> QED BY <3>3, <3>4 DEF Queued
  <2> QED BY <2>1, <2>2
<1>5. Queued(Head(q), q) /\ Head(q) \in S
  BY <1>1 DEF Queued
<1>6. t \in Seq(S)
  OBVIOUS
<1> QED BY <1>3, <1>4, <1>5, <1>6

-----------------------------------------------------------------------------
LEMMA InitStructure == Init => Structure
  BY ConstantsAssumption
  DEF Init, Structure, TypeOK, QueuesMatchStates, Queued, Distinct, RecordsFit, InNative, States, Modes, DirtyTarget

LEMMA SpawnStructure ==
  ASSUME Structure, NEW c \in Coroutines, Spawn(c)
  PROVE  Structure'
<1> USE DEF Spawn, Structure, ordinaryVars, dirtyVars
<1>1. TypeOK'
  BY DEF TypeOK, States
<1>2. QueuesMatchStates'
  BY DEF TypeOK, QueuesMatchStates
<1>3. RecordsFit'
  BY DEF TypeOK, RecordsFit, InNative
<1> QED BY <1>1, <1>2, <1>3

LEMMA AdmitOrdinaryStructure ==
  ASSUME Structure, NEW c \in Coroutines, AdmitOrdinary(c)
  PROVE  Structure'
<1> USE DEF AdmitOrdinary, Leave, NextGeneration, Structure, dirtyVars
<1>1. TypeOK'
  BY DEF TypeOK, States, Modes
<1>2. QueuesMatchStates'
  BY DEF TypeOK, QueuesMatchStates
<1>3. RecordsFit'
  BY DEF TypeOK, RecordsFit, InNative
<1> QED BY <1>1, <1>2, <1>3

LEMMA QueueOrdinaryStructure ==
  ASSUME Structure, NEW c \in Coroutines, QueueOrdinary(c)
  PROVE  Structure'
<1> USE DEF QueueOrdinary, Leave, Structure, dirtyVars
<1>1. TypeOK'
  BY DEF TypeOK, States, Modes
<1>2. QueuesMatchStates'
  <2>1. ~Queued(c, waiting) /\ ~Queued(c, dirtyWait) /\ Distinct(waiting) /\ waiting \in Seq(Coroutines)
    BY DEF TypeOK, QueuesMatchStates
  <2>2. Distinct(waiting') /\ \A d : Queued(d, waiting') <=> Queued(d, waiting) \/ d = c
    BY <2>1, JoinQueue
  <2>3. dirtyWait' = dirtyWait
    OBVIOUS
  <2> QED BY <2>1, <2>2, <2>3 DEF TypeOK, QueuesMatchStates
<1>3. RecordsFit'
  BY DEF TypeOK, RecordsFit, InNative
<1> QED BY <1>1, <1>2, <1>3

LEMMA AdmitDirtyStructure ==
  ASSUME Structure, NEW c \in Coroutines, AdmitDirty(c)
  PROVE  Structure'
<1> USE DEF AdmitDirty, Leave, NextGeneration, Structure, ordinaryVars
<1>1. TypeOK'
  BY DEF TypeOK, States, Modes
<1>2. QueuesMatchStates'
  BY DEF TypeOK, QueuesMatchStates
<1>3. RecordsFit'
  BY DEF TypeOK, RecordsFit, InNative
<1> QED BY <1>1, <1>2, <1>3

LEMMA QueueDirtyStructure ==
  ASSUME Structure, NEW c \in Coroutines, QueueDirty(c)
  PROVE  Structure'
<1> USE DEF QueueDirty, Leave, NextGeneration, Structure, ordinaryVars
<1>1. TypeOK'
  BY DEF TypeOK, States, Modes
<1>2. QueuesMatchStates'
  <2>1. ~Queued(c, dirtyWait) /\ ~Queued(c, waiting) /\ Distinct(dirtyWait) /\ dirtyWait \in Seq(Coroutines)
    BY DEF TypeOK, QueuesMatchStates
  <2>2. Distinct(dirtyWait') /\ \A d : Queued(d, dirtyWait') <=> Queued(d, dirtyWait) \/ d = c
    BY <2>1, JoinQueue
  <2>3. waiting' = waiting
    OBVIOUS
  <2> QED BY <2>1, <2>2, <2>3 DEF TypeOK, QueuesMatchStates
<1>3. RecordsFit'
  BY DEF TypeOK, RecordsFit, InNative
<1> QED BY <1>1, <1>2, <1>3

(* The waiter that a returning call lets in is not that call itself.       *)
LEMMA FinishOrdinaryStructure ==
  ASSUME Structure, active > 0, NEW c \in Coroutines, FinishOrdinary(c)
  PROVE  Structure'
<1> DEFINE w == Head(waiting)
<1> USE DEF Structure, dirtyVars
<1>1. /\ state[c] = "Foreign" /\ ~Queued(c, waiting)
      /\ ResumedState(c) \in {"Running", "Runnable"}
      /\ idle' \in Nat
  BY DEF FinishOrdinary, InNative, Resumed, ResumedState, TypeOK, QueuesMatchStates
<1>2. CASE Grants
  <2>1. /\ w \in Coroutines /\ w # c /\ state[w] = "Waiting"
        /\ waiting' \in Seq(Coroutines) /\ Distinct(waiting')
        /\ \A d : Queued(d, waiting') <=> Queued(d, waiting) /\ d # w
    <3>1. /\ waiting \in Seq(Coroutines) /\ waiting # <<>> /\ Distinct(waiting)
          /\ waiting' = Tail(waiting)
      BY <1>2 DEF FinishOrdinary, Grants, TypeOK, QueuesMatchStates
    <3>2. /\ w \in Coroutines /\ Queued(w, waiting)
          /\ Tail(waiting) \in Seq(Coroutines) /\ Distinct(Tail(waiting))
          /\ \A d : Queued(d, Tail(waiting)) <=> Queued(d, waiting) /\ d # w
      BY <3>1, LeaveQueue
    <3>3. state[w] = "Waiting"
      BY <3>2 DEF QueuesMatchStates
    <3> HIDE DEF w
    <3> QED BY <1>1, <3>1, <3>2, <3>3
  <2>2. /\ state' = [state EXCEPT ![c] = ResumedState(c), ![w] = "Foreign"]
        /\ detached' = [detached EXCEPT ![c] = FALSE, ![w] = TRUE]
        /\ credit' = [credit EXCEPT ![c] = FALSE, ![w] = TRUE]
        /\ mode' = [mode EXCEPT ![c] = "none"]
        /\ generation' = [generation EXCEPT ![w] = @ + 1]
        /\ active' = active /\ watches' = {x \in watches : x.co # c}
        /\ UNCHANGED <<dirtyVars, depth>>
    BY <1>2 DEF FinishOrdinary
  <2> HIDE DEF w
  <2>3. TypeOK'
    <3>1. state' \in [Coroutines -> States]
      BY <1>1, <2>1, <2>2 DEF TypeOK, States
    <3>2. detached' \in [Coroutines -> BOOLEAN] /\ credit' \in [Coroutines -> BOOLEAN]
      BY <2>1, <2>2 DEF TypeOK
    <3>3. mode' \in [Coroutines -> Modes] /\ generation' \in [Coroutines -> Nat]
      BY <2>1, <2>2 DEF TypeOK, Modes
    <3> QED BY <1>1, <2>1, <2>2, <3>1, <3>2, <3>3 DEF TypeOK
  <2>4. QueuesMatchStates'
    BY <1>1, <2>1, <2>2 DEF TypeOK, QueuesMatchStates
  <2>5. RecordsFit'
    BY <1>1, <2>1, <2>2 DEF TypeOK, RecordsFit, InNative
  <2> QED BY <2>3, <2>4, <2>5
<1>3. CASE ~Grants
  <2>1. /\ state' = [state EXCEPT ![c] = ResumedState(c)]
        /\ detached' = [detached EXCEPT ![c] = FALSE]
        /\ credit' = [credit EXCEPT ![c] = FALSE]
        /\ mode' = [mode EXCEPT ![c] = "none"]
        /\ active' = active - 1 /\ watches' = {x \in watches : x.co # c}
        /\ UNCHANGED <<generation, waiting, dirtyVars, depth>>
    BY <1>3 DEF FinishOrdinary
  <2>2. TypeOK'
    BY <1>1, <2>1 DEF TypeOK, States, Modes
  <2>3. QueuesMatchStates'
    BY <1>1, <2>1 DEF TypeOK, QueuesMatchStates
  <2>4. RecordsFit'
    BY <1>1, <2>1 DEF TypeOK, RecordsFit, InNative
  <2> QED BY <2>2, <2>3, <2>4
<1> QED BY <1>2, <1>3

LEMMA FinishDirtyStructure ==
  ASSUME Structure, dirtyActive > 0, NEW c \in Coroutines, FinishDirty(c)
  PROVE  Structure'
<1> DEFINE w == Head(dirtyWait)
<1> USE DEF Structure, ordinaryVars
<1>1. /\ state[c] = "Foreign" /\ mode[c] = "dirty" /\ ~Queued(c, dirtyWait)
      /\ ResumedState(c) \in {"Running", "Runnable"}
      /\ idle' \in Nat /\ ~credit[c]
  BY DEF FinishDirty, InNative, Resumed, ResumedState, TypeOK, QueuesMatchStates, RecordsFit
<1>2. mode' = [mode EXCEPT ![c] = "none"]
      /\ UNCHANGED <<generation, credit, active, waiting, dirtyTarget, watches, depth>>
  BY DEF FinishDirty
<1>3. CASE dirtyWait # <<>>
  <2>1. /\ w \in Coroutines /\ w # c /\ state[w] = "DirtyWaiting"
        /\ dirtyWait' \in Seq(Coroutines) /\ Distinct(dirtyWait')
        /\ \A d : Queued(d, dirtyWait') <=> Queued(d, dirtyWait) /\ d # w
    <3>1. /\ dirtyWait \in Seq(Coroutines) /\ Distinct(dirtyWait)
          /\ dirtyWait' = Tail(dirtyWait)
      BY <1>3 DEF FinishDirty, TypeOK, QueuesMatchStates
    <3>2. /\ w \in Coroutines /\ Queued(w, dirtyWait)
          /\ Tail(dirtyWait) \in Seq(Coroutines) /\ Distinct(Tail(dirtyWait))
          /\ \A d : Queued(d, Tail(dirtyWait)) <=> Queued(d, dirtyWait) /\ d # w
      BY <1>3, <3>1, LeaveQueue
    <3>3. state[w] = "DirtyWaiting"
      BY <3>2 DEF QueuesMatchStates
    <3> HIDE DEF w
    <3> QED BY <1>1, <3>1, <3>2, <3>3
  <2>2. /\ state' = [state EXCEPT ![c] = ResumedState(c), ![w] = "Foreign"]
        /\ detached' = [detached EXCEPT ![c] = FALSE, ![w] = TRUE]
        /\ UNCHANGED <<dirtyActive, dirtyLimit>>
    BY <1>3 DEF FinishDirty
  <2> HIDE DEF w
  <2>3. TypeOK'
    <3>1. state' \in [Coroutines -> States]
      BY <1>1, <2>1, <2>2 DEF TypeOK, States
    <3>2. detached' \in [Coroutines -> BOOLEAN] /\ mode' \in [Coroutines -> Modes]
      BY <1>2, <2>1, <2>2 DEF TypeOK, Modes
    <3> QED BY <1>1, <1>2, <2>1, <2>2, <3>1, <3>2 DEF TypeOK
  <2>4. QueuesMatchStates'
    BY <1>1, <1>2, <2>1, <2>2 DEF TypeOK, QueuesMatchStates
  <2>5. RecordsFit'
    BY <1>1, <1>2, <2>1, <2>2 DEF TypeOK, RecordsFit, InNative
  <2> QED BY <2>3, <2>4, <2>5
<1>4. CASE dirtyWait = <<>>
  <2>1. /\ state' = [state EXCEPT ![c] = ResumedState(c)]
        /\ detached' = [detached EXCEPT ![c] = FALSE]
        /\ dirtyActive' = dirtyActive - 1
        /\ dirtyLimit' = Larger(dirtyTarget, dirtyActive - 1)
        /\ dirtyWait' = dirtyWait
    BY <1>4 DEF FinishDirty
  <2>2. TypeOK'
    BY <1>1, <1>2, <2>1 DEF TypeOK, States, Modes, Larger
  <2>3. QueuesMatchStates'
    BY <1>1, <1>2, <2>1 DEF TypeOK, QueuesMatchStates
  <2>4. RecordsFit'
    BY <1>1, <1>2, <2>1 DEF TypeOK, RecordsFit, InNative
  <2> QED BY <2>2, <2>3, <2>4
<1> QED BY <1>3, <1>4

(* The waiters a larger target admits are the first ones of the queue.     *)
LEMMA PromotedQueue ==
  ASSUME NEW S, NEW q \in Seq(S), NEW n \in 0 .. Len(q), Distinct(q)
  PROVE  LET rest   == SubSeq(q, n + 1, Len(q))
             chosen == {q[i] : i \in 1 .. n}
         IN  /\ rest \in Seq(S) /\ Len(rest) = Len(q) - n /\ Distinct(rest)
             /\ \A d \in chosen : Queued(d, q)
             /\ \A d : Queued(d, rest) <=> Queued(d, q) /\ d \notin chosen
<1> DEFINE rest   == SubSeq(q, n + 1, Len(q))
           chosen == {q[i] : i \in 1 .. n}
<1>1. rest \in Seq(S) /\ Len(rest) = Len(q) - n
  OBVIOUS
<1>2. \A i \in 1 .. Len(rest) : i + n \in 1 .. Len(q) /\ rest[i] = q[i + n]
  OBVIOUS
<1>3. Distinct(rest)
  BY <1>1, <1>2 DEF Distinct
<1>4. \A d \in chosen : Queued(d, q)
  BY DEF Queued
<1>5. ASSUME NEW d
      PROVE  Queued(d, rest) <=> Queued(d, q) /\ d \notin chosen
  <2>1. ASSUME Queued(d, rest) PROVE Queued(d, q) /\ d \notin chosen
    <3>1. PICK i \in 1 .. Len(rest) : rest[i] = d
      BY <2>1 DEF Queued
    <3>2. i + n \in 1 .. Len(q) /\ q[i + n] = d
      BY <1>2, <3>1
    <3>3. \A j \in 1 .. n : q[j] # d
      BY <1>1, <3>2 DEF Distinct
    <3> QED BY <3>2, <3>3 DEF Queued
  <2>2. ASSUME Queued(d, q), d \notin chosen PROVE Queued(d, rest)
    <3>1. PICK i \in 1 .. Len(q) : q[i] = d
      BY <2>2 DEF Queued
    <3>2. i \notin 1 .. n
      BY <2>2, <3>1
    <3>3. i - n \in 1 .. Len(rest)
      BY <1>1, <3>2
    <3>4. rest[i - n] = d
      BY <1>2, <3>1, <3>3
    <3> QED BY <3>3, <3>4 DEF Queued
  <2> QED BY <2>1, <2>2
<1> QED BY <1>1, <1>3, <1>4, <1>5

LEMMA PromotedCount ==
  ASSUME NEW S, NEW q \in Seq(S), NEW n \in 0 .. Len(q), Distinct(q)
  PROVE  /\ IsFiniteSet({q[i] : i \in 1 .. n})
         /\ Cardinality({q[i] : i \in 1 .. n}) = n
<1> DEFINE f == [i \in 1 .. n |-> q[i]]
           chosen == {q[i] : i \in 1 .. n}
<1>1. \A i, j \in 1 .. n : f[i] = f[j] => i = j
  BY DEF Distinct
<1>2. f \in Bijection(1 .. n, chosen)
  BY <1>1 DEF Bijection, Injection, Surjection, IsInjective
<1>3. ExistsBijection(1 .. n, chosen)
  BY <1>2 DEF ExistsBijection
<1>4. IsFiniteSet(1 .. n) /\ Cardinality(1 .. n) = n
  BY FS_Interval
<1> QED BY <1>3, <1>4, FS_Bijection

LEMMA WatchStructure ==
  ASSUME Structure, NEW c \in Coroutines,
         ArmPressure(c) \/ RetakePressure(c) \/ BeginCallback(c)
  PROVE  Structure'
<1> USE DEF Structure, coroutineVars, ordinaryVars, dirtyVars, Retake, Attached
<1>1. CASE ArmPressure(c)
  BY <1>1 DEF ArmPressure, Watch, TypeOK, QueuesMatchStates, RecordsFit, InNative
<1>2. CASE RetakePressure(c)
  BY <1>2 DEF RetakePressure, TypeOK, QueuesMatchStates, RecordsFit, InNative
<1>3. CASE BeginCallback(c)
  <2>1. /\ UNCHANGED <<state, generation, mode, credit, ordinaryVars, dirtyVars, watches>>
        /\ state[c] = "Foreign" /\ depth' = depth + 1
        /\ \/ detached' = [detached EXCEPT ![c] = TRUE] /\ idle' = idle + 1
           \/ detached' = detached /\ idle' = idle
    BY <1>3 DEF BeginCallback, InNative
  <2>2. TypeOK'
    <3>1. detached' \in [Coroutines -> BOOLEAN]
      BY <2>1 DEF TypeOK
    <3>2. idle' \in Nat /\ depth' \in Nat
      BY <2>1 DEF TypeOK
    <3> QED BY <2>1, <3>1, <3>2 DEF TypeOK
  <2>3. QueuesMatchStates'
    BY <2>1 DEF TypeOK, QueuesMatchStates
  <2>4. RecordsFit'
    BY <2>1 DEF TypeOK, RecordsFit, InNative
  <2> QED BY <2>2, <2>3, <2>4
<1> QED BY <1>1, <1>2, <1>3
(* A resize turns the chosen waiters into detached native calls.           *)
LEMMA SetParallelismStructure ==
  ASSUME Structure, NEW p \in Nat \ {0}, SetParallelism(p)
  PROVE  Structure'
<1> DEFINE target == DirtyTarget(p)
           room   == IF dirtyActive < target THEN target - dirtyActive ELSE 0
           n      == IF room < Len(dirtyWait) THEN room ELSE Len(dirtyWait)
           chosen == {dirtyWait[i] : i \in 1 .. n}
<1> USE DEF Structure, ordinaryVars
<1>1. target \in Nat \ {0} /\ n \in 0 .. Len(dirtyWait)
  BY DEF DirtyTarget, TypeOK
<1>2. /\ dirtyTarget' = target /\ dirtyLimit' = Larger(target, dirtyActive)
      /\ dirtyActive' = dirtyActive + n
      /\ dirtyWait' = SubSeq(dirtyWait, n + 1, Len(dirtyWait))
      /\ state' = [c \in Coroutines |-> IF c \in chosen THEN "Foreign" ELSE state[c]]
      /\ detached' = [c \in Coroutines |-> c \in chosen \/ detached[c]]
      /\ UNCHANGED <<generation, mode, credit, active, waiting, idle, watches, depth>>
  BY DEF SetParallelism
<1>3. /\ dirtyWait' \in Seq(Coroutines) /\ Distinct(dirtyWait')
      /\ \A d \in chosen : Queued(d, dirtyWait)
      /\ \A d : Queued(d, dirtyWait') <=> Queued(d, dirtyWait) /\ d \notin chosen
  <2>1. dirtyWait \in Seq(Coroutines) /\ Distinct(dirtyWait)
    BY DEF TypeOK, QueuesMatchStates
  <2> HIDE DEF n, target, room
  <2> QED BY <1>1, <1>2, <2>1, PromotedQueue
<1> HIDE DEF chosen, n, target, room
<1>4. TypeOK'
  BY <1>1, <1>2, <1>3 DEF TypeOK, States, Larger
<1>5. QueuesMatchStates'
  BY <1>2, <1>3 DEF TypeOK, QueuesMatchStates
<1>6. RecordsFit'
  BY <1>2, <1>3 DEF TypeOK, QueuesMatchStates, RecordsFit, InNative
<1> QED BY <1>4, <1>5, <1>6

-----------------------------------------------------------------------------
(* The part that counts: the limit is the target, or what is active if     *)
(* that is more, which is why a free quota means an empty queue.           *)
CountersMatch ==
  /\ active = Cardinality(OrdinaryCalls) /\ active <= MaxBlocking
  /\ dirtyActive = Cardinality(DirtyCalls)
  /\ dirtyLimit = Larger(dirtyTarget, dirtyActive)

WatchesOld == \A w \in watches : w.gen <= generation[w.co]

IInv == Structure /\ ProcessorsConserved /\ CountersMatch /\ NoIdleQuota /\ WatchesOld

(* Which set a coroutine is counted in follows from its own state.         *)
LEMMA CountedSets ==
  ASSUME Structure
  PROVE  /\ IsFiniteSet(Holders) /\ Cardinality(Holders) \in Nat
         /\ IsFiniteSet(OrdinaryCalls) /\ Cardinality(OrdinaryCalls) \in Nat
         /\ IsFiniteSet(DirtyCalls) /\ Cardinality(DirtyCalls) \in Nat
<1>1. /\ Holders \subseteq Coroutines
      /\ OrdinaryCalls \subseteq Coroutines
      /\ DirtyCalls \subseteq Coroutines
  BY DEF Holders, OrdinaryCalls, DirtyCalls
<1>2. IsFiniteSet(Coroutines)
  BY ConstantsAssumption
<1>3. IsFiniteSet(Holders) /\ IsFiniteSet(OrdinaryCalls) /\ IsFiniteSet(DirtyCalls)
  BY <1>1, <1>2, FS_Subset
<1> QED BY <1>3, FS_CardinalityType

LEMMA AddedOne ==
  ASSUME NEW S, IsFiniteSet(S), NEW c, c \notin S
  PROVE  Cardinality(S \union {c}) = Cardinality(S) + 1
  BY FS_AddElement

LEMMA RemovedOne ==
  ASSUME NEW S, IsFiniteSet(S), NEW c, c \in S
  PROVE  Cardinality(S \ {c}) = Cardinality(S) - 1 /\ Cardinality(S) > 0
<1>1. Cardinality(S \ {c}) = Cardinality(S) - 1
  BY FS_RemoveElement
<1>2. IsFiniteSet(S \ {c}) /\ Cardinality(S \ {c}) \in Nat /\ Cardinality(S) \in Nat
  BY FS_RemoveElement, FS_CardinalityType
<1> QED BY <1>1, <1>2

LEMMA Swapped ==
  ASSUME NEW S, IsFiniteSet(S), NEW c, c \in S, NEW w, w \notin S
  PROVE  Cardinality((S \ {c}) \union {w}) = Cardinality(S)
<1>1. Cardinality(S \ {c}) = Cardinality(S) - 1 /\ Cardinality(S) \in Nat
  BY RemovedOne, FS_CardinalityType
<1>2. IsFiniteSet(S \ {c}) /\ w \notin S \ {c}
  BY FS_RemoveElement
<1>3. Cardinality((S \ {c}) \union {w}) = Cardinality(S \ {c}) + 1
  BY <1>2, AddedOne
<1> QED BY <1>1, <1>3

(* Taking a processor and giving one up keep the sum.                      *)
LEMMA ProcessorTaken ==
  ASSUME Structure, ProcessorsConserved, NEW c, c \notin Holders,
         Holders' = Holders \union {c}, idle > 0, idle' = idle - 1
  PROVE  ProcessorsConserved'
<1>1. Cardinality(Holders') = Cardinality(Holders) + 1 /\ Cardinality(Holders) \in Nat
  BY CountedSets, AddedOne
<1>2. idle \in Nat
  BY DEF Structure, TypeOK
<1> QED BY <1>1, <1>2 DEF ProcessorsConserved

LEMMA ProcessorReleased ==
  ASSUME Structure, ProcessorsConserved, NEW c, c \in Holders,
         Holders' = Holders \ {c}, idle' = idle + 1
  PROVE  ProcessorsConserved'
<1>1. Cardinality(Holders') = Cardinality(Holders) - 1 /\ Cardinality(Holders) \in Nat
  BY CountedSets, RemovedOne
<1>2. idle \in Nat
  BY DEF Structure, TypeOK
<1> QED BY <1>1, <1>2 DEF ProcessorsConserved

LEMMA SpawnCounts ==
  ASSUME IInv, NEW c \in Coroutines, Spawn(c)
  PROVE  IInv'
<1> USE DEF IInv, ordinaryVars, dirtyVars
<1>1. Structure'
  BY SpawnStructure
<1>2. /\ Holders' = Holders \union {c} /\ c \notin Holders
      /\ OrdinaryCalls' = OrdinaryCalls /\ DirtyCalls' = DirtyCalls
  BY DEF Structure, TypeOK, Spawn, Holders, OrdinaryCalls, DirtyCalls, Attached, InNative
<1>3. ProcessorsConserved'
  BY <1>2, ProcessorTaken DEF Spawn
<1>4. CountersMatch' /\ NoIdleQuota' /\ WatchesOld'
  BY <1>2 DEF Spawn, CountersMatch, NoIdleQuota, WatchesOld
<1> QED BY <1>1, <1>3, <1>4

LEMMA AdmitOrdinaryCounts ==
  ASSUME IInv, NEW c \in Coroutines, AdmitOrdinary(c)
  PROVE  IInv'
<1> USE DEF IInv, dirtyVars
<1>1. Structure'
  BY AdmitOrdinaryStructure
<1>2. /\ Holders' = Holders
      /\ OrdinaryCalls' = OrdinaryCalls \union {c} /\ c \notin OrdinaryCalls
      /\ DirtyCalls' = DirtyCalls
  BY DEF Structure, TypeOK, AdmitOrdinary, Leave, Holders, OrdinaryCalls, DirtyCalls, Attached, InNative
<1>3. ProcessorsConserved'
  BY <1>2 DEF AdmitOrdinary, ProcessorsConserved
<1>4. CountersMatch'
  BY <1>2, CountedSets, AddedOne, ConstantsAssumption
  DEF Structure, TypeOK, AdmitOrdinary, CountersMatch
<1>5. NoIdleQuota'
  BY ConstantsAssumption DEF Structure, TypeOK, AdmitOrdinary, CountersMatch, NoIdleQuota
<1>6. WatchesOld'
  BY DEF Structure, TypeOK, AdmitOrdinary, NextGeneration, WatchesOld
<1> QED BY <1>1, <1>3, <1>4, <1>5, <1>6

LEMMA QueueOrdinaryCounts ==
  ASSUME IInv, NEW c \in Coroutines, QueueOrdinary(c)
  PROVE  IInv'
<1> USE DEF IInv, dirtyVars
<1>1. Structure'
  BY QueueOrdinaryStructure
<1>2. /\ Holders' = Holders \ {c} /\ c \in Holders
      /\ OrdinaryCalls' = OrdinaryCalls /\ DirtyCalls' = DirtyCalls
  BY DEF Structure, TypeOK, QueueOrdinary, Leave, Holders, OrdinaryCalls, DirtyCalls, Attached, InNative
<1>3. ProcessorsConserved'
  BY <1>2, ProcessorReleased DEF QueueOrdinary
<1>4. CountersMatch' /\ WatchesOld'
  BY <1>2 DEF QueueOrdinary, CountersMatch, WatchesOld
<1>5. NoIdleQuota'
  BY ConstantsAssumption DEF Structure, TypeOK, QueueOrdinary, CountersMatch, NoIdleQuota
<1> QED BY <1>1, <1>3, <1>4, <1>5

LEMMA AdmitDirtyCounts ==
  ASSUME IInv, NEW c \in Coroutines, AdmitDirty(c)
  PROVE  IInv'
<1> USE DEF IInv, ordinaryVars
<1>1. Structure'
  BY AdmitDirtyStructure
<1>2. /\ Holders' = Holders \ {c} /\ c \in Holders
      /\ OrdinaryCalls' = OrdinaryCalls
      /\ DirtyCalls' = DirtyCalls \union {c} /\ c \notin DirtyCalls
  BY DEF Structure, TypeOK, AdmitDirty, Leave, Holders, OrdinaryCalls, DirtyCalls, Attached, InNative
<1>3. ProcessorsConserved'
  BY <1>2, ProcessorReleased DEF AdmitDirty
<1>4. CountersMatch'
  BY <1>2, CountedSets, AddedOne, ConstantsAssumption
  DEF Structure, TypeOK, AdmitDirty, CountersMatch, Larger
<1>5. NoIdleQuota'
  BY DEF Structure, TypeOK, AdmitDirty, CountersMatch, Larger, NoIdleQuota
<1>6. WatchesOld'
  BY DEF Structure, TypeOK, AdmitDirty, NextGeneration, WatchesOld
<1> QED BY <1>1, <1>3, <1>4, <1>5, <1>6

LEMMA QueueDirtyCounts ==
  ASSUME IInv, NEW c \in Coroutines, QueueDirty(c)
  PROVE  IInv'
<1> USE DEF IInv, ordinaryVars
<1>1. Structure'
  BY QueueDirtyStructure
<1>2. /\ Holders' = Holders \ {c} /\ c \in Holders
      /\ OrdinaryCalls' = OrdinaryCalls /\ DirtyCalls' = DirtyCalls
  BY DEF Structure, TypeOK, QueueDirty, Leave, Holders, OrdinaryCalls, DirtyCalls, Attached, InNative
<1>3. ProcessorsConserved'
  BY <1>2, ProcessorReleased DEF QueueDirty
<1>4. CountersMatch'
  BY <1>2 DEF QueueDirty, CountersMatch
<1>5. NoIdleQuota'
  BY DEF Structure, TypeOK, QueueDirty, CountersMatch, Larger, NoIdleQuota
<1>6. WatchesOld'
  BY DEF Structure, TypeOK, QueueDirty, NextGeneration, WatchesOld
<1> QED BY <1>1, <1>3, <1>4, <1>5, <1>6

(* A returning caller keeps its processor, takes an idle one, or none.     *)
LEMMA ResumedProcessor ==
  ASSUME Structure, ProcessorsConserved, NEW c \in Coroutines, state[c] = "Foreign", Resumed(c),
         Holders' = IF detached[c] /\ idle > 0 THEN Holders \union {c} ELSE Holders
  PROVE  ProcessorsConserved'
<1>1. idle \in Nat
  BY DEF Structure, TypeOK
<1>2. CASE detached[c] /\ idle > 0
  <2>1. c \notin Holders
    BY <1>2 DEF Holders, Attached
  <2>2. Holders' = Holders \union {c} /\ idle' = idle - 1
    BY <1>1, <1>2 DEF Resumed
  <2> QED BY <1>2, <2>1, <2>2, ProcessorTaken
<1>3. CASE ~(detached[c] /\ idle > 0)
  BY <1>1, <1>3 DEF Resumed, ProcessorsConserved
<1> QED BY <1>2, <1>3

LEMMA OldestWaiters ==
  ASSUME Structure
  PROVE  /\ waiting # <<>> => /\ Head(waiting) \in Coroutines
                              /\ state[Head(waiting)] = "Waiting"
                              /\ mode[Head(waiting)] = "ordinary"
         /\ dirtyWait # <<>> => /\ Head(dirtyWait) \in Coroutines
                                /\ state[Head(dirtyWait)] = "DirtyWaiting"
                                /\ mode[Head(dirtyWait)] = "dirty"
<1>1. /\ waiting \in Seq(Coroutines) /\ Distinct(waiting)
      /\ dirtyWait \in Seq(Coroutines) /\ Distinct(dirtyWait)
  BY DEF Structure, TypeOK, QueuesMatchStates
<1>2. /\ waiting # <<>> => Head(waiting) \in Coroutines /\ Queued(Head(waiting), waiting)
      /\ dirtyWait # <<>> => Head(dirtyWait) \in Coroutines /\ Queued(Head(dirtyWait), dirtyWait)
  BY <1>1, LeaveQueue
<1> QED BY <1>2 DEF Structure, QueuesMatchStates, RecordsFit

LEMMA FinishOrdinaryCounts ==
  ASSUME IInv, NEW c \in Coroutines, FinishOrdinary(c)
  PROVE  IInv'
<1> DEFINE w == Head(waiting)
<1> USE DEF IInv
<1>1. /\ c \in OrdinaryCalls /\ state[c] = "Foreign" /\ Resumed(c)
      /\ idle \in Nat /\ active \in Nat /\ waiting \in Seq(Coroutines)
      /\ mode' = [mode EXCEPT ![c] = "none"]
      /\ watches' = {x \in watches : x.co # c}
      /\ dirtyActive' = dirtyActive /\ dirtyLimit' = dirtyLimit
      /\ dirtyTarget' = dirtyTarget /\ dirtyWait' = dirtyWait
  BY DEF FinishOrdinary, OrdinaryCalls, InNative, dirtyVars, Structure, TypeOK
<1>2. active = Cardinality(OrdinaryCalls) /\ active > 0
  BY <1>1, CountedSets, RemovedOne DEF CountersMatch
<1>3. Structure'
  BY <1>2, FinishOrdinaryStructure
<1>4. CASE Grants
  <2>1. /\ w \in Coroutines /\ w # c /\ state[w] = "Waiting" /\ mode[w] = "ordinary"
        /\ waiting # <<>>
    BY <1>1, <1>4, OldestWaiters DEF Grants
  <2>2. /\ state' = [state EXCEPT ![c] = ResumedState(c), ![w] = "Foreign"]
        /\ detached' = [detached EXCEPT ![c] = FALSE, ![w] = TRUE]
        /\ generation' = [generation EXCEPT ![w] = @ + 1]
        /\ waiting' = Tail(waiting) /\ active' = active
    BY <1>4 DEF FinishOrdinary
  <2> HIDE DEF w
  <2>3. /\ Holders' = IF detached[c] /\ idle > 0 THEN Holders \union {c} ELSE Holders
        /\ OrdinaryCalls' = (OrdinaryCalls \ {c}) \union {w} /\ w \notin OrdinaryCalls
        /\ DirtyCalls' = DirtyCalls
    BY <1>1, <2>1, <2>2
    DEF Structure, TypeOK, ResumedState, Holders, OrdinaryCalls, DirtyCalls, Attached, InNative
  <2>4. Cardinality(OrdinaryCalls') = Cardinality(OrdinaryCalls)
    BY <1>1, <2>3, CountedSets, Swapped
  <2>5. ProcessorsConserved'
    BY <1>1, <2>3, ResumedProcessor
  <2>6. CountersMatch'
    BY <1>1, <2>2, <2>3, <2>4 DEF CountersMatch
  <2>7. NoIdleQuota'
    BY <1>1, <2>1, <2>2 DEF NoIdleQuota
  <2>8. WatchesOld'
    BY <1>1, <2>1, <2>2 DEF WatchesOld, Structure, TypeOK
  <2> QED BY <1>3, <2>5, <2>6, <2>7, <2>8
<1>5. CASE ~Grants
  <2>1. /\ state' = [state EXCEPT ![c] = ResumedState(c)]
        /\ detached' = [detached EXCEPT ![c] = FALSE]
        /\ active' = active - 1 /\ generation' = generation /\ waiting' = waiting
    BY <1>5 DEF FinishOrdinary
  <2>2. /\ Holders' = IF detached[c] /\ idle > 0 THEN Holders \union {c} ELSE Holders
        /\ OrdinaryCalls' = OrdinaryCalls \ {c} /\ DirtyCalls' = DirtyCalls
    BY <1>1, <2>1
    DEF Structure, TypeOK, ResumedState, Holders, OrdinaryCalls, DirtyCalls, Attached, InNative
  <2>3. ProcessorsConserved'
    BY <1>1, <2>2, ResumedProcessor
  <2>4. Cardinality(OrdinaryCalls') = Cardinality(OrdinaryCalls) - 1
    BY <1>1, <2>2, CountedSets, RemovedOne
  <2>5. CountersMatch'
    BY <1>1, <1>2, <2>1, <2>2, <2>4, ConstantsAssumption DEF CountersMatch
  <2>6. NoIdleQuota'
    BY <1>1, <1>2, <1>5, <2>1, ConstantsAssumption DEF NoIdleQuota, Grants, CountersMatch
  <2>7. WatchesOld'
    BY <1>1, <2>1 DEF WatchesOld
  <2> QED BY <1>3, <2>3, <2>5, <2>6, <2>7
<1> QED BY <1>4, <1>5

LEMMA FinishDirtyCounts ==
  ASSUME IInv, NEW c \in Coroutines, FinishDirty(c)
  PROVE  IInv'
<1> DEFINE w == Head(dirtyWait)
<1> USE DEF IInv
<1>1. /\ c \in DirtyCalls /\ state[c] = "Foreign" /\ Resumed(c)
      /\ idle \in Nat /\ dirtyActive \in Nat /\ dirtyTarget \in Nat
      /\ mode' = [mode EXCEPT ![c] = "none"]
      /\ watches' = watches /\ generation' = generation
      /\ active' = active /\ waiting' = waiting /\ dirtyTarget' = dirtyTarget
  BY DEF FinishDirty, DirtyCalls, InNative, ordinaryVars, Structure, TypeOK
<1>2. dirtyActive = Cardinality(DirtyCalls) /\ dirtyActive > 0
  BY <1>1, CountedSets, RemovedOne DEF CountersMatch
<1>3. Structure'
  BY <1>2, FinishDirtyStructure
<1>4. WatchesOld'
  BY <1>1 DEF WatchesOld
<1>5. CASE dirtyWait # <<>>
  <2>1. w \in Coroutines /\ w # c /\ state[w] = "DirtyWaiting" /\ mode[w] = "dirty"
    BY <1>1, <1>5, OldestWaiters
  <2>2. /\ state' = [state EXCEPT ![c] = ResumedState(c), ![w] = "Foreign"]
        /\ detached' = [detached EXCEPT ![c] = FALSE, ![w] = TRUE]
        /\ dirtyActive' = dirtyActive /\ dirtyLimit' = dirtyLimit
    BY <1>5 DEF FinishDirty
  <2> HIDE DEF w
  <2>3. /\ Holders' = IF detached[c] /\ idle > 0 THEN Holders \union {c} ELSE Holders
        /\ OrdinaryCalls' = OrdinaryCalls
        /\ DirtyCalls' = (DirtyCalls \ {c}) \union {w} /\ w \notin DirtyCalls
    BY <1>1, <2>1, <2>2
    DEF Structure, TypeOK, ResumedState, Holders, OrdinaryCalls, DirtyCalls, Attached, InNative
  <2>4. Cardinality(DirtyCalls') = Cardinality(DirtyCalls)
    BY <1>1, <2>3, CountedSets, Swapped
  <2>5. ProcessorsConserved'
    BY <1>1, <2>3, ResumedProcessor
  <2>6. CountersMatch'
    BY <1>1, <2>2, <2>3, <2>4 DEF CountersMatch
  <2>7. NoIdleQuota'
    BY <1>1, <1>5, <2>2 DEF NoIdleQuota
  <2> QED BY <1>3, <1>4, <2>5, <2>6, <2>7
<1>6. CASE dirtyWait = <<>>
  <2>1. /\ state' = [state EXCEPT ![c] = ResumedState(c)]
        /\ detached' = [detached EXCEPT ![c] = FALSE]
        /\ dirtyActive' = dirtyActive - 1
        /\ dirtyLimit' = Larger(dirtyTarget, dirtyActive - 1)
        /\ dirtyWait' = dirtyWait
    BY <1>6 DEF FinishDirty
  <2>2. /\ Holders' = IF detached[c] /\ idle > 0 THEN Holders \union {c} ELSE Holders
        /\ OrdinaryCalls' = OrdinaryCalls /\ DirtyCalls' = DirtyCalls \ {c}
    BY <1>1, <2>1
    DEF Structure, TypeOK, ResumedState, Holders, OrdinaryCalls, DirtyCalls, Attached, InNative
  <2>3. ProcessorsConserved'
    BY <1>1, <2>2, ResumedProcessor
  <2>4. Cardinality(DirtyCalls') = Cardinality(DirtyCalls) - 1
    BY <1>1, <2>2, CountedSets, RemovedOne
  <2>5. CountersMatch'
    BY <1>1, <1>2, <2>1, <2>2, <2>4 DEF CountersMatch, Larger
  <2>6. NoIdleQuota'
    BY <1>1, <1>6, <2>1 DEF NoIdleQuota
  <2> QED BY <1>3, <1>4, <2>3, <2>5, <2>6
<1> QED BY <1>5, <1>6

(* The promoted waiters are counted once each, because they are distinct.  *)
LEMMA SetParallelismCounts ==
  ASSUME IInv, NEW p \in Nat \ {0}, SetParallelism(p)
  PROVE  IInv'
<1> DEFINE target == DirtyTarget(p)
           room   == IF dirtyActive < target THEN target - dirtyActive ELSE 0
           n      == IF room < Len(dirtyWait) THEN room ELSE Len(dirtyWait)
           chosen == {dirtyWait[i] : i \in 1 .. n}
           rest   == SubSeq(dirtyWait, n + 1, Len(dirtyWait))
<1> USE DEF IInv
<1>1. /\ dirtyActive \in Nat /\ target \in Nat \ {0} /\ n \in 0 .. Len(dirtyWait)
      /\ dirtyWait \in Seq(Coroutines) /\ Distinct(dirtyWait) /\ dirtyTarget \in Nat
  BY DEF DirtyTarget, Structure, TypeOK, QueuesMatchStates
<1>2. /\ dirtyTarget' = target /\ dirtyLimit' = Larger(target, dirtyActive)
      /\ dirtyActive' = dirtyActive + n
      /\ dirtyWait' = rest
      /\ state' = [c \in Coroutines |-> IF c \in chosen THEN "Foreign" ELSE state[c]]
      /\ detached' = [c \in Coroutines |-> c \in chosen \/ detached[c]]
      /\ generation' = generation /\ mode' = mode /\ active' = active
      /\ waiting' = waiting /\ idle' = idle /\ watches' = watches
  BY DEF SetParallelism, ordinaryVars
<1>3. n > 0 => dirtyActive + n <= target
  BY <1>1
<1>4. n # Len(dirtyWait) => dirtyActive + n >= target
  BY <1>1
<1>5. Structure'
  BY SetParallelismStructure
<1> HIDE DEF n, target, room
<1>6. /\ Len(rest) = Len(dirtyWait) - n
      /\ \A d \in chosen : Queued(d, dirtyWait)
      /\ IsFiniteSet(chosen) /\ Cardinality(chosen) = n
  <2>1. Len(rest) = Len(dirtyWait) - n
    BY <1>1
  <2>2. \A d \in chosen : Queued(d, dirtyWait)
    BY <1>1 DEF Queued
  <2>3. IsFiniteSet(chosen) /\ Cardinality(chosen) = n
    BY ONLY <1>1, PromotedCount, SMT
  <2> QED BY <2>1, <2>2, <2>3
<1> HIDE DEF chosen
<1>7. \A d \in chosen : d \in Coroutines /\ state[d] = "DirtyWaiting" /\ mode[d] = "dirty"
  <2>1. \A d \in chosen : d \in Coroutines
    BY <1>1, <1>6 DEF Queued
  <2> QED BY <1>6, <2>1 DEF Structure, QueuesMatchStates, RecordsFit
<1>8. /\ Holders' = Holders /\ OrdinaryCalls' = OrdinaryCalls
      /\ DirtyCalls' = DirtyCalls \union chosen /\ DirtyCalls \cap chosen = {}
  BY <1>2, <1>7 DEF Holders, OrdinaryCalls, DirtyCalls, Attached, InNative
<1>9. Cardinality(DirtyCalls') = Cardinality(DirtyCalls) + n
  <2>1. IsFiniteSet(DirtyCalls) /\ Cardinality(DirtyCalls) \in Nat
    BY CountedSets
  <2>2. /\ Cardinality(DirtyCalls \union chosen) =
             Cardinality(DirtyCalls) + Cardinality(chosen) - Cardinality(DirtyCalls \cap chosen)
    BY <1>6, <2>1, FS_Union
  <2>3. Cardinality(DirtyCalls \cap chosen) = 0
    BY <1>8, FS_EmptySet
  <2> QED BY <1>1, <1>6, <1>8, <2>1, <2>2, <2>3
<1>10. ProcessorsConserved'
  BY <1>2, <1>8 DEF ProcessorsConserved
<1>11. CountersMatch'
  BY <1>1, <1>2, <1>3, <1>8, <1>9 DEF CountersMatch, Larger
<1>12. NoIdleQuota'
  <2>1. rest # <<>> => n # Len(dirtyWait)
    BY <1>1, <1>6
  <2> QED BY <1>2, <1>4, <2>1 DEF NoIdleQuota
<1>13. WatchesOld'
  BY <1>2 DEF WatchesOld
<1> QED BY <1>5, <1>10, <1>11, <1>12, <1>13

LEMMA WatchCounts ==
  ASSUME IInv, NEW c \in Coroutines,
         ArmPressure(c) \/ RetakePressure(c) \/ BeginCallback(c)
  PROVE  IInv'
<1> USE DEF IInv
<1>1. Structure'
  BY WatchStructure
<1>2. /\ UNCHANGED <<state, generation, mode, active, waiting>>
      /\ UNCHANGED <<dirtyActive, dirtyLimit, dirtyTarget, dirtyWait>>
      /\ watches' = watches \/ watches' = watches \union {Watch(c)}
  BY DEF ArmPressure, RetakePressure, BeginCallback, coroutineVars, ordinaryVars, dirtyVars
<1>3. OrdinaryCalls' = OrdinaryCalls /\ DirtyCalls' = DirtyCalls
  BY <1>2 DEF OrdinaryCalls, DirtyCalls, InNative
<1>4. CountersMatch' /\ NoIdleQuota'
  BY <1>2, <1>3 DEF CountersMatch, NoIdleQuota
<1>5. WatchesOld'
  BY <1>2 DEF WatchesOld, Watch, Structure, TypeOK
<1>6. ProcessorsConserved'
  <2>1. CASE Attached(c) /\ detached' = [detached EXCEPT ![c] = TRUE] /\ idle' = idle + 1
    <3>1. Holders' = Holders \ {c} /\ c \in Holders
      BY <1>2, <2>1 DEF Holders, Attached, Structure, TypeOK
    <3> QED BY <2>1, <3>1, ProcessorReleased
  <2>2. CASE detached' = detached /\ idle' = idle
    BY <1>2, <2>2 DEF ProcessorsConserved, Holders, Attached
  <2> QED BY <2>1, <2>2 DEF ArmPressure, RetakePressure, BeginCallback, Retake, coroutineVars
<1> QED BY <1>1, <1>4, <1>5, <1>6

-----------------------------------------------------------------------------
(* IInv is inductive: the initial state satisfies it, every step keeps it. *)
LEMMA InitIInv == Init => IInv
<1> SUFFICES ASSUME Init PROVE IInv
  OBVIOUS
<1>1. Structure
  BY InitStructure
<1>2. Holders = {} /\ OrdinaryCalls = {} /\ DirtyCalls = {}
  BY DEF Init, Holders, OrdinaryCalls, DirtyCalls, Attached, InNative
<1>3. Cardinality({}) = 0
  BY FS_EmptySet
<1>4. ProcessorsConserved
  BY <1>2, <1>3, ConstantsAssumption DEF Init, ProcessorsConserved
<1>5. CountersMatch
  BY <1>2, <1>3, ConstantsAssumption DEF Init, CountersMatch, Larger, DirtyTarget
<1>6. NoIdleQuota /\ WatchesOld
  BY DEF Init, NoIdleQuota, WatchesOld
<1> QED BY <1>1, <1>4, <1>5, <1>6 DEF IInv

LEMMA UnchangedIInv ==
  ASSUME IInv, depth' \in Nat,
         UNCHANGED <<coroutineVars, ordinaryVars, dirtyVars, idle, watches>>
  PROVE  IInv'
<1> USE DEF coroutineVars, ordinaryVars, dirtyVars
<1>1. TypeOK'
  BY DEF IInv, Structure, TypeOK
<1>2. QueuesMatchStates'
  BY DEF IInv, Structure, QueuesMatchStates, Queued, Distinct
<1>3. RecordsFit'
  BY DEF IInv, Structure, RecordsFit, InNative
<1>4. Holders' = Holders /\ OrdinaryCalls' = OrdinaryCalls /\ DirtyCalls' = DirtyCalls
  BY DEF Holders, OrdinaryCalls, DirtyCalls, Attached, InNative
<1>5. ProcessorsConserved' /\ CountersMatch'
  BY <1>4 DEF IInv, ProcessorsConserved, CountersMatch
<1>6. NoIdleQuota' /\ WatchesOld'
  BY DEF IInv, NoIdleQuota, WatchesOld
<1> QED BY <1>1, <1>2, <1>3, <1>5, <1>6 DEF IInv, Structure

LEMMA NextIInv == IInv /\ [Next]_vars => IInv'
<1> SUFFICES ASSUME IInv, [Next]_vars PROVE IInv'
  OBVIOUS
<1>1. CASE \E c \in Coroutines : Step(c)
  <2>1. PICK c \in Coroutines : Step(c)
    BY <1>1
  <2>2. CASE Spawn(c)
    BY <2>2, SpawnCounts
  <2>3. CASE AdmitOrdinary(c) \/ QueueOrdinary(c)
    BY <2>3, AdmitOrdinaryCounts, QueueOrdinaryCounts
  <2>4. CASE AdmitDirty(c) \/ QueueDirty(c)
    BY <2>4, AdmitDirtyCounts, QueueDirtyCounts
  <2>5. CASE FinishOrdinary(c) \/ FinishDirty(c)
    BY <2>5, FinishOrdinaryCounts, FinishDirtyCounts
  <2>6. CASE ArmPressure(c) \/ RetakePressure(c) \/ BeginCallback(c)
    BY <2>6, WatchCounts
  <2> QED BY <2>1, <2>2, <2>3, <2>4, <2>5, <2>6 DEF Step
<1>2. CASE \E p \in Parallelisms : SetParallelism(p)
  BY <1>2, SetParallelismCounts, ConstantsAssumption
<1>3. CASE FinishCallback
  BY <1>3, UnchangedIInv DEF FinishCallback, IInv, Structure, TypeOK
<1>4. CASE UNCHANGED vars
  BY <1>4, UnchangedIInv DEF vars, coroutineVars, ordinaryVars, dirtyVars, IInv, Structure, TypeOK
<1> QED BY <1>1, <1>2, <1>3, <1>4 DEF Next

THEOREM InductiveInvariant == Spec => []IInv
  BY InitIInv, NextIInv, PTL DEF Spec

(* The variables keep their types, for any number of coroutines, calls and *)
(* resizes: no counter of ForeignWorld underflows.                         *)
THEOREM TypeCorrect == Spec => []TypeOK
<1>1. IInv => TypeOK
  BY DEF IInv, Structure
<1> QED BY <1>1, InductiveInvariant, PTL

(* No sequence of calls, retakes, callbacks and completions loses a        *)
(* processor or lets two coroutines hold one (become_detached, enqueue,    *)
(* finish_detached, retake_immediate).                                     *)
THEOREM ProcessorsAreConserved == Spec => []ProcessorsConserved
<1>1. IInv => ProcessorsConserved
  BY DEF IInv
<1> QED BY <1>1, InductiveInvariant, PTL

(* Credits and dirty quota match the calls in native code and stay within  *)
(* their limits, whatever the limits are (admit_ordinary, service,         *)
(* transfer_or_release_dirty, promote_dirty).                              *)
THEOREM CreditsAreCalls == Spec => []CreditsMatchCalls
<1>1. IInv => CreditsMatchCalls
  <2>1. IInv => dirtyActive <= dirtyLimit
    BY DEF IInv, Structure, TypeOK, CountersMatch, Larger
  <2> QED BY <2>1 DEF IInv, Structure, RecordsFit, CountersMatch, CreditsMatchCalls
<1> QED BY <1>1, InductiveInvariant, PTL

(* Each waiting caller is in exactly the queue its state names, once.      *)
THEOREM QueuesAreStates == Spec => []QueuesMatchStates
<1>1. IInv => QueuesMatchStates
  BY DEF IInv, Structure
<1> QED BY <1>1, InductiveInvariant, PTL

(* No caller waits beside a free credit or free quota under the target:    *)
(* service and promote_dirty never leave one behind.                       *)
THEOREM QuotaIsUsed == Spec => []NoIdleQuota
<1>1. IInv => NoIdleQuota
  BY DEF IInv
<1> QED BY <1>1, InductiveInvariant, PTL

(* Who goes from Running straight into native code was admitted: waiters   *)
(* that are let in come from their queue.                                  *)
LEMMA StartedByAdmission ==
  ASSUME IInv, Next, NEW c \in Coroutines, state[c] = "Running", state'[c] = "Foreign"
  PROVE  AdmitOrdinary(c) \/ AdmitDirty(c)
<1> USE DEF IInv, Structure
<1>1. state \in [Coroutines -> States]
  BY DEF TypeOK
<1>2. ASSUME NEW d \in Coroutines, Step(d)
      PROVE  AdmitOrdinary(c) \/ AdmitDirty(c)
  <2>1. CASE d = c /\ (AdmitOrdinary(d) \/ AdmitDirty(d))
    BY <2>1
  <2>2. CASE d # c /\ (AdmitOrdinary(d) \/ AdmitDirty(d))
    BY <1>1, <2>2 DEF AdmitOrdinary, AdmitDirty, Leave
  <2>3. CASE Spawn(d) \/ QueueOrdinary(d) \/ QueueDirty(d)
    BY <1>1, <2>3 DEF Spawn, QueueOrdinary, QueueDirty, Leave
  <2>4. CASE FinishOrdinary(d)
    <3>1. state[d] = "Foreign" /\ ResumedState(d) # "Foreign"
      BY <2>4 DEF FinishOrdinary, InNative, ResumedState
    <3>2. Grants => Head(waiting) # c
      BY OldestWaiters DEF Grants
    <3> QED BY <1>1, <2>4, <3>1, <3>2 DEF FinishOrdinary
  <2>5. CASE FinishDirty(d)
    <3>1. state[d] = "Foreign" /\ ResumedState(d) # "Foreign"
      BY <2>5 DEF FinishDirty, InNative, ResumedState
    <3>2. dirtyWait # <<>> => Head(dirtyWait) # c
      BY OldestWaiters
    <3> QED BY <1>1, <2>5, <3>1, <3>2 DEF FinishDirty
  <2>6. CASE ArmPressure(d) \/ RetakePressure(d) \/ BeginCallback(d)
    BY <2>6 DEF ArmPressure, RetakePressure, BeginCallback, coroutineVars
  <2> QED BY <1>2, <2>1, <2>2, <2>3, <2>4, <2>5, <2>6 DEF Step
<1>3. ASSUME NEW p \in Parallelisms, SetParallelism(p)
      PROVE  FALSE
  <2> DEFINE target == DirtyTarget(p)
             room   == IF dirtyActive < target THEN target - dirtyActive ELSE 0
             n      == IF room < Len(dirtyWait) THEN room ELSE Len(dirtyWait)
  <2>1. p \in Nat \ {0}
    BY ConstantsAssumption
  <2>2. n \in 0 .. Len(dirtyWait)
    BY <2>1 DEF DirtyTarget, TypeOK
  <2>3. c \in {dirtyWait[i] : i \in 1 .. n}
    BY <1>3 DEF SetParallelism
  <2>4. Queued(c, dirtyWait)
    BY <2>2, <2>3 DEF Queued, TypeOK
  <2> QED BY <2>4 DEF QueuesMatchStates
<1>4. FinishCallback => FALSE
  BY DEF FinishCallback, coroutineVars
<1> QED BY <1>2, <1>3, <1>4 DEF Next

(* A new caller is admitted only when nobody of its kind waits.            *)
THEOREM NobodyBarges == Spec => NoBarging
<1>1. IInv /\ [Next]_vars =>
        [\A c \in Coroutines :
           state[c] = "Running" /\ state'[c] = "Foreign" =>
             IF mode'[c] = "ordinary" THEN waiting = <<>> ELSE dirtyWait = <<>>]_vars
  <2> SUFFICES ASSUME IInv, Next, NEW c \in Coroutines, state[c] = "Running", state'[c] = "Foreign"
               PROVE  IF mode'[c] = "ordinary" THEN waiting = <<>> ELSE dirtyWait = <<>>
    OBVIOUS
  <2>1. CASE AdmitOrdinary(c)
    BY <2>1, ConstantsAssumption
    DEF AdmitOrdinary, Leave, NoIdleQuota, IInv, Structure, TypeOK
  <2>2. CASE AdmitDirty(c)
    BY <2>2 DEF AdmitDirty, Leave, NoIdleQuota, CountersMatch, Larger, IInv, Structure, TypeOK
  <2> QED BY <2>1, <2>2, StartedByAdmission
<1> QED BY <1>1, InductiveInvariant, PTL DEF Spec, NoBarging

(* Only admission with a credit starts a call that keeps its processor.    *)
LEMMA AttachedByAdmission ==
  ASSUME IInv, Next, NEW c \in Coroutines, ~Attached(c), Attached(c)'
  PROVE  AdmitOrdinary(c)
<1> USE DEF IInv, Structure, Attached
<1>1. state \in [Coroutines -> States] /\ detached \in [Coroutines -> BOOLEAN]
  BY DEF TypeOK
<1>2. ASSUME NEW d \in Coroutines, Step(d)
      PROVE  AdmitOrdinary(c)
  <2>1. CASE AdmitOrdinary(d)
    BY <1>1, <2>1 DEF AdmitOrdinary, Leave
  <2>2. CASE AdmitDirty(d)
    BY <1>1, <2>2 DEF AdmitDirty, Leave
  <2>3. CASE Spawn(d) \/ QueueOrdinary(d) \/ QueueDirty(d)
    BY <1>1, <2>3 DEF Spawn, QueueOrdinary, QueueDirty, Leave
  <2>4. CASE FinishOrdinary(d)
    <3>1. state[d] = "Foreign" /\ ResumedState(d) # "Foreign"
      BY <2>4 DEF FinishOrdinary, InNative, ResumedState
    <3>2. Grants => Head(waiting) \in Coroutines
      BY OldestWaiters DEF Grants
    <3> QED BY <1>1, <2>4, <3>1, <3>2 DEF FinishOrdinary
  <2>5. CASE FinishDirty(d)
    <3>1. state[d] = "Foreign" /\ ResumedState(d) # "Foreign"
      BY <2>5 DEF FinishDirty, InNative, ResumedState
    <3>2. dirtyWait # <<>> => Head(dirtyWait) \in Coroutines
      BY OldestWaiters
    <3> QED BY <1>1, <2>5, <3>1, <3>2 DEF FinishDirty
  <2>6. CASE ArmPressure(d)
    BY <2>6 DEF ArmPressure, coroutineVars
  <2>7. CASE RetakePressure(d) \/ BeginCallback(d)
    BY <1>1, <2>7 DEF RetakePressure, BeginCallback, Retake
  <2> QED BY <1>2, <2>1, <2>2, <2>3, <2>4, <2>5, <2>6, <2>7 DEF Step
<1>3. ASSUME NEW p \in Parallelisms, SetParallelism(p)
      PROVE  FALSE
  BY <1>1, <1>3 DEF SetParallelism
<1>4. FinishCallback => FALSE
  BY DEF FinishCallback, coroutineVars
<1> QED BY <1>2, <1>3, <1>4 DEF Next

(* A stale pressure watch never fits a later call of the same coroutine:   *)
(* the generation publish takes is above every generation watched so far.  *)
THEOREM StaleWatchesNeverFit == Spec => CallsStartUnwatched
<1>1. IInv /\ [Next]_vars =>
        [\A c \in Coroutines : ~Attached(c) /\ Attached(c)' => Watch(c)' \notin watches']_vars
  <2> SUFFICES ASSUME IInv, Next, NEW c \in Coroutines, ~Attached(c), Attached(c)'
               PROVE  Watch(c)' \notin watches'
    OBVIOUS
  <2>1. AdmitOrdinary(c)
    BY AttachedByAdmission
  <2>2. generation'[c] = generation[c] + 1 /\ watches' = watches /\ generation[c] \in Nat
    BY <2>1 DEF AdmitOrdinary, NextGeneration, IInv, Structure, TypeOK
  <2>3. \A w \in watches : w.co = c => w.gen <= generation[c] /\ w.gen \in Nat
    BY DEF IInv, WatchesOld, Structure, TypeOK
  <2>4. Watch(c)'.co = c /\ Watch(c)'.gen = generation'[c]
    BY DEF Watch
  <2> QED BY <2>2, <2>3, <2>4
<1> QED BY <1>1, InductiveInvariant, PTL DEF Spec, CallsStartUnwatched
=============================================================================
