--------------------------- MODULE WaitQueueProofs ---------------------------
(***************************************************************************)
(* Proofs about WaitSystem: the queues hold exactly the nodes of standing  *)
(* rounds, a claimed sleeper is owed its wake-up, and a finished child or  *)
(* a cancelled token leaves nobody waiting.                                *)
(*                                                                         *)
(* Effect(c) says what an action of c does to queues and wake-ups; it is   *)
(* proved once for each action, and StepKept derives the invariant from it. *)
(***************************************************************************)
EXTENDS WaitProofs

(* The queues by name: the two of each channel, those of the Join sources  *)
(* and of the never source.                                                *)
Keys == ({"send", "recv"} \X Channels) \union ({"wait"} \X (Coroutines \union {Never}))

Queue(k) ==
  IF k[1] = "send" THEN chan[k[2]].sendQ
  ELSE IF k[1] = "recv" THEN chan[k[2]].recvQ ELSE waitQ[k[2]]

KeyOf(n) ==
  IF req[n.co].cases = <<>> THEN <<"wait", Never>>
  ELSE <<req[n.co].cases[n.case].dir, req[n.co].cases[n.case].src>>

(* The live nodes that have been queued: a joiner queues its node on the   *)
(* second look, a registering select source by source.                     *)
Queued(n) ==
  /\ Live(n)
  /\ pc[n.co] # "join"
  /\ pc[n.co] = "register" => NodeSource(n) \notin scan[n.co].todo

(* A queue holds queued nodes of its own key, each once.                   *)
QueueInv ==
  \A k \in Keys : IsInjective(Queue(k)) /\ \A n \in Range(Queue(k)) : Queued(n) /\ KeyOf(n) = k

(* The queued nodes of an unclaimed round are in their queues.             *)
RoundQueued ==
  \A e \in Coroutines : CanClaim(e) =>
    \A n \in Range(armed[e]) : Queued(n) => n \in Range(Queue(KeyOf(n)))

(* The cancel source holds nodes of cancellable waits, each once.          *)
CancelQInv ==
  /\ IsInjective(cancelQ)
  /\ \A n \in Range(cancelQ) : Live(n) /\ pc[n.co] \in InWait /\ req[n.co].op \in CancelOps

(* A dead child that has woken its joiners has no unclaimed joiner.        *)
JoinInv ==
  \A s \in Coroutines : life[s] = "Dead" /\ pc[s] # "wake_join" =>
    \A n \in Range(waitQ[s]) : ~CanClaim(n.co)

Claimed(n) == n.gen < wgen[n.co] \/ (n.gen = wgen[n.co] /\ delivered[n.co].gen = wgen[n.co])

Cancelling(d) == pc[d] \in {"cancel", "cancel_wake"}

(* An unclaimed cancellable wait is registered until the token is          *)
(* cancelled, and then still ahead of the cancelling handler.              *)
CancelInv ==
  /\ cancelled => cancelQ = <<>>
  /\ \A e \in Coroutines : req[e].op \in CancelOps /\ pc[e] \in InWait /\ CanClaim(e) =>
       IF cancelled
       THEN \E d \in Coroutines : Cancelling(d) /\ Head(armed[e]) \in Range(wakes[d])
       ELSE Head(armed[e]) \in Range(cancelQ)
  /\ \A d \in Coroutines : pc[d] = "cancel_wake" => Claimed(Head(wakes[d]))

(* The nodes the handler of d is going to wake: a canceller has claimed    *)
(* only the head of its list.                                              *)
Owed(d) ==
  IF pc[d] = "cancel" THEN {}
  ELSE IF pc[d] = "cancel_wake" THEN {Head(wakes[d])} ELSE Range(wakes[d])

Asleep(e) == Completed(e) /\ life[e] = "Waiting" /\ pc[e] = "blocked"

(* Whoever sleeps on a completed round is owed a wake-up.                  *)
WakeOwed ==
  \A e \in Coroutines : Asleep(e) =>
    \E d \in Coroutines : \E n \in Owed(d) : n.co = e /\ CanWake(n)

PlaneInv ==
  LocalInv /\ QueueInv /\ RoundQueued /\ CancelQInv /\ JoinInv /\ CancelInv /\ WakeOwed

-----------------------------------------------------------------------------
(* A claimed generation stays claimed.                                     *)
Sticks(e) ==
  delivered[e].gen = wgen[e] /\ wgen[e] # 0 /\ wgen'[e] = wgen[e] =>
    /\ delivered'[e].gen = wgen[e]
    /\ delivered'[e].res \in {delivered[e].res, NoResult}

(* A round that c leaves standing is not given back.                       *)
Ages(c) ==
  /\ wgen'[c] \in {wgen[c], wgen[c] + 1}
  /\ armed[c] # <<>> => wgen'[c] = wgen[c] /\ req'[c] = req[c] /\ (CanClaim(c)' => CanClaim(c))

(* What an action of c does to the queues when it queues the nodes of A.   *)
QueueMove(c, A) ==
  /\ \A n \in A : n \in Nodes /\ n.co = c /\ Queued(n)' /\ ~Queued(n)
  /\ \A k \in Keys :
       /\ IsInjective(Queue(k)) /\ (\A n \in A : n \notin Range(Queue(k))) => IsInjective(Queue(k)')
       /\ \A n \in Range(Queue(k)') : n \in Range(Queue(k)) \/ (n \in A /\ KeyOf(n)' = k)
       /\ \A n \in Range(Queue(k)) :
            CanClaim(n.co)' /\ n \in Range(armed[n.co]) /\ armed'[n.co] = armed[n.co]
              => n \in Range(Queue(k)')
       /\ \A n \in A : KeyOf(n)' = k => n \in Range(Queue(k)')
       /\ \A e \in Coroutines : armed[e] # <<>> /\ armed'[e] # armed[e] =>
            \A n \in Range(Queue(k)') : n \notin Range(armed[e])
  /\ \A n \in Range(armed[c]) : Queued(n) /\ armed'[c] = armed[c] => Queued(n)'
  /\ CanClaim(c)' =>
       \A n \in Range(armed'[c]) :
         Queued(n)' => n \in A \/ (Queued(n) /\ CanClaim(c) /\ armed'[c] = armed[c])

(* ... to the queues of the Join sources.                                  *)
JoinMove(c) ==
  \A s \in Coroutines : life'[s] = "Dead" /\ pc'[s] # "wake_join" =>
    \/ waitQ'[s] = <<>>
    \/ /\ life[s] = "Dead" /\ pc[s] # "wake_join"
       /\ \A n \in Range(waitQ'[s]) : n \in Range(waitQ[s]) \/ ~CanClaim(n.co)'

(* ... to the cancel source.                                               *)
CancelMove(c) ==
  /\ IsInjective(cancelQ) /\ (\A n \in Range(cancelQ) : pc[n.co] # "register_cancel")
       => IsInjective(cancelQ')
  /\ \A n \in Range(cancelQ') :
       \/ n \in Range(cancelQ)
       \/ n \in Nodes /\ n.co = c /\ Live(n)' /\ pc'[c] \in InWait /\ req'[c].op \in CancelOps
  /\ \A e \in Coroutines : armed[e] # <<>> /\ armed'[e] # armed[e] =>
       \A n \in Range(cancelQ') : n \notin Range(armed[e])
  /\ pc[c] \in InWait => pc'[c] \in InWait \/ armed'[c] # armed[c] \/ armed[c] = <<>>
  /\ cancelled => cancelled' /\ (cancelQ = <<>> => cancelQ' = <<>>)
  /\ cancelled' /\ ~cancelled => Range(cancelQ) = Range(wakes'[c]) /\ cancelQ' = <<>>
       /\ (cancelQ # <<>> => pc'[c] = "cancel")
  /\ ~cancelled' => \A n \in Range(cancelQ) : armed'[n.co] = armed[n.co] => n \in Range(cancelQ')
  /\ Cancelling(c) /\ (pc[c] = "cancel_wake" => Claimed(Head(wakes[c]))) =>
       \A n \in Range(wakes[c]) : NodePending(n) /\ CanClaim(n.co)' =>
         Cancelling(c)' /\ n \in Range(wakes'[c])
  /\ pc'[c] = "cancel_wake" => Claimed(Head(wakes[c]))' /\ wakes'[c] = wakes[c]
  /\ req'[c].op \in CancelOps /\ pc'[c] \in InWait /\ CanClaim(c)' =>
       \/ pc[c] \in InWait /\ armed'[c] = armed[c]
       \/ ~cancelled' /\ Head(armed'[c]) \in Range(cancelQ')

(* ... to the wake-ups that are owed.                                      *)
OweMove(c) ==
  /\ \A e \in Coroutines \ {c} :
       \/ delivered'[e] = delivered[e]
       \/ \E n \in Owed(c)' :
            NodePending(n) /\ n.co = e /\ (req[e].op = "select" => winner'[e] = CaseWinner(n.case))
  /\ \A n \in Owed(c) : CanWake(n) => n \in Owed(c)' \/ life'[n.co] # "Waiting"
  /\ ~Asleep(c)'

Effect(c) ==
  /\ Sticks(c) /\ Ages(c)
  /\ \E A \in SUBSET Nodes : QueueMove(c, A)
  /\ JoinMove(c) /\ CancelMove(c) /\ OweMove(c)

-----------------------------------------------------------------------------
(* What the other coroutines keep: their places, and their rounds unless   *)
(* they are woken.                                                         *)
LEMMA BystanderFacts ==
  ASSUME LocalInv, NEW e \in Coroutines, Bystander(e)
  PROVE  /\ pc'[e] = pc[e] /\ req'[e] = req[e] /\ scan'[e] = scan[e] /\ wakes'[e] = wakes[e]
         /\ wgen'[e] = wgen[e] /\ phase'[e] = phase[e]
         /\ CanClaim(e)' => CanClaim(e) /\ delivered'[e] = delivered[e] /\ armed'[e] = armed[e]
         /\ Sticks(e)
         /\ armed'[e] = armed[e] \/ (armed'[e] = <<>> /\ armed[e] # <<>> /\ life'[e] = "Runnable")
         /\ life'[e] = "Dead" <=> life[e] = "Dead"
<1>0. /\ pc'[e] = pc[e] /\ req'[e] = req[e] /\ scan'[e] = scan[e] /\ wakes'[e] = wakes[e]
      /\ wgen'[e] = wgen[e] /\ phase'[e] = phase[e]
  BY DEF Bystander, Steady
<1>1. CASE Same(e) BY <1>0, <1>1 DEF Same, Sticks, CanClaim, IsSelect
<1>2. CASE Given(e)
  <2>1. PICK n, r :
    /\ NodePending(n) /\ n.co = e /\ r \in WaitResults
    /\ delivered'[e] = [gen |-> wgen[e], res |-> r]
    /\ life'[e] = life[e] /\ armed'[e] = armed[e] /\ readied'[e] = readied[e]
    BY <1>2 DEF Given
  <2>2. delivered[e].gen # wgen[e] BY <2>1 DEF NodePending, CanClaim
  <2>3. delivered'[e].gen = wgen[e] BY <2>1
  <2> QED BY <1>0, <2>1, <2>2, <2>3 DEF Sticks, CanClaim
<1>3. CASE Woken(e)
  <2>1. PICK n :
    /\ CanWake(n) /\ n.co = e
    /\ life'[e] = "Runnable" /\ readied'[e] = n.gen /\ armed'[e] = <<>>
    /\ delivered'[e] = delivered[e] /\ winner'[e] = winner[e]
    BY <1>3 DEF Woken
  <2>2. armed[e] # <<>> /\ delivered[e].gen = wgen[e] /\ life[e] = "Waiting"
    BY <2>1 DEF CanWake, NodeCompleted, Live, Range, Completed
  <2> QED BY <1>0, <2>1, <2>2 DEF Sticks, CanClaim
<1> QED BY <1>1, <1>2, <1>3 DEF Bystander

LEMMA LiveFacts ==
  ASSUME LocalInv, NEW e \in Coroutines, NEW n \in Range(armed[e])
  PROVE  n \in Nodes /\ n.co = e /\ n.gen = wgen[e] /\ Live(n) /\ armed[e] # <<>>
         /\ (req[e].cases = <<>> => n.case = 0)
         /\ (req[e].cases # <<>> => n.case \in DOMAIN req[e].cases)
<1>1. Types /\ Local(e) BY DEF LocalInv
<1>2. armed[e] # <<>> BY DEF Range
<1>3. armed[e] = RoundOf(e, req[e].cases, wgen[e]) BY <1>1, <1>2 DEF Local, ArmedFits
<1>4. n.co = e /\ n.gen = wgen[e] /\ (req[e].cases = <<>> => n.case = 0)
      /\ (req[e].cases # <<>> => n.case \in DOMAIN req[e].cases)
  BY <1>3, NodeOfRound
<1>5. n \in Nodes BY <1>1, NodeTypes
<1> QED BY <1>2, <1>4, <1>5 DEF Live

(* The request that a standing round belongs to.                           *)
LEMMA RoundRequest ==
  ASSUME LocalInv, NEW e \in Coroutines, armed[e] # <<>>
  PROVE  req[e] \in Requests /\ req[e].op \in WaitOps
<1>1. Local(e) /\ pc[e] \in Places BY DEF LocalInv, Types
<1>2. pc[e] # "idle" BY <1>1 DEF Local, ArmedFits, Early
<1>3. req[e] \in Requests BY <1>1, <1>2 DEF Local, OpFits
<1>4. req[e].op \in WaitOps
  BY <1>1 DEF Local, OpFits, ArmedFits, Places, Early, Trying, SelectPlaces, InWait, WaitOps, CancelOps
<1> QED BY <1>3, <1>4

(* The queue a node of a round belongs to exists.                          *)
LEMMA KeyOfNode ==
  ASSUME LocalInv, NEW e \in Coroutines, NEW n \in Range(armed[e])
  PROVE  KeyOf(n) \in Keys
<1>1. n.co = e /\ armed[e] # <<>> BY LiveFacts
<1>2. req[e] \in Requests /\ req[e].op \in WaitOps BY <1>1, RoundRequest
<1>3. CASE req[e].cases = <<>>
  <2>1. KeyOf(n) = <<"wait", Never>> BY <1>1, <1>3 DEF KeyOf
  <2> QED BY <2>1 DEF Keys
<1>4. CASE req[e].cases # <<>>
  <2> DEFINE k == req[e].cases[n.case]
  <2>1. KeyOf(n) = <<k.dir, k.src>> BY <1>1, <1>4 DEF KeyOf
  <2>2. n.case \in DOMAIN req[e].cases BY <1>4, LiveFacts
  <2>3. \/ k.dir \in {"send", "recv"} /\ k.src \in Channels
        \/ k.dir = "wait" /\ k.src \in Coroutines
    <3>1. CASE req[e].op \in {"send", "send_large", "recv", "recv_cancel", "join", "join_cancel"}
      <4>1. DOMAIN req[e].cases = {1}
        BY <1>2, <3>1, RequestFacts DEF SendOps, RecvOps, JoinOps
      <4>2. n.case = 1 BY <2>2, <4>1
      <4> QED BY <1>2, <3>1, <4>2, RequestFacts DEF SendOps, RecvOps, JoinOps
    <3>2. CASE req[e].op = "select"
      <4>1. req[e].cases \in Seq(SelectCases) BY <1>2, <3>2, RequestFacts
      <4>2. k \in SelectCases BY <2>2, <4>1, ElementOfSeq
      <4> QED BY <4>2 DEF SelectCases
    <3> QED BY <1>2, <3>1, <3>2 DEF WaitOps
  <2> HIDE DEF k
  <2> QED BY <2>1, <2>3 DEF Keys
<1> QED BY <1>3, <1>4

KeysFit == \A e \in Coroutines : \A n \in Range(armed[e]) : KeyOf(n) \in Keys

LEMMA KeysFitNow == LocalInv => KeysFit
  BY KeyOfNode DEF KeysFit

(* The same of the state after a step.                                     *)
LEMMA KeysFitAfter == LocalInv' => KeysFit'
  BY KeysFitNow, PTL

LEMMA KeyOfNodeAfter ==
  ASSUME LocalInv', NEW e \in Coroutines, NEW n \in Range(armed'[e])
  PROVE  KeyOf(n)' \in Keys
<1>1. KeysFit' BY KeysFitAfter
<1>2. \A d \in Coroutines : \A m \in Range(armed'[d]) : KeyOf(m)' \in Keys
  BY <1>1 DEF KeysFit, Keys
<1> QED BY <1>2

LEMMA QueueTyped ==
  ASSUME LocalInv, NEW k \in Keys
  PROVE  Queue(k) \in Seq(Nodes)
<1>1. Types /\ ChanTypes BY DEF LocalInv
<1>2. CASE k \in {"send", "recv"} \X Channels
  <2>1. PICK d \in {"send", "recv"}, ch \in Channels : k = <<d, ch>> BY <1>2
  <2>2. chan[ch].sendQ \in Seq(Nodes) /\ chan[ch].recvQ \in Seq(Nodes) BY <1>1, QueueTypes
  <2>3. k[1] = d /\ k[2] = ch BY <2>1
  <2> QED BY <2>2, <2>3 DEF Queue
<1>3. CASE k \in {"wait"} \X (Coroutines \union {Never})
  <2>1. PICK s \in Coroutines \union {Never} : k = <<"wait", s>> BY <1>3
  <2>2. waitQ[s] \in Seq(Nodes) BY <1>1 DEF Types
  <2>3. k[1] = "wait" /\ k[2] = s BY <2>1
  <2> QED BY <2>2, <2>3 DEF Queue
<1> QED BY <1>2, <1>3 DEF Keys

LEMMA QueueAfter ==
  ASSUME LocalInv', NEW k \in Keys
  PROVE  Queue(k)' \in Seq(Nodes)
<1>1. Types' /\ ChanTypes' BY DEF LocalInv
<1>2. CASE k \in {"send", "recv"} \X Channels
  <2>1. PICK d \in {"send", "recv"}, ch \in Channels : k = <<d, ch>> BY <1>2
  <2>2. chan'[ch].sendQ \in Seq(Nodes) /\ chan'[ch].recvQ \in Seq(Nodes)
    BY <1>1 DEF ChanTypes, RingOK, ChannelType
  <2>3. k[1] = d /\ k[2] = ch BY <2>1
  <2> QED BY <2>2, <2>3 DEF Queue
<1>3. CASE k \in {"wait"} \X (Coroutines \union {Never})
  <2>1. PICK s \in Coroutines \union {Never} : k = <<"wait", s>> BY <1>3
  <2>2. waitQ'[s] \in Seq(Nodes) BY <1>1 DEF Types
  <2>3. k[1] = "wait" /\ k[2] = s BY <2>1
  <2> QED BY <2>2, <2>3 DEF Queue
<1> QED BY <1>2, <1>3 DEF Keys

-----------------------------------------------------------------------------
(* The queues keep to the rounds.                                          *)
LEMMA QueueKept ==
  ASSUME LocalInv, LocalInv', QueueInv, NEW c \in Coroutines, Ages(c),
         NEW A \in SUBSET Nodes, QueueMove(c, A),
         \A e \in Coroutines \ {c} : Bystander(e)
  PROVE  QueueInv'
<1> SUFFICES ASSUME NEW k \in Keys
             PROVE  (IsInjective(Queue(k)) /\ \A n \in Range(Queue(k)) : Queued(n) /\ KeyOf(n) = k)'
  BY DEF QueueInv, Keys
<1>0. /\ IsInjective(Queue(k)) /\ \A n \in Range(Queue(k)) : Queued(n) /\ KeyOf(n) = k
      /\ \A n \in A : n \in Nodes /\ n.co = c /\ Queued(n)' /\ ~Queued(n)
  BY DEF QueueInv, QueueMove
<1>1. IsInjective(Queue(k)')
  <2>1. \A n \in A : n \notin Range(Queue(k)) BY <1>0
  <2> QED BY <1>0, <2>1 DEF QueueMove
<1>2. ASSUME NEW n \in Range(Queue(k)') PROVE Queued(n)' /\ KeyOf(n)' = k
  <2>1. n \in Range(Queue(k)) \/ (n \in A /\ KeyOf(n)' = k) BY <1>2 DEF QueueMove
  <2>2. CASE n \in A /\ KeyOf(n)' = k BY <1>0, <2>2
  <2>3. CASE n \in Range(Queue(k))
    <3>1. n \in Nodes /\ n.co \in Coroutines
      <4>1. Queue(k) \in Seq(Nodes) BY QueueTyped
      <4>2. n \in Nodes BY <2>3, <4>1, RangeFacts
      <4> QED BY <4>2 DEF Nodes
    <3>2. n \in Range(armed[n.co]) /\ Queued(n) /\ KeyOf(n) = k BY <1>0, <2>3 DEF Queued, Live
    <3>3. armed[n.co] # <<>> BY <3>2 DEF Range
    <3>4. armed'[n.co] = armed[n.co] BY <1>2, <3>1, <3>2, <3>3 DEF QueueMove
    <3>5. req'[n.co] = req[n.co]
      <4>1. CASE n.co = c BY <3>3, <4>1 DEF Ages
      <4>2. CASE n.co # c BY <3>1, <4>2, BystanderFacts
      <4> QED BY <4>1, <4>2
    <3>6. KeyOf(n)' = KeyOf(n) BY <3>5 DEF KeyOf
    <3>7. Queued(n)'
      <4>1. CASE n.co = c BY <3>2, <3>4, <4>1 DEF QueueMove
      <4>2. CASE n.co # c
        <5>1. pc'[n.co] = pc[n.co] /\ scan'[n.co] = scan[n.co] BY <3>1, <4>2, BystanderFacts
        <5> QED BY <3>2, <3>4, <3>5, <5>1 DEF Queued, Live, NodeSource
      <4> QED BY <4>1, <4>2
    <3> QED BY <3>2, <3>6, <3>7
  <2> QED BY <2>1, <2>2, <2>3
<1> QED BY <1>1, <1>2

LEMMA RoundKept ==
  ASSUME LocalInv, LocalInv', QueueInv, RoundQueued, NEW c \in Coroutines, Ages(c),
         NEW A \in SUBSET Nodes, QueueMove(c, A),
         \A e \in Coroutines \ {c} : Bystander(e)
  PROVE  RoundQueued'
<1> SUFFICES ASSUME NEW e \in Coroutines, CanClaim(e)', NEW n \in Range(armed'[e]), Queued(n)'
             PROVE  n \in Range(Queue(KeyOf(n)))'
  BY DEF RoundQueued
<1>1. n.co = e /\ n \in Nodes /\ armed'[e] # <<>>
  <2>1. Types' /\ Local(e)' BY DEF LocalInv
  <2>2. armed'[e] # <<>> BY DEF Range
  <2>3. armed'[e] = RoundOf(e, req'[e].cases, wgen'[e]) BY <2>1, <2>2 DEF Local, ArmedFits
  <2>4. n.co = e BY <2>3, NodeOfRound
  <2>5. armed'[e] \in Seq(Nodes) BY <2>1 DEF Types
  <2> QED BY <2>2, <2>4, <2>5, RangeFacts
<1>2. CASE Queued(n) /\ CanClaim(e) /\ armed'[e] = armed[e] /\ req'[e] = req[e]
  <2>1. n \in Range(armed[e]) BY <1>2
  <2>2. PICK k \in Keys : k = KeyOf(n) BY <2>1, KeyOfNode
  <2>3. KeyOf(n)' = k BY <1>1, <1>2, <2>2 DEF KeyOf
  <2>4. n \in Range(Queue(k)) BY <1>2, <2>1, <2>2 DEF RoundQueued
  <2>5. n \in Range(Queue(k)') BY <1>1, <1>2, <2>1, <2>4 DEF QueueMove
  <2>6. Queue(KeyOf(n))' = Queue(k)' BY <2>3 DEF Queue
  <2> QED BY <2>5, <2>6
<1>3. CASE e # c
  <2>1. CanClaim(e) /\ armed'[e] = armed[e] /\ req'[e] = req[e] /\ pc'[e] = pc[e]
        /\ scan'[e] = scan[e]
    BY <1>3, BystanderFacts
  <2>2. Queued(n) BY <1>1, <2>1 DEF Queued, Live, NodeSource
  <2> QED BY <1>2, <2>1, <2>2
<1>4. CASE e = c
  <2>1. n \in A \/ (Queued(n) /\ CanClaim(c) /\ armed'[c] = armed[c]) BY <1>4 DEF QueueMove
  <2>2. CASE n \in A
    <3>1. PICK k \in Keys : k = KeyOf(n)' BY <1>4, KeyOfNodeAfter
    <3>2. n \in Range(Queue(k)') BY <2>2, <3>1 DEF QueueMove
    <3> QED BY <3>1, <3>2
  <2>3. CASE Queued(n) /\ CanClaim(c) /\ armed'[c] = armed[c]
    <3>1. armed[c] # <<>> BY <1>1, <1>4, <2>3
    <3>2. req'[c] = req[c] BY <3>1 DEF Ages
    <3> QED BY <1>2, <1>4, <2>3, <3>2
  <2> QED BY <2>1, <2>2, <2>3
<1> QED BY <1>3, <1>4

(* A wait that can still be committed is not on a dead child past its      *)
(* wake-up of joiners.                                                     *)
LEMMA JoinKept ==
  ASSUME LocalInv, LocalInv', QueueInv, JoinInv, NEW c \in Coroutines, Ages(c), JoinMove(c),
         \A e \in Coroutines \ {c} : Bystander(e)
  PROVE  JoinInv'
<1> SUFFICES ASSUME NEW s \in Coroutines, life'[s] = "Dead", pc'[s] # "wake_join",
                    NEW n \in Range(waitQ'[s])
             PROVE  ~CanClaim(n.co)'
  BY DEF JoinInv
<1>1. waitQ'[s] # <<>> BY DEF Range
<1>2. /\ life[s] = "Dead" /\ pc[s] # "wake_join"
      /\ n \in Range(waitQ[s]) \/ ~CanClaim(n.co)'
  BY <1>1 DEF JoinMove
<1>3. CASE n \in Range(waitQ[s])
  <2> DEFINE k == <<"wait", s>>
  <2>1. k \in Keys /\ Queue(k) = waitQ[s] BY DEF Keys, Queue
  <2>2. Queue(k) \in Seq(Nodes) BY <2>1, QueueTyped
  <2>3. n.co \in Coroutines
    <3>1. n \in Nodes BY <1>3, <2>1, <2>2, RangeFacts
    <3> QED BY <3>1 DEF Nodes
  <2>4. n \in Range(armed[n.co]) BY <1>3, <2>1 DEF QueueInv, Queued, Live
  <2>5. armed[n.co] # <<>> BY <2>4 DEF Range
  <2>6. ~CanClaim(n.co) BY <1>2, <1>3 DEF JoinInv
  <2>7. CASE n.co = c BY <2>5, <2>6, <2>7 DEF Ages
  <2>8. CASE n.co # c BY <2>3, <2>6, <2>8, BystanderFacts
  <2> QED BY <2>7, <2>8
<1> QED BY <1>2, <1>3

(* The cancel source lists the waits that can still be cancelled.          *)
LEMMA CancelQKept ==
  ASSUME LocalInv, LocalInv', CancelQInv, NEW c \in Coroutines, Ages(c), CancelMove(c),
         \A e \in Coroutines \ {c} : Bystander(e)
  PROVE  CancelQInv'
<1>1. IsInjective(cancelQ')
  <2>1. \A n \in Range(cancelQ) : pc[n.co] # "register_cancel" BY DEF CancelQInv, InWait
  <2> QED BY <2>1 DEF CancelQInv, CancelMove
<1>2. ASSUME NEW n \in Range(cancelQ')
      PROVE  Live(n)' /\ pc'[n.co] \in InWait /\ req'[n.co].op \in CancelOps
  <2>1. \/ n \in Range(cancelQ)
        \/ n \in Nodes /\ n.co = c /\ Live(n)' /\ pc'[c] \in InWait /\ req'[c].op \in CancelOps
    BY <1>2 DEF CancelMove
  <2>2. CASE n \in Range(cancelQ)
    <3>1. Live(n) /\ pc[n.co] \in InWait /\ req[n.co].op \in CancelOps BY <2>2 DEF CancelQInv
    <3>2. n.co \in Coroutines
      <4>1. cancelQ \in Seq(Nodes) BY DEF LocalInv, Types
      <4>2. n \in Nodes BY <2>2, <4>1, RangeFacts
      <4> QED BY <4>2 DEF Nodes
    <3>3. n \in Range(armed[n.co]) /\ armed[n.co] # <<>> BY <3>1 DEF Live, Range
    <3>4. armed'[n.co] = armed[n.co] BY <1>2, <3>2, <3>3 DEF CancelMove
    <3>5. CASE n.co = c BY <3>1, <3>3, <3>4, <3>5 DEF CancelMove, Ages, Live
    <3>6. CASE n.co # c BY <3>1, <3>2, <3>3, <3>4, <3>6, BystanderFacts DEF Live
    <3> QED BY <3>5, <3>6
  <2>3. CASE n \in Nodes /\ n.co = c /\ Live(n)' /\ pc'[c] \in InWait /\ req'[c].op \in CancelOps
    BY <2>3
  <2> QED BY <2>1, <2>2, <2>3
<1> QED BY <1>1, <1>2 DEF CancelQInv

(* The oldest node of a standing round.                                    *)
LEMMA RoundHead ==
  ASSUME LocalInv, NEW e \in Coroutines, armed[e] # <<>>
  PROVE  /\ Head(armed[e]) \in Nodes /\ Head(armed[e]) \in Range(armed[e])
         /\ Head(armed[e]).co = e /\ Head(armed[e]).gen = wgen[e]
<1>1. armed[e] \in Seq(Nodes) BY DEF LocalInv, Types
<1>2. Head(armed[e]) \in Range(armed[e]) BY <1>1, HeadFacts
<1> QED BY <1>2, LiveFacts

(* A parked round that can be committed stands.                            *)
LEMMA ParkedStands ==
  ASSUME LocalInv, NEW e \in Coroutines, pc[e] \in InWait, CanClaim(e)
  PROVE  armed[e] # <<>>
<1>1. ~Completed(e) BY DEF Completed, CanClaim
<1> QED BY <1>1 DEF LocalInv, Local, ArmedFits, InWait

Standing == \A e \in Coroutines : pc[e] \in InWait /\ CanClaim(e) => armed[e] # <<>>

LEMMA StandingNow == LocalInv => Standing
  BY ParkedStands DEF Standing

LEMMA StandingAfter == LocalInv' => Standing'
  BY StandingNow, PTL

LEMMA ClaimedKept ==
  ASSUME LocalInv, NEW c \in Coroutines, Ages(c), Sticks(c),
         \A e \in Coroutines \ {c} : Bystander(e),
         NEW n \in Nodes, Claimed(n)
  PROVE  Claimed(n)'
<1>1. n.co \in Coroutines /\ n.gen \in Nat /\ n.gen # 0 BY WaitAssumption DEF Nodes
<1>2. wgen[n.co] \in Nat BY <1>1 DEF LocalInv, Types
<1>3. wgen'[n.co] \in {wgen[n.co], wgen[n.co] + 1} /\ Sticks(n.co)
  <2>1. CASE n.co = c BY <2>1 DEF Ages
  <2>2. CASE n.co # c BY <1>1, <2>2, BystanderFacts
  <2> QED BY <2>1, <2>2
<1>4. CASE n.gen < wgen[n.co] BY <1>1, <1>2, <1>3, <1>4 DEF Claimed
<1>5. CASE n.gen = wgen[n.co] /\ delivered[n.co].gen = wgen[n.co]
  BY <1>1, <1>2, <1>3, <1>5 DEF Claimed, Sticks
<1> QED BY <1>4, <1>5 DEF Claimed

LEMMA CancelKept ==
  ASSUME LocalInv, LocalInv', CancelInv, NEW c \in Coroutines, Ages(c), Sticks(c), CancelMove(c),
         \A e \in Coroutines \ {c} : Bystander(e)
  PROVE  CancelInv'
<1>0. cancelled \in BOOLEAN /\ cancelled' \in BOOLEAN BY DEF LocalInv, Types
<1>1. cancelled' => cancelQ' = <<>>
  <2>1. CASE cancelled BY <2>1 DEF CancelMove, CancelInv
  <2>2. CASE ~cancelled BY <2>2 DEF CancelMove
  <2> QED BY <2>1, <2>2
<1>2. ASSUME NEW d \in Coroutines, pc'[d] = "cancel_wake" PROVE Claimed(Head(wakes[d]))' /\ wakes'[d] = wakes[d]
  <2>1. CASE d = c BY <1>2, <2>1 DEF CancelMove
  <2>2. CASE d # c
    <3>1. pc[d] = "cancel_wake" /\ wakes'[d] = wakes[d] BY <1>2, <2>2, BystanderFacts
    <3>2. PICK h : h = Head(wakes[d]) OBVIOUS
    <3>3. Claimed(h) BY <3>1, <3>2 DEF CancelInv
    <3>4. h \in Nodes
      <4>1. wakes[d] \in Seq(Nodes) /\ wakes[d] # <<>> BY <3>1 DEF LocalInv, Types, Local, WakesFits
      <4> QED BY <3>2, <4>1, HeadFacts
    <3>5. Claimed(h)' BY <3>3, <3>4, ClaimedKept
    <3>6. Claimed(Head(wakes[d]))' <=> Claimed(h)' BY <3>1, <3>2 DEF Claimed
    <3> QED BY <3>1, <3>5, <3>6
  <2> QED BY <2>1, <2>2
<1>3. ASSUME NEW e \in Coroutines, req'[e].op \in CancelOps, pc'[e] \in InWait, CanClaim(e)'
      PROVE  IF cancelled'
             THEN \E d \in Coroutines : Cancelling(d)' /\ Head(armed'[e]) \in Range(wakes'[d])
             ELSE Head(armed'[e]) \in Range(cancelQ')
  <2>1. CASE /\ req[e].op \in CancelOps /\ pc[e] \in InWait /\ CanClaim(e)
             /\ armed'[e] = armed[e] /\ wgen'[e] = wgen[e]
    <3>1. armed[e] # <<>> BY <2>1, ParkedStands
    <3>2. PICK h : h = Head(armed[e]) OBVIOUS
    <3>3. h \in Nodes /\ h \in Range(armed[e]) /\ h.co = e /\ h.gen = wgen[e]
      BY <3>1, <3>2, RoundHead
    <3>4. NodePending(h) BY <2>1, <3>3 DEF NodePending, Live
    <3>5. CASE cancelled
      <4>1. PICK d \in Coroutines : Cancelling(d) /\ h \in Range(wakes[d])
        BY <2>1, <3>2, <3>5 DEF CancelInv
      <4>2. Cancelling(d)' /\ h \in Range(wakes'[d])
        <5>1. CASE d = c
          <6>1. pc[c] = "cancel_wake" => Claimed(Head(wakes[c])) BY DEF CancelInv
          <6>2. CanClaim(h.co)' BY <1>3, <3>3
          <6> QED BY <3>4, <4>1, <5>1, <6>1, <6>2 DEF CancelMove
        <5>2. CASE d # c BY <4>1, <5>2, BystanderFacts DEF Cancelling
        <5> QED BY <5>1, <5>2
      <4>3. cancelled' BY <3>5 DEF CancelMove
      <4> QED BY <2>1, <3>2, <4>2, <4>3
    <3>6. CASE ~cancelled /\ cancelled'
      <4>1. h \in Range(cancelQ) BY <2>1, <3>2, <3>6 DEF CancelInv
      <4>2. cancelQ # <<>> BY <4>1 DEF Range
      <4>3. pc'[c] = "cancel" /\ h \in Range(wakes'[c]) BY <3>6, <4>1, <4>2 DEF CancelMove
      <4> QED BY <2>1, <3>2, <3>6, <4>3 DEF Cancelling
    <3>7. CASE ~cancelled /\ ~cancelled'
      <4>1. h \in Range(cancelQ) BY <2>1, <3>2, <3>7 DEF CancelInv
      <4>2. h \in Range(cancelQ') BY <2>1, <3>3, <3>7, <4>1 DEF CancelMove
      <4> QED BY <2>1, <3>2, <3>7, <4>2
    <3> QED BY <1>0, <3>5, <3>6, <3>7
  <2>2. CASE e # c
    <3>1. /\ req[e].op \in CancelOps /\ pc[e] \in InWait /\ CanClaim(e)
          /\ armed'[e] = armed[e] /\ wgen'[e] = wgen[e]
      BY <1>3, <2>2, BystanderFacts
    <3> QED BY <2>1, <3>1
  <2>3. CASE e = c
    <3>1. CASE pc[c] \in InWait /\ armed'[c] = armed[c]
      <4>1. armed'[c] # <<>> BY <1>3, <2>3, StandingAfter DEF Standing
      <4>2. wgen'[c] = wgen[c] /\ req'[c] = req[c] /\ CanClaim(c)
        BY <1>3, <2>3, <3>1, <4>1 DEF Ages
      <4> QED BY <1>3, <2>1, <2>3, <3>1, <4>2
    <3>2. CASE ~cancelled' /\ Head(armed'[c]) \in Range(cancelQ') BY <2>3, <3>2
    <3> QED BY <1>3, <2>3, <3>1, <3>2 DEF CancelMove
  <2> QED BY <2>2, <2>3
<1>4. ASSUME NEW d \in Coroutines, pc'[d] = "cancel_wake" PROVE Claimed(Head(wakes[d]))'
  BY <1>2, <1>4
<1> QED BY <1>1, <1>3, <1>4 DEF CancelInv

(* The wake-ups owed to the sleepers.                                      *)
LEMMA OweKept ==
  ASSUME LocalInv, LocalInv', WakeOwed, NEW c \in Coroutines, OweMove(c),
         \A e \in Coroutines \ {c} : Bystander(e)
  PROVE  WakeOwed'
<1> SUFFICES ASSUME NEW e \in Coroutines, Asleep(e)'
             PROVE  \E d \in Coroutines : \E n \in Owed(d)' : n.co = e /\ CanWake(n)'
  BY DEF WakeOwed
<1>1. e # c BY DEF OweMove
<1>2. /\ pc'[e] = pc[e] /\ req'[e] = req[e] /\ wgen'[e] = wgen[e] /\ phase'[e] = phase[e]
      /\ life'[e] = "Waiting" /\ pc[e] = "blocked" /\ Completed(e)'
  BY <1>1, BystanderFacts DEF Asleep
<1>3. \A d \in Coroutines \ {c} : Owed(d)' = Owed(d) BY BystanderFacts DEF Owed
<1>4. CASE Same(e)
  <2>1. Asleep(e) BY <1>2, <1>4 DEF Asleep, Same, Completed
  <2>2. PICK d \in Coroutines : \E n \in Owed(d) : n.co = e /\ CanWake(n) BY <2>1 DEF WakeOwed
  <2>3. PICK n \in Owed(d) : n.co = e /\ CanWake(n) BY <2>2
  <2>4. n \in Owed(d)'
    <3>1. CASE d = c BY <1>2, <2>3, <3>1 DEF OweMove
    <3>2. CASE d # c BY <1>3, <2>3, <3>2
    <3> QED BY <3>1, <3>2
  <2>5. CanWake(n)'
    BY <1>2, <1>4, <2>3 DEF CanWake, NodeCompleted, Live, Completed, IsSelect, Same
  <2> QED BY <2>3, <2>4, <2>5
<1>5. CASE Given(e)
  <2>1. PICK m, r :
    /\ NodePending(m) /\ m.co = e /\ r \in WaitResults
    /\ delivered'[e] = [gen |-> wgen[e], res |-> r]
    /\ life'[e] = life[e] /\ armed'[e] = armed[e] /\ readied'[e] = readied[e]
    BY <1>5 DEF Given
  <2>2. delivered'[e] # delivered[e]
    <3>1. delivered[e].gen # wgen[e] BY <2>1 DEF NodePending, CanClaim
    <3>2. delivered'[e].gen = wgen[e] BY <2>1
    <3> QED BY <3>1, <3>2
  <2>3. PICK n \in Owed(c)' :
          NodePending(n) /\ n.co = e /\ (req[e].op = "select" => winner'[e] = CaseWinner(n.case))
    BY <1>1, <2>2 DEF OweMove
  <2>4. n \in Range(armed[e]) /\ n.gen = wgen[e] BY <2>3 DEF NodePending, Live
  <2>5. Types /\ Local(e) BY DEF LocalInv
  <2>6. armed[e] # <<>> BY <2>4 DEF Range
  <2>7. readied[e] # wgen[e]
    <3>1. readied[e] < wgen[e] /\ readied[e] \in Nat /\ wgen[e] \in Nat
      BY <2>5, <2>6 DEF Local, ArmedFits, Types
    <3> QED BY <3>1
  <2>8. req[e].op = "select" => phase[e] = "Armed" BY <1>2, <2>5 DEF Local, OpFits, InWait
  <2>9. CanWake(n)'
    BY <1>2, <2>1, <2>3, <2>4, <2>7, <2>8 DEF CanWake, NodeCompleted, Live, Completed, IsSelect
  <2> QED BY <2>3, <2>9
<1>6. CASE Woken(e) BY <1>2, <1>6 DEF Woken
<1> QED BY <1>1, <1>4, <1>5, <1>6 DEF Bystander

LEMMA StepKept ==
  ASSUME PlaneInv, NEW c \in Coroutines, Step(c), Effect(c), LocalInv'
  PROVE  PlaneInv'
<1>1. \A e \in Coroutines \ {c} : Bystander(e) BY DEF Step
<1>2. /\ LocalInv /\ QueueInv /\ RoundQueued /\ CancelQInv /\ JoinInv /\ CancelInv /\ WakeOwed
  BY DEF PlaneInv
<1>3. /\ Sticks(c) /\ Ages(c)
      /\ JoinMove(c) /\ CancelMove(c) /\ OweMove(c)
  BY DEF Effect
<1>4. PICK A \in SUBSET Nodes : QueueMove(c, A) BY DEF Effect
<1>5. QueueInv' BY <1>1, <1>2, <1>3, <1>4, QueueKept
<1>6. RoundQueued' BY <1>1, <1>2, <1>3, <1>4, RoundKept
<1>7. CancelQInv' BY <1>1, <1>2, <1>3, CancelQKept
<1>8. JoinInv' BY <1>1, <1>2, <1>3, JoinKept
<1>9. CancelInv' BY <1>1, <1>2, <1>3, CancelKept
<1>10. WakeOwed' BY <1>1, <1>2, <1>3, OweKept
<1> QED BY <1>5, <1>6, <1>7, <1>8, <1>9, <1>10 DEF PlaneInv

-----------------------------------------------------------------------------
(* The queues behind the names.                                            *)
LEMMA KeySplit ==
  ASSUME NEW k \in Keys
  PROVE  \/ \E ch \in Channels : k = <<"send", ch>>
         \/ \E ch \in Channels : k = <<"recv", ch>>
         \/ \E s \in Coroutines \union {Never} : k = <<"wait", s>>
<1>1. CASE k \in {"send", "recv"} \X Channels BY <1>1
<1>2. CASE k \in {"wait"} \X (Coroutines \union {Never}) BY <1>2
<1> QED BY <1>1, <1>2 DEF Keys

LEMMA QueueNames ==
  /\ \A ch : Queue(<<"send", ch>>) = chan[ch].sendQ /\ Queue(<<"send", ch>>)' = chan'[ch].sendQ
  /\ \A ch : Queue(<<"recv", ch>>) = chan[ch].recvQ /\ Queue(<<"recv", ch>>)' = chan'[ch].recvQ
  /\ \A s : Queue(<<"wait", s>>) = waitQ[s] /\ Queue(<<"wait", s>>)' = waitQ'[s]
  /\ \A ch \in Channels : <<"send", ch>> \in Keys /\ <<"recv", ch>> \in Keys
  /\ \A s \in Coroutines \union {Never} : <<"wait", s>> \in Keys
  BY DEF Queue, Keys

LEMMA QueuesStill ==
  ASSUME waitQ' = waitQ,
         \A ch \in Channels : chan'[ch].sendQ = chan[ch].sendQ /\ chan'[ch].recvQ = chan[ch].recvQ
  PROVE  \A k \in Keys : Queue(k)' = Queue(k)
<1> SUFFICES ASSUME NEW k \in Keys PROVE Queue(k)' = Queue(k) OBVIOUS
<1>1. CASE \E ch \in Channels : k = <<"send", ch>> BY <1>1 DEF Queue
<1>2. CASE \E ch \in Channels : k = <<"recv", ch>> BY <1>2 DEF Queue
<1>3. CASE \E s \in Coroutines \union {Never} : k = <<"wait", s>> BY <1>3 DEF Queue
<1> QED BY <1>1, <1>2, <1>3, KeySplit

(* Actions that leave the queues and the rounds alone.                     *)
LEMMA QueuesSameMove ==
  ASSUME LocalInv, NEW c \in Coroutines, Ages(c),
         \A k \in Keys : Queue(k)' = Queue(k), armed' = armed,
         \/ armed[c] = <<>>
         \/ /\ pc[c] # "join" /\ pc'[c] \notin {"join", "register"}
            /\ pc[c] = "register" => ~CanClaim(c)
  PROVE  QueueMove(c, {})
<1>1. ASSUME NEW n \in Range(armed[c])
      PROVE  /\ Queued(n)'
             /\ CanClaim(c)' => Queued(n) /\ CanClaim(c)
  <2>1. n.co = c /\ Live(n) /\ armed[c] # <<>> BY LiveFacts
  <2>2. Live(n)' BY <2>1 DEF Live
  <2>3. CanClaim(c)' => CanClaim(c) BY <2>1 DEF Ages
  <2> QED BY <2>1, <2>2, <2>3 DEF Queued
<1> QED BY <1>1 DEF QueueMove

LEMMA CancelSameMove ==
  ASSUME LocalInv, NEW c \in Coroutines,
         cancelQ' = cancelQ, cancelled' = cancelled, armed' = armed,
         ~Cancelling(c), pc'[c] # "cancel_wake",
         pc[c] \in InWait => pc'[c] \in InWait \/ armed[c] = <<>>,
         pc'[c] \in InWait /\ req'[c].op \in CancelOps /\ CanClaim(c)' => pc[c] \in InWait
  PROVE  CancelMove(c)
<1>1. cancelled' <=> cancelled OBVIOUS
<1> QED BY <1>1 DEF CancelMove

LEMMA JoinSameMove ==
  ASSUME LocalInv, NEW c \in Coroutines, \A e \in Coroutines \ {c} : Bystander(e),
         \A s \in Coroutines : \A n \in Range(waitQ'[s]) : n \in Range(waitQ[s]) \/ ~CanClaim(n.co)',
         life'[c] = "Dead" /\ pc'[c] # "wake_join" => life[c] = "Dead" /\ pc[c] # "wake_join"
  PROVE  JoinMove(c)
<1> SUFFICES ASSUME NEW s \in Coroutines, life'[s] = "Dead", pc'[s] # "wake_join"
             PROVE  life[s] = "Dead" /\ pc[s] # "wake_join"
  BY DEF JoinMove
<1>1. CASE s = c BY <1>1
<1>2. CASE s # c BY <1>2, BystanderFacts
<1> QED BY <1>1, <1>2

LEMMA OweSameMove ==
  ASSUME LocalInv, NEW c \in Coroutines,
         \A e \in Coroutines \ {c} : delivered'[e] = delivered[e],
         \A n \in Owed(c) : n \in Owed(c)', pc'[c] # "blocked"
  PROVE  OweMove(c)
  BY DEF OweMove, Asleep

LEMMA QuietEffect ==
  ASSUME LocalInv, NEW c \in Coroutines, Step(c),
         waitQ' = waitQ,
         \A ch \in Channels : chan'[ch].sendQ = chan[ch].sendQ /\ chan'[ch].recvQ = chan[ch].recvQ,
         armed' = armed, wgen' = wgen, delivered' = delivered,
         cancelQ' = cancelQ, cancelled' = cancelled, wakes'[c] = wakes[c],
         pc[c] \notin {"cancel", "cancel_wake", "join"},
         pc'[c] \notin {"cancel", "cancel_wake", "blocked"},
         life'[c] = "Dead" /\ pc'[c] # "wake_join" => life[c] = "Dead" /\ pc[c] # "wake_join",
         pc'[c] \in InWait /\ req'[c].op \in CancelOps => pc[c] \in InWait,
         \/ armed[c] = <<>>
         \/ /\ req'[c] = req[c] /\ winner'[c] = winner[c]
            /\ pc'[c] \notin {"join", "register"}
            /\ pc[c] \in InWait => pc'[c] \in InWait
            /\ pc[c] = "register" => ~CanClaim(c)
  PROVE  Effect(c)
<1>1. Sticks(c) BY DEF Sticks
<1>2. Ages(c) BY DEF Ages, CanClaim, IsSelect
<1>3. \A k \in Keys : Queue(k)' = Queue(k) BY QueuesStill
<1>4. QueueMove(c, {}) BY <1>2, <1>3, QueuesSameMove
<1>5. CancelMove(c) BY CancelSameMove DEF Cancelling
<1>6. JoinMove(c) BY JoinSameMove DEF Step
<1>7. OweMove(c)
  <2>1. Owed(c)' = Owed(c) BY DEF Owed
  <2> QED BY <2>1, OweSameMove
<1> QED BY <1>1, <1>2, <1>4, <1>5, <1>6, <1>7 DEF Effect

LEMMA CallEffect ==
  ASSUME LocalInv, NEW c \in Coroutines, Step(c), Call(c)
  PROVE  Effect(c)
<1>1. /\ pc[c] = "idle" /\ pc' = [pc EXCEPT ![c] = "call"]
      /\ UNCHANGED <<life, wgen, armed, delivered, winner, readied, phase, scan, chan, waitQ,
                     cancelled, cancelQ, wakes>>
  BY DEF Call, planeVars, roundVars, claimVars, cancelVars, Goto, At
<1>2. armed[c] = <<>> BY <1>1 DEF LocalInv, Local, ArmedFits, Early
<1>3. pc'[c] = "call" BY <1>1 DEF LocalInv, Types
<1>4. life[c] = "Running" BY <1>1 DEF LocalInv, Local, LifeFits, Early
<1> QED BY <1>1, <1>2, <1>3, <1>4, QuietEffect DEF InWait

(* The requests that return at once.                                       *)
LEMMA ReturnEffect ==
  ASSUME LocalInv, NEW c \in Coroutines, Step(c), pc[c] \in Early \union Trying,
         pc'[c] \in Early \union Trying \union {"wake_join"},
         UNCHANGED <<wgen, armed, delivered, waitQ, cancelled, cancelQ, wakes>>,
         \A ch \in Channels : chan'[ch].sendQ = chan[ch].sendQ /\ chan'[ch].recvQ = chan[ch].recvQ
  PROVE  Effect(c)
<1>1. armed[c] = <<>> BY DEF LocalInv, Local, ArmedFits
<1>2. life'[c] = "Dead" /\ pc'[c] # "wake_join" => FALSE
  BY DEF Step, Local, LifeFits
<1> QED BY <1>1, <1>2, QuietEffect DEF InWait, Early, Trying

LEMMA ReturnEffects ==
  ASSUME LocalInv, NEW c \in Coroutines, Step(c),
         \/ TrySendFull(c) \/ TryRecvEmpty(c) \/ CheckToken(c) \/ ScanBegin(c) \/ Probe(c) \/ Finish(c)
  PROVE  Effect(c)
<1>0. pc \in [Coroutines -> Places] BY DEF LocalInv, Types
<1>1. CASE TrySendFull(c)
  <2>1. /\ pc[c] = "call" /\ pc'[c] = "idle"
        /\ UNCHANGED <<wgen, armed, delivered, waitQ, cancelled, cancelQ, wakes, chan>>
    BY <1>0, <1>1 DEF TrySendFull, Return, Serving, At, Goto, restOfSend, callVars, roundVars, lifeVars,
       cancelVars, claimVars
  <2> QED BY <2>1, ReturnEffect DEF Early
<1>2. CASE TryRecvEmpty(c)
  <2>1. /\ pc[c] = "call" /\ pc'[c] = "idle"
        /\ UNCHANGED <<wgen, armed, delivered, waitQ, cancelled, cancelQ, wakes, chan>>
    BY <1>0, <1>2 DEF TryRecvEmpty, Return, Serving, At, Goto, restOfSend, callVars, roundVars, lifeVars,
       cancelVars, claimVars
  <2> QED BY <2>1, ReturnEffect DEF Early
<1>3. CASE CheckToken(c)
  <2>1. /\ pc[c] = "call"
        /\ UNCHANGED <<wgen, armed, delivered, waitQ, cancelled, cancelQ, wakes, chan>>
    BY <1>3 DEF CheckToken, Serving, At, planeVars, callVars, roundVars, cancelVars, claimVars
  <2>2. pc'[c] \in {"idle", "checked"}
    <3>1. CASE cancelled BY <1>0, <1>3, <3>1 DEF CheckToken, Return, Goto
    <3>2. CASE ~cancelled BY <1>0, <1>3, <3>2 DEF CheckToken, Return, Goto
    <3> QED BY <3>1, <3>2
  <2> QED BY <2>1, <2>2, ReturnEffect DEF Early
<1>4. CASE ScanBegin(c)
  <2>1. /\ pc[c] = "try" /\ pc'[c] = "probe"
        /\ UNCHANGED <<wgen, armed, delivered, waitQ, cancelled, cancelQ, wakes, chan>>
    BY <1>0, <1>4 DEF ScanBegin, At, Goto, selectRest, callVars, roundVars, lifeVars, cancelVars, claimVars
  <2> QED BY <2>1, ReturnEffect DEF Trying
<1>5. CASE Probe(c)
  <2>1. /\ pc[c] = "probe"
        /\ UNCHANGED <<wgen, armed, delivered, waitQ, cancelled, cancelQ, wakes, chan>>
    BY <1>5 DEF Probe, At, selectRest, callVars, roundVars, lifeVars, cancelVars, claimVars
  <2>2. pc' = [pc EXCEPT ![c] = "retry"] \/ pc' = [pc EXCEPT ![c] = "probe"]
    BY <1>5 DEF Probe, Goto
  <2>3. pc'[c] \in {"retry", "probe"} BY <1>0, <2>2
  <2> QED BY <2>1, <2>3, ReturnEffect DEF Trying
<1>6. CASE Finish(c)
  <2>1. /\ pc[c] = "call" /\ pc'[c] = "wake_join"
        /\ UNCHANGED <<wgen, armed, delivered, waitQ, cancelled, cancelQ, wakes, chan>>
    BY <1>0, <1>6 DEF Finish, Serving, At, Goto, joinRest, callVars, roundVars
  <2> QED BY <2>1, ReturnEffect DEF Early
<1> QED BY <1>1, <1>2, <1>3, <1>4, <1>5, <1>6

(* The large send changes a slot of the ring, never a queue.               *)
LEMMA LargeEffects ==
  ASSUME LocalInv, NEW c \in Coroutines, Step(c), ReserveLarge(c) \/ FinishLarge(c)
  PROVE  Effect(c)
<1>0. pc \in [Coroutines -> Places] /\ DOMAIN chan = Channels
      /\ \A x \in Channels : chan[x] \in ChannelType(Capacity[x])
  BY DEF LocalInv, Types, ChanTypes, RingOK
<1> DEFINE ch == Ch(c)
           tail == chan[ch].tail
<1>1. \/ chan' = [chan EXCEPT ![ch].ring[tail] = Slot("Reserved", Payload(c))]
      \/ chan' = [chan EXCEPT ![ch].ring[tail] = EmptySlot]
      \/ chan' = [chan EXCEPT ![ch] = CommitSlot(ch, @, Payload(c))]
  BY DEF ReserveLarge, FinishLarge
<1>2. \A x \in Channels : chan'[x].sendQ = chan[x].sendQ /\ chan'[x].recvQ = chan[x].recvQ
  <2>1. \/ \E v : chan' = [chan EXCEPT ![ch] = [chan[ch] EXCEPT !.ring[tail] = v]]
        \/ chan' = [chan EXCEPT ![ch] = CommitSlot(ch, chan[ch], Payload(c))]
    BY <1>1
  <2> HIDE DEF tail, ch
  <2>2. ASSUME NEW v, chan' = [chan EXCEPT ![ch] = [chan[ch] EXCEPT !.ring[tail] = v]]
        PROVE  \A x \in Channels : chan'[x].sendQ = chan[x].sendQ /\ chan'[x].recvQ = chan[x].recvQ
    <3>1. PICK q : q = [chan[ch] EXCEPT !.ring[tail] = v] OBVIOUS
    <3>2. chan' = [chan EXCEPT ![ch] = q] BY <2>2, <3>1
    <3>3. ch \in Channels => q.sendQ = chan[ch].sendQ /\ q.recvQ = chan[ch].recvQ
      BY <1>0, <3>1 DEF ChannelType
    <3> QED BY <1>0, <3>2, <3>3
  <2>3. CASE chan' = [chan EXCEPT ![ch] = CommitSlot(ch, chan[ch], Payload(c))]
    <3>1. PICK q : q = CommitSlot(ch, chan[ch], Payload(c)) OBVIOUS
    <3>2. chan' = [chan EXCEPT ![ch] = q] BY <2>3, <3>1
    <3>3. ch \in Channels => q.sendQ = chan[ch].sendQ /\ q.recvQ = chan[ch].recvQ
      <4> SUFFICES ASSUME ch \in Channels
                   PROVE  q.sendQ = chan[ch].sendQ /\ q.recvQ = chan[ch].recvQ
        OBVIOUS
      <4> DEFINE t == (chan[ch].tail + 1) % Capacity[ch]
      <4>1. q = [chan[ch] EXCEPT !.ring[chan[ch].tail] = Slot("Occupied", Payload(c)),
                                 !.tail = t, !.len = chan[ch].len + 1]
        BY <3>1 DEF CommitSlot
      <4>2. chan[ch] \in ChannelType(Capacity[ch]) BY <1>0
      <4> HIDE DEF t
      <4> QED BY <4>1, <4>2 DEF ChannelType
    <3> QED BY <1>0, <3>2, <3>3
  <2> QED BY <2>1, <2>2, <2>3
<1>3. /\ pc[c] \in {"call", "reserved"} /\ pc'[c] \in {"reserved", "idle"}
      /\ UNCHANGED <<wgen, armed, delivered, waitQ, cancelled, cancelQ, wakes>>
  <2>1. CASE ReserveLarge(c)
    BY <1>0, <2>1 DEF ReserveLarge, Serving, At, Goto, restOfSend, callVars, roundVars, lifeVars,
       cancelVars, claimVars
  <2>2. CASE FinishLarge(c)
    BY <1>0, <2>2 DEF FinishLarge, Return, At, Goto, restOfSend, callVars, roundVars, lifeVars,
       cancelVars, claimVars
  <2> QED BY <2>1, <2>2
<1> QED BY <1>2, <1>3, ReturnEffect DEF Early

(* The steps of a parking or arming coroutine.                             *)
LEMMA ParkEffects ==
  ASSUME LocalInv, NEW c \in Coroutines, Step(c),
         RegisterWon(c) \/ ArmEnter(c) \/ ArmFinish(c) \/ ParkEnter(c) \/ ParkSleep(c)
  PROVE  Effect(c)
<1>0. pc \in [Coroutines -> Places] /\ Local(c) /\ Local(c)' BY DEF LocalInv, Types, Step
<1>1. CASE RegisterWon(c)
  <2>1. /\ pc[c] = "register" /\ pc'[c] = "arm" /\ winner[c] # Unset /\ IsSelect(c)
        /\ UNCHANGED <<req, life, wgen, armed, delivered, winner, waitQ, cancelled, cancelQ, wakes, chan>>
    BY <1>0, <1>1 DEF RegisterWon, At, Goto, selectRest, callVars, roundVars, lifeVars, cancelVars, claimVars
  <2>2. ~CanClaim(c) BY <2>1 DEF CanClaim
  <2>3. life'[c] # "Dead" BY <1>0, <2>1 DEF Local, LifeFits
  <2> QED BY <2>1, <2>2, <2>3, QuietEffect DEF InWait
<1>2. CASE ArmEnter(c)
  <2>1. /\ pc[c] = "arm" /\ pc'[c] = "armed"
        /\ UNCHANGED <<req, wgen, armed, delivered, winner, waitQ, cancelled, cancelQ, wakes, chan>>
    BY <1>0, <1>2 DEF ArmEnter, At, Goto, callVars, roundVars, cancelVars, claimVars
  <2>2. life'[c] # "Dead" BY <1>0, <2>1 DEF Local, LifeFits
  <2> QED BY <2>1, <2>2, QuietEffect DEF InWait
<1>3. CASE ArmFinish(c)
  <2>1. /\ pc[c] = "armed"
        /\ UNCHANGED <<req, wgen, armed, delivered, winner, waitQ, cancelled, cancelQ, wakes, chan>>
    BY <1>3 DEF ArmFinish, At, callVars, roundVars, cancelVars, claimVars
  <2>2. pc'[c] \in {"park", "cleanup", "wake"}
    <3>1. CASE winner[c] = Unset BY <1>0, <1>3, <3>1 DEF ArmFinish, Goto
    <3>2. CASE winner[c] # Unset BY <1>0, <1>3, <3>2 DEF ArmFinish, Goto
    <3> QED BY <3>1, <3>2
  <2>3. req[c].op = "select" BY <1>0, <2>1 DEF Local, OpFits, SelectPlaces
  <2>4. life'[c] # "Dead" BY <1>0, <2>1, <2>2, <2>3 DEF Local, LifeFits
  <2> QED BY <2>1, <2>2, <2>3, <2>4, QuietEffect DEF InWait, CancelOps
<1>4. CASE ParkEnter(c)
  <2>1. /\ pc[c] = "park" /\ pc'[c] = "sleep"
        /\ UNCHANGED <<req, wgen, armed, delivered, winner, waitQ, cancelled, cancelQ, wakes, chan>>
    BY <1>0, <1>4 DEF ParkEnter, At, Goto, planeVars, callVars, roundVars, cancelVars, claimVars
  <2>2. life'[c] # "Dead" BY <1>0, <2>1 DEF Local, LifeFits
  <2> QED BY <2>1, <2>2, QuietEffect DEF InWait
<1>5. CASE ParkSleep(c)
  <2>1. /\ pc[c] = "sleep" /\ pc'[c] = "recheck"
        /\ UNCHANGED <<req, wgen, armed, delivered, winner, waitQ, cancelled, cancelQ, wakes, chan>>
    BY <1>0, <1>5 DEF ParkSleep, At, Goto, callVars, roundVars, cancelVars, claimVars
  <2>2. life'[c] # "Dead" BY <1>0, <2>1 DEF Local, LifeFits
  <2> QED BY <2>1, <2>2, QuietEffect DEF InWait
<1> QED BY <1>1, <1>2, <1>3, <1>4, <1>5

LEMMA ResumeEffect ==
  ASSUME LocalInv, NEW c \in Coroutines, Step(c), Resume(c)
  PROVE  Effect(c)
<1>0. pc \in [Coroutines -> Places] /\ Local(c) /\ Local(c)' BY DEF LocalInv, Types, Step
<1>1. /\ pc[c] = "blocked" /\ pc'[c] = "idle" /\ life[c] = "Runnable"
      /\ UNCHANGED <<req, wgen, armed, winner, waitQ, cancelled, cancelQ, wakes, chan>>
  BY <1>0 DEF Resume, At, Goto, callVars, roundVars, cancelVars
<1>2. delivered' = [delivered EXCEPT ![c] = [delivered[c] EXCEPT !.res = NoResult]]
  BY DEF Resume, TakeDelivered
<1>3. delivered'[c].gen = delivered[c].gen /\ delivered'[c].res = NoResult
  BY <1>2 DEF LocalInv, Types
<1>4. armed[c] = <<>> BY <1>0, <1>1 DEF Local, ArmedFits
<1>5. Sticks(c) BY <1>1, <1>3 DEF Sticks
<1>6. Ages(c) BY <1>1, <1>4 DEF Ages
<1>7. \A k \in Keys : Queue(k)' = Queue(k) BY <1>1, QueuesStill
<1>8. QueueMove(c, {}) BY <1>1, <1>4, <1>6, <1>7, QueuesSameMove
<1>9. CancelMove(c) BY <1>1, <1>4, CancelSameMove DEF Cancelling, InWait
<1>10. JoinMove(c)
  <2>1. life'[c] # "Dead" BY <1>0, <1>1 DEF Local, LifeFits, Early
  <2> QED BY <1>1, <2>1, JoinSameMove DEF Step
<1>11. OweMove(c)
  <2>1. wakes[c] = <<>> BY <1>0, <1>1 DEF Local, WakesFits
  <2>2. Owed(c) = {} BY <1>1, <2>1 DEF Owed, Range
  <2> QED BY <1>1, <1>2, <2>2, OweSameMove DEF LocalInv, Types
<1> QED BY <1>5, <1>6, <1>8, <1>9, <1>10, <1>11 DEF Effect

-----------------------------------------------------------------------------
(* The nodes of a released round leave every queue; what stays can still   *)
(* be found.                                                               *)
Shrinks ==
  /\ \A k \in Keys : IsInjective(Queue(k)) => IsInjective(Queue(k)')
  /\ \A k \in Keys : \A n \in Range(Queue(k)') : n \in Range(Queue(k))
  /\ \A k \in Keys : \A n \in Range(Queue(k)) :
       CanClaim(n.co)' /\ n \in Range(armed[n.co]) /\ armed'[n.co] = armed[n.co]
         => n \in Range(Queue(k)')
  /\ \A k \in Keys : \A e \in Coroutines : armed[e] # <<>> /\ armed'[e] # armed[e] =>
       \A n \in Range(Queue(k)') : n \notin Range(armed[e])

CancelShrinks ==
  /\ IsInjective(cancelQ) => IsInjective(cancelQ')
  /\ \A n \in Range(cancelQ') : n \in Range(cancelQ)
  /\ \A n \in Range(cancelQ) : armed'[n.co] = armed[n.co] => n \in Range(cancelQ')
  /\ cancelQ = <<>> => cancelQ' = <<>>
  /\ \A e \in Coroutines : armed[e] # <<>> /\ armed'[e] # armed[e] =>
       \A n \in Range(cancelQ') : n \notin Range(armed[e])

LEMMA ShrinkMove ==
  ASSUME LocalInv, NEW c \in Coroutines, Ages(c), Shrinks,
         \/ armed[c] = <<>> /\ armed'[c] = <<>>
         \/ armed'[c] = <<>>
         \/ /\ armed'[c] = armed[c]
            /\ pc[c] # "join" /\ pc'[c] \notin {"join", "register"}
            /\ pc[c] = "register" => ~CanClaim(c)'
  PROVE  QueueMove(c, {})
<1>1. ASSUME NEW n \in Range(armed'[c])
      PROVE  CanClaim(c)' /\ Queued(n)' => Queued(n) /\ CanClaim(c) /\ armed'[c] = armed[c]
  <2>1. armed'[c] # <<>> BY DEF Range
  <2>2. /\ armed'[c] = armed[c] /\ armed[c] # <<>>
        /\ pc[c] # "join" /\ pc'[c] \notin {"join", "register"}
        /\ pc[c] = "register" => ~CanClaim(c)'
    BY <2>1
  <2>3. n \in Range(armed[c]) /\ CanClaim(c)' => CanClaim(c) BY <2>2 DEF Ages
  <2>4. n.co = c /\ Live(n) BY <2>2, LiveFacts
  <2> QED BY <2>2, <2>3, <2>4 DEF Queued, Ages
<1>2. ASSUME NEW n \in Range(armed[c]), Queued(n), armed'[c] = armed[c]
      PROVE  Queued(n)'
  <2>1. n.co = c /\ Live(n) /\ armed[c] # <<>> BY LiveFacts
  <2>2. pc'[c] \notin {"join", "register"} BY <1>2, <2>1
  <2> QED BY <1>2, <2>1, <2>2 DEF Queued, Live
<1> QED BY <1>1, <1>2 DEF QueueMove, Shrinks

LEMMA CancelShrinkMove ==
  ASSUME LocalInv, NEW c \in Coroutines, CancelShrinks, cancelled' = cancelled,
         ~Cancelling(c), pc'[c] # "cancel_wake",
         pc[c] \in InWait => pc'[c] \in InWait \/ armed'[c] # armed[c] \/ armed[c] = <<>>,
         pc'[c] \in InWait /\ req'[c].op \in CancelOps /\ CanClaim(c)' =>
           pc[c] \in InWait /\ armed'[c] = armed[c]
  PROVE  CancelMove(c)
<1>1. cancelled' <=> cancelled OBVIOUS
<1> QED BY <1>1 DEF CancelMove, CancelShrinks

LEMMA QueueEmpties ==
  ASSUME LocalInv, NEW G, cancelQ' = Without(cancelQ, G), cancelQ = <<>>
  PROVE  cancelQ' = <<>>
<1>1. cancelQ \in Seq(Nodes) BY DEF LocalInv, Types
<1>2. cancelQ' \in Seq(Nodes) /\ \A n : n \in Range(cancelQ') => n \in Range(cancelQ)
  BY <1>1, WithoutFacts
<1>3. Range(cancelQ) = {} BY DEF Range
<1> QED BY <1>2, <1>3, RangeFacts

(* cleanup_waiters takes exactly the nodes of the round from every queue.  *)
LEMMA CleanupQueues ==
  ASSUME LocalInv, NEW e \in Coroutines, Cleanup(e), NEW k \in Keys
  PROVE  Queue(k)' = Without(Queue(k), Range(armed[e]))
<1> DEFINE G == Range(armed[e])
<1>1. /\ chan' = [ch \in Channels |->
            [chan[ch] EXCEPT !.sendQ = Without(@, G), !.recvQ = Without(@, G)]]
      /\ waitQ' = [s \in DOMAIN waitQ |-> Without(waitQ[s], G)]
  BY DEF Cleanup
<1>2. DOMAIN waitQ = Coroutines \union {Never} /\ \A ch \in Channels : chan[ch] \in ChannelType(Capacity[ch])
  BY DEF LocalInv, Types, ChanTypes, RingOK
<1> HIDE DEF G
<1>3. \A ch \in Channels : chan'[ch].sendQ = Without(chan[ch].sendQ, G)
                            /\ chan'[ch].recvQ = Without(chan[ch].recvQ, G)
  <2> TAKE ch \in Channels
  <2>1. chan'[ch] = [chan[ch] EXCEPT !.sendQ = Without(chan[ch].sendQ, G),
                                     !.recvQ = Without(chan[ch].recvQ, G)]
    BY <1>1
  <2>2. chan[ch] \in ChannelType(Capacity[ch]) BY <1>2
  <2> QED BY <2>1, <2>2 DEF ChannelType
<1>4. CASE \E ch \in Channels : k = <<"send", ch>> BY <1>3, <1>4, QueueNames DEF G
<1>5. CASE \E ch \in Channels : k = <<"recv", ch>> BY <1>3, <1>5, QueueNames DEF G
<1>6. CASE \E s \in Coroutines \union {Never} : k = <<"wait", s>>
  <2>1. PICK s \in Coroutines \union {Never} : k = <<"wait", s>> BY <1>6
  <2>2. waitQ'[s] = Without(waitQ[s], G) BY <1>1, <1>2
  <2>3. Queue(k) = waitQ[s] /\ Queue(k)' = waitQ'[s] BY <2>1, QueueNames
  <2> QED BY <2>2, <2>3 DEF G
<1> QED BY <1>4, <1>5, <1>6, KeySplit

LEMMA CleanupShrinks ==
  ASSUME LocalInv, NEW e \in Coroutines, Cleanup(e)
  PROVE  Shrinks /\ CancelShrinks
<1> DEFINE G == Range(armed[e])
<1>0. armed' = [armed EXCEPT ![e] = <<>>] /\ cancelQ' = Without(cancelQ, G)
      /\ armed \in [Coroutines -> Seq(Nodes)] /\ cancelQ \in Seq(Nodes)
  BY DEF Cleanup, LocalInv, Types
<1>1. \A d \in Coroutines : \A n \in Range(armed[d]) : n.co = d BY LiveFacts
<1>2. \A k \in Keys :
        /\ IsInjective(Queue(k)) => IsInjective(Queue(k)')
        /\ \A n : n \in Range(Queue(k)') <=> n \in Range(Queue(k)) /\ n \notin G
  <2> SUFFICES ASSUME NEW k \in Keys
               PROVE  /\ IsInjective(Queue(k)) => IsInjective(Queue(k)')
                      /\ \A n : n \in Range(Queue(k)') <=> n \in Range(Queue(k)) /\ n \notin G
    OBVIOUS
  <2>1. Queue(k) \in Seq(Nodes) BY QueueTyped
  <2>2. Queue(k)' = Without(Queue(k), G) BY CleanupQueues
  <2> HIDE DEF G
  <2> QED BY <2>1, <2>2, WithoutFacts
<1>3. /\ IsInjective(cancelQ) => IsInjective(cancelQ')
      /\ \A n : n \in Range(cancelQ') <=> n \in Range(cancelQ) /\ n \notin G
  <2> HIDE DEF G
  <2> QED BY <1>0, WithoutFacts
<1>4. cancelQ = <<>> => cancelQ' = <<>> BY <1>0, QueueEmpties
<1>5. \A d \in Coroutines : armed[d] # <<>> /\ armed'[d] # armed[d] => d = e BY <1>0
<1>6. \A n \in G : n.co = e /\ armed'[n.co] # armed[n.co]
  <2> TAKE n \in G
  <2>1. n.co = e BY <1>1
  <2>2. armed[e] # <<>> BY DEF Range
  <2>3. armed'[e] = <<>> BY <1>0
  <2> QED BY <2>1, <2>2, <2>3
<1>7. Shrinks BY <1>2, <1>5, <1>6 DEF Shrinks
<1>8. CancelShrinks BY <1>3, <1>4, <1>5, <1>6 DEF CancelShrinks
<1> QED BY <1>7, <1>8

LEMMA StillShrinks ==
  ASSUME LocalInv, waitQ' = waitQ, cancelQ' = cancelQ,
         \A ch \in Channels : chan'[ch].sendQ = chan[ch].sendQ /\ chan'[ch].recvQ = chan[ch].recvQ,
         \A e \in Coroutines : armed[e] # <<>> => armed'[e] = armed[e]
  PROVE  Shrinks /\ CancelShrinks
<1>1. \A k \in Keys : Queue(k)' = Queue(k) BY QueuesStill
<1> QED BY <1>1 DEF Shrinks, CancelShrinks

LEMMA WakeShrinks ==
  ASSUME LocalInv, NEW h \in Nodes, WakeNode(h)
  PROVE  /\ Shrinks /\ CancelShrinks
         /\ CanWake(h) => life'[h.co] = "Runnable"
<1>1. CASE CanWake(h)
  <2>1. Cleanup(h.co) /\ life' = [life EXCEPT ![h.co] = "Runnable"] BY <1>1 DEF WakeNode
  <2>2. h.co \in Coroutines BY DEF Nodes
  <2>3. life'[h.co] = "Runnable" BY <2>1, <2>2 DEF LocalInv, Types
  <2> QED BY <2>1, <2>2, <2>3, CleanupShrinks
<1>2. CASE ~CanWake(h)
  <2>1. UNCHANGED <<armed, chan, waitQ, cancelQ>> BY <1>2 DEF WakeNode, queueVars
  <2> QED BY <1>2, <2>1, StillShrinks
<1> QED BY <1>1, <1>2

LEMMA ShrinkJoin ==
  ASSUME LocalInv, NEW c \in Coroutines, Step(c), Shrinks,
         life'[c] = "Dead" /\ pc'[c] # "wake_join" => life[c] = "Dead" /\ pc[c] # "wake_join"
  PROVE  JoinMove(c)
<1>1. \A s \in Coroutines : \A n \in Range(waitQ'[s]) : n \in Range(waitQ[s])
  <2> TAKE s \in Coroutines
  <2>1. PICK k \in Keys : k = <<"wait", s>> BY QueueNames
  <2>2. Queue(k)' = waitQ'[s] /\ Queue(k) = waitQ[s] BY <2>1, QueueNames
  <2> QED BY <2>2 DEF Shrinks
<1> QED BY <1>1, JoinSameMove DEF Step

-----------------------------------------------------------------------------
(* The handlers that end a wait themselves: the round is released, its     *)
(* result taken or not there.                                              *)
LEMMA OwnCleanup ==
  ASSUME LocalInv, NEW c \in Coroutines, Step(c), Cleanup(c),
         wgen' = wgen, req' = req, winner' = winner, cancelled' = cancelled, wakes'[c] = wakes[c],
         delivered'[c].gen = delivered[c].gen, delivered'[c].res \in {delivered[c].res, NoResult},
         \A e \in Coroutines \ {c} : delivered'[e] = delivered[e],
         pc[c] \in {"park", "cleanup", "join"}, pc'[c] = "idle"
  PROVE  Effect(c)
<1>0. Local(c) /\ Local(c)' /\ armed \in [Coroutines -> Seq(Nodes)] BY DEF LocalInv, Types, Step
<1>1. armed'[c] = <<>> BY <1>0 DEF Cleanup
<1>2. Sticks(c) BY DEF Sticks
<1>3. Ages(c) BY DEF Ages, CanClaim, IsSelect
<1>4. Shrinks /\ CancelShrinks BY CleanupShrinks
<1>5. QueueMove(c, {}) BY <1>1, <1>3, <1>4, ShrinkMove
<1>6. CancelMove(c) BY <1>1, <1>4, CancelShrinkMove DEF Cancelling, InWait
<1>7. life'[c] # "Dead" BY <1>0 DEF Local, LifeFits, Early
<1>8. JoinMove(c) BY <1>4, <1>7, ShrinkJoin
<1>9. OweMove(c)
  <2>1. wakes[c] = <<>> BY <1>0 DEF Local, WakesFits
  <2>2. Owed(c) = {} BY <2>1 DEF Owed, Range
  <2> QED BY <2>2, OweSameMove
<1> QED BY <1>2, <1>3, <1>5, <1>6, <1>8, <1>9 DEF Effect

LEMMA OwnCleanups ==
  ASSUME LocalInv, NEW c \in Coroutines, Step(c),
         ParkUndone(c) \/ SelectDone(c) \/ JoinLate(c)
  PROVE  Effect(c)
<1>0. pc \in [Coroutines -> Places]
      /\ delivered \in [Coroutines -> [gen : 0 .. MaxCalls, res : WaitResults \union {NoResult}]]
  BY DEF LocalInv, Types
<1>1. CASE ParkUndone(c) \/ SelectDone(c)
  <2>1. /\ Cleanup(c) /\ TakeDelivered(c) /\ pc[c] \in {"park", "cleanup"}
        /\ pc' = [pc EXCEPT ![c] = "idle"]
        /\ UNCHANGED <<req, wgen, winner, wakes, cancelled>>
    BY <1>1 DEF ParkUndone, SelectDone, At, Goto, callVars
  <2>2. delivered' = [delivered EXCEPT ![c] = [delivered[c] EXCEPT !.res = NoResult]]
    BY <2>1 DEF TakeDelivered
  <2>3. /\ delivered'[c].gen = delivered[c].gen /\ delivered'[c].res = NoResult
        /\ \A e \in Coroutines \ {c} : delivered'[e] = delivered[e]
    BY <1>0, <2>2
  <2>4. pc'[c] = "idle" BY <1>0, <2>1
  <2> QED BY <2>1, <2>3, <2>4, OwnCleanup
<1>2. CASE JoinLate(c)
  <2>1. /\ Cleanup(c) /\ pc[c] = "join" /\ pc' = [pc EXCEPT ![c] = "idle"]
        /\ UNCHANGED <<req, wgen, delivered, winner, wakes, cancelled>>
    BY <1>2 DEF JoinLate, Return, At, Goto, callVars, claimVars
  <2>2. pc'[c] = "idle" BY <1>0, <2>1
  <2> QED BY <2>1, <2>2, OwnCleanup
<1> QED BY <1>1, <1>2

(* The re-check wakes the coroutine whenever its round is complete.        *)
LEMMA ParkRecheckEffect ==
  ASSUME LocalInv, NEW c \in Coroutines, Step(c), ParkRecheck(c)
  PROVE  Effect(c)
<1>0. Local(c) /\ Local(c)' /\ Types BY DEF LocalInv, Step
<1> DEFINE won == {n \in Range(armed[c]) : NodeCompleted(n)}
<1>1. /\ pc[c] = "recheck" /\ pc' = [pc EXCEPT ![c] = "blocked"]
      /\ \/ won # {} /\ \E n \in won : WakeNode(n)
         \/ won = {} /\ UNCHANGED <<life, readied, armed, chan, waitQ, cancelQ>>
      /\ UNCHANGED <<req, wgen, delivered, winner, phase, wakes, cancelled>>
  BY DEF ParkRecheck, At, Goto, callVars, claimVars, lifeVars, queueVars
<1>2. pc'[c] = "blocked" BY <1>0, <1>1 DEF Types
<1>3. /\ Shrinks /\ CancelShrinks
      /\ armed'[c] = armed[c] \/ armed'[c] = <<>>
      /\ life'[c] = "Runnable" \/ (won = {} /\ life'[c] = life[c])
  <2>1. CASE won = {} BY <1>1, <2>1, StillShrinks
  <2>2. CASE won # {}
    <3>1. PICK n \in won : WakeNode(n) BY <1>1, <2>2
    <3>2. n \in Nodes /\ n.co = c /\ n.gen = wgen[c] /\ armed[c] # <<>> BY <3>1, LiveFacts
    <3>3. life[c] = "Waiting" /\ readied[c] # n.gen
      <4>1. readied[c] \in Nat /\ wgen[c] \in Nat BY <1>0 DEF Types
      <4> QED BY <1>0, <1>1, <3>2, <4>1 DEF Local, ArmedFits
    <3>4. ~(IsSelect(c) /\ phase[c] = "Building")
      BY <1>0, <1>1 DEF Local, OpFits, InWait, IsSelect
    <3>5. CanWake(n) BY <3>1, <3>2, <3>3, <3>4 DEF CanWake
    <3>6. Cleanup(c) /\ life' = [life EXCEPT ![c] = "Runnable"] BY <3>1, <3>2, <3>5 DEF WakeNode
    <3>7. armed'[c] = <<>> /\ life'[c] = "Runnable" BY <1>0, <3>6 DEF Cleanup, Types
    <3> QED BY <3>6, <3>7, CleanupShrinks
  <2> QED BY <2>1, <2>2
<1>4. Sticks(c) BY <1>1 DEF Sticks
<1>5. Ages(c) BY <1>1 DEF Ages, CanClaim, IsSelect
<1>6. QueueMove(c, {}) BY <1>1, <1>2, <1>3, <1>5, ShrinkMove
<1>7. CancelMove(c)
  <2>1. CanClaim(c)' => armed'[c] = armed[c]
    <3>1. CASE won = {} BY <1>1, <3>1
    <3>2. CASE won # {}
      <4>1. PICK n \in won : NodeCompleted(n) BY <3>2
      <4>2. n.co = c BY <4>1, LiveFacts
      <4> QED BY <1>1, <4>1, <4>2 DEF NodeCompleted, Completed, CanClaim
    <3> QED BY <3>1, <3>2
  <2> QED BY <1>1, <1>2, <1>3, <2>1, CancelShrinkMove DEF Cancelling, InWait
<1>8. life[c] # "Dead" /\ life'[c] # "Dead" BY <1>0, <1>1, <1>2 DEF Local, LifeFits
<1>9. JoinMove(c) BY <1>3, <1>8, ShrinkJoin
<1>10. OweMove(c)
  <2>1. wakes[c] = <<>> BY <1>0, <1>1 DEF Local, WakesFits
  <2>2. Owed(c) = {} BY <1>1, <2>1 DEF Owed, Range
  <2>3. ~Asleep(c)'
    <3> SUFFICES ASSUME Completed(c)', life'[c] = "Waiting" PROVE FALSE BY DEF Asleep
    <3>1. won = {} /\ life[c] = "Waiting" /\ Completed(c) BY <1>1, <1>3 DEF Completed
    <3>2. armed[c] # <<>> BY <1>0, <1>1, <3>1 DEF Local, ArmedFits
    <3>3. delivered[c].gen = wgen[c] BY <3>1 DEF Completed
    <3>4. \E n \in Range(armed[c]) : req[c].op = "select" => winner[c] = CaseWinner(n.case)
      <4>1. armed[c] \in Seq(Nodes) BY <1>0 DEF Types
      <4>2. \E n : n \in Range(armed[c]) BY <3>2, <4>1, RangeFacts
      <4> QED BY <1>0, <3>2, <3>3, <4>2 DEF Local, ClaimFits
    <3>5. PICK n \in Range(armed[c]) : req[c].op = "select" => winner[c] = CaseWinner(n.case) BY <3>4
    <3>6. Live(n) /\ n.co = c /\ n.gen = wgen[c] BY LiveFacts
    <3>7. NodeCompleted(n) BY <3>1, <3>5, <3>6 DEF NodeCompleted, IsSelect
    <3> QED BY <3>1, <3>7
  <2> QED BY <1>1, <2>2, <2>3 DEF OweMove
<1> QED BY <1>4, <1>5, <1>6, <1>7, <1>9, <1>10 DEF Effect

(* A handler's wake-up: the node it owed is woken or cannot be.            *)
LEMMA WakeEffect ==
  ASSUME LocalInv, NEW c \in Coroutines, Step(c), Wake(c)
  PROVE  Effect(c)
<1>0. Local(c) /\ Local(c)' /\ Types /\ wakes[c] \in Seq(Nodes) BY DEF LocalInv, Types, Step
<1> DEFINE h == Head(wakes[c])
<1>1. /\ pc[c] = "wake" /\ WakeNode(h) /\ wakes' = [wakes EXCEPT ![c] = Tail(wakes[c])]
      /\ UNCHANGED <<req, wgen, delivered, winner, phase, cancelled>>
  BY DEF Wake, At, callVars, claimVars
<1>2. pc'[c] \in {"wake", "cleanup", "done", "idle"}
  <2> DEFINE g == CASE Len(wakes[c]) > 1 -> "wake"
               [] Len(wakes[c]) = 1 /\ IsSelect(c) -> "cleanup"
               [] Len(wakes[c]) = 1 /\ life[c] = "Dead" -> "done"
               [] OTHER -> "idle"
  <2>1. g \in {"wake", "cleanup", "done", "idle"} BY Zenon
  <2>2. pc' = [pc EXCEPT ![c] = g] BY DEF Wake, Goto
  <2> HIDE DEF g
  <2> QED BY <1>0, <2>1, <2>2 DEF Types
<1>3. wakes[c] # <<>> BY <1>0, <1>1 DEF Local, WakesFits
<1>4. /\ h \in Nodes /\ \A n \in Range(wakes[c]) : n = h \/ n \in Range(Tail(wakes[c]))
  BY <1>0, <1>3, HeadFacts
<1>5. /\ Shrinks /\ CancelShrinks
      /\ CanWake(h) => life'[h.co] = "Runnable"
  BY <1>1, <1>4, WakeShrinks
<1>6. armed'[c] = armed[c]
  <2>1. ~(CanWake(h) /\ h.co = c) BY <1>0, <1>1 DEF CanWake, Local, LifeFits
  <2>2. CASE CanWake(h)
    <3>1. Cleanup(h.co) BY <1>1, <2>2 DEF WakeNode
    <3> QED BY <1>0, <2>1, <2>2, <3>1 DEF Cleanup, Types
  <2>3. CASE ~CanWake(h) BY <1>1, <2>3 DEF WakeNode, queueVars
  <2> QED BY <2>2, <2>3
<1>7. Sticks(c) BY <1>1 DEF Sticks
<1>8. Ages(c) BY <1>1 DEF Ages, CanClaim, IsSelect
<1>9. QueueMove(c, {}) BY <1>1, <1>2, <1>5, <1>6, <1>8, ShrinkMove
<1>10. CancelMove(c) BY <1>1, <1>2, <1>5, CancelShrinkMove DEF Cancelling, InWait
<1>11. life'[c] = life[c]
  <2>1. ~(CanWake(h) /\ h.co = c) BY <1>0, <1>1 DEF CanWake, Local, LifeFits
  <2>2. CASE CanWake(h) BY <1>0, <1>1, <2>1, <2>2 DEF WakeNode, Types
  <2>3. CASE ~CanWake(h) BY <1>1, <2>3 DEF WakeNode, lifeVars
  <2> QED BY <2>2, <2>3
<1>12. JoinMove(c) BY <1>1, <1>5, <1>11, ShrinkJoin
<1>13. OweMove(c)
  <2>1. Owed(c) = Range(wakes[c]) BY <1>1 DEF Owed
  <2>2. wakes'[c] = Tail(wakes[c]) BY <1>0, <1>1 DEF Types
  <2>3. Owed(c)' = Range(Tail(wakes[c])) BY <1>2, <2>2 DEF Owed
  <2>4. ~Asleep(c)' BY <1>2 DEF Asleep
  <2> QED BY <1>1, <1>4, <1>5, <2>1, <2>3, <2>4 DEF OweMove
<1> QED BY <1>7, <1>8, <1>9, <1>10, <1>12, <1>13 DEF Effect

(* The cancelling handler moves on to its next node.                       *)
LEMMA CancelNextMove ==
  ASSUME LocalInv, NEW c \in Coroutines, CancelNext(c), Cancelling(c), CancelShrinks,
         cancelled' = cancelled, armed[c] = <<>>,
         pc[c] = "cancel" => ~NodePending(Head(wakes[c]))
  PROVE  /\ CancelMove(c) /\ pc'[c] \in {"idle", "cancel"}
<1>0. Types /\ Local(c) /\ wakes[c] \in Seq(Nodes) BY DEF LocalInv, Types
<1> DEFINE h == Head(wakes[c])
<1>1. wakes[c] # <<>> BY <1>0 DEF Cancelling, Local, WakesFits
<1>2. /\ (pc'[c] = "idle" /\ wakes'[c] = <<>>) \/ (pc'[c] = "cancel" /\ wakes'[c] # <<>>)
  BY <1>0, <1>1, CancelNextFacts
<1>3. wakes'[c] = Tail(wakes[c]) BY <1>0 DEF CancelNext, Types
<1>4. \A n \in Range(wakes[c]) : n = h \/ n \in Range(Tail(wakes[c]))
  BY <1>0, <1>1, HeadFacts
<1>5. ASSUME pc[c] = "cancel_wake" => Claimed(h), NEW n \in Range(wakes[c]), NodePending(n)
      PROVE  Cancelling(c)' /\ n \in Range(wakes'[c])
  <2>1. n # h
    <3>1. CASE pc[c] = "cancel" BY <1>5, <3>1
    <3>2. CASE pc[c] = "cancel_wake"
      <4>1. Claimed(h) BY <1>5, <3>2
      <4>2. n \in Nodes BY <1>0, <1>5, RangeFacts
      <4>3. n.co \in Coroutines BY <4>2 DEF Nodes
      <4>4. n.gen = wgen[n.co] /\ delivered[n.co].gen # wgen[n.co] /\ wgen[n.co] \in Nat
        BY <1>0, <1>5, <4>3 DEF NodePending, CanClaim, Types
      <4> QED BY <4>1, <4>4 DEF Claimed
    <3> QED BY <3>1, <3>2 DEF Cancelling
  <2>2. n \in Range(wakes'[c]) BY <1>3, <1>4, <1>5, <2>1
  <2>3. wakes'[c] # <<>> BY <2>2 DEF Range
  <2> QED BY <1>2, <2>2, <2>3 DEF Cancelling
<1>6. cancelled' <=> cancelled OBVIOUS
<1>7. pc[c] \notin InWait /\ pc'[c] \notin InWait /\ pc'[c] # "cancel_wake"
  BY <1>2 DEF Cancelling, InWait
<1> QED BY <1>2, <1>5, <1>6, <1>7 DEF CancelMove, CancelShrinks

LEMMA CancelNextEffects ==
  ASSUME LocalInv, NEW c \in Coroutines, Step(c), CancelSkip(c) \/ CancelWake(c)
  PROVE  Effect(c)
<1>0. Local(c) /\ Local(c)' /\ Types /\ wakes[c] \in Seq(Nodes) BY DEF LocalInv, Types, Step
<1> DEFINE h == Head(wakes[c])
<1>1. /\ Cancelling(c) /\ CancelNext(c)
      /\ UNCHANGED <<req, wgen, delivered, winner, cancelled>>
      /\ pc[c] = "cancel" => ~NodePending(h)
  BY DEF CancelSkip, CancelWake, At, planeVars, roundVars, claimVars, callVars, cancelVars, Cancelling
<1>2. wakes[c] # <<>> BY <1>0, <1>1 DEF Cancelling, Local, WakesFits
<1>3. h \in Nodes BY <1>0, <1>2, HeadFacts
<1>4. armed[c] = <<>> BY <1>0, <1>1 DEF Cancelling, Local, ArmedFits
<1>5. /\ Shrinks /\ CancelShrinks /\ armed'[c] = <<>>
      /\ pc[c] = "cancel_wake" /\ CanWake(h) => life'[h.co] = "Runnable"
  <2>1. CASE CancelSkip(c)
    <3>1. UNCHANGED <<armed, chan, waitQ, cancelQ>> /\ pc[c] = "cancel"
      BY <2>1 DEF CancelSkip, At, planeVars, roundVars, cancelVars
    <3> QED BY <1>4, <3>1, StillShrinks
  <2>2. CASE CancelWake(c)
    <3>1. WakeNode(h) BY <2>2 DEF CancelWake
    <3>2. armed'[c] = <<>>
      <4>1. CASE CanWake(h)
        <5>1. Cleanup(h.co) BY <3>1, <4>1 DEF WakeNode
        <5> QED BY <1>0, <1>4, <5>1 DEF Cleanup, Types
      <4>2. CASE ~CanWake(h) BY <1>4, <3>1, <4>2 DEF WakeNode, queueVars
      <4> QED BY <4>1, <4>2
    <3> QED BY <1>3, <3>1, <3>2, WakeShrinks
  <2> QED BY <2>1, <2>2
<1>6. Sticks(c) BY <1>1 DEF Sticks
<1>7. Ages(c) BY <1>1 DEF Ages, CanClaim, IsSelect
<1>8. QueueMove(c, {}) BY <1>4, <1>5, <1>7, ShrinkMove
<1>9. CancelMove(c) /\ pc'[c] \in {"idle", "cancel"} BY <1>1, <1>4, <1>5, CancelNextMove
<1>10. life'[c] # "Dead" BY <1>0, <1>9 DEF Local, LifeFits, Early
<1>11. JoinMove(c) BY <1>5, <1>10, ShrinkJoin
<1>12. OweMove(c)
  <2>1. ASSUME NEW n \in Owed(c), CanWake(n) PROVE life'[n.co] # "Waiting"
    <3>1. pc[c] = "cancel_wake" /\ n = h BY <1>1, <2>1 DEF Owed, Cancelling
    <3> QED BY <1>5, <2>1, <3>1
  <2>2. ~Asleep(c)' BY <1>9 DEF Asleep
  <2> QED BY <1>1, <2>1, <2>2 DEF OweMove
<1> QED BY <1>6, <1>7, <1>8, <1>9, <1>11, <1>12 DEF Effect

-----------------------------------------------------------------------------
(* One node enters one queue.                                              *)
Enters(k0, x) ==
  /\ Queue(k0)' = Append(Queue(k0), x)
  /\ \A k \in Keys \ {k0} : Queue(k)' = Queue(k)

LEMMA SendQueueEnters ==
  ASSUME LocalInv, NEW ch \in Channels, NEW x, waitQ' = waitQ,
         chan' = [chan EXCEPT ![ch].sendQ = Append(@, x)]
  PROVE  <<"send", ch>> \in Keys /\ Enters(<<"send", ch>>, x)
<1>0. DOMAIN chan = Channels /\ \A y \in Channels : chan[y] \in ChannelType(Capacity[y])
  BY DEF LocalInv, ChanTypes, RingOK
<1>1. PICK s : s = Append(chan[ch].sendQ, x) OBVIOUS
<1>2. PICK q : q = [chan[ch] EXCEPT !.sendQ = s] OBVIOUS
<1>3. chan' = [chan EXCEPT ![ch] = q] BY <1>1, <1>2
<1>4. q.sendQ = s /\ q.recvQ = chan[ch].recvQ BY <1>0, <1>2 DEF ChannelType
<1>5. /\ chan'[ch].sendQ = s /\ chan'[ch].recvQ = chan[ch].recvQ
      /\ \A y \in Channels \ {ch} : chan'[y] = chan[y]
  BY <1>0, <1>3, <1>4
<1>6. Queue(<<"send", ch>>)' = Append(Queue(<<"send", ch>>), x) BY <1>1, <1>5, QueueNames
<1>7. ASSUME NEW k \in Keys \ {<<"send", ch>>} PROVE Queue(k)' = Queue(k)
  <2>1. CASE \E y \in Channels : k = <<"send", y>> BY <1>5, <1>7, <2>1, QueueNames
  <2>2. CASE \E y \in Channels : k = <<"recv", y>>
    <3>1. PICK y \in Channels : k = <<"recv", y>> BY <2>2
    <3>2. chan'[y].recvQ = chan[y].recvQ BY <1>5
    <3> QED BY <3>1, <3>2, QueueNames
  <2>3. CASE \E y \in Coroutines \union {Never} : k = <<"wait", y>> BY <2>3, QueueNames
  <2> QED BY <2>1, <2>2, <2>3, KeySplit
<1> QED BY <1>6, <1>7, QueueNames DEF Enters

LEMMA RecvQueueEnters ==
  ASSUME LocalInv, NEW ch \in Channels, NEW x, waitQ' = waitQ,
         chan' = [chan EXCEPT ![ch].recvQ = Append(@, x)]
  PROVE  <<"recv", ch>> \in Keys /\ Enters(<<"recv", ch>>, x)
<1>0. DOMAIN chan = Channels /\ \A y \in Channels : chan[y] \in ChannelType(Capacity[y])
  BY DEF LocalInv, ChanTypes, RingOK
<1>1. PICK s : s = Append(chan[ch].recvQ, x) OBVIOUS
<1>2. PICK q : q = [chan[ch] EXCEPT !.recvQ = s] OBVIOUS
<1>3. chan' = [chan EXCEPT ![ch] = q] BY <1>1, <1>2
<1>4. q.recvQ = s /\ q.sendQ = chan[ch].sendQ BY <1>0, <1>2 DEF ChannelType
<1>5. /\ chan'[ch].recvQ = s /\ chan'[ch].sendQ = chan[ch].sendQ
      /\ \A y \in Channels \ {ch} : chan'[y] = chan[y]
  BY <1>0, <1>3, <1>4
<1>6. Queue(<<"recv", ch>>)' = Append(Queue(<<"recv", ch>>), x) BY <1>1, <1>5, QueueNames
<1>7. ASSUME NEW k \in Keys \ {<<"recv", ch>>} PROVE Queue(k)' = Queue(k)
  <2>1. CASE \E y \in Channels : k = <<"recv", y>> BY <1>5, <1>7, <2>1, QueueNames
  <2>2. CASE \E y \in Channels : k = <<"send", y>>
    <3>1. PICK y \in Channels : k = <<"send", y>> BY <2>2
    <3>2. chan'[y].sendQ = chan[y].sendQ BY <1>5
    <3> QED BY <3>1, <3>2, QueueNames
  <2>3. CASE \E y \in Coroutines \union {Never} : k = <<"wait", y>> BY <2>3, QueueNames
  <2> QED BY <2>1, <2>2, <2>3, KeySplit
<1> QED BY <1>6, <1>7, QueueNames DEF Enters

LEMMA WaitQueueEnters ==
  ASSUME LocalInv, NEW s \in Coroutines \union {Never}, NEW x, chan' = chan,
         waitQ' = [waitQ EXCEPT ![s] = Append(@, x)]
  PROVE  <<"wait", s>> \in Keys /\ Enters(<<"wait", s>>, x)
<1>0. DOMAIN waitQ = Coroutines \union {Never} BY DEF LocalInv, Types
<1>1. waitQ'[s] = Append(waitQ[s], x) /\ \A y \in Coroutines \union {Never} : y # s => waitQ'[y] = waitQ[y]
  BY <1>0
<1>2. Queue(<<"wait", s>>)' = Append(Queue(<<"wait", s>>), x) BY <1>1, QueueNames
<1>3. ASSUME NEW k \in Keys \ {<<"wait", s>>} PROVE Queue(k)' = Queue(k)
  <2>1. CASE \E y \in Channels : k = <<"send", y>> BY <2>1, QueueNames
  <2>2. CASE \E y \in Channels : k = <<"recv", y>> BY <2>2, QueueNames
  <2>3. CASE \E y \in Coroutines \union {Never} : k = <<"wait", y>>
    <3>1. PICK y \in Coroutines \union {Never} : k = <<"wait", y>> BY <2>3
    <3>2. waitQ'[y] = waitQ[y] BY <1>1, <1>3, <3>1
    <3> QED BY <3>1, <3>2, QueueNames
  <2> QED BY <2>1, <2>2, <2>3, KeySplit
<1> QED BY <1>2, <1>3, QueueNames DEF Enters

LEMMA EnterMove ==
  ASSUME LocalInv, NEW c \in Coroutines, NEW x \in Nodes, x.co = c,
         armed'[c] = <<x>>, \A e \in Coroutines \ {c} : armed'[e] = armed[e],
         armed[c] = <<>> \/ armed'[c] = armed[c],
         ~Queued(x), Queued(x)',
         NEW k0 \in Keys, KeyOf(x)' = k0, Enters(k0, x)
  PROVE  QueueMove(c, {x})
<1>1. \A n : n \in Range(armed'[c]) => n = x BY DEF Range
<1>2. ASSUME NEW k \in Keys
      PROVE  /\ IsInjective(Queue(k)) /\ x \notin Range(Queue(k)) => IsInjective(Queue(k)')
             /\ \A n \in Range(Queue(k)') : n \in Range(Queue(k)) \/ (n = x /\ KeyOf(n)' = k)
             /\ \A n \in Range(Queue(k)) : n \in Range(Queue(k)')
             /\ KeyOf(x)' = k => x \in Range(Queue(k)')
  <2>1. Queue(k) \in Seq(Nodes) BY QueueTyped
  <2>2. CASE k = k0
    <3>1. Queue(k)' = Append(Queue(k), x) BY <2>2 DEF Enters
    <3>2. /\ \A n : n \in Range(Append(Queue(k), x)) <=> n \in Range(Queue(k)) \/ n = x
          /\ IsInjective(Queue(k)) /\ x \notin Range(Queue(k)) => IsInjective(Append(Queue(k), x))
      BY <2>1, AppendFacts
    <3> QED BY <2>2, <3>1, <3>2
  <2>3. CASE k # k0
    <3>1. Queue(k)' = Queue(k) BY <2>3 DEF Enters
    <3> QED BY <2>3, <3>1
  <2> QED BY <2>2, <2>3
<1>3. \A e \in Coroutines : armed[e] # <<>> => armed'[e] = armed[e] OBVIOUS
<1>4. \A n \in Range(armed[c]) : armed'[c] = armed[c] => n = x BY <1>1
<1> QED BY <1>1, <1>2, <1>3, <1>4 DEF QueueMove

(* A round starts and nothing is queued yet.                               *)
LEMMA FreshMove ==
  ASSUME LocalInv, NEW c \in Coroutines, armed[c] = <<>>,
         \A e \in Coroutines \ {c} : armed'[e] = armed[e],
         chan' = chan, waitQ' = waitQ, \A n \in Range(armed'[c]) : ~Queued(n)'
  PROVE  QueueMove(c, {})
<1>1. \A k \in Keys : Queue(k)' = Queue(k) BY QueuesStill
<1>2. Range(armed[c]) = {} BY DEF Range
<1>3. \A e \in Coroutines : armed[e] # <<>> => armed'[e] = armed[e] OBVIOUS
<1> QED BY <1>1, <1>2, <1>3 DEF QueueMove

LEMMA StartEffect ==
  ASSUME LocalInv, NEW c \in Coroutines, Step(c),
         NEW A \in SUBSET Nodes, QueueMove(c, A), Ages(c),
         wgen'[c] # wgen[c] \/ delivered'[c] = delivered[c],
         \A e \in Coroutines \ {c} : delivered'[e] = delivered[e] /\ armed'[e] = armed[e],
         armed[c] = <<>> \/ armed'[c] = armed[c],
         cancelQ' = cancelQ, cancelled' = cancelled, wakes'[c] = wakes[c],
         pc[c] \in {"call", "checked", "try", "retry", "register", "join"},
         pc'[c] \in {"park", "register_cancel", "join", "arm", "try", "register", "idle"},
         pc'[c] = "park" => req'[c].op \notin CancelOps,
         \A s \in Coroutines : waitQ'[s] = waitQ[s] \/ life'[s] # "Dead"
  PROVE  Effect(c)
<1>1. Sticks(c) BY DEF Sticks
<1>2. CancelShrinks BY DEF CancelShrinks
<1>3. CancelMove(c) BY <1>2, CancelShrinkMove DEF Cancelling, InWait
<1>4. life'[c] # "Dead" BY DEF Step, Local, LifeFits, Early, Trying
<1>5. JoinMove(c)
  <2> SUFFICES ASSUME NEW s \in Coroutines, life'[s] = "Dead", pc'[s] # "wake_join"
               PROVE  life[s] = "Dead" /\ pc[s] # "wake_join"
                      /\ \A n \in Range(waitQ'[s]) : n \in Range(waitQ[s])
    BY DEF JoinMove
  <2>1. s # c /\ waitQ'[s] = waitQ[s] BY <1>4
  <2>2. Bystander(s) BY <2>1 DEF Step
  <2> QED BY <2>1, <2>2, BystanderFacts
<1>6. OweMove(c)
  <2>1. wakes[c] = <<>> BY DEF LocalInv, Local, WakesFits
  <2>2. Owed(c) = {} BY <2>1 DEF Owed, Range
  <2> QED BY <2>2, OweSameMove
<1> QED BY <1>1, <1>3, <1>5, <1>6 DEF Effect

(* begin_wait of a coroutine that had no round.                            *)
LEMMA BeginFacts ==
  ASSUME LocalInv, NEW c \in Coroutines, pc[c] \in {"call", "checked"}, BeginWait(c)
  PROVE  /\ armed[c] = <<>> /\ Ages(c) /\ wgen'[c] = wgen[c] + 1 /\ wgen'[c] # wgen[c]
         /\ \A e \in Coroutines \ {c} : delivered'[e] = delivered[e]
         /\ \A i \in Nat : NewNode(c, i) \in Nodes /\ NewNode(c, i).co = c /\ NewNode(c, i).case = i
         /\ \A i \in Nat : ~Queued(NewNode(c, i))
<1>0. Types /\ Local(c) /\ wgen \in [Coroutines -> 0 .. MaxCalls] /\ wgen[c] \in Nat
  <2>1. wgen \in [Coroutines -> 0 .. MaxCalls] BY DEF LocalInv, Types
  <2> QED BY <2>1, WaitAssumption DEF LocalInv
<1>1. armed[c] = <<>> BY <1>0 DEF Local, ArmedFits, Early
<1>2. wgen'[c] = wgen[c] + 1 BY <1>0 DEF BeginWait, Types
<1>3. \A e \in Coroutines \ {c} : delivered'[e] = delivered[e]
  BY <1>0 DEF BeginWait, Types
<1>4. \A i \in Nat : NewNode(c, i) \in Nodes /\ NewNode(c, i).co = c BY <1>0, NewNodeType
<1>5. \A i \in Nat : NewNode(c, i).co = c /\ NewNode(c, i).case = i BY DEF NewNode
<1>6. \A i \in Nat : ~Queued(NewNode(c, i)) BY <1>1, <1>5 DEF Queued, Live, Range
<1> QED BY <1>0, <1>1, <1>2, <1>3, <1>4, <1>5, <1>6 DEF Ages

(* park_send and park_recv.                                                *)
LEMMA ParkOnEffect ==
  ASSUME LocalInv, NEW c \in Coroutines, Step(c), ParkSend(c) \/ ParkRecv(c)
  PROVE  Effect(c)
<1>0. Types /\ Local(c) /\ pc \in [Coroutines -> Places] BY DEF LocalInv, Types
<1> PICK x : x = NewNode(c, 1) OBVIOUS
<1>1. /\ pc[c] \in {"call", "checked"} /\ BeginWait(c) /\ armed' = [armed EXCEPT ![c] = <<x>>]
      /\ UNCHANGED <<req, scan, wakes, waitQ, cancelled, cancelQ>>
  BY DEF ParkSend, ParkRecv, Receiving, Serving, At, ParkOn, callVars, cancelVars
<1>2. /\ pc'[c] \in {"park", "register_cancel"}
      /\ pc'[c] = "park" => req'[c].op \notin CancelOps
  <2>1. CASE ParkSend(c)
    <3>1. req[c].op \in {"send", "send_large"} /\ pc' = [pc EXCEPT ![c] = "park"]
      BY <2>1 DEF ParkSend, Serving, Goto
    <3> QED BY <1>0, <1>1, <3>1 DEF CancelOps
  <2>2. CASE ParkRecv(c)
    <3>1. req[c].op \in {"recv", "recv_cancel"}
      BY <2>2 DEF ParkRecv, Receiving, Serving, RecvRequests
    <3>2. CASE req[c].op = "recv_cancel"
      <4>1. pc' = [pc EXCEPT ![c] = "register_cancel"] BY <2>2, <3>2 DEF ParkRecv, Goto
      <4> QED BY <1>0, <4>1
    <3>3. CASE req[c].op # "recv_cancel"
      <4>1. pc' = [pc EXCEPT ![c] = "park"] BY <2>2, <3>3 DEF ParkRecv, Goto
      <4> QED BY <1>0, <1>1, <3>1, <3>3, <4>1 DEF CancelOps
    <3> QED BY <3>2, <3>3
  <2> QED BY <2>1, <2>2
<1>3. /\ armed[c] = <<>> /\ Ages(c) /\ wgen'[c] # wgen[c]
      /\ \A e \in Coroutines \ {c} : delivered'[e] = delivered[e]
      /\ x \in Nodes /\ x.co = c /\ x.case = 1 /\ ~Queued(x)
  BY <1>1, BeginFacts
<1>4. PICK k0 \in Keys : KeyOf(x)' = k0 /\ Enters(k0, x)
  <2>1. req[c] \in Requests BY <1>0, <1>1 DEF Local, OpFits
  <2>2. CASE ParkSend(c)
    <3>1. req[c].op \in SendOps /\ chan' = [chan EXCEPT ![Ch(c)].sendQ = Append(@, x)]
      BY <2>2 DEF ParkSend, Serving, SendOps
    <3>2. Ch(c) \in Channels /\ req[c].cases # <<>> /\ req[c].cases[1].dir = "send"
      BY <2>1, <3>1, RequestFacts DEF Ch
    <3>3. KeyOf(x)' = <<"send", Ch(c)>> BY <1>1, <1>3, <3>2 DEF KeyOf, Ch
    <3> QED BY <1>1, <3>1, <3>2, <3>3, SendQueueEnters
  <2>3. CASE ParkRecv(c)
    <3>1. req[c].op \in RecvOps /\ chan' = [chan EXCEPT ![Ch(c)].recvQ = Append(@, x)]
      BY <2>3 DEF ParkRecv, Receiving, Serving, RecvRequests, RecvOps
    <3>2. Ch(c) \in Channels /\ req[c].cases # <<>> /\ req[c].cases[1].dir = "recv"
      BY <2>1, <3>1, RequestFacts DEF Ch
    <3>3. KeyOf(x)' = <<"recv", Ch(c)>> BY <1>1, <1>3, <3>2 DEF KeyOf, Ch
    <3> QED BY <1>1, <3>1, <3>2, <3>3, RecvQueueEnters
  <2> QED BY <2>2, <2>3
<1>5. armed'[c] = <<x>> /\ \A e \in Coroutines \ {c} : armed'[e] = armed[e]
  BY <1>0, <1>1 DEF Types
<1>6. Queued(x)'
  <2>1. x \in Range(armed'[c]) BY <1>5 DEF Range
  <2> QED BY <1>2, <1>3, <2>1 DEF Queued, Live
<1>7. QueueMove(c, {x}) BY <1>3, <1>4, <1>5, <1>6, EnterMove
<1> QED BY <1>1, <1>2, <1>3, <1>5, <1>7, StartEffect

LEMMA JoinStartEffect ==
  ASSUME LocalInv, NEW c \in Coroutines, Step(c), JoinStart(c)
  PROVE  Effect(c)
<1>0. Types /\ pc \in [Coroutines -> Places] BY DEF LocalInv, Types
<1>1. /\ pc[c] \in {"call", "checked"}
      /\ UNCHANGED <<req, scan, wakes, chan, waitQ, cancelled, cancelQ>>
  BY DEF JoinStart, Serving, At, joinRest, callVars
<1>2. CASE life[Child(c)] = "Dead"
  <2>1. UNCHANGED <<wgen, armed, delivered>> /\ pc' = [pc EXCEPT ![c] = "idle"]
    BY <1>2 DEF JoinStart, Return, Goto
  <2> QED BY <1>0, <1>1, <2>1, ReturnEffect DEF Early
<1>3. CASE life[Child(c)] # "Dead"
  <2> DEFINE x == NewNode(c, 1)
  <2>1. BeginWait(c) /\ armed' = [armed EXCEPT ![c] = <<x>>] /\ pc' = [pc EXCEPT ![c] = "join"]
    BY <1>3 DEF JoinStart, Goto
  <2>2. /\ armed[c] = <<>> /\ Ages(c) /\ wgen'[c] # wgen[c]
        /\ \A e \in Coroutines \ {c} : delivered'[e] = delivered[e]
        /\ x.co = c
    BY <1>1, <2>1, BeginFacts
  <2>3. armed'[c] = <<x>> /\ pc'[c] = "join" /\ \A e \in Coroutines \ {c} : armed'[e] = armed[e]
    BY <1>0, <2>1 DEF Types
  <2> HIDE DEF x
  <2>4. \A n \in Range(armed'[c]) : ~Queued(n)'
    <3>1. \A n \in Range(armed'[c]) : n.co = c BY <2>2, <2>3 DEF Range
    <3> QED BY <2>3, <3>1 DEF Queued
  <2>5. QueueMove(c, {}) BY <1>1, <2>2, <2>3, <2>4, FreshMove
  <2> QED BY <1>1, <2>2, <2>3, <2>5, StartEffect
<1> QED BY <1>2, <1>3

(* The joiner queues its node on the second look.                          *)
LEMMA JoinParkEffect ==
  ASSUME LocalInv, NEW c \in Coroutines, Step(c), JoinPark(c)
  PROVE  Effect(c)
<1>0. Types /\ Local(c) /\ pc \in [Coroutines -> Places] BY DEF LocalInv, Types
<1> PICK x : x = Node(c, 1) OBVIOUS
<1> PICK s : s = Child(c) OBVIOUS
<1>1. /\ pc[c] = "join" /\ life[s] # "Dead"
      /\ life' = [life EXCEPT ![c] = "Parking"]
      /\ waitQ' = [waitQ EXCEPT ![s] = Append(@, x)]
      /\ UNCHANGED <<req, wgen, armed, delivered, winner, scan, wakes, chan, cancelled, cancelQ>>
  BY DEF JoinPark, At, joinRest, callVars, roundVars
<1>2. req[c] \in Requests /\ req[c].op \in JoinOps /\ armed[c] # <<>>
  BY <1>0, <1>1 DEF Local, OpFits, ArmedFits, JoinOps
<1>3. /\ pc'[c] \in {"park", "register_cancel"}
      /\ pc'[c] = "park" => req'[c].op \notin CancelOps
  <2>1. CASE req[c].op = "join_cancel"
    <3>1. pc' = [pc EXCEPT ![c] = "register_cancel"] BY <2>1 DEF JoinPark, Goto
    <3> QED BY <1>0, <3>1
  <2>2. CASE req[c].op # "join_cancel"
    <3>1. pc' = [pc EXCEPT ![c] = "park"] BY <2>2 DEF JoinPark, Goto
    <3> QED BY <1>0, <1>1, <1>2, <2>2, <3>1 DEF CancelOps, JoinOps
  <2> QED BY <2>1, <2>2
<1>4. /\ DOMAIN req[c].cases = {1} /\ req[c].cases # <<>> /\ req[c].cases[1].dir = "wait"
      /\ s \in Coroutines
  BY <1>2, RequestFacts DEF JoinOps, Child
<1>5. armed[c] = <<x>>
  <2>1. armed[c] = RoundOf(c, req[c].cases, wgen[c]) BY <1>0, <1>2 DEF Local, ArmedFits
  <2> QED BY <1>4, <2>1, OneRound DEF Node
<1>6. x.co = c /\ x.case = 1 BY DEF Node
<1>7. KeyOf(x)' = <<"wait", s>> BY <1>1, <1>4, <1>6 DEF KeyOf, Child
<1>8. x \in Range(armed[c]) /\ x \in Nodes
  <2>1. x \in Range(armed[c]) BY <1>5 DEF Range
  <2> QED BY <2>1, LiveFacts
<1>9. PICK k0 \in Keys : KeyOf(x)' = k0 /\ Enters(k0, x)
  BY <1>1, <1>4, <1>7, WaitQueueEnters
<1>10. ~Queued(x) /\ Queued(x)'
  <2>1. ~Queued(x) BY <1>1, <1>6 DEF Queued
  <2>2. Queued(x)' BY <1>1, <1>3, <1>6, <1>8 DEF Queued, Live
  <2> QED BY <2>1, <2>2
<1>11. QueueMove(c, {x}) BY <1>1, <1>5, <1>6, <1>8, <1>9, <1>10, EnterMove
<1>12. Ages(c) BY <1>1 DEF Ages, CanClaim, IsSelect
<1>13. \A t \in Coroutines : waitQ'[t] = waitQ[t] \/ life'[t] # "Dead"
  <2> TAKE t \in Coroutines
  <2>1. CASE t = s BY <1>0, <1>1, <1>4, <2>1 DEF Types
  <2>2. CASE t # s BY <1>0, <1>1, <1>4, <2>2 DEF Types
  <2> QED BY <2>1, <2>2
<1> QED BY <1>1, <1>3, <1>8, <1>11, <1>12, <1>13, StartEffect

LEMMA SelectBeginEffect ==
  ASSUME LocalInv, NEW c \in Coroutines, Step(c), SelectBegin(c)
  PROVE  Effect(c)
<1>0. Types /\ Local(c) /\ pc \in [Coroutines -> Places] BY DEF LocalInv, Types
<1> PICK x : x = NewNode(c, 0) OBVIOUS
<1>1. /\ pc[c] = "call" /\ BeginWait(c)
      /\ UNCHANGED <<req, scan, wakes, chan, cancelled, cancelQ>>
  BY DEF SelectBegin, Serving, At, callVars, cancelVars
<1>2. /\ armed[c] = <<>> /\ Ages(c) /\ wgen'[c] # wgen[c]
      /\ \A e \in Coroutines \ {c} : delivered'[e] = delivered[e]
      /\ x \in Nodes /\ x.co = c /\ x.case = 0 /\ ~Queued(x)
  BY <1>1, BeginFacts
<1>3. CASE req[c].cases = <<>> /\ ~req[c].default
  <2>1. /\ armed' = [armed EXCEPT ![c] = <<x>>]
        /\ waitQ' = [waitQ EXCEPT ![Never] = Append(@, x)]
        /\ pc' = [pc EXCEPT ![c] = "arm"]
    BY <1>3 DEF SelectBegin, Goto
  <2>2. armed'[c] = <<x>> /\ pc'[c] = "arm" /\ \A e \in Coroutines \ {c} : armed'[e] = armed[e]
    BY <1>0, <2>1 DEF Types
  <2>3. KeyOf(x)' = <<"wait", Never>> BY <1>1, <1>2, <1>3 DEF KeyOf
  <2>4. PICK k0 \in Keys : KeyOf(x)' = k0 /\ Enters(k0, x)
    BY <1>1, <2>1, <2>3, WaitQueueEnters
  <2>5. Queued(x)'
    <3>1. x \in Range(armed'[c]) BY <2>2 DEF Range
    <3> QED BY <1>2, <2>2, <3>1 DEF Queued, Live
  <2>6. QueueMove(c, {x}) BY <1>2, <2>2, <2>4, <2>5, EnterMove
  <2>7. \A s \in Coroutines : waitQ'[s] = waitQ[s]
    BY <1>0, <2>1, WaitAssumption DEF Types
  <2> QED BY <1>1, <1>2, <2>2, <2>6, <2>7, StartEffect
<1>4. CASE ~(req[c].cases = <<>> /\ ~req[c].default)
  <2>1. armed' = armed /\ waitQ' = waitQ /\ pc' = [pc EXCEPT ![c] = "try"]
    BY <1>4 DEF SelectBegin, Goto
  <2>2. pc'[c] = "try" BY <1>0, <2>1
  <2>3. \A n \in Range(armed'[c]) : ~Queued(n)' BY <1>2, <2>1 DEF Range
  <2>4. QueueMove(c, {}) BY <1>1, <1>2, <2>1, <2>3, FreshMove
  <2> QED BY <1>1, <1>2, <2>1, <2>2, <2>4, StartEffect
<1> QED BY <1>3, <1>4

(* Nothing was ready: the default is taken, or the Building nodes are made *)
(* with every source still to register.                                    *)
LEMMA NothingCommittedEffect ==
  ASSUME LocalInv, NEW c \in Coroutines, Step(c), pc[c] \in {"try", "retry"},
         NothingCommitted(c)
  PROVE  Effect(c)
<1>0. Types /\ Local(c) /\ pc \in [Coroutines -> Places] /\ Types'
  BY DEF LocalInv, Types, Step
<1>1. /\ UNCHANGED <<req, wgen, delivered, wakes, chan, waitQ, cancelled, cancelQ>>
      /\ armed[c] = <<>>
  BY <1>0 DEF NothingCommitted, TakeDefault, AllocateWaiters, callVars, claimVars, cancelVars,
     Local, ArmedFits, Trying
<1>2. CASE req[c].default
  <2>1. armed' = armed /\ pc' = [pc EXCEPT ![c] = "idle"]
    BY <1>2 DEF NothingCommitted, TakeDefault, Return, Goto
  <2> QED BY <1>0, <1>1, <2>1, ReturnEffect DEF Early, Trying
<1>3. CASE ~req[c].default
  <2> DEFINE a == [i \in Cases(c) |-> Node(c, i)]
             D == {Case(c, i).src : i \in Cases(c)}
  <2>0. req[c].cases # <<>> BY <1>0, <1>3 DEF Local, OpFits, Trying
  <2>1. armed' = [armed EXCEPT ![c] = a] /\ scan' = [scan EXCEPT ![c] = [todo |-> D, ready |-> {}]]
        /\ pc' = [pc EXCEPT ![c] = "register"]
    BY <1>3 DEF NothingCommitted, AllocateWaiters, Goto
  <2>2. armed'[c] = a /\ pc'[c] = "register" /\ \A e \in Coroutines \ {c} : armed'[e] = armed[e]
    BY <1>0, <2>1 DEF Types
  <2>3. scan'[c].todo = D
    <3> HIDE DEF D
    <3> QED BY <1>0, <2>1 DEF Types
  <2>4. \A n \in Range(a) : n.co = c /\ n.case \in Cases(c) BY DEF Range, Node
  <2>5. \A n \in Range(armed'[c]) : ~Queued(n)'
    <3> SUFFICES ASSUME NEW n \in Range(armed'[c]) PROVE ~Queued(n)' OBVIOUS
    <3>1. n.co = c /\ n.case \in Cases(c) BY <2>2, <2>4
    <3>2. Case(c, n.case).src \in D BY <3>1
    <3>3. NodeSource(n)' = Case(c, n.case).src BY <1>1, <2>0, <3>1 DEF NodeSource, Case
    <3> HIDE DEF D
    <3> QED BY <2>2, <2>3, <3>1, <3>2, <3>3 DEF Queued
  <2>6. QueueMove(c, {}) BY <1>1, <2>2, <2>5, FreshMove
  <2>7. Ages(c) BY <1>1 DEF Ages
  <2> HIDE DEF a
  <2> QED BY <1>1, <2>2, <2>6, <2>7, StartEffect
<1> QED BY <1>2, <1>3

-----------------------------------------------------------------------------
(* What a lock region that commits a counterpart does besides the caller's *)
(* own claim: the members of R are claimed, unlinked and owed a wake-up.   *)
Trims(q, p, R) ==
  /\ IsInjective(p) => IsInjective(q)
  /\ \A n \in Range(q) : n \in Range(p)
  /\ \A n \in Range(p) : n \notin R => n \in Range(q)

GivenTo(c, R) ==
  /\ \A n \in R : /\ NodePending(n) /\ n.co # c /\ n \in Range(wakes'[c])
                  /\ delivered'[n.co].gen = wgen[n.co]
  /\ \A e \in Coroutines \ {c} :
       \/ delivered'[e] = delivered[e]
       \/ \E n \in R : n.co = e /\ (req[e].op = "select" => winner'[e] = CaseWinner(n.case))

Serves(c, chan0, R) ==
  /\ GivenTo(c, R)
  /\ \A ch \in Channels : /\ Trims(chan'[ch].sendQ, chan0[ch].sendQ, R)
                          /\ Trims(chan'[ch].recvQ, chan0[ch].recvQ, R)

LEMMA TrimsSame == \A q, R : Trims(q, q, R)
  BY DEF Trims

LEMMA TrimsOne ==
  ASSUME NEW p \in Seq(Nodes), NEW h
  PROVE  Trims(Without(p, {h}), p, {h})
<1>1. /\ \A n : n \in Range(Without(p, {h})) <=> n \in Range(p) /\ n \notin {h}
      /\ IsInjective(p) => IsInjective(Without(p, {h}))
  BY WithoutFacts
<1> QED BY <1>1 DEF Trims

LEMMA OneGiven ==
  ASSUME NEW c \in Coroutines, NEW h \in Nodes, NodePending(h), h.co # c, NEW i, NEW res, NEW r,
         Claim(SelfClaim(c, i, res) \union {PeerClaim(h, r)}), wakes'[c] = <<h>>
  PROVE  GivenTo(c, {h})
<1> DEFINE S == SelfClaim(c, i, res)
           K == S \union {PeerClaim(h, r)}
<1>1. \A k \in S : k.co = c BY DEF SelfClaim
<1>2. PeerClaim(h, r).co = h.co /\ PeerClaim(h, r).case = h.case BY DEF PeerClaim
<1>3. Claim(K) OBVIOUS
<1> HIDE DEF S
<1>4. \A k \in K : k.co = c \/ (k.co = h.co /\ k.case = h.case) BY <1>1, <1>2
<1>5. \E k \in K : k.co = h.co BY <1>2
<1> HIDE DEF K
<1>6. ASSUME NEW e \in Coroutines \ {c}
      PROVE  \/ delivered'[e] = delivered[e] /\ \A k \in K : k.co # e
             \/ /\ h.co = e /\ (req[e].op = "select" => winner'[e] = CaseWinner(h.case))
                /\ delivered'[e].gen = wgen[e]
  <2>1. CASE \E k \in K :
              /\ k.co = e
              /\ delivered'[e] = [gen |-> wgen[e], res |-> k.res]
              /\ winner'[e] = IF IsSelect(e) THEN CaseWinner(k.case) ELSE winner[e]
    <3>1. PICK k \in K :
              /\ k.co = e
              /\ delivered'[e] = [gen |-> wgen[e], res |-> k.res]
              /\ winner'[e] = IF IsSelect(e) THEN CaseWinner(k.case) ELSE winner[e]
      BY <2>1
    <3>2. h.co = e /\ k.case = h.case BY <1>4, <3>1
    <3> QED BY <3>1, <3>2 DEF IsSelect
  <2> QED BY <1>3, <2>1, ClaimFacts
<1>7. h.co \in Coroutines \ {c} BY DEF Nodes
<1>8. delivered'[h.co].gen = wgen[h.co] BY <1>5, <1>6, <1>7
<1>9. h \in Range(wakes'[c]) BY DEF Range
<1> QED BY <1>6, <1>8, <1>9 DEF GivenTo

LEMMA NoneGiven ==
  ASSUME NEW c \in Coroutines, NEW i, NEW res, Claim(SelfClaim(c, i, res))
  PROVE  GivenTo(c, {})
<1> DEFINE K == SelfClaim(c, i, res)
<1>1. \A k \in K : k.co = c BY DEF SelfClaim
<1>2. Claim(K) OBVIOUS
<1> HIDE DEF K
<1>3. ASSUME NEW e \in Coroutines \ {c} PROVE delivered'[e] = delivered[e]
  <2>1. \A k \in K : k.co # e BY <1>1
  <2> QED BY <1>2, <2>1, ClaimFacts
<1> QED BY <1>3 DEF GivenTo

(* The slots of the ring and the queues are separate fields.               *)
LEMMA SlotQueues ==
  ASSUME NEW ch \in Channels, NEW q, RingOK(q, Capacity[ch]), NEW v
  PROVE  /\ Capacity[ch] > 0 => /\ CommitSlot(ch, q, v).sendQ = q.sendQ
                                /\ CommitSlot(ch, q, v).recvQ = q.recvQ
                                /\ TakeSlot(ch, q).sendQ = q.sendQ
                                /\ TakeSlot(ch, q).recvQ = q.recvQ
         /\ \A s : /\ [q EXCEPT !.sendQ = s].sendQ = s /\ [q EXCEPT !.sendQ = s].recvQ = q.recvQ
                   /\ [q EXCEPT !.recvQ = s].recvQ = s /\ [q EXCEPT !.recvQ = s].sendQ = q.sendQ
         /\ q.sendQ \in Seq(Nodes) /\ q.recvQ \in Seq(Nodes)
<1>1. q \in ChannelType(Capacity[ch]) BY DEF RingOK
<1>2. CASE Capacity[ch] > 0
  <2>1. PICK r : r = CommitSlot(ch, q, v) OBVIOUS
  <2>2. r.sendQ = q.sendQ /\ r.recvQ = q.recvQ BY <1>2, <2>1, CommitFields
  <2>3. PICK t : t = TakeSlot(ch, q) OBVIOUS
  <2>4. t.sendQ = q.sendQ /\ t.recvQ = q.recvQ BY <1>2, <2>3, TakeFields
  <2> QED BY <1>1, <2>1, <2>2, <2>3, <2>4 DEF ChannelType
<1>3. CASE ~(Capacity[ch] > 0) BY <1>1, <1>3 DEF ChannelType
<1> QED BY <1>2, <1>3

LEMMA SendServes ==
  ASSUME LocalInv, NEW c \in Coroutines, NEW ch \in Channels, NEW i, NEW chan0, SameRings(chan0),
         CommitSend(c, ch, i, chan0)
  PROVE  \E R \in SUBSET Nodes : Serves(c, chan0, R)
<1> DEFINE rs == Receivers(c, ch)
           v  == Payload(c)
           q  == chan0[ch]
<1>0. ChanTypes /\ wakes \in [Coroutines -> Seq(Nodes)] /\ DOMAIN chan0 = Channels
      /\ RingOK(q, Capacity[ch]) /\ q.len = chan[ch].len
  BY DEF LocalInv, Types, SameRings
<1>1. CASE rs # <<>>
  <2> DEFINE h == Head(rs)
             s == Without(q.recvQ, {h})
  <2>1. /\ chan' = [chan0 EXCEPT ![ch] = [q EXCEPT !.recvQ = s]]
        /\ Claim(SelfClaim(c, i, Result("Sent")) \union {PeerClaim(h, Received(v))})
        /\ wakes' = [wakes EXCEPT ![c] = <<h>>]
    BY <1>1 DEF CommitSend, AfterCommit
  <2>2. h \in Nodes /\ NodePending(h) /\ h.co # c
    BY <1>0, <1>1, QueueTypes, PendingHead DEF Receivers
  <2>3. q.recvQ \in Seq(Nodes) BY <1>0, SlotQueues
  <2> HIDE DEF rs, v, h
  <2>4. Trims(s, q.recvQ, {h}) BY <2>3, TrimsOne
  <2> HIDE DEF s
  <2>5. PICK q2 : q2 = [q EXCEPT !.recvQ = s] OBVIOUS
  <2>6. q2.recvQ = s /\ q2.sendQ = q.sendQ BY <1>0, <2>5, SlotQueues
  <2>7. chan' = [chan0 EXCEPT ![ch] = q2] BY <2>1, <2>5
  <2> HIDE DEF q
  <2>8. \A x \in Channels : /\ Trims(chan'[x].sendQ, chan0[x].sendQ, {h})
                            /\ Trims(chan'[x].recvQ, chan0[x].recvQ, {h})
    <3> TAKE x \in Channels
    <3>1. CASE x = ch BY <1>0, <2>4, <2>6, <2>7, <3>1, TrimsSame DEF q
    <3>2. CASE x # ch BY <1>0, <2>7, <3>2, TrimsSame
    <3> QED BY <3>1, <3>2
  <2>9. wakes'[c] = <<h>> BY <1>0, <2>1
  <2>10. GivenTo(c, {h}) BY <2>1, <2>2, <2>9, OneGiven
  <2>11. {h} \in SUBSET Nodes BY <2>2
  <2> QED BY <2>8, <2>10, <2>11 DEF Serves
<1>2. CASE rs = <<>>
  <2>1. /\ chan' = [chan0 EXCEPT ![ch] = CommitSlot(ch, q, v)]
        /\ Claim(SelfClaim(c, i, Result("Sent")) \union {})
        /\ SlotAvailable(ch)
    BY <1>2 DEF CommitSend, SendReady
  <2>2. Claim(SelfClaim(c, i, Result("Sent")))
    <3>1. SelfClaim(c, i, Result("Sent")) \union {} = SelfClaim(c, i, Result("Sent")) OBVIOUS
    <3> QED BY <2>1, <3>1
  <2>3. Capacity[ch] > 0
    <3>1. Capacity[ch] \in Nat BY WaitAssumption
    <3>2. q.len \in 0 .. Capacity[ch] /\ q.len < Capacity[ch]
      BY <1>0, <2>1 DEF SlotAvailable, RingOK, ChannelType
    <3> QED BY <3>1, <3>2
  <2> HIDE DEF rs, v
  <2>4. PICK q2 : q2 = CommitSlot(ch, q, v) OBVIOUS
  <2>5. q2.recvQ = q.recvQ /\ q2.sendQ = q.sendQ BY <1>0, <2>3, <2>4, SlotQueues
  <2>6. chan' = [chan0 EXCEPT ![ch] = q2] BY <2>1, <2>4
  <2> HIDE DEF q
  <2>7. \A x \in Channels : chan'[x].sendQ = chan0[x].sendQ /\ chan'[x].recvQ = chan0[x].recvQ
    BY <1>0, <2>5, <2>6 DEF q
  <2>8. GivenTo(c, {}) BY <2>2, NoneGiven
  <2> QED BY <2>7, <2>8, TrimsSame DEF Serves
<1> QED BY <1>1, <1>2

LEMMA RecvServes ==
  ASSUME LocalInv, NEW c \in Coroutines, NEW ch \in Channels, NEW i, NEW chan0, SameRings(chan0),
         CommitRecv(c, ch, i, chan0)
  PROVE  \E R \in SUBSET Nodes : Serves(c, chan0, R)
<1> DEFINE ss == Senders(c, ch)
           B  == Buffered(ch)
           u  == Payload(Head(ss).co)
           v  == IF B THEN PeekSlot(ch) ELSE u
           q0 == chan0[ch]
           q  == IF B THEN TakeSlot(ch, q0) ELSE q0
           r  == IF B /\ ss # <<>> THEN CommitSlot(ch, q, u) ELSE q
<1>0. ChanTypes /\ Types /\ wakes \in [Coroutines -> Seq(Nodes)] /\ DOMAIN chan0 = Channels
      /\ RingOK(q0, Capacity[ch]) /\ q0.len = chan[ch].len /\ q0.head = chan[ch].head
  BY DEF LocalInv, Types, SameRings
<1>1. ss # <<>> => /\ Head(ss) \in Nodes /\ NodePending(Head(ss)) /\ Head(ss).co # c
                   /\ u \in Payloads
  <2> SUFFICES ASSUME ss # <<>> 
               PROVE  Head(ss) \in Nodes /\ NodePending(Head(ss)) /\ Head(ss).co # c /\ u \in Payloads
    OBVIOUS
  <2>1. ss = Pending(chan[ch].sendQ, c) BY DEF Senders
  <2>2. PICK h : h = Head(ss) OBVIOUS
  <2>3. h \in Nodes /\ NodePending(h) /\ h.co # c
    <3> HIDE DEF ss
    <3> QED BY <1>0, <2>1, <2>2, QueueTypes, PendingHead
  <2>4. h.co \in Coroutines /\ wgen[h.co] # 0 BY <2>3 DEF Nodes, NodePending, CanClaim
  <2>5. Local(h.co) BY <2>4 DEF LocalInv
  <2>6. Payload(h.co) \in Payloads BY <1>0, <2>4, <2>5, PayloadType
  <2> HIDE DEF ss
  <2> QED BY <2>2, <2>3, <2>6
<1>2. /\ RingOK(q, Capacity[ch]) /\ q.sendQ = q0.sendQ /\ q.recvQ = q0.recvQ
      /\ B => q.len < Capacity[ch] /\ Capacity[ch] > 0
  <2>1. CASE B
    <3>1. q0.len > 0 BY <1>0, <2>1 DEF Buffered
    <3>2. Capacity[ch] > 0
      <4>1. Capacity[ch] \in Nat BY WaitAssumption
      <4>2. q0.len \in 0 .. Capacity[ch] BY <1>0 DEF RingOK, ChannelType
      <4> QED BY <3>1, <4>1, <4>2
    <3>3. q = TakeSlot(ch, q0) BY <2>1
    <3> HIDE DEF q, q0, B
    <3>4. RingOK(q, Capacity[ch]) /\ q.len < Capacity[ch] BY <1>0, <3>1, <3>3, TakeRing
    <3>5. q.sendQ = q0.sendQ /\ q.recvQ = q0.recvQ BY <1>0, <3>2, <3>3, SlotQueues
    <3> QED BY <3>2, <3>4, <3>5
  <2>2. CASE ~B
    <3>1. q = q0 BY <2>2
    <3> QED BY <1>0, <2>2, <3>1
  <2> QED BY <2>1, <2>2
<1>3. RingOK(r, Capacity[ch]) /\ r.sendQ = q0.sendQ /\ r.recvQ = q0.recvQ
  <2>1. CASE B /\ ss # <<>>
    <3>1. r = CommitSlot(ch, q, u) BY <2>1
    <3>2. u \in Payloads BY <1>1, <2>1
    <3>3. q.len < Capacity[ch] /\ Capacity[ch] > 0 BY <1>2, <2>1
    <3> HIDE DEF r, q, u, q0
    <3>4. RingOK(r, Capacity[ch]) BY <1>2, <3>1, <3>2, <3>3, CommitRing
    <3>5. r.sendQ = q.sendQ /\ r.recvQ = q.recvQ BY <1>2, <3>1, <3>3, SlotQueues
    <3> QED BY <1>2, <3>4, <3>5
  <2>2. CASE ~(B /\ ss # <<>>)
    <3>1. r = q BY <2>2
    <3> HIDE DEF r, q, q0
    <3> QED BY <1>2, <3>1
  <2> QED BY <2>1, <2>2
<1>4. CASE ss # <<>>
  <2> DEFINE h == Head(ss)
             s == Without(r.sendQ, {h})
  <2>1. /\ chan' = [chan0 EXCEPT ![ch] = [r EXCEPT !.sendQ = s]]
        /\ Claim(SelfClaim(c, i, Received(v)) \union {PeerClaim(h, Result("Sent"))})
        /\ wakes' = [wakes EXCEPT ![c] = <<h>>]
    BY <1>4 DEF CommitRecv, AfterCommit
  <2>2. h \in Nodes /\ NodePending(h) /\ h.co # c BY <1>1, <1>4
  <2> HIDE DEF h, r, v, q0
  <2>3. r.sendQ \in Seq(Nodes) BY <1>3, SlotQueues
  <2>4. Trims(s, r.sendQ, {h}) BY <2>3, TrimsOne
  <2> HIDE DEF s
  <2>5. PICK q2 : q2 = [r EXCEPT !.sendQ = s] OBVIOUS
  <2>6. q2.sendQ = s /\ q2.recvQ = r.recvQ BY <1>3, <2>5, SlotQueues
  <2>7. chan' = [chan0 EXCEPT ![ch] = q2] BY <2>1, <2>5
  <2>8. \A x \in Channels : /\ Trims(chan'[x].sendQ, chan0[x].sendQ, {h})
                            /\ Trims(chan'[x].recvQ, chan0[x].recvQ, {h})
    <3> TAKE x \in Channels
    <3>1. CASE x = ch BY <1>0, <1>3, <2>4, <2>6, <2>7, <3>1, TrimsSame DEF q0
    <3>2. CASE x # ch BY <1>0, <2>7, <3>2, TrimsSame
    <3> QED BY <3>1, <3>2
  <2>9. wakes'[c] = <<h>> BY <1>0, <2>1
  <2>10. GivenTo(c, {h}) BY <2>1, <2>2, <2>9, OneGiven
  <2>11. {h} \in SUBSET Nodes BY <2>2
  <2> QED BY <2>8, <2>10, <2>11 DEF Serves
<1>5. CASE ss = <<>>
  <2>1. /\ chan' = [chan0 EXCEPT ![ch] = r]
        /\ Claim(SelfClaim(c, i, Received(v)) \union {})
    BY <1>5 DEF CommitRecv
  <2> HIDE DEF r, v, q0, ss
  <2>2. Claim(SelfClaim(c, i, Received(v)))
    <3>1. SelfClaim(c, i, Received(v)) \union {} = SelfClaim(c, i, Received(v)) OBVIOUS
    <3> QED BY <2>1, <3>1
  <2>3. \A x \in Channels : chan'[x].sendQ = chan0[x].sendQ /\ chan'[x].recvQ = chan0[x].recvQ
    BY <1>0, <1>3, <2>1 DEF q0
  <2>4. GivenTo(c, {}) BY <2>2, NoneGiven
  <2> QED BY <2>3, <2>4, TrimsSame DEF Serves
<1> QED BY <1>4, <1>5

(* A case of a select.                                                     *)
LEMMA CaseServes ==
  ASSUME LocalInv, NEW c \in Coroutines, pc[c] \in {"try", "retry", "register"},
         NEW i \in Cases(c), NEW chan0, SameRings(chan0), CommitCase(c, i, chan0)
  PROVE  \/ \E R \in SUBSET Nodes : Serves(c, chan0, R)
         \/ chan' = chan /\ Serves(c, chan, {}) /\ Case(c, i).src \in Channels
<1>0. Types /\ ChanTypes /\ Local(c) BY DEF LocalInv
<1>1. req[c].op = "select" BY <1>0 DEF Local, OpFits, SelectPlaces, Trying
<1>2. Case(c, i) \in SelectCases BY <1>0, <1>1, SelectFacts
<1> DEFINE s == Case(c, i).src
<1>3. CASE Case(c, i).dir = "send"
  <2>1. s \in Channels BY <1>2, <1>3 DEF SelectCases
  <2>2. CASE CommitSend(c, s, i, chan0) BY <2>1, <2>2, SendServes
  <2>3. CASE SendClosed(c, s, i)
    <3>1. Claim(SelfClaim(c, i, Result("SendClosed"))) /\ chan' = chan BY <2>3 DEF SendClosed
    <3>2. GivenTo(c, {}) BY <3>1, NoneGiven
    <3> QED BY <2>1, <3>1, <3>2, TrimsSame DEF Serves
  <2> QED BY <1>3, <2>2, <2>3 DEF CommitCase
<1>4. CASE Case(c, i).dir = "recv"
  <2>1. s \in Channels BY <1>2, <1>4 DEF SelectCases
  <2>2. CASE CommitRecv(c, s, i, chan0) BY <2>1, <2>2, RecvServes
  <2>3. CASE RecvClosed(c, s, i, chan0)
    <3>1. Claim(SelfClaim(c, i, Result("RecvClosed"))) /\ chan' = chan0 BY <2>3 DEF RecvClosed
    <3>2. GivenTo(c, {}) BY <3>1, NoneGiven
    <3>3. Serves(c, chan0, {}) BY <3>1, <3>2, TrimsSame DEF Serves
    <3> QED BY <3>3
  <2> QED BY <1>4, <2>2, <2>3 DEF CommitCase
<1>5. CASE Case(c, i).dir = "wait"
  <2>1. Claim(SelfClaim(c, i, Result("Join"))) /\ chan' = chan0 BY <1>5 DEF CommitCase
  <2>2. GivenTo(c, {}) BY <2>1, NoneGiven
  <2>3. Serves(c, chan0, {}) BY <2>1, <2>2, TrimsSame DEF Serves
  <2> QED BY <2>3
<1> QED BY <1>2, <1>3, <1>4, <1>5 DEF SelectCases

(* The queues of a channel state and a table of source queues.             *)
QueueIn(q0, w0, k) ==
  IF k[1] = "send" THEN q0[k[2]].sendQ
  ELSE IF k[1] = "recv" THEN q0[k[2]].recvQ ELSE w0[k[2]]

(* Within the lock region the nodes of A were queued, giving chan0.        *)
Enqueued(chan0, A) ==
  \A k \in Keys :
    /\ IsInjective(Queue(k)) /\ (\A n \in A : n \notin Range(Queue(k)))
         => IsInjective(QueueIn(chan0, waitQ', k))
    /\ \A n \in Range(QueueIn(chan0, waitQ', k)) : n \in Range(Queue(k)) \/ (n \in A /\ KeyOf(n)' = k)
    /\ \A n \in Range(Queue(k)) : n \in Range(QueueIn(chan0, waitQ', k))
    /\ \A n \in A : KeyOf(n)' = k => n \in Range(QueueIn(chan0, waitQ', k))

LEMMA ServeTrims ==
  ASSUME NEW c, NEW chan0, NEW R, Serves(c, chan0, R), NEW k \in Keys
  PROVE  Trims(Queue(k)', QueueIn(chan0, waitQ', k), R)
<1>1. CASE \E ch \in Channels : k = <<"send", ch>>
  <2>1. PICK ch \in Channels : k = <<"send", ch>> BY <1>1
  <2>2. QueueIn(chan0, waitQ', k) = chan0[ch].sendQ BY <2>1 DEF QueueIn
  <2>3. Queue(k)' = chan'[ch].sendQ BY <2>1, QueueNames
  <2> QED BY <2>2, <2>3 DEF Serves
<1>2. CASE \E ch \in Channels : k = <<"recv", ch>>
  <2>1. PICK ch \in Channels : k = <<"recv", ch>> BY <1>2
  <2>2. QueueIn(chan0, waitQ', k) = chan0[ch].recvQ BY <2>1 DEF QueueIn
  <2>3. Queue(k)' = chan'[ch].recvQ BY <2>1, QueueNames
  <2> QED BY <2>2, <2>3 DEF Serves
<1>3. CASE \E s \in Coroutines \union {Never} : k = <<"wait", s>>
  <2>1. PICK s \in Coroutines \union {Never} : k = <<"wait", s>> BY <1>3
  <2>2. QueueIn(chan0, waitQ', k) = waitQ'[s] BY <2>1 DEF QueueIn
  <2>3. Queue(k)' = waitQ'[s] BY <2>1, QueueNames
  <2> QED BY <2>2, <2>3, TrimsSame
<1> QED BY <1>1, <1>2, <1>3, KeySplit

LEMMA ServeMove ==
  ASSUME LocalInv, NEW c \in Coroutines, wgen' = wgen, armed' = armed,
         NEW A \in SUBSET Nodes, NEW R \in SUBSET Nodes, NEW chan0,
         Serves(c, chan0, R), Enqueued(chan0, A),
         \A n \in A : n.co = c /\ Queued(n)' /\ ~Queued(n) /\ n \in Range(armed[c]),
         \A n \in Range(armed[c]) : Queued(n) => Queued(n)',
         CanClaim(c)' => \A n \in Range(armed[c]) :
                            Queued(n)' => n \in A \/ (Queued(n) /\ CanClaim(c))
  PROVE  QueueMove(c, A)
<1>1. \A n \in R : ~CanClaim(n.co)' /\ n.co # c BY DEF Serves, GivenTo, CanClaim
<1>2. ASSUME NEW k \in Keys
      PROVE  /\ IsInjective(Queue(k)) /\ (\A n \in A : n \notin Range(Queue(k))) => IsInjective(Queue(k)')
             /\ \A n \in Range(Queue(k)') : n \in Range(Queue(k)) \/ (n \in A /\ KeyOf(n)' = k)
             /\ \A n \in Range(Queue(k)) : CanClaim(n.co)' => n \in Range(Queue(k)')
             /\ \A n \in A : KeyOf(n)' = k => n \in Range(Queue(k)')
  <2> PICK p : p = QueueIn(chan0, waitQ', k) OBVIOUS
  <2>1. Trims(Queue(k)', p, R) BY ServeTrims
  <2>2. /\ IsInjective(Queue(k)) /\ (\A n \in A : n \notin Range(Queue(k))) => IsInjective(p)
        /\ \A n \in Range(p) : n \in Range(Queue(k)) \/ (n \in A /\ KeyOf(n)' = k)
        /\ \A n \in Range(Queue(k)) : n \in Range(p)
        /\ \A n \in A : KeyOf(n)' = k => n \in Range(p)
    BY DEF Enqueued
  <2> QED BY <1>1, <2>1, <2>2 DEF Trims
<1> QED BY <1>2 DEF QueueMove

LEMMA NothingQueued ==
  ASSUME waitQ' = waitQ
  PROVE  Enqueued(chan, {})
<1>1. \A k : QueueIn(chan, waitQ', k) = Queue(k) BY DEF QueueIn, Queue
<1> QED BY <1>1 DEF Enqueued

-----------------------------------------------------------------------------
(* A region that commits for c: its own round, or a plain result, and the  *)
(* counterpart it owes a wake-up.                                          *)
LEMMA CommitEffect ==
  ASSUME LocalInv, NEW c \in Coroutines, Step(c), NEW i \in Nat, Commits(c, i),
         NEW A \in SUBSET Nodes, NEW R \in SUBSET Nodes, QueueMove(c, A), GivenTo(c, R),
         UNCHANGED <<req, wgen, armed, life, cancelled, cancelQ>>,
         \/ i = 0 /\ pc[c] \in {"call", "checked"}
         \/ i # 0 /\ pc[c] \in {"try", "retry", "register"} /\ winner[c] = Unset,
         \A s \in Coroutines : \A n \in Range(waitQ'[s]) :
           n \in Range(waitQ[s]) \/ (i # 0 /\ n.co = c)
  PROVE  Effect(c)
<1>0. Types /\ Local(c) /\ Local(c)' BY DEF LocalInv, Step
<1>1. /\ i = 0 => /\ delivered'[c] = delivered[c] /\ winner'[c] = winner[c]
                  /\ pc'[c] \in {"idle", "wake"}
      /\ i # 0 => /\ delivered'[c].gen = wgen[c] /\ pc'[c] \in {"arm", "cleanup"}
  BY DEF Commits
<1>2. wakes[c] = <<>> BY <1>0 DEF Local, WakesFits
<1>3. i # 0 => delivered[c].gen # wgen[c]
  BY <1>0 DEF Local, ClaimFits, OpFits, SelectPlaces, Trying
<1>4. i # 0 => ~CanClaim(c)' BY <1>1 DEF CanClaim
<1>5. Sticks(c) BY <1>1, <1>3 DEF Sticks
<1>6. Ages(c) BY <1>1, <1>4 DEF Ages, CanClaim, IsSelect
<1>7. CancelMove(c) BY <1>1, CancelSameMove DEF Cancelling, InWait
<1>8. JoinMove(c)
  <2>1. \A s \in Coroutines : \A n \in Range(waitQ'[s]) : n \in Range(waitQ[s]) \/ ~CanClaim(n.co)'
    BY <1>4
  <2>2. life[c] = "Running" BY <1>0 DEF Local, LifeFits, Early, Trying
  <2> QED BY <2>1, <2>2, JoinSameMove DEF Step
<1>9. OweMove(c)
  <2>1. Owed(c) = {} BY <1>2 DEF Owed, Range
  <2>2. pc'[c] \notin {"cancel", "cancel_wake", "blocked"} BY <1>1
  <2>3. Owed(c)' = Range(wakes'[c]) BY <2>2 DEF Owed
  <2>4. ASSUME NEW e \in Coroutines \ {c}, delivered'[e] # delivered[e]
        PROVE  \E n \in Owed(c)' :
                 NodePending(n) /\ n.co = e /\ (req[e].op = "select" => winner'[e] = CaseWinner(n.case))
    BY <2>3, <2>4 DEF GivenTo
  <2> QED BY <2>1, <2>2, <2>4 DEF OweMove, Asleep
<1> QED BY <1>5, <1>6, <1>7, <1>8, <1>9 DEF Effect

(* The plain requests and the two unregistered paths of select.            *)
LEMMA ServeEffect ==
  ASSUME LocalInv, NEW c \in Coroutines, Step(c), NEW i \in Nat, Commits(c, i),
         NEW R \in SUBSET Nodes, Serves(c, chan, R),
         UNCHANGED <<req, wgen, armed, life, cancelled, cancelQ, waitQ>>,
         \/ i = 0 /\ pc[c] \in {"call", "checked"}
         \/ i # 0 /\ pc[c] \in {"try", "retry"}
  PROVE  Effect(c)
<1>1. armed[c] = <<>> /\ (i # 0 => winner[c] = Unset)
  BY DEF LocalInv, Local, ArmedFits, ClaimFits, Early, Trying
<1>2. Range(armed[c]) = {} BY <1>1 DEF Range
<1>3. Enqueued(chan, {}) BY NothingQueued
<1>4. QueueMove(c, {}) BY <1>2, <1>3, ServeMove
<1>5. GivenTo(c, R) BY DEF Serves
<1> QED BY <1>1, <1>4, <1>5, CommitEffect

LEMMA PlainEffects ==
  ASSUME LocalInv, NEW c \in Coroutines, Step(c),
         SendNow(c) \/ SendOnClosed(c) \/ RecvNow(c) \/ RecvOnClosed(c)
  PROVE  Effect(c)
<1>0. Types /\ ChanTypes /\ Local(c) BY DEF LocalInv
<1>1. /\ pc[c] \in {"call", "checked"} /\ req[c].op \in SendOps \union RecvOps
      /\ UNCHANGED <<calls, req, wgen, armed, life, waitQ, cancelled, cancelQ>>
  BY DEF SendNow, SendOnClosed, RecvNow, RecvOnClosed, Receiving, RecvRequests, Serving, At, SendOps,
     RecvOps, restOfSend, callVars, roundVars, lifeVars, cancelVars
<1>2. Ch(c) \in Channels /\ Payload(c) \in Payloads /\ req[c].op # "select" /\ wakes[c] = <<>>
  BY <1>0, <1>1, PlainChannel
<1>3. 0 \in Nat /\ SameRings(chan) BY <1>0, SameRingsChan
<1>4. CASE SendNow(c)
  <2>1. CommitSend(c, Ch(c), 0, chan) BY <1>4 DEF SendNow
  <2>2. Commits(c, 0) BY <1>0, <1>2, <1>3, <2>1, CommitSendStep
  <2>3. PICK R \in SUBSET Nodes : Serves(c, chan, R) BY <1>2, <1>3, <2>1, SendServes
  <2> QED BY <1>1, <1>3, <2>2, <2>3, ServeEffect
<1>5. CASE RecvNow(c)
  <2>1. CommitRecv(c, Ch(c), 0, chan) BY <1>5 DEF RecvNow
  <2>2. Commits(c, 0) BY <1>2, <1>3, <2>1, CommitRecvStep
  <2>3. PICK R \in SUBSET Nodes : Serves(c, chan, R) BY <1>2, <1>3, <2>1, RecvServes
  <2> QED BY <1>1, <1>3, <2>2, <2>3, ServeEffect
<1>6. CASE SendOnClosed(c)
  <2>1. SendClosed(c, Ch(c), 0) /\ pc' = [pc EXCEPT ![c] = "idle"] /\ UNCHANGED wakes
    BY <1>6 DEF SendOnClosed, Goto
  <2>2. Commits(c, 0) BY <1>0, <1>2, <1>3, <2>1, SendClosedStep
  <2>3. GivenTo(c, {}) /\ chan' = chan BY <2>1, NoneGiven DEF SendClosed
  <2>4. Serves(c, chan, {}) BY <2>3, TrimsSame DEF Serves
  <2> QED BY <1>1, <1>3, <2>2, <2>4, ServeEffect
<1>7. CASE RecvOnClosed(c)
  <2>1. RecvClosed(c, Ch(c), 0, chan) BY <1>7 DEF RecvOnClosed
  <2>2. Commits(c, 0) BY <1>0, <1>2, <1>3, <2>1, RecvClosedStep
  <2>3. GivenTo(c, {}) /\ chan' = chan BY <2>1, NoneGiven DEF RecvClosed
  <2>4. Serves(c, chan, {}) BY <2>3, TrimsSame DEF Serves
  <2> QED BY <1>1, <1>3, <2>2, <2>4, ServeEffect
<1> QED BY <1>4, <1>5, <1>6, <1>7

LEMMA CaseEffect ==
  ASSUME LocalInv, NEW c \in Coroutines, Step(c), pc[c] \in {"try", "retry"},
         NEW i \in Cases(c), CommitCase(c, i, chan),
         UNCHANGED <<req, wgen, armed, life, waitQ, cancelled, cancelQ>>
  PROVE  Effect(c)
<1>0. Types /\ ChanTypes /\ Local(c) BY DEF LocalInv
<1>1. SameRings(chan) BY <1>0, SameRingsChan
<1>2. Commits(c, i) BY <1>1, CommitCaseStep
<1>3. PICK R \in SUBSET Nodes : Serves(c, chan, R)
  <2>1. {} \in SUBSET Nodes OBVIOUS
  <2> QED BY <1>1, <2>1, CaseServes
<1>4. i \in Nat /\ i # 0
  <2>1. req[c].op = "select" BY <1>0 DEF Local, OpFits, SelectPlaces, Trying
  <2> QED BY <1>0, <2>1, SelectFacts
<1> QED BY <1>2, <1>3, <1>4, ServeEffect

LEMMA SelectEffects ==
  ASSUME LocalInv, NEW c \in Coroutines, Step(c), SelectInline(c) \/ Retry(c)
  PROVE  Effect(c)
<1>0. Types /\ ChanTypes /\ Local(c) BY DEF LocalInv
<1>1. /\ pc[c] \in {"try", "retry"}
      /\ UNCHANGED <<req, wgen, armed, life, waitQ, cancelled, cancelQ>>
  BY DEF SelectInline, Retry, At, selectRest, callVars, roundVars, lifeVars, cancelVars
<1>2. CASE SelectInline(c)
  <2>1. PICK i \in Cases(c) : CommitCase(c, i, chan) BY <1>2 DEF SelectInline
  <2> QED BY <1>1, <2>1, CaseEffect
<1>3. CASE Retry(c)
  <2>1. pc[c] = "retry" BY <1>3 DEF Retry, At
  <2>2. PICK i \in scan[c].ready :
          \/ CommitCase(c, i, chan)
          \/ UNCHANGED <<delivered, winner, wakes, chan, pc>>
    BY <1>3 DEF Retry, claimVars
  <2>3. i \in Cases(c) BY <1>0, <2>1 DEF Local, ScanFits
  <2>4. CASE CommitCase(c, i, chan) BY <1>1, <2>3, <2>4, CaseEffect
  <2>5. CASE UNCHANGED <<delivered, winner, wakes, chan, pc>>
    BY <1>1, <2>1, <2>5, ReturnEffect DEF Trying
  <2> QED BY <2>2, <2>4, <2>5
<1> QED BY <1>2, <1>3

-----------------------------------------------------------------------------
(* register_cancel_source: the node is listed, or claimed on a source that *)
(* was cancelled in the meantime.                                          *)
LEMMA RegisterCancelEffect ==
  ASSUME LocalInv, NEW c \in Coroutines, Step(c), RegisterCancel(c)
  PROVE  Effect(c)
<1>0. Types /\ Local(c) /\ Local(c)' /\ pc \in [Coroutines -> Places] /\ cancelQ \in Seq(Nodes)
      /\ cancelled \in BOOLEAN
  BY DEF LocalInv, Types, Step
<1>1. /\ pc[c] = "register_cancel" /\ pc' = [pc EXCEPT ![c] = "park"]
      /\ UNCHANGED <<req, wgen, armed, life, wakes, chan, waitQ, cancelled>>
  BY DEF RegisterCancel, At, Goto, callVars, roundVars, lifeVars
<1>2. pc'[c] = "park" BY <1>0, <1>1
<1>3. /\ armed[c] # <<>> /\ wakes[c] = <<>> /\ life[c] = "Parking" /\ req[c].op \in CancelOps
  BY <1>0, <1>1 DEF Local, ArmedFits, WakesFits, LifeFits, OpFits
<1> PICK h : h = Head(armed[c]) OBVIOUS
<1>4. h \in Nodes /\ h \in Range(armed[c]) /\ h.co = c /\ h.gen = wgen[c] BY <1>3, RoundHead
<1>5. \/ /\ cancelled /\ cancelQ' = cancelQ
         /\ NodePending(h) /\ Claim({PeerClaim(h, Result("Cancelled"))})
      \/ /\ cancelled /\ cancelQ' = cancelQ
         /\ ~NodePending(h) /\ UNCHANGED <<delivered, winner>>
      \/ ~cancelled /\ cancelQ' = Append(cancelQ, h) /\ UNCHANGED <<delivered, winner>>
  <2>1. CASE cancelled /\ NodePending(h) BY <2>1 DEF RegisterCancel, CancelClaim
  <2>2. CASE cancelled /\ ~NodePending(h) BY <2>2 DEF RegisterCancel, CancelClaim, claimVars
  <2>3. CASE ~cancelled BY <2>3 DEF RegisterCancel, claimVars
  <2> QED BY <1>0, <2>1, <2>2, <2>3
<1>6. /\ \A e \in Coroutines \ {c} : delivered'[e] = delivered[e]
      /\ \/ CanClaim(c) /\ ~CanClaim(c)'
         \/ /\ delivered'[c] = delivered[c] /\ winner'[c] = winner[c]
            /\ cancelled => ~NodePending(h)
  <2>1. CASE NodePending(h) /\ Claim({PeerClaim(h, Result("Cancelled"))})
    <3> DEFINE K == {PeerClaim(h, Result("Cancelled"))}
    <3>1. \A k \in K : k.co = c BY <1>4 DEF PeerClaim
    <3>2. \E k \in K : k.co = c BY <3>1
    <3>3. Claim(K) BY <2>1
    <3> HIDE DEF K
    <3>4. ASSUME NEW e \in Coroutines \ {c} PROVE delivered'[e] = delivered[e]
      <4>1. \A k \in K : k.co # e BY <3>1
      <4> QED BY <3>3, <4>1, ClaimFacts
    <3>5. delivered'[c].gen = wgen[c]
      <4>1. PICK k \in K : delivered'[c] = [gen |-> wgen[c], res |-> k.res]
        BY <3>2, <3>3, ClaimFacts
      <4> QED BY <4>1
    <3>6. CanClaim(c) BY <1>4, <2>1 DEF NodePending
    <3>7. ~CanClaim(c)' BY <1>1, <3>5 DEF CanClaim
    <3> QED BY <3>4, <3>6, <3>7
  <2>2. CASE UNCHANGED <<delivered, winner>> /\ (cancelled => ~NodePending(h)) BY <2>2
  <2> QED BY <1>5, <2>1, <2>2
<1>7. Sticks(c) BY <1>1, <1>6 DEF Sticks, CanClaim
<1>8. Ages(c) BY <1>1, <1>6 DEF Ages, CanClaim, IsSelect
<1>9. QueueMove(c, {})
  <2>1. \A k \in Keys : Queue(k)' = Queue(k) BY <1>1, QueuesStill
  <2> QED BY <1>1, <1>2, <1>8, <2>1, QueuesSameMove
<1>10. JoinMove(c) BY <1>1, <1>3, JoinSameMove DEF Step
<1>11. CancelMove(c)
  <2>1. /\ \A n : n \in Range(cancelQ') => n \in Range(cancelQ) \/ (n = h /\ ~cancelled)
        /\ \A n : n \in Range(cancelQ) => n \in Range(cancelQ')
        /\ ~cancelled => h \in Range(cancelQ')
        /\ IsInjective(cancelQ) /\ h \notin Range(cancelQ) => IsInjective(cancelQ')
        /\ cancelled => cancelQ' = cancelQ
    <3>1. CASE cancelQ' = cancelQ /\ cancelled BY <3>1
    <3>2. CASE cancelQ' = Append(cancelQ, h) /\ ~cancelled BY <1>0, <1>4, <3>2, AppendFacts
    <3> QED BY <1>5, <3>1, <3>2
  <2>2. Live(h)' BY <1>1, <1>4 DEF Live
  <2>3. (\A n \in Range(cancelQ) : pc[n.co] # "register_cancel") => h \notin Range(cancelQ)
    BY <1>1, <1>4
  <2>4. cancelled /\ CanClaim(c) => ~CanClaim(c)'
    <3>1. CanClaim(c) => NodePending(h) BY <1>4 DEF NodePending, Live
    <3> QED BY <1>6, <3>1
  <2>5. CanClaim(c)' => CanClaim(c) BY <1>1, <1>6 DEF CanClaim, IsSelect
  <2>6. pc[c] \notin InWait /\ pc'[c] \in InWait /\ ~Cancelling(c) /\ pc'[c] # "cancel_wake"
    BY <1>1, <1>2 DEF InWait, Cancelling
  <2>7. cancelled' <=> cancelled BY <1>1
  <2>8. Head(armed'[c]) = h /\ armed' = armed /\ req'[c].op \in CancelOps BY <1>1, <1>3
  <2> QED BY <1>4, <2>1, <2>2, <2>3, <2>4, <2>5, <2>6, <2>7, <2>8 DEF CancelMove
<1>12. OweMove(c)
  <2>1. Owed(c) = {} BY <1>1, <1>3 DEF Owed, Range
  <2> QED BY <1>2, <1>6, <2>1, OweSameMove
<1> QED BY <1>7, <1>8, <1>9, <1>10, <1>11, <1>12 DEF Effect

(* cancel_source_cancel takes the registered nodes.                        *)
LEMMA CancelStartEffect ==
  ASSUME LocalInv, NEW c \in Coroutines, Step(c), CancelStart(c)
  PROVE  Effect(c)
<1>0. /\ Types /\ Local(c) /\ pc \in [Coroutines -> Places] /\ cancelQ \in Seq(Nodes)
      /\ cancelled \in BOOLEAN /\ wakes \in [Coroutines -> Seq(Nodes)]
  BY DEF LocalInv, Types
<1>1. /\ pc[c] = "call" /\ cancelled' = TRUE
      /\ UNCHANGED <<req, wgen, armed, life, delivered, winner, chan, waitQ>>
  BY DEF CancelStart, Serving, At, callVars, roundVars, lifeVars, claimVars
<1>2. armed[c] = <<>> /\ wakes[c] = <<>> /\ life[c] = "Running"
  BY <1>0, <1>1 DEF Local, ArmedFits, WakesFits, LifeFits, Early
<1>3. /\ cancelled => wakes'[c] = <<>> /\ cancelQ' = cancelQ
      /\ ~cancelled => wakes'[c] = cancelQ /\ cancelQ' = <<>>
  <2>1. CASE cancelled BY <1>0, <2>1 DEF CancelStart
  <2>2. CASE ~cancelled BY <1>0, <2>2 DEF CancelStart
  <2> QED BY <2>1, <2>2
<1>4. /\ wakes'[c] = <<>> => pc'[c] = "idle"
      /\ wakes'[c] # <<>> => pc'[c] = "cancel"
  <2>1. CASE wakes'[c] = <<>>
    <3>1. pc' = [pc EXCEPT ![c] = "idle"] BY <2>1 DEF CancelStart, Return, Goto
    <3> QED BY <1>0, <2>1, <3>1
  <2>2. CASE wakes'[c] # <<>>
    <3>1. pc' = [pc EXCEPT ![c] = "cancel"] BY <2>2 DEF CancelStart, Goto
    <3> QED BY <1>0, <2>2, <3>1
  <2> QED BY <2>1, <2>2
<1>5. pc'[c] \in {"idle", "cancel"} BY <1>4
<1>6. Sticks(c) BY <1>1 DEF Sticks
<1>7. Ages(c) BY <1>1 DEF Ages, CanClaim, IsSelect
<1>8. QueueMove(c, {})
  <2>1. \A k \in Keys : Queue(k)' = Queue(k) BY <1>1, QueuesStill
  <2> QED BY <1>1, <1>2, <1>7, <2>1, QueuesSameMove
<1>9. JoinMove(c) BY <1>1, <1>2, JoinSameMove DEF Step
<1>10. CancelMove(c)
  <2>1. pc[c] \notin InWait /\ pc'[c] \notin InWait /\ ~Cancelling(c) /\ pc'[c] # "cancel_wake"
    BY <1>1, <1>5 DEF InWait, Cancelling
  <2>2. CASE cancelled
    <3>1. cancelQ' = cancelQ /\ cancelled BY <1>3, <2>2
    <3> QED BY <1>1, <2>1, <3>1 DEF CancelMove
  <2>3. CASE ~cancelled
    <3>1. wakes'[c] = cancelQ /\ cancelQ' = <<>> BY <1>3, <2>3
    <3>2. IsInjective(cancelQ') BY <3>1 DEF IsInjective
    <3>3. \A n : n \notin Range(cancelQ') BY <3>1 DEF Range
    <3> QED BY <1>1, <1>4, <2>1, <2>3, <3>1, <3>2, <3>3 DEF CancelMove
  <2> QED BY <2>2, <2>3
<1>11. OweMove(c)
  <2>1. Owed(c) = {} BY <1>1, <1>2 DEF Owed, Range
  <2> QED BY <1>1, <1>5, <2>1, OweSameMove
<1> QED BY <1>6, <1>7, <1>8, <1>9, <1>10, <1>11 DEF Effect

(* cancel_wait_node claims the node whose wake-up comes next.              *)
LEMMA CancelNodeEffect ==
  ASSUME LocalInv, NEW c \in Coroutines, Step(c), CancelNode(c)
  PROVE  Effect(c)
<1>0. Types /\ Local(c) /\ pc \in [Coroutines -> Places] /\ wakes[c] \in Seq(Nodes)
  BY DEF LocalInv, Types
<1> PICK h : h = Head(wakes[c]) OBVIOUS
<1> DEFINE K == {PeerClaim(h, Result("Cancelled"))}
<1>1. /\ pc[c] = "cancel" /\ NodePending(h) /\ Claim(K)
      /\ pc' = [pc EXCEPT ![c] = "cancel_wake"]
      /\ UNCHANGED <<req, wgen, armed, life, wakes, chan, waitQ, cancelled, cancelQ>>
  BY DEF CancelNode, CancelClaim, At, Goto, callVars, roundVars, lifeVars, cancelVars
<1>2. armed[c] = <<>> /\ wakes[c] # <<>> /\ life[c] = "Running" /\ pc'[c] = "cancel_wake"
  BY <1>0, <1>1 DEF Local, ArmedFits, WakesFits, LifeFits
<1>3. h \in Nodes /\ h.co \in Coroutines \ {c} /\ h.gen = wgen[h.co]
  <2>1. h \in Nodes BY <1>0, <1>2, HeadFacts
  <2>2. h.co # c BY <1>1, <1>2 DEF NodePending, Live, Range
  <2> QED BY <1>1, <2>1, <2>2 DEF Nodes, NodePending
<1>4. /\ \A k \in K : k.co = h.co /\ k.case = h.case
      /\ \E k \in K : k.co = h.co
  BY DEF PeerClaim
<1> HIDE DEF K
<1>5. delivered'[c] = delivered[c] /\ winner'[c] = winner[c]
  <2>1. \A k \in K : k.co # c BY <1>3, <1>4
  <2> QED BY <1>1, <2>1, ClaimFacts
<1>6. ASSUME NEW e \in Coroutines \ {c}, e # h.co PROVE delivered'[e] = delivered[e]
  <2>1. \A k \in K : k.co # e BY <1>4, <1>6
  <2> QED BY <1>1, <2>1, ClaimFacts
<1>7. /\ delivered'[h.co].gen = wgen[h.co]
      /\ req[h.co].op = "select" => winner'[h.co] = CaseWinner(h.case)
  <2>1. PICK k \in K : /\ delivered'[h.co] = [gen |-> wgen[h.co], res |-> k.res]
                       /\ winner'[h.co] = IF IsSelect(h.co) THEN CaseWinner(k.case) ELSE winner[h.co]
    BY <1>1, <1>3, <1>4, ClaimFacts
  <2> QED BY <1>4, <2>1 DEF IsSelect
<1>8. Sticks(c) BY <1>5 DEF Sticks
<1>9. Ages(c) BY <1>1, <1>5 DEF Ages, CanClaim, IsSelect
<1>10. QueueMove(c, {})
  <2>1. \A k \in Keys : Queue(k)' = Queue(k) BY <1>1, QueuesStill
  <2> QED BY <1>1, <1>2, <1>9, <2>1, QueuesSameMove
<1>11. JoinMove(c) BY <1>1, <1>2, JoinSameMove DEF Step
<1>12. CancelMove(c)
  <2>1. Claimed(h)' BY <1>1, <1>3, <1>7 DEF Claimed
  <2>2. Claimed(Head(wakes[c]))' BY <1>1, <2>1 DEF Claimed
  <2>3. Cancelling(c)' /\ pc[c] \notin InWait /\ pc'[c] \notin InWait
    BY <1>1, <1>2 DEF Cancelling, InWait
  <2>4. cancelled' <=> cancelled BY <1>1
  <2> QED BY <1>1, <2>2, <2>3, <2>4 DEF CancelMove
<1>13. OweMove(c)
  <2>1. Owed(c) = {} BY <1>1 DEF Owed
  <2>2. h \in Owed(c)' BY <1>1, <1>2 DEF Owed
  <2>3. ~Asleep(c)' BY <1>2 DEF Asleep
  <2> QED BY <1>1, <1>6, <1>7, <2>1, <2>2, <2>3 DEF OweMove
<1> QED BY <1>8, <1>9, <1>10, <1>11, <1>12, <1>13 DEF Effect

-----------------------------------------------------------------------------
(* What appending a sequence of nodes does to a queue.                     *)
LEMMA Appended ==
  ASSUME NEW q \in Seq(Nodes), NEW p \in Seq(Nodes)
  PROVE  /\ \A n : n \in Range(q \o p) <=> n \in Range(q) \/ n \in Range(p)
         /\ IsInjective(q) /\ IsInjective(p) /\ (\A n \in Range(q) : n \notin Range(p))
              => IsInjective(q \o p)
  BY ConcatFacts

(* register_waiters appends the nodes of the cases on one source to the    *)
(* queues they belong to.                                                  *)
LEMMA RegisterEnqueues ==
  ASSUME LocalInv, NEW c \in Coroutines, pc[c] = "register", NEW s \in scan[c].todo,
         NEW S, S \subseteq CasesOn(c, s), NEW A, A = {Node(c, i) : i \in S},
         NEW chan0, chan0 = QueueCases(c, s, S), waitQ' = QueueWaits(c, s, S), req' = req
  PROVE  Enqueued(chan0, A)
<1>0. Types /\ ChanTypes /\ Local(c) /\ armed[c] \in Seq(Nodes) BY DEF LocalInv, Types
<1>1. /\ req[c].op = "select" /\ armed[c] # <<>>
      /\ s \in {Case(c, i).src : i \in Cases(c)}
      /\ armed[c] = RoundOf(c, req[c].cases, wgen[c])
  BY <1>0 DEF Local, OpFits, SelectPlaces, ArmedFits, ScanFits
<1>2. req[c].cases # <<>>
  <2>1. Cases(c) # {} BY <1>1
  <2> QED BY <2>1 DEF Cases
<1>3. armed[c] = [i \in Cases(c) |-> Node(c, i)] BY <1>1, <1>2 DEF RoundOf, Node, Cases
<1>4. IsInjective(armed[c]) BY <1>3 DEF IsInjective, Node
<1>5. \A i \in Cases(c) : Node(c, i) \in Range(armed[c]) BY <1>3 DEF Range
<1>6. \A i \in S : i \in Cases(c) /\ Case(c, i) \in SelectCases /\ Case(c, i).src = s
  BY <1>0, <1>1, SelectFacts DEF CasesOn
<1>7. \A i \in S : \A n : n = Node(c, i) => KeyOf(n)' = <<Case(c, i).dir, s>>
  BY <1>2, <1>6 DEF KeyOf, Node, Case
<1> DEFINE N(dir) == {Node(c, i) : i \in {j \in S : Case(c, j).dir = dir}}
           a(dir) == Keep(armed[c], N(dir))
<1>8. ASSUME NEW dir
      PROVE  /\ a(dir) \in Seq(Nodes) /\ IsInjective(a(dir))
             /\ \A n : n \in Range(a(dir)) <=> n \in N(dir)
             /\ \A n : n \in N(dir) <=> n \in A /\ KeyOf(n)' = <<dir, s>>
  <2>1. \A n : n \in N(dir) => n \in Range(armed[c]) BY <1>5, <1>6
  <2>2. \A n : n \in N(dir) <=> n \in A /\ KeyOf(n)' = <<dir, s>>
    <3>1. ASSUME NEW n, n \in N(dir) PROVE n \in A /\ KeyOf(n)' = <<dir, s>>
      <4>1. PICK i \in S : n = Node(c, i) /\ Case(c, i).dir = dir BY <3>1
      <4> QED BY <1>7, <4>1
    <3>2. ASSUME NEW n, n \in A, KeyOf(n)' = <<dir, s>> PROVE n \in N(dir)
      <4>1. PICK i \in S : n = Node(c, i) BY <3>2
      <4>2. Case(c, i).dir = dir BY <1>7, <3>2, <4>1
      <4> QED BY <4>1, <4>2
    <3> QED BY <3>1, <3>2
  <2> HIDE DEF N
  <2>3. /\ a(dir) \in Seq(Nodes) /\ IsInjective(a(dir))
        /\ \A n : n \in Range(a(dir)) <=> n \in Range(armed[c]) /\ n \in N(dir)
    BY <1>0, <1>4, KeepFacts
  <2> HIDE DEF a
  <2> QED BY <2>1, <2>2, <2>3
<1>9. ASSUME NEW k \in Keys, NEW dir, k = <<dir, s>>, QueueIn(chan0, waitQ', k) = Queue(k) \o a(dir)
      PROVE  /\ IsInjective(Queue(k)) /\ (\A n \in A : n \notin Range(Queue(k)))
                  => IsInjective(QueueIn(chan0, waitQ', k))
             /\ \A n \in Range(QueueIn(chan0, waitQ', k)) :
                  n \in Range(Queue(k)) \/ (n \in A /\ KeyOf(n)' = k)
             /\ \A n \in Range(Queue(k)) : n \in Range(QueueIn(chan0, waitQ', k))
             /\ \A n \in A : KeyOf(n)' = k => n \in Range(QueueIn(chan0, waitQ', k))
  <2> PICK p : p = a(dir) OBVIOUS
  <2> PICK B : B = N(dir) OBVIOUS
  <2>1. /\ p \in Seq(Nodes) /\ IsInjective(p)
        /\ \A n : n \in Range(p) <=> n \in B
        /\ \A n : n \in B <=> n \in A /\ KeyOf(n)' = k
    <3> HIDE DEF N, a
    <3> QED BY <1>8, <1>9
  <2> PICK q : q = Queue(k) OBVIOUS
  <2> PICK r : r = QueueIn(chan0, waitQ', k) OBVIOUS
  <2>2. q \in Seq(Nodes) BY QueueTyped
  <2>3. p \in Seq(Nodes) /\ r = q \o p BY <1>9, <2>1
  <2> HIDE DEF N, a
  <2>4. /\ \A n : n \in Range(q \o p) <=> n \in Range(q) \/ n \in Range(p)
        /\ IsInjective(q) /\ IsInjective(p) /\ (\A n \in Range(q) : n \notin Range(p))
             => IsInjective(q \o p)
    BY <2>2, <2>3, Appended
  <2>5. /\ IsInjective(q) /\ (\A n \in B : n \notin Range(q)) => IsInjective(r)
        /\ \A n : n \in Range(r) <=> n \in Range(q) \/ n \in B
    BY <2>1, <2>3, <2>4
  <2> QED BY <2>1, <2>5
<1>10. ASSUME NEW k \in Keys, QueueIn(chan0, waitQ', k) = Queue(k), \A n \in A : KeyOf(n)' # k
      PROVE  /\ IsInjective(Queue(k)) /\ (\A n \in A : n \notin Range(Queue(k)))
                  => IsInjective(QueueIn(chan0, waitQ', k))
             /\ \A n \in Range(QueueIn(chan0, waitQ', k)) :
                  n \in Range(Queue(k)) \/ (n \in A /\ KeyOf(n)' = k)
             /\ \A n \in Range(Queue(k)) : n \in Range(QueueIn(chan0, waitQ', k))
             /\ \A n \in A : KeyOf(n)' = k => n \in Range(QueueIn(chan0, waitQ', k))
  BY <1>10
<1>11. \A n \in A : \E i \in S : n = Node(c, i) /\ KeyOf(n)' = <<Case(c, i).dir, s>> BY <1>7
<1>12. ASSUME NEW k \in Keys
       PROVE  \/ \E dir : k = <<dir, s>> /\ QueueIn(chan0, waitQ', k) = Queue(k) \o a(dir)
              \/ QueueIn(chan0, waitQ', k) = Queue(k) /\ \A n \in A : KeyOf(n)' # k
  <2>1. CASE s \in Channels
    <3>1. waitQ' = waitQ BY <2>1 DEF QueueWaits
    <3>2. \A i \in S : Case(c, i).dir \in {"send", "recv"}
      BY <1>6, <2>1, WaitAssumption DEF SelectCases
    <3>3. /\ chan0[s].sendQ = chan[s].sendQ \o a("send")
          /\ chan0[s].recvQ = chan[s].recvQ \o a("recv")
          /\ \A x \in Channels \ {s} : chan0[x] = chan[x]
      <4> PICK p : p = chan[s].sendQ \o a("send") OBVIOUS
      <4> PICK r : r = chan[s].recvQ \o a("recv") OBVIOUS
      <4>1. chan0 = [chan EXCEPT ![s] = [chan[s] EXCEPT !.sendQ = p, !.recvQ = r]]
        BY <2>1 DEF QueueCases
      <4> PICK q : q = [chan[s] EXCEPT !.sendQ = p, !.recvQ = r] OBVIOUS
      <4>2. chan[s] \in ChannelType(Capacity[s]) BY <1>0, <2>1 DEF ChanTypes, RingOK
      <4>3. q.sendQ = p /\ q.recvQ = r BY <4>2 DEF ChannelType
      <4>4. chan0 = [chan EXCEPT ![s] = q] BY <4>1
      <4> HIDE DEF a
      <4> QED BY <1>0, <2>1, <4>3, <4>4 DEF ChanTypes
    <3> HIDE DEF a, N
    <3>4. CASE \E x \in Channels : k = <<"send", x>>
      <4>1. PICK x \in Channels : k = <<"send", x>> BY <3>4
      <4>2. QueueIn(chan0, waitQ', k) = chan0[x].sendQ /\ Queue(k) = chan[x].sendQ
        BY <4>1 DEF QueueIn, Queue
      <4>3. CASE x = s BY <3>3, <4>1, <4>2, <4>3
      <4>4. CASE x # s BY <1>11, <3>3, <4>1, <4>2, <4>4
      <4> QED BY <4>3, <4>4
    <3>5. CASE \E x \in Channels : k = <<"recv", x>>
      <4>1. PICK x \in Channels : k = <<"recv", x>> BY <3>5
      <4>2. QueueIn(chan0, waitQ', k) = chan0[x].recvQ /\ Queue(k) = chan[x].recvQ
        BY <4>1 DEF QueueIn, Queue
      <4>3. CASE x = s BY <3>3, <4>1, <4>2, <4>3
      <4>4. CASE x # s BY <1>11, <3>3, <4>1, <4>2, <4>4
      <4> QED BY <4>3, <4>4
    <3>6. CASE \E x \in Coroutines \union {Never} : k = <<"wait", x>>
      <4>1. QueueIn(chan0, waitQ', k) = Queue(k) BY <3>1, <3>6 DEF QueueIn, Queue
      <4>2. \A n \in A : KeyOf(n)' # k BY <1>11, <3>2, <3>6
      <4> QED BY <4>1, <4>2
    <3> QED BY <3>4, <3>5, <3>6, KeySplit
  <2>2. CASE s \notin Channels
    <3>1. chan0 = chan BY <2>2 DEF QueueCases
    <3>2. \A i \in S : Case(c, i).dir = "wait" BY <1>6, <2>2 DEF SelectCases
    <3>3. A = N("wait") BY <3>2
    <3>4. waitQ' = [waitQ EXCEPT ![s] = waitQ[s] \o a("wait")]
      <4>1. waitQ' = [waitQ EXCEPT ![s] = waitQ[s] \o Keep(armed[c], A)] BY <2>2 DEF QueueWaits
      <4> HIDE DEF N
      <4> QED BY <3>3, <4>1
    <3> HIDE DEF a, N
    <3>5. CASE \E x \in Channels : k = <<"send", x>>
      <4>1. QueueIn(chan0, waitQ', k) = Queue(k) BY <3>1, <3>5 DEF QueueIn, Queue
      <4>2. \A n \in A : KeyOf(n)' # k BY <1>11, <3>2, <3>5
      <4> QED BY <4>1, <4>2
    <3>6. CASE \E x \in Channels : k = <<"recv", x>>
      <4>1. QueueIn(chan0, waitQ', k) = Queue(k) BY <3>1, <3>6 DEF QueueIn, Queue
      <4>2. \A n \in A : KeyOf(n)' # k BY <1>11, <3>2, <3>6
      <4> QED BY <4>1, <4>2
    <3>7. CASE \E x \in Coroutines \union {Never} : k = <<"wait", x>>
      <4>1. PICK x \in Coroutines \union {Never} : k = <<"wait", x>> BY <3>7
      <4>2. QueueIn(chan0, waitQ', k) = waitQ'[x] /\ Queue(k) = waitQ[x]
        BY <4>1 DEF QueueIn, Queue
      <4>3. DOMAIN waitQ = Coroutines \union {Never} BY <1>0 DEF Types
      <4>4. CASE x = s BY <3>4, <4>1, <4>2, <4>3, <4>4
      <4>5. CASE x # s
        <5>1. waitQ'[x] = waitQ[x] BY <3>4, <4>3, <4>5
        <5>2. \A n \in A : KeyOf(n)' # k BY <1>11, <4>1, <4>5
        <5> QED BY <4>2, <5>1, <5>2
      <4> QED BY <4>4, <4>5
    <3> QED BY <3>5, <3>6, <3>7, KeySplit
  <2> QED BY <2>1, <2>2
<1> HIDE DEF a, N
<1> QED BY <1>9, <1>10, <1>12 DEF Enqueued

(* One source of register_waiters: its cases are queued, or the first that *)
(* is ready commits after those before it were queued.                     *)
LEMMA RegisterEffect ==
  ASSUME LocalInv, NEW c \in Coroutines, Step(c), Register(c)
  PROVE  Effect(c)
<1>0. /\ Types /\ ChanTypes /\ Local(c) /\ pc \in [Coroutines -> Places]
      /\ scan \in [Coroutines -> [todo : SUBSET Sources, ready : SUBSET Nat]]
  BY DEF LocalInv, Types
<1>1. /\ pc[c] = "register" /\ req[c].op = "select" /\ winner[c] = Unset
      /\ UNCHANGED <<req, wgen, armed, life, cancelled, cancelQ>>
  BY DEF Register, At, IsSelect, callVars, roundVars, lifeVars, cancelVars
<1>2. PICK s \in scan[c].todo :
        \/ /\ \A i \in CasesOn(c, s) : ~CaseCommits(c, i)
           /\ chan' = QueueCases(c, s, CasesOn(c, s))
           /\ waitQ' = QueueWaits(c, s, CasesOn(c, s))
           /\ scan' = [scan EXCEPT ![c].todo = @ \ {s}]
           /\ pc' = [pc EXCEPT ![c] = IF scan[c].todo = {s} THEN "arm" ELSE "register"]
           /\ UNCHANGED <<delivered, winner, wakes>>
        \/ \E i \in CasesOn(c, s) :
           /\ CommitCase(c, i, QueueCases(c, s, {j \in CasesOn(c, s) : j < i}))
           /\ waitQ' = QueueWaits(c, s, {j \in CasesOn(c, s) : j < i})
  BY DEF Register, Goto, claimVars
<1>3. /\ armed[c] # <<>> /\ life[c] = "Running" /\ wakes[c] = <<>>
      /\ s \in {Case(c, i).src : i \in Cases(c)}
  BY <1>0, <1>1 DEF Local, ArmedFits, LifeFits, WakesFits, ScanFits
<1>4. /\ req[c].cases # <<>>
      /\ \A i \in Cases(c) : i \in Nat /\ i # 0 /\ Case(c, i) \in SelectCases
  BY <1>0, <1>1, <1>3, SelectFacts
<1>5. ASSUME NEW i \in Cases(c), NEW n, n = Node(c, i)
      PROVE  /\ n \in Nodes /\ n \in Range(armed[c]) /\ n.co = c /\ NodeSource(n) = Case(c, i).src
             /\ NodeSource(n)' = NodeSource(n)
  <2>1. armed[c] = RoundOf(c, req[c].cases, wgen[c]) BY <1>0, <1>3 DEF Local, ArmedFits
  <2>2. n \in Range(armed[c]) BY <1>4, <1>5, <2>1 DEF RoundOf, Node, Cases, Range
  <2>3. n.co = c /\ n.case = i BY <1>5 DEF Node
  <2>4. NodeSource(n) = Case(c, i).src BY <1>4, <2>3 DEF NodeSource, Case
  <2>5. NodeSource(n)' = NodeSource(n) BY <1>1 DEF NodeSource
  <2> QED BY <2>2, <2>3, <2>4, <2>5, LiveFacts
<1>6. ASSUME NEW n \in Range(armed[c]) PROVE \E i \in Cases(c) : n = Node(c, i)
  <2>1. armed[c] = RoundOf(c, req[c].cases, wgen[c]) BY <1>0, <1>3 DEF Local, ArmedFits
  <2> QED BY <1>4, <1>6, <2>1 DEF RoundOf, Node, Cases, Range
<1>7. ASSUME NEW S, S \subseteq CasesOn(c, s), NEW A, A = {Node(c, i) : i \in S}
      PROVE  /\ A \in SUBSET Nodes
             /\ \A n \in A : n.co = c /\ ~Queued(n) /\ n \in Range(armed[c]) /\ NodeSource(n)' = s
  <2> SUFFICES ASSUME NEW n \in A
               PROVE  n \in Nodes /\ n.co = c /\ ~Queued(n) /\ n \in Range(armed[c])
                      /\ NodeSource(n)' = s
    OBVIOUS
  <2>1. PICK i \in S : n = Node(c, i) BY <1>7
  <2>2. i \in Cases(c) /\ Case(c, i).src = s BY <1>7, <2>1 DEF CasesOn
  <2>3. /\ n \in Nodes /\ n \in Range(armed[c]) /\ n.co = c /\ NodeSource(n) = s
        /\ NodeSource(n)' = NodeSource(n)
    BY <1>5, <2>1, <2>2
  <2> QED BY <1>1, <2>3 DEF Queued
<1>8. CASE /\ \A i \in CasesOn(c, s) : ~CaseCommits(c, i)
           /\ chan' = QueueCases(c, s, CasesOn(c, s))
           /\ waitQ' = QueueWaits(c, s, CasesOn(c, s))
           /\ scan' = [scan EXCEPT ![c].todo = @ \ {s}]
           /\ pc' = [pc EXCEPT ![c] = IF scan[c].todo = {s} THEN "arm" ELSE "register"]
           /\ UNCHANGED <<delivered, winner, wakes>>
  <2> PICK S : S = CasesOn(c, s) OBVIOUS
  <2> PICK A : A = {Node(c, i) : i \in S} OBVIOUS
  <2> PICK chan0 : chan0 = QueueCases(c, s, S) OBVIOUS
  <2>1. /\ A \in SUBSET Nodes
        /\ \A n \in A : n.co = c /\ ~Queued(n) /\ n \in Range(armed[c]) /\ NodeSource(n)' = s
    BY <1>7
  <2>2. Enqueued(chan0, A) BY <1>1, <1>8, RegisterEnqueues
  <2>3. scan'[c].todo = scan[c].todo \ {s} BY <1>0, <1>8
  <2>4. \/ scan[c].todo = {s} /\ pc'[c] = "arm"
        \/ scan[c].todo # {s} /\ pc'[c] = "register"
    BY <1>0, <1>8
  <2>5. ASSUME NEW n \in Range(armed[c])
        PROVE  /\ n.co = c /\ Live(n) /\ NodeSource(n)' = NodeSource(n)
               /\ NodeSource(n) = s => n \in A
    <3>1. PICK i \in Cases(c) : n = Node(c, i) BY <1>6
    <3>2. n.co = c /\ NodeSource(n) = Case(c, i).src /\ NodeSource(n)' = NodeSource(n)
      BY <1>5, <3>1
    <3>3. NodeSource(n) = s => i \in S BY <3>2 DEF CasesOn
    <3> QED BY <3>1, <3>2, <3>3, LiveFacts
  <2>6. \A n \in A : Queued(n)'
    <3> TAKE n \in A
    <3>1. n \in Range(armed[c]) /\ n.co = c /\ NodeSource(n)' = s BY <2>1
    <3>2. Live(n)' BY <1>1, <3>1 DEF Live
    <3> QED BY <2>3, <2>4, <3>1, <3>2 DEF Queued
  <2>7. ASSUME NEW n \in Range(armed[c])
        PROVE  /\ Queued(n) => Queued(n)'
               /\ Queued(n)' => n \in A \/ Queued(n)
    <3>1. n.co = c /\ Live(n) /\ NodeSource(n)' = NodeSource(n) /\ (NodeSource(n) = s => n \in A)
      BY <2>5
    <3>2. Live(n)' BY <1>1, <3>1 DEF Live
    <3>3. Queued(n) <=> NodeSource(n) \notin scan[c].todo BY <1>1, <3>1 DEF Queued
    <3>4. Queued(n)' <=> (pc'[c] = "register" => NodeSource(n) \notin scan[c].todo \ {s})
      BY <2>3, <2>4, <3>1, <3>2 DEF Queued
    <3> QED BY <2>4, <3>1, <3>3, <3>4
  <2>8. CanClaim(c)' <=> CanClaim(c) BY <1>1, <1>8 DEF CanClaim, IsSelect
  <2>9. Serves(c, chan0, {})
    <3>1. GivenTo(c, {}) BY <1>8 DEF GivenTo
    <3>2. chan' = chan0 BY <1>8
    <3> QED BY <3>1, <3>2, TrimsSame DEF Serves
  <2>10. QueueMove(c, A)
    <3>1. {} \in SUBSET Nodes OBVIOUS
    <3> QED BY <1>1, <2>1, <2>2, <2>6, <2>7, <2>8, <2>9, <3>1, ServeMove
  <2>11. Ages(c) BY <1>1, <2>8 DEF Ages
  <2>12. \A t \in Coroutines : waitQ'[t] = waitQ[t] \/ life'[t] # "Dead"
    <3> TAKE t \in Coroutines
    <3>1. CASE t # s
      <4>1. \/ waitQ' = waitQ
            \/ waitQ' = [waitQ EXCEPT ![s] = @ \o Keep(armed[c], {Node(c, i) : i \in CasesOn(c, s)})]
        BY <1>8 DEF QueueWaits
      <4>2. DOMAIN waitQ = Coroutines \union {Never} BY <1>0 DEF Types
      <4> QED BY <3>1, <4>1, <4>2
    <3>2. CASE t = s
      <4>1. PICK i \in Cases(c) : Case(c, i).src = s BY <1>3
      <4>2. Case(c, i).dir = "wait" BY <1>4, <3>2, <4>1, WaitAssumption DEF SelectCases
      <4>3. i \in CasesOn(c, s) BY <4>1 DEF CasesOn
      <4>4. ~CaseCommits(c, i) BY <1>8, <4>3
      <4>5. life[s] # "Dead" BY <4>1, <4>2, <4>4 DEF CaseCommits
      <4> QED BY <1>1, <3>2, <4>5
    <3> QED BY <3>1, <3>2
  <2> QED BY <1>1, <1>8, <2>1, <2>4, <2>10, <2>11, <2>12, StartEffect
<1>9. CASE \E i \in CasesOn(c, s) :
           /\ CommitCase(c, i, QueueCases(c, s, {j \in CasesOn(c, s) : j < i}))
           /\ waitQ' = QueueWaits(c, s, {j \in CasesOn(c, s) : j < i})
  <2>1. PICK i \in CasesOn(c, s) :
           /\ CommitCase(c, i, QueueCases(c, s, {j \in CasesOn(c, s) : j < i}))
           /\ waitQ' = QueueWaits(c, s, {j \in CasesOn(c, s) : j < i})
    BY <1>9
  <2> PICK S : S = {j \in CasesOn(c, s) : j < i} OBVIOUS
  <2> PICK A : A = {Node(c, j) : j \in S} OBVIOUS
  <2> PICK chan0 : chan0 = QueueCases(c, s, S) OBVIOUS
  <2>2. CommitCase(c, i, chan0) /\ waitQ' = QueueWaits(c, s, S) /\ S \subseteq CasesOn(c, s)
    BY <2>1
  <2>3. i \in Cases(c) /\ i \in Nat /\ i # 0 /\ Case(c, i).src = s BY <1>4 DEF CasesOn
  <2>4. /\ A \in SUBSET Nodes
        /\ \A n \in A : n.co = c /\ ~Queued(n) /\ n \in Range(armed[c]) /\ NodeSource(n)' = s
    <3>1. A = {Node(c, m) : m \in S} OBVIOUS
    <3>2. S \subseteq CasesOn(c, s) BY <2>2
    <3> QED BY <1>7, <3>1, <3>2
  <2>5. Enqueued(chan0, A) BY <1>1, <2>2, RegisterEnqueues
  <2>6. SameRings(chan0) BY <1>0, QueueCasesRings
  <2>7. Commits(c, i) BY <1>1, <2>2, <2>3, <2>6, CommitCaseStep
  <2>8. /\ delivered'[c].gen = wgen[c] /\ pc'[c] \in {"arm", "cleanup"}
    BY <2>3, <2>7 DEF Commits
  <2>9. ~CanClaim(c)' BY <1>1, <2>8 DEF CanClaim
  <2>10. ASSUME NEW n \in Range(armed[c]) PROVE Queued(n)'
    <3>1. n.co = c /\ Live(n) BY LiveFacts
    <3>2. Live(n)' BY <1>1, <3>1 DEF Live
    <3> QED BY <2>8, <3>1, <3>2 DEF Queued
  <2>11. \A t \in Coroutines : \A n \in Range(waitQ'[t]) : n \in Range(waitQ[t]) \/ n.co = c
    <3> TAKE t \in Coroutines
    <3> TAKE n \in Range(waitQ'[t])
    <3> PICK k : k = <<"wait", t>> OBVIOUS
    <3>1. k \in Keys /\ QueueIn(chan0, waitQ', k) = waitQ'[t] /\ Queue(k) = waitQ[t]
      BY QueueNames DEF QueueIn
    <3>2. n \in Range(Queue(k)) \/ n \in A BY <2>5, <3>1 DEF Enqueued
    <3> QED BY <2>4, <3>1, <3>2
  <2>12. CASE \E R \in SUBSET Nodes : Serves(c, chan0, R)
    <3>1. PICK R \in SUBSET Nodes : Serves(c, chan0, R) BY <2>12
    <3>2. QueueMove(c, A) BY <1>1, <2>4, <2>5, <2>9, <2>10, <3>1, ServeMove
    <3>3. GivenTo(c, R) BY <3>1 DEF Serves
    <3> QED BY <1>1, <2>3, <2>4, <2>7, <2>11, <3>2, <3>3, CommitEffect
  <2>13. CASE chan' = chan /\ Serves(c, chan, {}) /\ Case(c, i).src \in Channels
    <3>1. waitQ' = waitQ BY <2>2, <2>3, <2>13 DEF QueueWaits
    <3>2. Enqueued(chan, {}) BY <3>1, NothingQueued
    <3>3. {} \in SUBSET Nodes OBVIOUS
    <3>4. QueueMove(c, {}) BY <1>1, <2>9, <2>10, <2>13, <3>2, <3>3, ServeMove
    <3>5. GivenTo(c, {}) BY <2>13 DEF Serves
    <3> QED BY <1>1, <2>3, <2>7, <2>11, <3>3, <3>4, <3>5, CommitEffect
  <2> QED BY <1>1, <2>2, <2>3, <2>6, <2>12, <2>13, CaseServes
<1> QED BY <1>2, <1>8, <1>9

-----------------------------------------------------------------------------
(* A region of c that drains the nodes of all: won are the first nodes of  *)
(* their rounds, R those nodes, P the claims they make.                    *)
Drains(c, all, won, R, P) ==
  /\ all \in Seq(Nodes) /\ \A n \in Range(all) : NodePending(n) /\ n.co # c
  /\ won \subseteq DOMAIN all
  /\ \A i \in DOMAIN all : (\A j \in 1 .. i - 1 : all[j].co # all[i].co) => i \in won
  /\ \A n : n \in R <=> \E i \in won : n = all[i]
  /\ Claim(P)
  /\ \A k \in P : \E i \in won : k.co = all[i].co /\ k.case = all[i].case
  /\ \A i \in won : \E k \in P : k.co = all[i].co
  /\ wakes'[c] = Keep(all, R)

(* Every round that waits in a drained queue is claimed, by the first of   *)
(* its nodes.                                                              *)
LEMMA DrainGiven ==
  ASSUME LocalInv, NEW c \in Coroutines, NEW all, NEW won, NEW R, NEW P,
         Drains(c, all, won, R, P)
  PROVE  /\ delivered'[c] = delivered[c]
         /\ \A n \in Range(all) : delivered'[n.co].gen = wgen[n.co]
         /\ R \in SUBSET Nodes /\ GivenTo(c, R)
<1>0. /\ all \in Seq(Nodes) /\ \A n \in Range(all) : NodePending(n) /\ n.co # c
      /\ won \subseteq DOMAIN all
      /\ \A i \in DOMAIN all : (\A j \in 1 .. i - 1 : all[j].co # all[i].co) => i \in won
      /\ \A n : n \in R <=> \E i \in won : n = all[i]
      /\ Claim(P)
      /\ \A k \in P : \E i \in won : k.co = all[i].co /\ k.case = all[i].case
      /\ \A i \in won : \E k \in P : k.co = all[i].co
      /\ wakes'[c] = Keep(all, R)
  BY DEF Drains
<1>1. \A i \in won : i \in DOMAIN all /\ all[i] \in Range(all) /\ all[i] \in Nodes
  <2>1. \A i \in won : i \in DOMAIN all BY <1>0
  <2> QED BY <1>0, <2>1, ElementOfSeq DEF Range
<1>2. \A k \in P : k.co # c BY <1>0, <1>1
<1>3. ASSUME NEW e \in Coroutines
      PROVE  \/ (\A k \in P : k.co # e) /\ delivered'[e] = delivered[e]
             \/ \E k \in P :
                  /\ k.co = e
                  /\ delivered'[e] = [gen |-> wgen[e], res |-> k.res]
                  /\ winner'[e] = IF IsSelect(e) THEN CaseWinner(k.case) ELSE winner[e]
  BY <1>0, ClaimFacts
<1>4. ASSUME NEW e \in Coroutines, \E k \in P : k.co = e
      PROVE  /\ delivered'[e].gen = wgen[e]
             /\ \E n \in R : n.co = e /\ (req[e].op = "select" => winner'[e] = CaseWinner(n.case))
  <2>1. PICK k \in P :
              /\ k.co = e
              /\ delivered'[e] = [gen |-> wgen[e], res |-> k.res]
              /\ winner'[e] = IF IsSelect(e) THEN CaseWinner(k.case) ELSE winner[e]
    BY <1>3, <1>4
  <2>2. PICK i \in won : k.co = all[i].co /\ k.case = all[i].case BY <1>0
  <2>3. all[i] \in R BY <1>0
  <2>4. delivered'[e].gen = wgen[e] BY <2>1
  <2>5. req[e].op = "select" => winner'[e] = CaseWinner(all[i].case) BY <2>1, <2>2 DEF IsSelect
  <2> QED BY <2>1, <2>2, <2>3, <2>4, <2>5
<1>5. ASSUME NEW n \in Range(all) PROVE \E k \in P : k.co = n.co
  <2>1. PICK j \in DOMAIN all : all[j] = n BY DEF Range
  <2>2. PICK l \in Nat : l = Len(all) BY <1>0
  <2>3. DOMAIN all = 1 .. l BY <1>0, <2>2
  <2> DEFINE T == {i \in 1 .. l : all[i].co = n.co}
  <2>4. T \subseteq Nat /\ j \in T BY <2>1, <2>3
  <2>5. T # {} BY <2>4
  <2>6. \A i \in 1 .. l : all[i].co = n.co <=> i \in T OBVIOUS
  <2>7. T \subseteq 1 .. l OBVIOUS
  <2> HIDE DEF T
  <2>8. PICK m \in T : \A k \in T : ~(k < m) BY <2>4, <2>5, Least
  <2>9. m \in 1 .. l /\ all[m].co = n.co BY <2>6, <2>7
  <2>10. \A k \in 1 .. m - 1 : all[k].co # all[m].co
    <3> TAKE k \in 1 .. m - 1
    <3>1. k < m /\ k \in 1 .. l BY <2>9
    <3>2. k \notin T BY <2>8, <3>1
    <3> QED BY <2>6, <2>9, <3>1, <3>2
  <2>11. m \in won BY <1>0, <2>3, <2>9, <2>10
  <2> QED BY <1>0, <2>9, <2>11
<1>6. ASSUME NEW n \in Range(all) PROVE n.co \in Coroutines /\ delivered'[n.co].gen = wgen[n.co]
  <2>1. n \in Nodes BY <1>0, RangeFacts
  <2>2. n.co \in Coroutines BY <2>1 DEF Nodes
  <2> QED BY <1>4, <1>5, <2>2
<1>7. \A n : n \in Range(wakes'[c]) <=> n \in Range(all) /\ n \in R
  BY <1>0, KeepFacts
<1>8. GivenTo(c, R)
  <2>1. \A n \in R : n \in Range(all) BY <1>0, <1>1
  <2>2. \A n \in R : /\ NodePending(n) /\ n.co # c /\ n \in Range(wakes'[c])
                     /\ delivered'[n.co].gen = wgen[n.co]
    BY <1>0, <1>6, <1>7, <2>1
  <2>3. ASSUME NEW e \in Coroutines \ {c}
        PROVE  \/ delivered'[e] = delivered[e]
               \/ \E n \in R : n.co = e /\ (req[e].op = "select" => winner'[e] = CaseWinner(n.case))
    <3>1. CASE \E k \in P : k.co = e BY <1>4, <3>1
    <3>2. CASE \A k \in P : k.co # e BY <1>3, <3>2
    <3> QED BY <3>1, <3>2
  <2> QED BY <2>2, <2>3 DEF GivenTo
<1>9. R \in SUBSET Nodes BY <1>0, <1>1
<1>10. delivered'[c] = delivered[c] BY <1>2, <1>3
<1> QED BY <1>6, <1>8, <1>9, <1>10

(* A region that empties the queues D, and leaves nobody waiting in them.  *)
LEMMA DrainMove ==
  ASSUME LocalInv, NEW c \in Coroutines, armed[c] = <<>>, armed' = armed, wgen' = wgen, NEW D,
         \A e \in Coroutines \ {c} : Bystander(e),
         \A k \in Keys : Queue(k)' = Queue(k) \/ (k \in D /\ Queue(k)' = <<>>),
         \A k \in Keys : \A n \in Range(Queue(k)) :
           k \in D /\ NodePending(n) /\ n.co # c => delivered'[n.co].gen = wgen[n.co]
  PROVE  QueueMove(c, {})
<1>1. Range(armed[c]) = {} BY DEF Range
<1>2. IsInjective(<<>>) /\ Range(<<>>) = {} BY DEF IsInjective, Range
<1>3. ASSUME NEW k \in Keys, NEW n \in Range(Queue(k)), CanClaim(n.co)', n \in Range(armed[n.co])
      PROVE  n \in Range(Queue(k)')
  <2>1. n.co \in Coroutines
    <3>1. Queue(k) \in Seq(Nodes) BY QueueTyped
    <3>2. n \in Nodes BY <3>1, RangeFacts
    <3> QED BY <3>2 DEF Nodes
  <2>2. n.co # c BY <1>1, <1>3
  <2>3. Live(n) /\ n.gen = wgen[n.co] BY <1>3, <2>1, LiveFacts
  <2>4. CanClaim(n.co) BY <1>3, <2>1, <2>2, BystanderFacts
  <2>5. NodePending(n) BY <2>3, <2>4 DEF NodePending
  <2>6. delivered'[n.co].gen # wgen[n.co] BY <1>3 DEF CanClaim
  <2>7. k \notin D BY <2>2, <2>5, <2>6
  <2> QED BY <2>7
<1> QED BY <1>1, <1>2, <1>3 DEF QueueMove

LEMMA DrainEffect ==
  ASSUME LocalInv, NEW c \in Coroutines, Step(c), NEW R \in SUBSET Nodes, QueueMove(c, {}),
         GivenTo(c, R), armed[c] = <<>>, delivered'[c] = delivered[c],
         UNCHANGED <<req, wgen, armed, life, cancelled, cancelQ>>,
         pc[c] \in {"call", "wake_join"}, pc'[c] \in {"idle", "wake", "done"},
         \A s \in Coroutines : waitQ'[s] = waitQ[s] \/ (s = c /\ waitQ'[s] = <<>>),
         pc[c] = "wake_join" => waitQ'[c] = <<>>
  PROVE  Effect(c)
<1>0. Types /\ Local(c) /\ Local(c)' BY DEF LocalInv, Step
<1>1. wakes[c] = <<>> BY <1>0 DEF Local, WakesFits
<1>2. Sticks(c) BY DEF Sticks
<1>3. Ages(c) BY DEF Ages
<1>4. CancelMove(c) BY CancelSameMove DEF Cancelling, InWait
<1>5. JoinMove(c)
  <2> SUFFICES ASSUME NEW s \in Coroutines, life'[s] = "Dead", pc'[s] # "wake_join"
               PROVE  \/ waitQ'[s] = <<>>
                      \/ life[s] = "Dead" /\ pc[s] # "wake_join" /\ waitQ'[s] = waitQ[s]
    BY DEF JoinMove
  <2>1. CASE s = c
    <3>1. pc[c] = "call" => life[c] = "Running" BY <1>0 DEF Local, LifeFits, Early
    <3>2. pc[c] = "wake_join" BY <2>1, <3>1
    <3> QED BY <2>1, <3>2
  <2>2. CASE s # c
    <3>1. Bystander(s) BY <2>2 DEF Step
    <3> QED BY <2>2, <3>1, BystanderFacts
  <2> QED BY <2>1, <2>2
<1>6. OweMove(c)
  <2>1. Owed(c) = {} BY <1>1 DEF Owed, Range
  <2>2. Owed(c)' = Range(wakes'[c]) BY DEF Owed
  <2>3. ASSUME NEW e \in Coroutines \ {c}, delivered'[e] # delivered[e]
        PROVE  \E n \in Owed(c)' :
                 NodePending(n) /\ n.co = e /\ (req[e].op = "select" => winner'[e] = CaseWinner(n.case))
    BY <2>2, <2>3 DEF GivenTo
  <2> QED BY <2>1, <2>3 DEF OweMove, Asleep
<1> QED BY <1>2, <1>3, <1>4, <1>5, <1>6 DEF Effect

(* The joiners of a coroutine that has finished.                           *)
LEMMA WakeJoinEffect ==
  ASSUME LocalInv, NEW c \in Coroutines, Step(c), WakeJoin(c)
  PROVE  Effect(c)
<1> DEFINE a == Pending(waitQ[c], c)
           w == {i \in DOMAIN a : \A j \in 1 .. i - 1 : a[j].co # a[i].co}
<1> PICK all : all = a OBVIOUS
<1> PICK won : won = w OBVIOUS
<1> PICK P : P = {PeerClaim(all[i], Result("Join")) : i \in won} OBVIOUS
<1> PICK R : R = {all[i] : i \in won} OBVIOUS
<1>0. Types /\ Local(c) BY DEF LocalInv
<1>1. /\ pc[c] = "wake_join" /\ waitQ' = [waitQ EXCEPT ![c] = <<>>]
      /\ Claim(P) /\ wakes' = [wakes EXCEPT ![c] = Keep(all, {all[i] : i \in won})]
      /\ pc' = [pc EXCEPT ![c] = IF all = <<>> THEN "done" ELSE "wake"]
      /\ UNCHANGED <<req, wgen, armed, life, chan, cancelled, cancelQ>>
  BY DEF WakeJoin, At, Goto, callVars, roundVars, lifeVars, cancelVars
<1>2. pc'[c] \in {"done", "wake"}
  <2>1. pc \in [Coroutines -> Places] BY <1>0 DEF Types
  <2> QED BY <1>1, <2>1
<1>3. armed[c] = <<>> BY <1>0, <1>1 DEF Local, ArmedFits, Early
<1>4. /\ all \in Seq(Nodes)
      /\ \A n : n \in Range(all) <=> n \in Range(waitQ[c]) /\ NodePending(n) /\ n.co # c
  <2>1. waitQ[c] \in Seq(Nodes) BY <1>0 DEF Types
  <2> QED BY <2>1, PendingFacts
<1>5. /\ won \subseteq DOMAIN all
      /\ \A i \in DOMAIN all : (\A j \in 1 .. i - 1 : all[j].co # all[i].co) => i \in won
      /\ \A n : n \in R <=> \E i \in won : n = all[i]
  OBVIOUS
<1> HIDE DEF a, w
<1>6. \A k \in P : \E i \in won : k.co = all[i].co /\ k.case = all[i].case BY DEF PeerClaim
<1>7. \A i \in won : \E k \in P : k.co = all[i].co
  <2> TAKE i \in won
  <2>1. PeerClaim(all[i], Result("Join")) \in P OBVIOUS
  <2>2. PeerClaim(all[i], Result("Join")).co = all[i].co BY DEF PeerClaim
  <2> QED BY <2>1, <2>2
<1>8. wakes'[c] = Keep(all, R) BY <1>0, <1>1 DEF Types
<1>9. /\ delivered'[c] = delivered[c]
      /\ \A n \in Range(all) : delivered'[n.co].gen = wgen[n.co]
      /\ R \in SUBSET Nodes /\ GivenTo(c, R)
  <2>1. Drains(c, all, won, R, P) BY <1>1, <1>4, <1>5, <1>6, <1>7, <1>8 DEF Drains
  <2> QED BY <2>1, DrainGiven
<1>10. /\ waitQ'[c] = <<>>
       /\ \A s \in Coroutines \union {Never} : s # c => waitQ'[s] = waitQ[s]
  BY <1>0, <1>1 DEF Types
<1>11. QueueMove(c, {})
  <2> PICK D : D = {<<"wait", c>>} OBVIOUS
  <2>1. ASSUME NEW k \in Keys PROVE Queue(k)' = Queue(k) \/ (k \in D /\ Queue(k)' = <<>>)
    <3>1. CASE \E x \in Channels : k = <<"send", x>> BY <1>1, <3>1, QueueNames
    <3>2. CASE \E x \in Channels : k = <<"recv", x>> BY <1>1, <3>2, QueueNames
    <3>3. CASE \E x \in Coroutines \union {Never} : k = <<"wait", x>>
      <4>1. PICK x \in Coroutines \union {Never} : k = <<"wait", x>> BY <3>3
      <4>2. Queue(k) = waitQ[x] /\ Queue(k)' = waitQ'[x] BY <4>1, QueueNames
      <4> QED BY <1>10, <4>1, <4>2
    <3> QED BY <3>1, <3>2, <3>3, KeySplit
  <2>2. ASSUME NEW k \in Keys, NEW n \in Range(Queue(k)), k \in D, NodePending(n), n.co # c
        PROVE  delivered'[n.co].gen = wgen[n.co]
    <3>1. Queue(k) = waitQ[c] BY <2>2, QueueNames
    <3> QED BY <1>4, <1>9, <2>2, <3>1
  <2>3. \A e \in Coroutines \ {c} : Bystander(e) BY DEF Step
  <2> QED BY <1>1, <1>3, <2>1, <2>2, <2>3, DrainMove
<1> QED BY <1>1, <1>2, <1>3, <1>9, <1>10, <1>11, DrainEffect

(* close: both queues of the channel are drained.                          *)
LEMMA CloseEffect ==
  ASSUME LocalInv, NEW c \in Coroutines, Step(c), Close(c)
  PROVE  Effect(c)
<1> DEFINE ch == Ch(c)
           s0 == Pending(chan[ch].sendQ, c)
           r0 == Pending(chan[ch].recvQ, c)
           a  == s0 \o r0
           w  == {i \in DOMAIN a : \A j \in 1 .. i - 1 : a[j].co # a[i].co}
<1> PICK sends : sends = s0 OBVIOUS
<1> PICK recvs : recvs = r0 OBVIOUS
<1> PICK all : all = a OBVIOUS
<1> PICK won : won = w OBVIOUS
<1> DEFINE rec(i) == PeerClaim(all[i],
                       Result(IF i <= Len(sends) THEN "SendClosed" ELSE "RecvClosed"))
<1> PICK P : P = {rec(i) : i \in won} OBVIOUS
<1> PICK R : R = {all[i] : i \in won} OBVIOUS
<1>0. Types /\ ChanTypes /\ Local(c) /\ pc \in [Coroutines -> Places] BY DEF LocalInv, Types
<1>1. /\ pc[c] = "call" /\ req[c].op = "close"
      /\ UNCHANGED <<req, wgen, armed, life, waitQ, cancelled, cancelQ>>
  BY DEF Close, Serving, At, restOfSend, callVars, roundVars, lifeVars, cancelVars
<1>2. ch \in Channels /\ armed[c] = <<>>
  <2>1. ch \in Channels BY <1>0, <1>1, PlainChannel
  <2> QED BY <1>0, <1>1, <2>1 DEF Local, ArmedFits, Early
<1>3. CASE chan[ch].closed
  <2>1. pc' = [pc EXCEPT ![c] = "idle"] /\ UNCHANGED <<chan, delivered, winner, wakes>>
    BY <1>3 DEF Close, Return, Goto, claimVars
  <2>2. pc'[c] = "idle" BY <1>0, <2>1
  <2> QED BY <1>1, <2>1, <2>2, ReturnEffect DEF Early
<1>4. CASE ~chan[ch].closed
  <2>1. /\ chan' = [chan EXCEPT ![ch] =
                      [chan[ch] EXCEPT !.closed = TRUE, !.sendQ = <<>>, !.recvQ = <<>>]]
        /\ Claim(P) /\ AfterCommit(c, 0, Keep(all, {all[i] : i \in won}))
    BY <1>4 DEF Close
  <2>2. chan'[ch].sendQ = <<>> /\ chan'[ch].recvQ = <<>> /\ \A x \in Channels \ {ch} : chan'[x] = chan[x]
    <3> PICK q : q = [chan[ch] EXCEPT !.closed = TRUE, !.sendQ = <<>>, !.recvQ = <<>>] OBVIOUS
    <3>1. chan' = [chan EXCEPT ![ch] = q] BY <2>1
    <3>2. chan[ch] \in ChannelType(Capacity[ch]) BY <1>0, <1>2 DEF ChanTypes, RingOK
    <3>3. q.sendQ = <<>> /\ q.recvQ = <<>> BY <3>2 DEF ChannelType
    <3> HIDE DEF ch
    <3> QED BY <1>0, <1>2, <3>1, <3>3 DEF ChanTypes
  <2>3. /\ won \subseteq DOMAIN all
        /\ \A i \in DOMAIN all : (\A j \in 1 .. i - 1 : all[j].co # all[i].co) => i \in won
        /\ \A n : n \in R <=> \E i \in won : n = all[i]
    OBVIOUS
  <2>4. /\ sends \in Seq(Nodes) /\ recvs \in Seq(Nodes)
        /\ \A n : n \in Range(sends) <=> n \in Range(chan[ch].sendQ) /\ NodePending(n) /\ n.co # c
        /\ \A n : n \in Range(recvs) <=> n \in Range(chan[ch].recvQ) /\ NodePending(n) /\ n.co # c
    <3>1. chan[ch].sendQ \in Seq(Nodes) /\ chan[ch].recvQ \in Seq(Nodes) BY <1>0, <1>2, QueueTypes
    <3> HIDE DEF ch
    <3> QED BY <3>1, PendingFacts
  <2>5. \A i \in won : rec(i).co = all[i].co /\ rec(i).case = all[i].case BY DEF PeerClaim
  <2>6. all = sends \o recvs OBVIOUS
  <2> HIDE DEF s0, r0, a, w, rec, ch
  <2>7. /\ all \in Seq(Nodes)
        /\ \A n : n \in Range(all) <=>
             /\ n \in Range(chan[ch].sendQ) \/ n \in Range(chan[ch].recvQ)
             /\ NodePending(n) /\ n.co # c
    <3>1. all \in Seq(Nodes) /\ \A n : n \in Range(all) <=> n \in Range(sends) \/ n \in Range(recvs)
      BY <2>4, <2>6, Appended
    <3> QED BY <2>4, <3>1
  <2>8. wakes'[c] = Keep(all, R) BY <1>0, <1>1, <2>1 DEF Types, AfterCommit
  <2>9. pc'[c] \in {"idle", "wake"}
    <3> PICK K : K = Keep(all, {all[i] : i \in won}) OBVIOUS
    <3>1. CASE K = <<>>
      <4>1. pc' = [pc EXCEPT ![c] = "idle"] BY <2>1, <3>1 DEF AfterCommit
      <4> QED BY <1>0, <4>1
    <3>2. CASE K # <<>>
      <4>1. pc' = [pc EXCEPT ![c] = "wake"] BY <2>1, <3>2 DEF AfterCommit
      <4> QED BY <1>0, <4>1
    <3> QED BY <3>1, <3>2
  <2>10. /\ delivered'[c] = delivered[c]
         /\ \A n \in Range(all) : delivered'[n.co].gen = wgen[n.co]
         /\ R \in SUBSET Nodes /\ GivenTo(c, R)
    <3>1. \A k \in P : \E i \in won : k.co = all[i].co /\ k.case = all[i].case BY <2>5
    <3>2. \A i \in won : \E k \in P : k.co = all[i].co
      <4> TAKE i \in won
      <4>1. rec(i) \in P OBVIOUS
      <4> QED BY <2>5, <4>1
    <3>3. \A n \in Range(all) : NodePending(n) /\ n.co # c BY <2>7
    <3>4. Drains(c, all, won, R, P) BY <2>1, <2>3, <2>7, <2>8, <3>1, <3>2, <3>3 DEF Drains
    <3> QED BY <3>4, DrainGiven
  <2>11. QueueMove(c, {})
    <3> PICK D : D = {<<"send", ch>>, <<"recv", ch>>} OBVIOUS
    <3>1. ASSUME NEW k \in Keys PROVE Queue(k)' = Queue(k) \/ (k \in D /\ Queue(k)' = <<>>)
      <4>1. CASE \E x \in Channels : k = <<"send", x>>
        <5>1. PICK x \in Channels : k = <<"send", x>> BY <4>1
        <5>2. Queue(k) = chan[x].sendQ /\ Queue(k)' = chan'[x].sendQ BY <5>1, QueueNames
        <5> QED BY <2>2, <5>1, <5>2
      <4>2. CASE \E x \in Channels : k = <<"recv", x>>
        <5>1. PICK x \in Channels : k = <<"recv", x>> BY <4>2
        <5>2. Queue(k) = chan[x].recvQ /\ Queue(k)' = chan'[x].recvQ BY <5>1, QueueNames
        <5> QED BY <2>2, <5>1, <5>2
      <4>3. CASE \E x \in Coroutines \union {Never} : k = <<"wait", x>> BY <1>1, <4>3, QueueNames
      <4> QED BY <4>1, <4>2, <4>3, KeySplit
    <3>2. ASSUME NEW k \in Keys, NEW n \in Range(Queue(k)), k \in D, NodePending(n), n.co # c
          PROVE  delivered'[n.co].gen = wgen[n.co]
      <4>1. Queue(k) = chan[ch].sendQ \/ Queue(k) = chan[ch].recvQ BY <3>2, QueueNames
      <4> QED BY <2>7, <2>10, <3>2, <4>1
    <3>3. \A e \in Coroutines \ {c} : Bystander(e) BY DEF Step
    <3> QED BY <1>1, <1>2, <3>1, <3>2, <3>3, DrainMove
  <2> QED BY <1>1, <1>2, <2>9, <2>10, <2>11, DrainEffect
<1> QED BY <1>3, <1>4

-----------------------------------------------------------------------------
(* Every action has the effect that keeps the plane's invariant.           *)
LEMMA ActionEffect ==
  ASSUME LocalInv, NEW c \in Coroutines, Step(c), Call(c) \/ Handler(c) \/ Resume(c)
  PROVE  Effect(c)
<1>1. CASE Call(c) BY <1>1, CallEffect
<1>2. CASE ChannelStep(c)
  <2>1. CASE SendNow(c) \/ SendOnClosed(c) \/ RecvNow(c) \/ RecvOnClosed(c) BY <2>1, PlainEffects
  <2>2. CASE TrySendFull(c) \/ TryRecvEmpty(c) BY <2>2, ReturnEffects
  <2>3. CASE ParkSend(c) \/ ParkRecv(c) BY <2>3, ParkOnEffect
  <2>4. CASE ReserveLarge(c) \/ FinishLarge(c) BY <2>4, LargeEffects
  <2>5. CASE Close(c) BY <2>5, CloseEffect
  <2> QED BY <1>2, <2>1, <2>2, <2>3, <2>4, <2>5 DEF ChannelStep
<1>3. CASE SelectStep(c)
  <2>1. CASE SelectBegin(c) BY <2>1, SelectBeginEffect
  <2>2. CASE SelectInline(c) \/ Retry(c) BY <2>2, SelectEffects
  <2>3. CASE SelectInlineNone(c) BY <2>3, NothingCommittedEffect DEF SelectInlineNone, At
  <2>4. CASE ScanNone(c) BY <2>4, NothingCommittedEffect DEF ScanNone, At
  <2>5. CASE ScanBegin(c) \/ Probe(c) BY <2>5, ReturnEffects
  <2>6. CASE Register(c) BY <2>6, RegisterEffect
  <2>7. CASE RegisterWon(c) \/ ArmEnter(c) \/ ArmFinish(c) BY <2>7, ParkEffects
  <2>8. CASE SelectDone(c) BY <2>8, OwnCleanups
  <2> QED BY <1>3, <2>1, <2>2, <2>3, <2>4, <2>5, <2>6, <2>7, <2>8 DEF SelectStep
<1>4. CASE ParkStep(c)
  <2>1. CASE ParkUndone(c) BY <2>1, OwnCleanups
  <2>2. CASE ParkEnter(c) \/ ParkSleep(c) BY <2>2, ParkEffects
  <2>3. CASE ParkRecheck(c) BY <2>3, ParkRecheckEffect
  <2> QED BY <1>4, <2>1, <2>2, <2>3 DEF ParkStep
<1>5. CASE JoinStep(c)
  <2>1. CASE JoinStart(c) BY <2>1, JoinStartEffect
  <2>2. CASE JoinPark(c) BY <2>2, JoinParkEffect
  <2>3. CASE JoinLate(c) BY <2>3, OwnCleanups
  <2>4. CASE Finish(c) BY <2>4, ReturnEffects
  <2>5. CASE WakeJoin(c) BY <2>5, WakeJoinEffect
  <2> QED BY <1>5, <2>1, <2>2, <2>3, <2>4, <2>5 DEF JoinStep
<1>6. CASE CancelStep(c)
  <2>1. CASE CheckToken(c) BY <2>1, ReturnEffects
  <2>2. CASE RegisterCancel(c) BY <2>2, RegisterCancelEffect
  <2>3. CASE CancelStart(c) BY <2>3, CancelStartEffect
  <2>4. CASE CancelNode(c) BY <2>4, CancelNodeEffect
  <2>5. CASE CancelSkip(c) \/ CancelWake(c) BY <2>5, CancelNextEffects
  <2> QED BY <1>6, <2>1, <2>2, <2>3, <2>4, <2>5 DEF CancelStep
<1>7. CASE Wake(c) BY <1>7, WakeEffect
<1>8. CASE Resume(c) BY <1>8, ResumeEffect
<1> QED BY <1>1, <1>2, <1>3, <1>4, <1>5, <1>6, <1>7, <1>8 DEF Handler

(* The first state satisfies the plane's invariant: every queue is empty.  *)
LEMMA InitPlane == Init => PlaneInv
<1> SUFFICES ASSUME Init PROVE PlaneInv OBVIOUS
<1>1. LocalInv BY InitLocal
<1>2. \A e \in Coroutines : pc[e] = "idle" /\ life[e] = "Running" /\ wgen[e] = 0 /\ wakes[e] = <<>>
  BY DEF Init
<1>3. cancelQ = <<>> /\ cancelled = FALSE
      /\ \A s \in Coroutines \union {Never} : waitQ[s] = <<>>
  BY DEF Init
<1>4. \A ch \in Channels : chan[ch].sendQ = <<>> /\ chan[ch].recvQ = <<>>
  <2> TAKE ch \in Channels
  <2>1. chan[ch] = NewChannel(ch) BY DEF Init
  <2> QED BY <2>1 DEF NewChannel
<1>5. Range(<<>>) = {} /\ IsInjective(<<>>) BY DEF Range, IsInjective
<1>6. \A k \in Keys : Queue(k) = <<>>
  <2> TAKE k \in Keys
  <2>1. CASE \E x \in Channels : k = <<"send", x>> BY <1>4, <2>1, QueueNames
  <2>2. CASE \E x \in Channels : k = <<"recv", x>> BY <1>4, <2>2, QueueNames
  <2>3. CASE \E x \in Coroutines \union {Never} : k = <<"wait", x>> BY <1>3, <2>3, QueueNames
  <2> QED BY <2>1, <2>2, <2>3, KeySplit
<1>7. QueueInv BY <1>5, <1>6 DEF QueueInv
<1>8. RoundQueued BY <1>2 DEF RoundQueued, CanClaim
<1>9. CancelQInv BY <1>3, <1>5 DEF CancelQInv
<1>10. JoinInv BY <1>2 DEF JoinInv
<1>11. CancelInv BY <1>2, <1>3 DEF CancelInv, InWait
<1>12. WakeOwed BY <1>2 DEF WakeOwed, Asleep
<1> QED BY <1>1, <1>7, <1>8, <1>9, <1>10, <1>11, <1>12 DEF PlaneInv

(* Every step keeps the plane's invariant.                                 *)
LEMMA NextPlane == PlaneInv /\ [Next]_vars => PlaneInv'
<1> SUFFICES ASSUME PlaneInv, [Next]_vars PROVE PlaneInv' OBVIOUS
<1>0. LocalInv /\ LocalInv'
  <2>1. LocalInv BY DEF PlaneInv
  <2> QED BY <2>1, NextLocal
<1>1. CASE UNCHANGED vars
  <2>1. /\ UNCHANGED <<life, req, pc, wgen, delivered, armed, winner, scan, wakes, phase, readied>>
        /\ UNCHANGED <<chan, waitQ, cancelled, cancelQ>>
    BY <1>1 DEF vars
  <2>2. \A k : Queue(k)' = Queue(k) BY <2>1 DEF Queue
  <2>3. \A n : KeyOf(n)' = KeyOf(n) /\ (Queued(n)' <=> Queued(n))
    BY <2>1 DEF KeyOf, Queued, Live, NodeSource
  <2>4. \A e : CanClaim(e)' <=> CanClaim(e) BY <2>1 DEF CanClaim, IsSelect
  <2>5. QueueInv' BY <2>2, <2>3 DEF PlaneInv, QueueInv, Keys
  <2>6. RoundQueued'
    <3> SUFFICES ASSUME NEW e \in Coroutines, CanClaim(e)', NEW n \in Range(armed'[e]), Queued(n)'
                 PROVE  n \in Range(Queue(KeyOf(n)))'
      BY DEF RoundQueued
    <3>1. n \in Range(armed[e]) /\ CanClaim(e) /\ Queued(n) BY <2>1, <2>3, <2>4
    <3>2. n \in Range(Queue(KeyOf(n))) BY <3>1 DEF PlaneInv, RoundQueued
    <3>3. KeyOf(n)' = KeyOf(n) BY <2>3
    <3>4. Queue(KeyOf(n))' = Queue(KeyOf(n)) BY <2>1, <3>3 DEF Queue
    <3> QED BY <3>2, <3>4
  <2>7. CancelQInv' BY <2>1 DEF PlaneInv, CancelQInv, Live
  <2>8. JoinInv' BY <2>1, <2>4 DEF PlaneInv, JoinInv
  <2>9. CancelInv' BY <2>1, <2>4 DEF PlaneInv, CancelInv, Cancelling, Claimed
  <2>10. WakeOwed'
    <3>1. /\ \A e : Asleep(e)' <=> Asleep(e)
          /\ \A e : Owed(e)' = Owed(e)
          /\ \A n : CanWake(n)' <=> CanWake(n)
      BY <2>1 DEF Asleep, Completed, Owed, CanWake, NodeCompleted, Live, Completed, IsSelect
    <3> QED BY <3>1 DEF PlaneInv, WakeOwed
  <2> QED BY <1>0, <2>5, <2>6, <2>7, <2>8, <2>9, <2>10 DEF PlaneInv
<1>2. CASE Next
  <2>1. PICK c \in Coroutines : Call(c) \/ Handler(c) \/ Resume(c) BY <1>2 DEF Next
  <2>2. Step(c) BY <1>0, <2>1, ActionStep
  <2>3. Effect(c) BY <1>0, <2>1, <2>2, ActionEffect
  <2> QED BY <1>0, <2>2, <2>3, StepKept
<1> QED BY <1>1, <1>2

(* The plane's invariant holds in every reachable state: the queues hold   *)
(* the nodes of standing rounds and only those (register_waiters,          *)
(* cleanup_waiters), a claimed sleeper is owed its wake-up, and a finished *)
(* child or a cancelled token leaves nobody waiting.                       *)
THEOREM PlaneSafe == Spec => []PlaneInv
<1> QED BY InitPlane, NextPlane, PTL DEF Spec

-----------------------------------------------------------------------------
(* The queue of a node is the one its key names.                           *)
LEMMA QueueOfKey ==
  ASSUME LocalInv, NEW e \in Coroutines, NEW n \in Range(armed[e])
  PROVE  QueueOf(n) = Queue(KeyOf(n))
<1>1. n.co = e /\ armed[e] # <<>> BY LiveFacts
<1>2. PICK k : k = KeyOf(n) OBVIOUS
<1>3. CASE req[e].cases = <<>>
  <2>1. k = <<"wait", Never>> BY <1>1, <1>2, <1>3 DEF KeyOf
  <2>2. Queue(k) = waitQ[Never] BY <2>1, QueueNames
  <2> QED BY <1>1, <1>2, <1>3, <2>2, WaitAssumption DEF QueueOf, NodeSource
<1>4. CASE req[e].cases # <<>>
  <2>1. k = <<req[e].cases[n.case].dir, req[e].cases[n.case].src>> BY <1>1, <1>2, <1>4 DEF KeyOf
  <2>2. k \in Keys BY <1>2, KeyOfNode
  <2> PICK d, s : d = req[e].cases[n.case].dir /\ s = req[e].cases[n.case].src OBVIOUS
  <2>3. NodeSource(n) = s BY <1>1, <1>4 DEF NodeSource
  <2>4. k = <<d, s>> BY <2>1
  <2>5. CASE d = "send" /\ s \in Channels
    <3>1. Queue(k) = chan[s].sendQ BY <2>4, <2>5, QueueNames
    <3> QED BY <1>1, <1>2, <2>3, <2>5, <3>1 DEF QueueOf
  <2>6. CASE d = "recv" /\ s \in Channels
    <3>1. Queue(k) = chan[s].recvQ BY <2>4, <2>6, QueueNames
    <3> QED BY <1>1, <1>2, <2>3, <2>6, <3>1 DEF QueueOf
  <2>7. CASE d = "wait" /\ s \in Coroutines \union {Never}
    <3>1. Queue(k) = waitQ[s] BY <2>4, <2>7, QueueNames
    <3>2. s \notin Channels BY <2>7, WaitAssumption
    <3> QED BY <1>2, <2>3, <3>1, <3>2 DEF QueueOf
  <2> QED BY <2>2, <2>4, <2>5, <2>6, <2>7 DEF Keys
<1> QED BY <1>3, <1>4

(* Queues hold live nodes of the current rounds only, each once and on the *)
(* source and side of its case, and a round that is parked and unclaimed   *)
(* has all its nodes queued, so that a waker can find it.                  *)
THEOREM QueuesMatchRoundsHolds == Spec => []QueuesMatchRounds
<1>1. PlaneInv => QueuesMatchRounds
  <2> SUFFICES ASSUME PlaneInv PROVE QueuesMatchRounds OBVIOUS
  <2>0. LocalInv /\ QueueInv /\ RoundQueued /\ CancelQInv BY DEF PlaneInv
  <2>1. ASSUME NEW q \in Queues PROVE \E k \in Keys : q = Queue(k)
    <3>1. CASE \E ch \in Channels : q = chan[ch].sendQ
      <4>1. PICK ch \in Channels : q = chan[ch].sendQ BY <3>1
      <4>2. <<"send", ch>> \in Keys /\ Queue(<<"send", ch>>) = q BY <4>1, QueueNames
      <4> QED BY <4>2
    <3>2. CASE \E ch \in Channels : q = chan[ch].recvQ
      <4>1. PICK ch \in Channels : q = chan[ch].recvQ BY <3>2
      <4>2. <<"recv", ch>> \in Keys /\ Queue(<<"recv", ch>>) = q BY <4>1, QueueNames
      <4> QED BY <4>2
    <3>3. CASE q \in Range(waitQ)
      <4>1. PICK s \in Coroutines \union {Never} : q = waitQ[s]
        BY <2>0, <3>3 DEF LocalInv, Types, Range
      <4>2. <<"wait", s>> \in Keys /\ Queue(<<"wait", s>>) = q BY <4>1, QueueNames
      <4> QED BY <4>2
    <3> QED BY <2>1, <3>1, <3>2, <3>3 DEF Queues
  <2>2. ASSUME NEW q \in Queues
        PROVE  IsInjective(q) /\ \A n \in Range(q) : Live(n) /\ n.gen = wgen[n.co] /\ QueueOf(n) = q
    <3>1. PICK k \in Keys : q = Queue(k) BY <2>1
    <3>2. IsInjective(Queue(k)) /\ \A n \in Range(Queue(k)) : Queued(n) /\ KeyOf(n) = k
      BY <2>0 DEF QueueInv
    <3>3. ASSUME NEW n \in Range(q) PROVE Live(n) /\ n.gen = wgen[n.co] /\ QueueOf(n) = q
      <4>1. Live(n) /\ KeyOf(n) = k BY <3>1, <3>2 DEF Queued
      <4>2. n.co \in Coroutines
        <5>1. q \in Seq(Nodes) BY <2>0, <3>1, QueueTyped
        <5>2. n \in Nodes BY <5>1, RangeFacts
        <5> QED BY <5>2 DEF Nodes
      <4>3. n \in Range(armed[n.co]) BY <4>1 DEF Live
      <4>4. n.gen = wgen[n.co] BY <2>0, <4>2, <4>3, LiveFacts
      <4>5. QueueOf(n) = Queue(KeyOf(n)) BY <2>0, <4>2, <4>3, QueueOfKey
      <4> QED BY <3>1, <4>1, <4>4, <4>5
    <3> QED BY <3>1, <3>2, <3>3
  <2>3. IsInjective(cancelQ) /\ \A n \in Range(cancelQ) : Live(n) BY <2>0 DEF CancelQInv
  <2>4. ASSUME NEW c \in Coroutines, pc[c] \in InWait, CanClaim(c)
        PROVE  armed[c] # <<>> /\ \A n \in Range(armed[c]) : n \in Range(QueueOf(n))
    <3>1. armed[c] # <<>> BY <2>0, <2>4, ParkedStands
    <3>2. ASSUME NEW n \in Range(armed[c]) PROVE n \in Range(QueueOf(n))
      <4>1. n.co = c /\ Live(n) BY <2>0, LiveFacts
      <4>2. Queued(n) BY <2>4, <4>1 DEF Queued, InWait
      <4>3. n \in Range(Queue(KeyOf(n))) BY <2>0, <2>4, <4>2 DEF RoundQueued
      <4>4. QueueOf(n) = Queue(KeyOf(n)) BY <2>0, QueueOfKey
      <4> QED BY <4>3, <4>4
    <3> QED BY <3>1, <3>2
  <2> QED BY <2>2, <2>3, <2>4 DEF QueuesMatchRounds
<1> QED BY <1>1, PlaneSafe, PTL

(* A coroutine that sleeps although its round is complete has a wake-up on *)
(* its way: a committing region publishes the result and hands the node to *)
(* its handler in one step.                                                *)
THEOREM NoLostWakeupHolds == Spec => []NoLostWakeup
<1>1. PlaneInv => NoLostWakeup
  <2> SUFFICES ASSUME PlaneInv, NEW c \in Coroutines, Completed(c), life[c] = "Waiting", At(c, "blocked")
               PROVE  \E d \in Coroutines : \E n \in Range(wakes[d]) : n.co = c /\ CanWake(n)
    BY DEF NoLostWakeup
  <2>1. Asleep(c) BY DEF Asleep, At
  <2>2. PICK d \in Coroutines : \E n \in Owed(d) : n.co = c /\ CanWake(n)
    BY <2>1 DEF PlaneInv, WakeOwed
  <2>3. Owed(d) \subseteq Range(wakes[d])
    <3>1. wakes[d] \in Seq(Nodes) BY DEF PlaneInv, LocalInv, Types
    <3>2. pc[d] = "cancel_wake" => wakes[d] # <<>> BY DEF PlaneInv, LocalInv, Local, WakesFits
    <3>3. pc[d] = "cancel_wake" => Head(wakes[d]) \in Range(wakes[d]) BY <3>1, <3>2, HeadFacts
    <3> QED BY <3>3 DEF Owed
  <2> QED BY <2>2, <2>3
<1> QED BY <1>1, PlaneSafe, PTL

(* A wait that a cancelled token covers is claimed, or the cancelling      *)
(* handler still has its node ahead, whichever of registration and         *)
(* cancellation came first (register_cancel, cancel).                      *)
THEOREM NoMissedCancelHolds == Spec => []NoMissedCancel
<1>1. PlaneInv => NoMissedCancel
  <2> SUFFICES ASSUME PlaneInv, cancelled, NEW c \in Coroutines,
                      req[c].op \in {"recv_cancel", "join_cancel"}, pc[c] \in InWait, CanClaim(c)
               PROVE  \E d \in Coroutines :
                        pc[d] \in {"cancel", "cancel_wake"} /\ Head(armed[c]) \in Range(wakes[d])
    BY DEF NoMissedCancel
  <2>1. CancelInv BY DEF PlaneInv
  <2> QED BY <2>1 DEF CancelInv, CancelOps, Cancelling
<1> QED BY <1>1, PlaneSafe, PTL

(* Nobody sleeps on a child that is dead and past its wake-up of joiners:  *)
(* the second look (JoinPark) and the draining of the Join source agree.   *)
THEOREM NoMissedJoinHolds == Spec => []NoMissedJoin
<1>1. PlaneInv => NoMissedJoin
  <2> SUFFICES ASSUME PlaneInv, NEW c \in Coroutines, pc[c] \in InWait, CanClaim(c),
                      NEW i \in Cases(c), Case(c, i).dir = "wait", life[Case(c, i).src] = "Dead",
                      ~At(Case(c, i).src, "wake_join")
               PROVE  FALSE
    BY DEF NoMissedJoin
  <2>0. LocalInv /\ Local(c) /\ RoundQueued /\ JoinInv BY DEF PlaneInv, LocalInv
  <2>1. armed[c] # <<>> BY <2>0, ParkedStands
  <2>2. req[c].cases # <<>> BY DEF Cases
  <2>3. armed[c] = RoundOf(c, req[c].cases, wgen[c]) BY <2>0, <2>1 DEF Local, ArmedFits
  <2> PICK n : n = Node(c, i) OBVIOUS
  <2>4. n \in Range(armed[c]) BY <2>2, <2>3 DEF RoundOf, Node, Cases, Range
  <2>5. n.co = c /\ n.case = i /\ Live(n) BY <2>0, <2>4, LiveFacts DEF Node
  <2>6. Queued(n) BY <2>5 DEF Queued, InWait
  <2> PICK s : s = Case(c, i).src OBVIOUS
  <2>7. KeyOf(n) = <<"wait", s>> BY <2>2, <2>5 DEF KeyOf, Case
  <2>8. KeyOf(n) \in Keys BY <2>0, <2>4, KeyOfNode
  <2>9. s \in Coroutines \union {Never} BY <2>7, <2>8 DEF Keys
  <2>10. n \in Range(waitQ[s])
    <3>1. n \in Range(Queue(KeyOf(n))) BY <2>0, <2>4, <2>6 DEF RoundQueued
    <3> QED BY <2>7, <3>1, QueueNames
  <2>11. s \in Coroutines
    <3>1. req[c] \in Requests /\ req[c].op \in WaitOps BY <2>0, <2>1, RoundRequest
    <3>2. s = req[c].cases[i].src /\ req[c].cases[i].dir = "wait" /\ i \in DOMAIN req[c].cases
      BY <2>2 DEF Case, Cases
    <3>3. CASE req[c].op \in {"send", "send_large", "recv", "recv_cancel", "join", "join_cancel"}
      <4>1. DOMAIN req[c].cases = {1}
        BY <3>1, <3>3, RequestFacts DEF SendOps, RecvOps, JoinOps
      <4>2. i = 1 BY <3>2, <4>1
      <4> QED BY <3>1, <3>2, <3>3, <4>2, RequestFacts DEF SendOps, RecvOps, JoinOps
    <3>4. CASE req[c].op = "select"
      <4>1. req[c].cases \in Seq(SelectCases) BY <3>1, <3>4, RequestFacts
      <4>2. req[c].cases[i] \in SelectCases BY <3>2, <4>1, ElementOfSeq
      <4> QED BY <3>2, <4>2 DEF SelectCases
    <3> QED BY <3>1, <3>3, <3>4 DEF WaitOps
  <2> QED BY <2>0, <2>5, <2>10, <2>11 DEF JoinInv, At
<1> QED BY <1>1, PlaneSafe, PTL

(* Once a wait generation is claimed nobody claims it again: its result is *)
(* only ever taken.                                                        *)
THEOREM CommittedOnceHolds == Spec => CommittedOnce
<1>1. LocalInv /\ [Next]_vars => \A e \in Coroutines : Sticks(e)
  <2> SUFFICES ASSUME LocalInv, [Next]_vars, NEW e \in Coroutines PROVE Sticks(e) OBVIOUS
  <2>1. CASE UNCHANGED vars BY <2>1 DEF vars, Sticks
  <2>2. CASE Next
    <3>1. PICK c \in Coroutines : Call(c) \/ Handler(c) \/ Resume(c) BY <2>2 DEF Next
    <3>2. Step(c) BY <3>1, ActionStep
    <3>3. CASE e = c
      <4>1. Effect(c) BY <3>1, <3>2, ActionEffect
      <4> QED BY <3>3, <4>1 DEF Effect
    <3>4. CASE e # c
      <4>1. Bystander(e) BY <3>2, <3>4 DEF Step
      <4> QED BY <4>1, BystanderFacts
    <3> QED BY <3>3, <3>4
  <2> QED BY <2>1, <2>2
<1>2. (\A e \in Coroutines : Sticks(e)) =>
        [\A c \in Coroutines :
           delivered[c].gen = wgen[c] /\ wgen[c] # 0 /\ wgen'[c] = wgen[c] =>
             /\ delivered'[c].gen = wgen[c]
             /\ delivered'[c].res \in {delivered[c].res, NoResult}]_vars
  BY DEF Sticks
<1> QED BY <1>1, <1>2, LocalSafe, PTL DEF Spec, CommittedOnce
=============================================================================
