----------------------------- MODULE WaitSystem -----------------------------
(***************************************************************************)
(* The waiting coroutines of the runtime: channel requests, select, Join,  *)
(* cancellation, the two-phase park and the wake-ups                       *)
(* (runtime/world/wait_impl.rs, runtime/world/sync_impl.rs).  Handlers of  *)
(* different coroutines interleave between their lock regions, where the   *)
(* code looks again at what may have changed.                              *)
(***************************************************************************)
EXTENDS Select

Init ==
  /\ life = [c \in Coroutines |-> "Running"]
  /\ calls = [c \in Coroutines |-> 0]
  /\ req = [c \in Coroutines |-> NoRequest]
  /\ pc = [c \in Coroutines |-> "idle"]
  /\ out = [c \in Coroutines |-> NoResult]
  /\ wgen = [c \in Coroutines |-> 0]
  /\ delivered = [c \in Coroutines |-> [gen |-> 0, res |-> NoResult]]
  /\ armed = [c \in Coroutines |-> <<>>]
  /\ readied = [c \in Coroutines |-> 0]
  /\ phase = [c \in Coroutines |-> "Building"]
  /\ winner = [c \in Coroutines |-> Unset]
  /\ scan = [c \in Coroutines |-> NoScan]
  /\ wakes = [c \in Coroutines |-> <<>>]
  /\ chan = [ch \in Channels |-> NewChannel(ch)]
  /\ waitQ = [s \in Coroutines \union {Never} |-> <<>>]
  /\ cancelled = FALSE
  /\ cancelQ = <<>>

planeVars == <<life, roundVars, claimVars, readied, phase, scan, chan, waitQ, cancelVars>>

(* The program makes its next request.                                     *)
Call(c) ==
  /\ At(c, "idle") /\ life[c] = "Running"
  /\ calls[c] < MaxCalls
  /\ \E r \in Menu[c] : req' = [req EXCEPT ![c] = r]
  /\ calls' = [calls EXCEPT ![c] = @ + 1]
  /\ out' = [out EXCEPT ![c] = NoResult]
  /\ Goto(c, "call")
  /\ UNCHANGED <<planeVars, wakes>>

(* The wake-ups a handler owes for the nodes it committed.                 *)
Wake(c) ==
  /\ At(c, "wake")
  /\ WakeNode(Head(wakes[c]))
  /\ wakes' = [wakes EXCEPT ![c] = Tail(@)]
  /\ Goto(c, CASE Len(wakes[c]) > 1 -> "wake"
               [] Len(wakes[c]) = 1 /\ IsSelect(c) -> "cleanup"
               [] Len(wakes[c]) = 1 /\ life[c] = "Dead" -> "done"
               [] OTHER -> "idle")
  /\ UNCHANGED <<callVars, out, wgen, claimVars, phase, scan, cancelled>>

-----------------------------------------------------------------------------
(***************************************************************************)
(* park_current_wait: a result published before the park undoes it; after  *)
(* Waiting is published the result is looked at once more.                 *)
(***************************************************************************)
ParkUndone(c) ==
  /\ At(c, "park") /\ Completed(c)
  /\ life' = [life EXCEPT ![c] = "Running"]
  /\ Cleanup(c)
  /\ TakeDelivered(c)
  /\ Goto(c, "idle")
  /\ UNCHANGED <<callVars, wgen, readied, winner, phase, scan, wakes, cancelled>>

ParkEnter(c) ==
  /\ At(c, "park") /\ ~Completed(c)
  /\ Goto(c, "sleep")
  /\ UNCHANGED <<planeVars, callVars, out, wakes>>

ParkSleep(c) ==
  /\ At(c, "sleep")
  /\ life' = [life EXCEPT ![c] = "Waiting"]
  /\ Goto(c, "recheck")
  /\ UNCHANGED <<callVars, out, roundVars, claimVars, readied, phase, scan, wakes, chan, waitQ, cancelVars>>

(* Mutant: nothing is looked at after Waiting is published.                *)
ParkBlind(c) ==
  /\ At(c, "recheck")
  /\ Goto(c, "blocked")
  /\ UNCHANGED <<planeVars, callVars, out, wakes>>

ParkRecheck(c) ==
  LET won == {n \in Range(armed[c]) : NodeCompleted(n)}
  IN  /\ At(c, "recheck")
      /\ IF won # {} THEN \E n \in won : WakeNode(n)
         ELSE UNCHANGED <<lifeVars, queueVars>>
      /\ Goto(c, "blocked")
      /\ UNCHANGED <<callVars, out, wgen, claimVars, phase, scan, wakes, cancelled>>

(* The scheduler enters a runnable coroutine, which takes its result.      *)
Resume(c) ==
  /\ At(c, "blocked") /\ life[c] = "Runnable"
  /\ life' = [life EXCEPT ![c] = "Running"]
  /\ TakeDelivered(c)
  /\ Goto(c, "idle")
  /\ UNCHANGED <<callVars, roundVars, readied, winner, phase, scan, wakes, chan, waitQ, cancelVars>>

-----------------------------------------------------------------------------
(***************************************************************************)
(* Join: begin_join_wait looks at the child twice, with the round opened   *)
(* in between; the finishing child drains the queue after it is Dead.      *)
(***************************************************************************)
Child(c) == req[c].cases[1].src
IsJoin(c) == req[c].op \in {"join", "join_cancel"}

joinRest == <<callVars, readied, winner, phase, scan, wakes, chan, cancelled>>

JoinStart(c) ==
  /\ Serving(c, {"join"}) \/ (At(c, "checked") /\ IsJoin(c))
  /\ IF life[Child(c)] = "Dead"
     THEN /\ Return(c, Result("Join"))
          /\ UNCHANGED <<wgen, delivered, armed>>
     ELSE /\ BeginWait(c)
          /\ armed' = [armed EXCEPT ![c] = <<NewNode(c, 1)>>]
          /\ Goto(c, "join")
          /\ UNCHANGED out
  /\ UNCHANGED <<joinRest, life, waitQ, cancelQ>>

(* Mutant: the child is not looked at again.                               *)
JoinParkBlind(c) ==
  /\ At(c, "join")
  /\ life' = [life EXCEPT ![c] = "Parking"]
  /\ waitQ' = [waitQ EXCEPT ![Child(c)] = Append(@, Node(c, 1))]
  /\ Goto(c, IF req[c].op = "join_cancel" THEN "register_cancel" ELSE "park")
  /\ UNCHANGED <<joinRest, out, roundVars, delivered, cancelQ>>

JoinPark(c) ==
  /\ At(c, "join") /\ life[Child(c)] # "Dead"
  /\ life' = [life EXCEPT ![c] = "Parking"]
  /\ waitQ' = [waitQ EXCEPT ![Child(c)] = Append(@, Node(c, 1))]
  /\ Goto(c, IF req[c].op = "join_cancel" THEN "register_cancel" ELSE "park")
  /\ UNCHANGED <<joinRest, out, roundVars, delivered, cancelQ>>

JoinLate(c) ==
  /\ At(c, "join") /\ life[Child(c)] = "Dead"
  /\ Cleanup(c)
  /\ Return(c, Result("Join"))
  /\ UNCHANGED <<callVars, wgen, lifeVars, claimVars, phase, scan, wakes, cancelled>>

(* finish_coroutine: the completion record is published, then Dead.        *)
Finish(c) ==
  /\ Serving(c, {"finish"})
  /\ life' = [life EXCEPT ![c] = "Dead"]
  /\ Goto(c, "wake_join")
  /\ UNCHANGED <<joinRest, out, roundVars, delivered, waitQ, cancelQ>>

(* Mutant: every joiner is claimed, only the oldest is woken.              *)
WakeOneJoiner(c) ==
  LET all == Pending(waitQ[c], c)
      won == {i \in DOMAIN all : \A j \in 1 .. i - 1 : all[j].co # all[i].co}
  IN  /\ At(c, "wake_join")
      /\ waitQ' = [waitQ EXCEPT ![c] = <<>>]
      /\ Claim({PeerClaim(all[i], Result("Join")) : i \in won})
      /\ wakes' = [wakes EXCEPT ![c] = SubSeq(all, 1, IF all = <<>> THEN 0 ELSE 1)]
      /\ Goto(c, IF all = <<>> THEN "done" ELSE "wake")
      /\ UNCHANGED <<callVars, out, roundVars, lifeVars, phase, scan, chan, cancelVars>>

WakeJoin(c) ==
  LET all == Pending(waitQ[c], c)
      won == {i \in DOMAIN all : \A j \in 1 .. i - 1 : all[j].co # all[i].co}
  IN  /\ At(c, "wake_join")
      /\ waitQ' = [waitQ EXCEPT ![c] = <<>>]
      /\ Claim({PeerClaim(all[i], Result("Join")) : i \in won})
      /\ wakes' = [wakes EXCEPT ![c] = Keep(all, {all[i] : i \in won})]
      /\ Goto(c, IF all = <<>> THEN "done" ELSE "wake")
      /\ UNCHANGED <<callVars, out, roundVars, lifeVars, phase, scan, chan, cancelVars>>

-----------------------------------------------------------------------------
(***************************************************************************)
(* Cancellation.  The token is looked at before the wait, and again when   *)
(* the enqueued node registers with the source.                            *)
(***************************************************************************)
CheckToken(c) ==
  /\ Serving(c, {"recv_cancel", "join_cancel"})
  /\ IF cancelled THEN Return(c, Result("Cancelled"))
     ELSE Goto(c, "checked") /\ UNCHANGED out
  /\ UNCHANGED <<planeVars, callVars, wakes>>

(* cancel_wait_node: claim the node under its source lock.                 *)
CancelClaim(n) ==
  IF NodePending(n) THEN Claim({PeerClaim(n, Result("Cancelled"))})
  ELSE UNCHANGED claimVars

(* Mutant: the node is registered with a source that was cancelled.        *)
RegisterLate(c) ==
  /\ At(c, "register_cancel")
  /\ cancelQ' = Append(cancelQ, Head(armed[c]))
  /\ Goto(c, "park")
  /\ UNCHANGED <<callVars, out, roundVars, lifeVars, claimVars, phase, scan, wakes, chan,
                 waitQ, cancelled>>

RegisterCancel(c) ==
  /\ At(c, "register_cancel")
  /\ IF cancelled
     THEN /\ CancelClaim(Head(armed[c]))
          /\ UNCHANGED cancelQ
     ELSE /\ cancelQ' = Append(cancelQ, Head(armed[c]))
          /\ UNCHANGED claimVars
  /\ Goto(c, "park")
  /\ UNCHANGED <<callVars, out, roundVars, lifeVars, phase, scan, wakes, chan, waitQ, cancelled>>

(* cancel_source_cancel: take the registered nodes once, then claim and    *)
(* wake them one after the other.                                          *)
CancelStart(c) ==
  /\ Serving(c, {"cancel"})
  /\ wakes' = [wakes EXCEPT ![c] = IF cancelled THEN <<>> ELSE cancelQ]
  /\ cancelled' = TRUE
  /\ cancelQ' = IF cancelled THEN cancelQ ELSE <<>>
  /\ IF wakes'[c] = <<>> THEN Return(c, Result("Done"))
     ELSE Goto(c, "cancel") /\ UNCHANGED out
  /\ UNCHANGED <<callVars, roundVars, lifeVars, claimVars, phase, scan, chan, waitQ>>

CancelNode(c) ==
  /\ At(c, "cancel") /\ NodePending(Head(wakes[c]))
  /\ CancelClaim(Head(wakes[c]))
  /\ Goto(c, "cancel_wake")
  /\ UNCHANGED <<callVars, out, roundVars, lifeVars, phase, scan, wakes, chan, waitQ, cancelVars>>

(* The next node, or the end of the request.                               *)
CancelNext(c) ==
  /\ wakes' = [wakes EXCEPT ![c] = Tail(@)]
  /\ IF Len(wakes[c]) = 1 THEN Return(c, Result("Done"))
     ELSE Goto(c, "cancel") /\ UNCHANGED out

CancelSkip(c) ==
  /\ At(c, "cancel") /\ ~NodePending(Head(wakes[c]))
  /\ CancelNext(c)
  /\ UNCHANGED <<planeVars, callVars>>

CancelWake(c) ==
  /\ At(c, "cancel_wake")
  /\ WakeNode(Head(wakes[c]))
  /\ CancelNext(c)
  /\ UNCHANGED <<callVars, wgen, claimVars, phase, scan, cancelled>>

-----------------------------------------------------------------------------
ChannelStep(c) ==
  \/ SendNow(c) \/ SendOnClosed(c) \/ TrySendFull(c) \/ ParkSend(c)
  \/ ReserveLarge(c) \/ FinishLarge(c)
  \/ RecvNow(c) \/ RecvOnClosed(c) \/ TryRecvEmpty(c) \/ ParkRecv(c)
  \/ Close(c)

SelectStep(c) ==
  \/ SelectBegin(c) \/ SelectInline(c) \/ SelectInlineNone(c)
  \/ ScanBegin(c) \/ Probe(c) \/ Retry(c) \/ ScanNone(c)
  \/ Register(c) \/ RegisterWon(c)
  \/ ArmEnter(c) \/ ArmFinish(c) \/ SelectDone(c)

ParkStep(c) ==
  ParkUndone(c) \/ ParkEnter(c) \/ ParkSleep(c) \/ ParkRecheck(c)

JoinStep(c) ==
  JoinStart(c) \/ JoinPark(c) \/ JoinLate(c) \/ Finish(c) \/ WakeJoin(c)

CancelStep(c) ==
  \/ CheckToken(c) \/ RegisterCancel(c)
  \/ CancelStart(c) \/ CancelNode(c) \/ CancelSkip(c) \/ CancelWake(c)

Handler(c) ==
  \/ ChannelStep(c) \/ SelectStep(c) \/ ParkStep(c)
  \/ JoinStep(c) \/ CancelStep(c) \/ Wake(c)

Next == \E c \in Coroutines : Call(c) \/ Handler(c) \/ Resume(c)

vars == <<life, calls, req, pc, out, wgen, delivered, armed, readied, phase,
          winner, scan, wakes, chan, waitQ, cancelled, cancelQ>>

(* A handler runs to its end and a runnable coroutine is entered in the    *)
(* end (weak fairness of the scheduler); requests are the program's choice. *)
Fairness == \A c \in Coroutines : WF_vars(Handler(c) \/ Resume(c))

Spec     == Init /\ [][Next]_vars
FairSpec == Spec /\ Fairness

-----------------------------------------------------------------------------
(***************************************************************************)
(* Properties.                                                             *)
(***************************************************************************)
Nodes == [co : Coroutines, gen : 1 .. MaxCalls, case : Nat]

(* Types of the state, and of the queues' contents.                        *)
TypeOK ==
  /\ life \in [Coroutines -> States]
  /\ calls \in [Coroutines -> 0 .. MaxCalls]
  /\ out \in [Coroutines -> CallResults]
  /\ wgen \in [Coroutines -> 0 .. MaxCalls]
  /\ delivered \in [Coroutines -> [gen : 0 .. MaxCalls, res : WaitResults \union {NoResult}]]
  /\ armed \in [Coroutines -> Seq(Nodes)]
  /\ readied \in [Coroutines -> 0 .. MaxCalls]
  /\ phase \in [Coroutines -> {"Building", "Armed"}]
  /\ winner \in [Coroutines -> Nat]
  /\ wakes \in [Coroutines -> Seq(Nodes)]
  /\ \A ch \in Channels :
       /\ chan[ch].len \in 0 .. Capacity[ch]
       /\ chan[ch].ring \in [0 .. Capacity[ch] - 1 -> Slots]
       /\ chan[ch].sendQ \in Seq(Nodes) /\ chan[ch].recvQ \in Seq(Nodes)
  /\ cancelled \in BOOLEAN

(* Queues hold live nodes of the current rounds only, each once and on the *)
(* source and side of its case (a released node left in a FIFO would be    *)
(* read as whatever node reuses its slab slot), and a round that is parked *)
(* and unclaimed has all its nodes queued, so that a waker can find it.    *)
QueueOf(n) ==
  IF NodeSource(n) \notin Channels THEN waitQ[NodeSource(n)]
  ELSE IF req[n.co].cases[n.case].dir = "send" THEN chan[NodeSource(n)].sendQ
  ELSE chan[NodeSource(n)].recvQ

Queues == {chan[ch].sendQ : ch \in Channels} \union {chan[ch].recvQ : ch \in Channels}
          \union Range(waitQ)

InWait == {"park", "sleep", "recheck", "blocked"}

QueuesMatchRounds ==
  /\ \A q \in Queues :
       IsInjective(q) /\ \A n \in Range(q) : Live(n) /\ n.gen = wgen[n.co] /\ QueueOf(n) = q
  /\ IsInjective(cancelQ) /\ \A n \in Range(cancelQ) : Live(n)
  /\ \A c \in Coroutines :
       pc[c] \in InWait /\ CanClaim(c) =>
         armed[c] # <<>> /\ \A n \in Range(armed[c]) : n \in Range(QueueOf(n))

(* A coroutine that is parked although its round is complete has a wake-up *)
(* on its way: some handler still owes it, or its own re-check does.       *)
NoLostWakeup ==
  \A c \in Coroutines :
    Completed(c) /\ life[c] = "Waiting" /\ At(c, "blocked") =>
      \E d \in Coroutines : \E n \in Range(wakes[d]) : n.co = c /\ CanWake(n)

(* Nobody is made runnable without a result, and no node of the round      *)
(* outlives the wake-up.                                                   *)
RunnableHasResult ==
  \A c \in Coroutines :
    life[c] = "Runnable" => Completed(c) /\ armed[c] = <<>> /\ readied[c] = wgen[c]

(* Between lock regions no committable pair is left behind: no waiting     *)
(* receiver beside a message or a closed channel, no waiting sender beside *)
(* a free slot or a closed channel, and no waiting pair.                   *)
WaitingTo(q) == {n \in Range(q) : NodePending(n)}

NoMissedMatch ==
  \A ch \in Channels :
    LET senders   == WaitingTo(chan[ch].sendQ)
        receivers == WaitingTo(chan[ch].recvQ)
    IN  /\ receivers # {} => ~Buffered(ch) /\ ~chan[ch].closed
        /\ senders # {} => ~SlotAvailable(ch) /\ ~chan[ch].closed
        /\ \A s \in senders, r \in receivers : s.co = r.co

(* expressions.md: recv blocks until it receives or the channel is closed; *)
(* a receiver does not stay blocked beside a message.                      *)
BlockedReceiver(c, ch) == \E n \in WaitingTo(chan[ch].recvQ) : n.co = c

MessagesReachReceivers ==
  \A c \in Coroutines, ch \in Channels :
    BlockedReceiver(c, ch) /\ Buffered(ch) ~> ~BlockedReceiver(c, ch)

(* A wait that a cancelled token covers is claimed, or the cancelling      *)
(* handler still has its node ahead, whichever of registration and         *)
(* cancellation came first.                                                *)
NoMissedCancel ==
  cancelled =>
    \A c \in Coroutines :
      /\ req[c].op \in {"recv_cancel", "join_cancel"}
      /\ pc[c] \in InWait /\ CanClaim(c)
      => \E d \in Coroutines :
           pc[d] \in {"cancel", "cancel_wake"} /\ Head(armed[c]) \in Range(wakes[d])

(* Nobody sleeps on a child that is dead and past its wake-up of joiners.  *)
NoMissedJoin ==
  \A c \in Coroutines :
    pc[c] \in InWait /\ CanClaim(c) =>
      \A i \in Cases(c) :
        Case(c, i).dir = "wait" /\ life[Case(c, i).src] = "Dead" =>
          At(Case(c, i).src, "wake_join")

(* Once a wait generation is claimed nobody claims it again: its result is *)
(* only ever taken.                                                        *)
CommittedOnce ==
  [][\A c \in Coroutines :
       delivered[c].gen = wgen[c] /\ wgen[c] # 0 /\ wgen'[c] = wgen[c] =>
         /\ delivered'[c].gen = wgen[c]
         /\ delivered'[c].res \in {delivered[c].res, NoResult}]_vars

(* Every committed round is eventually returned to its coroutine.          *)
CommittedReturns == \A c \in Coroutines : Completed(c) ~> ~Completed(c)
=============================================================================
