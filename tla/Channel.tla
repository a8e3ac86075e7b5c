------------------------------- MODULE Channel -------------------------------
(***************************************************************************)
(* Channels (runtime/channel.rs): the ring with its reservations, the two  *)
(* wait queues, and the operations that run under the channel's source     *)
(* lock.  A lock region is one action.                                     *)
(***************************************************************************)
EXTENDS WaitPlane

(***************************************************************************)
(* The ring.  A reserved slot always stands at tail; it carries the        *)
(* payload's name in place of the reservation generation.                  *)
(***************************************************************************)
Slot(state, v) == [state |-> state, val |-> v]
EmptySlot      == Slot("Empty", NoVal)
Slots == {EmptySlot} \union {Slot(s, v) : s \in {"Reserved", "Occupied"}, v \in Payloads}

NewChannel(ch) ==
  [closed |-> FALSE, head |-> 0, tail |-> 0, len |-> 0,
   ring |-> [i \in 0 .. Capacity[ch] - 1 |-> EmptySlot],
   sendQ |-> <<>>, recvQ |-> <<>>]

SlotAvailable(ch) ==
  /\ chan[ch].len < Capacity[ch]
  /\ chan[ch].ring[chan[ch].tail].state = "Empty"

Buffered(ch) ==
  /\ chan[ch].len > 0
  /\ chan[ch].ring[chan[ch].head].state = "Occupied"

PeekSlot(ch) == chan[ch].ring[chan[ch].head].val

(* commit_slot and take_slot, on the channel record q.                     *)
CommitSlot(ch, q, v) ==
  [q EXCEPT !.ring[q.tail] = Slot("Occupied", v),
            !.tail = (@ + 1) % Capacity[ch],
            !.len = @ + 1]

TakeSlot(ch, q) ==
  [q EXCEPT !.ring[q.head] = EmptySlot,
            !.head = (@ + 1) % Capacity[ch],
            !.len = @ - 1]

CanRefill(ch) ==
  \/ ~Buffered(ch)
  \/ chan[ch].head = chan[ch].tail
  \/ SlotAvailable(ch)

(***************************************************************************)
(* The counterparts an operation of c can meet, oldest first.              *)
(***************************************************************************)
Receivers(c, ch) == Pending(chan[ch].recvQ, c)
Senders(c, ch) ==
  IF ~chan[ch].closed /\ CanRefill(ch) THEN Pending(chan[ch].sendQ, c) ELSE <<>>

SendReady(c, ch) ==
  /\ ~chan[ch].closed
  /\ Receivers(c, ch) # <<>> \/ SlotAvailable(ch)

RecvReady(c, ch) == Buffered(ch) \/ Senders(c, ch) # <<>>

(***************************************************************************)
(* What an operation gives its own caller: case i of the current select,   *)
(* which the same region claims, or (i = 0) a plain return value.          *)
(***************************************************************************)
SelfClaim(c, i, res) == IF i = 0 THEN {} ELSE {[co |-> c, case |-> i, res |-> res]}
SelfReturn(c, i, res) == out' = IF i = 0 THEN [out EXCEPT ![c] = res] ELSE out

(* After the lock is released the handler wakes the peers it committed;    *)
(* a plain request then returns, a select goes on to arm.                  *)
AfterCommit(c, i, nodes) ==
  /\ wakes' = [wakes EXCEPT ![c] = nodes]
  /\ pc' = [pc EXCEPT ![c] = IF i # 0 THEN "arm" ELSE IF nodes = <<>> THEN "idle" ELSE "wake"]

(***************************************************************************)
(* try_send_locked, its committing branches: hand the payload to the       *)
(* oldest pending receiver, or else store it in the ring.  chan0 is chan   *)
(* with the nodes a select queued earlier in the same lock region.         *)
(***************************************************************************)
CommitSend(c, ch, i, chan0) ==
  LET rs == Receivers(c, ch)
      v  == Payload(c)
      q  == chan0[ch]
  IN  /\ SendReady(c, ch)
      /\ chan' = [chan0 EXCEPT ![ch] =
            IF rs # <<>> THEN [q EXCEPT !.recvQ = Without(@, {Head(rs)})]
            ELSE CommitSlot(ch, q, v)]
      /\ Claim(SelfClaim(c, i, Result("Sent"))
               \union (IF rs # <<>> THEN {PeerClaim(Head(rs), Received(v))} ELSE {}))
      /\ SelfReturn(c, i, Result("Sent"))
      /\ AfterCommit(c, i, IF rs # <<>> THEN <<Head(rs)>> ELSE <<>>)

(***************************************************************************)
(* try_recv_locked, its committing branches: take the front of the ring    *)
(* and refill it from the oldest pending sender, or else take that         *)
(* sender's payload directly.                                              *)
(***************************************************************************)
CommitRecv(c, ch, i, chan0) ==
  LET ss == Senders(c, ch)
      v  == IF Buffered(ch) THEN PeekSlot(ch) ELSE Payload(Head(ss).co)
      q  == IF Buffered(ch) THEN TakeSlot(ch, chan0[ch]) ELSE chan0[ch]
      r  == IF Buffered(ch) /\ ss # <<>> THEN CommitSlot(ch, q, Payload(Head(ss).co)) ELSE q
  IN  /\ RecvReady(c, ch)
      /\ chan' = [chan0 EXCEPT ![ch] =
            IF ss # <<>> THEN [r EXCEPT !.sendQ = Without(@, {Head(ss)})] ELSE r]
      /\ Claim(SelfClaim(c, i, Received(v))
               \union (IF ss # <<>> THEN {PeerClaim(Head(ss), Result("Sent"))} ELSE {}))
      /\ SelfReturn(c, i, Received(v))
      /\ AfterCommit(c, i, IF ss # <<>> THEN <<Head(ss)>> ELSE <<>>)

(* The closed branches: send fails, recv of a drained channel ends.        *)
SendClosed(c, ch, i) ==
  /\ chan[ch].closed
  /\ Claim(SelfClaim(c, i, Result("SendClosed")))
  /\ SelfReturn(c, i, Result("SendClosed"))
  /\ UNCHANGED chan

RecvClosed(c, ch, i, chan0) ==
  /\ chan[ch].closed /\ ~RecvReady(c, ch)
  /\ Claim(SelfClaim(c, i, Result("RecvClosed")))
  /\ SelfReturn(c, i, Result("RecvClosed"))
  /\ AfterCommit(c, i, <<>>)
  /\ chan' = chan0

-----------------------------------------------------------------------------
(***************************************************************************)
(* The plain requests.  Ch(c) is the channel of the current request.       *)
(***************************************************************************)
Ch(c) == req[c].cases[1].src

At(c, where)     == pc[c] = where
Serving(c, ops)  == At(c, "call") /\ req[c].op \in ops
Goto(c, where)   == pc' = [pc EXCEPT ![c] = where]
Return(c, res) ==
  /\ out' = [out EXCEPT ![c] = res]
  /\ Goto(c, "idle")

restOfSend == <<callVars, roundVars, lifeVars, phase, scan, waitQ, cancelVars>>

(* A sender that finds a reserved or full ring and no receiver.            *)
SendFull(c) == ~chan[Ch(c)].closed /\ ~SendReady(c, Ch(c))

(* prepare_large_send reserves when nobody can take the payload at once.   *)
MustReserve(c) ==
  /\ req[c].op = "send_large"
  /\ ~chan[Ch(c)].closed /\ SlotAvailable(Ch(c)) /\ Receivers(c, Ch(c)) = <<>>

SendNow(c) ==
  /\ Serving(c, {"try_send", "send", "send_large"})
  /\ ~MustReserve(c)
  /\ CommitSend(c, Ch(c), 0, chan)
  /\ UNCHANGED restOfSend

SendOnClosed(c) ==
  /\ Serving(c, {"try_send", "send", "send_large"})
  /\ SendClosed(c, Ch(c), 0)
  /\ Goto(c, "idle")
  /\ UNCHANGED <<restOfSend, wakes>>

TrySendFull(c) ==
  /\ Serving(c, {"try_send"}) /\ SendFull(c)
  /\ Return(c, Result("Full"))
  /\ UNCHANGED <<restOfSend, claimVars, wakes, chan>>

(* park_send: the node enters the send queue in the region that found the  *)
(* channel full.                                                           *)
ParkSend(c) ==
  /\ Serving(c, {"send", "send_large"}) /\ SendFull(c)
  /\ ParkOn(c)
  /\ chan' = [chan EXCEPT ![Ch(c)].sendQ = Append(@, NewNode(c, 1))]
  /\ Goto(c, "park")
  /\ UNCHANGED <<callVars, out, readied, phase, winner, scan, wakes, waitQ, cancelVars>>

(* The two lock regions of a large send: reserve the slot at tail, copy    *)
(* outside the lock, publish (or abort on a channel closed meanwhile).     *)
ReserveLarge(c) ==
  /\ Serving(c, {"send_large"}) /\ MustReserve(c)
  /\ chan' = [chan EXCEPT ![Ch(c)].ring[chan[Ch(c)].tail] = Slot("Reserved", Payload(c))]
  /\ Goto(c, "reserved")
  /\ UNCHANGED <<restOfSend, claimVars, out, wakes>>

FinishLarge(c) ==
  LET ch   == Ch(c)
      tail == chan[ch].tail
  IN  /\ At(c, "reserved")
      /\ chan[ch].ring[tail] = Slot("Reserved", Payload(c))
      /\ \/ /\ chan[ch].closed
            /\ chan' = [chan EXCEPT ![ch].ring[tail] = EmptySlot]
            /\ Return(c, Result("SendClosed"))
         \/ /\ ~chan[ch].closed
            /\ chan' = [chan EXCEPT ![ch] = CommitSlot(ch, @, Payload(c))]
            /\ Return(c, Result("Sent"))
      /\ UNCHANGED <<restOfSend, claimVars, wakes>>

(* recv_cancel first looks at the token, outside the channel's lock.       *)
RecvRequests == {"try_recv", "recv"}
Receiving(c) == Serving(c, RecvRequests) \/ (At(c, "checked") /\ req[c].op = "recv_cancel")

RecvNow(c) ==
  /\ Receiving(c)
  /\ CommitRecv(c, Ch(c), 0, chan)
  /\ UNCHANGED restOfSend

RecvOnClosed(c) ==
  /\ Receiving(c)
  /\ RecvClosed(c, Ch(c), 0, chan)
  /\ UNCHANGED restOfSend

RecvEmpty(c) == ~chan[Ch(c)].closed /\ ~RecvReady(c, Ch(c))

TryRecvEmpty(c) ==
  /\ Serving(c, {"try_recv"}) /\ RecvEmpty(c)
  /\ Return(c, Result("Empty"))
  /\ UNCHANGED <<restOfSend, claimVars, wakes, chan>>

ParkRecv(c) ==
  /\ Receiving(c) /\ req[c].op # "try_recv" /\ RecvEmpty(c)
  /\ ParkOn(c)
  /\ chan' = [chan EXCEPT ![Ch(c)].recvQ = Append(@, NewNode(c, 1))]
  /\ Goto(c, IF req[c].op = "recv_cancel" THEN "register_cancel" ELSE "park")
  /\ UNCHANGED <<callVars, out, readied, phase, winner, scan, wakes, waitQ, cancelVars>>

(* close_locked: both queues are drained in one region, every pending      *)
(* waiter is claimed; a second close is an error.                          *)
Close(c) ==
  LET ch    == Ch(c)
      sends == Pending(chan[ch].sendQ, c)
      all   == sends \o Pending(chan[ch].recvQ, c)
      \* a select queued more than once is claimed by its first node
      won   == {i \in DOMAIN all : \A j \in 1 .. i - 1 : all[j].co # all[i].co}
  IN  /\ Serving(c, {"close"})
      /\ IF chan[ch].closed
         THEN /\ Return(c, Result("Error"))
              /\ UNCHANGED <<chan, claimVars, wakes>>
         ELSE /\ chan' = [chan EXCEPT ![ch].closed = TRUE, ![ch].sendQ = <<>>, ![ch].recvQ = <<>>]
              /\ Claim({PeerClaim(all[i],
                          Result(IF i <= Len(sends) THEN "SendClosed" ELSE "RecvClosed")) : i \in won})
              /\ SelfReturn(c, 0, Result("Done"))
              /\ AfterCommit(c, 0, Keep(all, {all[i] : i \in won}))
      /\ UNCHANGED restOfSend
=============================================================================
