----------------------------- MODULE ChannelSpec -----------------------------
(***************************************************************************)
(* What channels and select promise a program: every channel is a FIFO     *)
(* queue of at most Capacity messages; a call offers one or more cases and *)
(* commits at most one of them, in one step with the channel and with the  *)
(* partner it meets; a partner is met directly only when no message is     *)
(* queued before it.  There are no wait queues, locks, rounds or wake-ups. *)
(***************************************************************************)
EXTENDS Naturals, Sequences

CONSTANTS Coroutines, Channels, Capacity

VARIABLES
  buf,     \* buf[ch]: the queued messages, oldest first
  closed,  \* closed[ch]
  call,    \* call[c]: how many calls c has made
  offers,  \* offers[c]: the <<direction, channel>> pairs of the current call
  result   \* result[c]: what the current call has committed to

(* via names the channel a call committed on.                              *)
Nowhere          == "none"
Outcome(k, ch)   == [kind |-> k, val |-> <<>>, via |-> ch]
Received(m, ch)  == [kind |-> "Recv", val |-> m, via |-> ch]
Pending          == Outcome("none", Nowhere)
Message(c)       == <<c, call[c]>>

Init ==
  /\ buf = [ch \in Channels |-> <<>>]
  /\ closed = [ch \in Channels |-> FALSE]
  /\ call = [c \in Coroutines |-> 0]
  /\ offers = [c \in Coroutines |-> {}]
  /\ result = [c \in Coroutines |-> Pending]

Open(c, dir, ch) == result[c] = Pending /\ <<dir, ch>> \in offers[c]

Commit(c, r) == result' = [result EXCEPT ![c] = r]

(* A new call; which cases it offers is the program's choice.              *)
Begin(c) ==
  /\ call' = [call EXCEPT ![c] = @ + 1]
  /\ Commit(c, Pending)
  /\ \A d \in Coroutines \ {c} : offers'[d] = offers[d]
  /\ UNCHANGED <<buf, closed>>

Send(c, ch) ==
  /\ Open(c, "send", ch) /\ ~closed[ch]
  /\ Len(buf[ch]) < Capacity[ch]
  /\ buf' = [buf EXCEPT ![ch] = Append(@, Message(c))]
  /\ Commit(c, Outcome("Sent", ch))
  /\ UNCHANGED <<closed, call, offers>>

Receive(c, ch) ==
  /\ Open(c, "recv", ch) /\ buf[ch] # <<>>
  /\ buf' = [buf EXCEPT ![ch] = Tail(@)]
  /\ Commit(c, Received(Head(buf[ch]), ch))
  /\ UNCHANGED <<closed, call, offers>>

(* The receive that makes room lets a blocked sender in at once.           *)
ReceiveAndRefill(c, s, ch) ==
  /\ c # s
  /\ Open(c, "recv", ch) /\ Open(s, "send", ch) /\ ~closed[ch]
  /\ buf[ch] # <<>>
  /\ buf' = [buf EXCEPT ![ch] = Append(Tail(@), Message(s))]
  /\ result' = [result EXCEPT ![c] = Received(Head(buf[ch]), ch),
                              ![s] = Outcome("Sent", ch)]
  /\ UNCHANGED <<closed, call, offers>>

(* A send and a receive of two coroutines meet; no message is overtaken.   *)
Rendezvous(s, r, ch) ==
  /\ s # r
  /\ Open(s, "send", ch) /\ Open(r, "recv", ch) /\ ~closed[ch]
  /\ buf[ch] = <<>>
  /\ result' = [result EXCEPT ![s] = Outcome("Sent", ch),
                              ![r] = Received(Message(s), ch)]
  /\ UNCHANGED <<buf, closed, call, offers>>

SendOnClosed(c, ch) ==
  /\ Open(c, "send", ch) /\ closed[ch]
  /\ Commit(c, Outcome("SendClosed", ch))
  /\ UNCHANGED <<buf, closed, call, offers>>

(* A closed channel ends receivers only after its last message.            *)
ReceiveEnd(c, ch) ==
  /\ Open(c, "recv", ch) /\ closed[ch] /\ buf[ch] = <<>>
  /\ Commit(c, Outcome("RecvClosed", ch))
  /\ UNCHANGED <<buf, closed, call, offers>>

(* close ends the calls that wait on the channel in the same step.         *)
Close(c, ch) ==
  /\ Open(c, "close", ch) /\ ~closed[ch]
  /\ closed' = [closed EXCEPT ![ch] = TRUE]
  /\ result'[c] = Outcome("Done", Nowhere)
  /\ \A d \in Coroutines \ {c} :
       \/ result'[d] = result[d]
       \/ Open(d, "send", ch) /\ result'[d] = Outcome("SendClosed", ch)
       \/ Open(d, "recv", ch) /\ buf[ch] = <<>> /\ result'[d] = Outcome("RecvClosed", ch)
  /\ UNCHANGED <<buf, call, offers>>

(* A call that does not wait gives up: the channel offers nothing.         *)
Refuse(c, ch) ==
  /\ \/ Open(c, "send", ch) /\ Len(buf[ch]) = Capacity[ch] /\ Commit(c, Outcome("Full", Nowhere))
     \/ Open(c, "recv", ch) /\ buf[ch] = <<>> /\ Commit(c, Outcome("Empty", Nowhere))
     \/ Open(c, "close", ch) /\ closed[ch] /\ Commit(c, Outcome("Error", Nowhere))
  /\ UNCHANGED <<buf, closed, call, offers>>

(* Results that do not touch a channel: default, a Join, a cancellation; a  *)
(* coroutine that finishes releases all who join it in one step.           *)
Aside ==
  /\ \A c \in Coroutines :
       \/ result'[c] = result[c]
       \/ /\ result[c] = Pending
          /\ \E kind \in {"Default", "Join", "Cancelled", "Done"} :
               result'[c] = Outcome(kind, Nowhere)
  /\ UNCHANGED <<buf, closed, call, offers>>

Next ==
  \/ \E c \in Coroutines : Begin(c)
  \/ Aside
  \/ \E c \in Coroutines, ch \in Channels :
       \/ Send(c, ch) \/ Receive(c, ch)
       \/ SendOnClosed(c, ch) \/ ReceiveEnd(c, ch)
       \/ Close(c, ch) \/ Refuse(c, ch)
  \/ \E c, d \in Coroutines, ch \in Channels :
       ReceiveAndRefill(c, d, ch) \/ Rendezvous(c, d, ch)

vars == <<buf, closed, call, offers, result>>

Spec == Init /\ [][Next]_vars
=============================================================================
