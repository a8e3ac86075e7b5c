--------------------------- MODULE WaitRefinement ---------------------------
(***************************************************************************)
(* WaitSystem implements ChannelSpec.  The queue is what the ring holds    *)
(* between head and tail; a call has committed when its round is claimed,  *)
(* long before the coroutine runs again and returns the result.            *)
(***************************************************************************)
EXTENDS WaitSystem

Contents(ch) ==
  [i \in 1 .. chan[ch].len |-> chan[ch].ring[(chan[ch].head + i - 1) % Capacity[ch]].val]

(* The channel of the reported case: the winner's for a select.            *)
Via(c, kind) ==
  IF kind \notin {"Sent", "SendClosed", "Recv", "RecvClosed"} THEN "none"
  ELSE req[c].cases[IF IsSelect(c) THEN winner[c] - 1 ELSE 1].src

CommittedResult(c) ==
  LET r == IF Completed(c) THEN delivered[c].res ELSE out[c]
  IN  [kind |-> r.kind, val |-> r.val, via |-> Via(c, r.kind)]

OfferedCases(c) ==
  {<<req[c].cases[i].dir, req[c].cases[i].src>> : i \in DOMAIN req[c].cases}

Abstract == INSTANCE ChannelSpec WITH
  buf    <- [ch \in Channels |-> Contents(ch)],
  closed <- [ch \in Channels |-> chan[ch].closed],
  call   <- calls,
  offers <- [c \in Coroutines |-> OfferedCases(c)],
  result <- [c \in Coroutines |-> CommittedResult(c)]

(* Every step of the wait plane is one step of the channels the language   *)
(* promises, or none: FIFO order, no message lost or delivered twice, at   *)
(* most one case of a select committed, and that together with its channel *)
(* and its partner.                                                        *)
ImplementsChannels == Abstract!Spec
=============================================================================
