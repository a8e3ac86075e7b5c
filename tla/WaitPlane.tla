------------------------------ MODULE WaitPlane ------------------------------
(***************************************************************************)
(* The wait plane of the Gugu runtime (runtime/wait.rs): wait rounds,      *)
(* wait-nodes, the claim that commits a round at most once, and the wake   *)
(* of a claimed waiter.  Channel, Select and WaitSystem build on it.       *)
(*                                                                         *)
(* A wait-node handle (slab index and generation) is unique while the node *)
(* lives and is rejected afterwards.  Here a node is named by its          *)
(* coroutine, that coroutine's wait generation and the case it stands for; *)
(* it lives exactly while armed[co] lists it.                              *)
(***************************************************************************)
EXTENDS Naturals, Sequences, FiniteSets, SequencesExt

CONSTANTS
  Coroutines,  \* the coroutines that take part
  Channels,    \* the channels they share
  Capacity,    \* Capacity[ch]: ring capacity, 0 for a rendezvous channel
  SourceRank,  \* SourceRank[s]: creation order of the wait sources
  Menu,        \* Menu[c]: the requests coroutine c may make
  MaxCalls     \* bound: requests made by one coroutine

VARIABLES
  life,        \* life[c]: lifecycle state of the coroutine
  calls,       \* calls[c]: requests made so far
  req,         \* req[c]: the request being served
  pc,          \* pc[c]: where the handler serving c stands
  out,         \* out[c]: what the last finished request returned
  wgen,        \* wgen[c]: wait generation (0: never waited)
  delivered,   \* delivered[c]: claimed generation and the published result
  armed,       \* armed[c]: the live wait-nodes of the current round
  readied,     \* readied[c]: last generation made runnable
  phase,       \* phase[c]: SelectTxn phase
  winner,      \* winner[c]: SelectTxn winner word
  scan,        \* scan[c]: sources still to visit, cases found ready
  wakes,       \* wakes[c]: nodes the handler of c still has to wake
  chan,        \* chan[ch]: channel control block, ring and wait queues
  waitQ,       \* waitQ[s]: wait queue of a Join source or of the never source
  cancelled,   \* the CancelSource was cancelled
  cancelQ      \* nodes registered with the CancelSource

lifeVars   == <<life, readied>>
roundVars  == <<wgen, armed>>
claimVars  == <<delivered, winner>>
callVars   == <<calls, req>>
cancelVars == <<cancelled, cancelQ>>

Never   == "never"
Sources == Channels \union Coroutines \union {Never}

(***************************************************************************)
(* Requests.  A plain request has one case, on a channel or on the child   *)
(* it joins; a select has any number of them.                              *)
(***************************************************************************)
OnOne(ops, dir, srcs) ==
  [op : ops, cases : {<<[dir |-> dir, src |-> s]>> : s \in srcs}, default : {FALSE}]
Bare(ops) == [op : ops, cases : {<<>>}, default : {FALSE}]

SelectCases ==
  [dir : {"send", "recv"}, src : Channels] \union [dir : {"wait"}, src : Coroutines]

Requests ==
  OnOne({"try_send", "send", "send_large"}, "send", Channels)
  \union OnOne({"try_recv", "recv", "recv_cancel"}, "recv", Channels)
  \union OnOne({"close"}, "close", Channels)
  \union OnOne({"join", "join_cancel"}, "wait", Coroutines)
  \union [op : {"select"}, cases : Seq(SelectCases), default : BOOLEAN]
  \union Bare({"finish", "cancel"})

NoRequest == [op |-> "none", cases |-> <<>>, default |-> FALSE]

ASSUME WaitAssumption ==
  /\ MaxCalls \in Nat
  /\ Capacity \in [Channels -> Nat]
  /\ Channels \intersect Coroutines = {}
  /\ Never \notin Channels \union Coroutines
  /\ \A c \in Coroutines : Menu[c] \subseteq Requests

States == {"Running", "Parking", "Waiting", "Runnable", "Dead"}

(***************************************************************************)
(* Results.  A payload is named by the call that sends it; NoVal stands    *)
(* where a result carries none.                                            *)
(***************************************************************************)
NoVal == <<>>
Payloads == Coroutines \X (1 .. MaxCalls)
Result(kind) == [kind |-> kind, val |-> NoVal]
Received(v)  == [kind |-> "Recv", val |-> v]
NoResult     == Result("none")

WaitKinds == {"Sent", "SendClosed", "RecvClosed", "Join", "Cancelled"}
WaitResults == {Result(k) : k \in WaitKinds} \union {Received(v) : v \in Payloads}
CallResults == WaitResults \union
  {Result(k) : k \in {"none", "Full", "Empty", "Default", "Error", "Done"}}

IsSelect(c) == req[c].op = "select"

Unset         == 0
DefaultWinner == 1
CaseWinner(i) == i + 1

(***************************************************************************)
(* Wait-nodes.                                                             *)
(***************************************************************************)
Node(c, i)    == [co |-> c, gen |-> wgen[c], case |-> i]
Live(n)       == n \in Range(armed[n.co])
NodeSource(n) == IF req[n.co].cases = <<>> THEN Never
                 ELSE req[n.co].cases[n.case].src
Payload(c)    == <<c, calls[c]>>

(***************************************************************************)
(* A round may be committed while nobody has claimed its generation and,   *)
(* for a select, while the transaction has no winner.                      *)
(***************************************************************************)
(* Mutant: neither the claimed generation nor the winner is looked at.     *)
ClaimAgain(c) == wgen[c] # 0

CanClaim(c) ==
  /\ wgen[c] # 0
  /\ delivered[c].gen # wgen[c]
  /\ IsSelect(c) => winner[c] = Unset

(* Mutant: any live node counts as pending, claimed or not.                *)
ClaimedPending(n) == Live(n) /\ n.gen = wgen[n.co]

NodePending(n) == Live(n) /\ n.gen = wgen[n.co] /\ CanClaim(n.co)

(* The nodes of q that are in S, in the order of q: SelectSeq, written as  *)
(* a recursive function that the proofs can unfold.                        *)
Keep(q, S) ==
  LET F[i \in 0 .. Len(q)] ==
        IF i = 0 THEN <<>>
        ELSE IF q[i] \in S THEN Append(F[i - 1], q[i]) ELSE F[i - 1]
  IN  F[Len(q)]

(* The nodes of q that can be committed, oldest first, without those of    *)
(* the coroutine that looks: a waitset never meets itself.                 *)
Pending(q, exclude) ==
  Keep(q, {n \in Range(q) : NodePending(n) /\ n.co # exclude})

(* Claim and publish the rounds named by the records of K in one lock      *)
(* region: [co, case, res], at most one record for each coroutine.         *)
Claim(K) ==
  LET of(c) == CHOOSE k \in K : k.co = c
  IN  /\ delivered' = [c \in Coroutines |->
            IF \E k \in K : k.co = c THEN [gen |-> wgen[c], res |-> of(c).res]
            ELSE delivered[c]]
      /\ winner' = [c \in Coroutines |->
            IF (\E k \in K : k.co = c) /\ IsSelect(c) THEN CaseWinner(of(c).case)
            ELSE winner[c]]

PeerClaim(n, res) == [co |-> n.co, case |-> n.case, res |-> res]

Completed(c) == delivered[c].gen = wgen[c] /\ delivered[c].res # NoResult

NodeCompleted(n) ==
  /\ Live(n)
  /\ n.gen = wgen[n.co]
  /\ Completed(n.co)
  /\ IsSelect(n.co) => winner[n.co] = CaseWinner(n.case)

(***************************************************************************)
(* cleanup_waiters: unlink every node of the round from its source queue,  *)
(* drop its cancel registration and release it.                            *)
(***************************************************************************)
Without(q, S) == Keep(q, Range(q) \ S)

(* Mutants: the channels' queues, or the cancel source, keep the nodes.    *)
CleanupKeepsQueued(c) ==
  LET gone == Range(armed[c])
  IN  /\ armed' = [armed EXCEPT ![c] = <<>>]
      /\ cancelQ' = Without(cancelQ, gone)
      /\ UNCHANGED <<chan, waitQ>>

CleanupKeepsCancel(c) ==
  LET gone == Range(armed[c])
  IN  /\ armed' = [armed EXCEPT ![c] = <<>>]
      /\ chan' = [ch \in Channels |->
            [chan[ch] EXCEPT !.sendQ = Without(@, gone), !.recvQ = Without(@, gone)]]
      /\ waitQ' = [s \in DOMAIN waitQ |-> Without(waitQ[s], gone)]
      /\ UNCHANGED cancelQ

Cleanup(c) ==
  LET gone == Range(armed[c])
  IN  /\ armed' = [armed EXCEPT ![c] = <<>>]
      /\ chan' = [ch \in Channels |->
            [chan[ch] EXCEPT !.sendQ = Without(@, gone), !.recvQ = Without(@, gone)]]
      /\ waitQ' = [s \in DOMAIN waitQ |-> Without(waitQ[s], gone)]
      /\ cancelQ' = Without(cancelQ, gone)

queueVars == <<armed, chan, waitQ, cancelQ>>

(***************************************************************************)
(* wake_node: a node of a completed round makes its coroutine runnable,    *)
(* unless the round was readied before, the select is still Building, or   *)
(* the coroutine is Parking (its own re-check takes over).                 *)
(***************************************************************************)
(* Mutant: the node's generation and its round's result are not checked.   *)
StaleWake(n) == life[n.co] = "Waiting" /\ readied[n.co] # n.gen

CanWake(n) ==
  /\ NodeCompleted(n)
  /\ ~(IsSelect(n.co) /\ phase[n.co] = "Building")
  /\ life[n.co] = "Waiting"
  /\ readied[n.co] # n.gen

WakeNode(n) ==
  IF CanWake(n)
  THEN /\ life' = [life EXCEPT ![n.co] = "Runnable"]
       /\ readied' = [readied EXCEPT ![n.co] = n.gen]
       /\ Cleanup(n.co)
  ELSE UNCHANGED <<lifeVars, queueVars>>

(***************************************************************************)
(* begin_wait, alloc_node, arm_nodes and Running -> Parking of a wait on   *)
(* one source; the caller enqueues the node in the same lock region.       *)
(***************************************************************************)
(* Mutant: the node is made before begin_wait moved the generation.        *)
EarlyNode(c, i) == [co |-> c, gen |-> wgen[c], case |-> i]

NewNode(c, i) == [co |-> c, gen |-> wgen[c] + 1, case |-> i]

BeginWait(c) ==
  /\ wgen' = [wgen EXCEPT ![c] = @ + 1]
  /\ delivered' = [delivered EXCEPT ![c] = [gen |-> 0, res |-> NoResult]]

ParkOn(c) ==
  /\ BeginWait(c)
  /\ armed' = [armed EXCEPT ![c] = <<NewNode(c, 1)>>]
  /\ life' = [life EXCEPT ![c] = "Parking"]

(* The caller takes the delivered result; the claimed generation stays.    *)
TakeDelivered(c) ==
  /\ delivered' = [delivered EXCEPT ![c].res = NoResult]
  /\ out' = [out EXCEPT ![c] = delivered[c].res]
=============================================================================
