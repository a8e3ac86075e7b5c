------------------------------- MODULE Select -------------------------------
(***************************************************************************)
(* select (runtime/select.rs): one transaction over several cases.  The    *)
(* inline path tries all cases under all source locks; the scan path and   *)
(* the registration take one source lock at a time, and a waker may set    *)
(* the winner between two of them.                                         *)
(***************************************************************************)
EXTENDS Channel

Cases(c)     == DOMAIN req[c].cases
Case(c, i)   == req[c].cases[i]
CasesOn(c, s) == {i \in Cases(c) : Case(c, i).src = s}
NoScan       == [todo |-> {}, ready |-> {}]

selectRest == <<callVars, roundVars, lifeVars, phase, waitQ, cancelVars>>

(* select_commit, first part: a new round and a Building transaction.  A   *)
(* select without cases and default waits on the never source.             *)
SelectBegin(c) ==
  /\ Serving(c, {"select"})
  /\ BeginWait(c)
  /\ phase' = [phase EXCEPT ![c] = "Building"]
  /\ winner' = [winner EXCEPT ![c] = Unset]
  /\ IF req[c].cases = <<>> /\ ~req[c].default
     THEN /\ armed' = [armed EXCEPT ![c] = <<NewNode(c, 0)>>]
          /\ waitQ' = [waitQ EXCEPT ![Never] = Append(@, NewNode(c, 0))]
          /\ Goto(c, "arm")
     ELSE /\ UNCHANGED <<armed, waitQ>>
          /\ Goto(c, "try")
  /\ UNCHANGED <<callVars, out, lifeVars, scan, wakes, chan, cancelVars>>

(* Whether try_case_locked would commit case i.                            *)
CaseCommits(c, i) ==
  LET s == Case(c, i).src
  IN  CASE Case(c, i).dir = "send" -> chan[s].closed \/ SendReady(c, s)
        [] Case(c, i).dir = "recv" -> chan[s].closed \/ RecvReady(c, s)
        [] Case(c, i).dir = "wait" -> life[s] = "Dead"

(* try_case_locked: case i commits, and the select with it.                *)
CommitCase(c, i, chan0) ==
  LET s == Case(c, i).src
  IN  /\ CaseCommits(c, i)
      /\ CASE Case(c, i).dir = "send" ->
               \/ CommitSend(c, s, i, chan0)
               \/ /\ SendClosed(c, s, i)
                  /\ Goto(c, "cleanup")  \* an error: the select is not armed
                  /\ UNCHANGED wakes
           [] Case(c, i).dir = "recv" ->
               CommitRecv(c, s, i, chan0) \/ RecvClosed(c, s, i, chan0)
           [] Case(c, i).dir = "wait" ->
               /\ Claim(SelfClaim(c, i, Result("Join")))
               /\ AfterCommit(c, i, <<>>)
               /\ chan' = chan0
               /\ UNCHANGED out

NoneReady(c) == \A i \in Cases(c) : ~CaseCommits(c, i)

(* Inline path: every source is locked, the first ready case of a random   *)
(* permutation commits, so any ready case may.                             *)
SelectInline(c) ==
  /\ At(c, "try")
  /\ \E i \in Cases(c) : CommitCase(c, i, chan)
  /\ UNCHANGED <<selectRest, scan>>

(* allocate_waiters: one Building node for each case.                      *)
AllocateWaiters(c) ==
  /\ armed' = [armed EXCEPT ![c] = [i \in Cases(c) |-> Node(c, i)]]
  /\ scan' = [scan EXCEPT ![c] = [todo |-> {Case(c, i).src : i \in Cases(c)}, ready |-> {}]]
  /\ Goto(c, "register")
  /\ UNCHANGED <<claimVars, phase, out>>

TakeDefault(c) ==
  /\ winner' = [winner EXCEPT ![c] = DefaultWinner]
  /\ phase' = [phase EXCEPT ![c] = "Armed"]
  /\ scan' = [scan EXCEPT ![c] = NoScan]
  /\ Return(c, Result("Default"))
  /\ UNCHANGED <<delivered, armed>>

NothingCommitted(c) ==
  /\ IF req[c].default THEN TakeDefault(c) ELSE AllocateWaiters(c)
  /\ UNCHANGED <<callVars, wgen, lifeVars, wakes, chan, waitQ, cancelVars>>

SelectInlineNone(c) ==
  /\ At(c, "try") /\ NoneReady(c)
  /\ NothingCommitted(c)

(***************************************************************************)
(* Scan path, taken when a try_lock fails (or there are more than eight    *)
(* cases): probe the sources in order, each under its own lock, then retry *)
(* the ready cases in any order.                                           *)
(***************************************************************************)
NextSource(c, s) ==
  /\ s \in scan[c].todo
  /\ \A t \in scan[c].todo : SourceRank[s] <= SourceRank[t]

ScanBegin(c) ==
  /\ At(c, "try") /\ Cases(c) # {}
  /\ scan' = [scan EXCEPT ![c] = [todo |-> {Case(c, i).src : i \in Cases(c)}, ready |-> {}]]
  /\ Goto(c, "probe")
  /\ UNCHANGED <<selectRest, claimVars, out, wakes, chan>>

(* case_ready: a hint that looks at the queue heads and the length only.   *)
CaseReady(c, i) ==
  LET s == Case(c, i).src
  IN  CASE Case(c, i).dir = "send" ->
             chan[s].closed \/ chan[s].recvQ # <<>> \/ SlotAvailable(s)
        [] Case(c, i).dir = "recv" ->
             chan[s].len > 0 \/ chan[s].sendQ # <<>> \/ chan[s].closed
        [] Case(c, i).dir = "wait" -> life[s] = "Dead"

Probe(c) ==
  /\ At(c, "probe")
  /\ \E s \in scan[c].todo :
       /\ NextSource(c, s)
       /\ scan' = [scan EXCEPT ![c] =
            [todo |-> @.todo \ {s}, ready |-> @.ready \union {i \in CasesOn(c, s) : CaseReady(c, i)}]]
       /\ Goto(c, IF scan[c].todo = {s} THEN "retry" ELSE "probe")
  /\ UNCHANGED <<selectRest, claimVars, out, wakes, chan>>

Retry(c) ==
  /\ At(c, "retry")
  /\ \E i \in scan[c].ready :
       \/ /\ CommitCase(c, i, chan)
          /\ scan' = [scan EXCEPT ![c] = NoScan]
       \/ /\ ~CaseCommits(c, i)
          /\ scan' = [scan EXCEPT ![c].ready = @ \ {i}]
          /\ UNCHANGED <<claimVars, out, wakes, chan, pc>>
  /\ UNCHANGED selectRest

ScanNone(c) ==
  /\ At(c, "retry") /\ scan[c].ready = {}
  /\ NothingCommitted(c)

(***************************************************************************)
(* register_waiters, one source: its cases are tried again in order and    *)
(* queued; the first that commits ends the registration, as does a winner  *)
(* set meanwhile.                                                          *)
(***************************************************************************)
QueueCases(c, s, S) ==
  LET nodes(dir) == Keep(armed[c], {Node(c, i) : i \in {j \in S : Case(c, j).dir = dir}})
  IN  IF s \in Channels
      THEN [chan EXCEPT ![s].sendQ = @ \o nodes("send"), ![s].recvQ = @ \o nodes("recv")]
      ELSE chan

QueueWaits(c, s, S) ==
  IF s \in Channels THEN waitQ
  ELSE [waitQ EXCEPT ![s] = @ \o Keep(armed[c], {Node(c, i) : i \in S})]

(* Mutant: the cases are queued without being tried again.                 *)
RegisterBlind(c) ==
  /\ At(c, "register") /\ IsSelect(c) /\ winner[c] = Unset
  /\ \E s \in scan[c].todo :
       /\ NextSource(c, s)
       /\ chan' = QueueCases(c, s, CasesOn(c, s))
       /\ waitQ' = QueueWaits(c, s, CasesOn(c, s))
       /\ scan' = [scan EXCEPT ![c].todo = @ \ {s}]
       /\ Goto(c, IF scan[c].todo = {s} THEN "arm" ELSE "register")
  /\ UNCHANGED <<claimVars, out, wakes, callVars, roundVars, lifeVars, phase, cancelVars>>

Register(c) ==
  /\ At(c, "register") /\ IsSelect(c) /\ winner[c] = Unset
  /\ \E s \in scan[c].todo :
       LET here  == CasesOn(c, s)
           ready == {i \in here : CaseCommits(c, i)}
       IN  /\ NextSource(c, s)
           /\ \/ /\ ready = {}
                 /\ chan' = QueueCases(c, s, here)
                 /\ waitQ' = QueueWaits(c, s, here)
                 /\ scan' = [scan EXCEPT ![c].todo = @ \ {s}]
                 /\ Goto(c, IF scan[c].todo = {s} THEN "arm" ELSE "register")
                 /\ UNCHANGED <<claimVars, out, wakes>>
              \/ \E i \in ready :
                 /\ \A j \in ready : i <= j
                 /\ CommitCase(c, i, QueueCases(c, s, {j \in here : j < i}))
                 /\ waitQ' = QueueWaits(c, s, {j \in here : j < i})
                 /\ scan' = [scan EXCEPT ![c] = NoScan]
  /\ UNCHANGED <<callVars, roundVars, lifeVars, phase, cancelVars>>

RegisterWon(c) ==
  /\ At(c, "register") /\ IsSelect(c) /\ winner[c] # Unset
  /\ scan' = [scan EXCEPT ![c] = NoScan]
  /\ Goto(c, "arm")
  /\ UNCHANGED <<selectRest, claimVars, out, wakes, chan>>

(***************************************************************************)
(* arm_select: Parking is entered before Armed becomes visible, and the    *)
(* winner is looked at again afterwards.                                   *)
(***************************************************************************)
ArmEnter(c) ==
  /\ At(c, "arm")
  /\ life' = IF winner[c] = Unset THEN [life EXCEPT ![c] = "Parking"] ELSE life
  /\ Goto(c, "armed")
  /\ UNCHANGED <<callVars, roundVars, readied, claimVars, out, phase, scan, wakes, chan, waitQ, cancelVars>>

ArmFinish(c) ==
  /\ At(c, "armed")
  /\ phase' = [phase EXCEPT ![c] = "Armed"]
  /\ IF winner[c] = Unset
     THEN /\ Goto(c, "park")
          /\ UNCHANGED life
     ELSE /\ life' = [life EXCEPT ![c] = "Running"]
          /\ Goto(c, IF wakes[c] = <<>> THEN "cleanup" ELSE "wake")
  /\ UNCHANGED <<callVars, roundVars, readied, claimVars, out, scan, wakes, chan, waitQ, cancelVars>>

(* The select did not park: its nodes are released and the result taken.   *)
SelectDone(c) ==
  /\ At(c, "cleanup")
  /\ Cleanup(c)
  /\ TakeDelivered(c)
  /\ Goto(c, "idle")
  /\ UNCHANGED <<callVars, wgen, lifeVars, winner, phase, scan, wakes, cancelled>>
=============================================================================
