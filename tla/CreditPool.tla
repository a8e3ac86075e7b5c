----------------------------- MODULE CreditPool -----------------------------
(***************************************************************************)
(* The credit pool of the mark plane (mark.rs): every mark ticket and edge *)
(* delta that has left its producer holds one slot, from the moment it is  *)
(* published until it is returned, so that an empty mailbox alone never    *)
(* counts as the end of a cycle.                                           *)
(*                                                                         *)
(* A slot is free (never issued, or Returned) or names the message family, *)
(* the owner that published and the owner that has to consume.  The        *)
(* generation that tells a slot's uses apart is left out: a slot is        *)
(* reused only after its one message was consumed, which MarkCycle's       *)
(* CreditsMatchMessages checks.                                            *)
(***************************************************************************)
EXTENDS Naturals, FiniteSets

CONSTANTS Owners, Slots

Families == {"MarkTicket", "EdgeDelta"}

Free == [state |-> "Free"]
Credit == [state : {"InFlight", "Done"}, source : Owners, target : Owners,
           family : Families]
Pools == [Slots -> Credit \union {Free}]

EmptyPool == [s \in Slots |-> Free]

\* Credits not returned yet: in flight, or consumed and not settled.
Pending(pool) == {s \in Slots : pool[s] # Free}
InFlight(pool) == {s \in Slots : pool[s].state = "InFlight"}
Exhausted(pool) == Pending(pool) = Slots
NextCredit(pool) == CHOOSE s \in Slots : pool[s] = Free

AcquireWork(pool, source, target, family) ==
  [pool EXCEPT ![NextCredit(pool)] =
     [state |-> "InFlight", source |-> source, target |-> target, family |-> family]]

\* What is checked before a message may take effect; the cycle comparison
\* is the "stale" bit of an edge delta, see MarkCycle.
ValidInFlight(pool, s, family) ==
  /\ pool[s].state = "InFlight"
  /\ pool[s].family = family
ValidConsume(pool, s, family, owner) ==
  /\ ValidInFlight(pool, s, family)
  /\ pool[s].target = owner

ConsumeWork(pool, s) == [pool EXCEPT ![s].state = "Done"]

\* Consumed and returned in one service, as edge deltas are.
ReturnWork(pool, S) == [s \in Slots |-> IF s \in S THEN Free ELSE pool[s]]

\* The consumed credits of the tickets these owners published.
Settleable(pool, owners) ==
  {s \in Slots : pool[s].state = "Done" /\ pool[s].source \in owners}
SettleOwners(pool, owners) == ReturnWork(pool, Settleable(pool, owners))
=============================================================================
