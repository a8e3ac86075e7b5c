--------------------------- MODULE WaitMatchProofs ---------------------------
(***************************************************************************)
(* The channels of the wait plane keep their promise: no lock region       *)
(* leaves a committable pair behind (NoMissedMatch), and every step is one *)
(* step of ChannelSpec or none (ImplementsChannels).  The inductive        *)
(* invariant MatchInv adds to PlaneInv the shape of the rings, where the   *)
(* result of a call stands, and that the waiters of a channel are          *)
(* unmatched.  One lemma for each action, or group of like actions, shows  *)
(* Kept: what the action does to the invariant, and its abstract step.     *)
(***************************************************************************)
EXTENDS WaitQueueProofs, WaitRefinement

-----------------------------------------------------------------------------
(* The ring as a queue: slot j after head, counted around the ring.        *)
Spot(q, cap, j) == IF q.head + j < cap THEN q.head + j ELSE q.head + j - cap

(* The slots from head on are occupied, as many as len says, the others    *)
(* are empty; nothing is reserved.                                         *)
Shaped(q, cap) ==
  /\ cap > 0 => q.tail = Spot(q, cap, q.len)
  /\ \A j \in 0 .. cap - 1 :
       q.ring[Spot(q, cap, j)].state = IF j < q.len THEN "Occupied" ELSE "Empty"

(* What the ring holds between head and tail.                              *)
Held(q, cap) == [i \in 1 .. q.len |-> q.ring[Spot(q, cap, i - 1)].val]

(* Every ring is in shape.                                                 *)
RingShape == \A ch \in Channels : Shaped(chan[ch], Capacity[ch])

(* A function on 1 .. n is a sequence of length n.                         *)
LEMMA FcnSeq ==
  ASSUME NEW n \in Nat, NEW V, NEW f \in [1 .. n -> V]
  PROVE  f \in Seq(V) /\ Len(f) = n
<1>1. f \in Seq(V) BY SeqDef
<1>2. DOMAIN f = 1 .. Len(f) /\ Len(f) \in Nat BY <1>1, LenProperties
<1>3. DOMAIN f = 1 .. n OBVIOUS
<1>4. Len(f) = n BY <1>2, <1>3
<1> QED BY <1>1, <1>4

(* The spots of a ring are its slots, each once, as the code's % counts.   *)
LEMMA SpotFacts ==
  ASSUME NEW cap \in Nat, NEW q, q.head \in Nat, cap > 0 => q.head < cap
  PROVE  /\ \A j \in 0 .. cap - 1 : Spot(q, cap, j) \in 0 .. cap - 1
         /\ \A i, j \in 0 .. cap - 1 : Spot(q, cap, i) = Spot(q, cap, j) => i = j
         /\ \A j \in 0 .. cap - 1 : (q.head + j) % cap = Spot(q, cap, j)
         /\ cap > 0 => Spot(q, cap, 0) = q.head /\ Spot(q, cap, cap) = q.head
<1>1. PICK h \in Nat : h = q.head OBVIOUS
<1>2. \A j \in 0 .. cap - 1 : Spot(q, cap, j) \in 0 .. cap - 1
  BY <1>1 DEF Spot
<1>3. \A i, j \in 0 .. cap - 1 : Spot(q, cap, i) = Spot(q, cap, j) => i = j
  BY <1>1 DEF Spot
<1>4. ASSUME NEW j \in 0 .. cap - 1 PROVE (q.head + j) % cap = Spot(q, cap, j)
  <2>1. h < cap /\ cap > 0 /\ h + j \in Nat BY <1>1
  <2>2. CASE h + j < cap
    <3>1. (h + j) % cap = h + j BY <2>1, <2>2
    <3> QED BY <1>1, <2>2, <3>1 DEF Spot
  <2>3. CASE ~(h + j < cap)
    <3>1. h + j - cap \in Nat /\ h + j - cap < cap BY <2>1, <2>3
    <3>2. (h + j) % cap = h + j - cap BY <2>1, <3>1
    <3> QED BY <1>1, <2>3, <3>2 DEF Spot
  <2> QED BY <2>2, <2>3
<1>5. cap > 0 => Spot(q, cap, 0) = q.head /\ Spot(q, cap, cap) = q.head
  BY <1>1 DEF Spot
<1> QED BY <1>2, <1>3, <1>4, <1>5

(* Contents, written with Spot in place of %.                              *)
LEMMA HeldContents ==
  ASSUME ChanTypes, NEW ch \in Channels
  PROVE  Contents(ch) = Held(chan[ch], Capacity[ch])
<1>1. PICK cap \in Nat : cap = Capacity[ch] BY WaitAssumption
<1>2. PICK q : q = chan[ch] OBVIOUS
<1>3. /\ q.head \in Nat /\ q.len \in 0 .. cap /\ (cap > 0 => q.head < cap)
  BY <1>1, <1>2 DEF ChanTypes, RingOK, ChannelType
<1>4. ASSUME NEW i \in 1 .. q.len PROVE (q.head + i - 1) % cap = Spot(q, cap, i - 1)
  <2>1. i - 1 \in 0 .. cap - 1 BY <1>3
  <2>2. q.head + i - 1 = q.head + (i - 1) BY <1>3
  <2> QED BY <1>3, <2>1, <2>2, SpotFacts
<1>5. Contents(ch) = [i \in 1 .. q.len |-> q.ring[(q.head + i - 1) % cap].val]
  BY <1>1, <1>2 DEF Contents
<1>6. Held(chan[ch], Capacity[ch]) = [i \in 1 .. q.len |-> q.ring[Spot(q, cap, i - 1)].val]
  BY <1>1, <1>2 DEF Held
<1> QED BY <1>4, <1>5, <1>6

(* A slot is free exactly below the capacity, and a message is ready       *)
(* exactly above zero.                                                     *)
LEMMA ShapeFacts ==
  ASSUME ChanTypes, RingShape, NEW ch \in Channels
  PROVE  /\ Buffered(ch) <=> chan[ch].len > 0
         /\ SlotAvailable(ch) <=> chan[ch].len < Capacity[ch]
         /\ CanRefill(ch)
         /\ chan[ch].len \in 0 .. Capacity[ch] /\ Capacity[ch] \in Nat
         /\ Buffered(ch) => Capacity[ch] > 0
<1>1. PICK cap \in Nat : cap = Capacity[ch] BY WaitAssumption
<1>2. PICK q : q = chan[ch] OBVIOUS
<1>3. /\ q.head \in Nat /\ q.len \in 0 .. cap /\ (cap > 0 => q.head < cap)
  BY <1>1, <1>2 DEF ChanTypes, RingOK, ChannelType
<1>4. Shaped(q, cap) BY <1>1, <1>2 DEF RingShape
<1>5. q.len > 0 => q.ring[q.head].state = "Occupied"
  <2> SUFFICES ASSUME q.len > 0 PROVE q.ring[q.head].state = "Occupied" OBVIOUS
  <2>1. cap > 0 /\ 0 \in 0 .. cap - 1 BY <1>3
  <2>2. Spot(q, cap, 0) = q.head BY <1>3, <2>1, SpotFacts
  <2> QED BY <1>4, <2>1, <2>2 DEF Shaped
<1>6. q.len < cap => q.ring[q.tail].state = "Empty"
  <2> SUFFICES ASSUME q.len < cap PROVE q.ring[q.tail].state = "Empty" OBVIOUS
  <2>1. cap > 0 /\ q.len \in 0 .. cap - 1 BY <1>3
  <2> QED BY <1>3, <1>4, <2>1 DEF Shaped
<1>7. Buffered(ch) <=> q.len > 0 BY <1>2, <1>5 DEF Buffered
<1>8. SlotAvailable(ch) <=> q.len < cap BY <1>1, <1>2, <1>6 DEF SlotAvailable
<1>9. CanRefill(ch)
  <2>1. CASE q.len = 0 BY <1>7, <2>1 DEF CanRefill
  <2>2. CASE q.len < cap BY <1>8, <2>2 DEF CanRefill
  <2>3. CASE q.len # 0 /\ ~(q.len < cap)
    <3>1. q.len = cap /\ cap > 0 BY <1>3, <2>3
    <3>2. q.tail = q.head BY <1>3, <1>4, <3>1, SpotFacts DEF Shaped
    <3> QED BY <1>2, <3>2 DEF CanRefill
  <2> QED BY <2>1, <2>2, <2>3
<1>10. Buffered(ch) => cap > 0 BY <1>3, <1>7
<1> QED BY <1>1, <1>2, <1>3, <1>7, <1>8, <1>9, <1>10

(* The same of the state after a step.                                     *)
ShapesMean ==
  \A ch \in Channels :
    /\ Buffered(ch) <=> chan[ch].len > 0
    /\ SlotAvailable(ch) <=> chan[ch].len < Capacity[ch]

(* What the hints of the code say of a ring in shape.                      *)
LEMMA ShapesMeanNow == ChanTypes /\ RingShape => ShapesMean
  BY ShapeFacts DEF ShapesMean

(* The same after a step.                                                  *)
LEMMA ShapesMeanAfter == ChanTypes' /\ RingShape' => ShapesMean'
  BY ShapesMeanNow, PTL

(* ... for one channel.                                                    *)
LEMMA ShapeAfter ==
  ASSUME ChanTypes', RingShape', NEW ch \in Channels
  PROVE  /\ Buffered(ch)' <=> chan'[ch].len > 0
         /\ SlotAvailable(ch)' <=> chan'[ch].len < Capacity[ch]
<1>1. ShapesMean' BY ShapesMeanAfter
<1> QED BY <1>1 DEF ShapesMean

(* commit_slot appends to what the ring holds.                             *)
LEMMA CommitHolds ==
  ASSUME NEW ch \in Channels, NEW q, RingOK(q, Capacity[ch]), Shaped(q, Capacity[ch]),
         q.len < Capacity[ch], NEW v
  PROVE  /\ Shaped(CommitSlot(ch, q, v), Capacity[ch])
         /\ Held(CommitSlot(ch, q, v), Capacity[ch]) = Append(Held(q, Capacity[ch]), v)
         /\ CommitSlot(ch, q, v).len = q.len + 1 /\ CommitSlot(ch, q, v).closed = q.closed
<1>1. PICK cap \in Nat : cap = Capacity[ch] BY WaitAssumption
<1>2. PICK r : r = CommitSlot(ch, q, v) OBVIOUS
<1>3. /\ q.head \in Nat /\ q.len \in 0 .. cap - 1 /\ q.head < cap /\ cap > 0
      /\ q.tail \in 0 .. cap - 1 /\ q.ring \in [0 .. cap - 1 -> Slots]
  BY <1>1 DEF RingOK, ChannelType
<1>4. /\ r.head = q.head /\ r.len = q.len + 1 /\ r.closed = q.closed
      /\ r.tail = (IF q.tail + 1 = cap THEN 0 ELSE q.tail + 1)
      /\ r.ring = [q.ring EXCEPT ![q.tail] = Slot("Occupied", v)]
  <2>1. r = [closed |-> q.closed, head |-> q.head,
             tail |-> IF q.tail + 1 = cap THEN 0 ELSE q.tail + 1, len |-> q.len + 1,
             ring |-> [q.ring EXCEPT ![q.tail] = Slot("Occupied", v)],
             sendQ |-> q.sendQ, recvQ |-> q.recvQ]
    BY <1>1, <1>2, <1>3, CommitFields
  <2> QED BY <2>1
<1>5. q.tail = Spot(q, cap, q.len) BY <1>1, <1>3 DEF Shaped
<1>6. \A j : Spot(r, cap, j) = Spot(q, cap, j) BY <1>4 DEF Spot
<1>7. r.tail = Spot(r, cap, r.len)
  <2>1. PICK h \in Nat, l \in Nat : h = q.head /\ l = q.len BY <1>3
  <2>2. r.head = h /\ r.len = l + 1 /\ h < cap /\ l < cap BY <1>3, <1>4, <2>1
  <2>3. q.tail = IF h + l < cap THEN h + l ELSE h + l - cap BY <1>5, <2>1 DEF Spot
  <2>4. r.tail = IF q.tail + 1 = cap THEN 0 ELSE q.tail + 1 BY <1>4
  <2>5. Spot(r, cap, r.len) = IF h + (l + 1) < cap THEN h + (l + 1) ELSE h + (l + 1) - cap
    BY <2>2 DEF Spot
  <2> QED BY <2>2, <2>3, <2>4, <2>5
<1>8. \A j \in 0 .. cap - 1 : Spot(q, cap, j) \in 0 .. cap - 1
        /\ (Spot(q, cap, j) = q.tail <=> j = q.len)
  <2>1. /\ \A j \in 0 .. cap - 1 : Spot(q, cap, j) \in 0 .. cap - 1
        /\ \A i, j \in 0 .. cap - 1 : Spot(q, cap, i) = Spot(q, cap, j) => i = j
    BY <1>3, SpotFacts
  <2> QED BY <1>3, <1>5, <2>1
<1>9. r.ring[q.tail] = Slot("Occupied", v) /\ \A i \in 0 .. cap - 1 : i # q.tail => r.ring[i] = q.ring[i]
  BY <1>3, <1>4
<1>10. ASSUME NEW j \in 0 .. cap - 1
       PROVE  r.ring[Spot(r, cap, j)].state = IF j < r.len THEN "Occupied" ELSE "Empty"
  <2>1. CASE j = q.len
    <3>1. r.ring[Spot(r, cap, j)] = Slot("Occupied", v) BY <1>6, <1>8, <1>9, <2>1
    <3>2. j < r.len BY <1>3, <1>4, <2>1
    <3> QED BY <3>1, <3>2 DEF Slot
  <2>2. CASE j # q.len
    <3>1. r.ring[Spot(r, cap, j)] = q.ring[Spot(q, cap, j)] BY <1>6, <1>8, <1>9, <2>2
    <3>2. j < r.len <=> j < q.len BY <1>3, <1>4, <2>2
    <3> QED BY <1>1, <3>1, <3>2 DEF Shaped
  <2> QED BY <2>1, <2>2
<1>11. Shaped(r, cap) BY <1>7, <1>10 DEF Shaped
<1> DEFINE H == Held(q, cap)
           G == Held(r, cap)
<1>12. H = [i \in 1 .. q.len |-> q.ring[Spot(q, cap, i - 1)].val]
       /\ G = [i \in 1 .. q.len + 1 |-> r.ring[Spot(q, cap, i - 1)].val]
  BY <1>4, <1>6 DEF Held
<1>13. \A i \in 1 .. q.len : r.ring[Spot(q, cap, i - 1)].val = q.ring[Spot(q, cap, i - 1)].val
  <2> TAKE i \in 1 .. q.len
  <2>1. i - 1 \in 0 .. cap - 1 /\ i - 1 # q.len BY <1>3
  <2> QED BY <1>8, <1>9, <2>1
<1>14. r.ring[Spot(q, cap, (q.len + 1) - 1)].val = v
  <2>1. (q.len + 1) - 1 = q.len BY <1>3
  <2>2. Spot(q, cap, (q.len + 1) - 1) = q.tail BY <1>5, <2>1
  <2> QED BY <1>9, <2>2 DEF Slot
<1> HIDE DEF H, G
<1>15. G = Append(H, v)
  <2> DEFINE V == {q.ring[Spot(q, cap, i - 1)].val : i \in 1 .. q.len} \union {v}
  <2>1. H \in Seq(V) /\ Len(H) = q.len
    <3>1. \A i \in 1 .. q.len : H[i] \in V BY <1>12
    <3>2. q.len \in Nat BY <1>3
    <3>3. H \in [1 .. q.len -> V] BY <1>12, <3>1
    <3> QED BY <3>2, <3>3, FcnSeq
  <2>2. v \in V OBVIOUS
  <2>3. Append(H, v) \in Seq(V) /\ Len(Append(H, v)) = q.len + 1
        /\ Append(H, v)[q.len + 1] = v /\ \A i \in 1 .. q.len : Append(H, v)[i] = H[i]
    BY <2>1, <2>2, AppendProperties
  <2>4. G \in Seq(V) /\ Len(G) = q.len + 1
    <3>1. \A i \in 1 .. q.len + 1 : G[i] \in V
      <4> TAKE i \in 1 .. q.len + 1
      <4>1. CASE i = q.len + 1 BY <1>12, <1>14, <4>1
      <4>2. CASE i # q.len + 1
        <5>1. i \in 1 .. q.len BY <1>3, <4>2
        <5> QED BY <1>12, <1>13, <5>1
      <4> QED BY <4>1, <4>2
    <3>2. q.len + 1 \in Nat BY <1>3
    <3>3. G \in [1 .. q.len + 1 -> V] BY <1>12, <3>1
    <3> QED BY <3>2, <3>3, FcnSeq
  <2>5. \A i \in 1 .. q.len + 1 : G[i] = Append(H, v)[i]
    <3> TAKE i \in 1 .. q.len + 1
    <3>1. CASE i = q.len + 1 BY <1>12, <1>14, <2>3, <3>1
    <3>2. CASE i # q.len + 1
      <4>1. i \in 1 .. q.len BY <1>3, <3>2
      <4> QED BY <1>12, <1>13, <2>3, <4>1
    <3> QED BY <3>1, <3>2
  <2> HIDE DEF V
  <2> QED BY <2>3, <2>4, <2>5, SeqEqual
<1> QED BY <1>1, <1>2, <1>4, <1>11, <1>15 DEF H, G

(* take_slot removes the first of what the ring holds.                     *)
LEMMA TakeHolds ==
  ASSUME NEW ch \in Channels, NEW q, RingOK(q, Capacity[ch]), Shaped(q, Capacity[ch]), q.len > 0
  PROVE  /\ Shaped(TakeSlot(ch, q), Capacity[ch])
         /\ Held(q, Capacity[ch]) # <<>>
         /\ Held(TakeSlot(ch, q), Capacity[ch]) = Tail(Held(q, Capacity[ch]))
         /\ q.ring[q.head].val = Head(Held(q, Capacity[ch]))
         /\ TakeSlot(ch, q).len = q.len - 1 /\ TakeSlot(ch, q).closed = q.closed
<1>1. PICK cap \in Nat : cap = Capacity[ch] BY WaitAssumption
<1>2. PICK r : r = TakeSlot(ch, q) OBVIOUS
<1>3. /\ q.head \in 0 .. cap - 1 /\ q.len \in 1 .. cap /\ q.head < cap /\ cap > 0
      /\ q.tail \in 0 .. cap - 1 /\ q.ring \in [0 .. cap - 1 -> Slots]
  BY <1>1 DEF RingOK, ChannelType
<1>4. /\ r.head = (IF q.head + 1 = cap THEN 0 ELSE q.head + 1)
      /\ r.len = q.len - 1 /\ r.closed = q.closed /\ r.tail = q.tail
      /\ r.ring = [q.ring EXCEPT ![q.head] = EmptySlot]
  <2>1. r = [closed |-> q.closed,
             head |-> IF q.head + 1 = cap THEN 0 ELSE q.head + 1,
             tail |-> q.tail, len |-> q.len - 1,
             ring |-> [q.ring EXCEPT ![q.head] = EmptySlot],
             sendQ |-> q.sendQ, recvQ |-> q.recvQ]
    BY <1>1, <1>2, <1>3, TakeFields
  <2> QED BY <2>1
<1>5. q.tail = Spot(q, cap, q.len) BY <1>1, <1>3 DEF Shaped
<1>6. \A j \in 0 .. cap - 1 : Spot(r, cap, j) = Spot(q, cap, j + 1)
  <2> TAKE j \in 0 .. cap - 1
  <2>1. PICK h \in Nat : h = q.head BY <1>3
  <2>2. h < cap /\ r.head = IF h + 1 = cap THEN 0 ELSE h + 1 BY <1>3, <1>4, <2>1
  <2>3. Spot(q, cap, j + 1) = IF h + (j + 1) < cap THEN h + (j + 1) ELSE h + (j + 1) - cap
    BY <2>1 DEF Spot
  <2>4. CASE h + 1 = cap
    <3>1. r.head = 0 BY <2>2, <2>4
    <3>2. Spot(r, cap, j) = j BY <3>1 DEF Spot
    <3> QED BY <2>3, <2>4, <3>2
  <2>5. CASE h + 1 # cap
    <3>1. r.head = h + 1 BY <2>2, <2>5
    <3>2. Spot(r, cap, j) = IF (h + 1) + j < cap THEN (h + 1) + j ELSE (h + 1) + j - cap
      BY <3>1 DEF Spot
    <3> QED BY <2>3, <3>2
  <2> QED BY <2>4, <2>5
<1>7. r.tail = Spot(r, cap, r.len)
  <2>1. q.len - 1 \in 0 .. cap - 1 /\ (q.len - 1) + 1 = q.len BY <1>3
  <2> QED BY <1>4, <1>5, <1>6, <2>1
<1>8. /\ \A j \in 0 .. cap - 1 : Spot(q, cap, j) \in 0 .. cap - 1
        /\ (Spot(q, cap, j) = q.head <=> j = 0)
      /\ Spot(q, cap, 0) = q.head /\ Spot(q, cap, cap) = q.head
  <2>1. q.head \in Nat /\ 0 \in 0 .. cap - 1 BY <1>3
  <2>2. /\ \A j \in 0 .. cap - 1 : Spot(q, cap, j) \in 0 .. cap - 1
        /\ \A i, j \in 0 .. cap - 1 : Spot(q, cap, i) = Spot(q, cap, j) => i = j
        /\ Spot(q, cap, 0) = q.head /\ Spot(q, cap, cap) = q.head
    BY <1>3, <2>1, SpotFacts
  <2> QED BY <1>3, <2>1, <2>2
<1>9. r.ring[q.head] = EmptySlot /\ \A i \in 0 .. cap - 1 : i # q.head => r.ring[i] = q.ring[i]
  BY <1>3, <1>4
<1>10. ASSUME NEW j \in 0 .. cap - 1
       PROVE  r.ring[Spot(r, cap, j)].state = IF j < r.len THEN "Occupied" ELSE "Empty"
  <2>1. CASE j = cap - 1
    <3>1. j + 1 = cap /\ ~(j < r.len) BY <1>3, <1>4, <2>1
    <3>2. r.ring[Spot(r, cap, j)] = EmptySlot BY <1>6, <1>8, <1>9, <3>1
    <3> QED BY <3>1, <3>2 DEF Slot, EmptySlot
  <2>2. CASE j # cap - 1
    <3>1. j + 1 \in 0 .. cap - 1 /\ j + 1 # 0 BY <1>3, <2>2
    <3>2. r.ring[Spot(r, cap, j)] = q.ring[Spot(q, cap, j + 1)] BY <1>6, <1>8, <1>9, <3>1
    <3>3. j < r.len <=> j + 1 < q.len BY <1>3, <1>4
    <3> QED BY <1>1, <3>1, <3>2, <3>3 DEF Shaped
  <2> QED BY <2>1, <2>2
<1>11. Shaped(r, cap) BY <1>7, <1>10 DEF Shaped
<1> DEFINE H == Held(q, cap)
           G == Held(r, cap)
<1>12. H = [i \in 1 .. q.len |-> q.ring[Spot(q, cap, i - 1)].val]
       /\ G = [i \in 1 .. q.len - 1 |-> r.ring[Spot(r, cap, i - 1)].val]
  BY <1>4 DEF Held
<1>13. \A i \in 1 .. q.len - 1 :
         i + 1 \in 1 .. q.len /\ r.ring[Spot(r, cap, i - 1)].val = q.ring[Spot(q, cap, (i + 1) - 1)].val
  <2> TAKE i \in 1 .. q.len - 1
  <2>1. /\ i - 1 \in 0 .. cap - 1 /\ (i - 1) + 1 = i /\ i \in 0 .. cap - 1 /\ i # 0
        /\ (i + 1) - 1 = i /\ i + 1 \in 1 .. q.len
    BY <1>3
  <2>2. Spot(r, cap, i - 1) = Spot(q, cap, i) BY <1>6, <2>1
  <2>3. Spot(q, cap, i) # q.head /\ Spot(q, cap, i) \in 0 .. cap - 1 BY <1>8, <2>1
  <2> QED BY <1>9, <2>1, <2>2, <2>3
<1>14. q.ring[Spot(q, cap, 1 - 1)].val = q.ring[q.head].val
  <2>1. 1 - 1 = 0 OBVIOUS
  <2> QED BY <1>8, <2>1
<1> HIDE DEF H, G
<1> DEFINE V == {q.ring[Spot(q, cap, i - 1)].val : i \in 1 .. q.len}
<1>16. H \in Seq(V) /\ Len(H) = q.len /\ H # <<>> /\ H[1] = q.ring[q.head].val
  <2>1. \A i \in 1 .. q.len : H[i] \in V BY <1>12
  <2>2. q.len \in Nat /\ 1 \in 1 .. q.len BY <1>3
  <2>5. H \in [1 .. q.len -> V] BY <1>12, <2>1
  <2>3. H \in Seq(V) /\ Len(H) = q.len BY <2>2, <2>5, FcnSeq
  <2>4. H[1] = q.ring[q.head].val BY <1>12, <1>14, <2>2
  <2> QED BY <2>2, <2>3, <2>4, EmptySeq
<1> HIDE DEF V
<1>17. /\ Head(H) = H[1] /\ Tail(H) \in Seq(V) /\ Len(Tail(H)) = q.len - 1
       /\ \A i \in 1 .. q.len - 1 : Tail(H)[i] = H[i + 1]
  BY <1>16, HeadTailProperties
<1>18. G = Tail(H)
  <2>1. \A i \in 1 .. q.len - 1 : G[i] = H[i + 1] BY <1>12, <1>13
  <2>2. G \in Seq(V) /\ Len(G) = q.len - 1
    <3>1. \A i \in 1 .. q.len - 1 : G[i] \in V BY <1>17, <2>1, ElementOfSeq
    <3>2. q.len - 1 \in Nat BY <1>3
    <3>3. G \in [1 .. q.len - 1 -> V] BY <1>12, <3>1
    <3> QED BY <3>2, <3>3, FcnSeq
  <2>3. \A i \in 1 .. Len(G) : G[i] = Tail(H)[i] BY <1>17, <2>1, <2>2
  <2> QED BY <1>17, <2>2, <2>3, SeqEqual
<1> QED BY <1>1, <1>2, <1>4, <1>11, <1>16, <1>17, <1>18 DEF H, G

(* What is held is a sequence of len messages.                             *)
LEMMA HeldFacts ==
  ASSUME NEW q, NEW cap \in Nat, q.len \in 0 .. cap
  PROVE  /\ Len(Held(q, cap)) = q.len
         /\ Held(q, cap) = <<>> <=> q.len = 0
<1> DEFINE V == {q.ring[Spot(q, cap, i - 1)].val : i \in 1 .. q.len}
           H == Held(q, cap)
<1>1. H = [i \in 1 .. q.len |-> q.ring[Spot(q, cap, i - 1)].val] BY DEF Held
<1>2. H \in Seq(V) /\ Len(H) = q.len
  <2>1. \A i \in 1 .. q.len : H[i] \in V BY <1>1
  <2>2. q.len \in Nat OBVIOUS
  <2> HIDE DEF V, H
  <2>3. H \in [1 .. q.len -> V] BY <1>1, <2>1
  <2> QED BY <2>2, <2>3, FcnSeq
<1> HIDE DEF V, H
<1>3. H = <<>> <=> q.len = 0 BY <1>2, EmptySeq
<1> QED BY <1>2, <1>3 DEF H

-----------------------------------------------------------------------------
(* The call of e has returned; its handler has not committed anything yet. *)
Answered(e) == pc[e] \in {"idle", "done"} \/ (pc[e] = "wake" /\ ~IsSelect(e))
(* The places of a handler that has not committed anything yet.            *)
Undecided == Trying \union
  {"call", "checked", "reserved", "join", "cancel", "cancel_wake", "wake_join"}

(* Where the result of the current call is: in out once it has returned,   *)
(* in the claimed round before that, nowhere while nothing is committed.   *)
ResultFits(e) ==
  /\ ~Answered(e) => out[e] = NoResult
  /\ Answered(e) \/ pc[e] \in Undecided => ~Completed(e)
  /\ ~Answered(e) /\ pc[e] \notin Undecided /\ delivered[e].gen = wgen[e]
       => delivered[e].res # NoResult

(* The nodes a handler has yet to wake are of a round that was queued.     *)
WakesPast ==
  \A d \in Coroutines : \A n \in Range(wakes[d]) :
    n.gen <= wgen[n.co] /\ (pc[n.co] = "join" => n.gen < wgen[n.co])

(* No request is a large send.                                             *)
NothingLarge == \A e \in Coroutines : req[e].op # "send_large"

(* NoMissedMatch of one channel.                                           *)
Matched(ch) ==
  /\ WaitingTo(chan[ch].recvQ) # {} => ~Buffered(ch) /\ ~chan[ch].closed
  /\ WaitingTo(chan[ch].sendQ) # {} => ~SlotAvailable(ch) /\ ~chan[ch].closed
  /\ \A s \in WaitingTo(chan[ch].sendQ) : \A r \in WaitingTo(chan[ch].recvQ) : s.co = r.co

(* Every channel is matched; every call's result is in its place.          *)
AllMatched == \A ch \in Channels : Matched(ch)
AllResultsFit == \A e \in Coroutines : ResultFits(e)

(* The inductive invariant.                                                *)
MatchInv ==
  PlaneInv /\ NothingLarge /\ RingShape /\ AllResultsFit /\ WakesPast /\ AllMatched

-----------------------------------------------------------------------------
(* What c may put on a handler's list, and how its own result moves.       *)
WakesMove(c) ==
  \A n \in Range(wakes'[c]) :
    n \in Range(wakes[c]) \/ n \in Range(cancelQ) \/ \E k \in Keys : n \in Range(Queue(k))

(* c's own part of the invariant after its step.                           *)
Tidy(c) ==
  /\ WakesMove(c)
  /\ pc'[c] = "join" => wgen'[c] # wgen[c]
  /\ ResultFits(c)'
  /\ req'[c].op # "send_large"

(* A node in a queue is live, of its owner's standing round, on its key.   *)
LEMMA QueuedNode ==
  ASSUME PlaneInv, NEW k \in Keys, NEW n \in Range(Queue(k))
  PROVE  n \in Nodes /\ n.co \in Coroutines /\ n.gen = wgen[n.co] /\ n \in Range(armed[n.co])
         /\ armed[n.co] # <<>> /\ Live(n) /\ pc[n.co] # "join" /\ KeyOf(n) = k
<1>1. LocalInv /\ QueueInv BY DEF PlaneInv
<1>2. Queue(k) \in Seq(Nodes) BY <1>1, QueueTyped
<1>3. n \in Nodes BY <1>2, RangeFacts
<1>4. n.co \in Coroutines BY <1>3 DEF Nodes
<1>5. Queued(n) /\ KeyOf(n) = k BY <1>1 DEF QueueInv
<1>6. n \in Range(armed[n.co]) /\ Live(n) BY <1>5 DEF Queued, Live
<1>7. n.gen = wgen[n.co] /\ armed[n.co] # <<>> BY <1>1, <1>4, <1>6, LiveFacts
<1> QED BY <1>3, <1>4, <1>5, <1>6, <1>7 DEF Queued

(* Whoever is claimed by another was queued.                               *)
LEMMA GivenQueued ==
  ASSUME PlaneInv, PlaneInv', WakesPast, NEW c \in Coroutines, Step(c), Effect(c), WakesMove(c),
         NEW e \in Coroutines \ {c}, delivered'[e] # delivered[e]
  PROVE  pc[e] # "join"
<1>1. LocalInv /\ LocalInv' /\ CancelQInv BY DEF PlaneInv
<1>2. PICK n \in Owed(c)' : NodePending(n) /\ n.co = e
  BY DEF Effect, OweMove
<1>3. wakes'[c] \in Seq(Nodes) /\ Local(c)' BY <1>1 DEF LocalInv, Types
<1>4. n \in Range(wakes'[c])
  <2>1. CASE pc'[c] = "cancel" BY <1>2, <2>1 DEF Owed
  <2>2. CASE pc'[c] = "cancel_wake"
    <3>1. n = Head(wakes'[c]) BY <1>2, <2>2 DEF Owed
    <3>2. wakes'[c] # <<>> BY <1>3, <2>2 DEF Local, WakesFits
    <3> QED BY <1>3, <3>1, <3>2, HeadFacts
  <2>3. CASE pc'[c] \notin {"cancel", "cancel_wake"} BY <1>2, <2>3 DEF Owed
  <2> QED BY <2>1, <2>2, <2>3
<1>5. n.gen = wgen[e] /\ wgen[e] \in Nat BY <1>1, <1>2 DEF NodePending, LocalInv, Types
<1>6. CASE n \in Range(wakes[c]) BY <1>2, <1>5, <1>6 DEF WakesPast
<1>7. CASE n \in Range(cancelQ) BY <1>1, <1>2, <1>7 DEF CancelQInv, InWait
<1>8. CASE \E k \in Keys : n \in Range(Queue(k)) BY <1>2, <1>8, QueuedNode
<1> QED BY <1>4, <1>6, <1>7, <1>8 DEF WakesMove

(* A bystander keeps its result, or its open round gets one.               *)
LEMMA BystanderResult ==
  ASSUME LocalInv, NEW e \in Coroutines, Bystander(e), ResultFits(e),
         delivered'[e] # delivered[e] => pc[e] # "join"
  PROVE  /\ ResultFits(e)'
         /\ out'[e] = out[e] /\ calls'[e] = calls[e]
         /\ delivered'[e] = delivered[e] => winner'[e] = winner[e]
         /\ delivered'[e] # delivered[e] => ~Answered(e) /\ ~Completed(e) /\ out[e] = NoResult
<1>1. /\ pc'[e] = pc[e] /\ req'[e] = req[e] /\ wgen'[e] = wgen[e] /\ out'[e] = out[e]
      /\ calls'[e] = calls[e]
  BY DEF Bystander, Steady
<1>2. Answered(e)' <=> Answered(e) BY <1>1 DEF Answered, IsSelect
<1>3. CASE Same(e) \/ Woken(e)
  <2>1. delivered'[e] = delivered[e] /\ winner'[e] = winner[e] BY <1>3 DEF Same, Woken
  <2>2. Completed(e)' <=> Completed(e) BY <1>1, <2>1 DEF Completed
  <2> QED BY <1>1, <1>2, <2>1, <2>2 DEF ResultFits
<1>4. CASE Given(e)
  <2>1. PICK n, r : /\ NodePending(n) /\ n.co = e /\ r \in WaitResults
                    /\ delivered'[e] = [gen |-> wgen[e], res |-> r]
    BY <1>4 DEF Given
  <2>2. delivered[e].gen # wgen[e] /\ armed[e] # <<>>
    BY <2>1 DEF NodePending, CanClaim, Live, Range
  <2>3. delivered'[e] # delivered[e] BY <2>1, <2>2
  <2>4. r # NoResult BY <2>1, ResultNotNone
  <2>5. Local(e) /\ pc[e] \in Places BY DEF LocalInv, Types
  <2>6. ~Answered(e) /\ pc[e] \notin Undecided
    BY <2>2, <2>3, <2>5 DEF Local, ArmedFits, Answered, Undecided, Early, Trying, IsSelect
  <2>7. ~Completed(e) BY <2>2 DEF Completed
  <2>8. delivered'[e].res # NoResult BY <2>1, <2>4
  <2> QED BY <1>1, <1>2, <2>3, <2>6, <2>7, <2>8 DEF ResultFits
<1> QED BY <1>1, <1>3, <1>4 DEF Bystander

(* Results and lists stay in order, from what c does to its own.           *)
LEMMA TidyKept ==
  ASSUME MatchInv, PlaneInv', NEW c \in Coroutines, Step(c), Effect(c), Tidy(c)
  PROVE  AllResultsFit' /\ WakesPast' /\ NothingLarge'
<1>0. LocalInv /\ LocalInv' /\ CancelQInv /\ PlaneInv /\ WakesPast BY DEF MatchInv, PlaneInv
<1>1. ASSUME NEW e \in Coroutines PROVE ResultFits(e)'
  <2>1. CASE e = c BY <2>1 DEF Tidy
  <2>2. CASE e # c
    <3>1. Bystander(e) /\ ResultFits(e) BY <2>2 DEF Step, MatchInv, AllResultsFit
    <3>2. delivered'[e] # delivered[e] => pc[e] # "join" BY <1>0, <2>2, GivenQueued DEF Tidy
    <3> QED BY <1>0, <3>1, <3>2, BystanderResult
  <2> QED BY <2>1, <2>2
<1>2. \A e \in Coroutines \ {c} : pc'[e] = pc[e] /\ wgen'[e] = wgen[e] /\ wakes'[e] = wakes[e]
        /\ req'[e] = req[e]
  BY DEF Step, Bystander, Steady
<1>3. wgen'[c] \in {wgen[c], wgen[c] + 1} BY DEF Effect, Ages
<1>4. \A e \in Coroutines : wgen[e] \in Nat BY <1>0 DEF LocalInv, Types
<1>5. \A d \in Coroutines : wakes'[d] \in Seq(Nodes) BY <1>0 DEF LocalInv, Types
<1>6. pc'[c] = "join" => wgen'[c] # wgen[c] BY DEF Tidy
<1>7. ASSUME NEW d \in Coroutines, NEW n \in Range(wakes'[d])
      PROVE  n.gen <= wgen'[n.co] /\ (pc'[n.co] = "join" => n.gen < wgen'[n.co])
  <2>1. n \in Nodes BY <1>5, RangeFacts
  <2>2. n.co \in Coroutines /\ n.gen \in Nat BY WaitAssumption, <2>1 DEF Nodes
  <2>3. n.gen <= wgen[n.co] /\ (pc[n.co] = "join" => n.gen < wgen[n.co])
    <3>1. CASE n \in Range(wakes[d]) BY <1>0, <3>1 DEF WakesPast
    <3>2. CASE n \notin Range(wakes[d])
      <4>1. d = c BY <1>2, <3>2
      <4>2. n \in Range(cancelQ) \/ \E k \in Keys : n \in Range(Queue(k))
        BY <3>2, <4>1 DEF Tidy, WakesMove
      <4>3. CASE n \in Range(cancelQ)
        <5>1. Live(n) /\ pc[n.co] \in InWait BY <1>0, <4>3 DEF CancelQInv
        <5>2. n.gen = wgen[n.co] BY <1>0, <2>2, <5>1, LiveFacts DEF Live
        <5> QED BY <2>2, <5>1, <5>2 DEF InWait
      <4>4. CASE \E k \in Keys : n \in Range(Queue(k)) BY <1>0, <2>2, <4>4, QueuedNode
      <4> QED BY <4>2, <4>3, <4>4
    <3> QED BY <3>1, <3>2
  <2>4. CASE n.co = c BY <1>3, <1>4, <1>6, <2>2, <2>3, <2>4
  <2>5. CASE n.co # c BY <1>2, <2>2, <2>3, <2>5
  <2> QED BY <2>4, <2>5
<1>8. \A e \in Coroutines : req'[e].op # "send_large" BY <1>2 DEF Tidy, MatchInv, NothingLarge
<1> QED BY <1>1, <1>7, <1>8 DEF AllResultsFit, WakesPast, NothingLarge

-----------------------------------------------------------------------------
(* Who waits after the step waited before it, or has just been queued by c. *)
LEMMA WaitersKept ==
  ASSUME PlaneInv, PlaneInv', NEW c \in Coroutines, Step(c), Effect(c),
         NEW k \in Keys, NEW n \in Range(Queue(k)'), NodePending(n)'
  PROVE  \/ n \in Range(Queue(k)) /\ NodePending(n)
         \/ n.co = c /\ n \notin Range(Queue(k))
<1>1. PICK A \in SUBSET Nodes : QueueMove(c, A) BY DEF Effect
<1>2. CASE n \notin Range(Queue(k)) BY <1>1, <1>2 DEF QueueMove
<1>3. CASE n \in Range(Queue(k))
  <2>1. n.co \in Coroutines /\ n.gen = wgen[n.co] /\ armed[n.co] # <<>> /\ Live(n)
    BY <1>3, QueuedNode
  <2>2. CanClaim(n.co)' BY DEF NodePending
  <2>3. CanClaim(n.co)
    <3>1. CASE n.co = c BY <2>1, <2>2, <3>1 DEF Effect, Ages
    <3>2. CASE n.co # c
      <4>1. Bystander(n.co) /\ LocalInv BY <2>1, <3>2 DEF Step, PlaneInv
      <4> QED BY <2>1, <2>2, <4>1, BystanderFacts
    <3> QED BY <3>1, <3>2
  <2> QED BY <1>3, <2>1, <2>3 DEF NodePending
<1> QED BY <1>2, <1>3

(* The nodes in queue k that can be committed.                             *)
WaitersOf(k) == {n \in Range(Queue(k)) : NodePending(n)}

(* The waiters of the two keys of a channel.                               *)
LEMMA WaitersNames ==
  /\ \A ch : WaitersOf(<<"send", ch>>) = WaitingTo(chan[ch].sendQ)
  /\ \A ch : WaitersOf(<<"recv", ch>>) = WaitingTo(chan[ch].recvQ)
  BY DEF WaitersOf, WaitingTo, Queue

(* The same after a step.                                                  *)
LEMMA WaitersNamesAfter ==
  /\ \A ch : WaitersOf(<<"send", ch>>)' = WaitingTo(chan[ch].sendQ)'
  /\ \A ch : WaitersOf(<<"recv", ch>>)' = WaitingTo(chan[ch].recvQ)'
  BY DEF WaitersOf, WaitingTo, Queue

(* The waiters of a channel whose ring holds as much as before stay        *)
(* unmatched if those who join them found nothing.                         *)
LEMMA MatchKept ==
  ASSUME PlaneInv, PlaneInv', RingShape, RingShape',
         NEW c \in Coroutines, Step(c), Effect(c), NEW ch \in Channels, Matched(ch),
         chan'[ch].closed = chan[ch].closed, chan'[ch].len = chan[ch].len,
         \A n \in Range(chan'[ch].sendQ) : n.co = c /\ NodePending(n)' =>
           \/ n \in Range(chan[ch].sendQ)
           \/ ~chan[ch].closed /\ ~SlotAvailable(ch) /\ \A r \in WaitingTo(chan[ch].recvQ) : r.co = c,
         \A n \in Range(chan'[ch].recvQ) : n.co = c /\ NodePending(n)' =>
           \/ n \in Range(chan[ch].recvQ)
           \/ ~chan[ch].closed /\ ~Buffered(ch) /\ \A s \in WaitingTo(chan[ch].sendQ) : s.co = c
  PROVE  Matched(ch)'
<1> DEFINE sk == <<"send", ch>>
           rk == <<"recv", ch>>
<1>0. ChanTypes /\ ChanTypes' BY DEF PlaneInv, LocalInv
<1>1. /\ sk \in Keys /\ rk \in Keys
      /\ Queue(sk)' = chan'[ch].sendQ /\ Queue(rk)' = chan'[ch].recvQ
      /\ Queue(sk) = chan[ch].sendQ /\ Queue(rk) = chan[ch].recvQ
  BY QueueNames
<1>2. ASSUME NEW n \in WaitingTo(chan[ch].sendQ)'
      PROVE  \/ n \in WaitingTo(chan[ch].sendQ)
             \/ /\ n.co = c /\ ~chan[ch].closed /\ ~SlotAvailable(ch)
                /\ \A r \in WaitingTo(chan[ch].recvQ) : r.co = c
  <2>1. n \in Range(chan'[ch].sendQ) /\ NodePending(n)' BY DEF WaitingTo
  <2> QED BY <1>1, <2>1, WaitersKept DEF WaitingTo
<1>3. ASSUME NEW n \in WaitingTo(chan[ch].recvQ)'
      PROVE  \/ n \in WaitingTo(chan[ch].recvQ)
             \/ /\ n.co = c /\ ~chan[ch].closed /\ ~Buffered(ch)
                /\ \A s \in WaitingTo(chan[ch].sendQ) : s.co = c
  <2>1. n \in Range(chan'[ch].recvQ) /\ NodePending(n)' BY DEF WaitingTo
  <2> QED BY <1>1, <2>1, WaitersKept DEF WaitingTo
<1>4. (Buffered(ch) <=> chan[ch].len > 0) /\ (SlotAvailable(ch) <=> chan[ch].len < Capacity[ch])
  BY <1>0, ShapeFacts
<1>5. (Buffered(ch)' <=> chan'[ch].len > 0) /\ (SlotAvailable(ch)' <=> chan'[ch].len < Capacity[ch])
  BY <1>0, ShapeAfter
<1> DEFINE S == WaitingTo(chan[ch].sendQ)
           R == WaitingTo(chan[ch].recvQ)
           S2 == WaitingTo(chan[ch].sendQ)'
           R2 == WaitingTo(chan[ch].recvQ)'
<1>6. /\ R # {} => ~Buffered(ch) /\ ~chan[ch].closed
      /\ S # {} => ~SlotAvailable(ch) /\ ~chan[ch].closed
      /\ \A s \in S : \A r \in R : s.co = r.co
  BY DEF Matched
<1>7. (Buffered(ch)' <=> Buffered(ch)) /\ (SlotAvailable(ch)' <=> SlotAvailable(ch)) BY <1>4, <1>5
<1>8. R2 # {} => ~Buffered(ch)' /\ ~chan'[ch].closed BY <1>3, <1>6, <1>7
<1>9. S2 # {} => ~SlotAvailable(ch)' /\ ~chan'[ch].closed BY <1>2, <1>6, <1>7
<1>10. \A s \in S2 : \A r \in R2 : s.co = r.co BY <1>2, <1>3, <1>6
<1> QED BY <1>8, <1>9, <1>10 DEF Matched

-----------------------------------------------------------------------------
(* The abstract state, and the steps of ChannelSpec in terms of it.        *)
ChannelKinds == {"Sent", "SendClosed", "Recv", "RecvClosed"}
Shown(r, ch) ==
  [kind |-> r.kind, val |-> r.val, via |-> IF r.kind \in ChannelKinds THEN ch ELSE "none"]
Open(e, dir, ch) == CommittedResult(e) = Shown(NoResult, ch) /\ <<dir, ch>> \in OfferedCases(e)

(* What a step leaves alone, or changes, of the abstract state.            *)
BufsStay == \A x \in Channels : Contents(x)' = Contents(x)
BufBecomes(ch, b) == Contents(ch)' = b /\ \A x \in Channels \ {ch} : Contents(x)' = Contents(x)
ClosedStay == \A x \in Channels : chan'[x].closed = chan[x].closed
CallsStay == UNCHANGED <<calls, req>>
ResultBecomes(e, r, ch) == CommittedResult(e)' = Shown(r, ch)
ResultsStay(S) == \A e \in Coroutines \ S : CommittedResult(e)' = CommittedResult(e)

(* What the parts of the abstract state need to stay.                      *)
LEMMA AbstractStill ==
  /\ BufsStay =>
       [x \in Channels |-> Contents(x)]' = [x \in Channels |-> Contents(x)]
  /\ ClosedStay =>
       [x \in Channels |-> chan[x].closed]' = [x \in Channels |-> chan[x].closed]
  /\ CallsStay =>
       /\ calls' = calls
       /\ [e \in Coroutines |-> OfferedCases(e)]' = [e \in Coroutines |-> OfferedCases(e)]
<1>1. BufsStay => [x \in Channels |-> Contents(x)]' = [x \in Channels |-> Contents(x)]
  BY DEF BufsStay
<1>2. ClosedStay => [x \in Channels |-> chan[x].closed]' = [x \in Channels |-> chan[x].closed]
  BY DEF ClosedStay
<1>3. CallsStay =>
       /\ calls' = calls
       /\ [e \in Coroutines |-> OfferedCases(e)]' = [e \in Coroutines |-> OfferedCases(e)]
  BY DEF CallsStay, OfferedCases
<1> QED BY <1>1, <1>2, <1>3

(* A call that is open here is open there.                                 *)
LEMMA AbstractOpen ==
  ASSUME NEW c \in Coroutines, NEW dir, NEW ch, Open(c, dir, ch)
  PROVE  Abstract!Open(c, dir, ch)
  BY DEF Open, Abstract!Open, Abstract!Pending, Abstract!Outcome, Abstract!Nowhere, Shown,
     ChannelKinds, NoResult, Result, NoVal

(* One result that changes is a Commit.                                    *)
LEMMA AbstractCommit ==
  ASSUME NEW c \in Coroutines, NEW r, NEW ch, ResultBecomes(c, r, ch), ResultsStay({c})
  PROVE  Abstract!Commit(c, Shown(r, ch))
  BY DEF Abstract!Commit, ResultBecomes, ResultsStay

(* How each result reads in the abstract state.                            *)
LEMMA ShownFacts ==
  ASSUME NEW ch
  PROVE  /\ Shown(Result("Sent"), ch) = Abstract!Outcome("Sent", ch)
         /\ Shown(Result("SendClosed"), ch) = Abstract!Outcome("SendClosed", ch)
         /\ Shown(Result("RecvClosed"), ch) = Abstract!Outcome("RecvClosed", ch)
         /\ \A v : Shown(Received(v), ch) = Abstract!Received(v, ch)
         /\ \A k \in {"Default", "Join", "Cancelled", "Done", "Full", "Empty", "Error"} :
              Shown(Result(k), ch) = Abstract!Outcome(k, Abstract!Nowhere)
         /\ Shown(NoResult, ch) = Abstract!Pending
  BY DEF Shown, ChannelKinds, Result, NoVal, Received, NoResult, Abstract!Outcome, Abstract!Received,
     Abstract!Nowhere, Abstract!Pending

(* A message is queued: Send.                                              *)
LEMMA AbstractSend ==
  ASSUME NEW c \in Coroutines, NEW ch \in Channels,
         Open(c, "send", ch), ~chan[ch].closed, Len(Contents(ch)) < Capacity[ch],
         BufBecomes(ch, Append(Contents(ch), Payload(c))), ResultBecomes(c, Result("Sent"), ch),
         ResultsStay({c}), ClosedStay, CallsStay
  PROVE  Abstract!Next
<1>1. Abstract!Send(c, ch)
  <2>1. Abstract!Open(c, "send", ch) BY AbstractOpen
  <2>2. Abstract!Commit(c, Abstract!Outcome("Sent", ch)) BY AbstractCommit, ShownFacts
  <2>3. [x \in Channels |-> Contents(x)]' =
          [[x \in Channels |-> Contents(x)] EXCEPT ![ch] = Append(@, Abstract!Message(c))]
    BY DEF BufBecomes, Payload, Abstract!Message
  <2> QED BY <2>1, <2>2, <2>3, AbstractStill DEF Abstract!Send
<1> QED BY <1>1 DEF Abstract!Next

(* The oldest message is taken: Receive.                                   *)
LEMMA AbstractReceive ==
  ASSUME NEW c \in Coroutines, NEW ch \in Channels,
         Open(c, "recv", ch), Contents(ch) # <<>>, BufBecomes(ch, Tail(Contents(ch))),
         ResultBecomes(c, Received(Head(Contents(ch))), ch),
         ResultsStay({c}), ClosedStay, CallsStay
  PROVE  Abstract!Next
<1>1. Abstract!Receive(c, ch)
  <2>1. Abstract!Open(c, "recv", ch) BY AbstractOpen
  <2>2. Abstract!Commit(c, Abstract!Received(Head(Contents(ch)), ch)) BY AbstractCommit, ShownFacts
  <2>3. [x \in Channels |-> Contents(x)]' =
          [[x \in Channels |-> Contents(x)] EXCEPT ![ch] = Tail(@)]
    BY DEF BufBecomes
  <2> QED BY <2>1, <2>2, <2>3, AbstractStill DEF Abstract!Receive
<1> QED BY <1>1 DEF Abstract!Next

(* A message is taken and a blocked sender let in: ReceiveAndRefill.       *)
LEMMA AbstractRefill ==
  ASSUME NEW c \in Coroutines, NEW s \in Coroutines, c # s, NEW ch \in Channels,
         Open(c, "recv", ch), Open(s, "send", ch), ~chan[ch].closed, Contents(ch) # <<>>,
         BufBecomes(ch, Append(Tail(Contents(ch)), Payload(s))),
         ResultBecomes(c, Received(Head(Contents(ch))), ch), ResultBecomes(s, Result("Sent"), ch),
         ResultsStay({c, s}), ClosedStay, CallsStay
  PROVE  Abstract!Next
<1>1. Abstract!ReceiveAndRefill(c, s, ch)
  <2>1. Abstract!Open(c, "recv", ch) /\ Abstract!Open(s, "send", ch) BY AbstractOpen
  <2>2. CommittedResult(c)' = Abstract!Received(Head(Contents(ch)), ch)
        /\ CommittedResult(s)' = Abstract!Outcome("Sent", ch)
    BY ShownFacts DEF ResultBecomes
  <2>3. [e \in Coroutines |-> CommittedResult(e)]' =
          [[e \in Coroutines |-> CommittedResult(e)] EXCEPT
             ![c] = Abstract!Received(Head(Contents(ch)), ch), ![s] = Abstract!Outcome("Sent", ch)]
    BY <2>2 DEF ResultsStay
  <2>4. [x \in Channels |-> Contents(x)]' =
          [[x \in Channels |-> Contents(x)] EXCEPT ![ch] = Append(Tail(@), Abstract!Message(s))]
    BY DEF BufBecomes, Payload, Abstract!Message
  <2> QED BY <2>1, <2>3, <2>4, AbstractStill DEF Abstract!ReceiveAndRefill
<1> QED BY <1>1 DEF Abstract!Next

(* A sender and a receiver meet: Rendezvous.                               *)
LEMMA AbstractRendezvous ==
  ASSUME NEW s \in Coroutines, NEW r \in Coroutines, s # r, NEW ch \in Channels,
         Open(s, "send", ch), Open(r, "recv", ch), ~chan[ch].closed, Contents(ch) = <<>>,
         ResultBecomes(s, Result("Sent"), ch), ResultBecomes(r, Received(Payload(s)), ch),
         ResultsStay({s, r}), BufsStay, ClosedStay, CallsStay
  PROVE  Abstract!Next
<1>1. Abstract!Rendezvous(s, r, ch)
  <2>1. Abstract!Open(s, "send", ch) /\ Abstract!Open(r, "recv", ch) BY AbstractOpen
  <2>2. CommittedResult(r)' = Abstract!Received(Payload(s), ch)
        /\ CommittedResult(s)' = Abstract!Outcome("Sent", ch)
    BY ShownFacts DEF ResultBecomes
  <2>3. [e \in Coroutines |-> CommittedResult(e)]' =
          [[e \in Coroutines |-> CommittedResult(e)] EXCEPT
             ![s] = Abstract!Outcome("Sent", ch), ![r] = Abstract!Received(Abstract!Message(s), ch)]
    BY <2>2 DEF ResultsStay, Payload, Abstract!Message
  <2> QED BY <2>1, <2>3, AbstractStill DEF Abstract!Rendezvous
<1> QED BY <1>1 DEF Abstract!Next

(* A send on a closed channel: SendOnClosed.                               *)
LEMMA AbstractSendOnClosed ==
  ASSUME NEW c \in Coroutines, NEW ch \in Channels, Open(c, "send", ch), chan[ch].closed,
         ResultBecomes(c, Result("SendClosed"), ch), ResultsStay({c}), BufsStay, ClosedStay, CallsStay
  PROVE  Abstract!Next
<1>1. Abstract!SendOnClosed(c, ch)
  <2>1. Abstract!Open(c, "send", ch) BY AbstractOpen
  <2>2. Abstract!Commit(c, Abstract!Outcome("SendClosed", ch)) BY AbstractCommit, ShownFacts
  <2> QED BY <2>1, <2>2, AbstractStill DEF Abstract!SendOnClosed
<1> QED BY <1>1 DEF Abstract!Next

(* A receive on a closed and drained channel: ReceiveEnd.                  *)
LEMMA AbstractReceiveEnd ==
  ASSUME NEW c \in Coroutines, NEW ch \in Channels, Open(c, "recv", ch), chan[ch].closed,
         Contents(ch) = <<>>,
         ResultBecomes(c, Result("RecvClosed"), ch), ResultsStay({c}), BufsStay, ClosedStay, CallsStay
  PROVE  Abstract!Next
<1>1. Abstract!ReceiveEnd(c, ch)
  <2>1. Abstract!Open(c, "recv", ch) BY AbstractOpen
  <2>2. Abstract!Commit(c, Abstract!Outcome("RecvClosed", ch)) BY AbstractCommit, ShownFacts
  <2> QED BY <2>1, <2>2, AbstractStill DEF Abstract!ReceiveEnd
<1> QED BY <1>1 DEF Abstract!Next

(* close and those it ends: Close.                                         *)
LEMMA AbstractClose ==
  ASSUME NEW c \in Coroutines, NEW ch \in Channels, Open(c, "close", ch), ~chan[ch].closed,
         chan'[ch].closed, \A x \in Channels \ {ch} : chan'[x].closed = chan[x].closed,
         ResultBecomes(c, Result("Done"), ch),
         \A d \in Coroutines \ {c} :
           \/ CommittedResult(d)' = CommittedResult(d)
           \/ Open(d, "send", ch) /\ ResultBecomes(d, Result("SendClosed"), ch)
           \/ Open(d, "recv", ch) /\ Contents(ch) = <<>> /\ ResultBecomes(d, Result("RecvClosed"), ch),
         chan'[ch].closed \in BOOLEAN, BufsStay, CallsStay
  PROVE  Abstract!Next
<1>1. Abstract!Close(c, ch)
  <2>1. Abstract!Open(c, "close", ch) BY AbstractOpen
  <2>2. CommittedResult(c)' = Abstract!Outcome("Done", Abstract!Nowhere)
    BY ShownFacts DEF ResultBecomes
  <2>3. ASSUME NEW d \in Coroutines \ {c}
        PROVE  \/ CommittedResult(d)' = CommittedResult(d)
               \/ Abstract!Open(d, "send", ch) /\ CommittedResult(d)' = Abstract!Outcome("SendClosed", ch)
               \/ Abstract!Open(d, "recv", ch) /\ Contents(ch) = <<>>
                  /\ CommittedResult(d)' = Abstract!Outcome("RecvClosed", ch)
    BY AbstractOpen, ShownFacts DEF ResultBecomes
  <2>4. [x \in Channels |-> chan[x].closed]' = [[x \in Channels |-> chan[x].closed] EXCEPT ![ch] = TRUE]
    <3>1. chan'[ch].closed = TRUE OBVIOUS
    <3> QED BY <3>1
  <2> QED BY <2>1, <2>2, <2>3, <2>4, AbstractStill DEF Abstract!Close
<1> QED BY <1>1 DEF Abstract!Next

(* A request that does not wait gives up: Refuse.                          *)
LEMMA AbstractRefuse ==
  ASSUME NEW c \in Coroutines, NEW ch \in Channels,
         \/ /\ Open(c, "send", ch) /\ Len(Contents(ch)) = Capacity[ch]
            /\ ResultBecomes(c, Result("Full"), ch)
         \/ Open(c, "recv", ch) /\ Contents(ch) = <<>> /\ ResultBecomes(c, Result("Empty"), ch)
         \/ Open(c, "close", ch) /\ chan[ch].closed /\ ResultBecomes(c, Result("Error"), ch),
         ResultsStay({c}), BufsStay, ClosedStay, CallsStay
  PROVE  Abstract!Next
<1>1. Abstract!Refuse(c, ch)
  <2>1. CASE /\ Open(c, "send", ch) /\ Len(Contents(ch)) = Capacity[ch]
             /\ ResultBecomes(c, Result("Full"), ch)
    <3>1. Abstract!Open(c, "send", ch) BY <2>1, AbstractOpen
    <3>2. Abstract!Commit(c, Abstract!Outcome("Full", Abstract!Nowhere))
      BY <2>1, AbstractCommit, ShownFacts
    <3> QED BY <2>1, <3>1, <3>2, AbstractStill DEF Abstract!Refuse
  <2>2. CASE Open(c, "recv", ch) /\ Contents(ch) = <<>> /\ ResultBecomes(c, Result("Empty"), ch)
    <3>1. Abstract!Open(c, "recv", ch) BY <2>2, AbstractOpen
    <3>2. Abstract!Commit(c, Abstract!Outcome("Empty", Abstract!Nowhere))
      BY <2>2, AbstractCommit, ShownFacts
    <3> QED BY <2>2, <3>1, <3>2, AbstractStill DEF Abstract!Refuse
  <2>3. CASE Open(c, "close", ch) /\ chan[ch].closed /\ ResultBecomes(c, Result("Error"), ch)
    <3>1. Abstract!Open(c, "close", ch) BY <2>3, AbstractOpen
    <3>2. Abstract!Commit(c, Abstract!Outcome("Error", Abstract!Nowhere))
      BY <2>3, AbstractCommit, ShownFacts
    <3> QED BY <2>3, <3>1, <3>2, AbstractStill DEF Abstract!Refuse
  <2> QED BY <2>1, <2>2, <2>3
<1> QED BY <1>1 DEF Abstract!Next

(* A result that touches no channel, or none.                              *)
AsideKinds == {"Default", "Join", "Cancelled", "Done"}
Eases(e) ==
  \/ CommittedResult(e)' = CommittedResult(e)
  \/ /\ CommittedResult(e) = Abstract!Pending
     /\ \E kind \in AsideKinds : CommittedResult(e)' = Abstract!Outcome(kind, Abstract!Nowhere)

(* Results that touch no channel, or no change at all: Aside.              *)
LEMMA AbstractAside ==
  ASSUME \A e \in Coroutines : Eases(e), BufsStay, ClosedStay, CallsStay
  PROVE  Abstract!Next
<1>1. Abstract!Aside BY AbstractStill DEF Abstract!Aside, Eases, AsideKinds
<1> QED BY <1>1 DEF Abstract!Next

(* A new call: Begin.                                                      *)
LEMMA AbstractBegin ==
  ASSUME NEW c \in Coroutines, calls' = [calls EXCEPT ![c] = @ + 1],
         CommittedResult(c)' = Abstract!Pending, ResultsStay({c}), BufsStay, ClosedStay,
         \A e \in Coroutines \ {c} : req'[e] = req[e]
  PROVE  Abstract!Next
<1>1. Abstract!Begin(c)
  <2>1. Abstract!Commit(c, Abstract!Pending)
    BY DEF Abstract!Commit, ResultsStay
  <2>2. \A e \in Coroutines \ {c} : OfferedCases(e)' = OfferedCases(e) BY DEF OfferedCases
  <2> QED BY <2>1, <2>2, AbstractStill DEF Abstract!Begin
<1> QED BY <1>1 DEF Abstract!Next

-----------------------------------------------------------------------------
(* How a step shows in the results.                                        *)
NodeClaimed(n, r) ==
  /\ delivered'[n.co] = [gen |-> wgen[n.co], res |-> r]
  /\ IsSelect(n.co) => winner'[n.co] = CaseWinner(n.case)

(* The shown result depends on the caller's own state only.                *)
LEMMA ResultSame ==
  ASSUME NEW e, req'[e] = req[e], wgen'[e] = wgen[e], out'[e] = out[e],
         delivered'[e] = delivered[e], winner'[e] = winner[e]
  PROVE  CommittedResult(e)' = CommittedResult(e)
  BY DEF CommittedResult, Via, Completed, IsSelect

(* Nothing is shown of a call while its round is open.                     *)
LEMMA NothingShown ==
  ASSUME NEW e, ~Completed(e), out[e] = NoResult
  PROVE  CommittedResult(e) = Abstract!Pending /\ \A ch : CommittedResult(e) = Shown(NoResult, ch)
  BY DEF CommittedResult, Via, NoResult, Result, NoVal, Shown, ChannelKinds, Abstract!Pending,
     Abstract!Outcome, Abstract!Nowhere

(* The same after a step.                                                  *)
LEMMA NothingShownAfter ==
  ASSUME NEW e, ~Completed(e)', out'[e] = NoResult
  PROVE  CommittedResult(e)' = Abstract!Pending
  BY DEF CommittedResult, Via, NoResult, Result, NoVal, Abstract!Pending,
     Abstract!Outcome, Abstract!Nowhere

(* A claimed node shows the result on the channel of its case.             *)
LEMMA ClaimShown ==
  ASSUME LocalInv, AllResultsFit, NEW e \in Coroutines, NEW n \in Range(armed[e]),
         NodePending(n),
         req'[e] = req[e], wgen'[e] = wgen[e], out'[e] = out[e],
         NEW r \in WaitResults, NodeClaimed(n, r)
  PROVE  /\ CommittedResult(e) = Abstract!Pending
         /\ r.kind \notin ChannelKinds => \A ch : ResultBecomes(e, r, ch)
         /\ \A dir \in {"send", "recv"} : \A ch : KeyOf(n) = <<dir, ch>> =>
              Open(e, dir, ch) /\ ResultBecomes(e, r, ch)
<1>1. n.co = e /\ armed[e] # <<>> /\ n.case \in Nat
      /\ (req[e].cases # <<>> => n.case \in DOMAIN req[e].cases)
  BY LiveFacts DEF Nodes
<1>2. Local(e) /\ pc[e] \in Places BY DEF LocalInv, Types
<1>3. delivered[e].gen # wgen[e] BY <1>1 DEF NodePending, CanClaim
<1>4. ~Answered(e) /\ ~Completed(e)
  BY <1>1, <1>2, <1>3 DEF Local, ArmedFits, Answered, Early, IsSelect, Completed
<1>5. out[e] = NoResult BY <1>4 DEF AllResultsFit, ResultFits
<1>6. r # NoResult BY ResultNotNone
<1>7. Completed(e)' /\ delivered'[e].res = r BY <1>1, <1>6 DEF NodeClaimed, Completed
<1>8. CommittedResult(e)' = [kind |-> r.kind, val |-> r.val, via |-> Via(e, r.kind)']
  BY <1>7 DEF CommittedResult, Via
<1>9. CommittedResult(e) = Abstract!Pending /\ \A ch : CommittedResult(e) = Shown(NoResult, ch)
  BY <1>4, <1>5, NothingShown
<1>10. ASSUME r.kind \notin ChannelKinds, NEW ch PROVE ResultBecomes(e, r, ch)
  BY <1>8, <1>10 DEF ResultBecomes, Shown, Via, ChannelKinds
<1>11. ASSUME NEW dir \in {"send", "recv"}, NEW ch, KeyOf(n) = <<dir, ch>>
       PROVE  Open(e, dir, ch) /\ ResultBecomes(e, r, ch)
  <2>1. req[e].cases # <<>> BY <1>1, <1>11 DEF KeyOf
  <2>2. KeyOf(n) = <<req[e].cases[n.case].dir, req[e].cases[n.case].src>> BY <1>1, <2>1 DEF KeyOf
  <2>3. req[e].cases[n.case].dir = dir /\ req[e].cases[n.case].src = ch BY <1>11, <2>2
  <2>4. n.case \in DOMAIN req[e].cases BY <1>1, <2>1
  <2>5. <<dir, ch>> \in OfferedCases(e) BY <2>3, <2>4 DEF OfferedCases
  <2>6. n.case = IF IsSelect(e)' THEN winner'[e] - 1 ELSE 1
    <3>1. CASE IsSelect(e)
      <4>1. winner'[e] = n.case + 1 BY <1>1, <3>1 DEF NodeClaimed, CaseWinner
      <4>2. IsSelect(e)' BY <3>1 DEF IsSelect
      <4> QED BY <1>1, <4>1, <4>2
    <3>2. CASE ~IsSelect(e)
      <4>1. req[e] \in Requests /\ req[e].op \in WaitOps BY <1>1, RoundRequest
      <4>2. DOMAIN req[e].cases = {1}
        BY <3>2, <4>1, RequestFacts DEF IsSelect, WaitOps, SendOps, RecvOps, JoinOps
      <4> QED BY <2>4, <3>2, <4>2 DEF IsSelect
    <3> QED BY <3>1, <3>2
  <2>7. CASE r.kind \in ChannelKinds
    <3>1. Via(e, r.kind)' = ch BY <2>3, <2>6, <2>7 DEF Via, ChannelKinds, IsSelect
    <3> QED BY <1>8, <1>9, <2>5, <2>7, <3>1 DEF ResultBecomes, Shown, Open
  <2>8. CASE r.kind \notin ChannelKinds BY <1>9, <1>10, <2>5, <2>8 DEF Open
  <2> QED BY <2>7, <2>8
<1> QED BY <1>9, <1>10, <1>11

(* Others: nothing changes unless their round is claimed.                  *)
LEMMA OthersStay ==
  ASSUME MatchInv, PlaneInv', NEW c \in Coroutines, Step(c), Effect(c), WakesMove(c),
         NEW e \in Coroutines \ {c}, delivered'[e] = delivered[e]
  PROVE  CommittedResult(e)' = CommittedResult(e)
<1>1. Bystander(e) /\ ResultFits(e) /\ LocalInv
  BY DEF Step, MatchInv, AllResultsFit, PlaneInv
<1>2. out'[e] = out[e] /\ winner'[e] = winner[e] BY <1>1, BystanderResult
<1>3. req'[e] = req[e] /\ wgen'[e] = wgen[e] BY <1>1, BystanderFacts
<1> QED BY <1>2, <1>3, ResultSame

-----------------------------------------------------------------------------
(* The coroutine whose handler commits: a plain request (i = 0) or case i  *)
(* of a select, with its direction and channel.                            *)
Asks(c, i, dir, s) ==
  \/ /\ i = 0 /\ pc[c] \in {"call", "checked"} /\ ~IsSelect(c) /\ DOMAIN req[c].cases = {1}
     /\ req[c].cases[1].dir = dir /\ req[c].cases[1].src = s
  \/ /\ i \in Nat \ {0} /\ i \in DOMAIN req[c].cases /\ IsSelect(c)
     /\ pc[c] \in Trying \union {"register"} /\ delivered[c].gen # wgen[c]
     /\ req[c].cases[i].dir = dir /\ req[c].cases[i].src = s

(* What c gets: a return value, or a claimed round.                        *)
Gets(c, i, res) ==
  /\ UNCHANGED <<calls, req, wgen, armed>>
  /\ i = 0 => /\ out'[c] = res /\ delivered'[c] = delivered[c] /\ winner'[c] = winner[c]
              /\ pc'[c] \in {"idle", "wake"}
  /\ i # 0 => /\ out'[c] = out[c] /\ delivered'[c] = [gen |-> wgen[c], res |-> res]
              /\ winner'[c] = CaseWinner(i) /\ pc'[c] \in {"arm", "cleanup"}

(* c has no node left that could be claimed.                               *)
Settled(c) == \A n : n.co = c => ~NodePending(n)'

(* The call of c was open and shows the result of its commit.              *)
LEMMA AskerResult ==
  ASSUME MatchInv, NEW c \in Coroutines, NEW i, NEW dir, NEW s, Asks(c, i, dir, s),
         NEW res, Gets(c, i, res), res # NoResult
  PROVE  /\ Open(c, dir, s) /\ ResultBecomes(c, res, s)
         /\ CommittedResult(c) = Abstract!Pending
         /\ ResultFits(c)' /\ Settled(c)
<1>0. ResultFits(c) /\ Local(c) /\ ~(pc[c] \in {"idle", "done", "wake"})
  BY DEF MatchInv, PlaneInv, LocalInv, AllResultsFit, Asks, Trying
<1>1. ~Answered(c) /\ ~Completed(c) /\ out[c] = NoResult
  BY <1>0 DEF ResultFits, Answered, Asks, Undecided, Completed, Trying
<1>2. CommittedResult(c) = Abstract!Pending /\ \A ch : CommittedResult(c) = Shown(NoResult, ch)
  BY <1>1, NothingShown
<1>3. <<dir, s>> \in OfferedCases(c)
  <2>1. CASE i = 0
    <3>1. 1 \in DOMAIN req[c].cases /\ req[c].cases[1].dir = dir /\ req[c].cases[1].src = s
      BY <2>1 DEF Asks
    <3> QED BY <3>1 DEF OfferedCases
  <2>2. CASE i # 0
    <3>1. i \in DOMAIN req[c].cases /\ req[c].cases[i].dir = dir /\ req[c].cases[i].src = s
      BY <2>2 DEF Asks
    <3> QED BY <3>1 DEF OfferedCases
  <2> QED BY <2>1, <2>2
<1>4. CASE i = 0
  <2>1. /\ out'[c] = res /\ delivered'[c] = delivered[c] /\ req'[c] = req[c] /\ wgen'[c] = wgen[c]
        /\ pc'[c] \in {"idle", "wake"} /\ armed' = armed
    BY <1>4 DEF Gets
  <2>2. pc[c] \in {"call", "checked"} /\ ~IsSelect(c) /\ req[c].cases[1].src = s BY <1>4 DEF Asks
  <2>3. ~IsSelect(c)' /\ ~Completed(c)' BY <1>1, <2>1, <2>2 DEF IsSelect, Completed
  <2>4. CommittedResult(c)' = [kind |-> res.kind, val |-> res.val, via |-> Via(c, res.kind)']
    BY <2>1, <2>3 DEF CommittedResult, Via
  <2>5. Via(c, res.kind)' = IF res.kind \in ChannelKinds THEN s ELSE "none"
    BY <2>1, <2>2, <2>3 DEF Via, ChannelKinds
  <2>6. ResultBecomes(c, res, s) BY <2>4, <2>5 DEF ResultBecomes, Shown
  <2>7. Answered(c)' BY <2>1, <2>3 DEF Answered
  <2>8. armed[c] = <<>> BY <1>0, <2>2 DEF Local, ArmedFits, Early
  <2>9. Settled(c) BY <2>1, <2>8 DEF Settled, NodePending, Live, Range
  <2> QED BY <1>2, <1>3, <2>3, <2>6, <2>7, <2>9 DEF Open, ResultFits
<1>5. CASE i # 0
  <2>1. /\ out'[c] = out[c] /\ delivered'[c] = [gen |-> wgen[c], res |-> res] /\ req'[c] = req[c]
        /\ wgen'[c] = wgen[c] /\ winner'[c] = CaseWinner(i) /\ pc'[c] \in {"arm", "cleanup"}
    BY <1>5 DEF Gets
  <2>2. i \in Nat /\ IsSelect(c) /\ req[c].cases[i].src = s BY <1>5 DEF Asks
  <2>3. IsSelect(c)' /\ Completed(c)' /\ delivered'[c].res = res
    BY <2>1, <2>2 DEF IsSelect, Completed
  <2>4. CommittedResult(c)' = [kind |-> res.kind, val |-> res.val, via |-> Via(c, res.kind)']
    BY <2>3 DEF CommittedResult, Via
  <2>5. winner'[c] - 1 = i BY <2>1, <2>2 DEF CaseWinner
  <2>6. Via(c, res.kind)' = IF res.kind \in ChannelKinds THEN s ELSE "none"
    BY <2>1, <2>2, <2>3, <2>5 DEF Via, ChannelKinds
  <2>7. ResultBecomes(c, res, s) BY <2>4, <2>6 DEF ResultBecomes, Shown
  <2>8. ResultFits(c)' BY <1>1, <2>1, <2>3 DEF ResultFits, Answered, Undecided, Trying
  <2>9. Settled(c) BY <2>1 DEF Settled, NodePending, CanClaim
  <2> QED BY <1>2, <1>3, <2>7, <2>8, <2>9 DEF Open
<1> QED BY <1>4, <1>5

-----------------------------------------------------------------------------
(* Rings that differ in nothing hold the same.                             *)
RingLike(q2, q) ==
  /\ q2.closed = q.closed /\ q2.len = q.len /\ q2.head = q.head /\ q2.tail = q.tail
  /\ q2.ring = q.ring

(* Shape and contents are those of the five ring fields.                   *)
LEMMA RingLikeFacts ==
  ASSUME NEW q2, NEW q, RingLike(q2, q), NEW cap
  PROVE  (Shaped(q2, cap) <=> Shaped(q, cap)) /\ Held(q2, cap) = Held(q, cap)
<1>1. \A j : Spot(q2, cap, j) = Spot(q, cap, j) BY DEF RingLike, Spot
<1> QED BY <1>1 DEF RingLike, Shaped, Held

HeldsMean == \A ch \in Channels : Contents(ch) = Held(chan[ch], Capacity[ch])

(* Contents is what the ring record holds.                                 *)
LEMMA HeldsMeanNow == ChanTypes => HeldsMean
  BY HeldContents DEF HeldsMean

(* The same after a step.                                                  *)
LEMMA HeldsMeanAfter == ChanTypes' => HeldsMean'
  BY HeldsMeanNow, PTL

(* ... for one channel.                                                    *)
LEMMA HeldAfter ==
  ASSUME ChanTypes', NEW ch \in Channels
  PROVE  Contents(ch)' = Held(chan'[ch], Capacity[ch])
<1>1. HeldsMean' BY HeldsMeanAfter
<1> QED BY <1>1 DEF HeldsMean

(* What a channel holds, by its length.                                    *)
LEMMA ContentsFacts ==
  ASSUME ChanTypes, NEW ch \in Channels
  PROVE  Len(Contents(ch)) = chan[ch].len /\ (Contents(ch) = <<>> <=> chan[ch].len = 0)
<1>1. Capacity[ch] \in Nat BY WaitAssumption
<1>2. chan[ch].len \in 0 .. Capacity[ch] BY DEF ChanTypes, RingOK, ChannelType
<1> QED BY <1>1, <1>2, HeldContents, HeldFacts

(* Every ring stays as it was ...                                          *)
LEMMA RingsStill ==
  ASSUME ChanTypes, ChanTypes', RingShape, \A x \in Channels : RingLike(chan'[x], chan[x])
  PROVE  RingShape' /\ BufsStay /\ ClosedStay
<1>1. ASSUME NEW x \in Channels
      PROVE  Shaped(chan'[x], Capacity[x]) /\ Contents(x)' = Contents(x)
             /\ chan'[x].closed = chan[x].closed
  <2>1. Shaped(chan[x], Capacity[x]) BY DEF RingShape
  <2>2. Contents(x) = Held(chan[x], Capacity[x]) BY HeldContents
  <2>3. Contents(x)' = Held(chan'[x], Capacity[x]) BY HeldAfter
  <2> QED BY <2>1, <2>2, <2>3, RingLikeFacts DEF RingLike
<1> QED BY <1>1 DEF RingShape, BufsStay, ClosedStay

(* ... or only that of ch changes.                                         *)
LEMMA RingChanges ==
  ASSUME ChanTypes, ChanTypes', RingShape, NEW ch \in Channels,
         NEW chan0, SameRings(chan0), NEW q2, chan' = [chan0 EXCEPT ![ch] = q2],
         Shaped(q2, Capacity[ch]), q2.closed = chan[ch].closed
  PROVE  /\ RingShape' /\ BufBecomes(ch, Held(q2, Capacity[ch])) /\ ClosedStay
         /\ chan'[ch] = q2
         /\ \A x \in Channels \ {ch} : RingLike(chan'[x], chan[x])
<1>1. chan'[ch] = q2 /\ \A x \in Channels \ {ch} : chan'[x] = chan0[x]
  BY DEF SameRings
<1>2. \A x \in Channels \ {ch} : RingLike(chan'[x], chan[x]) BY <1>1 DEF SameRings, RingLike
<1>3. ASSUME NEW x \in Channels \ {ch}
      PROVE  Shaped(chan'[x], Capacity[x]) /\ Contents(x)' = Contents(x)
             /\ chan'[x].closed = chan[x].closed
  <2>1. Shaped(chan[x], Capacity[x]) BY DEF RingShape
  <2>2. Contents(x) = Held(chan[x], Capacity[x]) BY HeldContents
  <2>3. Contents(x)' = Held(chan'[x], Capacity[x]) BY HeldAfter
  <2> QED BY <1>2, <2>1, <2>2, <2>3, RingLikeFacts DEF RingLike
<1>4. Contents(ch)' = Held(q2, Capacity[ch]) BY <1>1, HeldAfter
<1> QED BY <1>1, <1>2, <1>3, <1>4 DEF RingShape, BufBecomes, ClosedStay

-----------------------------------------------------------------------------
(* When c waits nowhere after the step, nobody new waits.                  *)
LEMMA MatchSettled ==
  ASSUME PlaneInv, PlaneInv', RingShape, RingShape',
         NEW c \in Coroutines, Step(c), Effect(c), Settled(c), NEW ch \in Channels, Matched(ch),
         chan'[ch].closed = chan[ch].closed, chan'[ch].len = chan[ch].len
  PROVE  Matched(ch)'
<1>1. /\ \A n \in Range(chan'[ch].sendQ) : ~(n.co = c /\ NodePending(n)')
      /\ \A n \in Range(chan'[ch].recvQ) : ~(n.co = c /\ NodePending(n)')
  BY DEF Settled
<1> QED BY <1>1, MatchKept

(* Where c found nobody to serve, nobody waits after the step.             *)
LEMMA NobodyWaits ==
  ASSUME PlaneInv, PlaneInv', NEW c \in Coroutines, Step(c), Effect(c), Settled(c),
         NEW k \in Keys, WaitersOf(k) = {} \/ Pending(Queue(k), c) = <<>>
  PROVE  WaitersOf(k)' = {}
<1> SUFFICES ASSUME NEW n \in WaitersOf(k)' PROVE FALSE OBVIOUS
<1>1. n \in Range(Queue(k)') /\ NodePending(n)' BY DEF WaitersOf
<1>2. n.co # c BY <1>1 DEF Settled
<1>3. n \in Range(Queue(k)) /\ NodePending(n) BY <1>1, <1>2, WaitersKept
<1>4. CASE WaitersOf(k) = {} BY <1>3, <1>4 DEF WaitersOf
<1>5. CASE Pending(Queue(k), c) = <<>>
  <2>1. Queue(k) \in Seq(Nodes) BY QueueTyped DEF PlaneInv
  <2>2. n \in Range(Pending(Queue(k), c)) BY <1>2, <1>3, <2>1, PendingFacts
  <2> QED BY <1>5, <2>2 DEF Range
<1> QED BY <1>4, <1>5

(* A channel at which c found no counterpart is matched after the step.    *)
LEMMA MatchGone ==
  ASSUME PlaneInv, PlaneInv', NEW c \in Coroutines, Step(c), Effect(c), Settled(c), NEW ch \in Channels,
         WaitingTo(chan[ch].sendQ) = {} \/ Pending(chan[ch].sendQ, c) = <<>>,
         WaitingTo(chan[ch].recvQ) = {} \/ Pending(chan[ch].recvQ, c) = <<>>
  PROVE  Matched(ch)'
<1> DEFINE sk == <<"send", ch>>
           rk == <<"recv", ch>>
<1>1. /\ sk \in Keys /\ rk \in Keys /\ Queue(sk) = chan[ch].sendQ /\ Queue(rk) = chan[ch].recvQ
      /\ WaitersOf(sk) = WaitingTo(chan[ch].sendQ) /\ WaitersOf(rk) = WaitingTo(chan[ch].recvQ)
  BY QueueNames, WaitersNames
<1>2. WaitersOf(sk)' = WaitingTo(chan[ch].sendQ)' /\ WaitersOf(rk)' = WaitingTo(chan[ch].recvQ)'
  BY WaitersNamesAfter
<1> HIDE DEF sk, rk
<1>3. WaitersOf(sk)' = {} /\ WaitersOf(rk)' = {} BY <1>1, NobodyWaits
<1> QED BY <1>2, <1>3 DEF Matched

-----------------------------------------------------------------------------
(* The claims of a lock region that commits for c, with or without a peer. *)
LEMMA PairClaim ==
  ASSUME NEW c \in Coroutines, NEW i, NEW res, NEW h \in Nodes, h.co # c, NEW r,
         Claim(SelfClaim(c, i, res) \union {PeerClaim(h, r)})
  PROVE  /\ NodeClaimed(h, r)
         /\ \A e \in Coroutines \ {c, h.co} : delivered'[e] = delivered[e]
         /\ i = 0 => delivered'[c] = delivered[c] /\ winner'[c] = winner[c]
         /\ i # 0 /\ IsSelect(c) =>
              delivered'[c] = [gen |-> wgen[c], res |-> res] /\ winner'[c] = CaseWinner(i)
<1> DEFINE S == SelfClaim(c, i, res)
           K == S \union {PeerClaim(h, r)}
<1>1. \A k \in S : i # 0 /\ k.co = c /\ k.case = i /\ k.res = res BY DEF SelfClaim
<1>2. i # 0 => \E k \in S : k.co = c BY DEF SelfClaim
<1>3. PeerClaim(h, r).co = h.co /\ PeerClaim(h, r).case = h.case /\ PeerClaim(h, r).res = r
  BY DEF PeerClaim
<1>4. Claim(K) OBVIOUS
<1> HIDE DEF S
<1>5. \A k \in K : \/ i # 0 /\ k.co = c /\ k.case = i /\ k.res = res
                   \/ k.co = h.co /\ k.case = h.case /\ k.res = r
  BY <1>1, <1>3
<1>6. \E k \in K : k.co = h.co BY <1>3
<1>7. i # 0 => \E k \in K : k.co = c BY <1>2
<1> HIDE DEF K
<1>8. h.co \in Coroutines BY DEF Nodes
<1>9. NodeClaimed(h, r)
  <2>1. PICK k \in K : /\ k.co = h.co
                       /\ delivered'[h.co] = [gen |-> wgen[h.co], res |-> k.res]
                       /\ winner'[h.co] = IF IsSelect(h.co) THEN CaseWinner(k.case) ELSE winner[h.co]
    BY <1>4, <1>6, <1>8, ClaimFacts
  <2> QED BY <1>5, <2>1 DEF NodeClaimed
<1>10. ASSUME NEW e \in Coroutines \ {c, h.co} PROVE delivered'[e] = delivered[e]
  <2>1. \A k \in K : k.co # e BY <1>5
  <2> QED BY <1>4, <2>1, ClaimFacts
<1>11. i = 0 => delivered'[c] = delivered[c] /\ winner'[c] = winner[c]
  <2>1. i = 0 => \A k \in K : k.co # c BY <1>5
  <2> QED BY <1>4, <2>1, ClaimFacts
<1>12. ASSUME i # 0, IsSelect(c)
       PROVE  delivered'[c] = [gen |-> wgen[c], res |-> res] /\ winner'[c] = CaseWinner(i)
  <2>1. PICK k \in K : /\ k.co = c
                       /\ delivered'[c] = [gen |-> wgen[c], res |-> k.res]
                       /\ winner'[c] = IF IsSelect(c) THEN CaseWinner(k.case) ELSE winner[c]
    BY <1>4, <1>7, <1>12, ClaimFacts
  <2>2. k.case = i /\ k.res = res BY <1>5, <2>1
  <2> QED BY <1>12, <2>1, <2>2
<1> QED BY <1>9, <1>10, <1>11, <1>12

(* ... without a peer.                                                     *)
LEMMA LoneClaim ==
  ASSUME NEW c \in Coroutines, NEW i, NEW res, Claim(SelfClaim(c, i, res))
  PROVE  /\ \A e \in Coroutines \ {c} : delivered'[e] = delivered[e]
         /\ i = 0 => delivered'[c] = delivered[c] /\ winner'[c] = winner[c]
         /\ i # 0 /\ IsSelect(c) =>
              delivered'[c] = [gen |-> wgen[c], res |-> res] /\ winner'[c] = CaseWinner(i)
<1> DEFINE K == SelfClaim(c, i, res)
<1>1. \A k \in K : i # 0 /\ k.co = c /\ k.case = i /\ k.res = res BY DEF SelfClaim
<1>2. i # 0 => \E k \in K : k.co = c BY DEF SelfClaim
<1>3. Claim(K) OBVIOUS
<1> HIDE DEF K
<1>4. ASSUME NEW e \in Coroutines \ {c} PROVE delivered'[e] = delivered[e]
  <2>1. \A k \in K : k.co # e BY <1>1
  <2> QED BY <1>3, <2>1, ClaimFacts
<1>5. i = 0 => delivered'[c] = delivered[c] /\ winner'[c] = winner[c]
  <2>1. i = 0 => \A k \in K : FALSE BY <1>1
  <2> QED BY <1>3, <2>1, ClaimFacts
<1>6. ASSUME i # 0, IsSelect(c)
      PROVE  delivered'[c] = [gen |-> wgen[c], res |-> res] /\ winner'[c] = CaseWinner(i)
  <2>1. PICK k \in K : /\ k.co = c
                       /\ delivered'[c] = [gen |-> wgen[c], res |-> k.res]
                       /\ winner'[c] = IF IsSelect(c) THEN CaseWinner(k.case) ELSE winner[c]
    BY <1>2, <1>3, <1>6, ClaimFacts
  <2> QED BY <1>1, <1>6, <2>1
<1> QED BY <1>4, <1>5, <1>6

(* What a commit gives its own caller.                                     *)
LEMMA CallerGets ==
  ASSUME LocalInv, NEW c \in Coroutines, NEW i, NEW dir, NEW s, Asks(c, i, dir, s), NEW res, NEW N,
         UNCHANGED <<calls, req, wgen, armed>>, SelfReturn(c, i, res), AfterCommit(c, i, N),
         i = 0 => delivered'[c] = delivered[c] /\ winner'[c] = winner[c],
         i # 0 /\ IsSelect(c) =>
           delivered'[c] = [gen |-> wgen[c], res |-> res] /\ winner'[c] = CaseWinner(i)
  PROVE  Gets(c, i, res) /\ wakes'[c] = N /\ pc'[c] # "join"
<1>1. /\ out \in [Coroutines -> CallResults] /\ pc \in [Coroutines -> Places]
      /\ wakes \in [Coroutines -> Seq(Nodes)]
  BY DEF LocalInv, Types
<1>2. wakes'[c] = N BY <1>1 DEF AfterCommit
<1>3. CASE i = 0
  <2>1. out'[c] = res BY <1>1, <1>3 DEF SelfReturn
  <2>2. pc'[c] \in {"idle", "wake"} BY <1>1, <1>3 DEF AfterCommit
  <2> QED BY <1>2, <1>3, <2>1, <2>2 DEF Gets
<1>4. CASE i # 0
  <2>1. out' = out BY <1>4 DEF SelfReturn
  <2>2. pc'[c] = "arm" BY <1>1, <1>4 DEF AfterCommit
  <2>3. IsSelect(c) BY <1>4 DEF Asks
  <2> QED BY <1>2, <1>4, <2>1, <2>2, <2>3 DEF Gets
<1> QED BY <1>3, <1>4

-----------------------------------------------------------------------------
(* What every step of c keeps.                                             *)
Kept(c) == RingShape' /\ AllMatched' /\ Tidy(c) /\ Abstract!Next

(* Kept gives the inductive invariant after the step.                      *)
LEMMA KeptInv ==
  ASSUME MatchInv, PlaneInv', NEW c \in Coroutines, Step(c), Effect(c), Kept(c)
  PROVE  MatchInv'
<1>1. AllResultsFit' /\ WakesPast' /\ NothingLarge' BY TidyKept DEF Kept
<1> QED BY <1>1 DEF Kept, MatchInv

(* The oldest counterpart of c in a queue.                                 *)
LEMMA PeerFacts ==
  ASSUME PlaneInv, NEW c \in Coroutines, NEW k \in Keys, Pending(Queue(k), c) # <<>>,
         NEW h, h = Head(Pending(Queue(k), c))
  PROVE  /\ h \in Nodes /\ NodePending(h) /\ h.co \in Coroutines /\ h.co # c
         /\ h \in Range(Queue(k)) /\ h \in Range(armed[h.co]) /\ KeyOf(h) = k
         /\ WaitersOf(k) # {}
<1>1. Queue(k) \in Seq(Nodes) BY QueueTyped DEF PlaneInv
<1>2. h \in Nodes /\ NodePending(h) /\ h.co # c /\ h \in Range(Queue(k))
  BY <1>1, PendingHead
<1>3. h.co \in Coroutines /\ h \in Range(armed[h.co]) /\ KeyOf(h) = k BY <1>2, QueuedNode
<1> QED BY <1>2, <1>3 DEF WaitersOf

(* A lock region in which c commits alone ...                              *)
Alone(c, i, res) ==
  /\ res # NoResult /\ Gets(c, i, res)
  /\ wakes'[c] = <<>> \/ wakes'[c] = wakes[c]
  /\ pc'[c] # "join"
  /\ \A e \in Coroutines \ {c} : delivered'[e] = delivered[e]

(* ... shows its own result and nothing else.                              *)
LEMMA LoneSettles ==
  ASSUME MatchInv, PlaneInv', NEW c \in Coroutines, Step(c), Effect(c),
         NEW i, NEW dir, NEW s, Asks(c, i, dir, s), NEW res, Alone(c, i, res)
  PROVE  /\ Open(c, dir, s) /\ ResultBecomes(c, res, s) /\ CommittedResult(c) = Abstract!Pending
         /\ ResultsStay({c}) /\ CallsStay /\ Settled(c) /\ Tidy(c)
<1>1. /\ Open(c, dir, s) /\ ResultBecomes(c, res, s) /\ CommittedResult(c) = Abstract!Pending
      /\ ResultFits(c)' /\ Settled(c)
  BY AskerResult DEF Alone
<1>2. WakesMove(c) BY DEF WakesMove, Range, Alone
<1>3. ResultsStay({c}) BY <1>2, OthersStay DEF ResultsStay, Alone
<1>4. CallsStay BY DEF CallsStay, Gets, Alone
<1>5. req'[c].op # "send_large" BY DEF Gets, MatchInv, NothingLarge, Alone
<1> QED BY <1>1, <1>2, <1>3, <1>4, <1>5 DEF Tidy, Alone

(* ... or together with the owner of node h.                               *)
LEMMA PairSettles ==
  ASSUME MatchInv, PlaneInv', NEW c \in Coroutines, Step(c), Effect(c),
         NEW i, NEW dir, NEW s, Asks(c, i, dir, s), NEW res, res # NoResult,
         NEW dir2 \in {"send", "recv"}, NEW k \in Keys, k = <<dir2, s>>,
         NEW h, h = Head(Pending(Queue(k), c)), Pending(Queue(k), c) # <<>>, NEW r \in WaitResults,
         Claim(SelfClaim(c, i, res) \union {PeerClaim(h, r)}),
         SelfReturn(c, i, res), AfterCommit(c, i, <<h>>), UNCHANGED <<calls, req, wgen, armed>>
  PROVE  /\ h.co \in Coroutines /\ h.co # c
         /\ Open(c, dir, s) /\ ResultBecomes(c, res, s)
         /\ Open(h.co, dir2, s) /\ ResultBecomes(h.co, r, s)
         /\ ResultsStay({c, h.co}) /\ CallsStay /\ Settled(c) /\ Tidy(c)
<1>0. PlaneInv /\ LocalInv /\ AllResultsFit BY DEF MatchInv, PlaneInv
<1>1. /\ h \in Nodes /\ NodePending(h) /\ h.co \in Coroutines /\ h.co # c
      /\ h \in Range(Queue(k)) /\ h \in Range(armed[h.co]) /\ KeyOf(h) = k
  BY <1>0, PeerFacts
<1>2. /\ NodeClaimed(h, r)
      /\ \A e \in Coroutines \ {c, h.co} : delivered'[e] = delivered[e]
      /\ i = 0 => delivered'[c] = delivered[c] /\ winner'[c] = winner[c]
      /\ i # 0 /\ IsSelect(c) =>
           delivered'[c] = [gen |-> wgen[c], res |-> res] /\ winner'[c] = CaseWinner(i)
  BY <1>1, PairClaim
<1>3. Gets(c, i, res) /\ wakes'[c] = <<h>> /\ pc'[c] # "join" BY <1>0, <1>2, CallerGets
<1>4. Open(c, dir, s) /\ ResultBecomes(c, res, s) /\ ResultFits(c)' /\ Settled(c)
  BY <1>3, AskerResult
<1>5. WakesMove(c)
  <2>1. \A n \in Range(wakes'[c]) : n = h BY <1>3 DEF Range
  <2> QED BY <1>1, <2>1 DEF WakesMove
<1>6. Open(h.co, dir2, s) /\ ResultBecomes(h.co, r, s)
  <2> DEFINE e == h.co
  <2>1. e \in Coroutines /\ h \in Range(armed[e]) BY <1>1
  <2>2. req'[e] = req[e] /\ wgen'[e] = wgen[e] OBVIOUS
  <2>3. out'[e] = out[e] BY <1>1 DEF Step, Bystander, Steady
  <2>4. KeyOf(h) = <<dir2, s>> BY <1>1
  <2> HIDE DEF e
  <2>5. Open(e, dir2, s) /\ ResultBecomes(e, r, s)
    BY <1>0, <1>1, <1>2, <2>1, <2>2, <2>3, <2>4, ClaimShown
  <2> QED BY <2>5 DEF e
<1>7. ResultsStay({c, h.co})
  <2> SUFFICES ASSUME NEW e \in Coroutines \ {c, h.co}
               PROVE  CommittedResult(e)' = CommittedResult(e)
    BY DEF ResultsStay
  <2>1. e \in Coroutines \ {c} /\ delivered'[e] = delivered[e] BY <1>2
  <2> QED BY <1>5, <2>1, OthersStay
<1>8. CallsStay BY DEF CallsStay
<1>9. req'[c].op # "send_large" BY DEF MatchInv, NothingLarge
<1> QED BY <1>1, <1>3, <1>4, <1>5, <1>6, <1>7, <1>8, <1>9 DEF Tidy

(* Every ring as it was and c waits nowhere: the channels stay matched.    *)
LEMMA AllSettled ==
  ASSUME MatchInv, PlaneInv', RingShape', NEW c \in Coroutines, Step(c), Effect(c), Settled(c),
         \A x \in Channels : RingLike(chan'[x], chan[x])
  PROVE  AllMatched'
<1>1. ASSUME NEW x \in Channels PROVE Matched(x)'
  <2>1. Matched(x) /\ PlaneInv /\ RingShape BY DEF MatchInv, AllMatched
  <2>2. chan'[x].closed = chan[x].closed /\ chan'[x].len = chan[x].len BY DEF RingLike
  <2> QED BY <2>1, <2>2, MatchSettled
<1> QED BY <1>1 DEF AllMatched

(* Only the ring of ch changes.                                            *)
LEMMA OthersSettled ==
  ASSUME MatchInv, PlaneInv', RingShape', NEW c \in Coroutines, Step(c), Effect(c), Settled(c),
         NEW ch \in Channels, Matched(ch)', \A x \in Channels \ {ch} : RingLike(chan'[x], chan[x])
  PROVE  AllMatched'
<1>1. ASSUME NEW x \in Channels \ {ch} PROVE Matched(x)'
  <2>1. Matched(x) /\ PlaneInv /\ RingShape BY DEF MatchInv, AllMatched
  <2>2. chan'[x].closed = chan[x].closed /\ chan'[x].len = chan[x].len BY DEF RingLike
  <2> QED BY <2>1, <2>2, MatchSettled
<1> QED BY <1>1 DEF AllMatched

-----------------------------------------------------------------------------
(* try_send_locked: a receiver is met, or the message is stored.           *)
LEMMA CommitSendKept ==
  ASSUME MatchInv, PlaneInv', NEW c \in Coroutines, Step(c), Effect(c), NEW ch \in Channels,
         NEW i, Asks(c, i, "send", ch), Payload(c) \in Payloads,
         NEW chan0, SameRings(chan0), CommitSend(c, ch, i, chan0),
         UNCHANGED <<calls, req, wgen, armed>>
  PROVE  Kept(c)
<1> DEFINE rs == Receivers(c, ch)
           v  == Payload(c)
           q  == chan0[ch]
           k  == <<"recv", ch>>
<1>0. /\ PlaneInv /\ LocalInv /\ ChanTypes /\ ChanTypes' /\ RingShape
      /\ wakes \in [Coroutines -> Seq(Nodes)] /\ Matched(ch)
  BY DEF MatchInv, PlaneInv, LocalInv, Types, AllMatched
<1>1. /\ RingOK(q, Capacity[ch]) /\ RingLike(q, chan[ch]) /\ DOMAIN chan0 = Channels
      /\ \A x \in Channels : RingLike(chan0[x], chan[x])
  BY DEF SameRings, RingLike
<1>2. k \in Keys /\ Queue(k) = chan[ch].recvQ /\ rs = Pending(Queue(k), c)
      /\ WaitersOf(k) = WaitingTo(chan[ch].recvQ)
  BY QueueNames, WaitersNames DEF Receivers
<1>3. Shaped(q, Capacity[ch]) /\ Held(q, Capacity[ch]) = Contents(ch)
  BY <1>0, <1>1, RingLikeFacts, HeldContents DEF RingShape
<1>4. /\ Buffered(ch) <=> chan[ch].len > 0
      /\ SlotAvailable(ch) <=> chan[ch].len < Capacity[ch]
      /\ chan[ch].len \in 0 .. Capacity[ch] /\ Capacity[ch] \in Nat
      /\ Len(Contents(ch)) = chan[ch].len /\ (Contents(ch) = <<>> <=> chan[ch].len = 0)
  BY <1>0, ShapeFacts, ContentsFacts
<1>5. Result("Sent") # NoResult /\ Received(v) \in WaitResults
  BY ResultTypes DEF Result, NoResult
<1>6. ~chan[ch].closed /\ SendReady(c, ch) BY DEF CommitSend, SendReady
<1>7. CASE rs # <<>>
  <2> DEFINE h == Head(rs)
             s == Without(q.recvQ, {h})
  <2>1. /\ chan' = [chan0 EXCEPT ![ch] = [q EXCEPT !.recvQ = s]]
        /\ Claim(SelfClaim(c, i, Result("Sent")) \union {PeerClaim(h, Received(v))})
        /\ SelfReturn(c, i, Result("Sent"))
        /\ AfterCommit(c, i, <<h>>)
    BY <1>7 DEF CommitSend
  <2>2. PICK q2 : q2 = [q EXCEPT !.recvQ = s] OBVIOUS
  <2>3. chan' = [chan0 EXCEPT ![ch] = q2] BY <2>1, <2>2
  <2>4. RingLike(q2, q) BY <1>1, <2>2 DEF RingLike, RingOK, ChannelType
  <2> HIDE DEF s, q, v, h, rs
  <2>5. \A x \in Channels : RingLike(chan'[x], chan[x])
    <3> TAKE x \in Channels
    <3>1. CASE x = ch
      <4>1. chan'[x] = q2 BY <1>1, <2>3, <3>1
      <4> QED BY <1>1, <2>4, <3>1, <4>1 DEF RingLike
    <3>2. CASE x # ch
      <4>1. chan'[x] = chan0[x] BY <1>1, <2>3, <3>2
      <4> QED BY <1>1, <4>1
    <3> QED BY <3>1, <3>2
  <2>6. RingShape' /\ BufsStay /\ ClosedStay BY <1>0, <2>5, RingsStill
  <2>7. /\ h.co \in Coroutines /\ h.co # c
        /\ Open(c, "send", ch) /\ ResultBecomes(c, Result("Sent"), ch)
        /\ Open(h.co, "recv", ch) /\ ResultBecomes(h.co, Received(v), ch)
        /\ ResultsStay({c, h.co}) /\ CallsStay /\ Settled(c) /\ Tidy(c)
    <3>1. h = Head(Pending(Queue(k), c)) /\ Pending(Queue(k), c) # <<>> BY <1>2, <1>7 DEF h
    <3>2. "recv" \in {"send", "recv"} OBVIOUS
    <3> QED BY <1>2, <1>5, <2>1, <3>1, <3>2, PairSettles
  <2>8. Contents(ch) = <<>>
    <3>1. WaitersOf(k) # {} BY <1>0, <1>2, <1>7, PeerFacts
    <3>2. WaitingTo(chan[ch].recvQ) # {} BY <1>2, <3>1
    <3>3. ~Buffered(ch) BY <1>0, <3>2 DEF Matched
    <3> QED BY <1>4, <3>3
  <2>9. AllMatched' BY <2>5, <2>6, <2>7, AllSettled
  <2>10. Abstract!Next BY <1>6, <2>6, <2>7, <2>8, AbstractRendezvous DEF v
  <2> QED BY <2>6, <2>7, <2>9, <2>10 DEF Kept
<1>8. CASE rs = <<>>
  <2>1. /\ chan' = [chan0 EXCEPT ![ch] = CommitSlot(ch, q, v)]
        /\ Claim(SelfClaim(c, i, Result("Sent")) \union {})
        /\ SelfReturn(c, i, Result("Sent"))
        /\ AfterCommit(c, i, <<>>)
    BY <1>8 DEF CommitSend
  <2>2. SlotAvailable(ch) BY <1>6, <1>8 DEF SendReady
  <2>3. PICK q2 : q2 = CommitSlot(ch, q, v) OBVIOUS
  <2>4. chan' = [chan0 EXCEPT ![ch] = q2] BY <2>1, <2>3
  <2> HIDE DEF q, v, rs
  <2>5. q.len < Capacity[ch] BY <1>1, <1>4, <2>2 DEF RingLike
  <2>6. /\ Shaped(q2, Capacity[ch]) /\ Held(q2, Capacity[ch]) = Append(Contents(ch), v)
        /\ q2.closed = chan[ch].closed
    <3>1. /\ Shaped(q2, Capacity[ch]) /\ Held(q2, Capacity[ch]) = Append(Held(q, Capacity[ch]), v)
          /\ q2.closed = q.closed
      BY <1>1, <1>3, <2>3, <2>5, CommitHolds
    <3> QED BY <1>1, <1>3, <3>1 DEF RingLike
  <2>7. /\ RingShape' /\ BufBecomes(ch, Append(Contents(ch), v)) /\ ClosedStay
        /\ \A x \in Channels \ {ch} : RingLike(chan'[x], chan[x])
    BY <1>0, <2>4, <2>6, RingChanges
  <2>8. Claim(SelfClaim(c, i, Result("Sent")))
    <3>1. SelfClaim(c, i, Result("Sent")) \union {} = SelfClaim(c, i, Result("Sent")) OBVIOUS
    <3> QED BY <2>1, <3>1
  <2>9. /\ \A e \in Coroutines \ {c} : delivered'[e] = delivered[e]
        /\ i = 0 => delivered'[c] = delivered[c] /\ winner'[c] = winner[c]
        /\ i # 0 /\ IsSelect(c) =>
             delivered'[c] = [gen |-> wgen[c], res |-> Result("Sent")] /\ winner'[c] = CaseWinner(i)
    BY <2>8, LoneClaim
  <2>10. Gets(c, i, Result("Sent")) /\ wakes'[c] = <<>> /\ pc'[c] # "join"
    BY <1>0, <2>1, <2>9, CallerGets
  <2>11. /\ Open(c, "send", ch) /\ ResultBecomes(c, Result("Sent"), ch)
         /\ ResultsStay({c}) /\ CallsStay /\ Settled(c) /\ Tidy(c)
    <3> DEFINE res == Result("Sent")
    <3>1. Alone(c, i, res) BY <1>5, <2>9, <2>10 DEF Alone
    <3> HIDE DEF res
    <3>2. /\ Open(c, "send", ch) /\ ResultBecomes(c, res, ch)
          /\ ResultsStay({c}) /\ CallsStay /\ Settled(c) /\ Tidy(c)
      BY <3>1, LoneSettles
    <3> QED BY <3>2 DEF res
  <2>12. Matched(ch)'
    <3>1. WaitingTo(chan[ch].sendQ) = {} BY <1>0, <2>2 DEF Matched
    <3>2. Pending(chan[ch].recvQ, c) = <<>> BY <1>2, <1>8
    <3> QED BY <1>0, <2>11, <3>1, <3>2, MatchGone
  <2>13. AllMatched' BY <2>7, <2>11, <2>12, OthersSettled
  <2>14. Abstract!Next BY <1>4, <1>6, <2>2, <2>7, <2>11, AbstractSend DEF v
  <2> QED BY <2>7, <2>11, <2>13, <2>14 DEF Kept
<1> QED BY <1>7, <1>8

-----------------------------------------------------------------------------
(* try_recv_locked: a message is taken, with or without a refill, or a     *)
(* sender met.                                                             *)
LEMMA CommitRecvKept ==
  ASSUME MatchInv, PlaneInv', NEW c \in Coroutines, Step(c), Effect(c), NEW ch \in Channels,
         NEW i, Asks(c, i, "recv", ch),
         NEW chan0, SameRings(chan0), CommitRecv(c, ch, i, chan0),
         UNCHANGED <<calls, req, wgen, armed>>
  PROVE  Kept(c)
<1> DEFINE ss == Senders(c, ch)
           B  == Buffered(ch)
           h  == Head(ss)
           v  == IF B THEN PeekSlot(ch) ELSE Payload(h.co)
           q0 == chan0[ch]
           q  == IF B THEN TakeSlot(ch, q0) ELSE q0
           r  == IF B /\ ss # <<>> THEN CommitSlot(ch, q, Payload(h.co)) ELSE q
           s  == Without(r.sendQ, {h})
           q2 == IF ss # <<>> THEN [r EXCEPT !.sendQ = s] ELSE r
           P  == IF ss # <<>> THEN {PeerClaim(h, Result("Sent"))} ELSE {}
           N  == IF ss # <<>> THEN <<h>> ELSE <<>>
           k  == <<"send", ch>>
           cap == Capacity[ch]
<1>0. /\ PlaneInv /\ LocalInv /\ ChanTypes /\ ChanTypes' /\ RingShape
      /\ wakes \in [Coroutines -> Seq(Nodes)] /\ Matched(ch)
  BY DEF MatchInv, PlaneInv, LocalInv, Types, AllMatched
<1>1. /\ RecvReady(c, ch) /\ chan' = [chan0 EXCEPT ![ch] = q2]
      /\ Claim(SelfClaim(c, i, Received(v)) \union P)
      /\ SelfReturn(c, i, Received(v))
      /\ AfterCommit(c, i, N)
  BY DEF CommitRecv
<1>2. /\ RingOK(q0, cap) /\ RingLike(q0, chan[ch]) /\ DOMAIN chan0 = Channels
      /\ \A x \in Channels : RingLike(chan0[x], chan[x])
  BY DEF SameRings, RingLike
<1>3. /\ B <=> chan[ch].len > 0
      /\ SlotAvailable(ch) <=> chan[ch].len < cap
      /\ CanRefill(ch)
      /\ chan[ch].len \in 0 .. cap /\ cap \in Nat
      /\ Len(Contents(ch)) = chan[ch].len /\ (Contents(ch) = <<>> <=> chan[ch].len = 0)
  BY <1>0, ShapeFacts, ContentsFacts
<1>4. /\ k \in Keys /\ Queue(k) = chan[ch].sendQ
      /\ WaitersOf(k) = WaitingTo(chan[ch].sendQ)
      /\ ~chan[ch].closed => ss = Pending(Queue(k), c)
      /\ ss # <<>> => ss = Pending(Queue(k), c) /\ ~chan[ch].closed
  BY <1>3, QueueNames, WaitersNames DEF Senders
<1>5. Shaped(q0, cap) /\ Held(q0, cap) = Contents(ch)
  BY <1>0, <1>2, RingLikeFacts, HeldContents DEF RingShape
<1>6. Result("Sent") \in WaitResults /\ Received(v) # NoResult
  BY ResultTypes DEF WaitKinds, Received, NoResult, Result
<1>7. PeekSlot(ch) = q0.ring[q0.head].val BY <1>2 DEF PeekSlot, RingLike
<1>8. B => /\ RingOK(q, cap) /\ q.len < cap /\ Shaped(q, cap)
           /\ Contents(ch) # <<>> /\ v = Head(Contents(ch)) /\ Held(q, cap) = Tail(Contents(ch))
           /\ q.len + 1 = chan[ch].len /\ q.closed = chan[ch].closed
  <2> SUFFICES ASSUME B
               PROVE  /\ RingOK(q, cap) /\ q.len < cap /\ Shaped(q, cap)
                      /\ Contents(ch) # <<>> /\ v = Head(Contents(ch))
                      /\ Held(q, cap) = Tail(Contents(ch))
                      /\ q.len + 1 = chan[ch].len /\ q.closed = chan[ch].closed
    OBVIOUS
  <2>1. q = TakeSlot(ch, q0) /\ v = PeekSlot(ch) OBVIOUS
  <2>2. q0.len = chan[ch].len /\ q0.closed = chan[ch].closed /\ q0.len > 0
    BY <1>2, <1>3 DEF RingLike
  <2> HIDE DEF q, q0, v, B
  <2>3. RingOK(q, cap) /\ q.len < cap BY <1>2, <2>1, <2>2, TakeRing
  <2>4. /\ Shaped(q, cap) /\ Held(q0, cap) # <<>> /\ Held(q, cap) = Tail(Held(q0, cap))
        /\ q0.ring[q0.head].val = Head(Held(q0, cap))
        /\ q.len = q0.len - 1 /\ q.closed = q0.closed
    BY <1>2, <1>5, <2>1, <2>2, TakeHolds
  <2>5. q.len + 1 = chan[ch].len BY <1>3, <2>2, <2>4
  <2> QED BY <1>5, <1>7, <2>1, <2>2, <2>3, <2>4, <2>5
<1>9. ASSUME ss # <<>>
      PROVE  /\ h.co \in Coroutines /\ h.co # c
             /\ Open(c, "recv", ch) /\ ResultBecomes(c, Received(v), ch)
             /\ Open(h.co, "send", ch) /\ ResultBecomes(h.co, Result("Sent"), ch)
             /\ ResultsStay({c, h.co}) /\ CallsStay /\ Settled(c) /\ Tidy(c)
  <2>1. P = {PeerClaim(h, Result("Sent"))} /\ N = <<h>> BY <1>9
  <2>2. h = Head(Pending(Queue(k), c)) /\ Pending(Queue(k), c) # <<>> BY <1>4, <1>9
  <2>3. "send" \in {"send", "recv"} OBVIOUS
  <2> HIDE DEF h, v, P, N, ss
  <2> QED BY <1>1, <1>4, <1>6, <2>1, <2>2, <2>3, PairSettles
<1>10. CASE B /\ ss # <<>>
  <2>1. r = CommitSlot(ch, q, Payload(h.co)) /\ q2 = [r EXCEPT !.sendQ = s] BY <1>10
  <2>2. Payload(h.co) \in Payloads
    <3>1. h = Head(Pending(Queue(k), c)) /\ Pending(Queue(k), c) # <<>> BY <1>4, <1>10
    <3> PICK g : g = h OBVIOUS
    <3> HIDE DEF h, ss
    <3>2. g.co \in Coroutines /\ NodePending(g) BY <1>0, <1>4, <3>1, PeerFacts
    <3>3. wgen[g.co] # 0 BY <3>2 DEF NodePending, CanClaim
    <3>4. Local(g.co) /\ Types BY <1>0, <3>2 DEF LocalInv
    <3>5. Payload(g.co) \in Payloads BY <3>2, <3>3, <3>4, PayloadType
    <3> QED BY <3>5
  <2> DEFINE e == h.co
  <2> HIDE DEF q, q0, v, h, B, ss
  <2>3. /\ Shaped(r, cap) /\ Held(r, cap) = Append(Tail(Contents(ch)), Payload(e))
        /\ r.len = chan[ch].len /\ r.closed = chan[ch].closed /\ RingOK(r, cap)
    <3>1. /\ RingOK(q, cap) /\ q.len < cap /\ Shaped(q, cap) /\ Held(q, cap) = Tail(Contents(ch))
          /\ q.len + 1 = chan[ch].len /\ q.closed = chan[ch].closed
      BY <1>8, <1>10
    <3>2. r = CommitSlot(ch, q, Payload(e)) BY <2>1
    <3>3. Payload(e) \in Payloads BY <2>2
    <3> HIDE DEF r, e
    <3> PICK p : p = Payload(e) OBVIOUS
    <3>4. /\ Shaped(r, cap) /\ Held(r, cap) = Append(Held(q, cap), p)
          /\ r.len = q.len + 1 /\ r.closed = q.closed
      <4>1. r = CommitSlot(ch, q, p) BY <3>2
      <4> QED BY <3>1, <4>1, CommitHolds
    <3>5. RingOK(r, cap) BY <3>1, <3>2, <3>3, CommitRing
    <3> QED BY <3>1, <3>4, <3>5
  <2> HIDE DEF r, s, q2
  <2>4. RingLike(q2, r) BY <2>1, <2>3 DEF RingLike, RingOK, ChannelType
  <2>5. Shaped(q2, cap) /\ Held(q2, cap) = Append(Tail(Contents(ch)), Payload(e))
        /\ q2.len = chan[ch].len /\ q2.closed = chan[ch].closed
    BY <2>3, <2>4, RingLikeFacts DEF RingLike
  <2>6. /\ RingShape' /\ BufBecomes(ch, Append(Tail(Contents(ch)), Payload(e))) /\ ClosedStay
        /\ chan'[ch] = q2
        /\ \A x \in Channels \ {ch} : RingLike(chan'[x], chan[x])
    BY <1>0, <1>1, <2>5, RingChanges
  <2>7. /\ e \in Coroutines /\ e # c
        /\ Open(c, "recv", ch) /\ ResultBecomes(c, Received(v), ch)
        /\ Open(e, "send", ch) /\ ResultBecomes(e, Result("Sent"), ch)
        /\ ResultsStay({c, e}) /\ CallsStay /\ Settled(c) /\ Tidy(c)
    BY <1>9, <1>10
  <2>8. Matched(ch)' BY <1>0, <2>5, <2>6, <2>7, MatchSettled
  <2>9. AllMatched' BY <2>6, <2>7, <2>8, OthersSettled
  <2>10. v = Head(Contents(ch)) /\ Contents(ch) # <<>> BY <1>8, <1>10
  <2>11. ~chan[ch].closed BY <1>4, <1>10
  <2> HIDE DEF e
  <2>12. Abstract!Next BY <2>6, <2>7, <2>10, <2>11, AbstractRefill
  <2> QED BY <2>6, <2>7, <2>9, <2>12 DEF Kept
<1>11. CASE ~B /\ ss # <<>>
  <2>1. q2 = [q0 EXCEPT !.sendQ = s] /\ v = Payload(h.co) BY <1>11
  <2> DEFINE e == h.co
  <2> HIDE DEF q0, v, h, ss, s, q2
  <2>2. RingLike(q2, q0) BY <1>2, <2>1 DEF RingLike, RingOK, ChannelType
  <2>3. \A x \in Channels : RingLike(chan'[x], chan[x])
    <3> TAKE x \in Channels
    <3>1. CASE x = ch
      <4>1. chan'[x] = q2 BY <1>1, <1>2, <3>1
      <4> QED BY <1>2, <2>2, <3>1, <4>1 DEF RingLike
    <3>2. CASE x # ch
      <4>1. chan'[x] = chan0[x] BY <1>1, <1>2, <3>2
      <4> QED BY <1>2, <4>1
    <3> QED BY <3>1, <3>2
  <2>4. RingShape' /\ BufsStay /\ ClosedStay BY <1>0, <2>3, RingsStill
  <2>5. /\ e \in Coroutines /\ e # c
        /\ Open(c, "recv", ch) /\ ResultBecomes(c, Received(Payload(e)), ch)
        /\ Open(e, "send", ch) /\ ResultBecomes(e, Result("Sent"), ch)
        /\ ResultsStay({c, e}) /\ CallsStay /\ Settled(c) /\ Tidy(c)
    BY <1>9, <1>11, <2>1
  <2>6. AllMatched' BY <2>3, <2>4, <2>5, AllSettled
  <2>7. Contents(ch) = <<>> BY <1>3, <1>11
  <2>8. ~chan[ch].closed BY <1>4, <1>11
  <2> HIDE DEF e
  <2>9. ResultsStay({e, c})
    <3>1. {e, c} = {c, e} OBVIOUS
    <3> QED BY <2>5, <3>1
  <2>10. Abstract!Next BY <2>4, <2>5, <2>7, <2>8, <2>9, AbstractRendezvous
  <2> QED BY <2>4, <2>5, <2>6, <2>10 DEF Kept
<1>12. CASE B /\ ss = <<>>
  <2>1. q2 = q /\ P = {} /\ N = <<>> BY <1>12
  <2> HIDE DEF q, v, P, N
  <2>2. Claim(SelfClaim(c, i, Received(v)))
    <3>1. SelfClaim(c, i, Received(v)) \union {} = SelfClaim(c, i, Received(v)) OBVIOUS
    <3> QED BY <1>1, <2>1, <3>1
  <2> PICK res : res = Received(v) OBVIOUS
  <2>3. res # NoResult /\ SelfReturn(c, i, res) /\ AfterCommit(c, i, <<>>) /\ Claim(SelfClaim(c, i, res))
    BY <1>1, <1>6, <2>1, <2>2
  <2> HIDE DEF q2, B, ss
  <2>4. /\ \A e \in Coroutines \ {c} : delivered'[e] = delivered[e]
        /\ i = 0 => delivered'[c] = delivered[c] /\ winner'[c] = winner[c]
        /\ i # 0 /\ IsSelect(c) =>
             delivered'[c] = [gen |-> wgen[c], res |-> res] /\ winner'[c] = CaseWinner(i)
    BY <2>3, LoneClaim
  <2>5. Gets(c, i, res) /\ wakes'[c] = <<>> /\ pc'[c] # "join"
    BY <1>0, <2>3, <2>4, CallerGets
  <2>6. /\ Open(c, "recv", ch) /\ ResultBecomes(c, res, ch)
        /\ ResultsStay({c}) /\ CallsStay /\ Settled(c) /\ Tidy(c)
    <3>1. Alone(c, i, res) BY <2>3, <2>4, <2>5 DEF Alone
    <3> QED BY <3>1, LoneSettles
  <2>7. /\ Shaped(q, cap) /\ Contents(ch) # <<>> /\ v = Head(Contents(ch))
        /\ Held(q, cap) = Tail(Contents(ch)) /\ q.closed = chan[ch].closed
    BY <1>8, <1>12
  <2>8. /\ RingShape' /\ BufBecomes(ch, Tail(Contents(ch))) /\ ClosedStay
        /\ \A x \in Channels \ {ch} : RingLike(chan'[x], chan[x])
    <3>1. chan' = [chan0 EXCEPT ![ch] = q] BY <1>1, <2>1
    <3> QED BY <1>0, <2>7, <3>1, RingChanges
  <2>9. Matched(ch)'
    <3>1. WaitingTo(chan[ch].recvQ) = {} BY <1>0, <1>12 DEF Matched, B
    <3>2. WaitingTo(chan[ch].sendQ) = {} \/ Pending(chan[ch].sendQ, c) = <<>>
      <4>1. CASE chan[ch].closed BY <1>0, <4>1 DEF Matched
      <4>2. CASE ~chan[ch].closed BY <1>4, <1>12, <4>2
      <4> QED BY <4>1, <4>2
    <3> QED BY <1>0, <2>6, <3>1, <3>2, MatchGone
  <2>10. AllMatched' BY <2>6, <2>8, <2>9, OthersSettled
  <2>11. ResultBecomes(c, Received(Head(Contents(ch))), ch) BY <2>6, <2>7
  <2>12. Abstract!Next BY <2>6, <2>7, <2>8, <2>11, AbstractReceive
  <2> QED BY <2>6, <2>8, <2>10, <2>12 DEF Kept
<1>13. B \/ ss # <<>> BY <1>1 DEF RecvReady
<1> QED BY <1>10, <1>11, <1>12, <1>13

-----------------------------------------------------------------------------
(* The commits that leave the rings alone.                                 *)
LEMMA StillKept ==
  ASSUME MatchInv, PlaneInv', NEW c \in Coroutines, Step(c), Effect(c), Settled(c), Tidy(c),
         NEW chan0, SameRings(chan0), chan' = chan0
  PROVE  /\ RingShape' /\ BufsStay /\ ClosedStay /\ AllMatched'
<1>1. ChanTypes /\ ChanTypes' /\ RingShape BY DEF MatchInv, PlaneInv, LocalInv
<1>2. \A x \in Channels : RingLike(chan'[x], chan[x]) BY DEF SameRings, RingLike
<1>3. RingShape' /\ BufsStay /\ ClosedStay BY <1>1, <1>2, RingsStill
<1>4. AllMatched' BY <1>2, <1>3, AllSettled
<1> QED BY <1>3, <1>4

(* A send on a closed channel commits an error.                            *)
LEMMA SendClosedKept ==
  ASSUME MatchInv, PlaneInv', NEW c \in Coroutines, Step(c), Effect(c), NEW ch \in Channels,
         NEW i, Asks(c, i, "send", ch), SendClosed(c, ch, i),
         pc' = [pc EXCEPT ![c] = IF i = 0 THEN "idle" ELSE "cleanup"], UNCHANGED wakes,
         UNCHANGED <<calls, req, wgen, armed>>
  PROVE  Kept(c)
<1>1. LocalInv /\ ChanTypes /\ pc \in [Coroutines -> Places] /\ out \in [Coroutines -> CallResults]
  BY DEF MatchInv, PlaneInv, LocalInv, Types
<1>2. PICK res : res = Result("SendClosed") OBVIOUS
<1>3. /\ chan[ch].closed /\ chan' = chan
      /\ Claim(SelfClaim(c, i, res)) /\ SelfReturn(c, i, res)
  BY <1>2 DEF SendClosed
<1>4. res # NoResult BY <1>2 DEF Result, NoResult
<1>5. /\ \A e \in Coroutines \ {c} : delivered'[e] = delivered[e]
      /\ i = 0 => delivered'[c] = delivered[c] /\ winner'[c] = winner[c]
      /\ i # 0 /\ IsSelect(c) =>
           delivered'[c] = [gen |-> wgen[c], res |-> res] /\ winner'[c] = CaseWinner(i)
  BY <1>3, LoneClaim
<1>6. i # 0 => IsSelect(c) BY DEF Asks
<1>7. pc'[c] = (IF i = 0 THEN "idle" ELSE "cleanup") /\ wakes'[c] = wakes[c]
  BY <1>1
<1>8. out'[c] = IF i = 0 THEN res ELSE out[c] BY <1>1, <1>3 DEF SelfReturn
<1>9. Gets(c, i, res) BY <1>5, <1>6, <1>7, <1>8 DEF Gets
<1>10. pc'[c] # "join" BY <1>7
<1>11. Alone(c, i, res) BY <1>4, <1>5, <1>7, <1>9, <1>10 DEF Alone
<1>12. /\ Open(c, "send", ch) /\ ResultBecomes(c, res, ch)
      /\ ResultsStay({c}) /\ CallsStay /\ Settled(c) /\ Tidy(c)
  BY <1>11, LoneSettles
<1>13. SameRings(chan) BY <1>1, SameRingsChan
<1>14. RingShape' /\ BufsStay /\ ClosedStay /\ AllMatched' BY <1>3, <1>12, <1>13, StillKept
<1>15. Abstract!Next BY <1>2, <1>3, <1>12, <1>14, AbstractSendOnClosed
<1> QED BY <1>12, <1>14, <1>15 DEF Kept

(* A receive on a closed channel commits once the ring is drained.         *)
LEMMA RecvClosedKept ==
  ASSUME MatchInv, PlaneInv', NEW c \in Coroutines, Step(c), Effect(c), NEW ch \in Channels,
         NEW i, Asks(c, i, "recv", ch),
         NEW chan0, SameRings(chan0), RecvClosed(c, ch, i, chan0),
         UNCHANGED <<calls, req, wgen, armed>>
  PROVE  Kept(c)
<1>1. LocalInv /\ ChanTypes /\ RingShape BY DEF MatchInv, PlaneInv, LocalInv
<1>2. PICK res : res = Result("RecvClosed") OBVIOUS
<1>3. /\ chan[ch].closed /\ ~RecvReady(c, ch) /\ chan' = chan0
      /\ Claim(SelfClaim(c, i, res)) /\ SelfReturn(c, i, res) /\ AfterCommit(c, i, <<>>)
  BY <1>2 DEF RecvClosed
<1>4. res # NoResult BY <1>2 DEF Result, NoResult
<1>5. /\ \A e \in Coroutines \ {c} : delivered'[e] = delivered[e]
      /\ i = 0 => delivered'[c] = delivered[c] /\ winner'[c] = winner[c]
      /\ i # 0 /\ IsSelect(c) =>
           delivered'[c] = [gen |-> wgen[c], res |-> res] /\ winner'[c] = CaseWinner(i)
  BY <1>3, LoneClaim
<1>6. Gets(c, i, res) /\ wakes'[c] = <<>> /\ pc'[c] # "join" BY <1>1, <1>3, <1>5, CallerGets
<1>7. Alone(c, i, res) BY <1>4, <1>5, <1>6 DEF Alone
<1>8. /\ Open(c, "recv", ch) /\ ResultBecomes(c, res, ch)
      /\ ResultsStay({c}) /\ CallsStay /\ Settled(c) /\ Tidy(c)
  BY <1>7, LoneSettles
<1>9. RingShape' /\ BufsStay /\ ClosedStay /\ AllMatched' BY <1>3, <1>8, StillKept
<1>10. Contents(ch) = <<>>
  <2>1. ~Buffered(ch) BY <1>3 DEF RecvReady
  <2>2. chan[ch].len \in 0 .. Capacity[ch] /\ ~(chan[ch].len > 0) BY <1>1, <2>1, ShapeFacts
  <2>3. chan[ch].len = 0 BY <2>2, WaitAssumption
  <2> QED BY <1>1, <2>3, ContentsFacts
<1>11. Abstract!Next BY <1>2, <1>3, <1>8, <1>9, <1>10, AbstractReceiveEnd
<1> QED BY <1>8, <1>9, <1>11 DEF Kept

(* A wait case of a select whose child is dead commits.                    *)
LEMMA JoinCaseKept ==
  ASSUME MatchInv, PlaneInv', NEW c \in Coroutines, Step(c), Effect(c),
         NEW i, i # 0, NEW s, Asks(c, i, "wait", s),
         NEW chan0, SameRings(chan0), chan' = chan0,
         Claim(SelfClaim(c, i, Result("Join"))), AfterCommit(c, i, <<>>),
         UNCHANGED <<calls, req, wgen, armed, out>>
  PROVE  Kept(c)
<1>1. LocalInv BY DEF MatchInv, PlaneInv
<1>2. PICK res : res = Result("Join") OBVIOUS
<1>3. Claim(SelfClaim(c, i, res)) /\ SelfReturn(c, i, res) BY <1>2 DEF SelfReturn
<1>4. res # NoResult BY <1>2 DEF Result, NoResult
<1>5. /\ \A e \in Coroutines \ {c} : delivered'[e] = delivered[e]
      /\ i = 0 => delivered'[c] = delivered[c] /\ winner'[c] = winner[c]
      /\ i # 0 /\ IsSelect(c) =>
           delivered'[c] = [gen |-> wgen[c], res |-> res] /\ winner'[c] = CaseWinner(i)
  BY <1>3, LoneClaim
<1>6. Gets(c, i, res) /\ wakes'[c] = <<>> /\ pc'[c] # "join" BY <1>1, <1>3, <1>5, CallerGets
<1>7. Alone(c, i, res) BY <1>4, <1>5, <1>6 DEF Alone
<1>8. /\ ResultBecomes(c, res, s) /\ CommittedResult(c) = Abstract!Pending
      /\ ResultsStay({c}) /\ CallsStay /\ Settled(c) /\ Tidy(c)
  BY <1>7, LoneSettles
<1>9. RingShape' /\ BufsStay /\ ClosedStay /\ AllMatched' BY <1>8, StillKept
<1>10. Eases(c)
  <2>1. CommittedResult(c)' = Abstract!Outcome("Join", Abstract!Nowhere)
    BY <1>2, <1>8, ShownFacts DEF ResultBecomes
  <2> QED BY <1>8, <2>1 DEF Eases, AsideKinds
<1>11. \A e \in Coroutines : Eases(e) BY <1>8, <1>10 DEF Eases, ResultsStay
<1>12. Abstract!Next BY <1>8, <1>9, <1>11, AbstractAside
<1> QED BY <1>8, <1>9, <1>12 DEF Kept

(* try_case_locked: a case of a select commits.                            *)
LEMMA CommitCaseKept ==
  ASSUME MatchInv, PlaneInv', NEW c \in Coroutines, Step(c), Effect(c),
         pc[c] \in {"try", "retry", "register"}, pc[c] = "register" => winner[c] = Unset,
         NEW i \in Cases(c), NEW chan0, SameRings(chan0), CommitCase(c, i, chan0),
         UNCHANGED <<calls, req, wgen, armed>>
  PROVE  Kept(c)
<1>0. Types /\ ChanTypes /\ Local(c) /\ LocalInv BY DEF MatchInv, PlaneInv, LocalInv
<1>1. req[c].op = "select" /\ wakes[c] = <<>> /\ winner[c] = Unset /\ readied[c] \in Nat
      /\ wgen[c] \in Nat
  BY <1>0 DEF Local, OpFits, WakesFits, ClaimFits, SelectPlaces, Trying, Types
<1>2. delivered[c].gen # wgen[c] BY <1>0, <1>1 DEF Local, ClaimFits, SelectPlaces, Trying
<1>3. i \in Nat \ {0} /\ Case(c, i) \in SelectCases BY <1>0, <1>1, SelectFacts
<1> PICK s : s = Case(c, i).src OBVIOUS
<1> PICK dir : dir = Case(c, i).dir OBVIOUS
<1>4. Asks(c, i, dir, s) BY <1>1, <1>2, <1>3 DEF Asks, Trying, IsSelect, Cases, Case
<1>5. CASE dir = "send"
  <2>1. s \in Channels BY <1>3, <1>5 DEF SelectCases
  <2>2. Payload(c) \in Payloads
    <3>1. wgen[c] # 0
      <4>1. readied[c] < wgen[c] BY <1>0, <1>1 DEF Local, ArmedFits, Trying
      <4> QED BY <1>1, <4>1
    <3> QED BY <1>0, <3>1, PayloadType
  <2>3. \/ CommitSend(c, s, i, chan0)
        \/ SendClosed(c, s, i) /\ pc' = [pc EXCEPT ![c] = "cleanup"] /\ UNCHANGED wakes
    BY <1>5 DEF CommitCase, Goto
  <2>4. CASE CommitSend(c, s, i, chan0) BY <1>4, <1>5, <2>1, <2>2, <2>4, CommitSendKept
  <2>5. CASE SendClosed(c, s, i) /\ pc' = [pc EXCEPT ![c] = "cleanup"] /\ UNCHANGED wakes
    <3>1. pc' = [pc EXCEPT ![c] = IF i = 0 THEN "idle" ELSE "cleanup"] BY <1>3, <2>5
    <3> QED BY <1>4, <1>5, <2>1, <2>5, <3>1, SendClosedKept
  <2> QED BY <2>3, <2>4, <2>5
<1>6. CASE dir = "recv"
  <2>1. s \in Channels BY <1>3, <1>6 DEF SelectCases
  <2>2. CommitRecv(c, s, i, chan0) \/ RecvClosed(c, s, i, chan0)
    BY <1>6 DEF CommitCase
  <2>3. CASE CommitRecv(c, s, i, chan0) BY <1>4, <1>6, <2>1, <2>3, CommitRecvKept
  <2>4. CASE RecvClosed(c, s, i, chan0) BY <1>4, <1>6, <2>1, <2>4, RecvClosedKept
  <2> QED BY <2>2, <2>3, <2>4
<1>7. CASE dir = "wait"
  <2>1. /\ Claim(SelfClaim(c, i, Result("Join"))) /\ AfterCommit(c, i, <<>>) /\ chan' = chan0
        /\ out' = out
    BY <1>7 DEF CommitCase
  <2> QED BY <1>3, <1>4, <1>7, <2>1, JoinCaseKept
<1> QED BY <1>3, <1>5, <1>6, <1>7 DEF SelectCases

-----------------------------------------------------------------------------
(* A plain request offers its one case.                                    *)
LEMMA PlainAsks ==
  ASSUME LocalInv, NEW c \in Coroutines, pc[c] \in {"call", "checked"},
         req[c].op \in SendOps \union RecvOps
  PROVE  /\ Ch(c) \in Channels /\ Payload(c) \in Payloads /\ 0 \in Nat
         /\ req[c].op \in SendOps => Asks(c, 0, "send", Ch(c))
         /\ req[c].op \in RecvOps => Asks(c, 0, "recv", Ch(c))
<1>1. Types /\ ChanTypes /\ Local(c) BY DEF LocalInv
<1>2. Ch(c) \in Channels /\ Payload(c) \in Payloads /\ ~IsSelect(c)
  BY <1>1, PlainChannel DEF IsSelect
<1>3. req[c] \in Requests BY <1>1 DEF Local, OpFits
<1>4. /\ DOMAIN req[c].cases = {1}
      /\ req[c].op \in SendOps => req[c].cases[1].dir = "send"
      /\ req[c].op \in RecvOps => req[c].cases[1].dir = "recv"
  BY <1>3, RequestFacts
<1> QED BY <1>2, <1>4 DEF Asks, Ch

(* Plain sends and receives that commit at once.                           *)
LEMMA PlainKept ==
  ASSUME MatchInv, PlaneInv', NEW c \in Coroutines, Step(c), Effect(c),
         SendNow(c) \/ SendOnClosed(c) \/ RecvNow(c) \/ RecvOnClosed(c)
  PROVE  Kept(c)
<1>0. LocalInv /\ ChanTypes BY DEF MatchInv, PlaneInv, LocalInv
<1>1. SameRings(chan) BY <1>0, SameRingsChan
<1>2. /\ pc[c] \in {"call", "checked"} /\ UNCHANGED <<calls, req, wgen, armed>>
      /\ SendNow(c) \/ SendOnClosed(c) => req[c].op \in SendOps
      /\ RecvNow(c) \/ RecvOnClosed(c) => req[c].op \in RecvOps
  BY DEF SendNow, SendOnClosed, RecvNow, RecvOnClosed, Receiving, RecvRequests, Serving, At,
     SendOps, RecvOps, restOfSend, callVars, roundVars
<1>3. /\ Ch(c) \in Channels /\ Payload(c) \in Payloads
      /\ SendNow(c) \/ SendOnClosed(c) => Asks(c, 0, "send", Ch(c))
      /\ RecvNow(c) \/ RecvOnClosed(c) => Asks(c, 0, "recv", Ch(c))
  BY <1>0, <1>2, PlainAsks
<1> PICK ch \in Channels : ch = Ch(c) BY <1>3
<1>4. CASE SendNow(c)
  <2>1. CommitSend(c, ch, 0, chan) BY <1>4 DEF SendNow
  <2>2. Asks(c, 0, "send", ch) BY <1>3, <1>4
  <2> QED BY <1>1, <1>2, <1>3, <2>1, <2>2, CommitSendKept
<1>5. CASE SendOnClosed(c)
  <2>1. SendClosed(c, ch, 0) /\ pc' = [pc EXCEPT ![c] = IF 0 = 0 THEN "idle" ELSE "cleanup"]
        /\ UNCHANGED wakes
    BY <1>5 DEF SendOnClosed, Goto
  <2>2. Asks(c, 0, "send", ch) BY <1>3, <1>5
  <2> QED BY <1>2, <2>1, <2>2, SendClosedKept
<1>6. CASE RecvNow(c)
  <2>1. CommitRecv(c, ch, 0, chan) BY <1>6 DEF RecvNow
  <2>2. Asks(c, 0, "recv", ch) BY <1>3, <1>6
  <2> QED BY <1>1, <1>2, <2>1, <2>2, CommitRecvKept
<1>7. CASE RecvOnClosed(c)
  <2>1. RecvClosed(c, ch, 0, chan) BY <1>7 DEF RecvOnClosed
  <2>2. Asks(c, 0, "recv", ch) BY <1>3, <1>7
  <2> QED BY <1>1, <1>2, <2>1, <2>2, RecvClosedKept
<1> QED BY <1>4, <1>5, <1>6, <1>7

(* select, inline path.                                                    *)
LEMMA InlineKept ==
  ASSUME MatchInv, PlaneInv', NEW c \in Coroutines, Step(c), Effect(c), SelectInline(c)
  PROVE  Kept(c)
<1>1. SameRings(chan) BY SameRingsChan DEF MatchInv, PlaneInv, LocalInv
<1>2. PICK i \in Cases(c) : CommitCase(c, i, chan) BY DEF SelectInline
<1>3. pc[c] = "try" /\ UNCHANGED <<calls, req, wgen, armed>>
  BY DEF SelectInline, At, selectRest, callVars, roundVars
<1> QED BY <1>1, <1>2, <1>3, CommitCaseKept

-----------------------------------------------------------------------------
(* Steps that commit nothing on a channel: the rings stay, and a node that *)
(* enters a queue of a channel found nobody to meet there.                 *)
Calm(c) ==
  \A ch \in Channels :
    /\ RingLike(chan'[ch], chan[ch])
    /\ \A n \in Range(chan'[ch].sendQ) : n.co = c /\ NodePending(n)' =>
         \/ n \in Range(chan[ch].sendQ)
         \/ ~chan[ch].closed /\ ~SlotAvailable(ch) /\ \A r \in WaitingTo(chan[ch].recvQ) : r.co = c
    /\ \A n \in Range(chan'[ch].recvQ) : n.co = c /\ NodePending(n)' =>
         \/ n \in Range(chan[ch].recvQ)
         \/ ~chan[ch].closed /\ ~Buffered(ch) /\ \A s \in WaitingTo(chan[ch].sendQ) : s.co = c

(* The abstract queues stay, and the channels stay matched.                *)
LEMMA CalmStays ==
  ASSUME MatchInv, PlaneInv', NEW c \in Coroutines, Step(c), Effect(c), Calm(c)
  PROVE  RingShape' /\ BufsStay /\ ClosedStay /\ AllMatched'
<1>1. PlaneInv /\ ChanTypes /\ ChanTypes' /\ RingShape BY DEF MatchInv, PlaneInv, LocalInv
<1>2. \A x \in Channels : RingLike(chan'[x], chan[x]) BY DEF Calm
<1>3. RingShape' /\ BufsStay /\ ClosedStay BY <1>1, <1>2, RingsStill
<1>4. ASSUME NEW ch \in Channels PROVE Matched(ch)'
  <2>1. Matched(ch) BY DEF MatchInv, AllMatched
  <2>2. chan'[ch].closed = chan[ch].closed /\ chan'[ch].len = chan[ch].len BY <1>2 DEF RingLike
  <2>3. /\ \A n \in Range(chan'[ch].sendQ) : n.co = c /\ NodePending(n)' =>
             \/ n \in Range(chan[ch].sendQ)
             \/ ~chan[ch].closed /\ ~SlotAvailable(ch) /\ \A r \in WaitingTo(chan[ch].recvQ) : r.co = c
        /\ \A n \in Range(chan'[ch].recvQ) : n.co = c /\ NodePending(n)' =>
             \/ n \in Range(chan[ch].recvQ)
             \/ ~chan[ch].closed /\ ~Buffered(ch) /\ \A s \in WaitingTo(chan[ch].sendQ) : s.co = c
    BY DEF Calm
  <2> QED BY <1>1, <1>3, <2>1, <2>2, <2>3, MatchKept
<1> QED BY <1>3, <1>4 DEF AllMatched

(* A calm step whose results touch no channel is Aside.                    *)
LEMMA QuietKept ==
  ASSUME MatchInv, PlaneInv', NEW c \in Coroutines, Step(c), Effect(c), Calm(c),
         UNCHANGED <<calls, req>>, Tidy(c), \A e \in Coroutines : Eases(e)
  PROVE  Kept(c)
<1>1. RingShape' /\ BufsStay /\ ClosedStay /\ AllMatched' BY CalmStays
<1>2. CallsStay BY DEF CallsStay
<1>3. Abstract!Next BY <1>1, <1>2, AbstractAside
<1> QED BY <1>1, <1>3 DEF Kept

(* No channel changes.                                                     *)
LEMMA SameCalm ==
  ASSUME NEW c, chan' = chan
  PROVE  Calm(c)
  BY DEF Calm, RingLike

(* Nodes only leave the queues.                                            *)
LEMMA ShrinkCalm ==
  ASSUME NEW c, Shrinks, \A ch \in Channels : RingLike(chan'[ch], chan[ch])
  PROVE  Calm(c)
<1>1. \A k \in Keys : \A n \in Range(Queue(k)') : n \in Range(Queue(k)) BY DEF Shrinks
<1>2. ASSUME NEW ch \in Channels
      PROVE  /\ \A n \in Range(chan'[ch].sendQ) : n \in Range(chan[ch].sendQ)
             /\ \A n \in Range(chan'[ch].recvQ) : n \in Range(chan[ch].recvQ)
  <2>1. /\ <<"send", ch>> \in Keys /\ Queue(<<"send", ch>>) = chan[ch].sendQ
        /\ Queue(<<"send", ch>>)' = chan'[ch].sendQ
        /\ <<"recv", ch>> \in Keys /\ Queue(<<"recv", ch>>) = chan[ch].recvQ
        /\ Queue(<<"recv", ch>>)' = chan'[ch].recvQ
    BY QueueNames
  <2> QED BY <1>1, <2>1
<1> QED BY <1>2 DEF Calm

(* cleanup_waiters unlinks nodes and leaves the rings alone.               *)
LEMMA CleanupCalm ==
  ASSUME LocalInv, NEW c, NEW e \in Coroutines, Cleanup(e)
  PROVE  Calm(c)
<1>1. Shrinks BY CleanupShrinks
<1>2. ASSUME NEW ch \in Channels PROVE RingLike(chan'[ch], chan[ch])
  <2>1. chan[ch] \in ChannelType(Capacity[ch]) BY DEF LocalInv, ChanTypes, RingOK
  <2> DEFINE s == Without(chan[ch].sendQ, Range(armed[e]))
             r == Without(chan[ch].recvQ, Range(armed[e]))
  <2>2. chan'[ch] = [chan[ch] EXCEPT !.sendQ = s, !.recvQ = r] BY DEF Cleanup
  <2> HIDE DEF s, r
  <2> QED BY <2>1, <2>2 DEF RingLike, ChannelType
<1> QED BY <1>1, <1>2, ShrinkCalm

(* So does wake_node.                                                      *)
LEMMA WakeCalm ==
  ASSUME LocalInv, NEW c, NEW h \in Nodes, WakeNode(h)
  PROVE  Calm(c)
<1>1. CASE CanWake(h)
  <2>1. Cleanup(h.co) /\ h.co \in Coroutines BY <1>1 DEF WakeNode, Nodes
  <2> QED BY <2>1, CleanupCalm
<1>2. CASE ~CanWake(h)
  <2>1. chan' = chan BY <1>2 DEF WakeNode, queueVars
  <2> QED BY <2>1, SameCalm
<1> QED BY <1>1, <1>2

(* Nobody else is claimed.                                                 *)
LEMMA OwnEases ==
  ASSUME MatchInv, PlaneInv', NEW c \in Coroutines, Step(c), Effect(c), WakesMove(c),
         \A e \in Coroutines \ {c} : delivered'[e] = delivered[e], Eases(c)
  PROVE  \A e \in Coroutines : Eases(e)
<1>1. \A e \in Coroutines \ {c} : Eases(e) BY OthersStay DEF Eases
<1> QED BY <1>1

-----------------------------------------------------------------------------
(* The ways in which c's own result moves in such a step.                  *)
LEMMA KeepsOwn ==
  ASSUME MatchInv, NEW c \in Coroutines, Step(c),
         req'[c] = req[c], wgen'[c] = wgen[c], delivered'[c] = delivered[c],
         winner'[c] = winner[c], out'[c] = out[c],
         \/ Answered(c) /\ Answered(c)'
         \/ ~Answered(c) /\ pc[c] \in Undecided /\ Answered(c)'
         \/ ~Answered(c) /\ ~Answered(c)' /\ pc[c] \in Undecided /\ pc'[c] \in Undecided
         \/ ~Answered(c) /\ ~Answered(c)' /\ pc'[c] \notin Undecided
            /\ (pc[c] \notin Undecided \/ armed'[c] # <<>>)
  PROVE  ResultFits(c)' /\ Eases(c)
<1>1. ResultFits(c) BY DEF MatchInv, AllResultsFit
<1>2. Eases(c) BY ResultSame DEF Eases
<1>3. Completed(c)' <=> Completed(c) BY DEF Completed
<1>4. armed'[c] # <<>> /\ delivered'[c].gen = wgen'[c] => delivered'[c].res # NoResult
  BY DEF Step, Local, ClaimFits
<1> QED BY <1>1, <1>2, <1>3, <1>4 DEF ResultFits

(* c takes its delivered result.                                           *)
LEMMA TakesOwn ==
  ASSUME MatchInv, NEW c \in Coroutines, Completed(c), TakeDelivered(c),
         req'[c] = req[c], wgen'[c] = wgen[c], winner'[c] = winner[c], pc'[c] = "idle"
  PROVE  ResultFits(c)' /\ Eases(c)
<1>1. Types BY DEF MatchInv, PlaneInv, LocalInv
<1>2. PICK res : res = delivered[c].res OBVIOUS
<1>3. out'[c] = res /\ delivered'[c].res = NoResult BY <1>1, <1>2 DEF TakeDelivered, Types
<1>4. ~Completed(c)' BY <1>3 DEF Completed
<1>5. Via(c, res.kind)' = Via(c, res.kind) BY DEF Via, IsSelect
<1>6. CommittedResult(c) = [kind |-> res.kind, val |-> res.val, via |-> Via(c, res.kind)]
  BY <1>2 DEF CommittedResult, Via
<1>7. CommittedResult(c)' = [kind |-> res.kind, val |-> res.val, via |-> Via(c, res.kind)']
  BY <1>3, <1>4 DEF CommittedResult, Via
<1> QED BY <1>4, <1>5, <1>6, <1>7 DEF Eases, ResultFits, Answered

(* c opens a round.                                                        *)
LEMMA StartsOwn ==
  ASSUME MatchInv, NEW c \in Coroutines, pc[c] \in {"call", "checked"}, BeginWait(c),
         out'[c] = out[c], pc'[c] \in {"try", "arm", "park", "register_cancel", "join"}
  PROVE  ResultFits(c)' /\ Eases(c) /\ wgen'[c] # wgen[c]
<1>1. Types /\ ResultFits(c) BY DEF MatchInv, PlaneInv, LocalInv, AllResultsFit
<1>2. wgen[c] \in Nat BY <1>1, WaitAssumption DEF Types
<1>3. wgen'[c] = wgen[c] + 1 /\ delivered'[c] = [gen |-> 0, res |-> NoResult]
  BY <1>1 DEF BeginWait, Types
<1>4. ~Answered(c) /\ pc[c] \in Undecided BY DEF Answered, Undecided
<1>5. out[c] = NoResult /\ ~Completed(c) BY <1>1, <1>4 DEF ResultFits
<1>6. ~Completed(c)' /\ delivered'[c].gen # wgen'[c] BY <1>2, <1>3 DEF Completed
<1>7. CommittedResult(c) = Abstract!Pending BY <1>5, NothingShown
<1>8. CommittedResult(c)' = Abstract!Pending BY <1>5, <1>6, NothingShownAfter
<1>9. ResultFits(c)' BY <1>5, <1>6 DEF ResultFits
<1> QED BY <1>2, <1>3, <1>7, <1>8, <1>9 DEF Eases

(* c returns a result that needs no round.                                 *)
LEMMA ReturnsOwn ==
  ASSUME MatchInv, NEW c \in Coroutines, pc[c] \in Undecided, NEW kind \in AsideKinds,
         req'[c] = req[c], wgen'[c] = wgen[c], delivered'[c] = delivered[c],
         out'[c] = Result(kind), pc'[c] = "idle"
  PROVE  ResultFits(c)' /\ Eases(c)
<1>1. ResultFits(c) BY DEF MatchInv, AllResultsFit
<1>2. ~Answered(c) BY DEF Answered, Undecided, Trying
<1>3. out[c] = NoResult /\ ~Completed(c) BY <1>1, <1>2 DEF ResultFits
<1>4. ~Completed(c)' BY <1>3 DEF Completed
<1>5. CommittedResult(c) = Abstract!Pending BY <1>3, NothingShown
<1>6. CommittedResult(c)' = [kind |-> kind, val |-> NoVal, via |-> Via(c, kind)']
  BY <1>4 DEF CommittedResult, Result, Via
<1>7. Via(c, kind)' = "none" BY DEF Via, AsideKinds
<1>8. CommittedResult(c)' = Abstract!Outcome(kind, Abstract!Nowhere)
  BY <1>6, <1>7 DEF Abstract!Outcome, Abstract!Nowhere, NoVal
<1> QED BY <1>4, <1>5, <1>8 DEF Eases, ResultFits, Answered

-----------------------------------------------------------------------------
(* How far the call of c has come: it goes on, opens its wait, or returns. *)
Advances(c) ==
  \/ Answered(c) /\ Answered(c)'
  \/ ~Answered(c) /\ pc[c] \in Undecided /\ Answered(c)'
  \/ ~Answered(c) /\ ~Answered(c)' /\ pc[c] \in Undecided /\ pc'[c] \in Undecided
  \/ /\ ~Answered(c) /\ ~Answered(c)' /\ pc'[c] \notin Undecided
     /\ pc[c] \notin Undecided \/ armed'[c] # <<>>

(* The call of c goes on with what it has.                                 *)
LEMMA KeepsQuiet ==
  ASSUME MatchInv, PlaneInv', NEW c \in Coroutines, Step(c), Effect(c), Calm(c), WakesMove(c),
         UNCHANGED <<calls, req, wgen, delivered, winner, out>>, Advances(c),
         pc'[c] # "join"
  PROVE  Kept(c)
<1>1. ResultFits(c)' /\ Eases(c) BY KeepsOwn DEF Advances
<1>2. \A e \in Coroutines : Eases(e) BY <1>1, OwnEases
<1>3. Tidy(c) BY <1>1 DEF Tidy, MatchInv, NothingLarge
<1> QED BY <1>2, <1>3, QuietKept

(* The call of c returns at once.                                          *)
LEMMA ReturnsQuiet ==
  ASSUME MatchInv, PlaneInv', NEW c \in Coroutines, Step(c), Effect(c), Calm(c), WakesMove(c),
         UNCHANGED <<calls, req, wgen, delivered>>, pc[c] \in Undecided,
         NEW kind \in AsideKinds, out'[c] = Result(kind), pc'[c] = "idle"
  PROVE  Kept(c)
<1>1. ResultFits(c)' /\ Eases(c) BY ReturnsOwn
<1>2. \A e \in Coroutines : Eases(e) BY <1>1, OwnEases
<1>3. Tidy(c) BY <1>1 DEF Tidy, MatchInv, NothingLarge
<1> QED BY <1>2, <1>3, QuietKept

(* The call of c returns what its round was given.                         *)
LEMMA TakesQuiet ==
  ASSUME MatchInv, PlaneInv', NEW c \in Coroutines, Step(c), Effect(c), Calm(c), WakesMove(c),
         UNCHANGED <<calls, req, wgen, winner>>, Completed(c), TakeDelivered(c), pc'[c] = "idle"
  PROVE  Kept(c)
<1>0. Types BY DEF MatchInv, PlaneInv, LocalInv
<1>1. ResultFits(c)' /\ Eases(c) BY TakesOwn
<1>2. \A e \in Coroutines \ {c} : delivered'[e] = delivered[e] BY <1>0 DEF TakeDelivered, Types
<1>3. \A e \in Coroutines : Eases(e) BY <1>1, <1>2, OwnEases
<1>4. Tidy(c) BY <1>1 DEF Tidy, MatchInv, NothingLarge
<1> QED BY <1>3, <1>4, QuietKept

(* The call of c starts to wait.                                           *)
LEMMA StartsQuiet ==
  ASSUME MatchInv, PlaneInv', NEW c \in Coroutines, Step(c), Effect(c), Calm(c), WakesMove(c),
         UNCHANGED <<calls, req, out>>, pc[c] \in {"call", "checked"}, BeginWait(c),
         pc'[c] \in {"try", "arm", "park", "register_cancel", "join"}
  PROVE  Kept(c)
<1>0. Types BY DEF MatchInv, PlaneInv, LocalInv
<1>1. ResultFits(c)' /\ Eases(c) /\ wgen'[c] # wgen[c] BY StartsOwn
<1>2. \A e \in Coroutines \ {c} : delivered'[e] = delivered[e] BY <1>0 DEF BeginWait, Types
<1>3. \A e \in Coroutines : Eases(e) BY <1>1, <1>2, OwnEases
<1>4. Tidy(c) BY <1>1 DEF Tidy, MatchInv, NothingLarge
<1> QED BY <1>3, <1>4, QuietKept

(* A handler's list empties, shrinks from its head or is the cancel queue. *)
LEMMA ListsMove ==
  ASSUME NEW c \in Coroutines, Types,
         wakes'[c] = wakes[c] \/ wakes'[c] = <<>> \/ wakes'[c] = cancelQ
         \/ (wakes[c] # <<>> /\ wakes'[c] = Tail(wakes[c]))
  PROVE  WakesMove(c)
<1>1. wakes[c] \in Seq(Nodes) BY DEF Types
<1>2. CASE wakes'[c] = wakes[c] \/ wakes'[c] = cancelQ BY <1>2 DEF WakesMove
<1>3. CASE wakes'[c] = <<>> BY <1>3 DEF WakesMove, Range
<1>4. CASE wakes[c] # <<>> /\ wakes'[c] = Tail(wakes[c]) BY <1>1, <1>4, HeadFacts DEF WakesMove
<1> QED BY <1>2, <1>3, <1>4

-----------------------------------------------------------------------------
(* The steps that leave every queue of the channels as it is.              *)
LEMMA PlaceKept ==
  ASSUME MatchInv, PlaneInv', NEW c \in Coroutines, Step(c), Effect(c),
         \/ ParkEnter(c) \/ ParkSleep(c) \/ ScanBegin(c) \/ Probe(c) \/ RegisterWon(c)
         \/ ArmEnter(c) \/ ArmFinish(c) \/ Finish(c) \/ JoinPark(c)
  PROVE  Kept(c)
<1>0. Types /\ Local(c) /\ Local(c)' /\ pc \in [Coroutines -> Places]
  BY DEF MatchInv, PlaneInv, LocalInv, Types, Step
<1>1. UNCHANGED <<calls, req, wgen, delivered, winner, out, chan, wakes>>
  BY DEF ParkEnter, ParkSleep, ScanBegin, Probe, RegisterWon, ArmEnter, ArmFinish, Finish, JoinPark,
     planeVars, callVars, roundVars, claimVars, selectRest, joinRest, cancelVars, lifeVars
<1>2. Calm(c) /\ WakesMove(c) BY <1>0, <1>1, SameCalm, ListsMove
<1>3. \/ pc[c] = "park" /\ pc'[c] = "sleep"
      \/ pc[c] = "sleep" /\ pc'[c] = "recheck"
      \/ pc[c] = "try" /\ pc'[c] = "probe"
      \/ pc[c] = "probe" /\ pc'[c] \in {"probe", "retry"}
      \/ pc[c] = "register" /\ pc'[c] = "arm"
      \/ pc[c] = "arm" /\ pc'[c] = "armed"
      \/ pc[c] = "armed" /\ pc'[c] \in {"park", "cleanup", "wake"}
      \/ pc[c] = "call" /\ pc'[c] = "wake_join"
      \/ pc[c] = "join" /\ pc'[c] \in {"park", "register_cancel"}
  <2>1. CASE ParkEnter(c) BY <1>0, <2>1 DEF ParkEnter, At, Goto
  <2>2. CASE ParkSleep(c) BY <1>0, <2>2 DEF ParkSleep, At, Goto
  <2>3. CASE ScanBegin(c) BY <1>0, <2>3 DEF ScanBegin, At, Goto
  <2>4. CASE Probe(c) BY <1>0, <2>4 DEF Probe, At, Goto
  <2>5. CASE RegisterWon(c) BY <1>0, <2>5 DEF RegisterWon, At, Goto
  <2>6. CASE ArmEnter(c) BY <1>0, <2>6 DEF ArmEnter, At, Goto
  <2>7. CASE ArmFinish(c) BY <1>0, <2>7 DEF ArmFinish, At, Goto
  <2>8. CASE Finish(c) BY <1>0, <2>8 DEF Finish, Serving, At, Goto
  <2>9. CASE JoinPark(c) BY <1>0, <2>9 DEF JoinPark, At, Goto
  <2> QED BY <2>1, <2>2, <2>3, <2>4, <2>5, <2>6, <2>7, <2>8, <2>9
<1>4. pc[c] = "armed" => IsSelect(c)' BY <1>0, <1>1 DEF Local, OpFits, SelectPlaces, IsSelect
<1>5. pc[c] = "join" => armed'[c] # <<>> BY <1>0, <1>3 DEF Local, ArmedFits
<1>6. Advances(c) BY <1>3, <1>4, <1>5 DEF Advances, Answered, Undecided, Trying
<1>7. pc'[c] # "join" BY <1>3
<1> QED BY <1>1, <1>2, <1>6, <1>7, KeepsQuiet

(* The re-check after Waiting is published.                                *)
LEMMA RecheckKept ==
  ASSUME MatchInv, PlaneInv', NEW c \in Coroutines, Step(c), Effect(c), ParkRecheck(c)
  PROVE  Kept(c)
<1>0. Types /\ LocalInv /\ pc \in [Coroutines -> Places] BY DEF MatchInv, PlaneInv, LocalInv, Types
<1>1. /\ UNCHANGED <<calls, req, wgen, delivered, winner, out, wakes>>
      /\ pc[c] = "recheck" /\ pc' = [pc EXCEPT ![c] = "blocked"]
  BY DEF ParkRecheck, callVars, claimVars, At, Goto
<1>2. Calm(c)
  <2>1. (\E n \in Range(armed[c]) : WakeNode(n)) \/ chan' = chan
    BY DEF ParkRecheck, queueVars
  <2>2. ASSUME NEW n \in Range(armed[c]), WakeNode(n) PROVE Calm(c)
    <3>1. n \in Nodes BY <1>0, LiveFacts
    <3> QED BY <1>0, <2>2, <3>1, WakeCalm
  <2> QED BY <2>1, <2>2, SameCalm
<1>3. WakesMove(c) BY <1>0, <1>1, ListsMove
<1>4. pc'[c] = "blocked" BY <1>0, <1>1
<1>5. Advances(c) BY <1>1, <1>4 DEF Advances, Answered, Undecided, Trying
<1> QED BY <1>1, <1>2, <1>3, <1>4, <1>5, KeepsQuiet

(* The wake-ups a handler owes.                                            *)
LEMMA WakeKept ==
  ASSUME MatchInv, PlaneInv', NEW c \in Coroutines, Step(c), Effect(c), Wake(c)
  PROVE  Kept(c)
<1>0. /\ Types /\ LocalInv /\ Local(c) /\ Local(c)' /\ pc \in [Coroutines -> Places]
      /\ wakes \in [Coroutines -> Seq(Nodes)]
  BY DEF MatchInv, PlaneInv, LocalInv, Types, Step
<1>1. /\ UNCHANGED <<calls, req, wgen, delivered, winner, out>>
      /\ pc[c] = "wake" /\ WakeNode(Head(wakes[c])) /\ wakes' = [wakes EXCEPT ![c] = Tail(wakes[c])]
  BY DEF Wake, callVars, claimVars, At
<1>2. wakes[c] # <<>> BY <1>0, <1>1 DEF Local, WakesFits
<1>3. Head(wakes[c]) \in Nodes /\ wakes'[c] = Tail(wakes[c]) BY <1>0, <1>1, <1>2, HeadFacts
<1>4. Calm(c) BY <1>0, <1>1, <1>3, WakeCalm
<1>5. WakesMove(c) BY <1>0, <1>2, <1>3, ListsMove
<1> DEFINE g == CASE Len(wakes[c]) > 1 -> "wake"
                  [] Len(wakes[c]) = 1 /\ IsSelect(c) -> "cleanup"
                  [] Len(wakes[c]) = 1 /\ life[c] = "Dead" -> "done"
                  [] OTHER -> "idle"
<1>6. g \in {"wake", "cleanup", "done", "idle"} BY Zenon
<1>7. IsSelect(c) => g \in {"wake", "cleanup"}
  <2> SUFFICES ASSUME IsSelect(c) PROVE g \in {"wake", "cleanup"} OBVIOUS
  <2>1. life[c] # "Dead" BY <1>0, <1>1 DEF Local, LifeFits, IsSelect
  <2>2. /\ Len(wakes[c]) = 1 <=> Tail(wakes[c]) = <<>>
        /\ Len(wakes[c]) > 1 <=> Tail(wakes[c]) # <<>>
    BY <1>0, <1>2, HeadFacts
  <2>3. CASE Len(wakes[c]) > 1 /\ ~(Len(wakes[c]) = 1) BY <2>3, Zenon
  <2>4. CASE Len(wakes[c]) = 1 /\ ~(Len(wakes[c]) > 1) BY <2>1, <2>4, Zenon
  <2> QED BY <2>2, <2>3, <2>4, Zenon
<1>8. pc' = [pc EXCEPT ![c] = g] BY DEF Wake, Goto
<1> HIDE DEF g
<1>9. pc'[c] = g BY <1>0, <1>8
<1>10. pc'[c] = "cleanup" => IsSelect(c)
  BY <1>0, <1>1 DEF Local, OpFits, SelectPlaces, IsSelect
<1>11. IsSelect(c)' <=> IsSelect(c) BY <1>1 DEF IsSelect
<1>12. Advances(c)
  BY <1>1, <1>6, <1>7, <1>9, <1>10, <1>11 DEF Advances, Answered, Undecided, Trying
<1> QED BY <1>1, <1>4, <1>5, <1>6, <1>9, <1>12, KeepsQuiet

-----------------------------------------------------------------------------
(* The caller takes its result, or gives up.                               *)
LEMMA TakesKept ==
  ASSUME MatchInv, PlaneInv', NEW c \in Coroutines, Step(c), Effect(c),
         ParkUndone(c) \/ SelectDone(c) \/ Resume(c)
  PROVE  Kept(c)
<1>0. /\ Types /\ LocalInv /\ Local(c) /\ ResultFits(c) /\ pc \in [Coroutines -> Places]
  BY DEF MatchInv, PlaneInv, LocalInv, Types, AllResultsFit
<1>1. /\ UNCHANGED <<calls, req, wgen, winner, wakes>> /\ TakeDelivered(c)
      /\ pc' = [pc EXCEPT ![c] = "idle"]
  BY DEF ParkUndone, SelectDone, Resume, callVars, roundVars, Goto
<1>2. pc'[c] = "idle" BY <1>0, <1>1
<1>3. Completed(c)
  <2>1. CASE ParkUndone(c) BY <2>1 DEF ParkUndone
  <2>2. CASE SelectDone(c)
    <3>1. pc[c] = "cleanup" BY <2>2 DEF SelectDone, At
    <3>2. delivered[c].gen = wgen[c]
      BY <1>0, <3>1 DEF Local, OpFits, ClaimFits, SelectPlaces
    <3>3. delivered[c].res # NoResult
      BY <1>0, <3>1, <3>2 DEF ResultFits, Answered, Undecided, Trying
    <3> QED BY <3>2, <3>3 DEF Completed
  <2>3. CASE Resume(c)
    <3>1. pc[c] = "blocked" /\ life[c] = "Runnable" BY <2>3 DEF Resume, At
    <3> QED BY <1>0, <3>1 DEF Local, ArmedFits
  <2> QED BY <2>1, <2>2, <2>3
<1>4. Calm(c)
  <2>1. CASE Cleanup(c) BY <1>0, <2>1, CleanupCalm
  <2>2. CASE chan' = chan BY <2>2, SameCalm
  <2>3. Cleanup(c) \/ chan' = chan BY DEF ParkUndone, SelectDone, Resume
  <2> QED BY <2>1, <2>2, <2>3
<1>5. WakesMove(c) BY <1>0, <1>1, ListsMove
<1> QED BY <1>1, <1>2, <1>3, <1>4, <1>5, TakesQuiet

(* Where Return leaves its caller.                                         *)
LEMMA ReturnHere ==
  ASSUME Types, NEW c \in Coroutines, NEW res, Return(c, res)
  PROVE  out'[c] = res /\ pc'[c] = "idle"
<1>1. out \in [Coroutines -> CallResults] /\ pc \in [Coroutines -> Places] BY DEF Types
<1> QED BY <1>1 DEF Return, Goto

(* Where Goto leaves its caller.                                           *)
LEMMA GotoHere ==
  ASSUME Types, NEW c \in Coroutines, NEW place, Goto(c, place)
  PROVE  pc'[c] = place
<1>1. pc \in [Coroutines -> Places] BY DEF Types
<1> QED BY <1>1 DEF Goto

(* The first look at the token.                                            *)
LEMMA TokenKept ==
  ASSUME MatchInv, PlaneInv', NEW c \in Coroutines, Step(c), Effect(c), CheckToken(c)
  PROVE  Kept(c)
<1>0. Types BY DEF MatchInv, PlaneInv, LocalInv
<1>1. /\ UNCHANGED <<calls, req, wgen, delivered, winner, chan, wakes>> /\ pc[c] = "call"
  BY DEF CheckToken, planeVars, callVars, roundVars, claimVars, Serving, At
<1>2. Calm(c) /\ WakesMove(c) BY <1>0, <1>1, SameCalm, ListsMove
<1>3. CASE cancelled
  <2>1. Return(c, Result("Cancelled")) BY <1>3 DEF CheckToken
  <2>2. out'[c] = Result("Cancelled") /\ pc'[c] = "idle" BY <1>0, <2>1, ReturnHere
  <2>3. pc[c] \in Undecided /\ "Cancelled" \in AsideKinds BY <1>1 DEF Undecided, AsideKinds
  <2> QED BY <1>1, <1>2, <2>2, <2>3, ReturnsQuiet
<1>4. CASE ~cancelled
  <2>1. Goto(c, "checked") /\ out' = out BY <1>4 DEF CheckToken
  <2>2. pc'[c] = "checked" BY <1>0, <2>1, GotoHere
  <2>3. Advances(c) BY <1>1, <2>2 DEF Advances, Answered, Undecided
  <2> QED BY <1>1, <1>2, <2>1, <2>2, <2>3, KeepsQuiet
<1> QED BY <1>3, <1>4

(* cancel_source_cancel takes the registered nodes.                        *)
LEMMA CancelStartKept ==
  ASSUME MatchInv, PlaneInv', NEW c \in Coroutines, Step(c), Effect(c), CancelStart(c)
  PROVE  Kept(c)
<1>0. Types /\ wakes \in [Coroutines -> Seq(Nodes)] BY DEF MatchInv, PlaneInv, LocalInv, Types
<1>1. /\ UNCHANGED <<calls, req, wgen, delivered, winner, chan>> /\ pc[c] = "call"
      /\ \/ wakes'[c] = <<>> /\ Return(c, Result("Done"))
         \/ wakes'[c] # <<>> /\ Goto(c, "cancel") /\ out' = out
  BY DEF CancelStart, callVars, roundVars, claimVars, Serving, At
<1>2. WakesMove(c)
  <2>1. wakes'[c] = <<>> \/ wakes'[c] = cancelQ
    <3>1. CASE cancelled BY <1>0, <3>1 DEF CancelStart
    <3>2. CASE ~cancelled BY <1>0, <3>2 DEF CancelStart
    <3> QED BY <3>1, <3>2
  <2> QED BY <1>0, <2>1, ListsMove
<1>3. Calm(c) BY <1>1, SameCalm
<1>4. CASE Return(c, Result("Done"))
  <2>2. out'[c] = Result("Done") /\ pc'[c] = "idle" BY <1>0, <1>4, ReturnHere
  <2>3. pc[c] \in Undecided /\ "Done" \in AsideKinds BY <1>1 DEF Undecided, AsideKinds
  <2> QED BY <1>1, <1>2, <1>3, <2>2, <2>3, ReturnsQuiet
<1>5. CASE Goto(c, "cancel") /\ out' = out
  <2>2. pc'[c] = "cancel" BY <1>0, <1>5, GotoHere
  <2>3. Advances(c) BY <1>1, <2>2 DEF Advances, Answered, Undecided
  <2> QED BY <1>1, <1>2, <1>3, <1>5, <2>2, <2>3, KeepsQuiet
<1> QED BY <1>1, <1>4, <1>5

(* The next node of the cancel list, or its end.                           *)
LEMMA CancelNextKept ==
  ASSUME MatchInv, PlaneInv', NEW c \in Coroutines, Step(c), Effect(c),
         CancelSkip(c) \/ CancelWake(c)
  PROVE  Kept(c)
<1>0. /\ Types /\ LocalInv /\ Local(c) /\ wakes \in [Coroutines -> Seq(Nodes)]
  BY DEF MatchInv, PlaneInv, LocalInv, Types
<1>1. /\ UNCHANGED <<calls, req, wgen, delivered, winner>> /\ pc[c] \in {"cancel", "cancel_wake"}
      /\ wakes' = [wakes EXCEPT ![c] = Tail(wakes[c])]
      /\ Return(c, Result("Done")) \/ (Goto(c, "cancel") /\ out' = out)
      /\ WakeNode(Head(wakes[c])) \/ chan' = chan
  BY DEF CancelSkip, CancelWake, CancelNext, planeVars, callVars, roundVars, claimVars, At
<1>2. wakes[c] # <<>> BY <1>0, <1>1 DEF Local, WakesFits
<1>3. Head(wakes[c]) \in Nodes /\ wakes'[c] = Tail(wakes[c]) BY <1>0, <1>1, <1>2, HeadFacts
<1>4. WakesMove(c) BY <1>0, <1>2, <1>3, ListsMove
<1>5. Calm(c)
  <2>1. CASE WakeNode(Head(wakes[c])) BY <1>0, <1>3, <2>1, WakeCalm
  <2>2. CASE chan' = chan BY <2>2, SameCalm
  <2> QED BY <1>1, <2>1, <2>2
<1>6. CASE Return(c, Result("Done"))
  <2>2. out'[c] = Result("Done") /\ pc'[c] = "idle" BY <1>0, <1>6, ReturnHere
  <2>3. pc[c] \in Undecided /\ "Done" \in AsideKinds BY <1>1 DEF Undecided, AsideKinds
  <2> QED BY <1>1, <1>4, <1>5, <2>2, <2>3, ReturnsQuiet
<1>7. CASE Goto(c, "cancel") /\ out' = out
  <2>2. pc'[c] = "cancel" BY <1>0, <1>7, GotoHere
  <2>3. Advances(c) BY <1>1, <2>2 DEF Advances, Answered, Undecided
  <2> QED BY <1>1, <1>4, <1>5, <1>7, <2>2, <2>3, KeepsQuiet
<1> QED BY <1>1, <1>6, <1>7

(* A select that found no ready case: its default, or registration.        *)
LEMMA NoneKept ==
  ASSUME MatchInv, PlaneInv', NEW c \in Coroutines, Step(c), Effect(c),
         pc[c] \in {"try", "retry"}, NothingCommitted(c)
  PROVE  Kept(c)
<1>0. Types /\ Local(c)' BY DEF MatchInv, PlaneInv, LocalInv, Step
<1>1. UNCHANGED <<calls, req, wgen, chan, wakes>> /\ pc[c] \in Undecided
  BY DEF NothingCommitted, callVars, Undecided, Trying
<1>2. Calm(c) /\ WakesMove(c) BY <1>0, <1>1, SameCalm, ListsMove
<1>3. CASE TakeDefault(c)
  <2>1. Return(c, Result("Default")) /\ delivered' = delivered BY <1>3 DEF TakeDefault
  <2>2. out'[c] = Result("Default") /\ pc'[c] = "idle" BY <1>0, <2>1, ReturnHere
  <2>3. "Default" \in AsideKinds BY DEF AsideKinds
  <2> QED BY <1>1, <1>2, <2>1, <2>2, <2>3, ReturnsQuiet
<1>4. CASE AllocateWaiters(c)
  <2>1. Goto(c, "register") /\ UNCHANGED <<delivered, winner, out>>
    BY <1>4 DEF AllocateWaiters, claimVars
  <2>2. pc'[c] = "register" BY <1>0, <2>1, GotoHere
  <2>3. armed'[c] # <<>> BY <1>0, <2>2 DEF Local, ArmedFits
  <2>4. Advances(c) BY <2>2, <2>3 DEF Advances, Answered, Undecided, Trying
  <2> QED BY <1>1, <1>2, <2>1, <2>2, <2>4, KeepsQuiet
<1>5. TakeDefault(c) \/ AllocateWaiters(c) BY DEF NothingCommitted
<1> QED BY <1>3, <1>4, <1>5

(* The second look of Join finds the child dead.                           *)
LEMMA JoinLateKept ==
  ASSUME MatchInv, PlaneInv', NEW c \in Coroutines, Step(c), Effect(c), JoinLate(c)
  PROVE  Kept(c)
<1>0. Types /\ LocalInv BY DEF MatchInv, PlaneInv, LocalInv
<1>1. /\ UNCHANGED <<calls, req, wgen, delivered, winner, wakes>> /\ pc[c] = "join"
      /\ Cleanup(c) /\ Return(c, Result("Join"))
  BY DEF JoinLate, callVars, claimVars, At
<1>2. Calm(c) /\ WakesMove(c) BY <1>0, <1>1, CleanupCalm, ListsMove
<1>3. out'[c] = Result("Join") /\ pc'[c] = "idle" BY <1>0, <1>1, ReturnHere
<1>4. pc[c] \in Undecided /\ "Join" \in AsideKinds BY <1>1 DEF Undecided, AsideKinds
<1> QED BY <1>1, <1>2, <1>3, <1>4, ReturnsQuiet

(* The first look of Join.                                                 *)
LEMMA JoinStartKept ==
  ASSUME MatchInv, PlaneInv', NEW c \in Coroutines, Step(c), Effect(c), JoinStart(c)
  PROVE  Kept(c)
<1>0. Types BY DEF MatchInv, PlaneInv, LocalInv
<1>1. UNCHANGED <<calls, req, chan, wakes>> /\ pc[c] \in {"call", "checked"}
  BY DEF JoinStart, joinRest, callVars, Serving, At
<1>2. Calm(c) /\ WakesMove(c) BY <1>0, <1>1, SameCalm, ListsMove
<1>3. CASE life[Child(c)] = "Dead"
  <2>1. Return(c, Result("Join")) /\ UNCHANGED <<wgen, delivered>> BY <1>3 DEF JoinStart
  <2>2. out'[c] = Result("Join") /\ pc'[c] = "idle" BY <1>0, <2>1, ReturnHere
  <2>3. pc[c] \in Undecided /\ "Join" \in AsideKinds BY <1>1 DEF Undecided, AsideKinds
  <2> QED BY <1>1, <1>2, <2>1, <2>2, <2>3, ReturnsQuiet
<1>4. CASE life[Child(c)] # "Dead"
  <2>1. BeginWait(c) /\ Goto(c, "join") /\ out' = out BY <1>4 DEF JoinStart
  <2>2. pc'[c] = "join" BY <1>0, <2>1, GotoHere
  <2> QED BY <1>1, <1>2, <2>1, <2>2, StartsQuiet
<1> QED BY <1>3, <1>4

(* select opens its round.                                                 *)
LEMMA SelectBeginKept ==
  ASSUME MatchInv, PlaneInv', NEW c \in Coroutines, Step(c), Effect(c), SelectBegin(c)
  PROVE  Kept(c)
<1>0. Types BY DEF MatchInv, PlaneInv, LocalInv
<1>1. UNCHANGED <<calls, req, chan, wakes, out>> /\ pc[c] = "call" /\ BeginWait(c)
  BY DEF SelectBegin, callVars, Serving, At
<1>2. Calm(c) /\ WakesMove(c) BY <1>0, <1>1, SameCalm, ListsMove
<1>3. Goto(c, "arm") \/ Goto(c, "try") BY DEF SelectBegin
<1>4. pc'[c] \in {"arm", "try"} BY <1>0, <1>3, GotoHere
<1> QED BY <1>1, <1>2, <1>4, StartsQuiet

-----------------------------------------------------------------------------
(* The steps that put a node of c in a queue of a channel: the same lock   *)
(* region has found nobody to meet there.                                  *)
LEMMA FullFacts ==
  ASSUME LocalInv, NEW c \in Coroutines, NEW ch \in Channels, ~chan[ch].closed, ~SendReady(c, ch)
  PROVE  ~SlotAvailable(ch) /\ \A r \in WaitingTo(chan[ch].recvQ) : r.co = c
<1>1. ~SlotAvailable(ch) /\ Receivers(c, ch) = <<>> BY DEF SendReady
<1>2. chan[ch].recvQ \in Seq(Nodes) BY QueueTypes DEF LocalInv
<1>3. ASSUME NEW r \in WaitingTo(chan[ch].recvQ), r.co # c PROVE FALSE
  <2>1. r \in Range(chan[ch].recvQ) /\ NodePending(r) BY DEF WaitingTo
  <2>2. r \in Range(Pending(chan[ch].recvQ, c)) BY <1>2, <1>3, <2>1, PendingFacts
  <2> QED BY <1>1, <2>2 DEF Receivers, Range
<1> QED BY <1>1, <1>3

(* A receive that is not ready found no message and no sender but itself.  *)
LEMMA EmptyFacts ==
  ASSUME LocalInv, NEW c \in Coroutines, NEW ch \in Channels, ~chan[ch].closed, ~RecvReady(c, ch)
  PROVE  ~Buffered(ch) /\ \A s \in WaitingTo(chan[ch].sendQ) : s.co = c
<1>1. ~Buffered(ch) /\ Senders(c, ch) = <<>> BY DEF RecvReady
<1>2. Pending(chan[ch].sendQ, c) = <<>> BY <1>1 DEF Senders, CanRefill
<1>3. chan[ch].sendQ \in Seq(Nodes) BY QueueTypes DEF LocalInv
<1>4. ASSUME NEW s \in WaitingTo(chan[ch].sendQ), s.co # c PROVE FALSE
  <2>1. s \in Range(chan[ch].sendQ) /\ NodePending(s) BY DEF WaitingTo
  <2>2. s \in Range(Pending(chan[ch].sendQ, c)) BY <1>3, <1>4, <2>1, PendingFacts
  <2> QED BY <1>2, <2>2 DEF Range
<1> QED BY <1>1, <1>4

(* Nodes enter a queue only where the region found no counterpart.         *)
Grown(c) ==
  \A ch \in Channels :
    /\ RingLike(chan'[ch], chan[ch])
    /\ \A n \in Range(chan'[ch].sendQ) :
         n \in Range(chan[ch].sendQ) \/ (~chan[ch].closed /\ ~SendReady(c, ch))
    /\ \A n \in Range(chan'[ch].recvQ) :
         n \in Range(chan[ch].recvQ) \/ (~chan[ch].closed /\ ~RecvReady(c, ch))

(* Nodes queued after such a look leave the channels matched.              *)
LEMMA GrownCalm ==
  ASSUME LocalInv, NEW c \in Coroutines, Grown(c)
  PROVE  Calm(c)
<1> SUFFICES ASSUME NEW ch \in Channels
             PROVE  /\ RingLike(chan'[ch], chan[ch])
                    /\ \A n \in Range(chan'[ch].sendQ) :
                         \/ n \in Range(chan[ch].sendQ)
                         \/ /\ ~chan[ch].closed /\ ~SlotAvailable(ch)
                            /\ \A r \in WaitingTo(chan[ch].recvQ) : r.co = c
                    /\ \A n \in Range(chan'[ch].recvQ) :
                         \/ n \in Range(chan[ch].recvQ)
                         \/ /\ ~chan[ch].closed /\ ~Buffered(ch)
                            /\ \A s \in WaitingTo(chan[ch].sendQ) : s.co = c
  BY DEF Calm
<1>1. RingLike(chan'[ch], chan[ch]) BY DEF Grown
<1>2. ASSUME NEW n \in Range(chan'[ch].sendQ), n \notin Range(chan[ch].sendQ)
      PROVE  /\ ~chan[ch].closed /\ ~SlotAvailable(ch)
             /\ \A r \in WaitingTo(chan[ch].recvQ) : r.co = c
  <2>1. ~chan[ch].closed /\ ~SendReady(c, ch) BY <1>2 DEF Grown
  <2> QED BY <2>1, FullFacts
<1>3. ASSUME NEW n \in Range(chan'[ch].recvQ), n \notin Range(chan[ch].recvQ)
      PROVE  /\ ~chan[ch].closed /\ ~Buffered(ch)
             /\ \A s \in WaitingTo(chan[ch].sendQ) : s.co = c
  <2>1. ~chan[ch].closed /\ ~RecvReady(c, ch) BY <1>3 DEF Grown
  <2> QED BY <2>1, EmptyFacts
<1> QED BY <1>1, <1>2, <1>3

(* A plain send or receive that parks.                                     *)
LEMMA ParkOnKept ==
  ASSUME MatchInv, PlaneInv', NEW c \in Coroutines, Step(c), Effect(c), ParkSend(c) \/ ParkRecv(c)
  PROVE  Kept(c)
<1>0. /\ LocalInv /\ Types /\ ChanTypes /\ Local(c) /\ pc \in [Coroutines -> Places]
  BY DEF MatchInv, PlaneInv, LocalInv, Types
<1>1. /\ pc[c] \in {"call", "checked"} /\ ParkOn(c) /\ UNCHANGED <<calls, req, out, wakes>>
      /\ req[c].op \in SendOps \union RecvOps
  BY DEF ParkSend, ParkRecv, Receiving, RecvRequests, Serving, At, callVars, SendOps, RecvOps
<1>2. Ch(c) \in Channels BY <1>0, <1>1, PlainChannel
<1> PICK ch \in Channels : ch = Ch(c) BY <1>2
<1>3. BeginWait(c) BY <1>1 DEF ParkOn
<1>4. NewNode(c, 1) \in Nodes BY <1>0, <1>1, <1>3, BeginFacts
<1> PICK x \in Nodes : x = NewNode(c, 1) BY <1>4
<1>5. WakesMove(c) BY <1>0, <1>1, ListsMove
<1>6. /\ chan[ch] \in ChannelType(Capacity[ch]) /\ DOMAIN chan = Channels
      /\ chan[ch].sendQ \in Seq(Nodes) /\ chan[ch].recvQ \in Seq(Nodes)
  BY <1>0, QueueTypes DEF ChanTypes, RingOK
<1>7. CASE ParkSend(c)
  <2>1. ~chan[ch].closed /\ ~SendReady(c, ch) BY <1>7 DEF ParkSend, SendFull
  <2> PICK s : s = Append(chan[ch].sendQ, x) OBVIOUS
  <2> PICK q : q = [chan[ch] EXCEPT !.sendQ = s] OBVIOUS
  <2>2. chan' = [chan EXCEPT ![ch] = q] BY <1>7 DEF ParkSend
  <2>3. RingLike(q, chan[ch]) /\ q.sendQ = s /\ q.recvQ = chan[ch].recvQ
    BY <1>6 DEF ChannelType, RingLike
  <2>4. \A n \in Range(s) : n \in Range(chan[ch].sendQ) \/ n = x BY <1>6, AppendFacts
  <2>5. chan'[ch] = q /\ \A y \in Channels \ {ch} : chan'[y] = chan[y] BY <1>6, <2>2
  <2>6. Grown(c)
    <3> SUFFICES ASSUME NEW y \in Channels
                 PROVE  /\ RingLike(chan'[y], chan[y])
                        /\ \A n \in Range(chan'[y].sendQ) :
                             n \in Range(chan[y].sendQ) \/ (~chan[y].closed /\ ~SendReady(c, y))
                        /\ \A n \in Range(chan'[y].recvQ) :
                             n \in Range(chan[y].recvQ) \/ (~chan[y].closed /\ ~RecvReady(c, y))
      BY DEF Grown
    <3>1. CASE y = ch BY <2>1, <2>3, <2>5, <3>1
    <3>2. CASE y # ch
      <4>1. chan'[y] = chan[y] BY <2>5, <3>2
      <4> QED BY <4>1 DEF RingLike
    <3> QED BY <3>1, <3>2
  <2>7. Calm(c) BY <1>0, <2>6, GrownCalm
  <2>8. Goto(c, "park") BY <1>7 DEF ParkSend
  <2>9. pc'[c] = "park" BY <1>0, <2>8, GotoHere
  <2> QED BY <1>1, <1>3, <1>5, <2>7, <2>9, StartsQuiet
<1>8. CASE ParkRecv(c)
  <2>1. ~chan[ch].closed /\ ~RecvReady(c, ch) BY <1>8 DEF ParkRecv, RecvEmpty
  <2> PICK s : s = Append(chan[ch].recvQ, x) OBVIOUS
  <2> PICK q : q = [chan[ch] EXCEPT !.recvQ = s] OBVIOUS
  <2>2. chan' = [chan EXCEPT ![ch] = q] BY <1>8 DEF ParkRecv
  <2>3. RingLike(q, chan[ch]) /\ q.recvQ = s /\ q.sendQ = chan[ch].sendQ
    BY <1>6 DEF ChannelType, RingLike
  <2>4. \A n \in Range(s) : n \in Range(chan[ch].recvQ) \/ n = x BY <1>6, AppendFacts
  <2>5. chan'[ch] = q /\ \A y \in Channels \ {ch} : chan'[y] = chan[y] BY <1>6, <2>2
  <2>6. Grown(c)
    <3> SUFFICES ASSUME NEW y \in Channels
                 PROVE  /\ RingLike(chan'[y], chan[y])
                        /\ \A n \in Range(chan'[y].sendQ) :
                             n \in Range(chan[y].sendQ) \/ (~chan[y].closed /\ ~SendReady(c, y))
                        /\ \A n \in Range(chan'[y].recvQ) :
                             n \in Range(chan[y].recvQ) \/ (~chan[y].closed /\ ~RecvReady(c, y))
      BY DEF Grown
    <3>1. CASE y = ch BY <2>1, <2>3, <2>5, <3>1
    <3>2. CASE y # ch
      <4>1. chan'[y] = chan[y] BY <2>5, <3>2
      <4> QED BY <4>1 DEF RingLike
    <3> QED BY <3>1, <3>2
  <2>7. Calm(c) BY <1>0, <2>6, GrownCalm
  <2>8. Goto(c, "register_cancel") \/ Goto(c, "park") BY <1>8 DEF ParkRecv
  <2>9. pc'[c] \in {"park", "register_cancel"} BY <1>0, <2>8, GotoHere
  <2> QED BY <1>1, <1>3, <1>5, <2>7, <2>9, StartsQuiet
<1> QED BY <1>7, <1>8

(* select, scan path: a case found ready is tried again.                   *)
LEMMA RetryKept ==
  ASSUME MatchInv, PlaneInv', NEW c \in Coroutines, Step(c), Effect(c), Retry(c)
  PROVE  Kept(c)
<1>0. /\ LocalInv /\ Types /\ ChanTypes /\ Local(c) BY DEF MatchInv, PlaneInv, LocalInv
<1>1. pc[c] = "retry" /\ UNCHANGED <<calls, req, wgen, armed>>
  BY DEF Retry, At, selectRest, callVars, roundVars
<1>2. PICK i \in scan[c].ready :
        \/ CommitCase(c, i, chan)
        \/ UNCHANGED <<claimVars, out, wakes, chan, pc>>
  BY DEF Retry
<1>3. CASE CommitCase(c, i, chan)
  <2>1. i \in Cases(c) BY <1>0, <1>1 DEF Local, ScanFits
  <2>2. SameRings(chan) BY <1>0, SameRingsChan
  <2> QED BY <1>1, <1>3, <2>1, <2>2, CommitCaseKept
<1>4. CASE UNCHANGED <<claimVars, out, wakes, chan, pc>>
  <2>1. UNCHANGED <<delivered, winner, out, wakes, chan, pc>> BY <1>4 DEF claimVars
  <2>2. Calm(c) /\ WakesMove(c) BY <1>0, <2>1, SameCalm, ListsMove
  <2>3. Advances(c) BY <1>1, <2>1 DEF Advances, Answered, Undecided, Trying
  <2> QED BY <1>1, <2>1, <2>2, <2>3, KeepsQuiet
<1> QED BY <1>2, <1>3, <1>4

(* select queues the cases of one source, or commits one of them.          *)
LEMMA RegisterKept ==
  ASSUME MatchInv, PlaneInv', NEW c \in Coroutines, Step(c), Effect(c), Register(c)
  PROVE  Kept(c)
<1>0. /\ LocalInv /\ Types /\ ChanTypes /\ Local(c) /\ pc \in [Coroutines -> Places]
  BY DEF MatchInv, PlaneInv, LocalInv, Types
<1>1. /\ pc[c] = "register" /\ req[c].op = "select" /\ winner[c] = Unset
      /\ UNCHANGED <<calls, req, wgen, armed>>
  BY DEF Register, At, IsSelect, callVars, roundVars
<1>2. PICK s \in scan[c].todo :
        \/ /\ \A i \in CasesOn(c, s) : ~CaseCommits(c, i)
           /\ chan' = QueueCases(c, s, CasesOn(c, s))
           /\ waitQ' = QueueWaits(c, s, CasesOn(c, s))
           /\ pc' = [pc EXCEPT ![c] = IF scan[c].todo = {s} THEN "arm" ELSE "register"]
           /\ UNCHANGED <<delivered, winner, out, wakes>>
        \/ \E i \in CasesOn(c, s) :
             CommitCase(c, i, QueueCases(c, s, {j \in CasesOn(c, s) : j < i}))
  BY DEF Register, Goto, claimVars
<1>3. CASE \E i \in CasesOn(c, s) :
             CommitCase(c, i, QueueCases(c, s, {j \in CasesOn(c, s) : j < i}))
  <2>1. PICK i \in CasesOn(c, s) :
          CommitCase(c, i, QueueCases(c, s, {j \in CasesOn(c, s) : j < i}))
    BY <1>3
  <2> PICK chan0 : chan0 = QueueCases(c, s, {j \in CasesOn(c, s) : j < i}) OBVIOUS
  <2>2. SameRings(chan0) BY <1>0, QueueCasesRings
  <2>3. i \in Cases(c) BY DEF CasesOn
  <2>4. CommitCase(c, i, chan0) BY <2>1
  <2> QED BY <1>1, <2>2, <2>3, <2>4, CommitCaseKept
<1>4. CASE /\ \A i \in CasesOn(c, s) : ~CaseCommits(c, i)
           /\ chan' = QueueCases(c, s, CasesOn(c, s))
           /\ waitQ' = QueueWaits(c, s, CasesOn(c, s))
           /\ pc' = [pc EXCEPT ![c] = IF scan[c].todo = {s} THEN "arm" ELSE "register"]
           /\ UNCHANGED <<delivered, winner, out, wakes>>
  <2> PICK S : S = CasesOn(c, s) OBVIOUS
  <2> PICK A : A = {Node(c, i) : i \in S} OBVIOUS
  <2> PICK chan0 : chan0 = QueueCases(c, s, S) OBVIOUS
  <2>1. Enqueued(chan0, A) BY <1>0, <1>1, <1>4, RegisterEnqueues
  <2>2. chan' = chan0 /\ SameRings(chan0) BY <1>0, <1>4, QueueCasesRings
  <2>3. \A k \in Keys : QueueIn(chan0, waitQ', k) = Queue(k)' BY <2>2 DEF QueueIn, Queue
  <2>4. ASSUME NEW k \in Keys, NEW n \in Range(Queue(k)')
        PROVE  n \in Range(Queue(k)) \/ (n \in A /\ KeyOf(n)' = k)
    BY <2>1, <2>3 DEF Enqueued
  <2>5. ASSUME NEW n \in A, NEW dir \in {"send", "recv"}, NEW ch \in Channels, KeyOf(n)' = <<dir, ch>>
        PROVE  /\ ~chan[ch].closed
               /\ dir = "send" => ~SendReady(c, ch)
               /\ dir = "recv" => ~RecvReady(c, ch)
    <3>1. PICK i \in CasesOn(c, s) : n = Node(c, i) OBVIOUS
    <3>2. n.co = c /\ n.case = i /\ i \in Cases(c) BY <3>1 DEF Node, CasesOn
    <3>3. KeyOf(n) = <<dir, ch>> BY <1>1, <2>5 DEF KeyOf
    <3>4. req[c].cases # <<>> BY <3>2, <3>3 DEF Cases
    <3>5. Case(c, i).dir = dir /\ Case(c, i).src = ch BY <3>2, <3>3, <3>4 DEF KeyOf, Case
    <3>6. ~CaseCommits(c, i) BY <1>4
    <3> QED BY <3>5, <3>6 DEF CaseCommits
  <2>6. Grown(c)
    <3> SUFFICES ASSUME NEW y \in Channels
                 PROVE  /\ RingLike(chan'[y], chan[y])
                        /\ \A n \in Range(chan'[y].sendQ) :
                             n \in Range(chan[y].sendQ) \/ (~chan[y].closed /\ ~SendReady(c, y))
                        /\ \A n \in Range(chan'[y].recvQ) :
                             n \in Range(chan[y].recvQ) \/ (~chan[y].closed /\ ~RecvReady(c, y))
      BY DEF Grown
    <3>1. RingLike(chan'[y], chan[y]) BY <2>2 DEF SameRings, RingLike
    <3> PICK sk : sk = <<"send", y>> OBVIOUS
    <3> PICK rk : rk = <<"recv", y>> OBVIOUS
    <3>2. /\ sk \in Keys /\ Queue(sk) = chan[y].sendQ /\ Queue(sk)' = chan'[y].sendQ
          /\ rk \in Keys /\ Queue(rk) = chan[y].recvQ /\ Queue(rk)' = chan'[y].recvQ
      BY QueueNames
    <3>3. ASSUME NEW n \in Range(chan'[y].sendQ), n \notin Range(chan[y].sendQ)
          PROVE  ~chan[y].closed /\ ~SendReady(c, y)
      <4>1. n \in A /\ KeyOf(n)' = sk BY <2>4, <3>2, <3>3
      <4> QED BY <2>5, <4>1
    <3>4. ASSUME NEW n \in Range(chan'[y].recvQ), n \notin Range(chan[y].recvQ)
          PROVE  ~chan[y].closed /\ ~RecvReady(c, y)
      <4>1. n \in A /\ KeyOf(n)' = rk BY <2>4, <3>2, <3>4
      <4> QED BY <2>5, <4>1
    <3> QED BY <3>1, <3>3, <3>4
  <2>7. Calm(c) /\ WakesMove(c) BY <1>0, <1>4, <2>6, GrownCalm, ListsMove
  <2>8. pc'[c] \in {"arm", "register"} BY <1>0, <1>4
  <2>9. Advances(c) BY <1>1, <2>8 DEF Advances, Answered, Undecided, Trying
  <2> QED BY <1>1, <1>4, <2>7, <2>8, <2>9, KeepsQuiet
<1> QED BY <1>2, <1>3, <1>4

-----------------------------------------------------------------------------
(* Claims that touch no channel: joiners and cancelled waits.              *)
QuietKinds == {"Join", "Cancelled"}

(* A claimed joiner or cancelled waiter had nothing committed before.      *)
LEMMA ClaimEases ==
  ASSUME MatchInv, NEW e \in Coroutines, NEW n \in Range(armed[e]), NodePending(n),
         req'[e] = req[e], wgen'[e] = wgen[e], out'[e] = out[e],
         NEW kind \in QuietKinds, NodeClaimed(n, Result(kind))
  PROVE  Eases(e)
<1>1. LocalInv /\ AllResultsFit BY DEF MatchInv, PlaneInv
<1>2. PICK r : r = Result(kind) OBVIOUS
<1>3. r \in WaitResults /\ r.kind \notin ChannelKinds
  BY <1>2, ResultTypes DEF QuietKinds, WaitKinds, Result, ChannelKinds
<1>4. NodeClaimed(n, r) BY <1>2
<1>5. CommittedResult(e) = Abstract!Pending /\ ResultBecomes(e, r, "none")
  BY <1>1, <1>3, <1>4, ClaimShown
<1>6. CommittedResult(e)' = Abstract!Outcome(kind, Abstract!Nowhere)
  <2>1. Shown(Result(kind), "none") = Abstract!Outcome(kind, Abstract!Nowhere)
    BY ShownFacts DEF QuietKinds
  <2> QED BY <1>2, <1>5, <2>1 DEF ResultBecomes
<1> QED BY <1>5, <1>6 DEF Eases, AsideKinds, QuietKinds

(* The records of K claim pending nodes for a result of that kind.         *)
QuietClaims(K, kind) ==
  /\ Claim(K)
  /\ \A k \in K : \E n : NodePending(n) /\ n.co = k.co /\ n.case = k.case /\ k.res = Result(kind)

(* So do all the claims of such a lock region ...                          *)
LEMMA QuietClaimed ==
  ASSUME MatchInv, NEW K, NEW kind \in QuietKinds, QuietClaims(K, kind), NEW e \in Coroutines,
         req'[e] = req[e], wgen'[e] = wgen[e], out'[e] = out[e], \E k \in K : k.co = e
  PROVE  Eases(e) /\ delivered'[e] = [gen |-> wgen[e], res |-> Result(kind)]
<1>0. Claim(K) BY DEF QuietClaims
<1>1. PICK k \in K : /\ k.co = e
                     /\ delivered'[e] = [gen |-> wgen[e], res |-> k.res]
                     /\ winner'[e] = IF IsSelect(e) THEN CaseWinner(k.case) ELSE winner[e]
  BY <1>0, ClaimFacts
<1>2. PICK n : NodePending(n) /\ n.co = k.co /\ n.case = k.case /\ k.res = Result(kind)
  BY DEF QuietClaims
<1>3. n \in Range(armed[e]) BY <1>1, <1>2 DEF NodePending, Live
<1>4. NodeClaimed(n, Result(kind)) BY <1>1, <1>2 DEF NodeClaimed
<1> QED BY <1>1, <1>2, <1>3, <1>4, ClaimEases

(* ... and nobody else's result changes.                                   *)
LEMMA PeersEase ==
  ASSUME MatchInv, PlaneInv', NEW c \in Coroutines, Step(c), Effect(c), WakesMove(c),
         NEW K, NEW kind \in QuietKinds, QuietClaims(K, kind), NEW e \in Coroutines \ {c}
  PROVE  Eases(e)
<1>1. CASE \A k \in K : k.co # e
  <2>0. Claim(K) BY DEF QuietClaims
  <2>1. delivered'[e] = delivered[e] BY <1>1, <2>0, ClaimFacts
  <2>2. CommittedResult(e)' = CommittedResult(e) BY <2>1, OthersStay
  <2> QED BY <2>2 DEF Eases
<1>2. CASE \E k \in K : k.co = e
  <2>1. req'[e] = req[e] /\ wgen'[e] = wgen[e] /\ out'[e] = out[e]
    BY DEF Step, Bystander, Steady
  <2> QED BY <1>2, <2>1, QuietClaimed
<1> QED BY <1>1, <1>2

(* register_cancel: the second look at the token.                          *)
LEMMA RegisterCancelKept ==
  ASSUME MatchInv, PlaneInv', NEW c \in Coroutines, Step(c), Effect(c), RegisterCancel(c)
  PROVE  Kept(c)
<1>0. /\ LocalInv /\ Types /\ Local(c) /\ ResultFits(c) /\ pc \in [Coroutines -> Places]
  BY DEF MatchInv, PlaneInv, LocalInv, Types, AllResultsFit
<1>1. /\ pc[c] = "register_cancel" /\ pc' = [pc EXCEPT ![c] = "park"]
      /\ UNCHANGED <<calls, req, wgen, armed, wakes, chan, out>>
  BY DEF RegisterCancel, At, Goto, callVars, roundVars
<1>2. pc'[c] = "park" /\ armed[c] # <<>> BY <1>0, <1>1 DEF Local, ArmedFits
<1> PICK h : h = Head(armed[c]) OBVIOUS
<1>3. h \in Range(armed[c]) /\ h.co = c BY <1>0, <1>2, RoundHead
<1>4. Calm(c) /\ WakesMove(c) BY <1>0, <1>1, SameCalm, ListsMove
<1>5. ~Answered(c) /\ ~Answered(c)' /\ pc[c] \notin Undecided /\ pc'[c] \notin Undecided
  BY <1>1, <1>2 DEF Answered, Undecided, Trying
<1>6. CASE NodePending(h) /\ Claim({PeerClaim(h, Result("Cancelled"))})
  <2>1. PICK K : K = {PeerClaim(h, Result("Cancelled"))} OBVIOUS
  <2>2. /\ \A k \in K : k.co = h.co /\ k.case = h.case /\ k.res = Result("Cancelled")
        /\ \E k \in K : k.co = c
    BY <1>3, <2>1 DEF PeerClaim
  <2>3. QuietClaims(K, "Cancelled") BY <1>6, <2>1, <2>2 DEF QuietClaims
  <2>4. "Cancelled" \in QuietKinds BY DEF QuietKinds
  <2>5. Eases(c) /\ delivered'[c] = [gen |-> wgen[c], res |-> Result("Cancelled")]
    BY <1>1, <2>2, <2>3, <2>4, QuietClaimed
  <2>6. \A e \in Coroutines \ {c} : Eases(e) BY <1>4, <2>3, <2>4, PeersEase
  <2>7. delivered'[c].res # NoResult BY <2>5 DEF Result, NoResult
  <2>8. ResultFits(c)' BY <1>0, <1>1, <1>5, <2>7 DEF ResultFits
  <2>9. Tidy(c) BY <1>1, <1>2, <1>4, <2>8 DEF Tidy, MatchInv, NothingLarge
  <2>10. \A e \in Coroutines : Eases(e) BY <2>5, <2>6
  <2> QED BY <1>1, <1>4, <2>9, <2>10, QuietKept
<1>7. CASE UNCHANGED <<delivered, winner>>
  <2>1. Advances(c) BY <1>5 DEF Advances
  <2> QED BY <1>1, <1>2, <1>4, <1>7, <2>1, KeepsQuiet
<1>8. \/ NodePending(h) /\ Claim({PeerClaim(h, Result("Cancelled"))})
      \/ UNCHANGED <<delivered, winner>>
  BY DEF RegisterCancel, CancelClaim, claimVars
<1> QED BY <1>6, <1>7, <1>8

(* The handler claims rounds of others only, and its own call goes on.     *)
LEMMA ClaimsKept ==
  ASSUME MatchInv, PlaneInv', NEW c \in Coroutines, Step(c), Effect(c), WakesMove(c),
         NEW K, NEW kind \in QuietKinds, QuietClaims(K, kind), \A k \in K : k.co # c,
         UNCHANGED <<calls, req, wgen, out, chan>>, Advances(c), pc'[c] # "join"
  PROVE  Kept(c)
<1>1. delivered'[c] = delivered[c] /\ winner'[c] = winner[c] BY ClaimFacts DEF QuietClaims
<1>2. ResultFits(c)' /\ Eases(c) BY <1>1, KeepsOwn DEF Advances
<1>3. \A e \in Coroutines : Eases(e) BY <1>2, PeersEase
<1>4. Tidy(c) BY <1>2 DEF Tidy, MatchInv, NothingLarge
<1>5. Calm(c) BY SameCalm
<1> QED BY <1>3, <1>4, <1>5, QuietKept

(* cancel_wait_node claims one wait.                                       *)
LEMMA CancelNodeKept ==
  ASSUME MatchInv, PlaneInv', NEW c \in Coroutines, Step(c), Effect(c), CancelNode(c)
  PROVE  Kept(c)
<1>0. /\ LocalInv /\ Types /\ Local(c) /\ pc \in [Coroutines -> Places]
  BY DEF MatchInv, PlaneInv, LocalInv, Types
<1> PICK h : h = Head(wakes[c]) OBVIOUS
<1>1. PICK K : K = {PeerClaim(h, Result("Cancelled"))} OBVIOUS
<1>2. /\ pc[c] = "cancel" /\ NodePending(h) /\ Claim(K)
      /\ pc' = [pc EXCEPT ![c] = "cancel_wake"]
      /\ UNCHANGED <<calls, req, wgen, wakes, chan, out>>
  BY <1>1 DEF CancelNode, CancelClaim, At, Goto, callVars, roundVars
<1>3. pc'[c] = "cancel_wake" /\ armed[c] = <<>> BY <1>0, <1>2 DEF Local, ArmedFits
<1>4. h.co # c BY <1>2, <1>3 DEF NodePending, Live, Range
<1>5. \A k \in K : k.co = h.co /\ k.case = h.case /\ k.res = Result("Cancelled")
  BY <1>1 DEF PeerClaim
<1>6. QuietClaims(K, "Cancelled") BY <1>2, <1>5 DEF QuietClaims
<1>7. \A k \in K : k.co # c BY <1>4, <1>5
<1>8. WakesMove(c) BY <1>0, <1>2, ListsMove
<1>9. Advances(c) BY <1>2, <1>3 DEF Advances, Answered, Undecided
<1>10. "Cancelled" \in QuietKinds BY DEF QuietKinds
<1> QED BY <1>2, <1>3, <1>6, <1>7, <1>8, <1>9, <1>10, ClaimsKept

(* A finished child claims its joiners.                                    *)
LEMMA WakeJoinKept ==
  ASSUME MatchInv, PlaneInv', NEW c \in Coroutines, Step(c), Effect(c), WakeJoin(c)
  PROVE  Kept(c)
<1> DEFINE a == Pending(waitQ[c], c)
           w == {i \in DOMAIN a : \A j \in 1 .. i - 1 : a[j].co # a[i].co}
<1>1. PICK all : all = a OBVIOUS
<1>2. PICK won : won = w OBVIOUS
<1>3. PICK K : K = {PeerClaim(all[i], Result("Join")) : i \in won} OBVIOUS
<1>4. PICK R : R = {all[i] : i \in won} OBVIOUS
<1>5. /\ LocalInv /\ Types /\ Local(c) /\ pc \in [Coroutines -> Places]
      /\ wakes \in [Coroutines -> Seq(Nodes)] /\ waitQ[c] \in Seq(Nodes)
  BY DEF MatchInv, PlaneInv, LocalInv, Types
<1>6. /\ pc[c] = "wake_join" /\ Claim(K) /\ wakes' = [wakes EXCEPT ![c] = Keep(all, R)]
      /\ pc' = [pc EXCEPT ![c] = IF all = <<>> THEN "done" ELSE "wake"]
      /\ UNCHANGED <<calls, req, wgen, chan, out>>
  BY <1>1, <1>2, <1>3, <1>4 DEF WakeJoin, At, Goto, callVars, roundVars
<1>7. pc'[c] \in {"done", "wake"} BY <1>5, <1>6
<1>8. /\ all \in Seq(Nodes)
      /\ \A n : n \in Range(all) <=> n \in Range(waitQ[c]) /\ NodePending(n) /\ n.co # c
  BY <1>5, <1>1, PendingFacts
<1>9. won \subseteq DOMAIN all BY <1>1, <1>2
<1> HIDE DEF a, w
<1>10. \A i \in won : NodePending(all[i]) /\ all[i].co # c BY <1>8, <1>9 DEF Range
<1>11. \A k \in K : \E i \in won : k.co = all[i].co /\ k.case = all[i].case /\ k.res = Result("Join")
  BY <1>3 DEF PeerClaim
<1>12. QuietClaims(K, "Join") BY <1>6, <1>10, <1>11 DEF QuietClaims
<1>13. \A k \in K : k.co # c BY <1>10, <1>11
<1>14. WakesMove(c)
  <2>1. wakes'[c] = Keep(all, R) BY <1>5, <1>6
  <2>2. \A n \in Range(wakes'[c]) : n \in Range(all) BY <1>8, <2>1, KeepFacts
  <2>3. <<"wait", c>> \in Keys /\ Queue(<<"wait", c>>) = waitQ[c] BY QueueNames
  <2> QED BY <1>8, <2>2, <2>3 DEF WakesMove
<1>15. Advances(c)
  <2>1. ~IsSelect(c)' BY <1>5, <1>6 DEF Local, OpFits, IsSelect
  <2> QED BY <1>6, <1>7, <2>1 DEF Advances, Answered, Undecided
<1>16. "Join" \in QuietKinds BY DEF QuietKinds
<1>17. pc'[c] # "join" BY <1>7
<1> QED BY <1>6, <1>12, <1>13, <1>14, <1>15, <1>16, <1>17, ClaimsKept

-----------------------------------------------------------------------------
(* close, and the requests that do not wait.                               *)
LEMMA CloseAsks ==
  ASSUME LocalInv, NEW c \in Coroutines, pc[c] = "call", req[c].op = "close"
  PROVE  Ch(c) \in Channels /\ Asks(c, 0, "close", Ch(c))
<1>1. Types /\ ChanTypes /\ Local(c) BY DEF LocalInv
<1>2. Ch(c) \in Channels /\ ~IsSelect(c) BY <1>1, PlainChannel DEF IsSelect
<1>3. PICK r \in Requests : r = req[c] BY <1>1 DEF Local, OpFits
<1>4. DOMAIN r.cases = {1} BY <1>3, RequestFacts
<1>5. r.cases[1].dir = "close"
  <2>1. r \in OnOne({"close"}, "close", Channels)
    BY <1>3 DEF Requests, OnOne, Bare
  <2> QED BY <2>1 DEF OnOne
<1> QED BY <1>2, <1>3, <1>4, <1>5 DEF Asks, Ch

(* A plain request that returns at once and commits nothing on a channel.  *)
LEMMA ReturnsAlone ==
  ASSUME LocalInv, NEW c \in Coroutines, NEW res, res # NoResult, Return(c, res),
         UNCHANGED <<calls, req, wgen, armed, delivered, winner, wakes>>
  PROVE  Alone(c, 0, res)
<1>1. out \in [Coroutines -> CallResults] /\ pc \in [Coroutines -> Places] BY DEF LocalInv, Types
<1>2. out'[c] = res /\ pc'[c] = "idle" BY <1>1 DEF Return, Goto
<1> QED BY <1>2 DEF Alone, Gets

(* Such a return, when the channel offers nothing, is Refuse.              *)
LEMMA RefusedKept ==
  ASSUME MatchInv, PlaneInv', NEW c \in Coroutines, Step(c), Effect(c), NEW ch \in Channels,
         NEW dir, NEW res, res # NoResult, Asks(c, 0, dir, ch), Return(c, res),
         UNCHANGED <<calls, req, wgen, armed, delivered, winner, wakes, chan>>,
         \/ dir = "send" /\ Len(Contents(ch)) = Capacity[ch] /\ res = Result("Full")
         \/ dir = "recv" /\ Contents(ch) = <<>> /\ res = Result("Empty")
         \/ dir = "close" /\ chan[ch].closed /\ res = Result("Error")
  PROVE  Kept(c)
<1>0. LocalInv /\ ChanTypes BY DEF MatchInv, PlaneInv, LocalInv
<1>1. Alone(c, 0, res) BY <1>0, ReturnsAlone
<1>2. /\ Open(c, dir, ch) /\ ResultBecomes(c, res, ch)
      /\ ResultsStay({c}) /\ CallsStay /\ Settled(c) /\ Tidy(c)
  BY <1>1, LoneSettles
<1>3. SameRings(chan) BY <1>0, SameRingsChan
<1>4. RingShape' /\ BufsStay /\ ClosedStay /\ AllMatched' BY <1>2, <1>3, StillKept
<1>5. \/ /\ Open(c, "send", ch) /\ Len(Contents(ch)) = Capacity[ch]
         /\ ResultBecomes(c, Result("Full"), ch)
      \/ Open(c, "recv", ch) /\ Contents(ch) = <<>> /\ ResultBecomes(c, Result("Empty"), ch)
      \/ Open(c, "close", ch) /\ chan[ch].closed /\ ResultBecomes(c, Result("Error"), ch)
  BY <1>2
<1>6. Abstract!Next BY <1>2, <1>4, <1>5, AbstractRefuse
<1> QED BY <1>2, <1>4, <1>6 DEF Kept

(* try_send on a full channel and try_recv on an empty one.                *)
LEMMA TryKept ==
  ASSUME MatchInv, PlaneInv', NEW c \in Coroutines, Step(c), Effect(c),
         TrySendFull(c) \/ TryRecvEmpty(c)
  PROVE  Kept(c)
<1>0. LocalInv /\ ChanTypes /\ RingShape BY DEF MatchInv, PlaneInv, LocalInv
<1>1. /\ pc[c] \in {"call", "checked"}
      /\ UNCHANGED <<calls, req, wgen, armed, delivered, winner, wakes, chan>>
      /\ TrySendFull(c) => req[c].op \in SendOps
      /\ TryRecvEmpty(c) => req[c].op \in RecvOps
  BY DEF TrySendFull, TryRecvEmpty, Serving, At, SendOps, RecvOps, restOfSend, callVars, roundVars,
     claimVars
<1>2. /\ Ch(c) \in Channels
      /\ TrySendFull(c) => Asks(c, 0, "send", Ch(c))
      /\ TryRecvEmpty(c) => Asks(c, 0, "recv", Ch(c))
  BY <1>0, <1>1, PlainAsks
<1>3. PICK ch \in Channels : ch = Ch(c) BY <1>2
<1>4. /\ Buffered(ch) <=> chan[ch].len > 0
      /\ SlotAvailable(ch) <=> chan[ch].len < Capacity[ch]
      /\ chan[ch].len \in 0 .. Capacity[ch] /\ Capacity[ch] \in Nat
      /\ Len(Contents(ch)) = chan[ch].len /\ (Contents(ch) = <<>> <=> chan[ch].len = 0)
  BY <1>0, ShapeFacts, ContentsFacts
<1>5. CASE TrySendFull(c)
  <2>1. PICK res : res = Result("Full") OBVIOUS
  <2>2. Return(c, res) /\ ~chan[ch].closed /\ ~SendReady(c, ch)
    BY <1>3, <1>5, <2>1 DEF TrySendFull, SendFull
  <2>3. res # NoResult BY <2>1 DEF Result, NoResult
  <2>4. ~SlotAvailable(ch) BY <2>2 DEF SendReady
  <2>5. Len(Contents(ch)) = Capacity[ch] BY <1>4, <2>4
  <2>6. PICK dir : dir = "send" OBVIOUS
  <2>7. Asks(c, 0, dir, ch) BY <1>2, <1>3, <1>5, <2>6
  <2> QED BY <1>1, <2>1, <2>2, <2>3, <2>5, <2>6, <2>7, RefusedKept
<1>6. CASE TryRecvEmpty(c)
  <2>1. PICK res : res = Result("Empty") OBVIOUS
  <2>2. Return(c, res) /\ ~chan[ch].closed /\ ~RecvReady(c, ch)
    BY <1>3, <1>6, <2>1 DEF TryRecvEmpty, RecvEmpty
  <2>3. res # NoResult BY <2>1 DEF Result, NoResult
  <2>4. ~Buffered(ch) BY <2>2 DEF RecvReady
  <2>5. Contents(ch) = <<>> BY <1>4, <2>4
  <2>6. PICK dir : dir = "recv" OBVIOUS
  <2>7. Asks(c, 0, dir, ch) BY <1>2, <1>3, <1>6, <2>6
  <2> QED BY <1>1, <2>1, <2>2, <2>3, <2>5, <2>6, <2>7, RefusedKept
<1> QED BY <1>5, <1>6

(* close on a closed channel.                                              *)
LEMMA CloseAgainKept ==
  ASSUME MatchInv, PlaneInv', NEW c \in Coroutines, Step(c), Effect(c), Close(c), chan[Ch(c)].closed
  PROVE  Kept(c)
<1>0. LocalInv BY DEF MatchInv, PlaneInv
<1>1. /\ pc[c] = "call" /\ req[c].op = "close"
      /\ UNCHANGED <<calls, req, wgen, armed, delivered, winner, wakes, chan>>
  BY DEF Close, Serving, At, restOfSend, callVars, roundVars, claimVars
<1>2. Ch(c) \in Channels /\ Asks(c, 0, "close", Ch(c)) BY <1>0, <1>1, CloseAsks
<1>3. PICK ch \in Channels : ch = Ch(c) BY <1>2
<1>4. PICK res : res = Result("Error") OBVIOUS
<1>5. Return(c, res) /\ res # NoResult BY <1>4 DEF Close, Result, NoResult
<1>6. PICK dir : dir = "close" OBVIOUS
<1>7. Asks(c, 0, dir, ch) /\ chan[ch].closed BY <1>2, <1>3, <1>6
<1> QED BY <1>1, <1>4, <1>5, <1>6, <1>7, RefusedKept

-----------------------------------------------------------------------------
(* A channel that is closed keeps what its ring holds.                     *)
LEMMA ClosingShape ==
  ASSUME ChanTypes, ChanTypes', RingShape,
         \A x \in Channels : /\ chan'[x].len = chan[x].len /\ chan'[x].head = chan[x].head
                             /\ chan'[x].tail = chan[x].tail /\ chan'[x].ring = chan[x].ring
  PROVE  RingShape' /\ BufsStay
<1>1. ASSUME NEW x \in Channels
      PROVE  Shaped(chan'[x], Capacity[x]) /\ Contents(x)' = Contents(x)
  <2>1. Shaped(chan[x], Capacity[x]) BY DEF RingShape
  <2>2. Contents(x) = Held(chan[x], Capacity[x]) BY HeldContents
  <2>3. Contents(x)' = Held(chan'[x], Capacity[x]) BY HeldAfter
  <2>4. PICK q : q = chan[x] OBVIOUS
  <2>5. PICK q2 : q2 = chan'[x] OBVIOUS
  <2>6. q2.len = q.len /\ q2.head = q.head /\ q2.tail = q.tail /\ q2.ring = q.ring BY <2>4, <2>5
  <2>7. \A j : Spot(q2, Capacity[x], j) = Spot(q, Capacity[x], j) BY <2>6 DEF Spot
  <2>8. Shaped(q2, Capacity[x]) BY <2>1, <2>4, <2>6, <2>7 DEF Shaped
  <2>9. Held(q2, Capacity[x]) = Held(q, Capacity[x]) BY <2>6, <2>7 DEF Held
  <2> QED BY <2>2, <2>3, <2>4, <2>5, <2>8, <2>9
<1> QED BY <1>1 DEF RingShape, BufsStay

(* Who is in no record keeps its round.                                    *)
LEMMA NotClaimed ==
  ASSUME NEW K, Claim(K), NEW c \in Coroutines, \A k \in K : k.co # c
  PROVE  delivered'[c] = delivered[c] /\ winner'[c] = winner[c]
  BY ClaimFacts

(* The nodes that close claims, with what each is told.                    *)
Told(K, q, kind) ==
  \A k \in K : \E n \in Range(q) :
    NodePending(n) /\ n.co = k.co /\ n.case = k.case /\ k.res = Result(kind)

(* K splits into the records of the senders and of the receivers.          *)
Ends(c, ch, K) ==
  /\ Claim(K)
  /\ \A k \in K : k.co # c
  /\ \E S, R : K = S \union R /\ Told(S, chan[ch].sendQ, "SendClosed")
                              /\ Told(R, chan[ch].recvQ, "RecvClosed")

(* A node that close claims shows the end on its case's channel.           *)
LEMMA EndedShown ==
  ASSUME MatchInv, NEW ch \in Channels, NEW dir \in {"send", "recv"}, NEW kind \in WaitKinds,
         NEW e \in Coroutines, req'[e] = req[e], wgen'[e] = wgen[e], out'[e] = out[e],
         NEW n \in Range(Queue(<<dir, ch>>)), NodePending(n), n.co = e,
         NodeClaimed(n, Result(kind))
  PROVE  Open(e, dir, ch) /\ ResultBecomes(e, Result(kind), ch)
<1>0. PlaneInv /\ LocalInv /\ AllResultsFit BY DEF MatchInv, PlaneInv
<1>1. PICK r \in WaitResults : r = Result(kind) BY ResultTypes
<1>2. PICK k \in Keys : k = <<dir, ch>> BY QueueNames
<1>3. n \in Range(Queue(k)) BY <1>2
<1>4. n \in Range(armed[e]) /\ KeyOf(n) = k BY <1>0, <1>3, QueuedNode
<1>5. NodeClaimed(n, r) BY <1>1
<1>6. KeyOf(n) = <<dir, ch>> BY <1>2, <1>4
<1>7. Open(e, dir, ch) /\ ResultBecomes(e, r, ch)
  BY <1>0, <1>1, <1>4, <1>5, <1>6, ClaimShown
<1> QED BY <1>1, <1>7

(* Everyone else after a close: ended by it, or as before.                 *)
LEMMA EndsShown ==
  ASSUME MatchInv, PlaneInv', NEW c \in Coroutines, Step(c), Effect(c), WakesMove(c),
         NEW ch \in Channels, NEW K, Ends(c, ch, K), NEW e \in Coroutines \ {c}
  PROVE  \/ CommittedResult(e)' = CommittedResult(e)
         \/ Open(e, "send", ch) /\ ResultBecomes(e, Result("SendClosed"), ch)
         \/ Open(e, "recv", ch) /\ Contents(ch) = <<>> /\ ResultBecomes(e, Result("RecvClosed"), ch)
<1>0. Claim(K) /\ LocalInv /\ ChanTypes /\ RingShape /\ Matched(ch)
  BY DEF Ends, MatchInv, PlaneInv, LocalInv, AllMatched
<1>1. req'[e] = req[e] /\ wgen'[e] = wgen[e] /\ out'[e] = out[e]
  BY DEF Step, Bystander, Steady
<1>2. CASE \A k \in K : k.co # e
  <2>1. delivered'[e] = delivered[e] BY <1>0, <1>2, ClaimFacts
  <2> QED BY <2>1, OthersStay
<1>3. CASE \E k \in K : k.co = e
  <2>1. PICK k \in K : /\ k.co = e
                       /\ delivered'[e] = [gen |-> wgen[e], res |-> k.res]
                       /\ winner'[e] = IF IsSelect(e) THEN CaseWinner(k.case) ELSE winner[e]
    BY <1>0, <1>3, ClaimFacts
  <2>2. PICK S, R : /\ K = S \union R /\ Told(S, chan[ch].sendQ, "SendClosed")
                    /\ Told(R, chan[ch].recvQ, "RecvClosed")
    BY DEF Ends
  <2>3. CASE k \in S
    <3>1. PICK n \in Range(chan[ch].sendQ) :
            NodePending(n) /\ n.co = k.co /\ n.case = k.case /\ k.res = Result("SendClosed")
      BY <2>2, <2>3 DEF Told
    <3>2. n \in Range(Queue(<<"send", ch>>)) BY <3>1, QueueNames
    <3>3. NodeClaimed(n, Result("SendClosed")) BY <2>1, <3>1 DEF NodeClaimed
    <3>4. "SendClosed" \in WaitKinds /\ "send" \in {"send", "recv"} BY DEF WaitKinds
    <3>5. Open(e, "send", ch) /\ ResultBecomes(e, Result("SendClosed"), ch)
      BY <1>1, <2>1, <3>1, <3>2, <3>3, <3>4, EndedShown
    <3> QED BY <3>5
  <2>4. CASE k \in R
    <3>1. PICK n \in Range(chan[ch].recvQ) :
            NodePending(n) /\ n.co = k.co /\ n.case = k.case /\ k.res = Result("RecvClosed")
      BY <2>2, <2>4 DEF Told
    <3>2. n \in Range(Queue(<<"recv", ch>>)) BY <3>1, QueueNames
    <3>3. NodeClaimed(n, Result("RecvClosed")) BY <2>1, <3>1 DEF NodeClaimed
    <3>4. "RecvClosed" \in WaitKinds /\ "recv" \in {"send", "recv"} BY DEF WaitKinds
    <3>5. Open(e, "recv", ch) /\ ResultBecomes(e, Result("RecvClosed"), ch)
      BY <1>1, <2>1, <3>1, <3>2, <3>3, <3>4, EndedShown
    <3>6. ~Buffered(ch) BY <1>0, <3>1 DEF Matched, WaitingTo
    <3>7. ~(chan[ch].len > 0) /\ chan[ch].len \in 0 .. Capacity[ch] BY <1>0, <3>6, ShapeFacts
    <3>8. chan[ch].len = 0 BY <3>7, WaitAssumption
    <3>9. Contents(ch) = <<>> BY <1>0, <3>8, ContentsFacts
    <3> QED BY <3>5, <3>9
  <2> QED BY <2>2, <2>3, <2>4
<1> QED BY <1>2, <1>3

(* close_locked: both queues drained, every waiter ended.                  *)
LEMMA CloseOpenKept ==
  ASSUME MatchInv, PlaneInv', NEW c \in Coroutines, Step(c), Effect(c), Close(c), ~chan[Ch(c)].closed
  PROVE  Kept(c)
<1> DEFINE s0 == Pending(chan[Ch(c)].sendQ, c)
           r0 == Pending(chan[Ch(c)].recvQ, c)
           a  == s0 \o r0
           w  == {i \in DOMAIN a : \A j \in 1 .. i - 1 : a[j].co # a[i].co}
<1>1. PICK sends : sends = s0 OBVIOUS
<1>2. PICK recvs : recvs = r0 OBVIOUS
<1>3. PICK all : all = a OBVIOUS
<1>4. PICK won : won = w OBVIOUS
<1>5. PICK K : K = {PeerClaim(all[i], Result(IF i <= Len(sends) THEN "SendClosed" ELSE "RecvClosed"))
                      : i \in won}
  OBVIOUS
<1>6. PICK R : R = {all[i] : i \in won} OBVIOUS
<1>7. PICK res : res = Result("Done") OBVIOUS
<1>8. PICK ch : ch = Ch(c) OBVIOUS
<1>9. /\ LocalInv /\ Types /\ ChanTypes /\ ChanTypes' /\ RingShape /\ Local(c)
      /\ pc \in [Coroutines -> Places]
      /\ wakes \in [Coroutines -> Seq(Nodes)] /\ out \in [Coroutines -> CallResults]
  BY DEF MatchInv, PlaneInv, LocalInv, Types
<1>10. /\ pc[c] = "call" /\ req[c].op = "close" /\ UNCHANGED <<calls, req, wgen, armed>>
  BY DEF Close, Serving, At, restOfSend, callVars, roundVars
<1>11. ch \in Channels /\ Asks(c, 0, "close", ch) BY <1>8, <1>9, <1>10, CloseAsks
<1>12. ~chan[ch].closed BY <1>8
<1>13. /\ chan' = [chan EXCEPT ![ch] =
                      [chan[ch] EXCEPT !.closed = TRUE, !.sendQ = <<>>, !.recvQ = <<>>]]
       /\ Claim(K) /\ SelfReturn(c, 0, res) /\ AfterCommit(c, 0, Keep(all, R))
  BY <1>1, <1>2, <1>3, <1>4, <1>5, <1>6, <1>7, <1>8, <1>12 DEF Close
<1>14. /\ chan'[ch].sendQ = <<>> /\ chan'[ch].recvQ = <<>> /\ chan'[ch].closed = TRUE
       /\ chan'[ch].len = chan[ch].len /\ chan'[ch].head = chan[ch].head
       /\ chan'[ch].tail = chan[ch].tail /\ chan'[ch].ring = chan[ch].ring
       /\ \A x \in Channels \ {ch} : chan'[x] = chan[x]
  <2>1. PICK q : q = [chan[ch] EXCEPT !.closed = TRUE, !.sendQ = <<>>, !.recvQ = <<>>] OBVIOUS
  <2>2. chan' = [chan EXCEPT ![ch] = q] BY <1>13, <2>1
  <2>3. chan[ch] \in ChannelType(Capacity[ch]) BY <1>9, <1>11 DEF ChanTypes, RingOK
  <2>4. /\ q.sendQ = <<>> /\ q.recvQ = <<>> /\ q.closed = TRUE /\ q.len = chan[ch].len
        /\ q.head = chan[ch].head /\ q.tail = chan[ch].tail /\ q.ring = chan[ch].ring
    BY <2>1, <2>3 DEF ChannelType
  <2> QED BY <1>9, <1>11, <2>2, <2>4 DEF ChanTypes
<1>15. /\ sends \in Seq(Nodes) /\ recvs \in Seq(Nodes)
       /\ \A n : n \in Range(sends) <=> n \in Range(chan[ch].sendQ) /\ NodePending(n) /\ n.co # c
       /\ \A n : n \in Range(recvs) <=> n \in Range(chan[ch].recvQ) /\ NodePending(n) /\ n.co # c
  <2>1. chan[ch].sendQ \in Seq(Nodes) /\ chan[ch].recvQ \in Seq(Nodes) BY <1>9, <1>11, QueueTypes
  <2>2. sends = Pending(chan[ch].sendQ, c) /\ recvs = Pending(chan[ch].recvQ, c)
    BY <1>1, <1>2, <1>8
  <2> QED BY <2>1, <2>2, PendingFacts
<1>16. all = sends \o recvs /\ won \subseteq DOMAIN all BY <1>1, <1>2, <1>3, <1>4
<1> HIDE DEF s0, r0, a, w
<1>17. all \in Seq(Nodes) /\ \A n : n \in Range(all) <=> n \in Range(sends) \/ n \in Range(recvs)
  BY <1>15, <1>16, Appended
<1>18. \A i \in won : /\ i <= Len(sends) => all[i] \in Range(sends)
                      /\ ~(i <= Len(sends)) => all[i] \in Range(recvs)
  <2>1. \A i \in DOMAIN all : i \in 1 .. Len(sends) + Len(recvs)
    BY <1>15, <1>16, ConcatProperties
  <2>2. Len(sends) \in Nat /\ Len(recvs) \in Nat /\ DOMAIN sends = 1 .. Len(sends)
        /\ DOMAIN recvs = 1 .. Len(recvs)
    BY <1>15, LenProperties
  <2>3. \A i \in DOMAIN all : all[i] = IF i <= Len(sends) THEN sends[i] ELSE recvs[i - Len(sends)]
    BY <1>15, <1>16, <2>1, ConcatProperties
  <2>4. \A i \in DOMAIN all : i <= Len(sends) => i \in DOMAIN sends BY <2>1, <2>2
  <2>5. \A i \in DOMAIN all : ~(i <= Len(sends)) => i - Len(sends) \in DOMAIN recvs BY <2>1, <2>2
  <2> QED BY <1>16, <2>3, <2>4, <2>5 DEF Range
<1>19. WakesMove(c)
  <2>1. wakes'[c] = Keep(all, R) BY <1>9, <1>13 DEF AfterCommit
  <2>2. \A n \in Range(wakes'[c]) : n \in Range(all) BY <1>17, <2>1, KeepFacts
  <2>3. \A n \in Range(wakes'[c]) : n \in Range(chan[ch].sendQ) \/ n \in Range(chan[ch].recvQ)
    BY <1>15, <1>17, <2>2
  <2>4. /\ <<"send", ch>> \in Keys /\ Queue(<<"send", ch>>) = chan[ch].sendQ
        /\ <<"recv", ch>> \in Keys /\ Queue(<<"recv", ch>>) = chan[ch].recvQ
    BY <1>11, QueueNames
  <2> QED BY <2>3, <2>4 DEF WakesMove
<1>20. Ends(c, ch, K)
  <2>1. PICK S : S = {k \in K : \E i \in won :
                          i <= Len(sends) /\ k = PeerClaim(all[i], Result("SendClosed"))}
    OBVIOUS
  <2>2. PICK T : T = {k \in K : \E i \in won :
                          ~(i <= Len(sends)) /\ k = PeerClaim(all[i], Result("RecvClosed"))}
    OBVIOUS
  <2>3. K = S \union T BY <1>5, <2>1, <2>2
  <2>4. Told(S, chan[ch].sendQ, "SendClosed") BY <1>15, <1>18, <2>1 DEF Told, PeerClaim
  <2>5. Told(T, chan[ch].recvQ, "RecvClosed") BY <1>15, <1>18, <2>2 DEF Told, PeerClaim
  <2>6. \A k \in K : k.co # c
    <3>1. \A k \in S : k.co # c BY <1>15, <1>18, <2>1 DEF PeerClaim
    <3>2. \A k \in T : k.co # c BY <1>15, <1>18, <2>2 DEF PeerClaim
    <3> QED BY <2>3, <3>1, <3>2
  <2> QED BY <1>13, <2>3, <2>4, <2>5, <2>6 DEF Ends
<1>21. Gets(c, 0, res) /\ pc'[c] # "join"
  <2>1. Claim(K) /\ \A k \in K : k.co # c BY <1>20 DEF Ends
  <2>2. delivered'[c] = delivered[c] /\ winner'[c] = winner[c] BY <2>1, NotClaimed
  <2>3. out'[c] = res BY <1>9, <1>13 DEF SelfReturn
  <2>4. PICK N : N = Keep(all, R) OBVIOUS
  <2>5. AfterCommit(c, 0, N) BY <1>13, <2>4
  <2>6. pc'[c] \in {"idle", "wake"} BY <1>9, <2>5 DEF AfterCommit
  <2> QED BY <1>10, <2>2, <2>3, <2>6 DEF Gets
<1>22. res # NoResult BY <1>7 DEF Result, NoResult
<1>23. Open(c, "close", ch) /\ ResultBecomes(c, res, ch) /\ ResultFits(c)' /\ Settled(c)
  BY <1>11, <1>21, <1>22, AskerResult
<1>24. Tidy(c) BY <1>10, <1>19, <1>21, <1>23 DEF Tidy, MatchInv, NothingLarge
<1>25. RingShape' /\ BufsStay BY <1>9, <1>14, ClosingShape
<1>26. Matched(ch)' BY <1>14 DEF Matched, WaitingTo, Range
<1>27. AllMatched'
  <2>1. \A x \in Channels \ {ch} : RingLike(chan'[x], chan[x]) BY <1>14 DEF RingLike
  <2> QED BY <1>11, <1>23, <1>25, <1>26, <2>1, OthersSettled
<1>28. \A d \in Coroutines \ {c} :
         \/ CommittedResult(d)' = CommittedResult(d)
         \/ Open(d, "send", ch) /\ ResultBecomes(d, Result("SendClosed"), ch)
         \/ Open(d, "recv", ch) /\ Contents(ch) = <<>> /\ ResultBecomes(d, Result("RecvClosed"), ch)
  BY <1>11, <1>19, <1>20, EndsShown
<1>29. CallsStay BY <1>10 DEF CallsStay
<1>30. chan'[ch].closed /\ chan'[ch].closed \in BOOLEAN
       /\ \A x \in Channels \ {ch} : chan'[x].closed = chan[x].closed
  BY <1>14
<1>31. ResultBecomes(c, Result("Done"), ch) BY <1>7, <1>23
<1>32. Abstract!Next
  BY <1>11, <1>12, <1>23, <1>25, <1>28, <1>29, <1>30, <1>31, AbstractClose
<1> QED BY <1>24, <1>25, <1>27, <1>32 DEF Kept

-----------------------------------------------------------------------------
(* A program that sends no payload over the inline size: a large send      *)
(* reserves its slot first, and the slot left behind is not matched        *)
(* (prepare_large_send, the finding of the run wait_large).                *)
NoLarge == \A c \in Coroutines : \A r \in Menu[c] : r.op # "send_large"

(* A new request.                                                          *)
LEMMA CallKept ==
  ASSUME MatchInv, PlaneInv', NEW c \in Coroutines, Step(c), Effect(c), Call(c), NoLarge
  PROVE  Kept(c)
<1>0. /\ LocalInv /\ Types /\ Local(c) /\ ResultFits(c) /\ pc \in [Coroutines -> Places]
      /\ calls \in [Coroutines -> 0 .. MaxCalls] /\ out \in [Coroutines -> CallResults]
      /\ DOMAIN req = Coroutines
  BY DEF MatchInv, PlaneInv, LocalInv, Types, AllResultsFit
<1>1. /\ pc[c] = "idle" /\ calls' = [calls EXCEPT ![c] = @ + 1]
      /\ pc' = [pc EXCEPT ![c] = "call"] /\ out' = [out EXCEPT ![c] = NoResult]
      /\ UNCHANGED <<wgen, delivered, winner, chan, wakes>>
  BY DEF Call, planeVars, roundVars, claimVars, Goto, At
<1>2. PICK r \in Menu[c] : req' = [req EXCEPT ![c] = r] BY DEF Call
<1>3. req'[c] = r /\ \A e \in Coroutines \ {c} : req'[e] = req[e] BY <1>0, <1>2
<1>4. req'[c].op # "send_large" BY <1>3 DEF NoLarge
<1>5. pc'[c] = "call" /\ out'[c] = NoResult BY <1>0, <1>1
<1>6. ~Completed(c)
  <2>1. Answered(c) BY <1>1 DEF Answered
  <2> QED BY <1>0, <2>1 DEF ResultFits
<1>7. ~Completed(c)' BY <1>1, <1>6 DEF Completed
<1>8. CommittedResult(c)' = Abstract!Pending BY <1>5, <1>7, NothingShownAfter
<1>9. WakesMove(c) BY <1>0, <1>1, ListsMove
<1>10. ResultFits(c)' BY <1>5, <1>7 DEF ResultFits, Answered, Undecided
<1>11. Tidy(c) BY <1>4, <1>5, <1>9, <1>10 DEF Tidy
<1>12. ResultsStay({c}) BY <1>1, <1>9, OthersStay DEF ResultsStay
<1>13. RingShape' /\ BufsStay /\ ClosedStay /\ AllMatched' BY <1>1, SameCalm, CalmStays
<1>14. Abstract!Next BY <1>1, <1>3, <1>8, <1>12, <1>13, AbstractBegin
<1> QED BY <1>11, <1>13, <1>14 DEF Kept

(* No large send is ever under way.                                        *)
LEMMA LargeNever ==
  ASSUME MatchInv, NEW c \in Coroutines, ReserveLarge(c) \/ FinishLarge(c)
  PROVE  FALSE
<1>1. Local(c) /\ req[c].op # "send_large" BY DEF MatchInv, PlaneInv, LocalInv, NothingLarge
<1>2. CASE ReserveLarge(c) BY <1>1, <1>2 DEF ReserveLarge, Serving
<1>3. CASE FinishLarge(c)
  <2>1. pc[c] = "reserved" BY <1>3 DEF FinishLarge, At
  <2> QED BY <1>1, <2>1 DEF Local, OpFits
<1> QED BY <1>2, <1>3

(* Every action keeps the channels matched and is a step of ChannelSpec.   *)
LEMMA ActionKept ==
  ASSUME MatchInv, PlaneInv', NoLarge, NEW c \in Coroutines, Step(c), Effect(c),
         Call(c) \/ Handler(c) \/ Resume(c)
  PROVE  Kept(c)
<1>1. CASE Call(c) BY <1>1, CallKept
<1>2. CASE ChannelStep(c)
  <2>1. CASE SendNow(c) \/ SendOnClosed(c) \/ RecvNow(c) \/ RecvOnClosed(c) BY <2>1, PlainKept
  <2>2. CASE TrySendFull(c) \/ TryRecvEmpty(c) BY <2>2, TryKept
  <2>3. CASE ParkSend(c) \/ ParkRecv(c) BY <2>3, ParkOnKept
  <2>4. CASE ReserveLarge(c) \/ FinishLarge(c) BY <2>4, LargeNever
  <2>5. CASE Close(c) /\ chan[Ch(c)].closed BY <2>5, CloseAgainKept
  <2>6. CASE Close(c) /\ ~chan[Ch(c)].closed BY <2>6, CloseOpenKept
  <2> QED BY <1>2, <2>1, <2>2, <2>3, <2>4, <2>5, <2>6 DEF ChannelStep
<1>3. CASE SelectStep(c)
  <2>1. CASE SelectBegin(c) BY <2>1, SelectBeginKept
  <2>2. CASE SelectInline(c) BY <2>2, InlineKept
  <2>3. CASE SelectInlineNone(c)
    <3>1. pc[c] \in {"try", "retry"} /\ NothingCommitted(c) BY <2>3 DEF SelectInlineNone, At
    <3> QED BY <3>1, NoneKept
  <2>4. CASE ScanNone(c)
    <3>1. pc[c] \in {"try", "retry"} /\ NothingCommitted(c) BY <2>4 DEF ScanNone, At
    <3> QED BY <3>1, NoneKept
  <2>5. CASE ScanBegin(c) \/ Probe(c) \/ RegisterWon(c) \/ ArmEnter(c) \/ ArmFinish(c)
    BY <2>5, PlaceKept
  <2>6. CASE Retry(c) BY <2>6, RetryKept
  <2>7. CASE Register(c) BY <2>7, RegisterKept
  <2>8. CASE SelectDone(c) BY <2>8, TakesKept
  <2> QED BY <1>3, <2>1, <2>2, <2>3, <2>4, <2>5, <2>6, <2>7, <2>8 DEF SelectStep
<1>4. CASE ParkStep(c)
  <2>1. CASE ParkUndone(c) BY <2>1, TakesKept
  <2>2. CASE ParkEnter(c) \/ ParkSleep(c) BY <2>2, PlaceKept
  <2>3. CASE ParkRecheck(c) BY <2>3, RecheckKept
  <2> QED BY <1>4, <2>1, <2>2, <2>3 DEF ParkStep
<1>5. CASE JoinStep(c)
  <2>1. CASE JoinStart(c) BY <2>1, JoinStartKept
  <2>2. CASE JoinPark(c) \/ Finish(c) BY <2>2, PlaceKept
  <2>3. CASE JoinLate(c) BY <2>3, JoinLateKept
  <2>4. CASE WakeJoin(c) BY <2>4, WakeJoinKept
  <2> QED BY <1>5, <2>1, <2>2, <2>3, <2>4 DEF JoinStep
<1>6. CASE CancelStep(c)
  <2>1. CASE CheckToken(c) BY <2>1, TokenKept
  <2>2. CASE RegisterCancel(c) BY <2>2, RegisterCancelKept
  <2>3. CASE CancelStart(c) BY <2>3, CancelStartKept
  <2>4. CASE CancelNode(c) BY <2>4, CancelNodeKept
  <2>5. CASE CancelSkip(c) \/ CancelWake(c) BY <2>5, CancelNextKept
  <2> QED BY <1>6, <2>1, <2>2, <2>3, <2>4, <2>5 DEF CancelStep
<1>7. CASE Wake(c) BY <1>7, WakeKept
<1>8. CASE Resume(c) BY <1>8, TakesKept
<1> QED BY <1>1, <1>2, <1>3, <1>4, <1>5, <1>6, <1>7, <1>8 DEF Handler

-----------------------------------------------------------------------------
(* Every channel starts empty, every call unanswered.                      *)
LEMMA InitMatch == Init => MatchInv
<1> SUFFICES ASSUME Init PROVE MatchInv OBVIOUS
<1>1. PlaneInv BY InitPlane
<1>2. \A e \in Coroutines : /\ pc[e] = "idle" /\ wgen[e] = 0 /\ wakes[e] = <<>>
                            /\ req[e] = NoRequest /\ delivered[e] = [gen |-> 0, res |-> NoResult]
  BY DEF Init
<1>3. \A ch \in Channels : chan[ch] = NewChannel(ch) BY DEF Init
<1>4. NothingLarge BY <1>2 DEF NothingLarge, NoRequest
<1>5. AllResultsFit BY <1>2 DEF AllResultsFit, ResultFits, Answered, Completed
<1>6. WakesPast BY <1>2 DEF WakesPast, Range
<1>7. AllMatched
  <2> SUFFICES ASSUME NEW ch \in Channels PROVE Matched(ch) BY DEF AllMatched
  <2>1. NewChannel(ch).sendQ = <<>> /\ NewChannel(ch).recvQ = <<>> BY DEF NewChannel
  <2>2. chan[ch].sendQ = <<>> /\ chan[ch].recvQ = <<>> BY <1>3, <2>1
  <2> QED BY <2>2 DEF Matched, WaitingTo, Range
<1>8. RingShape
  <2> SUFFICES ASSUME NEW ch \in Channels PROVE Shaped(chan[ch], Capacity[ch]) BY DEF RingShape
  <2>1. PICK q : q = NewChannel(ch) OBVIOUS
  <2>2. PICK cap \in Nat : cap = Capacity[ch] BY WaitAssumption
  <2>3. /\ q.head = 0 /\ q.tail = 0 /\ q.len = 0
        /\ q.ring = [i \in 0 .. cap - 1 |-> EmptySlot]
    BY <2>1, <2>2 DEF NewChannel
  <2>4. \A j \in 0 .. cap - 1 : Spot(q, cap, j) \in 0 .. cap - 1 BY <2>2, <2>3 DEF Spot
  <2>5. cap > 0 => q.tail = Spot(q, cap, q.len) BY <2>2, <2>3 DEF Spot
  <2>6. \A j \in 0 .. cap - 1 : q.ring[Spot(q, cap, j)].state = "Empty" /\ ~(j < q.len)
    BY <2>3, <2>4 DEF EmptySlot, Slot
  <2> QED BY <1>3, <2>1, <2>2, <2>5, <2>6 DEF Shaped
<1> QED BY <1>1, <1>4, <1>5, <1>6, <1>7, <1>8 DEF MatchInv

(* Stuttering keeps the invariant.                                         *)
LEMMA StutterMatch == MatchInv /\ PlaneInv' /\ UNCHANGED vars => MatchInv'
<1> SUFFICES ASSUME MatchInv, PlaneInv', UNCHANGED vars PROVE MatchInv' OBVIOUS
<1>1. /\ UNCHANGED <<life, calls, req, pc, out, wgen, delivered, armed, winner, scan, wakes, chan>>
  BY DEF vars
<1>2. NothingLarge' BY <1>1 DEF MatchInv, NothingLarge
<1>3. RingShape' BY <1>1 DEF MatchInv, RingShape, Shaped, Spot
<1>4. AllResultsFit'
  BY <1>1 DEF MatchInv, AllResultsFit, ResultFits, Answered, Completed, IsSelect
<1>5. WakesPast' BY <1>1 DEF MatchInv, WakesPast
<1>6. AllMatched'
  <2>1. \A n : NodePending(n)' <=> NodePending(n) BY <1>1 DEF NodePending, Live, CanClaim, IsSelect
  <2> QED BY <1>1, <2>1 DEF MatchInv, AllMatched, Matched, WaitingTo, Buffered, SlotAvailable
<1> QED BY <1>2, <1>3, <1>4, <1>5, <1>6 DEF MatchInv

(* One step: the invariant is kept and the abstract channels step.         *)
LEMMA NextMatch ==
  ASSUME NoLarge, MatchInv, [Next]_vars
  PROVE  MatchInv' /\ (Next => Abstract!Next)
<1>0. PlaneInv /\ PlaneInv' /\ LocalInv
  <2>1. PlaneInv BY DEF MatchInv
  <2> QED BY <2>1, NextPlane DEF PlaneInv
<1>1. CASE Next
  <2>1. PICK c \in Coroutines : Call(c) \/ Handler(c) \/ Resume(c) BY <1>1 DEF Next
  <2>2. Step(c) BY <1>0, <2>1, ActionStep
  <2>3. Effect(c) BY <1>0, <2>1, <2>2, ActionEffect
  <2>4. Kept(c) BY <1>0, <2>1, <2>2, <2>3, ActionKept
  <2>5. MatchInv' BY <1>0, <2>2, <2>3, <2>4, KeptInv
  <2> QED BY <2>4, <2>5 DEF Kept
<1>2. CASE UNCHANGED vars /\ ~Next BY <1>0, <1>2, StutterMatch
<1> QED BY <1>1, <1>2

(* The first state is the abstract first state.                            *)
LEMMA InitAbstract == Init => Abstract!Init
<1> SUFFICES ASSUME Init PROVE Abstract!Init OBVIOUS
<1>1. \A e \in Coroutines : /\ wgen[e] = 0 /\ req[e] = NoRequest /\ out[e] = NoResult
                            /\ delivered[e] = [gen |-> 0, res |-> NoResult]
  BY DEF Init
<1>2. \A ch \in Channels : chan[ch] = NewChannel(ch) BY DEF Init
<1>3. \A ch \in Channels : Contents(ch) = <<>> /\ chan[ch].closed = FALSE
  <2> TAKE ch \in Channels
  <2>1. ChanTypes BY InitPlane DEF PlaneInv, LocalInv
  <2>2. NewChannel(ch).len = 0 /\ NewChannel(ch).closed = FALSE BY DEF NewChannel
  <2>3. chan[ch].len = 0 BY <1>2, <2>2
  <2>4. chan[ch].closed = FALSE BY <1>2, <2>2
  <2>5. Contents(ch) = <<>> BY <2>1, <2>3, ContentsFacts
  <2> QED BY <2>4, <2>5
<1>4. \A e \in Coroutines : OfferedCases(e) = {} BY <1>1 DEF OfferedCases, NoRequest
<1>5. \A e \in Coroutines : CommittedResult(e) = Abstract!Pending
  <2> TAKE e \in Coroutines
  <2>1. ~Completed(e) BY <1>1 DEF Completed
  <2> QED BY <1>1, <2>1, NothingShown
<1>6. calls = [e \in Coroutines |-> 0] BY DEF Init
<1> QED BY <1>3, <1>4, <1>5, <1>6 DEF Abstract!Init

(* Stuttering is abstract stuttering.                                      *)
LEMMA StutterAbstract == UNCHANGED vars => UNCHANGED Abstract!vars
<1> SUFFICES ASSUME UNCHANGED vars PROVE UNCHANGED Abstract!vars OBVIOUS
<1>1. UNCHANGED <<calls, req, out, wgen, delivered, winner, chan>> BY DEF vars
<1>2. \A ch \in Channels : Contents(ch)' = Contents(ch) BY <1>1 DEF Contents
<1>3. \A e \in Coroutines : OfferedCases(e)' = OfferedCases(e) BY <1>1 DEF OfferedCases
<1>4. \A e \in Coroutines : CommittedResult(e)' = CommittedResult(e) BY <1>1, ResultSame
<1> QED BY <1>1, <1>2, <1>3, <1>4 DEF Abstract!vars

(* The inductive invariant holds in every reachable state: rings are in    *)
(* shape (commit_slot, take_slot), a call's result stands where its        *)
(* handler is (publish_result, take_wait_result), channels are matched.     *)
THEOREM MatchSafe == NoLarge => (Spec => []MatchInv)
<1> SUFFICES ASSUME NoLarge PROVE Spec => []MatchInv OBVIOUS
<1>1. MatchInv /\ [Next]_vars => MatchInv' BY NextMatch
<1> QED BY <1>1, InitMatch, PTL DEF Spec

(* Between lock regions no committable pair is left behind: no waiting     *)
(* receiver beside a message or a closed channel, no waiting sender beside *)
(* a free slot or a closed channel, no sender beside a receiver of another *)
(* coroutine (try_send_locked, try_recv_locked, close_locked, select.rs).  *)
THEOREM NoMissedMatchHolds == NoLarge => (Spec => []NoMissedMatch)
<1> SUFFICES ASSUME NoLarge PROVE Spec => []NoMissedMatch OBVIOUS
<1>1. MatchInv => NoMissedMatch BY DEF MatchInv, AllMatched, Matched, NoMissedMatch
<1>2. Spec => []MatchInv BY MatchSafe
<1> QED BY <1>1, <1>2, PTL

(* The wait plane implements the channels the language promises: every     *)
(* step of every handler is one step of ChannelSpec or none, so messages   *)
(* are delivered in order, once, and a select commits at most one case.    *)
THEOREM ImplementsChannelsHolds == NoLarge => (Spec => ImplementsChannels)
<1> SUFFICES ASSUME NoLarge PROVE Spec => ImplementsChannels OBVIOUS
<1>1. MatchInv /\ [Next]_vars => [Abstract!Next]_(Abstract!vars) BY NextMatch, StutterAbstract
<1>2. Spec => []MatchInv BY MatchSafe
<1> QED BY <1>1, <1>2, InitAbstract, PTL DEF Spec, ImplementsChannels, Abstract!Spec
=============================================================================
