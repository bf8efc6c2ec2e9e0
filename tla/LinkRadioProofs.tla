-------------------------- MODULE LinkRadioProofs --------------------------
(***************************************************************************)
(* The receive ring is safe for every depth and every number of packets:   *)
(* the two tasks never share a slot, and no datagram that is torn or left  *)
(* over from an earlier match reaches the session.  With the order of what *)
(* waits (OrderInv) the ring is shown to implement a bounded queue.        *)
(***************************************************************************)
EXTENDS LinkRadio, SequenceTheorems, TLAPS

(* Fresh packets: those of this match. *)
Fresh == {p \in Packet : p >= first}

(* The slots between head and tail, which hold what waits to be drained. *)
InRing(i) == IF head <= tail THEN head <= i /\ i < tail ELSE head <= i \/ i < tail

(* Each task works on the slot its own index points at; the producer only  *)
(* with a slot to spare, the consumer only with something to read.         *)
ProducerInv ==
  /\ producer.at # "idle" => /\ started
                             /\ producer.slot = tail
                             /\ producer.packet \in Fresh
  /\ producer.at \in {"writing", "written"} => NextSlot(tail) # head
  /\ producer.at = "written" => ring[tail] \in Fresh

ConsumerInv ==
  /\ consumer.at # "idle" => started /\ consumer.slot = head
  /\ consumer.at \in {"reading", "read"} => head # tail
  /\ consumer.at = "read" => consumer.packet \in Fresh

(* Whatever waits is whole and of this match; a radio that is down is empty.*)
RingInv == /\ \A i \in Slot : InRing(i) => ring[i] \in Fresh
           /\ ~started => head = tail
           /\ first <= sent + 1
           /\ received \subseteq Packet

Inv == TypeOK /\ ProducerInv /\ ConsumerInv /\ RingInv

(* A step round the ring stays on it and reaches every slot from one only. *)
LEMMA NextSlotIs ==
  ASSUME NEW i \in Slot
  PROVE  /\ NextSlot(i) \in Slot
         /\ NextSlot(i) = IF i = kQueueDepth - 1 THEN 0 ELSE i + 1
<1>1. kQueueDepth \in Nat /\ kQueueDepth >= 2 /\ i \in 0..(kQueueDepth - 1)
  BY DepthAssumption DEF Slot
<1>2. CASE i = kQueueDepth - 1
  <2>1. i + 1 = kQueueDepth
    BY <1>1, <1>2
  <2>2. kQueueDepth % kQueueDepth = 0
    BY <1>1
  <2> QED
    BY <1>1, <1>2, <2>1, <2>2 DEF NextSlot, Slot
<1>3. CASE i # kQueueDepth - 1
  <2>1. i + 1 \in 0..(kQueueDepth - 1)
    BY <1>1, <1>3
  <2>2. (i + 1) % kQueueDepth = i + 1
    BY <1>1, <2>1
  <2> QED
    BY <1>1, <1>3, <2>1, <2>2 DEF NextSlot, Slot
<1> QED
  BY <1>2, <1>3

LEMMA InitInv == Init => Inv
<1> SUFFICES ASSUME Init PROVE Inv
  OBVIOUS
<1> USE DepthAssumption, PacketAssumption
<1>1. 0 \in Slot
  BY DEF Slot
<1>2. TypeOK
  <2>1. ring \in [Slot -> Packet \cup {NoPacket, Torn}]
    BY DEF Init
  <2>2. producer \in [at : {"idle", "begun", "writing", "written"}, slot : Slot,
                      packet : Packet \cup {NoPacket}]
    BY <1>1 DEF Init, Idle
  <2>3. consumer \in [at : {"idle", "begun", "reading", "read"}, slot : Slot,
                      packet : Packet \cup {NoPacket, Torn}]
    BY <1>1 DEF Init, Idle
  <2>4. /\ head \in Slot /\ tail \in Slot
        /\ overflowed \in BOOLEAN /\ started \in BOOLEAN
    BY <1>1 DEF Init
  <2>5. /\ sent \in 0..MaxPackets /\ first \in 0..(MaxPackets + 1)
        /\ received \subseteq Packet \cup {NoPacket, Torn}
    BY DEF Init
  <2> QED
    BY <2>1, <2>2, <2>3, <2>4, <2>5 DEF TypeOK
<1>3. ProducerInv /\ ConsumerInv
  BY DEF Init, ProducerInv, ConsumerInv, Idle
<1>4. RingInv
  BY DEF Init, RingInv, InRing, Slot
<1> QED
  BY <1>2, <1>3, <1>4 DEF Inv

(* The callback's steps.                                                   *)
LEMMA EnqueueInv == Inv /\ Enqueue => Inv'
<1> SUFFICES ASSUME Inv, Enqueue PROVE Inv'
  OBVIOUS
<1> USE DepthAssumption, PacketAssumption
<1>0. Torn \notin Packet /\ NextSlot(tail) \in Slot
      /\ NextSlot(tail) = IF tail = kQueueDepth - 1 THEN 0 ELSE tail + 1
  BY NextSlotIs DEF Inv, TypeOK, Torn, Packet
<1>1. CASE LoadTail
  BY <1>1 DEF LoadTail, Inv, TypeOK, ProducerInv, ConsumerInv, RingInv, InRing, Fresh, Packet
<1>2. CASE Drop
  BY <1>2 DEF Drop, Inv, TypeOK, ProducerInv, ConsumerInv, RingInv, InRing, Fresh, Idle, Slot
<1>3. CASE WriteBegins
  BY <1>0, <1>3 DEF WriteBegins, IsFull, Inv, TypeOK, ProducerInv, ConsumerInv, RingInv, InRing, Fresh, Slot
<1>4. CASE WriteEnds
  BY <1>0, <1>4 DEF WriteEnds, Inv, TypeOK, ProducerInv, ConsumerInv, RingInv, InRing, Fresh, Slot
<1>5. CASE StoreTail
  BY <1>0, <1>5 DEF StoreTail, Inv, TypeOK, ProducerInv, ConsumerInv, RingInv, InRing, Fresh, Idle, Slot
<1> QED
  BY <1>1, <1>2, <1>3, <1>4, <1>5 DEF Enqueue

(* The drain's steps.                                                      *)
LEMMA ReceiveInv == Inv /\ Receive => Inv'
<1> SUFFICES ASSUME Inv, Receive PROVE Inv'
  OBVIOUS
<1> USE DepthAssumption, PacketAssumption
<1>0. /\ NextSlot(head) \in Slot
      /\ NextSlot(head) = IF head = kQueueDepth - 1 THEN 0 ELSE head + 1
      /\ NextSlot(tail) = IF tail = kQueueDepth - 1 THEN 0 ELSE tail + 1
  BY NextSlotIs DEF Inv, TypeOK
<1>1. CASE LoadHead
  BY <1>1 DEF LoadHead, Inv, TypeOK, ProducerInv, ConsumerInv, RingInv, InRing, Fresh
<1>2. CASE IsEmpty
  BY <1>2 DEF IsEmpty, Inv, TypeOK, ProducerInv, ConsumerInv, RingInv, InRing, Fresh, Idle, Slot
<1>3. CASE ReadBegins
  BY <1>3 DEF ReadBegins, Inv, TypeOK, ProducerInv, ConsumerInv, RingInv, InRing, Fresh
<1>4. CASE ReadEnds
  <2>1. InRing(head)
    BY <1>4 DEF ReadEnds, Inv, TypeOK, ConsumerInv, InRing, Slot
  <2>2. ring[head] \in Fresh
    BY <2>1 DEF Inv, RingInv, TypeOK
  <2> QED
    BY <1>4, <2>2 DEF ReadEnds, Inv, TypeOK, ProducerInv, ConsumerInv, RingInv, InRing, Fresh, Packet
<1>5. CASE StoreHead
  <2>1. TypeOK'
    BY <1>0, <1>5 DEF StoreHead, Inv, TypeOK, ConsumerInv, RingInv, Fresh, Idle, Slot
  <2>2. ProducerInv'
    BY <1>0, <1>5 DEF StoreHead, Inv, TypeOK, ProducerInv, ConsumerInv, Fresh, NextSlot, Slot
  <2>3. ConsumerInv' /\ RingInv'
    BY <1>0, <1>5 DEF StoreHead, Inv, TypeOK, ConsumerInv, RingInv, InRing, Fresh, Idle, Slot
  <2> QED
    BY <2>1, <2>2, <2>3 DEF Inv
<1> QED
  BY <1>1, <1>2, <1>3, <1>4, <1>5 DEF Receive

LEMMA NextInv == Inv /\ [Next]_vars => Inv'
<1> SUFFICES ASSUME Inv, [Next]_vars PROVE Inv'
  OBVIOUS
<1> USE DepthAssumption, PacketAssumption
<1>1. CASE Enqueue
  BY <1>1, EnqueueInv
<1>2. CASE Receive
  BY <1>2, ReceiveInv
<1>3. CASE End
  <2>1. \A i \in Slot : ~InRing(i)'
    BY <1>3 DEF End, Empty, InRing, Slot
  <2>2. TypeOK'
    <3>1. 0 \in Slot
      BY DEF Slot
    <3> QED
      BY <1>3, <3>1 DEF End, Empty, Inv, TypeOK
  <2>3. ProducerInv' /\ ConsumerInv'
    BY <1>3 DEF End, Empty, ProducerInv, ConsumerInv
  <2>4. RingInv'
    BY <1>3, <2>1 DEF End, Empty, Inv, RingInv
  <2> QED
    BY <2>2, <2>3, <2>4 DEF Inv
<1>4. CASE Begin
  <2>1. producer.at = "idle" /\ consumer.at = "idle" /\ head = tail
    BY <1>4 DEF Begin, Inv, TypeOK, ProducerInv, ConsumerInv, RingInv
  <2>2. \A i \in Slot : ~InRing(i)'
    BY <1>4, <2>1 DEF Begin, Inv, TypeOK, InRing, Slot
  <2>3. TypeOK'
    BY <1>4 DEF Begin, Inv, TypeOK
  <2>4. ProducerInv' /\ ConsumerInv'
    BY <1>4, <2>1 DEF Begin, ProducerInv, ConsumerInv
  <2>5. RingInv'
    BY <1>4, <2>2 DEF Begin, Inv, TypeOK, RingInv
  <2> QED
    BY <2>3, <2>4, <2>5 DEF Inv
<1>5. CASE UNCHANGED vars
  BY <1>5 DEF vars, Inv, TypeOK, ProducerInv, ConsumerInv, RingInv, InRing, Fresh, NextSlot
<1> QED
  BY <1>1, <1>2, <1>3, <1>4, <1>5 DEF Next

(* What the two tasks know of the ring is true of it, whatever they do.    *)
(* (Radio::enqueueFromCallback, Radio::receive)                            *)
THEOREM RingInvariant == Spec => []Inv
<1> QED
  BY InitInv, NextInv, PTL DEF Spec

(* The two tasks are never in the same slot, whatever the depth.           *)
THEOREM RingRaceFree == Spec => []SlotNotShared
<1>1. Inv => SlotNotShared
  BY DEF Inv, ProducerInv, ConsumerInv, SlotNotShared
<1> QED
  BY <1>1, RingInvariant, PTL

(* No half-copied datagram reaches the session.                            *)
THEOREM RingWhole == Spec => []NothingTorn
<1>1. Inv => NothingTorn
  BY PacketAssumption DEF Inv, RingInv, NothingTorn, Torn, Packet
<1> QED
  BY <1>1, RingInvariant, PTL

(* No datagram of an earlier match reaches the session.                    *)
THEOREM RingFresh == Spec => NothingStale
<1>1. Inv /\ [Next]_vars => [\A p \in received' \ received : p >= first]_vars
  BY DEF Inv, ConsumerInv, Fresh, Next, Enqueue, Receive, LoadTail, Drop, WriteBegins, WriteEnds,
         StoreTail, LoadHead, IsEmpty, ReadBegins, ReadEnds, StoreHead, End, Begin, vars
<1> QED
  BY <1>1, RingInvariant, PTL DEF Spec, NothingStale

-----------------------------------------------------------------------------
(* The ring is a bounded queue.  What waits, from the head on: *)

Place(i) == (head + i - 1) % kQueueDepth
Line == [i \in 1..Waiting |-> ring[Place(i)]]

(* Numbers on the air grow along the line: what the session has been given *)
(* is older than what waits, and that is older than what is being queued.  *)
OrderInv ==
  /\ \A i, j \in 1..Waiting : i < j => Line[i] < Line[j]
  /\ \A i \in 1..Waiting : Line[i] <= sent /\ \A p \in received : p < Line[i]
  /\ \A p \in received : p <= sent
  /\ producer.at # "idle" => /\ producer.packet = sent
                             /\ \A i \in 1..Waiting : Line[i] < sent
                             /\ \A p \in received : p < sent
  /\ producer.at = "written" => ring[tail] = sent
  /\ consumer.at = "read" => consumer.packet = ring[head]

(* Once round the ring at most: the remainder is a subtraction.            *)
LEMMA WrapIs ==
  ASSUME NEW a \in 0..(2 * kQueueDepth - 1)
  PROVE  a % kQueueDepth = IF a < kQueueDepth THEN a ELSE a - kQueueDepth
<1>1. kQueueDepth \in Nat /\ kQueueDepth >= 2 /\ a \in Nat
  BY DepthAssumption
<1>2. CASE a < kQueueDepth
  BY <1>1, <1>2
<1>3. CASE a >= kQueueDepth
  <2>1. PICK r \in 0..(kQueueDepth - 1) : a = r + kQueueDepth
    <3>1. a - kQueueDepth \in 0..(kQueueDepth - 1) /\ a = (a - kQueueDepth) + kQueueDepth
      BY <1>1, <1>3
    <3> QED
      BY <3>1
  <2>2. (r + kQueueDepth) % kQueueDepth = r
    BY <1>1, <2>1
  <2> QED
    BY <1>1, <1>3, <2>1, <2>2
<1> QED
  BY <1>1, <1>2, <1>3

(* How many wait between two indices, and in which slots.                  *)
LEMMA SpanIs ==
  ASSUME NEW h \in Slot, NEW t \in Slot
  PROVE  (t + kQueueDepth - h) % kQueueDepth
           = IF h <= t THEN t - h ELSE t + kQueueDepth - h
<1>1. t + kQueueDepth - h \in 0..(2 * kQueueDepth - 1)
  BY DepthAssumption DEF Slot
<1> QED
  BY <1>1, WrapIs, DepthAssumption DEF Slot

LEMMA PlaceIs ==
  ASSUME NEW h \in Slot, NEW i \in 1..kQueueDepth
  PROVE  (h + i - 1) % kQueueDepth
           = IF h + i - 1 < kQueueDepth THEN h + i - 1 ELSE h + i - 1 - kQueueDepth
<1>1. h + i - 1 \in 0..(2 * kQueueDepth - 1)
  BY DepthAssumption DEF Slot
<1> QED
  BY <1>1, WrapIs, DepthAssumption DEF Slot

(* The line is the part of the ring between head and tail, in order. *)
LEMMA LineIs ==
  ASSUME TypeOK
  PROVE  /\ Waiting \in 0..(kQueueDepth - 1)
         /\ Waiting = 0 <=> head = tail
         /\ Waiting = kQueueDepth - 1 <=> NextSlot(tail) = head
         /\ Waiting # 0 => Place(1) = head
         /\ Place(Waiting + 1) = tail
         /\ \A i \in 1..Waiting : /\ Place(i) \in Slot /\ Place(i) # tail
                                  /\ InRing(Place(i))
<1> USE DepthAssumption
<1>1. head \in Slot /\ tail \in Slot
  BY DEF TypeOK
<1>2. Waiting = IF head <= tail THEN tail - head ELSE tail + kQueueDepth - head
  BY <1>1, SpanIs DEF Waiting
<1>3. Waiting \in 0..(kQueueDepth - 1)
  BY <1>1, <1>2 DEF Slot
<1>4. \A i \in 1..kQueueDepth : Place(i) = IF head + i - 1 < kQueueDepth THEN head + i - 1
                                           ELSE head + i - 1 - kQueueDepth
  BY <1>1, PlaceIs DEF Place
<1>5. NextSlot(tail) = IF tail = kQueueDepth - 1 THEN 0 ELSE tail + 1
  BY <1>1, NextSlotIs
<1>6. Waiting = 0 <=> head = tail
  BY <1>1, <1>2 DEF Slot
<1>7. Waiting = kQueueDepth - 1 <=> NextSlot(tail) = head
  BY <1>1, <1>2, <1>5 DEF Slot
<1>8. Place(1) = head /\ Place(Waiting + 1) = tail
  <2>1. 1 \in 1..kQueueDepth /\ Waiting + 1 \in 1..kQueueDepth
    BY <1>3
  <2> QED
    BY <1>1, <1>2, <1>4, <2>1 DEF Slot
<1>9. ASSUME NEW i \in 1..Waiting
      PROVE  Place(i) \in Slot /\ Place(i) # tail /\ InRing(Place(i))
  <2>1. i \in 1..kQueueDepth
    BY <1>3
  <2> QED
    BY <1>1, <1>2, <1>4, <2>1 DEF Slot, InRing
<1> QED
  BY <1>3, <1>6, <1>7, <1>8, <1>9

LEMMA LineFresh ==
  ASSUME Inv
  PROVE  Line \in Seq(Fresh) /\ Len(Line) = Waiting /\ DOMAIN Line = 1..Waiting
<1>1. \A i \in 1..Waiting : ring[Place(i)] \in Fresh
  BY LineIs DEF Inv, RingInv
<1>2. Waiting \in Nat
  BY LineIs, DepthAssumption DEF Inv
<1> QED
  BY <1>1, <1>2 DEF Line

LEMMA EmptyLine == head' = 0 /\ tail' = 0 => Waiting' = 0 /\ Line' = <<>>
<1> SUFFICES ASSUME head' = 0, tail' = 0 PROVE Waiting' = 0 /\ Line' = <<>>
  OBVIOUS
<1>1. 0 \in Slot
  BY DepthAssumption DEF Slot
<1>2. Waiting' = 0
  BY <1>1, SpanIs DEF Waiting
<1> QED
  BY <1>2 DEF Line

(* A write behind the line leaves it as it is. *)
LEMMA SameLine ==
  ASSUME TypeOK, UNCHANGED <<head, tail>>, \A i \in Slot : i # tail => ring'[i] = ring[i]
  PROVE  Waiting' = Waiting /\ Line' = Line
<1>1. Waiting' = Waiting /\ \A i : Place(i)' = Place(i)
  BY DEF Waiting, Place
<1>2. \A i \in 1..Waiting : ring'[Place(i)] = ring[Place(i)]
  BY LineIs
<1> QED
  BY <1>1, <1>2 DEF Line

(* Storing the tail appends the packet in its slot; storing the head takes *)
(* the first off.                                                          *)
LEMMA LineGrows ==
  ASSUME Inv, head' = head, ring' = ring, tail' = NextSlot(tail), NextSlot(tail) # head
  PROVE  Waiting' = Waiting + 1 /\ Line' = Append(Line, ring[tail])
<1> USE DepthAssumption
<1>1. head \in Slot /\ tail \in Slot
  BY DEF Inv, TypeOK
<1>2. Waiting = IF head <= tail THEN tail - head ELSE tail + kQueueDepth - head
  BY <1>1, SpanIs DEF Waiting
<1>3. /\ NextSlot(tail) = IF tail = kQueueDepth - 1 THEN 0 ELSE tail + 1
      /\ NextSlot(tail) \in Slot
  BY <1>1, NextSlotIs
<1>4. Waiting' = IF head <= NextSlot(tail) THEN NextSlot(tail) - head
                 ELSE NextSlot(tail) + kQueueDepth - head
  BY <1>1, <1>3, SpanIs DEF Waiting
<1>5. Waiting' = Waiting + 1
  BY <1>1, <1>2, <1>3, <1>4 DEF Slot
<1>6. Place(Waiting + 1) = tail /\ \A i : Place(i)' = Place(i)
  BY LineIs DEF Inv, Place
<1>7. Waiting \in Nat /\ Len(Line) = Waiting
  BY LineIs, LineFresh DEF Inv
<1>8. Line' = [i \in 1..(Waiting + 1) |-> ring[Place(i)]]
  BY <1>5, <1>6 DEF Line
<1>9. Append(Line, ring[tail])
        = [i \in 1..(Waiting + 1) |-> IF i = Waiting + 1 THEN ring[tail] ELSE Line[i]]
  BY <1>7, LineFresh
<1>10. \A i \in 1..(Waiting + 1) : i # Waiting + 1 => i \in 1..Waiting
  BY <1>7
<1> QED
  BY <1>5, <1>6, <1>8, <1>9, <1>10 DEF Line

LEMMA LineShrinks ==
  ASSUME Inv, tail' = tail, ring' = ring, head' = NextSlot(head), head # tail
  PROVE  /\ Line # <<>> /\ Head(Line) = ring[head] /\ Line' = Tail(Line)
         /\ Waiting' = Waiting - 1 /\ \A i \in 1..Waiting' : Line'[i] = Line[i + 1]
<1> USE DepthAssumption
<1>1. head \in Slot /\ tail \in Slot
  BY DEF Inv, TypeOK
<1>2. Waiting = IF head <= tail THEN tail - head ELSE tail + kQueueDepth - head
  BY <1>1, SpanIs DEF Waiting
<1>3. /\ NextSlot(head) = IF head = kQueueDepth - 1 THEN 0 ELSE head + 1
      /\ NextSlot(head) \in Slot
  BY <1>1, NextSlotIs
<1>4. Waiting' = IF NextSlot(head) <= tail THEN tail - NextSlot(head)
                 ELSE tail + kQueueDepth - NextSlot(head)
  BY <1>1, <1>3, SpanIs DEF Waiting
<1>5. Waiting' = Waiting - 1 /\ Waiting \in 1..(kQueueDepth - 1)
  BY <1>1, <1>2, <1>3, <1>4 DEF Slot
<1>6. ASSUME NEW i \in 1..(Waiting - 1)
      PROVE  Place(i)' = Place(i + 1)
  <2>1. i \in 1..kQueueDepth /\ i + 1 \in 1..kQueueDepth
    BY <1>5
  <2>2. Place(i)' = IF NextSlot(head) + i - 1 < kQueueDepth THEN NextSlot(head) + i - 1
                    ELSE NextSlot(head) + i - 1 - kQueueDepth
    BY <1>3, <2>1, PlaceIs DEF Place
  <2>3. Place(i + 1) = IF head + i < kQueueDepth THEN head + i ELSE head + i - kQueueDepth
    <3>1. (head + (i + 1) - 1) % kQueueDepth
            = IF head + (i + 1) - 1 < kQueueDepth THEN head + (i + 1) - 1
              ELSE head + (i + 1) - 1 - kQueueDepth
      BY <1>1, <2>1, PlaceIs
    <3>2. head + (i + 1) - 1 = head + i
      BY <1>1, <2>1 DEF Slot
    <3> QED
      BY <3>1, <3>2 DEF Place
  <2> QED
    BY <1>1, <1>3, <1>5, <2>2, <2>3 DEF Slot
<1>7. Line' = [i \in 1..(Waiting - 1) |-> ring[Place(i + 1)]]
  BY <1>5, <1>6 DEF Line
<1>8. Line \in Seq(Fresh) /\ Len(Line) = Waiting
  BY LineFresh
<1>9. Line # <<>>
  BY <1>5, <1>8
<1>10. Head(Line) = ring[head]
  <2>1. 1 \in 1..Waiting /\ Place(1) = head
    BY <1>5, LineIs DEF Inv
  <2> QED
    BY <1>8, <1>9, <2>1 DEF Line
<1>11. Tail(Line) = [i \in 1..(Waiting - 1) |-> Line[i + 1]]
  <2>1. /\ Tail(Line) \in Seq(Fresh) /\ Len(Tail(Line)) = Waiting - 1
        /\ \A i \in 1..(Waiting - 1) : Tail(Line)[i] = Line[i + 1]
    BY <1>8, <1>9, HeadTailProperties
  <2>2. Waiting - 1 \in Nat /\ \A i \in 1..(Waiting - 1) : i + 1 \in 1..Len(Line)
    BY <1>5, <1>8
  <2>3. \A i \in 1..(Waiting - 1) : Line[i + 1] \in Fresh
    BY <1>8, <2>2
  <2> DEFINE Rest == [i \in 1..(Waiting - 1) |-> Line[i + 1]]
  <2>4. Rest \in Seq(Fresh) /\ Len(Rest) = Waiting - 1
    BY <2>2, <2>3
  <2> QED
    BY <2>1, <2>4, SeqEqual
<1>12. \A i \in 1..(Waiting - 1) : Line[i + 1] = ring[Place(i + 1)]
  <2>1. \A i \in 1..(Waiting - 1) : i + 1 \in 1..Waiting
    BY <1>5
  <2> QED
    BY <2>1 DEF Line
<1> QED
  BY <1>5, <1>7, <1>9, <1>10, <1>11, <1>12

LEMMA InitOrder == Init => OrderInv
<1> SUFFICES ASSUME Init PROVE OrderInv
  OBVIOUS
<1>1. Waiting = 0
  BY InitInv, LineIs DEF Inv, Init
<1> QED
  BY <1>1 DEF Init, OrderInv, Idle

LEMMA EnqueueOrder == Inv /\ OrderInv /\ Enqueue => OrderInv'
<1> SUFFICES ASSUME Inv, OrderInv, Enqueue PROVE OrderInv'
  OBVIOUS
<1> USE DepthAssumption, PacketAssumption
<1>0. /\ Waiting \in Nat /\ sent \in Nat /\ tail \in Slot
      /\ \A i \in 1..Waiting : Line[i] \in Nat
      /\ \A p \in received : p \in Nat
  <2>1. Waiting \in Nat /\ sent \in Nat /\ tail \in Slot /\ received \subseteq Packet
    BY LineIs DEF Inv, TypeOK, RingInv
  <2> QED
    BY <2>1, LineFresh DEF Fresh, Packet
<1>1. CASE LoadTail
  <2>1. Waiting' = Waiting /\ Line' = Line
    BY <1>1, SameLine DEF LoadTail, Inv
  <2> QED
    BY <1>0, <1>1, <2>1 DEF LoadTail, OrderInv
<1>2. CASE Drop
  <2>1. Waiting' = Waiting /\ Line' = Line
    BY <1>2, SameLine DEF Drop, Inv
  <2> QED
    BY <1>2, <2>1 DEF Drop, OrderInv, Idle
<1>3. CASE WriteBegins
  <2>1. producer.slot = tail /\ ring' = [ring EXCEPT ![tail] = Torn]
    BY <1>3 DEF WriteBegins, Inv, ProducerInv
  <2>2. Waiting' = Waiting /\ Line' = Line
    BY <1>3, <2>1, SameLine DEF WriteBegins, Inv, TypeOK
  <2>3. consumer.at = "read" => ring'[head] = ring[head]
    BY <2>1 DEF Inv, TypeOK, ConsumerInv
  <2> QED
    BY <1>3, <2>2, <2>3 DEF WriteBegins, OrderInv, Inv, TypeOK
<1>4. CASE WriteEnds
  <2>1. producer.slot = tail /\ ring' = [ring EXCEPT ![tail] = producer.packet]
    BY <1>4 DEF WriteEnds, Inv, ProducerInv
  <2>2. Waiting' = Waiting /\ Line' = Line
    BY <1>4, <2>1, SameLine DEF WriteEnds, Inv, TypeOK
  <2>3. consumer.at = "read" => ring'[head] = ring[head]
    BY <2>1 DEF Inv, TypeOK, ConsumerInv
  <2>4. ring'[tail] = producer.packet
    BY <1>0, <2>1 DEF Inv, TypeOK
  <2> QED
    BY <1>4, <2>2, <2>3, <2>4 DEF WriteEnds, OrderInv, Inv, TypeOK
<1>5. CASE StoreTail
  <2>1. /\ head' = head /\ ring' = ring /\ tail' = NextSlot(tail) /\ NextSlot(tail) # head
        /\ received' = received /\ sent' = sent /\ consumer' = consumer
        /\ producer'.at = "idle"
    BY <1>5 DEF StoreTail, Inv, ProducerInv, Idle
  <2>2. Waiting' = Waiting + 1 /\ Line' = Append(Line, ring[tail])
    BY <2>1, LineGrows
  <2>3. /\ ring[tail] = sent
        /\ \A i \in 1..Waiting : Line[i] < sent
        /\ \A p \in received : p < sent
    BY <1>5 DEF StoreTail, OrderInv
  <2>4. /\ \A i \in 1..Waiting : Line'[i] = Line[i]
        /\ Line'[Waiting + 1] = sent
    BY <1>0, <2>2, <2>3, LineFresh
  <2>5. \A i \in 1..(Waiting + 1) : i \in 1..Waiting \/ i = Waiting + 1
    BY <1>0
  <2>6. \A i, j \in 1..Waiting' : i < j => Line'[i] < Line'[j]
    BY <1>0, <2>2, <2>3, <2>4, <2>5 DEF OrderInv
  <2>7. \A i \in 1..Waiting' : Line'[i] <= sent' /\ \A p \in received' : p < Line'[i]
    <3> SUFFICES ASSUME NEW i \in 1..(Waiting + 1)
                 PROVE  Line'[i] <= sent /\ \A p \in received : p < Line'[i]
      BY <2>1, <2>2
    <3>1. CASE i \in 1..Waiting
      BY <2>4, <3>1 DEF OrderInv
    <3>2. CASE i = Waiting + 1
      BY <1>0, <2>3, <2>4, <3>2
    <3> QED
      BY <2>5, <3>1, <3>2
  <2> QED
    BY <2>1, <2>6, <2>7 DEF OrderInv
<1> QED
  BY <1>1, <1>2, <1>3, <1>4, <1>5 DEF Enqueue

LEMMA ReceiveOrder == Inv /\ OrderInv /\ Receive => OrderInv'
<1> SUFFICES ASSUME Inv, OrderInv, Receive PROVE OrderInv'
  OBVIOUS
<1>1. CASE LoadHead \/ IsEmpty \/ ReadBegins \/ ReadEnds
  <2>1. UNCHANGED <<ring, head, tail, producer, sent, received>>
    BY <1>1 DEF LoadHead, IsEmpty, ReadBegins, ReadEnds
  <2>2. Waiting' = Waiting /\ Line' = Line
    BY <2>1, SameLine DEF Inv
  <2>3. (consumer.at = "read" => consumer.packet = ring[head])'
    <3>1. CASE LoadHead \/ IsEmpty \/ ReadBegins
      <4>1. consumer'.at # "read"
        BY <3>1 DEF LoadHead, IsEmpty, ReadBegins, Inv, TypeOK, Idle
      <4> QED
        BY <4>1
    <3>2. CASE ReadEnds
      <4>1. consumer'.packet = ring[head]
        BY <3>2 DEF ReadEnds, Inv, TypeOK, ConsumerInv
      <4> QED
        BY <2>1, <4>1
    <3> QED
      BY <1>1, <3>1, <3>2
  <2> QED
    BY <2>1, <2>2, <2>3 DEF OrderInv
<1>2. CASE StoreHead
  <2>1. /\ tail' = tail /\ ring' = ring /\ head' = NextSlot(head) /\ head # tail
        /\ received' = received \cup {ring[head]}
        /\ UNCHANGED <<producer, sent>> /\ consumer'.at = "idle"
    BY <1>2 DEF StoreHead, Inv, ConsumerInv, OrderInv, Idle
  <2>2. /\ Waiting' = Waiting - 1 /\ \A i \in 1..Waiting' : Line'[i] = Line[i + 1]
        /\ Head(Line) = ring[head] /\ Line # <<>>
    BY <2>1, LineShrinks
  <2>3. Waiting \in Nat /\ Waiting # 0
    BY <2>1, LineIs, DepthAssumption DEF Inv
  <2>4. ring[head] = Line[1]
    BY <2>2, <2>3, LineFresh
  <2>5. 1 \in 1..Waiting /\ \A i \in 1..Waiting' : i + 1 \in 1..Waiting /\ 1 < i + 1
    BY <2>2, <2>3
  <2>6. \A i, j \in 1..Waiting' : i < j => i + 1 < j + 1
    BY <2>2, <2>3
  <2>7. \A i, j \in 1..Waiting' : i < j => Line'[i] < Line'[j]
    BY <2>2, <2>5, <2>6 DEF OrderInv
  <2>8. \A i \in 1..Waiting' : Line'[i] <= sent' /\ \A p \in received' : p < Line'[i]
    BY <2>1, <2>2, <2>4, <2>5 DEF OrderInv
  <2>9. \A p \in received' : p <= sent'
    BY <2>1, <2>4, <2>5 DEF OrderInv
  <2>10. (producer.at # "idle" => /\ producer.packet = sent
                                  /\ \A i \in 1..Waiting : Line[i] < sent
                                  /\ \A p \in received : p < sent)'
    BY <2>1, <2>2, <2>4, <2>5 DEF OrderInv
  <2>11. (producer.at = "written" => ring[tail] = sent)'
    BY <2>1 DEF OrderInv
  <2> QED
    BY <2>1, <2>7, <2>8, <2>9, <2>10, <2>11 DEF OrderInv
<1> QED
  BY <1>1, <1>2 DEF Receive

LEMMA NextOrder == Inv /\ OrderInv /\ [Next]_vars => OrderInv'
<1> SUFFICES ASSUME Inv, OrderInv, [Next]_vars PROVE OrderInv'
  OBVIOUS
<1>1. CASE Enqueue
  BY <1>1, EnqueueOrder
<1>2. CASE Receive
  BY <1>2, ReceiveOrder
<1>3. CASE End
  <2>1. Waiting' = 0
    BY <1>3, EmptyLine DEF End, Empty
  <2>2. /\ producer'.at = "idle" /\ consumer'.at = "idle"
        /\ UNCHANGED <<received, sent>>
    BY <1>3 DEF End, Empty
  <2> QED
    BY <2>1, <2>2 DEF OrderInv
<1>4. CASE Begin \/ UNCHANGED vars
  <2>1. UNCHANGED <<ring, head, tail, producer, consumer, sent, received>>
    BY <1>4 DEF Begin, vars
  <2>2. Waiting' = Waiting /\ Line' = Line
    BY <2>1, SameLine DEF Inv
  <2> QED
    BY <2>1, <2>2 DEF OrderInv
<1> QED
  BY <1>1, <1>2, <1>3, <1>4 DEF Next

(* Every step of the two tasks is a step of the queue, or one it does not  *)
(* see: only the stores of the indices, a drop and an end are seen.        *)
LEMMA QueueStep ==
  ASSUME Inv, OrderInv, [Next]_vars
  PROVE  [Queue!Next]_<<Line, received, overflowed>>
<1> USE DepthAssumption
<1>0. Line \in Seq(Fresh) /\ Len(Line) = Waiting /\ DOMAIN Line = 1..Waiting
  BY LineFresh
<1>1. CASE LoadTail \/ WriteBegins \/ WriteEnds \/ LoadHead \/ IsEmpty \/ ReadBegins \/ ReadEnds
           \/ Begin \/ UNCHANGED vars
  <2>1. UNCHANGED <<head, tail, received, overflowed>>
    BY <1>1 DEF LoadTail, WriteBegins, WriteEnds, LoadHead, IsEmpty, ReadBegins, ReadEnds, Begin, vars
  <2>2. \A i \in Slot : i # tail => ring'[i] = ring[i]
    BY <1>1 DEF LoadTail, WriteBegins, WriteEnds, LoadHead, IsEmpty, ReadBegins, ReadEnds, Begin,
                vars, Inv, TypeOK, ProducerInv
  <2>3. Line' = Line
    BY <2>1, <2>2, SameLine DEF Inv
  <2> QED
    BY <2>1, <2>3
<1>2. CASE Drop
  <2>1. NextSlot(tail) = head /\ UNCHANGED <<ring, head, tail, received>> /\ overflowed' = TRUE
    BY <1>2 DEF Drop, IsFull, Inv, ProducerInv
  <2>2. Len(Line) = kQueueDepth - 1
    BY <1>0, <2>1, LineIs DEF Inv
  <2>3. Line' = Line
    BY <2>1, SameLine DEF Inv
  <2>4. Queue!Refuse
    BY <2>1, <2>2, <2>3 DEF Queue!Refuse, Line, Place
  <2> QED
    BY <2>4 DEF Queue!Next
<1>3. CASE StoreTail
  <2>1. /\ head' = head /\ ring' = ring /\ tail' = NextSlot(tail) /\ NextSlot(tail) # head
        /\ UNCHANGED <<received, overflowed>>
    BY <1>3 DEF StoreTail, Inv, ProducerInv
  <2>2. ring[tail] = sent /\ ring[tail] \in Packet
    BY <1>3 DEF StoreTail, OrderInv, Inv, ProducerInv, Fresh
  <2>3. Line' = Append(Line, sent)
    BY <2>1, <2>2, LineGrows
  <2>4. Len(Line) < kQueueDepth - 1
    BY <1>0, <2>1, LineIs DEF Inv
  <2>5. sent \notin received /\ \A i \in DOMAIN Line : Line[i] < sent
    <3>1. \A p \in received : p < sent
      BY <1>3 DEF StoreTail, OrderInv
    <3>2. sent \in Nat
      BY DEF Inv, TypeOK
    <3> QED
      BY <1>0, <1>3, <3>1, <3>2 DEF StoreTail, OrderInv
  <2>6. Queue!Arrive
    BY <2>1, <2>2, <2>3, <2>4, <2>5 DEF Queue!Arrive, Line, Place
  <2> QED
    BY <2>6 DEF Queue!Next
<1>4. CASE StoreHead
  <2>1. /\ tail' = tail /\ ring' = ring /\ head' = NextSlot(head) /\ head # tail
        /\ received' = received \cup {ring[head]} /\ overflowed' = overflowed
    BY <1>4 DEF StoreHead, Inv, ConsumerInv, OrderInv
  <2>2. Line # <<>> /\ Head(Line) = ring[head] /\ Line' = Tail(Line)
    BY <2>1, LineShrinks
  <2>3. Queue!Take
    BY <2>1, <2>2 DEF Queue!Take, Line, Place
  <2> QED
    BY <2>3 DEF Queue!Next
<1>5. CASE End
  <2>1. Line' = <<>> /\ overflowed' = FALSE /\ received' = received
    BY <1>5, EmptyLine DEF End, Empty
  <2>2. Queue!Clear
    BY <2>1 DEF Queue!Clear, Line, Place
  <2> QED
    BY <2>2 DEF Queue!Next
<1> QED
  BY <1>1, <1>2, <1>3, <1>4, <1>5 DEF Next, Enqueue, Receive

(* Packets come out in the order they came in, none twice, and one is      *)
(* refused only when kQueueDepth - 1 wait.                                 *)
THEOREM RingImplementsQueue == Spec => ImplementsQueue
<1>1. Init => Queue!Init
  <2> SUFFICES ASSUME Init PROVE Queue!Init
    OBVIOUS
  <2>1. Waiting = 0
    BY InitInv, LineIs DEF Inv, Init
  <2>2. Line = <<>>
    BY <2>1 DEF Line
  <2> QED
    BY <2>2 DEF Queue!Init, Init, Line, Place
<1>2. Inv /\ OrderInv /\ [Next]_vars => [Queue!Next]_(Queue!vars)
  BY QueueStep DEF Queue!vars, Line, Place
<1> QED
  BY <1>1, <1>2, RingInvariant, InitOrder, NextOrder, PTL DEF Spec, ImplementsQueue, Queue!Spec
=============================================================================
