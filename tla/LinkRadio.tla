----------------------------- MODULE LinkRadio -----------------------------
(***************************************************************************)
(* The receive ring between the Wi-Fi task and the main loop.  Source:     *)
(* src/apps_local/link/LinkRadio.{h,cpp}.                                  *)
(*                                                                         *)
(* One producer, the ESP-NOW receive callback, and one consumer, the drain *)
(* of Session::tick.  Every load and store of the two indices is a step of *)
(* its own, and so is the copying of a datagram: a slot that is read while *)
(* it is written would be torn.                                            *)
(*                                                                         *)
(* A packet is its number on the air; sent and first (of this match) and   *)
(* received are history.                                                   *)
(*                                                                         *)
(* An operator marked "Fault" is the definition below it with a plausible  *)
(* bug.  No specification uses it; it is there to show that the properties *)
(* can fail.                                                               *)
(***************************************************************************)
EXTENDS Naturals

CONSTANTS
  kQueueDepth,   \* slots of the ring
  MaxPackets     \* bound: packets that arrive

ASSUME DepthAssumption == kQueueDepth \in Nat /\ kQueueDepth >= 2
ASSUME PacketAssumption == MaxPackets \in Nat

VARIABLES
  ring, head, tail,
  overflowed,
  started,       \* the callback is registered and the loop drains
  producer,      \* the callback: where it is, and what it has read
  consumer,      \* the drain: where it is, and what it has read
  sent,          \* packets that have arrived so far
  first,         \* the first packet of this match
  received       \* the packets the session was given

vars == <<ring, head, tail, overflowed, started, producer, consumer,
          sent, first, received>>

Slot == 0..(kQueueDepth - 1)
Packet == 1..MaxPackets
NoPacket == 0
Torn == MaxPackets + 1

NextSlot(i) == (i + 1) % kQueueDepth

Idle == [at |-> "idle", slot |-> 0, packet |-> NoPacket]

TypeOK ==
  /\ ring \in [Slot -> Packet \cup {NoPacket, Torn}]
  /\ head \in Slot /\ tail \in Slot
  /\ overflowed \in BOOLEAN /\ started \in BOOLEAN
  /\ producer \in [at : {"idle", "begun", "writing", "written"}, slot : Slot,
                   packet : Packet \cup {NoPacket}]
  /\ consumer \in [at : {"idle", "begun", "reading", "read"}, slot : Slot,
                   packet : Packet \cup {NoPacket, Torn}]
  /\ sent \in 0..MaxPackets /\ first \in 0..(MaxPackets + 1)
  /\ received \subseteq Packet \cup {NoPacket, Torn}

Init == /\ ring = [i \in Slot |-> NoPacket]
        /\ head = 0 /\ tail = 0 /\ overflowed = FALSE /\ started = FALSE
        /\ producer = Idle /\ consumer = Idle
        /\ sent = 0 /\ first = 0 /\ received = {}

-----------------------------------------------------------------------------
(* enqueueFromCallback, on the Wi-Fi task. *)

LoadTail == /\ started /\ producer.at = "idle" /\ sent < MaxPackets
            /\ sent' = sent + 1
            /\ producer' = [at |-> "begun", slot |-> tail, packet |-> sent + 1]
            /\ UNCHANGED <<ring, head, tail, overflowed, started, consumer, first, received>>

(* Fault: every slot is used, so full and empty look alike.                *)
IsFullNever(slot) == FALSE

(* Fault: one slot too many is kept free.                                  *)
IsFullEarly(slot) == NextSlot(slot) = head \/ NextSlot(NextSlot(slot)) = head

IsFull(slot) == NextSlot(slot) = head

Drop == /\ producer.at = "begun" /\ IsFull(producer.slot)
        /\ overflowed' = TRUE
        /\ producer' = Idle
        /\ UNCHANGED <<ring, head, tail, started, consumer, sent, first, received>>

(* memcpy into the slot: until it is done the slot holds parts of both.    *)
WriteBegins == /\ producer.at = "begun" /\ ~IsFull(producer.slot)
               /\ producer' = [producer EXCEPT !.at = "writing"]
               /\ ring' = [ring EXCEPT ![producer.slot] = Torn]
               /\ UNCHANGED <<head, tail, overflowed, started, consumer, sent, first, received>>

WriteEnds == /\ producer.at = "writing"
             /\ producer' = [producer EXCEPT !.at = "written"]
             /\ ring' = [ring EXCEPT ![producer.slot] = producer.packet]
             /\ UNCHANGED <<head, tail, overflowed, started, consumer, sent, first, received>>

StoreTail == /\ producer.at = "written"
             /\ tail' = NextSlot(producer.slot)
             /\ producer' = Idle
             /\ UNCHANGED <<ring, head, overflowed, started, consumer, sent, first, received>>

-----------------------------------------------------------------------------
(* Radio::receive, on the main loop. *)

LoadHead == /\ started /\ consumer.at = "idle"
            /\ consumer' = [at |-> "begun", slot |-> head, packet |-> NoPacket]
            /\ UNCHANGED <<ring, head, tail, overflowed, started, producer, sent, first, received>>

IsEmpty == /\ consumer.at = "begun" /\ consumer.slot = tail
           /\ consumer' = Idle
           /\ UNCHANGED <<ring, head, tail, overflowed, started, producer, sent, first, received>>

ReadBegins == /\ consumer.at = "begun" /\ consumer.slot # tail
              /\ consumer' = [consumer EXCEPT !.at = "reading"]
              /\ UNCHANGED <<ring, head, tail, overflowed, started, producer, sent, first, received>>

ReadEnds == /\ consumer.at = "reading"
            /\ consumer' = [consumer EXCEPT !.at = "read", !.packet = ring[consumer.slot]]
            /\ UNCHANGED <<ring, head, tail, overflowed, started, producer, sent, first, received>>

StoreHead == /\ consumer.at = "read"
             /\ head' = NextSlot(consumer.slot)
             /\ received' = received \cup {consumer.packet}
             /\ consumer' = Idle
             /\ UNCHANGED <<ring, tail, overflowed, started, producer, sent, first>>

-----------------------------------------------------------------------------
(* Both indices back to the start: end(), which begin() also opens with.   *)
(* It runs on the loop, so no drain is under way; unregistering the        *)
(* callback waits for one that is (esp_now_unregister_recv_cb).            *)
Empty == /\ consumer.at = "idle" /\ producer.at = "idle"
         /\ head' = 0 /\ tail' = 0 /\ overflowed' = FALSE

(* Fault: only the drain's own index goes back.                            *)
EndHeadOnly == /\ started
               /\ consumer.at = "idle" /\ producer.at = "idle"
               /\ head' = 0 /\ overflowed' = FALSE /\ started' = FALSE
               /\ UNCHANGED <<ring, tail, producer, consumer, sent, first, received>>

End == /\ started
       /\ Empty
       /\ started' = FALSE
       /\ UNCHANGED <<ring, producer, consumer, sent, first, received>>

Begin == /\ ~started
         /\ started' = TRUE
         /\ first' = sent + 1
         /\ UNCHANGED <<ring, head, tail, overflowed, producer, consumer, sent, received>>

Enqueue == LoadTail \/ Drop \/ WriteBegins \/ WriteEnds \/ StoreTail
Receive == LoadHead \/ IsEmpty \/ ReadBegins \/ ReadEnds \/ StoreHead

Next == Enqueue \/ Receive \/ End \/ Begin

Spec == Init /\ [][Next]_vars

-----------------------------------------------------------------------------
(* Properties. *)

(* The two tasks are never in the same slot: the indices need no lock.     *)
(* (LinkRadio.h: "A single-producer, single-consumer ring")                *)
SlotNotShared ==
  ~(/\ producer.at \in {"writing", "written"} /\ consumer.at \in {"reading", "read"}
    /\ producer.slot = consumer.slot)

(* A session is never given a datagram that was half copied.               *)
NothingTorn == Torn \notin received

(* What a match is given arrived during that match.                        *)
NothingStale ==
  [][\A p \in received' \ received : p >= first]_vars

(* The ring is a bounded queue: first in, first out, none twice, and one is*)
(* refused only when kQueueDepth - 1 are waiting.                          *)
Waiting == (tail + kQueueDepth - head) % kQueueDepth

Queue == INSTANCE PacketQueue
           WITH Packet <- Packet, Capacity <- kQueueDepth - 1, taken <- received,
                queue <- [i \in 1..Waiting |-> ring[(head + i - 1) % kQueueDepth]]

ImplementsQueue == Queue!Spec
=============================================================================
