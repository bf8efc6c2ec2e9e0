---------------------------- MODULE PacketQueue ----------------------------
(***************************************************************************)
(* What the radio's receive ring promises the session: packets come out in *)
(* the order they came in, none twice, and one is refused only when the    *)
(* ring is full.  (LinkRadio.h: "a drop costs latency, not state")         *)
(***************************************************************************)
EXTENDS Naturals, Sequences

CONSTANTS Packet, Capacity

VARIABLES queue, taken, overflowed

vars == <<queue, taken, overflowed>>

Init == queue = <<>> /\ taken = {} /\ overflowed = FALSE

Arrive == \E p \in Packet :
  /\ Len(queue) < Capacity
  /\ p \notin taken /\ \A i \in DOMAIN queue : queue[i] < p
  /\ queue' = Append(queue, p)
  /\ UNCHANGED <<taken, overflowed>>

Refuse == /\ Len(queue) = Capacity
          /\ overflowed' = TRUE
          /\ UNCHANGED <<queue, taken>>

Take == /\ queue # <<>>
        /\ queue' = Tail(queue)
        /\ taken' = taken \cup {Head(queue)}
        /\ UNCHANGED overflowed

(* A new match starts with nothing in the ring. *)
Clear == queue' = <<>> /\ overflowed' = FALSE /\ UNCHANGED taken

Next == Arrive \/ Refuse \/ Take \/ Clear

Spec == Init /\ [][Next]_vars
=============================================================================
