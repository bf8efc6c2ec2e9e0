------------------------ MODULE LinkSessionInduction ------------------------
(***************************************************************************)
(* The inductive invariants behind the safety properties of LinkSession.   *)
(* LinkSessionProofs proves them for every set of devices and tosses; TLC  *)
(* checks them on the instances of MCLinkSession.                          *)
(***************************************************************************)
EXTENDS LinkSession

Searching(d) == sess[d].state = "Searching"
Playing(d) == sess[d].state = "Playing"
Active(d) == Searching(d) \/ Playing(d)

(* Nobody plays with, courts or writes to itself. *)
PeerIsOther ==
  /\ \A d \in Device : Playing(d) => sess[d].peer \in Device \ {d}
  /\ \A d \in Device : sess[d].candidate # d
  /\ \A p \in air : p.from # p.to

TypeInv == TypeOK /\ PeerIsOther

(* Holds for any number of begins: a board and the State packets made from *)
(* it have as many moves as their sequence number says.                    *)
BoardInv ==
  /\ TypeInv
  /\ NoMoveVanishes
  /\ \A d \in Device : sess[d].outgoingPending
                         => sess[d].outgoing = sess[d].outgoingSequence
  /\ \A p \in air : p.type = "State" => p.body = p.seq

(* The newest note a game was handed is one its session has heard: in a    *)
(* match the two are compared, after it a note may still be waiting.       *)
NoteInv ==
  /\ TypeInv
  /\ NoteOnce
  /\ \A d \in Device : Playing(d) => told[d] <= sess[d].peerSaySequence

-----------------------------------------------------------------------------
(* The rest is about devices that go through MULTIPLAYER once              *)
(* (MaxBegins = 1), so that an address and its toss belong together.       *)

(* Types of packet only a device that is, or was, in a match sends. *)
MatchType == {"State", "Ack", "Say", "SayAck", "Bye"}

Even(n) == n % 2 = 0

Entered ==
  /\ \A d \in Device : begins[d] <= 1
  /\ \A d \in Device : Active(d) => begins[d] = 1
  /\ \A d \in Device : Playing(d) => begins[sess[d].peer] = 1
  /\ \A p \in air : begins[p.from] = 1

(* A packet carries its sender's toss. *)
Signed == \A p \in air : Active(p.from) => p.toss = sess[p.from].toss

(* What is in the air from a device in a match was sent in that match. *)
Traffic ==
  \A p \in air : p.type \in MatchType =>
    /\ ~Searching(p.from)
    /\ Playing(p.from) =>
         /\ sess[p.from].peer = p.to
         /\ p.type \in {"State", "Ack"} => p.seq <= sess[p.from].sequence
         /\ (p.type = "State" /\ Active(p.to))
              => (sess[p.from].isHost <=> ~Even(p.seq))

(* Who moves first follows from the two tosses. *)
HostByToss ==
  \A d \in Device :
    LET q == sess[d].peer IN
    (Playing(d) /\ Active(q))
      => (sess[d].isHost <=> MovesFirst(d, sess[d].toss, q, sess[q].toss))

(* The side that moves first holds the turn at the even numbers. *)
TurnParity ==
  \A d \in Device :
    (Playing(d) /\ Active(sess[d].peer))
      => (sess[d].myTurn <=> (sess[d].isHost <=> Even(sess[d].sequence)))

(* What is being retransmitted is the last move. *)
PendingIsLast ==
  \A d \in Device :
    (Playing(d) /\ sess[d].outgoingPending)
      => sess[d].outgoingSequence = sess[d].sequence /\ ~sess[d].myTurn

(* Before its peer has joined, a device has made its first move at most. *)
Waiting ==
  \A d \in Device :
    (Playing(d) /\ Searching(sess[d].peer))
      => /\ sess[d].sequence \in {0, 1}
         /\ sess[d].sequence = 1 => sess[d].isHost /\ sess[d].outgoingPending
         /\ ~sess[d].peerConfirmed

(* The two counters of a match are never more than one move apart. *)
Lockstep ==
  \A a, b \in Device :
    Mutual(a, b) =>
      /\ sess[a].sequence <= sess[b].sequence + 1
      /\ sess[a].myTurn => sess[a].sequence = sess[b].sequence
      /\ sess[a].sequence > sess[b].sequence => sess[a].outgoingPending

MatchInv ==
  /\ TypeInv /\ Entered /\ Signed /\ Traffic /\ HostByToss
  /\ TurnParity /\ PendingIsLast /\ Waiting /\ Lockstep /\ ConfirmedIsMutual

(* What an acknowledgement in the air says has been heard. *)
NotesAcked ==
  \A p \in air : (p.type = "SayAck" /\ Playing(p.from))
                   => p.seq <= sess[p.from].peerSaySequence

(* A peer that has not joined yet has acknowledged nothing. *)
NotesWait ==
  \A d \in Device :
    (Playing(d) /\ Searching(sess[d].peer))
      => sess[d].outgoingSayPending \/ sess[d].outgoingSaySequence = 0

ReachInv == MatchInv /\ NoteReaches /\ NotesAcked /\ NotesWait

-----------------------------------------------------------------------------
(* The match of two devices that stay, or leave knowingly: what they agree *)
(* on outlives the match, so that the refinement can speak of its end too. *)
HasMatch(d) == sess[d].peer # NoDevice

Unmatched ==
  /\ \A d \in Device : sess[d].peer # d
  /\ \A d \in Device : begins[d] = 0 \/ Searching(d) => ~HasMatch(d)
  /\ \A d \in Device : ~HasMatch(d) => sess[d].sequence = 0

MatchByToss ==
  \A d \in Device :
    LET q == sess[d].peer IN
    HasMatch(d) => /\ begins[q] = 1
                   /\ sess[d].isHost <=> MovesFirst(d, sess[d].toss, q, sess[q].toss)

Mail ==
  \A p \in air :
    /\ p.toss = sess[p.from].toss
    /\ p.type = "State" => /\ HasMatch(p.from)
                           /\ p.seq <= sess[p.from].sequence
                           /\ sess[p.from].isHost <=> ~Even(p.seq)

TurnByCount ==
  \A d \in Device :
    Playing(d) => (sess[d].myTurn <=> (sess[d].isHost <=> Even(sess[d].sequence)))

OneMoveApart ==
  \A a, b \in Device :
    sess[a].sequence > sess[b].sequence
      => /\ sess[a].sequence = sess[b].sequence + 1
         /\ sess[a].isHost <=> ~Even(sess[a].sequence)

PairInv == Unmatched /\ MatchByToss /\ Mail /\ TurnByCount /\ OneMoveApart
=============================================================================
