------------------------- MODULE LinkSessionProofs -------------------------
(***************************************************************************)
(* Machine-checked proofs about LinkSession.  The first part holds for     *)
(* devices that go through MULTIPLAYER any number of times: types, boards  *)
(* and notes.  The second is about devices that go through it once.        *)
(***************************************************************************)
EXTENDS MCLinkSession, TLAPS

(***************************************************************************)
(* Types.  An action gives device d a new session r and sends some packets *)
(* (Becomes); the lemmas say that each such session and packet has its     *)
(* type.                                                                   *)
(***************************************************************************)
LEMMA NoDeviceIsNoDevice == NoDevice \notin Device
BY DeviceAssumption DEF NoDevice

LEMMA SequenceType == \A n \in Nat : NextSequence(n) \in Nat
BY DEF NextSequence

LEMMA MovesFirstType ==
  ASSUME NEW d \in Device, NEW e \in Device, NEW t \in Nat, NEW u \in Nat
  PROVE  MovesFirst(d, t, e, u) \in BOOLEAN
<1>1. d \in Nat /\ e \in Nat
  BY DeviceAssumption
<1>2. CASE t # u
  BY <1>2 DEF MovesFirst
<1>3. CASE t = u
  BY <1>1, <1>3 DEF MovesFirst
<1> QED BY <1>2, <1>3

LEMMA ResetType == ResetSession \in Session /\ ResetSession.candidate = NoDevice
                   /\ ResetSession.state = "Idle"
BY DEF ResetSession, Session, State, EndReason

LEMMA OverType ==
  ASSUME NEW r \in Session, NEW reason \in EndReason
  PROVE  /\ Over(r, reason) \in Session
         /\ Over(r, reason).state = "Ended"
         /\ Over(r, reason).candidate = NoDevice
BY DEF Over, Session, State, EndReason

LEMMA StartedType ==
  ASSUME NEW s \in Session, NEW first \in BOOLEAN, NEW t \in Nat, NEW q \in Device
  PROVE  [s EXCEPT !.state = "Playing", !.isHost = first, !.myTurn = first,
                   !.toss = t, !.peer = q] \in Session
BY DEF Session, State

LEMMA MatchedType ==
  ASSUME NEW r \in Session, NEW d \in Device, NEW peer \in Device, NEW t \in Nat
  PROVE  Matched(r, d, peer, t) \in Session
<1>1. r.toss \in Nat
  BY DEF Session
<1>2. MovesFirst(d, r.toss, peer, t) \in BOOLEAN
  BY <1>1, MovesFirstType
<1> QED BY <1>1, <1>2, ResetType, StartedType DEF Matched

LEMMA MatchedFields ==
  ASSUME NEW r, NEW d, NEW peer, NEW t
  PROVE  /\ Matched(r, d, peer, t).state = "Playing"
         /\ Matched(r, d, peer, t).peer = peer
         /\ Matched(r, d, peer, t).candidate = NoDevice
         /\ Matched(r, d, peer, t).toss = r.toss
         /\ Matched(r, d, peer, t).sequence = 0
         /\ Matched(r, d, peer, t).isHost <=> MovesFirst(d, r.toss, peer, t)
         /\ Matched(r, d, peer, t).myTurn <=> MovesFirst(d, r.toss, peer, t)
         /\ ~Matched(r, d, peer, t).outgoingPending
         /\ ~Matched(r, d, peer, t).peerConfirmed
         /\ ~Matched(r, d, peer, t).incomingPending
         /\ Matched(r, d, peer, t).outgoingSaySequence = 0
         /\ Matched(r, d, peer, t).peerSaySequence = 0
BY DEF Matched, ResetSession

(* Nothing that identifies the session's place in the protocol changes. *)
SamePlace(r, s) == /\ s.state = r.state /\ s.peer = r.peer
                   /\ s.candidate = r.candidate /\ s.toss = r.toss

LEMMA SubmittedType ==
  ASSUME NEW r \in Session, NEW n \in Nat, NEW body \in Nat
  PROVE  LET s == [r EXCEPT !.outgoing = body, !.sequence = n,
                            !.outgoingSequence = n, !.outgoingPending = TRUE,
                            !.myTurn = FALSE]
         IN s \in Session /\ SamePlace(r, s)
BY DEF Session, SamePlace

LEMMA AnnouncedType ==
  ASSUME NEW r \in Session, NEW n \in Nat
  PROVE  LET s == [r EXCEPT !.outgoingSaySequence = n, !.outgoingSayPending = TRUE]
         IN s \in Session /\ SamePlace(r, s)
BY DEF Session, SamePlace

LEMMA TakenType ==
  ASSUME NEW r \in Session
  PROVE  LET s == [r EXCEPT !.incomingPending = FALSE]
             n == [r EXCEPT !.incomingSayPending = FALSE]
         IN /\ s \in Session /\ SamePlace(r, s)
            /\ n \in Session /\ SamePlace(r, n)
BY DEF Session, SamePlace

LEMMA NoticedType ==
  ASSUME NEW r \in Session, NEW from \in Device
  PROVE  /\ Noticed(r, from) \in Session
         /\ Noticed(r, from).state = r.state
         /\ Noticed(r, from).candidate \in {r.candidate, from}
BY DEF Noticed, Session

LEMMA UnicastType ==
  ASSUME NEW r \in Session, NEW d \in Device, NEW to \in Device,
         NEW type \in PacketType, NEW seq \in Nat, NEW body \in Nat
  PROVE  Unicast(r, d, to, type, seq, body) \subseteq Packet
BY DEF Unicast, Packet, Session

LEMMA HelloType ==
  ASSUME NEW r \in Session, NEW d \in Device
  PROVE  /\ HelloFrom(r, d) \subseteq Packet
         /\ \A p \in HelloFrom(r, d) : p.from # p.to
<1>1. \A e \in Device : Unicast(r, d, e, "Hello", 0, 0) \subseteq Packet
  BY UnicastType DEF PacketType
<1> QED BY <1>1 DEF HelloFrom, Unicast

(* What a device in a match sends to its peer. *)
LEMMA MatchPacketType ==
  ASSUME NEW r \in Session, NEW d \in Device, r.peer \in Device \ {d}
  PROVE  /\ StateFrom(r, d) \subseteq Packet
         /\ AckFrom(r, d) \subseteq Packet
         /\ SayFrom(r, d) \subseteq Packet
         /\ SayAckFrom(r, d) \subseteq Packet
         /\ Unicast(r, d, r.peer, "Bye", r.sequence, 0) \subseteq Packet
         /\ \A p \in StateFrom(r, d) \cup AckFrom(r, d) \cup SayFrom(r, d)
                       \cup SayAckFrom(r, d)
                       \cup Unicast(r, d, r.peer, "Bye", r.sequence, 0) :
              p.from # p.to
<1>1. /\ r.outgoingSequence \in Nat /\ r.outgoing \in Nat /\ r.sequence \in Nat
      /\ r.outgoingSaySequence \in Nat /\ r.peerSaySequence \in Nat
  BY DEF Session
<1>2. {"State", "Ack", "Say", "SayAck", "Bye"} \subseteq PacketType
  BY DEF PacketType
<1>3. StateFrom(r, d) \subseteq Packet /\ AckFrom(r, d) \subseteq Packet
  BY <1>1, <1>2, UnicastType DEF StateFrom, AckFrom
<1>4. SayFrom(r, d) \subseteq Packet /\ SayAckFrom(r, d) \subseteq Packet
  BY <1>1, <1>2, UnicastType DEF SayFrom, SayAckFrom
<1>5. Unicast(r, d, r.peer, "Bye", r.sequence, 0) \subseteq Packet
  BY <1>1, <1>2, UnicastType
<1> QED BY <1>3, <1>4, <1>5
        DEF StateFrom, AckFrom, SayFrom, SayAckFrom, Unicast

LEMMA JoinType ==
  ASSUME NEW r \in Session, NEW d \in Device,
         IF r.state = "Playing" THEN r.peer \in Device \ {d}
                                ELSE r.candidate \in Device \ {d}
  PROVE  /\ JoinFrom(r, d) \subseteq Packet
         /\ \A p \in JoinFrom(r, d) : p.from # p.to
<1>1. JoinFrom(r, d) \subseteq Packet
  BY UnicastType DEF JoinFrom, PacketType
<1> QED BY <1>1 DEF JoinFrom, Unicast

(* The shape of every step but Begin and Lose: device d gets the session r *)
(* and sends some packets.                                                 *)
LEMMA BecomesTyped ==
  ASSUME TypeInv, NEW d \in Device, NEW r \in Session, NEW sent,
         sent \subseteq Packet, \A p \in sent : p.from # p.to,
         r.state = "Playing" => r.peer \in Device \ {d}, r.candidate # d,
         Becomes(d, r, sent),
         board' \in [Device -> Nat], told' \in [Device -> Nat],
         begins' \in [Device -> Nat]
  PROVE  TypeInv'
BY DEF TypeInv, TypeOK, PeerIsOther, Becomes, Playing

LEMMA MatchWithTyped ==
  ASSUME TypeInv, NEW d \in Device, NEW r \in Session, NEW p \in air,
         p.to = d, MatchWith(r, d, p)
  PROVE  TypeInv'
<1> DEFINE m == Matched(r, d, p.from, p.toss)
<1>1. p.from \in Device \ {d} /\ p.toss \in Nat
  BY DEF TypeInv, TypeOK, PeerIsOther, Packet
<1>2. m \in Session
  BY <1>1, MatchedType
<1>3. m.state = "Playing" /\ m.peer = p.from /\ m.candidate = NoDevice
  BY MatchedFields
<1> HIDE DEF m
<1>4. AckFrom(m, d) \subseteq Packet /\ \A q \in AckFrom(m, d) : q.from # q.to
  BY <1>1, <1>2, <1>3, MatchPacketType
<1>5. Becomes(d, m, AckFrom(m, d))
  BY DEF MatchWith, m
<1>6. /\ board' \in [Device -> Nat] /\ told' \in [Device -> Nat]
      /\ begins' \in [Device -> Nat]
  BY DEF MatchWith, TypeInv, TypeOK
<1> QED BY <1>1, <1>2, <1>3, <1>4, <1>5, <1>6, BecomesTyped, NoDeviceIsNoDevice

LEMMA UserStepTyped ==
  ASSUME TypeInv, NEW d \in Device, UserStep(d)
  PROVE  TypeInv'
<1> USE DEF TypeInv
<1>0. sess[d] \in Session /\ sess[d].candidate # d
  BY DEF TypeOK, PeerIsOther
<1>1. CASE Begin(d)
  <2>1. PICK t \in Toss :
          LET r == [ResetSession EXCEPT !.state = "Searching", !.toss = t] IN
          /\ sess' = [sess EXCEPT ![d] = r]
          /\ air' = {p \in air : p.to # d} \cup HelloFrom(r, d)
    BY <1>1 DEF Begin
  <2> DEFINE r == [ResetSession EXCEPT !.state = "Searching", !.toss = t]
  <2>2. r \in Session /\ r.state = "Searching" /\ r.candidate = NoDevice
    BY TossAssumption DEF ResetSession, Session, State, EndReason
  <2> HIDE DEF r
  <2>3. sess' = [sess EXCEPT ![d] = r]
        /\ air' = {p \in air : p.to # d} \cup HelloFrom(r, d)
    BY <2>1 DEF r
  <2>4. begins' \in [Device -> Nat] /\ UNCHANGED <<board, told>>
    BY <1>1 DEF Begin, TypeOK
  <2> QED BY <2>2, <2>3, <2>4, HelloType, NoDeviceIsNoDevice
          DEF TypeOK, PeerIsOther, Playing
<1>2. CASE Leave(d)
  <2> DEFINE sent == IF sess[d].state = "Playing"
                     THEN Unicast(sess[d], d, sess[d].peer, "Bye", sess[d].sequence, 0)
                     ELSE {}
  <2>1. sent \subseteq Packet /\ \A p \in sent : p.from # p.to
    BY <1>0, MatchPacketType DEF PeerIsOther, Playing
  <2> HIDE DEF sent
  <2>2. Becomes(d, Over(sess[d], "LocalLeft"), sent) /\ UNCHANGED <<board, told, begins>>
    BY <1>2 DEF Leave, sent
  <2>3. Over(sess[d], "LocalLeft") \in Session
    BY <1>0, OverType DEF EndReason
  <2> QED BY <1>0, <2>1, <2>2, <2>3, OverType, BecomesTyped, NoDeviceIsNoDevice
          DEF TypeOK, EndReason
<1>3. CASE Vanish(d)
  BY <1>3, ResetType, BecomesTyped, NoDeviceIsNoDevice DEF Vanish, TypeOK
<1> QED BY <1>1, <1>2, <1>3 DEF UserStep

LEMMA GameStepTyped ==
  ASSUME TypeInv, NEW d \in Device, GameStep(d)
  PROVE  TypeInv'
<1> USE DEF TypeInv
<1>0. sess[d] \in Session /\ sess[d].candidate # d
      /\ (sess[d].state = "Playing" => sess[d].peer \in Device \ {d})
      /\ board[d] + 1 \in Nat /\ NextSequence(sess[d].sequence) \in Nat
      /\ NextSequence(sess[d].outgoingSaySequence) \in Nat
  BY SequenceType DEF TypeOK, PeerIsOther, Playing, Session
<1>1. CASE Submit(d)
  <2> DEFINE s == [sess[d] EXCEPT
                     !.outgoing = board[d] + 1,
                     !.sequence = NextSequence(sess[d].sequence),
                     !.outgoingSequence = NextSequence(sess[d].sequence),
                     !.outgoingPending = TRUE, !.myTurn = FALSE]
  <2>1. s \in Session /\ SamePlace(sess[d], s)
    BY <1>0, SubmittedType
  <2> HIDE DEF s
  <2>2. /\ Becomes(d, s, StateFrom(s, d)) /\ sess[d].state = "Playing"
        /\ board' = [board EXCEPT ![d] = @ + 1] /\ UNCHANGED <<told, begins>>
    BY <1>1 DEF Submit, s
  <2>3. board' \in [Device -> Nat]
    BY <1>0, <2>2 DEF TypeOK
  <2> QED BY <1>0, <2>1, <2>2, <2>3, MatchPacketType, BecomesTyped DEF TypeOK, SamePlace
<1>2. CASE TakeIncoming(d)
  <2> DEFINE s == [sess[d] EXCEPT !.incomingPending = FALSE]
  <2>1. s \in Session /\ SamePlace(sess[d], s)
    BY <1>0, TakenType
  <2>a. sess[d].incoming \in Nat
    BY <1>0 DEF Session
  <2> HIDE DEF s
  <2>2. /\ Becomes(d, s, {})
        /\ board' = [board EXCEPT ![d] = sess[d].incoming] /\ UNCHANGED <<told, begins>>
    BY <1>2 DEF TakeIncoming, s
  <2>3. board' \in [Device -> Nat]
    BY <2>a, <2>2 DEF TypeOK
  <2> QED BY <1>0, <2>1, <2>2, <2>3, BecomesTyped DEF TypeOK, SamePlace
<1>3. CASE Announce(d)
  <2> DEFINE n == NextSequence(sess[d].outgoingSaySequence)
             s == [sess[d] EXCEPT !.outgoingSaySequence = n,
                                  !.outgoingSayPending = TRUE]
  <2>1. s \in Session /\ SamePlace(sess[d], s)
    BY <1>0, AnnouncedType
  <2> HIDE DEF s
  <2>2. /\ Becomes(d, s, SayFrom(s, d)) /\ sess[d].state = "Playing"
        /\ UNCHANGED <<board, told, begins>>
    BY <1>3 DEF Announce, s
  <2> QED BY <1>0, <2>1, <2>2, MatchPacketType, BecomesTyped DEF TypeOK, SamePlace
<1>4. CASE TakeAnnouncement(d)
  <2> DEFINE s == [sess[d] EXCEPT !.incomingSayPending = FALSE]
  <2>1. s \in Session /\ SamePlace(sess[d], s)
    BY <1>0, TakenType
  <2>a. sess[d].peerSaySequence \in Nat
    BY <1>0 DEF Session
  <2> HIDE DEF s
  <2>2. /\ Becomes(d, s, {})
        /\ told' = [told EXCEPT ![d] = sess[d].peerSaySequence]
        /\ UNCHANGED <<board, begins>>
    BY <1>4 DEF TakeAnnouncement, s
  <2>3. told' \in [Device -> Nat]
    BY <2>a, <2>2 DEF TypeOK
  <2> QED BY <1>0, <2>1, <2>2, <2>3, BecomesTyped DEF TypeOK, SamePlace
<1> QED BY <1>1, <1>2, <1>3, <1>4 DEF GameStep

LEMMA ClockStepTyped ==
  ASSUME TypeInv, NEW d \in Device, ClockStep(d)
  PROVE  TypeInv'
<1> USE DEF TypeInv
<1>0. sess[d] \in Session /\ sess[d].candidate # d
      /\ sess[d].candidate \in Device \cup {NoDevice}
      /\ (sess[d].state = "Playing" => sess[d].peer \in Device \ {d})
  BY DEF TypeOK, PeerIsOther, Playing, Session
<1>1. CASE HelloTick(d)
  BY <1>0, <1>1, HelloType, BecomesTyped DEF HelloTick, TypeOK
<1>2. CASE JoinTick(d)
  <2>1. sess[d].state = "Searching" /\ sess[d].candidate \in Device \ {d}
    BY <1>0, <1>2 DEF JoinTick
  <2> QED BY <1>0, <1>2, <2>1, JoinType, BecomesTyped DEF JoinTick, TypeOK
<1>3. CASE ForgetCandidate(d)
  <2> DEFINE s == [sess[d] EXCEPT !.candidate = NoDevice]
  <2>1. s \in Session /\ s.state = sess[d].state /\ s.candidate = NoDevice
    BY <1>0 DEF Session
  <2> HIDE DEF s
  <2>2. /\ Becomes(d, s, {}) /\ UNCHANGED <<board, told, begins>>
        /\ sess[d].state = "Searching"
    BY <1>3 DEF ForgetCandidate, s
  <2> QED BY <2>1, <2>2, BecomesTyped, NoDeviceIsNoDevice DEF TypeOK
<1>4. CASE PeerTimeout(d)
  <2>1. Over(sess[d], "PeerLost") \in Session
    BY <1>0, OverType DEF EndReason
  <2> QED BY <1>0, <1>4, <2>1, OverType, BecomesTyped, NoDeviceIsNoDevice
          DEF PeerTimeout, TypeOK, EndReason
<1>5. CASE RetrySay(d)
  BY <1>0, <1>5, MatchPacketType, BecomesTyped DEF RetrySay, TypeOK
<1>6. CASE RetryState(d)
  BY <1>0, <1>6, MatchPacketType, BecomesTyped DEF RetryState, TypeOK
<1>7. CASE Heartbeat(d)
  BY <1>0, <1>7, MatchPacketType, BecomesTyped DEF Heartbeat, TypeOK
<1> QED BY <1>1, <1>2, <1>3, <1>4, <1>5, <1>6, <1>7 DEF ClockStep

LEMMA AdoptedType ==
  ASSUME NEW r \in Session, NEW p \in Packet
  PROVE  Adopted(r, p) \in Session /\ SamePlace(r, Adopted(r, p))
<1>1. p.seq \in Nat /\ p.body \in Nat
  BY DEF Packet
<1>2. CASE p.seq > r.sequence
  BY <1>1, <1>2 DEF Adopted, Session, SamePlace
<1>3. CASE ~(p.seq > r.sequence)
  BY <1>1, <1>3 DEF Adopted, Session, SamePlace
<1> QED BY <1>2, <1>3

LEMMA NoteHeardType ==
  ASSUME NEW r \in Session, NEW p \in Packet
  PROVE  NoteHeard(r, p) \in Session /\ SamePlace(r, NoteHeard(r, p))
<1>1. p.seq \in Nat
  BY DEF Packet
<1>2. CASE p.seq > r.peerSaySequence
  BY <1>1, <1>2 DEF NoteHeard, Session, SamePlace
<1>3. CASE ~(p.seq > r.peerSaySequence)
  BY <1>1, <1>3 DEF NoteHeard, Session, SamePlace
<1> QED BY <1>2, <1>3

LEMMA AckedType ==
  ASSUME NEW r \in Session, NEW still \in BOOLEAN
  PROVE  LET s == [r EXCEPT !.peerConfirmed = TRUE, !.outgoingPending = still]
             n == [r EXCEPT !.peerConfirmed = TRUE, !.outgoingSayPending = still]
         IN /\ s \in Session /\ SamePlace(r, s)
            /\ n \in Session /\ SamePlace(r, n)
BY DEF Session, SamePlace

LEMMA ReceiveTyped ==
  ASSUME TypeInv, NEW d \in Device, NEW p \in air, Receive(d, p)
  PROVE  TypeInv'
<1> USE DEF TypeInv
<1>0. /\ sess[d] \in Session /\ sess[d].candidate # d
      /\ (sess[d].state = "Playing" => sess[d].peer \in Device \ {d})
      /\ p \in Packet /\ p.to = d /\ p.from \in Device \ {d}
      /\ p.seq \in Nat
  BY DEF TypeOK, PeerIsOther, Playing, Packet, Receive
<1>a. /\ Noticed(sess[d], p.from) \in Session
      /\ Noticed(sess[d], p.from).state = sess[d].state
      /\ Noticed(sess[d], p.from).candidate # d
  BY <1>0, NoticedType
<1>1. CASE HearDiscovery(d, p)
  BY <1>0, <1>1, <1>a, BecomesTyped DEF HearDiscovery, TypeOK
<1>2. CASE HearAgreement(d, p)
  BY <1>0, <1>2, <1>a, MatchWithTyped DEF HearAgreement
<1>3. CASE HearMatchTraffic(d, p)
  BY <1>0, <1>3, MatchWithTyped DEF HearMatchTraffic
<1>4. CASE HearJoin(d, p)
  <2>1. Becomes(d, sess[d], JoinFrom(sess[d], d)) /\ UNCHANGED <<board, told, begins>>
        /\ sess[d].state = "Playing"
    BY <1>4 DEF HearJoin, FromPeer
  <2>2. JoinFrom(sess[d], d) \subseteq Packet
        /\ \A q \in JoinFrom(sess[d], d) : q.from # q.to
    BY <1>0, <2>1, JoinType
  <2> QED BY <1>0, <2>1, <2>2, BecomesTyped DEF TypeOK
<1>5. CASE HearState(d, p)
  <2> DEFINE s == Adopted(sess[d], p)
  <2>1. s \in Session /\ SamePlace(sess[d], s)
    BY <1>0, AdoptedType
  <2> HIDE DEF s
  <2>2. /\ Becomes(d, s, AckFrom(s, d)) /\ sess[d].state = "Playing"
        /\ UNCHANGED <<board, told, begins>>
    BY <1>5 DEF HearState, FromPeer, s
  <2> QED BY <1>0, <2>1, <2>2, MatchPacketType, BecomesTyped DEF TypeOK, SamePlace
<1>6. CASE HearAck(d, p)
  <2> DEFINE still == sess[d].outgoingPending /\ p.seq < sess[d].outgoingSequence
             s == [sess[d] EXCEPT !.peerConfirmed = TRUE, !.outgoingPending = still]
  <2>1. s \in Session /\ SamePlace(sess[d], s)
    <3>1. still \in BOOLEAN
      OBVIOUS
    <3> QED BY <1>0, <3>1, AckedType
  <2> HIDE DEF s
  <2>2. Becomes(d, s, {}) /\ UNCHANGED <<board, told, begins>>
    BY <1>6 DEF HearAck, s
  <2> QED BY <1>0, <2>1, <2>2, BecomesTyped DEF TypeOK, SamePlace
<1>7. CASE HearSay(d, p)
  <2> DEFINE s == NoteHeard(sess[d], p)
  <2>1. s \in Session /\ SamePlace(sess[d], s)
    BY <1>0, NoteHeardType
  <2> HIDE DEF s
  <2>2. /\ Becomes(d, s, SayAckFrom(s, d)) /\ sess[d].state = "Playing"
        /\ UNCHANGED <<board, told, begins>>
    BY <1>7 DEF HearSay, FromPeer, s
  <2> QED BY <1>0, <2>1, <2>2, MatchPacketType, BecomesTyped DEF TypeOK, SamePlace
<1>8. CASE HearSayAck(d, p)
  <2> DEFINE still == sess[d].outgoingSayPending /\ p.seq < sess[d].outgoingSaySequence
             s == [sess[d] EXCEPT !.peerConfirmed = TRUE, !.outgoingSayPending = still]
  <2>1. s \in Session /\ SamePlace(sess[d], s)
    <3>1. still \in BOOLEAN
      OBVIOUS
    <3> QED BY <1>0, <3>1, AckedType
  <2> HIDE DEF s
  <2>2. Becomes(d, s, {}) /\ UNCHANGED <<board, told, begins>>
    BY <1>8 DEF HearSayAck, s
  <2> QED BY <1>0, <2>1, <2>2, BecomesTyped DEF TypeOK, SamePlace
<1>9. CASE HearDeparture(d, p)
  <2>1. Over(sess[d], "PeerLeft") \in Session
    BY <1>0, OverType DEF EndReason
  <2> QED BY <1>0, <1>9, <2>1, OverType, BecomesTyped, NoDeviceIsNoDevice
          DEF HearDeparture, TypeOK, EndReason
<1> QED BY <1>1, <1>2, <1>3, <1>4, <1>5, <1>6, <1>7, <1>8, <1>9 DEF Receive

LEMMA InitTyped == Init => TypeInv
BY ResetType, NoDeviceIsNoDevice DEF Init, TypeInv, TypeOK, PeerIsOther, Playing

LEMMA NextTyped == TypeInv /\ [Next]_vars => TypeInv'
<1> SUFFICES ASSUME TypeInv, [Next]_vars
             PROVE  TypeInv'
  OBVIOUS
<1>1. CASE UNCHANGED vars
  BY <1>1 DEF TypeInv, TypeOK, PeerIsOther, Playing, vars
<1>2. CASE \E d \in Device : UserStep(d) \/ GameStep(d) \/ ClockStep(d)
  BY <1>2, UserStepTyped, GameStepTyped, ClockStepTyped
<1>3. CASE \E p \in air : Receive(p.to, p)
  BY <1>3, ReceiveTyped DEF TypeInv, TypeOK, Packet
<1>4. CASE \E p \in air : Lose(p)
  BY <1>4 DEF Lose, TypeInv, TypeOK, PeerIsOther, Playing
<1> QED BY <1>1, <1>2, <1>3, <1>4 DEF Next

(* Types, and that a peer or a candidate is another device than oneself.   *)
(* (the fields of class Session)                                           *)
THEOREM TypeInvariant == Spec => []TypeInv
<1> QED BY InitTyped, NextTyped, PTL DEF Spec

(* Every variable keeps its type, for every set of devices and tosses and  *)
(* every bound.  (the fields of class Session)                             *)
THEOREM TypeCorrect == Spec => []TypeOK
<1>1. TypeInv => TypeOK
  BY DEF TypeInv
<1> QED BY TypeInvariant, <1>1, PTL

(***************************************************************************)
(* Boards.                                                                 *)
(***************************************************************************)
OnlyChanges(d) == \A e \in Device \ {d} : sess'[e] = sess[e]

LEMMA BecomesChanges ==
  ASSUME TypeInv, NEW d \in Device, NEW r, NEW sent, Becomes(d, r, sent)
  PROVE  /\ OnlyChanges(d) /\ sess'[d] = r
         /\ air' = air \cup sent
BY DEF TypeInv, TypeOK, Becomes, OnlyChanges

(* What a step must leave true of the device that takes it. *)
BoardKept(s, b) ==
  /\ s.state = "Playing" => s.sequence = IF s.incomingPending THEN s.incoming ELSE b
  /\ s.outgoingPending => s.outgoing = s.outgoingSequence

HonestState(p) == p.type = "State" => p.body = p.seq

LEMMA BoardStep ==
  ASSUME BoardInv, TypeInv', NEW d \in Device, NEW s, NEW sent,
         Becomes(d, s, sent),
         BoardKept(s, board'[d]),
         \A e \in Device \ {d} : board'[e] = board[e],
         \A p \in sent : HonestState(p)
  PROVE  BoardInv'
<1>1. OnlyChanges(d) /\ sess'[d] = s /\ air' = air \cup sent
  BY BecomesChanges DEF BoardInv
<1>2. \A e \in Device : BoardKept(sess[e], board[e])
  BY DEF BoardInv, NoMoveVanishes, BoardKept
<1>3. \A e \in Device : BoardKept(sess'[e], board'[e])
  BY <1>1, <1>2 DEF OnlyChanges
<1>4. \A p \in air' : HonestState(p)
  BY <1>1 DEF BoardInv, HonestState
<1> QED BY <1>3, <1>4 DEF BoardInv, NoMoveVanishes, BoardKept, HonestState

(* Fields the boards depend on. *)
SameBoardFields(r, s) ==
  /\ s.state = r.state /\ s.sequence = r.sequence
  /\ s.incomingPending = r.incomingPending /\ s.incoming = r.incoming
  /\ s.outgoing = r.outgoing /\ s.outgoingSequence = r.outgoingSequence

(* A step that leaves the boards alone. *)
LEMMA BoardIdle ==
  ASSUME BoardInv, TypeInv', NEW d \in Device, NEW s, NEW sent,
         Becomes(d, s, sent), UNCHANGED board,
         SameBoardFields(sess[d], s),
         s.outgoingPending => sess[d].outgoingPending,
         \A p \in sent : HonestState(p)
  PROVE  BoardInv'
<1>1. BoardKept(s, board'[d])
  BY DEF BoardInv, NoMoveVanishes, BoardKept, SameBoardFields
<1> QED BY <1>1, BoardStep

LEMMA HonestPackets ==
  ASSUME NEW r, NEW d
  PROVE  /\ \A p \in HelloFrom(r, d) \cup JoinFrom(r, d) \cup AckFrom(r, d)
                   \cup SayFrom(r, d) \cup SayAckFrom(r, d)
                   \cup Unicast(r, d, r.peer, "Bye", r.sequence, 0) : HonestState(p)
         /\ r.outgoing = r.outgoingSequence => \A p \in StateFrom(r, d) : HonestState(p)
BY DEF HonestState, HelloFrom, JoinFrom, AckFrom, SayFrom, SayAckFrom, StateFrom, Unicast

LEMMA OverBoard ==
  ASSUME NEW r \in Session, NEW reason, NEW b
  PROVE  BoardKept(Over(r, reason), b)
BY DEF Over, Session, BoardKept

LEMMA MatchBoard ==
  ASSUME BoardInv, TypeInv', NEW d \in Device, NEW r \in Session, NEW p \in air,
         MatchWith(r, d, p)
  PROVE  BoardInv'
<1> DEFINE m == Matched(r, d, p.from, p.toss)
<1>1. Becomes(d, m, AckFrom(m, d)) /\ board' = [board EXCEPT ![d] = 0]
  BY DEF MatchWith
<1>2. m.state = "Playing" /\ m.sequence = 0 /\ ~m.incomingPending /\ ~m.outgoingPending
  BY MatchedFields
<1> HIDE DEF m
<1>3. BoardKept(m, board'[d]) /\ \A e \in Device \ {d} : board'[e] = board[e]
  BY <1>1, <1>2 DEF BoardInv, TypeInv, TypeOK, BoardKept
<1> QED BY <1>1, <1>3, HonestPackets, BoardStep

LEMMA UserBoard ==
  ASSUME BoardInv, TypeInv', NEW d \in Device, UserStep(d)
  PROVE  BoardInv'
<1>0. sess[d] \in Session
  BY DEF BoardInv, TypeInv, TypeOK
<1>1. CASE Begin(d)
  <2>1. PICK t \in Toss :
          LET r == [ResetSession EXCEPT !.state = "Searching", !.toss = t] IN
          /\ sess' = [sess EXCEPT ![d] = r]
          /\ air' = {p \in air : p.to # d} \cup HelloFrom(r, d)
    BY <1>1 DEF Begin
  <2> DEFINE r == [ResetSession EXCEPT !.state = "Searching", !.toss = t]
  <2>2. r.state = "Searching" /\ ~r.outgoingPending
    BY DEF ResetSession
  <2> HIDE DEF r
  <2>3. /\ sess'[d] = r /\ \A e \in Device \ {d} : sess'[e] = sess[e]
        /\ air' = {p \in air : p.to # d} \cup HelloFrom(r, d)
        /\ UNCHANGED board
    BY <1>1, <2>1 DEF r, Begin, BoardInv, TypeInv, TypeOK
  <2>4. \A p \in air' : HonestState(p)
    BY <2>3, HonestPackets DEF BoardInv, HonestState
  <2> QED BY <2>2, <2>3, <2>4 DEF BoardInv, NoMoveVanishes, HonestState
<1>2. CASE Leave(d)
  <2> DEFINE sent == IF sess[d].state = "Playing"
                     THEN Unicast(sess[d], d, sess[d].peer, "Bye", sess[d].sequence, 0)
                     ELSE {}
  <2>1. \A p \in sent : HonestState(p)
    BY HonestPackets
  <2> HIDE DEF sent
  <2>2. Becomes(d, Over(sess[d], "LocalLeft"), sent) /\ UNCHANGED board
    BY <1>2 DEF Leave, sent
  <2> QED BY <1>0, <2>1, <2>2, OverBoard, BoardStep
<1>3. CASE Vanish(d)
  <2>1. Becomes(d, ResetSession, {}) /\ UNCHANGED board
    BY <1>3 DEF Vanish
  <2>2. BoardKept(ResetSession, board'[d])
    BY DEF ResetSession, BoardKept
  <2> QED BY <2>1, <2>2, BoardStep
<1> QED BY <1>1, <1>2, <1>3 DEF UserStep

LEMMA GameBoard ==
  ASSUME BoardInv, TypeInv', NEW d \in Device, GameStep(d)
  PROVE  BoardInv'
<1>0. /\ sess[d] \in Session /\ sess[d].sequence \in Nat
      /\ BoardKept(sess[d], board[d])
  BY DEF BoardInv, NoMoveVanishes, BoardKept, TypeInv, TypeOK, Session
<1>1. CASE Submit(d)
  <2> DEFINE n == NextSequence(sess[d].sequence)
             s == [sess[d] EXCEPT
                     !.outgoing = board[d] + 1, !.sequence = n,
                     !.outgoingSequence = n, !.outgoingPending = TRUE,
                     !.myTurn = FALSE]
  <2>1. /\ Becomes(d, s, StateFrom(s, d))
        /\ board' = [board EXCEPT ![d] = @ + 1]
        /\ sess[d].state = "Playing" /\ ~sess[d].incomingPending
        /\ sess[d].sequence < MaxSequence
    BY <1>1 DEF Submit
  <2>2. n = board[d] + 1
    BY <1>0, <2>1, BoundAssumption DEF NextSequence, BoardKept
  <2> HIDE DEF n
  <2>3. /\ s.sequence = n /\ s.outgoing = n /\ s.outgoingSequence = n
        /\ s.incomingPending = sess[d].incomingPending
    BY <1>0, <2>2 DEF Session
  <2> HIDE DEF s
  <2>4. board'[d] = n /\ \A e \in Device \ {d} : board'[e] = board[e]
    BY <2>1, <2>2 DEF BoardInv, TypeInv, TypeOK
  <2>5. BoardKept(s, board'[d])
    BY <2>1, <2>3, <2>4 DEF BoardKept
  <2> QED BY <2>1, <2>3, <2>4, <2>5, HonestPackets, BoardStep
<1>2. CASE TakeIncoming(d)
  <2> DEFINE s == [sess[d] EXCEPT !.incomingPending = FALSE]
  <2>1. /\ Becomes(d, s, {}) /\ board' = [board EXCEPT ![d] = sess[d].incoming]
        /\ sess[d].incomingPending
    BY <1>2 DEF TakeIncoming
  <2>2. /\ s.state = sess[d].state /\ s.sequence = sess[d].sequence
        /\ ~s.incomingPending /\ s.outgoing = sess[d].outgoing
        /\ s.outgoingSequence = sess[d].outgoingSequence
        /\ s.outgoingPending = sess[d].outgoingPending
    BY <1>0 DEF Session
  <2> HIDE DEF s
  <2>3. board'[d] = sess[d].incoming /\ \A e \in Device \ {d} : board'[e] = board[e]
    BY <2>1 DEF BoardInv, TypeInv, TypeOK
  <2>4. BoardKept(s, board'[d])
    BY <1>0, <2>1, <2>2, <2>3 DEF BoardKept
  <2> QED BY <2>1, <2>3, <2>4, BoardStep
<1>3. CASE Announce(d)
  <2> DEFINE n == NextSequence(sess[d].outgoingSaySequence)
             s == [sess[d] EXCEPT !.outgoingSaySequence = n,
                                  !.outgoingSayPending = TRUE]
  <2>1. Becomes(d, s, SayFrom(s, d)) /\ UNCHANGED board
    BY <1>3 DEF Announce
  <2>2. SameBoardFields(sess[d], s) /\ s.outgoingPending = sess[d].outgoingPending
    BY <1>0 DEF Session, SameBoardFields
  <2> HIDE DEF s
  <2> QED BY <2>1, <2>2, HonestPackets, BoardIdle
<1>4. CASE TakeAnnouncement(d)
  <2> DEFINE s == [sess[d] EXCEPT !.incomingSayPending = FALSE]
  <2>1. Becomes(d, s, {}) /\ UNCHANGED board
    BY <1>4 DEF TakeAnnouncement
  <2>2. SameBoardFields(sess[d], s) /\ s.outgoingPending = sess[d].outgoingPending
    BY <1>0 DEF Session, SameBoardFields
  <2> HIDE DEF s
  <2> QED BY <2>1, <2>2, BoardIdle
<1> QED BY <1>1, <1>2, <1>3, <1>4 DEF GameStep

LEMMA ClockBoard ==
  ASSUME BoardInv, TypeInv', NEW d \in Device, ClockStep(d)
  PROVE  BoardInv'
<1>0. /\ sess[d] \in Session /\ SameBoardFields(sess[d], sess[d])
      /\ sess[d].outgoingPending => sess[d].outgoing = sess[d].outgoingSequence
  BY DEF BoardInv, TypeInv, TypeOK, SameBoardFields
<1>1. CASE HelloTick(d)
  BY <1>0, <1>1, HonestPackets, BoardIdle DEF HelloTick
<1>2. CASE JoinTick(d)
  BY <1>0, <1>2, HonestPackets, BoardIdle DEF JoinTick
<1>3. CASE ForgetCandidate(d)
  <2> DEFINE s == [sess[d] EXCEPT !.candidate = NoDevice]
  <2>1. Becomes(d, s, {}) /\ UNCHANGED board
    BY <1>3 DEF ForgetCandidate
  <2>2. SameBoardFields(sess[d], s) /\ s.outgoingPending = sess[d].outgoingPending
    BY <1>0 DEF Session, SameBoardFields
  <2> HIDE DEF s
  <2> QED BY <2>1, <2>2, BoardIdle
<1>4. CASE PeerTimeout(d)
  <2>1. Becomes(d, Over(sess[d], "PeerLost"), {}) /\ UNCHANGED board
    BY <1>4 DEF PeerTimeout
  <2> QED BY <1>0, <2>1, OverBoard, BoardStep
<1>5. CASE RetrySay(d)
  BY <1>0, <1>5, HonestPackets, BoardIdle DEF RetrySay
<1>6. CASE RetryState(d)
  BY <1>0, <1>6, HonestPackets, BoardIdle DEF RetryState
<1>7. CASE Heartbeat(d)
  BY <1>0, <1>7, HonestPackets, BoardIdle DEF Heartbeat
<1> QED BY <1>1, <1>2, <1>3, <1>4, <1>5, <1>6, <1>7 DEF ClockStep

LEMMA ReceiveBoard ==
  ASSUME BoardInv, TypeInv', NEW d \in Device, NEW p \in air, Receive(d, p)
  PROVE  BoardInv'
<1>0. /\ sess[d] \in Session /\ SameBoardFields(sess[d], sess[d])
      /\ p \in Packet /\ p.from \in Device /\ HonestState(p)
      /\ BoardKept(sess[d], board[d])
  BY DEF BoardInv, NoMoveVanishes, BoardKept, TypeInv, TypeOK, Packet,
         SameBoardFields, HonestState
<1>a. /\ Noticed(sess[d], p.from) \in Session
      /\ SameBoardFields(sess[d], Noticed(sess[d], p.from))
      /\ Noticed(sess[d], p.from).outgoingPending = sess[d].outgoingPending
  BY <1>0, NoticedType DEF Noticed, Session, SameBoardFields
<1>1. CASE HearDiscovery(d, p)
  BY <1>1, <1>a, BoardIdle DEF HearDiscovery
<1>2. CASE HearAgreement(d, p)
  BY <1>2, <1>a, MatchBoard DEF HearAgreement
<1>3. CASE HearMatchTraffic(d, p)
  BY <1>0, <1>3, MatchBoard DEF HearMatchTraffic
<1>4. CASE HearJoin(d, p)
  BY <1>0, <1>4, HonestPackets, BoardIdle DEF HearJoin
<1>5. CASE HearState(d, p)
  <2> DEFINE s == Adopted(sess[d], p)
  <2>1. Becomes(d, s, AckFrom(s, d)) /\ UNCHANGED board /\ p.type = "State"
    BY <1>5 DEF HearState
  <2>2. BoardKept(s, board[d])
    <3>1. CASE p.seq > sess[d].sequence
      BY <1>0, <2>1, <3>1 DEF Adopted, Session, BoardKept, HonestState
    <3>2. CASE ~(p.seq > sess[d].sequence)
      BY <1>0, <3>2 DEF Adopted, Session, BoardKept
    <3> QED BY <3>1, <3>2
  <2> HIDE DEF s
  <2> QED BY <2>1, <2>2, HonestPackets, BoardStep
<1>6. CASE HearAck(d, p)
  <2> DEFINE still == sess[d].outgoingPending /\ p.seq < sess[d].outgoingSequence
             s == [sess[d] EXCEPT !.peerConfirmed = TRUE, !.outgoingPending = still]
  <2>1. Becomes(d, s, {}) /\ UNCHANGED board
    BY <1>6 DEF HearAck
  <2>2. SameBoardFields(sess[d], s) /\ (s.outgoingPending => sess[d].outgoingPending)
    BY <1>0 DEF Session, SameBoardFields
  <2> HIDE DEF s
  <2> QED BY <2>1, <2>2, BoardIdle
<1>7. CASE HearSay(d, p)
  <2> DEFINE s == NoteHeard(sess[d], p)
  <2>1. Becomes(d, s, SayAckFrom(s, d)) /\ UNCHANGED board
    BY <1>7 DEF HearSay
  <2>2. SameBoardFields(sess[d], s) /\ s.outgoingPending = sess[d].outgoingPending
    BY <1>0 DEF NoteHeard, Session, SameBoardFields
  <2> HIDE DEF s
  <2> QED BY <2>1, <2>2, HonestPackets, BoardIdle
<1>8. CASE HearSayAck(d, p)
  <2> DEFINE still == sess[d].outgoingSayPending /\ p.seq < sess[d].outgoingSaySequence
             s == [sess[d] EXCEPT !.peerConfirmed = TRUE, !.outgoingSayPending = still]
  <2>1. Becomes(d, s, {}) /\ UNCHANGED board
    BY <1>8 DEF HearSayAck
  <2>2. SameBoardFields(sess[d], s) /\ s.outgoingPending = sess[d].outgoingPending
    BY <1>0 DEF Session, SameBoardFields
  <2> HIDE DEF s
  <2> QED BY <2>1, <2>2, BoardIdle
<1>9. CASE HearDeparture(d, p)
  <2>1. Becomes(d, Over(sess[d], "PeerLeft"), {}) /\ UNCHANGED board
    BY <1>9 DEF HearDeparture
  <2> QED BY <1>0, <2>1, OverBoard, BoardStep
<1> QED BY <1>1, <1>2, <1>3, <1>4, <1>5, <1>6, <1>7, <1>8, <1>9 DEF Receive

LEMMA InitBoard == Init => BoardInv
<1> SUFFICES ASSUME Init PROVE BoardInv
  OBVIOUS
<1>1. TypeInv
  BY InitTyped
<1>2. \A d \in Device : sess[d].state = "Idle" /\ ~sess[d].outgoingPending
  BY DEF Init, ResetSession
<1>3. air = {}
  BY DEF Init
<1> QED BY <1>1, <1>2, <1>3 DEF BoardInv, NoMoveVanishes

LEMMA NextBoard == BoardInv /\ [Next]_vars => BoardInv'
<1> SUFFICES ASSUME BoardInv, [Next]_vars
             PROVE  BoardInv'
  OBVIOUS
<1>0. TypeInv'
  BY NextTyped DEF BoardInv
<1>1. CASE UNCHANGED vars
  BY <1>0, <1>1 DEF BoardInv, NoMoveVanishes, vars
<1>2. CASE \E d \in Device : UserStep(d) \/ GameStep(d) \/ ClockStep(d)
  BY <1>0, <1>2, UserBoard, GameBoard, ClockBoard
<1>3. CASE \E p \in air : Receive(p.to, p)
  BY <1>0, <1>3, ReceiveBoard DEF BoardInv, TypeInv, TypeOK, Packet
<1>4. CASE \E p \in air : Lose(p)
  BY <1>0, <1>4 DEF Lose, BoardInv, NoMoveVanishes
<1> QED BY <1>1, <1>2, <1>3, <1>4 DEF Next

(* However often devices come and go, the board a device plays on carries  *)
(* every move its counter counts: no move is computed from a stale board,  *)
(* and none is lost between the two sides.  (submit, takeIncoming)         *)
THEOREM BoardsComplete == Spec => []NoMoveVanishes
<1>1. BoardInv => NoMoveVanishes
  BY DEF BoardInv
<1> QED BY InitBoard, NextBoard, <1>1, PTL DEF Spec

(***************************************************************************)
(* Notes.                                                                  *)
(***************************************************************************)

(* What a step must leave true of the device that takes it, t being the    *)
(* newest note its game was handed.                                        *)
NoteKept(r, t) ==
  /\ r.incomingSayPending => r.peerSaySequence > t
  /\ r.state = "Playing" => t <= r.peerSaySequence

SameNoteFields(r, s) ==
  /\ s.peerSaySequence = r.peerSaySequence
  /\ s.incomingSayPending <=> r.incomingSayPending
  /\ s.state = "Playing" => r.state = "Playing"

LEMMA NoteStep ==
  ASSUME NoteInv, TypeInv', NEW d \in Device,
         OnlyChanges(d), \A e \in Device \ {d} : told'[e] = told[e],
         NoteKept(sess'[d], told'[d])
  PROVE  NoteInv'
<1>1. \A e \in Device : NoteKept(sess[e], told[e])
  BY DEF NoteInv, NoteOnce, NoteKept, Playing
<1>2. \A e \in Device : NoteKept(sess'[e], told'[e])
  BY <1>1 DEF OnlyChanges
<1> QED BY <1>2 DEF NoteInv, NoteOnce, NoteKept, Playing

(* A step that leaves the notes alone. *)
LEMMA NoteIdle ==
  ASSUME NoteInv, TypeInv', NEW d \in Device, NEW s, NEW sent,
         Becomes(d, s, sent), UNCHANGED told, SameNoteFields(sess[d], s)
  PROVE  NoteInv'
<1>1. NoteKept(s, told'[d])
  BY DEF NoteInv, NoteOnce, NoteKept, SameNoteFields, Playing
<1>2. OnlyChanges(d) /\ sess'[d] = s
  BY BecomesChanges DEF NoteInv
<1> QED BY <1>1, <1>2, NoteStep

LEMMA OverNotes ==
  ASSUME NEW r \in Session, NEW reason
  PROVE  SameNoteFields(r, Over(r, reason))
BY DEF Over, Session, SameNoteFields

(* A match starts without a note, on both sides of the session. *)
LEMMA MatchNotes ==
  ASSUME NoteInv, TypeInv', NEW d \in Device, NEW r \in Session, NEW p \in air,
         MatchWith(r, d, p)
  PROVE  NoteInv'
<1> DEFINE m == Matched(r, d, p.from, p.toss)
<1>1. Becomes(d, m, AckFrom(m, d)) /\ told' = [told EXCEPT ![d] = 0]
  BY DEF MatchWith
<1>2. m.peerSaySequence = 0 /\ ~m.incomingSayPending
  BY DEF Matched, ResetSession
<1> HIDE DEF m
<1>3. told'[d] = 0 /\ \A e \in Device \ {d} : told'[e] = told[e]
  BY <1>1 DEF NoteInv, TypeInv, TypeOK
<1>4. OnlyChanges(d) /\ sess'[d] = m
  BY <1>1, BecomesChanges DEF NoteInv
<1>5. NoteKept(sess'[d], told'[d])
  BY <1>2, <1>3, <1>4 DEF NoteKept
<1> QED BY <1>3, <1>4, <1>5, NoteStep

LEMMA UserNotes ==
  ASSUME NoteInv, TypeInv', NEW d \in Device, UserStep(d)
  PROVE  NoteInv'
<1>0. sess[d] \in Session
  BY DEF NoteInv, TypeInv, TypeOK
<1>1. CASE Begin(d)
  <2>1. PICK t \in Toss :
          LET r == [ResetSession EXCEPT !.state = "Searching", !.toss = t] IN
          /\ sess' = [sess EXCEPT ![d] = r]
          /\ air' = {p \in air : p.to # d} \cup HelloFrom(r, d)
    BY <1>1 DEF Begin
  <2> DEFINE r == [ResetSession EXCEPT !.state = "Searching", !.toss = t]
  <2>2. r.state = "Searching" /\ ~r.incomingSayPending
    BY DEF ResetSession
  <2> HIDE DEF r
  <2>3. sess'[d] = r /\ OnlyChanges(d) /\ UNCHANGED told
    BY <1>1, <2>1 DEF r, Begin, NoteInv, TypeInv, TypeOK, OnlyChanges
  <2> QED BY <2>2, <2>3, NoteStep DEF NoteKept
<1>2. CASE Leave(d)
  BY <1>0, <1>2, OverNotes, NoteIdle DEF Leave
<1>3. CASE Vanish(d)
  <2>1. ResetSession.state = "Idle" /\ ~ResetSession.incomingSayPending
    BY DEF ResetSession
  <2>2. Becomes(d, ResetSession, {}) /\ UNCHANGED told
    BY <1>3 DEF Vanish
  <2>3. sess'[d] = ResetSession /\ OnlyChanges(d)
    BY <2>2, BecomesChanges DEF NoteInv
  <2> QED BY <2>1, <2>2, <2>3, NoteStep DEF NoteKept
<1> QED BY <1>1, <1>2, <1>3 DEF UserStep

LEMMA GameNotes ==
  ASSUME NoteInv, TypeInv', NEW d \in Device, GameStep(d)
  PROVE  NoteInv'
<1>0. /\ sess[d] \in Session /\ sess[d].peerSaySequence \in Nat
      /\ NoteKept(sess[d], told[d])
  BY DEF NoteInv, NoteOnce, NoteKept, TypeInv, TypeOK, Session, Playing
<1>1. CASE Submit(d)
  <2> DEFINE n == NextSequence(sess[d].sequence)
             s == [sess[d] EXCEPT
                     !.outgoing = board[d] + 1, !.sequence = n,
                     !.outgoingSequence = n, !.outgoingPending = TRUE,
                     !.myTurn = FALSE]
  <2>1. Becomes(d, s, StateFrom(s, d)) /\ UNCHANGED told
    BY <1>1 DEF Submit
  <2>2. SameNoteFields(sess[d], s)
    BY <1>0 DEF Session, SameNoteFields
  <2> HIDE DEF s
  <2> QED BY <2>1, <2>2, NoteIdle
<1>2. CASE TakeIncoming(d)
  <2> DEFINE s == [sess[d] EXCEPT !.incomingPending = FALSE]
  <2>1. Becomes(d, s, {}) /\ UNCHANGED told
    BY <1>2 DEF TakeIncoming
  <2>2. SameNoteFields(sess[d], s)
    BY <1>0 DEF Session, SameNoteFields
  <2> HIDE DEF s
  <2> QED BY <2>1, <2>2, NoteIdle
<1>3. CASE Announce(d)
  <2> DEFINE n == NextSequence(sess[d].outgoingSaySequence)
             s == [sess[d] EXCEPT !.outgoingSaySequence = n,
                                  !.outgoingSayPending = TRUE]
  <2>1. Becomes(d, s, SayFrom(s, d)) /\ UNCHANGED told
    BY <1>3 DEF Announce
  <2>2. SameNoteFields(sess[d], s)
    BY <1>0 DEF Session, SameNoteFields
  <2> HIDE DEF s
  <2> QED BY <2>1, <2>2, NoteIdle
<1>4. CASE TakeAnnouncement(d)
  <2> DEFINE s == [sess[d] EXCEPT !.incomingSayPending = FALSE]
  <2>1. Becomes(d, s, {}) /\ told' = [told EXCEPT ![d] = sess[d].peerSaySequence]
    BY <1>4 DEF TakeAnnouncement
  <2>2. ~s.incomingSayPending /\ s.peerSaySequence = sess[d].peerSaySequence
    BY <1>0 DEF Session
  <2> HIDE DEF s
  <2>3. /\ told'[d] = sess[d].peerSaySequence
        /\ \A e \in Device \ {d} : told'[e] = told[e]
    BY <2>1 DEF NoteInv, TypeInv, TypeOK
  <2>4. OnlyChanges(d) /\ sess'[d] = s
    BY <2>1, BecomesChanges DEF NoteInv
  <2>5. NoteKept(sess'[d], told'[d])
    BY <1>0, <2>2, <2>3, <2>4 DEF NoteKept
  <2> QED BY <2>3, <2>4, <2>5, NoteStep
<1> QED BY <1>1, <1>2, <1>3, <1>4 DEF GameStep

LEMMA ClockNotes ==
  ASSUME NoteInv, TypeInv', NEW d \in Device, ClockStep(d)
  PROVE  NoteInv'
<1>0. sess[d] \in Session /\ SameNoteFields(sess[d], sess[d])
  BY DEF NoteInv, TypeInv, TypeOK, SameNoteFields
<1>1. CASE HelloTick(d)
  BY <1>0, <1>1, NoteIdle DEF HelloTick
<1>2. CASE JoinTick(d)
  BY <1>0, <1>2, NoteIdle DEF JoinTick
<1>3. CASE ForgetCandidate(d)
  <2> DEFINE s == [sess[d] EXCEPT !.candidate = NoDevice]
  <2>1. Becomes(d, s, {}) /\ UNCHANGED told
    BY <1>3 DEF ForgetCandidate
  <2>2. SameNoteFields(sess[d], s)
    BY <1>0 DEF Session, SameNoteFields
  <2> HIDE DEF s
  <2> QED BY <2>1, <2>2, NoteIdle
<1>4. CASE PeerTimeout(d)
  BY <1>0, <1>4, OverNotes, NoteIdle DEF PeerTimeout
<1>5. CASE RetrySay(d)
  BY <1>0, <1>5, NoteIdle DEF RetrySay
<1>6. CASE RetryState(d)
  BY <1>0, <1>6, NoteIdle DEF RetryState
<1>7. CASE Heartbeat(d)
  BY <1>0, <1>7, NoteIdle DEF Heartbeat
<1> QED BY <1>1, <1>2, <1>3, <1>4, <1>5, <1>6, <1>7 DEF ClockStep

LEMMA ReceiveNotes ==
  ASSUME NoteInv, TypeInv', NEW d \in Device, NEW p \in air, Receive(d, p)
  PROVE  NoteInv'
<1>0. /\ sess[d] \in Session /\ sess[d].peerSaySequence \in Nat
      /\ SameNoteFields(sess[d], sess[d]) /\ NoteKept(sess[d], told[d])
      /\ p \in Packet /\ p.from \in Device /\ p.seq \in Nat /\ told[d] \in Nat
  BY DEF NoteInv, NoteOnce, NoteKept, TypeInv, TypeOK, Packet, Session,
         SameNoteFields, Playing
<1>a. /\ Noticed(sess[d], p.from) \in Session
      /\ SameNoteFields(sess[d], Noticed(sess[d], p.from))
  BY <1>0, NoticedType DEF Noticed, Session, SameNoteFields
<1>1. CASE HearDiscovery(d, p)
  BY <1>1, <1>a, NoteIdle DEF HearDiscovery
<1>2. CASE HearAgreement(d, p)
  BY <1>2, <1>a, MatchNotes DEF HearAgreement
<1>3. CASE HearMatchTraffic(d, p)
  BY <1>0, <1>3, MatchNotes DEF HearMatchTraffic
<1>4. CASE HearJoin(d, p)
  BY <1>0, <1>4, NoteIdle DEF HearJoin
<1>5. CASE HearState(d, p)
  <2> DEFINE s == Adopted(sess[d], p)
  <2>1. Becomes(d, s, AckFrom(s, d)) /\ UNCHANGED told
    BY <1>5 DEF HearState
  <2>2. SameNoteFields(sess[d], s)
    BY <1>0 DEF Adopted, Session, SameNoteFields
  <2> HIDE DEF s
  <2> QED BY <2>1, <2>2, NoteIdle
<1>6. CASE HearAck(d, p)
  <2> DEFINE still == sess[d].outgoingPending /\ p.seq < sess[d].outgoingSequence
             s == [sess[d] EXCEPT !.peerConfirmed = TRUE, !.outgoingPending = still]
  <2>1. Becomes(d, s, {}) /\ UNCHANGED told
    BY <1>6 DEF HearAck
  <2>2. SameNoteFields(sess[d], s)
    BY <1>0 DEF Session, SameNoteFields
  <2> HIDE DEF s
  <2> QED BY <2>1, <2>2, NoteIdle
<1>7. CASE HearSay(d, p)
  <2> DEFINE s == NoteHeard(sess[d], p)
  <2>1. Becomes(d, s, SayAckFrom(s, d)) /\ UNCHANGED told /\ sess[d].state = "Playing"
    BY <1>7 DEF HearSay, FromPeer
  <2>2. NoteKept(s, told[d])
    <3>1. CASE p.seq > sess[d].peerSaySequence
      BY <1>0, <2>1, <3>1 DEF NoteHeard, Session, NoteKept
    <3>2. CASE ~(p.seq > sess[d].peerSaySequence)
      BY <1>0, <3>2 DEF NoteHeard, Session, NoteKept
    <3> QED BY <3>1, <3>2
  <2> HIDE DEF s
  <2>3. OnlyChanges(d) /\ sess'[d] = s
    BY <2>1, BecomesChanges DEF NoteInv
  <2> QED BY <2>1, <2>2, <2>3, NoteStep
<1>8. CASE HearSayAck(d, p)
  <2> DEFINE still == sess[d].outgoingSayPending /\ p.seq < sess[d].outgoingSaySequence
             s == [sess[d] EXCEPT !.peerConfirmed = TRUE, !.outgoingSayPending = still]
  <2>1. Becomes(d, s, {}) /\ UNCHANGED told
    BY <1>8 DEF HearSayAck
  <2>2. SameNoteFields(sess[d], s)
    BY <1>0 DEF Session, SameNoteFields
  <2> HIDE DEF s
  <2> QED BY <2>1, <2>2, NoteIdle
<1>9. CASE HearDeparture(d, p)
  BY <1>0, <1>9, OverNotes, NoteIdle DEF HearDeparture
<1> QED BY <1>1, <1>2, <1>3, <1>4, <1>5, <1>6, <1>7, <1>8, <1>9 DEF Receive

LEMMA InitNotes == Init => NoteInv
<1> SUFFICES ASSUME Init PROVE NoteInv
  OBVIOUS
<1>1. TypeInv
  BY InitTyped
<1>2. \A d \in Device : sess[d].state = "Idle" /\ ~sess[d].incomingSayPending
  BY DEF Init, ResetSession
<1> QED BY <1>1, <1>2 DEF NoteInv, NoteOnce, Playing

LEMMA NextNotes == NoteInv /\ [Next]_vars => NoteInv'
<1> SUFFICES ASSUME NoteInv, [Next]_vars
             PROVE  NoteInv'
  OBVIOUS
<1>0. TypeInv'
  BY NextTyped DEF NoteInv
<1>1. CASE UNCHANGED vars
  BY <1>0, <1>1 DEF NoteInv, NoteOnce, Playing, vars
<1>2. CASE \E d \in Device : UserStep(d) \/ GameStep(d) \/ ClockStep(d)
  BY <1>0, <1>2, UserNotes, GameNotes, ClockNotes
<1>3. CASE \E p \in air : Receive(p.to, p)
  BY <1>0, <1>3, ReceiveNotes DEF NoteInv, TypeInv, TypeOK, Packet
<1>4. CASE \E p \in air : Lose(p)
  BY <1>0, <1>4 DEF Lose, NoteInv, NoteOnce, Playing
<1> QED BY <1>1, <1>2, <1>3, <1>4 DEF Next

(* However many copies of a note arrive, in whatever order and across      *)
(* however many matches, the game is handed each note of a match at most   *)
(* once.  (the Say case of handlePacket, takeAnnouncement)                 *)
THEOREM NoteHandedOnce == Spec => []NoteOnce
<1>1. NoteInv => NoteOnce
  BY DEF NoteInv
<1> QED BY InitNotes, NextNotes, <1>1, PTL DEF Spec

-----------------------------------------------------------------------------
(***************************************************************************)
(* Devices that go through MULTIPLAYER once.  The two sides of a match     *)
(* agree who moves first, never hold the turn both, never lose it, and are *)
(* only confirmed when the match is mutual; a note said last and still     *)
(* unanswered is in the air or heard; and the sessions of two devices that *)
(* stay implement AlternatingMatch.                                        *)
(*                                                                         *)
(* The actions fall into six kinds of step; MatchInv, ReachInv (notes) and *)
(* PairInv (the refinement) are proved kind by kind.                       *)
(***************************************************************************)

(* What a packet says about the session r of the device d that sends it. *)
MaySend(r, d, p) ==
  /\ p.from = d /\ p.toss = r.toss
  /\ r.state \in {"Searching", "Playing"}
  /\ p.type \in MatchType => r.state = "Playing" /\ p.to = r.peer
  /\ p.type = "State" => r.outgoingPending /\ p.seq = r.outgoingSequence
  /\ p.type = "Ack" => p.seq = r.sequence
  /\ p.type = "SayAck" => p.seq = r.peerSaySequence

Sends(r, d) == \A p \in air' : p \in air \/ MaySend(r, d, p)

SameMatch(r, s) == /\ s.state = r.state /\ s.peer = r.peer /\ s.toss = r.toss
                   /\ s.isHost = r.isHost

SameNotes(r, s) == /\ s.outgoingSaySequence = r.outgoingSaySequence
                   /\ s.outgoingSayPending = r.outgoingSayPending
                   /\ s.peerSaySequence = r.peerSaySequence

(* A note stays pending until an acknowledgement of it arrives. *)
Converses(d) ==
  /\ sess'[d].peerSaySequence >= sess[d].peerSaySequence
  /\ ~sess'[d].outgoingSayPending
       => /\ sess'[d].outgoingSaySequence = sess[d].outgoingSaySequence
          /\ sess[d].outgoingSayPending
               => \E p \in air : /\ p.from = sess[d].peer /\ p.to = d
                                 /\ p.type = "SayAck"
                                 /\ p.seq >= sess[d].outgoingSaySequence
                                 /\ sess[d].state = "Playing"

Enters(d) ==
  /\ begins[d] < MaxBegins
  /\ begins' = [begins EXCEPT ![d] = @ + 1]
  /\ sess'[d].state = "Searching"
  /\ sess'[d].peer = NoDevice /\ sess'[d].sequence = 0
  /\ \A p \in air' : \/ p \in air /\ p.to # d
                     \/ MaySend(sess'[d], d, p)

Quits(d) ==
  /\ UNCHANGED begins
  /\ sess'[d].state \in {"Idle", "Ended"}
  /\ Sends(sess[d], d)

(* Session::end: what the match was is still there to be looked at. *)
Departs(d) ==
  /\ Quits(d)
  /\ sess'[d].state = "Ended" /\ sess[d].state # "Idle"
  /\ sess'[d].peer = sess[d].peer /\ sess'[d].toss = sess[d].toss
  /\ sess'[d].isHost = sess[d].isHost /\ sess'[d].sequence = sess[d].sequence

Matches(d) ==
  /\ UNCHANGED begins
  /\ sess[d].state = "Searching"
  /\ \E p \in air :
       /\ p.to = d
       /\ p.type \in {"Join", "Ack", "State", "Say", "SayAck"}
       /\ sess'[d].state = "Playing" /\ sess'[d].peer = p.from
       /\ sess'[d].toss = sess[d].toss
       /\ sess'[d].isHost <=> MovesFirst(d, sess[d].toss, p.from, p.toss)
       /\ sess'[d].myTurn <=> MovesFirst(d, sess[d].toss, p.from, p.toss)
  /\ sess'[d].sequence = 0
  /\ ~sess'[d].outgoingPending /\ ~sess'[d].peerConfirmed
  /\ sess'[d].outgoingSaySequence = 0 /\ sess'[d].peerSaySequence = 0
  /\ Sends(sess'[d], d)

Moves(d) ==
  /\ UNCHANGED begins
  /\ sess[d].state = "Playing" /\ sess[d].myTurn
  /\ SameMatch(sess[d], sess'[d]) /\ SameNotes(sess[d], sess'[d])
  /\ sess'[d].peerConfirmed = sess[d].peerConfirmed
  /\ sess'[d].sequence = sess[d].sequence + 1
  /\ sess'[d].outgoingSequence = sess[d].sequence + 1
  /\ sess'[d].outgoingPending /\ ~sess'[d].myTurn
  /\ Sends(sess'[d], d)

Adopts(d) ==
  /\ UNCHANGED begins
  /\ sess[d].state = "Playing"
  /\ SameMatch(sess[d], sess'[d]) /\ SameNotes(sess[d], sess'[d])
  /\ \E p \in air :
       /\ p.from = sess[d].peer /\ p.to = d /\ p.type = "State"
       /\ p.seq > sess[d].sequence
       /\ sess'[d].sequence = p.seq
  /\ sess'[d].myTurn /\ ~sess'[d].outgoingPending
  /\ Sends(sess'[d], d)

Keeps(d) ==
  /\ UNCHANGED begins
  /\ SameMatch(sess[d], sess'[d]) /\ Converses(d)
  /\ sess'[d].myTurn = sess[d].myTurn
  /\ sess'[d].sequence = sess[d].sequence
  /\ sess'[d].outgoingSequence = sess[d].outgoingSequence
  /\ sess'[d].outgoingPending => sess[d].outgoingPending
  /\ (sess[d].outgoingPending /\ ~sess'[d].outgoingPending)
       => \E p \in air : /\ p.from = sess[d].peer /\ p.to = d /\ p.type = "Ack"
                         /\ p.seq >= sess[d].outgoingSequence
                         /\ sess[d].state = "Playing"
  /\ (sess'[d].peerConfirmed /\ ~sess[d].peerConfirmed)
       => \E p \in air : /\ p.from = sess[d].peer /\ p.to = d
                         /\ p.type \in MatchType
                         /\ sess[d].state = "Playing"
  /\ Sends(sess'[d], d)

Dwindles == UNCHANGED <<sess, begins>> /\ air' \subseteq air

StayOf(d) == /\ OnlyChanges(d)
             /\ \/ Enters(d) \/ Departs(d) \/ Matches(d)
                \/ Moves(d) \/ Adopts(d) \/ Keeps(d)

StepOf(d) == StayOf(d) \/ (OnlyChanges(d) /\ Quits(d))

(* What the session's packets say. *)
LEMMA SendLemma ==
  ASSUME NEW r \in Session, NEW d \in Device
  PROVE  /\ r.state = "Searching"
              => \A p \in HelloFrom(r, d) \cup JoinFrom(r, d) : MaySend(r, d, p)
         /\ r.state = "Playing"
              => \A p \in JoinFrom(r, d) \cup AckFrom(r, d) \cup SayFrom(r, d)
                            \cup SayAckFrom(r, d)
                            \cup Unicast(r, d, r.peer, "Bye", r.sequence, 0) :
                   MaySend(r, d, p)
         /\ r.state = "Playing" /\ r.outgoingPending
              => \A p \in StateFrom(r, d) : MaySend(r, d, p)
BY DEF MaySend, HelloFrom, JoinFrom, AckFrom, SayFrom, SayAckFrom, StateFrom,
       Unicast, MatchType

(* A session that changes only in fields the invariant does not look at. *)
LEMMA IdleStep ==
  ASSUME TypeInv, NEW d \in Device, NEW s \in Session, NEW sent,
         Becomes(d, s, sent), UNCHANGED begins,
         SameMatch(sess[d], s), SameNotes(sess[d], s), s.myTurn = sess[d].myTurn,
         s.sequence = sess[d].sequence,
         s.outgoingSequence = sess[d].outgoingSequence,
         s.outgoingPending = sess[d].outgoingPending,
         s.peerConfirmed = sess[d].peerConfirmed,
         \A p \in sent : MaySend(s, d, p)
  PROVE  StayOf(d)
<1>1. OnlyChanges(d) /\ sess'[d] = s /\ air' = air \cup sent
  BY BecomesChanges
<1>2. Converses(d)
  BY <1>1 DEF Converses, SameNotes, TypeInv, TypeOK, Session
<1>3. Keeps(d)
  BY <1>1, <1>2 DEF Keeps, Sends
<1> QED BY <1>1, <1>3 DEF StayOf

(* The match is over on d, which may say Bye. *)
LEMMA OverKind ==
  ASSUME TypeInv, NEW d \in Device, NEW reason \in EndReason, NEW sent,
         Becomes(d, Over(sess[d], reason), sent), UNCHANGED begins,
         sess[d].state \in {"Searching", "Playing"},
         \A p \in sent : MaySend(sess[d], d, p)
  PROVE  StayOf(d)
<1> DEFINE s == Over(sess[d], reason)
<1>1. /\ s.state = "Ended" /\ s.peer = sess[d].peer /\ s.toss = sess[d].toss
      /\ s.isHost = sess[d].isHost /\ s.sequence = sess[d].sequence
  BY DEF Over, TypeInv, TypeOK, Session
<1> HIDE DEF s
<1>2. OnlyChanges(d) /\ sess'[d] = s /\ air' = air \cup sent
  BY BecomesChanges DEF s
<1>3. Departs(d)
  BY <1>1, <1>2 DEF Departs, Quits, Sends
<1> QED BY <1>2, <1>3 DEF StayOf

LEMMA BeginKind ==
  ASSUME TypeInv, NEW d \in Device, Begin(d)
  PROVE  StayOf(d)
<1>1. PICK t \in Toss :
        LET r == [ResetSession EXCEPT !.state = "Searching", !.toss = t] IN
        /\ sess' = [sess EXCEPT ![d] = r]
        /\ air' = {p \in air : p.to # d} \cup HelloFrom(r, d)
  BY DEF Begin
<1> DEFINE r == [ResetSession EXCEPT !.state = "Searching", !.toss = t]
<1>2. r \in Session /\ r.state = "Searching" /\ r.peer = NoDevice /\ r.sequence = 0
  BY TossAssumption DEF ResetSession, Session, State, EndReason
<1> HIDE DEF r
<1>3. sess' = [sess EXCEPT ![d] = r]
      /\ air' = {p \in air : p.to # d} \cup HelloFrom(r, d)
  BY <1>1 DEF r
<1>4. OnlyChanges(d) /\ sess'[d] = r
  BY <1>3 DEF TypeInv, TypeOK, OnlyChanges
<1>5. Enters(d)
  BY <1>2, <1>3, <1>4, SendLemma DEF Enters, Begin
<1> QED BY <1>4, <1>5 DEF StayOf

LEMMA LeaveKind ==
  ASSUME TypeInv, NEW d \in Device, Leave(d)
  PROVE  StayOf(d)
<1> DEFINE sent == IF sess[d].state = "Playing"
                   THEN Unicast(sess[d], d, sess[d].peer, "Bye", sess[d].sequence, 0)
                   ELSE {}
<1>1. \A p \in sent : MaySend(sess[d], d, p)
  BY SendLemma DEF TypeInv, TypeOK
<1> HIDE DEF sent
<1>2. /\ Becomes(d, Over(sess[d], "LocalLeft"), sent) /\ UNCHANGED begins
      /\ sess[d].state \in {"Searching", "Playing"}
  BY DEF Leave, sent
<1> QED BY <1>1, <1>2, OverKind DEF EndReason

LEMMA VanishKind ==
  ASSUME TypeInv, NEW d \in Device, Vanish(d)
  PROVE  StepOf(d)
<1>1. Becomes(d, ResetSession, {}) /\ UNCHANGED begins
  BY DEF Vanish
<1>2. OnlyChanges(d) /\ sess'[d].state = "Idle" /\ air' = air \cup {}
  BY <1>1, BecomesChanges, ResetType
<1> QED BY <1>1, <1>2 DEF StepOf, Quits, Sends

LEMMA GameKind ==
  ASSUME TypeInv, NEW d \in Device, GameStep(d)
  PROVE  StayOf(d)
<1>0. sess[d] \in Session /\ sess[d].sequence \in Nat
  BY DEF TypeInv, TypeOK, Session
<1>1. CASE Submit(d)
  <2> DEFINE n == NextSequence(sess[d].sequence)
             s == [sess[d] EXCEPT
                     !.outgoing = board[d] + 1, !.sequence = n,
                     !.outgoingSequence = n, !.outgoingPending = TRUE,
                     !.myTurn = FALSE]
  <2>1. /\ Becomes(d, s, StateFrom(s, d)) /\ UNCHANGED begins
        /\ sess[d].state = "Playing" /\ sess[d].myTurn /\ sess[d].sequence < MaxSequence
    BY <1>1 DEF Submit
  <2>2. n = sess[d].sequence + 1 /\ n \in Nat /\ board[d] + 1 \in Nat
    BY <1>0, <2>1, BoundAssumption DEF NextSequence, TypeInv, TypeOK
  <2> HIDE DEF n
  <2>3. /\ s \in Session /\ SameMatch(sess[d], s) /\ SameNotes(sess[d], s)
        /\ s.peerConfirmed = sess[d].peerConfirmed /\ s.sequence = n
        /\ s.outgoingSequence = n /\ s.outgoingPending /\ ~s.myTurn
    BY ZenonT(40), <1>0, <2>2, SubmittedType DEF Session, SameMatch, SameNotes
  <2> HIDE DEF s
  <2>4. OnlyChanges(d) /\ sess'[d] = s /\ air' = air \cup StateFrom(s, d)
    BY <2>1, BecomesChanges
  <2>5. \A p \in StateFrom(s, d) : MaySend(s, d, p)
    BY <2>1, <2>3, SendLemma DEF SameMatch
  <2>6. Moves(d)
    BY <2>1, <2>2, <2>3, <2>4, <2>5 DEF Moves, Sends
  <2> QED BY <2>4, <2>6 DEF StayOf
<1>2. CASE TakeIncoming(d)
  <2> DEFINE s == [sess[d] EXCEPT !.incomingPending = FALSE]
  <2>1. Becomes(d, s, {}) /\ UNCHANGED begins
    BY <1>2 DEF TakeIncoming
  <2>2. /\ s \in Session /\ SameMatch(sess[d], s) /\ SameNotes(sess[d], s)
        /\ s.myTurn = sess[d].myTurn
        /\ s.sequence = sess[d].sequence
        /\ s.outgoingSequence = sess[d].outgoingSequence
        /\ s.outgoingPending = sess[d].outgoingPending
        /\ s.peerConfirmed = sess[d].peerConfirmed
    BY <1>0 DEF Session, SameMatch, SameNotes
  <2> HIDE DEF s
  <2> QED BY <2>1, <2>2, IdleStep
<1>3. CASE Announce(d)
  <2> DEFINE n == NextSequence(sess[d].outgoingSaySequence)
             s == [sess[d] EXCEPT !.outgoingSaySequence = n,
                                  !.outgoingSayPending = TRUE]
  <2>1. /\ Becomes(d, s, SayFrom(s, d)) /\ UNCHANGED begins
        /\ sess[d].state = "Playing"
    BY <1>3 DEF Announce
  <2>2. n \in Nat
    BY <1>0, SequenceType DEF Session
  <2>3. s \in Session
    BY <1>0, <2>2, AnnouncedType
  <2>4. /\ SameMatch(sess[d], s) /\ s.myTurn = sess[d].myTurn
        /\ s.sequence = sess[d].sequence
        /\ s.outgoingSequence = sess[d].outgoingSequence
        /\ s.outgoingPending = sess[d].outgoingPending
        /\ s.peerConfirmed = sess[d].peerConfirmed
        /\ s.outgoingSayPending /\ s.peerSaySequence = sess[d].peerSaySequence
    BY <1>0 DEF Session, SameMatch
  <2> HIDE DEF s
  <2>5. \A p \in SayFrom(s, d) : MaySend(s, d, p)
    BY <2>1, <2>3, <2>4, SendLemma DEF SameMatch
  <2>6. OnlyChanges(d) /\ sess'[d] = s /\ air' = air \cup SayFrom(s, d)
    BY <2>1, BecomesChanges
  <2>7. Converses(d)
    BY <2>3, <2>4, <2>6 DEF Converses, Session
  <2>8. Keeps(d)
    BY <2>1, <2>4, <2>5, <2>6, <2>7 DEF Keeps, Sends
  <2> QED BY <2>6, <2>8 DEF StayOf
<1>4. CASE TakeAnnouncement(d)
  <2> DEFINE s == [sess[d] EXCEPT !.incomingSayPending = FALSE]
  <2>1. Becomes(d, s, {}) /\ UNCHANGED begins
    BY <1>4 DEF TakeAnnouncement
  <2>2. /\ s \in Session /\ SameMatch(sess[d], s) /\ SameNotes(sess[d], s)
        /\ s.myTurn = sess[d].myTurn
        /\ s.sequence = sess[d].sequence
        /\ s.outgoingSequence = sess[d].outgoingSequence
        /\ s.outgoingPending = sess[d].outgoingPending
        /\ s.peerConfirmed = sess[d].peerConfirmed
    BY <1>0 DEF Session, SameMatch, SameNotes
  <2> HIDE DEF s
  <2> QED BY <2>1, <2>2, IdleStep
<1> QED BY <1>1, <1>2, <1>3, <1>4 DEF GameStep

LEMMA ClockKind ==
  ASSUME TypeInv, NEW d \in Device, ClockStep(d)
  PROVE  StayOf(d)
<1>0. /\ sess[d] \in Session /\ SameMatch(sess[d], sess[d])
      /\ SameNotes(sess[d], sess[d])
  BY DEF TypeInv, TypeOK, SameMatch, SameNotes
<1>1. CASE HelloTick(d)
  BY <1>0, <1>1, SendLemma, IdleStep DEF HelloTick
<1>2. CASE JoinTick(d)
  BY <1>0, <1>2, SendLemma, IdleStep DEF JoinTick
<1>3. CASE ForgetCandidate(d)
  <2> DEFINE s == [sess[d] EXCEPT !.candidate = NoDevice]
  <2>1. Becomes(d, s, {}) /\ UNCHANGED begins
    BY <1>3 DEF ForgetCandidate
  <2>2. /\ s \in Session /\ SameMatch(sess[d], s) /\ SameNotes(sess[d], s)
        /\ s.myTurn = sess[d].myTurn
        /\ s.sequence = sess[d].sequence
        /\ s.outgoingSequence = sess[d].outgoingSequence
        /\ s.outgoingPending = sess[d].outgoingPending
        /\ s.peerConfirmed = sess[d].peerConfirmed
    BY <1>0 DEF Session, SameMatch, SameNotes
  <2> HIDE DEF s
  <2> QED BY <2>1, <2>2, IdleStep
<1>4. CASE PeerTimeout(d)
  BY <1>4, OverKind DEF PeerTimeout, EndReason
<1>5. CASE RetrySay(d)
  BY <1>0, <1>5, SendLemma, IdleStep DEF RetrySay
<1>6. CASE RetryState(d)
  BY <1>0, <1>6, SendLemma, IdleStep DEF RetryState
<1>7. CASE Heartbeat(d)
  BY <1>0, <1>7, SendLemma, IdleStep DEF Heartbeat
<1> QED BY <1>1, <1>2, <1>3, <1>4, <1>5, <1>6, <1>7 DEF ClockStep

LEMMA AdoptedFields ==
  ASSUME NEW r \in Session, NEW p \in Packet
  PROVE  LET s == Adopted(r, p) IN
         /\ SameMatch(r, s) /\ SameNotes(r, s) /\ s.peerConfirmed
         /\ p.seq > r.sequence
              => s.sequence = p.seq /\ s.myTurn /\ ~s.outgoingPending
         /\ ~(p.seq > r.sequence)
              => /\ s.myTurn = r.myTurn /\ s.sequence = r.sequence
                 /\ s.outgoingSequence = r.outgoingSequence
                 /\ s.outgoingPending = r.outgoingPending
BY DEF Adopted, Session, SameMatch, SameNotes

LEMMA NoteHeardFields ==
  ASSUME NEW r \in Session, NEW p \in Packet
  PROVE  LET s == NoteHeard(r, p) IN
         /\ SameMatch(r, s) /\ s.myTurn = r.myTurn /\ s.sequence = r.sequence
         /\ s.outgoingSequence = r.outgoingSequence
         /\ s.outgoingPending = r.outgoingPending
         /\ s.peerSaySequence >= r.peerSaySequence
         /\ s.outgoingSaySequence = r.outgoingSaySequence
         /\ s.outgoingSayPending = r.outgoingSayPending
BY DEF NoteHeard, Session, SameMatch, Packet

LEMMA MatchKind ==
  ASSUME TypeInv, NEW d \in Device, NEW p \in air, NEW r \in Session, p.to = d,
         p.type \in {"Join", "Ack", "State", "Say", "SayAck"},
         sess[d].state = "Searching", r.toss = sess[d].toss, MatchWith(r, d, p)
  PROVE  StayOf(d)
<1> DEFINE m == Matched(r, d, p.from, p.toss)
<1>1. p.from \in Device /\ p.toss \in Nat
  BY DEF TypeInv, TypeOK, Packet
<1>2. Becomes(d, m, AckFrom(m, d)) /\ UNCHANGED begins
  BY DEF MatchWith
<1>3. m \in Session
  BY <1>1, MatchedType
<1>4. /\ m.state = "Playing" /\ m.peer = p.from /\ m.toss = r.toss
      /\ m.sequence = 0 /\ ~m.outgoingPending /\ ~m.peerConfirmed
      /\ m.outgoingSaySequence = 0 /\ m.peerSaySequence = 0
      /\ m.isHost <=> MovesFirst(d, r.toss, p.from, p.toss)
      /\ m.myTurn <=> MovesFirst(d, r.toss, p.from, p.toss)
  BY MatchedFields
<1> HIDE DEF m
<1>5. OnlyChanges(d) /\ sess'[d] = m /\ air' = air \cup AckFrom(m, d)
  BY <1>2, BecomesChanges
<1>6. \A q \in AckFrom(m, d) : MaySend(m, d, q)
  BY <1>3, <1>4, SendLemma
<1>7. Matches(d)
  BY <1>2, <1>4, <1>5, <1>6 DEF Matches, Sends
<1> QED BY <1>5, <1>7 DEF StayOf

LEMMA ReceiveKind ==
  ASSUME TypeInv, NEW d \in Device, NEW p \in air, Receive(d, p)
  PROVE  StayOf(d)
<1>0. /\ sess[d] \in Session /\ SameMatch(sess[d], sess[d])
      /\ SameNotes(sess[d], sess[d])
      /\ p \in Packet /\ p.to = d /\ p.from \in Device
  BY DEF TypeInv, TypeOK, Packet, SameMatch, SameNotes, Receive
<1>a. /\ Noticed(sess[d], p.from) \in Session
      /\ SameMatch(sess[d], Noticed(sess[d], p.from))
      /\ SameNotes(sess[d], Noticed(sess[d], p.from))
      /\ Noticed(sess[d], p.from).myTurn = sess[d].myTurn
      /\ Noticed(sess[d], p.from).sequence = sess[d].sequence
      /\ Noticed(sess[d], p.from).outgoingSequence = sess[d].outgoingSequence
      /\ Noticed(sess[d], p.from).outgoingPending = sess[d].outgoingPending
      /\ Noticed(sess[d], p.from).peerConfirmed = sess[d].peerConfirmed
  BY <1>0, NoticedType DEF Noticed, Session, SameMatch, SameNotes
<1>1. CASE HearDiscovery(d, p)
  BY <1>0, <1>1, <1>a, IdleStep DEF HearDiscovery
<1>2. CASE HearAgreement(d, p)
  BY <1>0, <1>2, <1>a, MatchKind DEF HearAgreement, SameMatch
<1>3. CASE HearMatchTraffic(d, p)
  BY <1>0, <1>3, MatchKind DEF HearMatchTraffic
<1>4. CASE HearJoin(d, p)
  BY <1>0, <1>4, SendLemma, IdleStep DEF HearJoin, FromPeer
<1>5. CASE HearState(d, p)
  <2> DEFINE s == Adopted(sess[d], p)
  <2>1. /\ Becomes(d, s, AckFrom(s, d)) /\ UNCHANGED begins
        /\ sess[d].state = "Playing" /\ p.from = sess[d].peer /\ p.type = "State"
    BY <1>5 DEF HearState, FromPeer
  <2>2. s \in Session
    BY <1>0, AdoptedType
  <2>3. /\ SameMatch(sess[d], s) /\ SameNotes(sess[d], s) /\ s.peerConfirmed
        /\ p.seq > sess[d].sequence
             => s.sequence = p.seq /\ s.myTurn /\ ~s.outgoingPending
        /\ ~(p.seq > sess[d].sequence)
             => /\ s.myTurn = sess[d].myTurn /\ s.sequence = sess[d].sequence
                /\ s.outgoingSequence = sess[d].outgoingSequence
                /\ s.outgoingPending = sess[d].outgoingPending
    BY <1>0, AdoptedFields
  <2> HIDE DEF s
  <2>4. OnlyChanges(d) /\ sess'[d] = s /\ air' = air \cup AckFrom(s, d)
    BY <2>1, BecomesChanges
  <2>5. \A q \in AckFrom(s, d) : MaySend(s, d, q)
    BY <2>1, <2>2, <2>3, SendLemma DEF SameMatch
  <2>6. CASE p.seq > sess[d].sequence
    <3>1. Adopts(d)
      BY <1>0, <2>1, <2>3, <2>4, <2>5, <2>6 DEF Adopts, Sends
    <3> QED BY <2>4, <3>1 DEF StayOf
  <2>7. CASE ~(p.seq > sess[d].sequence)
    <3>1. Converses(d)
      BY <1>0, <2>3, <2>4 DEF Converses, SameNotes, Session
    <3>2. Keeps(d)
      BY <1>0, <2>1, <2>3, <2>4, <2>5, <2>7, <3>1 DEF Keeps, Sends, MatchType
    <3> QED BY <2>4, <3>2 DEF StayOf
  <2> QED BY <2>6, <2>7
<1>6. CASE HearAck(d, p)
  <2> DEFINE still == sess[d].outgoingPending /\ p.seq < sess[d].outgoingSequence
             s == [sess[d] EXCEPT !.peerConfirmed = TRUE, !.outgoingPending = still]
  <2>1. /\ Becomes(d, s, {}) /\ UNCHANGED begins
        /\ sess[d].state = "Playing" /\ p.from = sess[d].peer /\ p.type = "Ack"
    BY <1>6 DEF HearAck, FromPeer
  <2>2. /\ SameMatch(sess[d], s) /\ s.myTurn = sess[d].myTurn
        /\ s.sequence = sess[d].sequence
        /\ s.outgoingSequence = sess[d].outgoingSequence
        /\ s.outgoingPending
             <=> (sess[d].outgoingPending /\ p.seq < sess[d].outgoingSequence)
        /\ SameNotes(sess[d], s)
    BY <1>0 DEF Session, SameMatch, SameNotes
  <2> HIDE DEF s
  <2>3. OnlyChanges(d) /\ sess'[d] = s /\ air' = air
    BY <2>1, BecomesChanges
  <2>4. p.seq \in Nat /\ sess[d].outgoingSequence \in Nat
    BY <1>0 DEF Packet, Session
  <2>5. Converses(d)
    BY <1>0, <2>2, <2>3 DEF Converses, SameNotes, Session
  <2>6. Keeps(d)
    BY <1>0, <2>1, <2>2, <2>3, <2>4, <2>5 DEF Keeps, Sends, MatchType
  <2> QED BY <2>3, <2>6 DEF StayOf
<1>7. CASE HearSay(d, p)
  <2> DEFINE s == NoteHeard(sess[d], p)
  <2>1. /\ Becomes(d, s, SayAckFrom(s, d)) /\ UNCHANGED begins
        /\ sess[d].state = "Playing" /\ p.from = sess[d].peer /\ p.type = "Say"
    BY <1>7 DEF HearSay, FromPeer
  <2>2. s \in Session
    BY <1>0, NoteHeardType
  <2>3. /\ SameMatch(sess[d], s) /\ s.myTurn = sess[d].myTurn
        /\ s.sequence = sess[d].sequence
        /\ s.outgoingSequence = sess[d].outgoingSequence
        /\ s.outgoingPending = sess[d].outgoingPending
        /\ s.peerSaySequence >= sess[d].peerSaySequence
        /\ s.outgoingSaySequence = sess[d].outgoingSaySequence
        /\ s.outgoingSayPending = sess[d].outgoingSayPending
    BY <1>0, NoteHeardFields
  <2> HIDE DEF s
  <2>4. OnlyChanges(d) /\ sess'[d] = s /\ air' = air \cup SayAckFrom(s, d)
    BY <2>1, BecomesChanges
  <2>5. \A q \in SayAckFrom(s, d) : MaySend(s, d, q)
    BY <2>1, <2>2, <2>3, SendLemma DEF SameMatch
  <2>6. Converses(d)
    BY <2>3, <2>4 DEF Converses
  <2>7. Keeps(d)
    BY <1>0, <2>1, <2>3, <2>4, <2>5, <2>6 DEF Keeps, Sends, MatchType
  <2> QED BY <2>4, <2>7 DEF StayOf
<1>8. CASE HearSayAck(d, p)
  <2> DEFINE still == sess[d].outgoingSayPending /\ p.seq < sess[d].outgoingSaySequence
             s == [sess[d] EXCEPT !.peerConfirmed = TRUE, !.outgoingSayPending = still]
  <2>1. /\ Becomes(d, s, {}) /\ UNCHANGED begins
        /\ sess[d].state = "Playing" /\ p.from = sess[d].peer /\ p.type = "SayAck"
    BY <1>8 DEF HearSayAck, FromPeer
  <2>2. /\ SameMatch(sess[d], s) /\ s.myTurn = sess[d].myTurn
        /\ s.sequence = sess[d].sequence
        /\ s.outgoingSequence = sess[d].outgoingSequence
        /\ s.outgoingPending = sess[d].outgoingPending
        /\ s.peerSaySequence = sess[d].peerSaySequence
        /\ s.outgoingSaySequence = sess[d].outgoingSaySequence
        /\ s.outgoingSayPending
             <=> (sess[d].outgoingSayPending /\ p.seq < sess[d].outgoingSaySequence)
    BY <1>0 DEF Session, SameMatch
  <2> HIDE DEF s
  <2>3. OnlyChanges(d) /\ sess'[d] = s /\ air' = air
    BY <2>1, BecomesChanges
  <2>4. /\ p.seq \in Nat /\ sess[d].outgoingSaySequence \in Nat
        /\ sess[d].peerSaySequence \in Nat
    BY <1>0 DEF Packet, Session
  <2>5. Converses(d)
    BY <1>0, <2>1, <2>2, <2>3, <2>4 DEF Converses
  <2>6. Keeps(d)
    BY <1>0, <2>1, <2>2, <2>3, <2>5 DEF Keeps, Sends, MatchType
  <2> QED BY <2>3, <2>6 DEF StayOf
<1>9. CASE HearDeparture(d, p)
  BY <1>9, OverKind DEF HearDeparture, FromPeer, EndReason
<1> QED BY <1>1, <1>2, <1>3, <1>4, <1>5, <1>6, <1>7, <1>8, <1>9 DEF Receive

(* Every step is of one of the kinds. *)
LEMMA NextKind ==
  ASSUME TypeInv, [Next]_vars
  PROVE  (\E d \in Device : StepOf(d)) \/ Dwindles
<1>1. CASE UNCHANGED vars
  BY <1>1 DEF vars, Dwindles
<1>2. CASE \E d \in Device : UserStep(d) \/ GameStep(d) \/ ClockStep(d)
  BY <1>2, BeginKind, LeaveKind, VanishKind, GameKind, ClockKind
     DEF UserStep, StepOf
<1>3. CASE \E p \in air : Receive(p.to, p)
  BY <1>3, ReceiveKind DEF TypeInv, TypeOK, Packet, StepOf
<1>4. CASE \E p \in air : Lose(p)
  BY <1>4 DEF Lose, Dwindles
<1> QED BY <1>1, <1>2, <1>3, <1>4 DEF Next

(***************************************************************************)
(* The invariant, kind by kind.                                            *)
(***************************************************************************)
TypedStep == MatchInv /\ TypeInv' /\ MaxBegins = 1

LEMMA EntersInv ==
  ASSUME TypedStep, NEW d \in Device, OnlyChanges(d), Enters(d)
  PROVE  MatchInv'
<1> USE DEF TypedStep, MatchInv
<1>1. /\ begins[d] = 0 /\ begins'[d] = 1
      /\ \A e \in Device \ {d} : begins'[e] = begins[e]
      /\ sess'[d].state = "Searching" /\ ~Active(d)
      /\ \A e \in Device : sess[e].state = "Playing" => sess[e].peer \in Device \ {d}
      /\ \A p \in air : p.from # d
  BY DEF Enters, Entered, TypeInv, TypeOK, PeerIsOther, Playing
<1>2. \A e \in Device \ {d} : sess'[e] = sess[e]
  BY DEF OnlyChanges
<1>3. \A p \in air' : \/ p \in air /\ p.to # d /\ p.from # d
                      \/ /\ p.from = d /\ p.toss = sess'[d].toss
                         /\ p.type \notin MatchType
  BY <1>1 DEF Enters, MaySend
<1>4. \A p \in air' : p.from \in Device /\ p.to \in Device /\ p.from # p.to
  BY DEF TypeInv, TypeOK, PeerIsOther, Packet
<1>5. Entered'
  BY <1>1, <1>2, <1>3, <1>4 DEF Entered, Active, Playing, Searching
<1>6. Signed'
  BY <1>1, <1>2, <1>3, <1>4 DEF Signed, Active, Playing, Searching
<1>7. Traffic'
  BY <1>1, <1>2, <1>3, <1>4 DEF Traffic, Active, Playing, Searching
<1>8. HostByToss'
  BY <1>1, <1>2 DEF HostByToss, Active, Playing, Searching
<1>9. TurnParity'
  BY <1>1, <1>2 DEF TurnParity, Active, Playing, Searching
<1>10. PendingIsLast'
  BY <1>1, <1>2 DEF PendingIsLast, Playing
<1>11. Waiting'
  BY <1>1, <1>2 DEF Waiting, Playing, Searching
<1>12. Lockstep'
  BY <1>1, <1>2 DEF Lockstep, Mutual
<1>13. ConfirmedIsMutual'
  BY <1>1, <1>2 DEF ConfirmedIsMutual
<1> QED BY <1>5, <1>6, <1>7, <1>8, <1>9, <1>10, <1>11, <1>12, <1>13

LEMMA QuitsInv ==
  ASSUME TypedStep, NEW d \in Device, OnlyChanges(d), Quits(d)
  PROVE  MatchInv'
<1> USE DEF TypedStep, MatchInv
<1>1. /\ begins' = begins /\ sess'[d].state \in {"Idle", "Ended"}
      /\ \A e \in Device : sess[e].state = "Playing" => sess[e].peer \in Device \ {e}
  BY DEF Quits, TypeInv, PeerIsOther, Playing
<1>2. \A e \in Device \ {d} : sess'[e] = sess[e]
  BY DEF OnlyChanges
<1>3. \A p \in air' : p \in air \/ (p.from = d /\ Active(d))
  BY DEF Quits, Sends, MaySend, Active, Searching, Playing
<1>4. \A p \in air' : p.from \in Device /\ p.to \in Device /\ p.from # p.to
  BY DEF TypeInv, TypeOK, PeerIsOther, Packet
<1>5. Entered'
  BY <1>1, <1>2, <1>3, <1>4 DEF Entered, Active, Playing, Searching
<1>6. Signed'
  BY <1>1, <1>2, <1>3, <1>4 DEF Signed, Active, Playing, Searching
<1>7. Traffic'
  BY <1>1, <1>2, <1>3, <1>4 DEF Traffic, Active, Playing, Searching
<1>8. HostByToss'
  BY <1>1, <1>2 DEF HostByToss, Active, Playing, Searching
<1>9. TurnParity'
  BY <1>1, <1>2 DEF TurnParity, Active, Playing, Searching
<1>10. PendingIsLast'
  BY <1>1, <1>2 DEF PendingIsLast, Playing
<1>11. Waiting'
  BY <1>1, <1>2 DEF Waiting, Playing, Searching
<1>12. Lockstep'
  BY <1>1, <1>2 DEF Lockstep, Mutual
<1>13. ConfirmedIsMutual'
  BY <1>1, <1>2 DEF ConfirmedIsMutual
<1> QED BY <1>5, <1>6, <1>7, <1>8, <1>9, <1>10, <1>11, <1>12, <1>13

(* The coin toss has one winner. *)
LEMMA TossHasOneWinner ==
  ASSUME NEW d \in Device, NEW e \in Device, d # e,
         NEW t \in Nat, NEW u \in Nat
  PROVE  MovesFirst(d, t, e, u) <=> ~MovesFirst(e, u, d, t)
BY DeviceAssumption DEF MovesFirst

LEMMA HostsDiffer ==
  ASSUME TypeInv, HostByToss, NEW a \in Device, NEW b \in Device, Mutual(a, b)
  PROVE  sess[a].isHost <=> ~sess[b].isHost
<1>1. sess[a].toss \in Nat /\ sess[b].toss \in Nat
  BY DEF TypeInv, TypeOK, Session
<1>2. /\ a # b /\ Playing(a) /\ Playing(b)
      /\ sess[a].peer = b /\ sess[b].peer = a
  BY DEF Mutual, Playing
<1>3. sess[a].isHost <=> MovesFirst(a, sess[a].toss, b, sess[b].toss)
  BY <1>2 DEF HostByToss, Active
<1>4. sess[b].isHost <=> MovesFirst(b, sess[b].toss, a, sess[a].toss)
  BY <1>2 DEF HostByToss, Active
<1> QED BY <1>1, <1>2, <1>3, <1>4, TossHasOneWinner

LEMMA EvenLemma == /\ Even(0) /\ ~Even(1)
                   /\ \A n \in Nat : Even(n + 1) <=> ~Even(n)
BY DEF Even

LEMMA MatchesInv ==
  ASSUME TypedStep, NEW d \in Device, OnlyChanges(d), Matches(d)
  PROVE  MatchInv'
<1> USE DEF TypedStep, MatchInv
<1>1. PICK p \in air :
        /\ p.to = d
        /\ p.type \in {"Join", "Ack", "State", "Say", "SayAck"}
        /\ sess'[d].state = "Playing" /\ sess'[d].peer = p.from
        /\ sess'[d].toss = sess[d].toss
        /\ sess'[d].isHost <=> MovesFirst(d, sess[d].toss, p.from, p.toss)
        /\ sess'[d].myTurn <=> MovesFirst(d, sess[d].toss, p.from, p.toss)
  BY DEF Matches
<1>2. /\ begins' = begins /\ sess[d].state = "Searching"
      /\ sess'[d].sequence = 0
      /\ ~sess'[d].outgoingPending /\ ~sess'[d].peerConfirmed
  BY DEF Matches
<1>3. \A e \in Device \ {d} : sess'[e] = sess[e]
  BY DEF OnlyChanges
<1>4. \A m \in air' : \/ m \in air
                      \/ /\ m.from = d /\ m.toss = sess'[d].toss
                         /\ m.type \in MatchType => m.to = p.from
                         /\ m.type # "State"
                         /\ m.type = "Ack" => m.seq = 0
  BY <1>1, <1>2 DEF Matches, Sends, MaySend
<1>5. /\ \A m \in air' : m.from \in Device /\ m.to \in Device /\ m.from # m.to
      /\ p.from \in Device \ {d} /\ begins[p.from] = 1 /\ begins[d] = 1
      /\ \A m \in air : m.type \in MatchType => m.from # d
  BY <1>1, <1>2 DEF TypeInv, TypeOK, PeerIsOther, Packet, Entered, Active, Searching,
                   Traffic
<1>6. \A e \in Device : sess[e].state = "Playing" => sess[e].peer \in Device \ {e}
  BY DEF TypeInv, PeerIsOther, Playing
<1>7. Entered'
  BY <1>1, <1>2, <1>3, <1>4, <1>5 DEF Entered, Active, Playing, Searching
<1>8. Signed'
  BY <1>1, <1>2, <1>3, <1>4, <1>5 DEF Signed, Active, Playing, Searching
<1>9. Traffic'
  BY <1>1, <1>2, <1>3, <1>4, <1>5 DEF Traffic, Active, Playing, Searching
<1>10. HostByToss'
  BY <1>1, <1>2, <1>3, <1>5, <1>6 DEF HostByToss, Signed, Active, Playing, Searching
<1>11. TurnParity'
  BY <1>1, <1>2, <1>3, <1>5, <1>6, EvenLemma
     DEF TurnParity, Active, Playing, Searching
<1>12. PendingIsLast'
  BY <1>2, <1>3 DEF PendingIsLast, Playing
<1>13. Waiting'
  BY <1>1, <1>2, <1>3, <1>5, <1>6 DEF Waiting, Playing, Searching
<1>14. Lockstep'
  <2> DEFINE q == p.from
  <2>1. CASE Mutual(d, q)'
    <3>1. /\ sess'[q] = sess[q] /\ Playing(q) /\ sess[q].peer = d
          /\ Searching(d)
      BY <1>1, <1>2, <1>3, <1>5, <2>1 DEF Mutual, Playing, Searching
    <3>2. /\ sess[q].sequence \in {0, 1}
          /\ sess[q].sequence = 1 => sess[q].isHost /\ sess[q].outgoingPending
      BY <1>5, <3>1 DEF Waiting
    <3>3. sess[q].myTurn => sess[q].sequence = 0
      BY <1>5, <3>1, <3>2, EvenLemma DEF TurnParity, Active
    <3>4. sess'[d].isHost <=> ~sess[q].isHost
      <4>1. p.toss = sess[q].toss
        BY <3>1 DEF Signed, Active
      <4>2. sess[q].isHost <=> MovesFirst(q, sess[q].toss, d, sess[d].toss)
        BY <1>5, <3>1 DEF HostByToss, Active
      <4>3. sess[q].toss \in Nat /\ sess[d].toss \in Nat
        BY <1>5 DEF TypeInv, TypeOK, Session
      <4> QED BY <1>1, <1>5, <4>1, <4>2, <4>3, TossHasOneWinner
    <3>5. sess'[d].myTurn => sess[q].sequence = 0
      BY <1>1, <3>2, <3>4
    <3> QED BY <1>1, <1>2, <1>3, <1>5, <3>1, <3>2, <3>3, <3>5 DEF Lockstep, Mutual
  <2>2. CASE ~Mutual(d, q)'
    BY <1>1, <1>2, <1>3, <1>5, <2>2 DEF Lockstep, Mutual
  <2> QED BY <2>1, <2>2
<1>15. ConfirmedIsMutual'
  BY <1>1, <1>2, <1>3, <1>5, <1>6 DEF ConfirmedIsMutual, Waiting, Playing, Searching
<1> QED BY <1>7, <1>8, <1>9, <1>10, <1>11, <1>12, <1>13, <1>14, <1>15

LEMMA MovesInv ==
  ASSUME TypedStep, NEW d \in Device, OnlyChanges(d), Moves(d)
  PROVE  MatchInv'
<1> USE DEF TypedStep, MatchInv
<1> DEFINE q == sess[d].peer
<1>1. /\ begins' = begins /\ sess[d].state = "Playing" /\ sess[d].myTurn
      /\ sess'[d].state = "Playing" /\ sess'[d].peer = q
      /\ sess'[d].toss = sess[d].toss /\ sess'[d].isHost = sess[d].isHost
      /\ sess'[d].peerConfirmed = sess[d].peerConfirmed
      /\ sess'[d].sequence = sess[d].sequence + 1
      /\ sess'[d].outgoingSequence = sess[d].sequence + 1
      /\ sess'[d].outgoingPending /\ ~sess'[d].myTurn
  BY DEF Moves, SameMatch
<1>2. \A e \in Device \ {d} : sess'[e] = sess[e]
  BY DEF OnlyChanges
<1>3. \A m \in air' : \/ m \in air
                      \/ /\ m.from = d /\ m.toss = sess'[d].toss
                         /\ m.type \in MatchType => m.to = q
                         /\ m.type \in {"State", "Ack"} => m.seq = sess'[d].sequence
  BY <1>1 DEF Moves, Sends, MaySend
<1>4. /\ \A m \in air' : /\ m.from \in Device /\ m.to \in Device
                         /\ m.from # m.to /\ m.seq \in Nat
      /\ q \in Device \ {d} /\ begins[q] = 1 /\ begins[d] = 1
      /\ \A e \in Device : sess[e].sequence \in Nat
  BY <1>1 DEF TypeInv, TypeOK, PeerIsOther, Packet, Session, Entered, Active, Playing
<1>5. \A e \in Device : sess[e].state = "Playing" => sess[e].peer \in Device \ {e}
  BY DEF TypeInv, PeerIsOther, Playing
<1>6. Active(q) => /\ sess[d].isHost <=> Even(sess[d].sequence)
                   /\ sess[d].isHost <=> ~Even(sess'[d].sequence)
  BY <1>1, <1>4, EvenLemma DEF TurnParity, Playing
<1>7. Entered'
  BY <1>1, <1>2, <1>3, <1>4 DEF Entered, Active, Playing, Searching
<1>8. Signed'
  BY <1>1, <1>2, <1>3, <1>4 DEF Signed, Active, Playing, Searching
<1>9. Traffic'
  BY <1>1, <1>2, <1>3, <1>4, <1>6 DEF Traffic, Active, Playing, Searching, MatchType
<1>10. HostByToss'
  BY <1>1, <1>2, <1>4, <1>5 DEF HostByToss, Active, Playing, Searching
<1>11. TurnParity'
  BY <1>1, <1>2, <1>4, <1>5, <1>6 DEF TurnParity, Active, Playing, Searching
<1>12. PendingIsLast'
  BY <1>1, <1>2 DEF PendingIsLast, Playing
<1>13. Waiting'
  <2>1. Searching(q) => /\ sess[d].sequence = 0 /\ sess[d].isHost
                        /\ ~sess[d].peerConfirmed
    BY <1>1, <1>4, <1>6, EvenLemma DEF Waiting, Playing, Active
  <2> QED BY <1>1, <1>2, <1>4, <1>5, <2>1 DEF Waiting, Playing, Searching
<1>14. Lockstep'
  <2>1. CASE Mutual(d, q)
    <3>1. sess[d].sequence = sess[q].sequence
      BY <1>1, <1>4, <2>1 DEF Lockstep
    <3>2. ~sess[q].myTurn
      <4>1. sess[d].isHost <=> ~sess[q].isHost
        BY <1>4, <2>1, HostsDiffer
      <4>2. sess[q].myTurn <=> (sess[q].isHost <=> Even(sess[q].sequence))
        BY <1>4, <2>1 DEF TurnParity, Mutual, Active, Playing
      <4> QED BY <1>6, <2>1, <3>1, <4>1, <4>2 DEF Mutual, Active, Playing
    <3> QED BY <1>1, <1>2, <1>4, <3>1, <3>2 DEF Lockstep, Mutual
  <2>2. CASE ~Mutual(d, q)
    BY <1>1, <1>2, <1>4, <2>2 DEF Lockstep, Mutual
  <2> QED BY <2>1, <2>2
<1>15. ConfirmedIsMutual'
  BY <1>1, <1>2, <1>4, <1>5 DEF ConfirmedIsMutual
<1> QED BY <1>7, <1>8, <1>9, <1>10, <1>11, <1>12, <1>13, <1>14, <1>15

LEMMA AdoptsInv ==
  ASSUME TypedStep, NEW d \in Device, OnlyChanges(d), Adopts(d)
  PROVE  MatchInv'
<1> USE DEF TypedStep, MatchInv
<1> DEFINE q == sess[d].peer
<1>1. /\ begins' = begins /\ sess[d].state = "Playing"
      /\ sess'[d].state = "Playing" /\ sess'[d].peer = q
      /\ sess'[d].toss = sess[d].toss /\ sess'[d].isHost = sess[d].isHost
      /\ sess'[d].myTurn /\ ~sess'[d].outgoingPending
  BY DEF Adopts, SameMatch
<1>2. PICK p \in air : /\ p.from = q /\ p.to = d /\ p.type = "State"
                       /\ p.seq > sess[d].sequence
                       /\ sess'[d].sequence = p.seq
  BY DEF Adopts
<1>3. \A e \in Device \ {d} : sess'[e] = sess[e]
  BY DEF OnlyChanges
<1>4. \A m \in air' : \/ m \in air
                      \/ /\ m.from = d /\ m.toss = sess'[d].toss
                         /\ m.type \in MatchType => m.to = q
                         /\ m.type # "State"
                         /\ m.type = "Ack" => m.seq = sess'[d].sequence
  BY <1>1 DEF Adopts, Sends, MaySend
<1>5. /\ \A m \in air' : /\ m.from \in Device /\ m.to \in Device
                         /\ m.from # m.to /\ m.seq \in Nat
      /\ \A m \in air : m.seq \in Nat
      /\ q \in Device \ {d} /\ begins[q] = 1 /\ begins[d] = 1
      /\ \A e \in Device : sess[e].sequence \in Nat
  BY <1>1 DEF TypeInv, TypeOK, PeerIsOther, Packet, Session, Entered, Active, Playing
<1>6. \A e \in Device : sess[e].state = "Playing" => sess[e].peer \in Device \ {e}
  BY DEF TypeInv, PeerIsOther, Playing
<1>7. /\ ~Searching(q)
      /\ Playing(q) => /\ sess[q].peer = d /\ p.seq <= sess[q].sequence
                       /\ sess[q].isHost <=> ~Even(p.seq)
  BY <1>1, <1>2 DEF Traffic, MatchType, Active, Playing
<1>8. Playing(q) => Mutual(d, q) /\ (sess[d].isHost <=> Even(p.seq))
  <2>1. Playing(q) => Mutual(d, q)
    BY <1>1, <1>5, <1>7 DEF Mutual, Playing
  <2> QED BY <1>5, <1>7, <2>1, HostsDiffer
<1>9. Entered'
  BY <1>1, <1>3, <1>4, <1>5 DEF Entered, Active, Playing, Searching
<1>10. Signed'
  BY <1>1, <1>3, <1>4, <1>5 DEF Signed, Active, Playing, Searching
<1>11. Traffic'
  BY <1>1, <1>2, <1>3, <1>4, <1>5 DEF Traffic, Active, Playing, Searching, MatchType
<1>12. HostByToss'
  BY <1>1, <1>3, <1>5, <1>6 DEF HostByToss, Active, Playing, Searching
<1>13. TurnParity'
  BY <1>1, <1>2, <1>3, <1>5, <1>6, <1>7, <1>8 DEF TurnParity, Active, Playing, Searching
<1>14. PendingIsLast'
  BY <1>1, <1>3 DEF PendingIsLast, Playing
<1>15. Waiting'
  BY <1>1, <1>3, <1>5, <1>6, <1>7 DEF Waiting, Playing, Searching
<1>16. Lockstep'
  <2>1. CASE Playing(q)
    <3>1. sess[q].sequence <= sess[d].sequence + 1
      BY <1>5, <1>8, <2>1 DEF Lockstep, Mutual
    <3>2. sess'[d].sequence = sess[q].sequence
      BY <1>2, <1>5, <1>7, <2>1, <3>1
    <3> QED BY <1>1, <1>3, <1>5, <3>2 DEF Lockstep, Mutual
  <2>2. CASE ~Playing(q)
    BY <1>1, <1>3, <1>5, <2>2 DEF Lockstep, Mutual, Playing
  <2> QED BY <2>1, <2>2
<1>17. ConfirmedIsMutual'
  BY <1>1, <1>3, <1>5, <1>6, <1>7 DEF ConfirmedIsMutual, Playing
<1> QED BY <1>9, <1>10, <1>11, <1>12, <1>13, <1>14, <1>15, <1>16, <1>17

LEMMA KeepsInv ==
  ASSUME TypedStep, NEW d \in Device, OnlyChanges(d), Keeps(d)
  PROVE  MatchInv'
<1> USE DEF TypedStep, MatchInv
<1> DEFINE q == sess[d].peer
<1>1. /\ begins' = begins
      /\ sess'[d].state = sess[d].state /\ sess'[d].peer = q
      /\ sess'[d].toss = sess[d].toss /\ sess'[d].isHost = sess[d].isHost
      /\ sess'[d].myTurn = sess[d].myTurn
      /\ sess'[d].sequence = sess[d].sequence
      /\ sess'[d].outgoingSequence = sess[d].outgoingSequence
      /\ sess'[d].outgoingPending => sess[d].outgoingPending
  BY DEF Keeps, SameMatch
<1>2. \A e \in Device \ {d} : sess'[e] = sess[e]
  BY DEF OnlyChanges
<1>3. \A m \in air' :
        \/ m \in air
        \/ /\ m.from = d /\ m.toss = sess[d].toss /\ Active(d)
           /\ m.type \in MatchType => Playing(d) /\ m.to = q
           /\ m.type = "State" => /\ sess[d].outgoingPending
                                  /\ m.seq = sess[d].outgoingSequence
           /\ m.type = "Ack" => m.seq = sess[d].sequence
  BY <1>1 DEF Keeps, Sends, MaySend, Active, Playing, Searching
<1>4. /\ \A m \in air' : /\ m.from \in Device /\ m.to \in Device
                         /\ m.from # m.to /\ m.seq \in Nat
      /\ \A m \in air : m.seq \in Nat
      /\ Playing(d) => q \in Device \ {d} /\ begins[q] = 1
      /\ Active(d) => begins[d] = 1
      /\ \A e \in Device : sess[e].sequence \in Nat /\ sess[e].outgoingSequence \in Nat
  BY DEF TypeInv, TypeOK, PeerIsOther, Packet, Session, Entered
<1>5. \A e \in Device : sess[e].state = "Playing" => sess[e].peer \in Device \ {e}
  BY DEF TypeInv, PeerIsOther, Playing
<1>6. (sess[d].outgoingPending /\ ~sess'[d].outgoingPending)
        => /\ Playing(d) /\ ~Searching(q)
           /\ Playing(q) => sess[q].sequence >= sess[d].sequence
  <2> SUFFICES ASSUME sess[d].outgoingPending, ~sess'[d].outgoingPending
               PROVE  /\ Playing(d) /\ ~Searching(q)
                      /\ Playing(q) => sess[q].sequence >= sess[d].sequence
    OBVIOUS
  <2>1. PICK p \in air : /\ p.from = q /\ p.to = d /\ p.type = "Ack"
                         /\ p.seq >= sess[d].outgoingSequence
                         /\ sess[d].state = "Playing"
    BY DEF Keeps
  <2>2. sess[d].outgoingSequence = sess[d].sequence
    BY <2>1 DEF PendingIsLast, Playing
  <2>3. ~Searching(q) /\ (Playing(q) => p.seq <= sess[q].sequence)
    BY <2>1 DEF Traffic, MatchType
  <2> QED BY <1>4, <2>1, <2>2, <2>3 DEF Playing
<1>7. (sess'[d].peerConfirmed /\ ~sess[d].peerConfirmed)
        => /\ Playing(d) /\ ~Searching(q)
           /\ Playing(q) => sess[q].peer = d
  BY DEF Keeps, Traffic, Playing
<1>8. (Playing(d) /\ Active(q) /\ sess[d].outgoingPending)
        => /\ sess[d].outgoingSequence = sess[d].sequence
           /\ sess[d].isHost <=> ~Even(sess[d].outgoingSequence)
  BY DEF PendingIsLast, TurnParity
<1>9. Entered'
  BY <1>1, <1>2, <1>3, <1>4 DEF Entered, Active, Playing, Searching
<1>10. Signed'
  BY <1>1, <1>2, <1>3, <1>4 DEF Signed, Active, Playing, Searching
<1>11. Traffic'
  <2>1. ASSUME NEW m \in air', m.type \in MatchType, m \in air
        PROVE  /\ ~Searching(m.from)'
               /\ Playing(m.from)' =>
                    /\ sess'[m.from].peer = m.to
                    /\ m.type \in {"State", "Ack"} => m.seq <= sess'[m.from].sequence
                    /\ (m.type = "State" /\ Active(m.to)')
                         => (sess'[m.from].isHost <=> ~Even(m.seq))
    BY <1>1, <1>2, <1>4, <2>1 DEF Traffic, Active, Playing, Searching
  <2>2. ASSUME NEW m \in air', m.type \in MatchType, m \notin air
        PROVE  /\ ~Searching(m.from)'
               /\ Playing(m.from)' =>
                    /\ sess'[m.from].peer = m.to
                    /\ m.type \in {"State", "Ack"} => m.seq <= sess'[m.from].sequence
                    /\ (m.type = "State" /\ Active(m.to)')
                         => (sess'[m.from].isHost <=> ~Even(m.seq))
    <3>1. /\ m.from = d /\ Playing(d) /\ m.to = q
          /\ m.type = "State" => /\ sess[d].outgoingPending
                                 /\ m.seq = sess[d].outgoingSequence
          /\ m.type = "Ack" => m.seq = sess[d].sequence
      BY <1>3, <2>2
    <3>2. m.type = "State" => m.seq = sess[d].sequence
      BY <3>1 DEF PendingIsLast
    <3>3. q \in Device \ {d} /\ sess'[q] = sess[q]
      BY <1>2, <1>4, <3>1
    <3> QED BY <1>1, <1>4, <1>8, <3>1, <3>2, <3>3 DEF Active, Playing, Searching
  <2> QED BY <2>1, <2>2 DEF Traffic
<1>12. HostByToss'
  BY <1>1, <1>2, <1>4, <1>5 DEF HostByToss, Active, Playing, Searching
<1>13. TurnParity'
  BY <1>1, <1>2, <1>4, <1>5 DEF TurnParity, Active, Playing, Searching
<1>14. PendingIsLast'
  BY <1>1, <1>2 DEF PendingIsLast, Playing
<1>15. Waiting'
  BY <1>1, <1>2, <1>4, <1>5, <1>6, <1>7 DEF Waiting, Playing, Searching
<1>16. Lockstep'
  BY <1>1, <1>2, <1>4, <1>5, <1>6 DEF Lockstep, Mutual, Playing
<1>17. ConfirmedIsMutual'
  BY <1>1, <1>2, <1>4, <1>5, <1>7 DEF ConfirmedIsMutual, Playing
<1> QED BY <1>9, <1>10, <1>11, <1>12, <1>13, <1>14, <1>15, <1>16, <1>17

LEMMA DwindlesInv ==
  ASSUME TypedStep, Dwindles
  PROVE  MatchInv'
BY DEF TypedStep, MatchInv, Dwindles, Entered, Signed, Traffic, HostByToss, TurnParity,
       PendingIsLast, Waiting, Lockstep, ConfirmedIsMutual, Active, Playing, Searching,
       Mutual

LEMMA InitMatch == Init => MatchInv
<1> SUFFICES ASSUME Init PROVE MatchInv
  OBVIOUS
<1>1. TypeInv
  BY InitTyped
<1>2. \A d \in Device : sess[d].state = "Idle" /\ begins[d] = 0
  BY ResetType DEF Init
<1>3. air = {}
  BY DEF Init
<1> QED BY <1>1, <1>2, <1>3
        DEF MatchInv, Entered, Signed, Traffic, HostByToss, TurnParity, PendingIsLast,
            Waiting, Lockstep, ConfirmedIsMutual, Active, Playing, Searching, Mutual

LEMMA NextMatch ==
  ASSUME MaxBegins = 1
  PROVE  MatchInv /\ [Next]_vars => MatchInv'
<1> SUFFICES ASSUME MatchInv, [Next]_vars
             PROVE  MatchInv'
  OBVIOUS
<1>1. TypeInv
  BY DEF MatchInv
<1>2. TypedStep
  BY <1>1, NextTyped DEF TypedStep
<1>3. CASE Dwindles
  BY <1>2, <1>3, DwindlesInv
<1>4. ASSUME NEW d \in Device, StepOf(d)
      PROVE  MatchInv'
  BY <1>2, <1>4, EntersInv, QuitsInv, MatchesInv, MovesInv, AdoptsInv, KeepsInv
     DEF StepOf, StayOf, Departs
<1> QED BY <1>1, <1>3, <1>4, NextKind

(* The invariant of a match: tosses, hosts, turns, counters and what is in *)
(* the air, when no device searches twice.  (Session::handlePacket)        *)
THEOREM MatchInvariant ==
  ASSUME MaxBegins = 1
  PROVE  Spec => []MatchInv
<1>1. MatchInv /\ [Next]_vars => MatchInv'
  BY NextMatch
<1> QED BY InitMatch, <1>1, PTL DEF Spec

(* Among devices that go through MULTIPLAYER once, the two sides of a      *)
(* match compute opposite answers to who moves first, whatever the tosses, *)
(* the number of devices and the fate of the packets.  (matchWith)         *)
THEOREM HostsAgree ==
  ASSUME MaxBegins = 1
  PROVE  Spec => []HostAgreement
<1>1. MatchInv => HostAgreement
  BY HostsDiffer DEF MatchInv, HostAgreement, Mutual
<1> QED BY MatchInvariant, <1>1, PTL

(* Neither do they ever hold the turn both.  (submit, the State case)      *)
THEOREM OneWriter ==
  ASSUME MaxBegins = 1
  PROVE  Spec => []SingleWriter
<1>1. ASSUME MatchInv, NEW a \in Device, NEW b \in Device, Mutual(a, b),
             sess[a].myTurn, sess[b].myTurn
      PROVE  FALSE
  <2>1. sess[a].sequence = sess[b].sequence
    BY <1>1 DEF MatchInv, Lockstep
  <2>2. /\ sess[a].myTurn <=> (sess[a].isHost <=> Even(sess[a].sequence))
        /\ sess[b].myTurn <=> (sess[b].isHost <=> Even(sess[b].sequence))
    BY <1>1 DEF MatchInv, TurnParity, Mutual, Active, Playing
  <2>3. sess[a].isHost <=> ~sess[b].isHost
    BY <1>1, HostsDiffer DEF MatchInv
  <2> QED BY <1>1, <2>1, <2>2, <2>3
<1>2. MatchInv => SingleWriter
  BY <1>1 DEF SingleWriter
<1> QED BY MatchInvariant, <1>2, PTL

(* Nor is the turn ever lost: when neither holds it, the move that hands   *)
(* it over is still being retransmitted.  (submit, the Ack case)           *)
THEOREM TurnSurvives ==
  ASSUME MaxBegins = 1
  PROVE  Spec => []TurnNotLost
<1>1. ASSUME MatchInv, NEW a \in Device, NEW b \in Device, Mutual(a, b),
             ~sess[a].myTurn, ~sess[b].myTurn
      PROVE  \/ sess[a].outgoingPending /\ sess[a].outgoingSequence > sess[b].sequence
             \/ sess[b].outgoingPending /\ sess[b].outgoingSequence > sess[a].sequence
  <2>1. /\ sess[a].myTurn <=> (sess[a].isHost <=> Even(sess[a].sequence))
        /\ sess[b].myTurn <=> (sess[b].isHost <=> Even(sess[b].sequence))
    BY <1>1 DEF MatchInv, TurnParity, Mutual, Active, Playing
  <2>2. sess[a].isHost <=> ~sess[b].isHost
    BY <1>1, HostsDiffer DEF MatchInv
  <2>3. sess[a].sequence # sess[b].sequence
    BY <1>1, <2>1, <2>2
  <2>4. sess[a].sequence \in Nat /\ sess[b].sequence \in Nat
    BY <1>1 DEF MatchInv, TypeInv, TypeOK, Session
  <2>5. Mutual(b, a) /\ Playing(a) /\ Playing(b)
    BY <1>1 DEF Mutual, Playing
  <2>6. CASE sess[a].sequence > sess[b].sequence
    <3>1. sess[a].outgoingPending
      BY <1>1, <2>6 DEF MatchInv, Lockstep
    <3> QED BY <1>1, <2>5, <2>6, <3>1 DEF MatchInv, PendingIsLast
  <2>7. CASE sess[b].sequence > sess[a].sequence
    <3>1. sess[b].outgoingPending
      BY <1>1, <2>5, <2>7 DEF MatchInv, Lockstep
    <3> QED BY <1>1, <2>5, <2>7, <3>1 DEF MatchInv, PendingIsLast
  <2> QED BY <2>3, <2>4, <2>6, <2>7
<1>2. MatchInv => TurnNotLost
  BY <1>1 DEF TurnNotLost, Mutual
<1> QED BY MatchInvariant, <1>2, PTL

(* A device that has heard match traffic from its peer is in a match that  *)
(* is real on both sides, for any number of devices.  (the Ack case)       *)
THEOREM ConfirmedIsReal ==
  ASSUME MaxBegins = 1
  PROVE  Spec => []ConfirmedIsMutual
<1>1. MatchInv => ConfirmedIsMutual
  BY DEF MatchInv
<1> QED BY MatchInvariant, <1>1, PTL

(***************************************************************************)
(* Notes, on top of the invariant of the match.                            *)
(***************************************************************************)
NotesKept == NoteReaches /\ NotesAcked /\ NotesWait

(* A device that is not in a match after the step. *)
LEMMA AwayNotes ==
  ASSUME TypedStep, NotesKept, NEW d \in Device, OnlyChanges(d),
         Enters(d) \/ Quits(d)
  PROVE  NotesKept'
<1> USE DEF TypedStep, MatchInv, NotesKept
<1>1. /\ ~Playing(d)'
      /\ \A e \in Device : Playing(e) => sess[e].peer \in Device \ {e}
      /\ Searching(d)' => \A e \in Device : Playing(e) => sess[e].peer # d
  BY DEF Enters, Quits, Entered, TypeInv, TypeOK, PeerIsOther, Playing, Searching
<1>2. \A e \in Device \ {d} : sess'[e] = sess[e]
  BY DEF OnlyChanges
<1>3. \A p \in air' : (p \in air \/ p.from = d) /\ p.from \in Device
  BY DEF Enters, Quits, Sends, MaySend, TypeInv, TypeOK, Packet
<1>4. NoteReaches'
  BY <1>1, <1>2 DEF NoteReaches, Mutual, Playing
<1>5. NotesAcked'
  BY <1>1, <1>2, <1>3 DEF NotesAcked, Playing
<1>6. NotesWait'
  BY <1>1, <1>2 DEF NotesWait, Playing, Searching
<1> QED BY <1>4, <1>5, <1>6

(* Whoever waited for d has every note it sent still pending. *)
LEMMA MatchesNotes ==
  ASSUME TypedStep, NotesKept, NEW d \in Device, OnlyChanges(d), Matches(d)
  PROVE  NotesKept'
<1> USE DEF TypedStep, MatchInv, NotesKept
<1>1. /\ Searching(d) /\ Playing(d)' /\ sess'[d].peer \in Device \ {d}
      /\ sess'[d].outgoingSaySequence = 0 /\ sess'[d].peerSaySequence = 0
  BY DEF Matches, TypeInv, PeerIsOther, Playing, Searching
<1>2. \A e \in Device \ {d} : sess'[e] = sess[e]
  BY DEF OnlyChanges
<1>3. \A p \in air' : /\ p.from \in Device
                      /\ p \in air \/ (p.from = d /\ (p.type = "SayAck" => p.seq = 0))
  BY <1>1 DEF Matches, Sends, MaySend, TypeInv, TypeOK, Packet
<1>4. \A p \in air : p.type = "SayAck" => p.from # d
  BY <1>1 DEF Traffic, MatchType
<1>5. \A e \in Device : /\ Playing(e) => sess[e].peer \in Device \ {e}
                        /\ sess[e].outgoingSaySequence \in Nat
                        /\ sess'[e].peerSaySequence \in Nat
  BY DEF TypeInv, TypeOK, PeerIsOther, Session
<1>6. NoteReaches'
  <2> SUFFICES ASSUME NEW a \in Device, NEW b \in Device, Mutual(a, b)'
               PROVE  \/ sess'[a].outgoingSayPending
                      \/ sess'[b].peerSaySequence >= sess'[a].outgoingSaySequence
    BY DEF NoteReaches
  <2>1. CASE a = d
    BY <1>1, <1>5, <2>1
  <2>2. CASE a # d /\ b = d
    <3>1. sess'[a] = sess[a] /\ Playing(a) /\ sess[a].peer = d
      BY <1>2, <2>2 DEF Mutual, Playing
    <3>2. sess[a].outgoingSayPending \/ sess[a].outgoingSaySequence = 0
      BY <1>1, <3>1 DEF NotesWait
    <3> QED BY <1>1, <2>2, <3>1, <3>2
  <2>3. CASE a # d /\ b # d
    BY <1>2, <2>3 DEF NoteReaches, Mutual
  <2> QED BY <2>1, <2>2, <2>3
<1>7. NotesAcked'
  BY <1>1, <1>2, <1>3, <1>4 DEF NotesAcked, Playing
<1>8. NotesWait'
  BY <1>1, <1>2, <1>5 DEF NotesWait, Playing, Searching
<1> QED BY <1>6, <1>7, <1>8

(* Inside a match: only an acknowledgement of the last note ends its       *)
(* retransmission, and the peer that sent it has heard the note.           *)
LEMMA ConversesNotes ==
  ASSUME TypedStep, NotesKept, NEW d \in Device, OnlyChanges(d), UNCHANGED begins,
         SameMatch(sess[d], sess'[d]), Converses(d), Sends(sess'[d], d)
  PROVE  NotesKept'
<1> USE DEF TypedStep, MatchInv, NotesKept
<1> DEFINE q == sess[d].peer
<1>1. /\ sess'[d].state = sess[d].state /\ sess'[d].peer = q
      /\ sess'[d].peerSaySequence >= sess[d].peerSaySequence
  BY DEF SameMatch, Converses
<1>2. \A e \in Device \ {d} : sess'[e] = sess[e]
  BY DEF OnlyChanges
<1>3. \A p \in air' :
        /\ p.from \in Device /\ p.seq \in Nat
        /\ \/ p \in air
           \/ p.from = d /\ (p.type = "SayAck" => p.seq = sess'[d].peerSaySequence)
  BY DEF Sends, MaySend, TypeInv, TypeOK, Packet
<1>4. \A e \in Device : /\ Playing(e) => sess[e].peer \in Device \ {e}
                        /\ sess[e].outgoingSaySequence \in Nat
                        /\ sess[e].peerSaySequence \in Nat
                        /\ sess'[e].peerSaySequence \in Nat
                        /\ sess'[e].outgoingSaySequence \in Nat
  BY DEF TypeInv, TypeOK, PeerIsOther, Session
<1>5. Playing(d) /\ ~sess'[d].outgoingSayPending
        => /\ sess'[d].outgoingSaySequence = sess[d].outgoingSaySequence
           /\ sess[d].outgoingSayPending
                => /\ ~Searching(q)
                   /\ Playing(q) => sess[q].peerSaySequence >= sess[d].outgoingSaySequence
  <2> SUFFICES ASSUME Playing(d), ~sess'[d].outgoingSayPending,
                      sess[d].outgoingSayPending
               PROVE  /\ ~Searching(q)
                      /\ Playing(q)
                           => sess[q].peerSaySequence >= sess[d].outgoingSaySequence
    BY DEF Converses
  <2>1. PICK p \in air : /\ p.from = q /\ p.to = d /\ p.type = "SayAck"
                         /\ p.seq >= sess[d].outgoingSaySequence
    BY DEF Converses
  <2>2. ~Searching(q) /\ (Playing(q) => p.seq <= sess[q].peerSaySequence)
    BY <2>1 DEF Traffic, MatchType, NotesAcked
  <2>3. p.seq \in Nat
    BY DEF TypeInv, TypeOK, Packet
  <2> QED BY <1>4, <2>1, <2>2, <2>3
<1>6. NoteReaches'
  <2> SUFFICES ASSUME NEW a \in Device, NEW b \in Device, Mutual(a, b)'
               PROVE  \/ sess'[a].outgoingSayPending
                      \/ sess'[b].peerSaySequence >= sess'[a].outgoingSaySequence
    BY DEF NoteReaches
  <2>1. /\ Mutual(a, b) /\ a # b
        /\ sess'[b].peerSaySequence >= sess[b].peerSaySequence
    BY <1>1, <1>2, <1>4 DEF Mutual
  <2>2. \/ sess[a].outgoingSayPending
        \/ sess[b].peerSaySequence >= sess[a].outgoingSaySequence
    BY <2>1 DEF NoteReaches
  <2>3. CASE a = d
    BY <1>4, <1>5, <2>1, <2>2, <2>3 DEF Mutual, Playing
  <2>4. CASE a # d
    BY <1>2, <1>4, <2>1, <2>2, <2>4
  <2> QED BY <2>3, <2>4
<1>7. NotesAcked'
  BY <1>1, <1>2, <1>3, <1>4 DEF NotesAcked, Playing, TypeInv, TypeOK, Packet
<1>8. NotesWait'
  <2> SUFFICES ASSUME NEW e \in Device, Playing(e)', Searching(sess[e].peer)'
               PROVE  sess'[e].outgoingSayPending \/ sess'[e].outgoingSaySequence = 0
    BY <1>1, <1>2 DEF NotesWait
  <2>1. Playing(e) /\ Searching(sess[e].peer)
    BY <1>1, <1>2, <1>4 DEF Playing, Searching
  <2>2. sess[e].outgoingSayPending \/ sess[e].outgoingSaySequence = 0
    BY <2>1 DEF NotesWait
  <2> QED BY <1>2, <1>5, <2>1, <2>2
<1> QED BY <1>6, <1>7, <1>8

LEMMA NextReach ==
  ASSUME MaxBegins = 1
  PROVE  ReachInv /\ [Next]_vars => ReachInv'
<1> SUFFICES ASSUME MatchInv, NotesKept, [Next]_vars
             PROVE  MatchInv' /\ NotesKept'
  BY DEF ReachInv, NotesKept
<1>1. TypeInv
  BY DEF MatchInv
<1>2. MatchInv' /\ TypedStep
  BY <1>1, NextMatch, NextTyped DEF TypedStep
<1>3. ASSUME Dwindles
      PROVE  NotesKept'
  BY <1>3 DEF Dwindles, NotesKept, NoteReaches, NotesAcked, NotesWait, Mutual,
              Playing, Searching
<1>4. ASSUME NEW d \in Device, StepOf(d)
      PROVE  NotesKept'
  <2>1. CASE Moves(d) \/ Adopts(d)
    <3>1. /\ UNCHANGED begins /\ SameMatch(sess[d], sess'[d])
          /\ SameNotes(sess[d], sess'[d]) /\ Sends(sess'[d], d)
      BY <2>1 DEF Moves, Adopts
    <3>2. Converses(d)
      BY <1>1, <3>1 DEF Converses, SameNotes, TypeInv, TypeOK, Session
    <3> QED BY <1>2, <1>4, <3>1, <3>2, ConversesNotes DEF StepOf, StayOf
  <2>2. CASE Keeps(d)
    BY <1>2, <1>4, <2>2, ConversesNotes DEF StepOf, StayOf, Keeps
  <2> QED BY <1>2, <1>4, <2>1, <2>2, AwayNotes, MatchesNotes
            DEF StepOf, StayOf, Departs
<1> QED BY <1>1, <1>2, <1>3, <1>4, NextKind

(* A note is as reliable as a move: among devices that go through          *)
(* MULTIPLAYER once, whatever is lost, repeated or reordered, a side stops *)
(* retransmitting a note only when its peer has it.  (the Say and SayAck   *)
(* cases of handlePacket)                                                  *)
THEOREM NotesArrive ==
  ASSUME MaxBegins = 1
  PROVE  Spec => []NoteReaches
<1>1. Init => ReachInv
  <2> SUFFICES ASSUME Init PROVE ReachInv
    OBVIOUS
  <2>1. \A d \in Device : sess[d].state = "Idle"
    BY ResetType DEF Init
  <2>2. air = {}
    BY DEF Init
  <2> QED BY <2>1, <2>2, InitMatch
          DEF ReachInv, NoteReaches, NotesAcked, NotesWait, Mutual, Playing
<1>2. ReachInv /\ [Next]_vars => ReachInv'
  BY NextReach
<1>3. ReachInv => NoteReaches
  BY DEF ReachInv
<1> QED BY <1>1, <1>2, <1>3, PTL DEF Spec

(***************************************************************************)
(* The refinement: among two devices that nobody vanishes from, a session  *)
(* is an AlternatingMatch.                                                 *)
(***************************************************************************)
AtMostTwo == \A c, d, e \in Device : c # d => e \in {c, d}

PairStep == /\ MatchInv /\ TypeInv' /\ PairInv /\ AtMostTwo /\ MaxBegins = 1

(* Two devices that have been in the match made opposite things of it. *)
LEMMA PairHosts ==
  ASSUME TypeInv, Unmatched, MatchByToss, AtMostTwo,
         NEW a \in Device, NEW b \in Device, a # b, HasMatch(a), HasMatch(b)
  PROVE  /\ sess[a].peer = b /\ sess[b].peer = a
         /\ sess[a].isHost <=> ~sess[b].isHost
<1>1. /\ sess[a].toss \in Nat /\ sess[b].toss \in Nat
      /\ sess[a].peer \in Device /\ sess[b].peer \in Device
  BY DEF TypeInv, TypeOK, Session, HasMatch
<1>2. sess[a].peer = b /\ sess[b].peer = a
  BY <1>1 DEF Unmatched, AtMostTwo
<1>3. /\ sess[a].isHost <=> MovesFirst(a, sess[a].toss, b, sess[b].toss)
      /\ sess[b].isHost <=> MovesFirst(b, sess[b].toss, a, sess[a].toss)
  BY <1>2 DEF MatchByToss
<1> QED BY <1>1, <1>2, <1>3, TossHasOneWinner

(* What every kind of step knows. *)
LEMMA PairFacts ==
  ASSUME PairStep, NEW d \in Device, OnlyChanges(d)
  PROVE  /\ \A e \in Device \ {d} : sess'[e] = sess[e]
         /\ \A p \in air' : p.from \in Device /\ p.seq \in Nat
         /\ \A p \in air : p.from \in Device /\ p.seq \in Nat /\ begins[p.from] = 1
         /\ \A e \in Device : /\ sess[e].sequence \in Nat /\ sess'[e].sequence \in Nat
                              /\ begins[e] \in {0, 1}
                              /\ sess[e].peer \in Device \cup {NoDevice}
                              /\ sess'[e].peer \in Device \cup {NoDevice}
<1>1. \A e \in Device \ {d} : sess'[e] = sess[e]
  BY DEF OnlyChanges
<1>2. /\ \A p \in air' : p.from \in Device /\ p.seq \in Nat
      /\ \A p \in air : p.from \in Device /\ p.seq \in Nat /\ begins[p.from] = 1
  BY DEF PairStep, MatchInv, TypeInv, TypeOK, Packet, Entered
<1>3. \A e \in Device : begins[e] \in {0, 1}
  BY DEF PairStep, MatchInv, TypeInv, TypeOK, Entered
<1>4. \A e \in Device : sess[e] \in Session /\ sess'[e] \in Session
  BY DEF PairStep, MatchInv, TypeInv, TypeOK
<1>5. \A e \in Device : /\ sess[e].sequence \in Nat /\ sess'[e].sequence \in Nat
                        /\ sess[e].peer \in Device \cup {NoDevice}
                        /\ sess'[e].peer \in Device \cup {NoDevice}
  BY <1>4 DEF Session
<1> QED BY <1>1, <1>2, <1>3, <1>5

LEMMA EntersPair ==
  ASSUME PairStep, NEW d \in Device, OnlyChanges(d), Enters(d)
  PROVE  PairInv'
<1> USE DEF PairStep, PairInv
<1>1. /\ begins[d] = 0 /\ begins'[d] = 1 /\ sess[d].sequence = 0 /\ ~HasMatch(d)
      /\ \A e \in Device \ {d} : begins'[e] = begins[e]
      /\ sess'[d].state = "Searching" /\ sess'[d].peer = NoDevice
      /\ sess'[d].sequence = 0
  BY PairFacts DEF Enters, MatchInv, TypeInv, TypeOK, Unmatched
<1>a. \A p \in air : p.from # d
  BY <1>1, PairFacts
<1>2. \A p \in air' : \/ p \in air /\ p.from # d
                      \/ p.from = d /\ p.toss = sess'[d].toss /\ p.type # "State"
  BY <1>1, <1>a DEF Enters, MaySend, MatchType
<1>3. Unmatched'
  BY <1>1, PairFacts, NoDeviceIsNoDevice DEF Unmatched, HasMatch, Searching
<1>4. MatchByToss'
  BY <1>1, PairFacts, NoDeviceIsNoDevice DEF MatchByToss, HasMatch
<1>5. Mail'
  BY <1>1, <1>2, PairFacts DEF Mail, HasMatch
<1>6. TurnByCount'
  BY <1>1, PairFacts DEF TurnByCount, Playing
<1>7. OneMoveApart'
  BY <1>1, PairFacts DEF OneMoveApart
<1> QED BY <1>3, <1>4, <1>5, <1>6, <1>7

(* A move that is sent again is the last one, of the right side. *)
LEMMA PendingMail ==
  ASSUME PairStep, NEW d \in Device, Playing(d), sess[d].outgoingPending
  PROVE  /\ HasMatch(d) /\ sess[d].outgoingSequence = sess[d].sequence
         /\ sess[d].isHost <=> ~Even(sess[d].outgoingSequence)
<1>1. sess[d].outgoingSequence = sess[d].sequence /\ ~sess[d].myTurn
  BY DEF PairStep, MatchInv, PendingIsLast
<1>2. HasMatch(d)
  BY NoDeviceIsNoDevice DEF PairStep, MatchInv, TypeInv, PeerIsOther, HasMatch
<1> QED BY <1>1, <1>2 DEF PairStep, PairInv, TurnByCount

LEMMA DepartsPair ==
  ASSUME PairStep, NEW d \in Device, OnlyChanges(d), Departs(d)
  PROVE  PairInv'
<1> USE DEF PairStep, PairInv
<1>1. /\ begins' = begins /\ sess'[d].state = "Ended" /\ sess[d].state # "Idle"
      /\ sess'[d].peer = sess[d].peer /\ sess'[d].toss = sess[d].toss
      /\ sess'[d].isHost = sess[d].isHost /\ sess'[d].sequence = sess[d].sequence
  BY DEF Departs, Quits
<1>2. \A p \in air' :
        \/ p \in air
        \/ /\ p.from = d /\ p.toss = sess[d].toss
           /\ p.type = "State" => /\ Playing(d) /\ sess[d].outgoingPending
                                  /\ p.seq = sess[d].outgoingSequence
  BY DEF Departs, Quits, Sends, MaySend, MatchType, Playing
<1>3. Unmatched'
  BY <1>1, PairFacts DEF Unmatched, HasMatch, Searching
<1>4. MatchByToss'
  BY <1>1, PairFacts DEF MatchByToss, HasMatch
<1>5. Mail'
  BY <1>1, <1>2, PairFacts, PendingMail DEF Mail, HasMatch
<1>6. TurnByCount'
  BY <1>1, PairFacts DEF TurnByCount, Playing
<1>7. OneMoveApart'
  BY <1>1, PairFacts DEF OneMoveApart
<1> QED BY <1>3, <1>4, <1>5, <1>6, <1>7

LEMMA MatchesPair ==
  ASSUME PairStep, NEW d \in Device, OnlyChanges(d), Matches(d)
  PROVE  PairInv'
<1> USE DEF PairStep, PairInv
<1>1. PICK p \in air :
        /\ sess'[d].state = "Playing" /\ sess'[d].peer = p.from
        /\ sess'[d].toss = sess[d].toss
        /\ sess'[d].isHost <=> MovesFirst(d, sess[d].toss, p.from, p.toss)
        /\ sess'[d].myTurn <=> MovesFirst(d, sess[d].toss, p.from, p.toss)
  BY DEF Matches
<1>2. /\ begins' = begins /\ Searching(d) /\ ~HasMatch(d)
      /\ sess[d].sequence = 0 /\ sess'[d].sequence = 0
  BY DEF Matches, Searching, Unmatched
<1>3. p.from \in Device \ {d} /\ begins[p.from] = 1 /\ p.toss = sess[p.from].toss
  <2>1. sess'[d].peer # d
    BY <1>1 DEF TypeInv, PeerIsOther, Playing
  <2> QED BY <1>1, <2>1, PairFacts DEF Mail
<1>4. /\ begins[d] = 1
      /\ \A m \in air' : \/ m \in air /\ (m.type = "State" => m.from # d)
                         \/ m.from = d /\ m.toss = sess'[d].toss /\ m.type # "State"
  <2>1. begins[d] = 1
    BY <1>2 DEF MatchInv, Entered, Active
  <2>2. \A m \in air : m.type = "State" => m.from # d
    BY <1>2 DEF Mail
  <2>3. \A m \in air' : \/ m \in air
                        \/ m.from = d /\ m.toss = sess'[d].toss /\ m.type # "State"
    BY DEF Matches, Sends, MaySend
  <2> QED BY <2>1, <2>2, <2>3
<1>5. Unmatched'
  BY <1>1, <1>2, <1>3, <1>4, PairFacts DEF Unmatched, HasMatch, Searching
<1>6. MatchByToss'
  BY <1>1, <1>2, <1>3, PairFacts DEF MatchByToss, HasMatch
<1>7. Mail'
  BY <1>1, <1>2, <1>4, PairFacts DEF Mail, HasMatch
<1>8. TurnByCount'
  BY <1>1, <1>2, PairFacts, EvenLemma DEF TurnByCount, Playing
<1>9. OneMoveApart'
  BY <1>1, <1>2, PairFacts DEF OneMoveApart
<1> QED BY <1>5, <1>6, <1>7, <1>8, <1>9

(* Whoever holds the turn has seen every move. *)
LEMMA TurnMeansLevel ==
  ASSUME PairStep, NEW d \in Device, NEW q \in Device, q # d,
         Playing(d), sess[d].myTurn
  PROVE  sess[q].sequence = sess[d].sequence
<1> USE DEF PairStep, PairInv
<1>1. /\ sess[d].sequence \in Nat /\ sess[q].sequence \in Nat
      /\ HasMatch(d)
  BY NoDeviceIsNoDevice
     DEF MatchInv, TypeInv, TypeOK, Session, PeerIsOther, HasMatch
<1>2. sess[d].isHost <=> Even(sess[d].sequence)
  BY DEF TurnByCount
<1>3. ~(sess[d].sequence > sess[q].sequence)
  BY <1>2 DEF OneMoveApart
<1>4. ASSUME sess[q].sequence > sess[d].sequence
      PROVE  FALSE
  <2>1. /\ sess[q].sequence = sess[d].sequence + 1
        /\ sess[q].isHost <=> ~Even(sess[q].sequence)
    BY <1>4 DEF OneMoveApart
  <2>2. HasMatch(q)
    BY <1>1, <2>1 DEF Unmatched
  <2>3. sess[d].isHost <=> ~sess[q].isHost
    BY <1>1, <2>2, PairHosts DEF MatchInv
  <2> QED BY <1>1, <1>2, <2>1, <2>3, EvenLemma
<1> QED BY <1>1, <1>3, <1>4

LEMMA MovesPair ==
  ASSUME PairStep, NEW d \in Device, OnlyChanges(d), Moves(d)
  PROVE  PairInv'
<1> USE DEF PairStep, PairInv
<1>1. /\ begins' = begins /\ Playing(d) /\ sess[d].myTurn
      /\ sess'[d].state = "Playing" /\ sess'[d].peer = sess[d].peer
      /\ sess'[d].toss = sess[d].toss /\ sess'[d].isHost = sess[d].isHost
      /\ sess'[d].sequence = sess[d].sequence + 1 /\ ~sess'[d].myTurn
      /\ sess'[d].outgoingSequence = sess[d].sequence + 1
  BY DEF Moves, SameMatch, Playing
<1>2. /\ HasMatch(d)
      /\ sess[d].isHost <=> Even(sess[d].sequence)
      /\ sess[d].isHost <=> ~Even(sess'[d].sequence)
      /\ \A e \in Device \ {d} : sess[e].sequence = sess[d].sequence
  BY <1>1, PairFacts, NoDeviceIsNoDevice, EvenLemma, TurnMeansLevel
     DEF TurnByCount, MatchInv, TypeInv, PeerIsOther, HasMatch
<1>3. \A m \in air' : \/ m \in air
                      \/ /\ m.from = d /\ m.toss = sess'[d].toss
                         /\ m.type = "State" => m.seq = sess'[d].sequence
  BY <1>1 DEF Moves, Sends, MaySend
<1>4. Unmatched'
  BY <1>1, <1>2, PairFacts DEF Unmatched, HasMatch, Searching, Playing
<1>5. MatchByToss'
  BY <1>1, PairFacts DEF MatchByToss, HasMatch
<1>6. Mail'
  BY <1>1, <1>2, <1>3, PairFacts DEF Mail, HasMatch
<1>7. TurnByCount'
  BY <1>1, <1>2, PairFacts DEF TurnByCount, Playing
<1>8. OneMoveApart'
  BY <1>1, <1>2, PairFacts DEF OneMoveApart
<1> QED BY <1>4, <1>5, <1>6, <1>7, <1>8

(* The state that is adopted is the peer's last move. *)
LEMMA AdoptsLast ==
  ASSUME PairStep, NEW d \in Device, OnlyChanges(d), Adopts(d)
  PROVE  LET q == sess[d].peer IN
         /\ q \in Device \ {d} /\ HasMatch(d) /\ HasMatch(q)
         /\ sess'[d].sequence = sess[d].sequence + 1
         /\ sess[q].sequence = sess[d].sequence + 1
         /\ sess[d].isHost <=> Even(sess'[d].sequence)
<1> USE DEF PairStep, PairInv
<1> DEFINE q == sess[d].peer
<1>1. q \in Device \ {d} /\ HasMatch(d)
  BY NoDeviceIsNoDevice DEF Adopts, MatchInv, TypeInv, PeerIsOther, Playing, HasMatch
<1>2. PICK p \in air : /\ p.from = q /\ p.type = "State"
                       /\ p.seq > sess[d].sequence /\ sess'[d].sequence = p.seq
  BY DEF Adopts
<1>3. /\ HasMatch(q) /\ p.seq <= sess[q].sequence
      /\ sess[q].isHost <=> ~Even(p.seq)
  BY <1>2 DEF Mail
<1>4. sess[d].isHost <=> ~sess[q].isHost
  BY <1>1, <1>3, PairHosts DEF MatchInv
<1>5. sess[q].sequence = sess[d].sequence + 1 /\ p.seq = sess[d].sequence + 1
  BY <1>1, <1>2, <1>3, PairFacts DEF OneMoveApart
<1> QED BY <1>1, <1>2, <1>3, <1>4, <1>5

LEMMA AdoptsPair ==
  ASSUME PairStep, NEW d \in Device, OnlyChanges(d), Adopts(d)
  PROVE  PairInv'
<1> USE DEF PairStep, PairInv
<1> DEFINE q == sess[d].peer
<1>1. /\ begins' = begins /\ Playing(d)
      /\ sess'[d].state = "Playing" /\ sess'[d].peer = q
      /\ sess'[d].toss = sess[d].toss /\ sess'[d].isHost = sess[d].isHost
      /\ sess'[d].myTurn /\ ~sess'[d].outgoingPending
  BY DEF Adopts, SameMatch, Playing
<1>2. /\ q \in Device \ {d} /\ HasMatch(d)
      /\ sess'[d].sequence = sess[d].sequence + 1
      /\ sess[q].sequence = sess[d].sequence + 1
      /\ sess[d].isHost <=> Even(sess'[d].sequence)
  BY AdoptsLast
<1>3. \A m \in air' : \/ m \in air
                      \/ m.from = d /\ m.toss = sess'[d].toss /\ m.type # "State"
  BY <1>1 DEF Adopts, Sends, MaySend
<1>4. Unmatched'
  BY <1>1, <1>2, PairFacts DEF Unmatched, HasMatch, Searching, Playing
<1>5. MatchByToss'
  BY <1>1, PairFacts DEF MatchByToss, HasMatch
<1>6. Mail'
  BY <1>1, <1>2, <1>3, PairFacts DEF Mail, HasMatch
<1>7. TurnByCount'
  BY <1>1, <1>2, PairFacts DEF TurnByCount, Playing
<1>8. OneMoveApart'
  BY <1>1, <1>2, PairFacts DEF OneMoveApart, AtMostTwo
<1> QED BY <1>4, <1>5, <1>6, <1>7, <1>8

LEMMA KeepsPair ==
  ASSUME PairStep, NEW d \in Device, OnlyChanges(d), Keeps(d)
  PROVE  PairInv'
<1> USE DEF PairStep, PairInv
<1>1. /\ begins' = begins
      /\ sess'[d].state = sess[d].state /\ sess'[d].peer = sess[d].peer
      /\ sess'[d].toss = sess[d].toss /\ sess'[d].isHost = sess[d].isHost
      /\ sess'[d].myTurn = sess[d].myTurn
      /\ sess'[d].sequence = sess[d].sequence
  BY DEF Keeps, SameMatch
<1>2. \A p \in air' :
        \/ p \in air
        \/ /\ p.from = d /\ p.toss = sess[d].toss
           /\ p.type = "State" => /\ Playing(d) /\ sess[d].outgoingPending
                                  /\ p.seq = sess[d].outgoingSequence
  BY <1>1 DEF Keeps, Sends, MaySend, MatchType, Playing
<1>3. Unmatched'
  BY <1>1, PairFacts DEF Unmatched, HasMatch, Searching
<1>4. MatchByToss'
  BY <1>1, PairFacts DEF MatchByToss, HasMatch
<1>5. Mail'
  BY <1>1, <1>2, PairFacts, PendingMail DEF Mail, HasMatch
<1>6. TurnByCount'
  BY <1>1, PairFacts DEF TurnByCount, Playing
<1>7. OneMoveApart'
  BY <1>1, PairFacts DEF OneMoveApart
<1> QED BY <1>3, <1>4, <1>5, <1>6, <1>7

LEMMA StayKind ==
  ASSUME TypeInv, [StayNext]_vars
  PROVE  (\E d \in Device : StayOf(d)) \/ Dwindles
<1>1. CASE UNCHANGED vars
  BY <1>1 DEF vars, Dwindles
<1>2. CASE \E d \in Device : Begin(d) \/ Leave(d) \/ GameStep(d) \/ ClockStep(d)
  BY <1>2, BeginKind, LeaveKind, GameKind, ClockKind
<1>3. CASE \E p \in air : Receive(p.to, p)
  BY <1>3, ReceiveKind DEF TypeInv, TypeOK, Packet
<1> QED BY <1>1, <1>2, <1>3 DEF StayNext

LEMMA StayIsNext == [StayNext]_vars => [Next]_vars
BY DEF StayNext, Next, UserStep

LEMMA DwindlesPair ==
  ASSUME PairInv, Dwindles
  PROVE  PairInv'
<1>1. sess' = sess /\ begins' = begins /\ \A p \in air' : p \in air
  BY DEF Dwindles
<1>2. Unmatched' /\ MatchByToss'
  BY <1>1 DEF PairInv, Unmatched, MatchByToss, HasMatch, Searching
<1>3. Mail'
  BY <1>1 DEF PairInv, Mail, HasMatch
<1>4. TurnByCount' /\ OneMoveApart'
  BY <1>1 DEF PairInv, TurnByCount, OneMoveApart, Playing
<1> QED BY <1>2, <1>3, <1>4 DEF PairInv

LEMMA StayInv ==
  ASSUME MaxBegins = 1, AtMostTwo
  PROVE  (MatchInv /\ PairInv) /\ [StayNext]_vars => (MatchInv /\ PairInv)'
<1> SUFFICES ASSUME MatchInv, PairInv, [StayNext]_vars
             PROVE  MatchInv' /\ PairInv'
  OBVIOUS
<1>1. MatchInv'
  BY StayIsNext, NextMatch
<1>2. PairStep
  BY <1>1 DEF PairStep, MatchInv
<1>3. ASSUME NEW d \in Device, StayOf(d)
      PROVE  PairInv'
  BY <1>2, <1>3, EntersPair, DepartsPair, MatchesPair, MovesPair, AdoptsPair, KeepsPair
     DEF StayOf
<1>4. TypeInv
  BY DEF MatchInv
<1>5. PairInv'
  BY <1>3, <1>4, StayKind, DwindlesPair
<1> QED BY <1>1, <1>5

(* What the abstract match calls first, seen from either side. *)
FirstKnown ==
  /\ (\A d \in Device : ~HasMatch(d)) => MatchFirst = NoDevice
  /\ \A d \in Device : HasMatch(d) =>
       /\ MatchFirst \in Device
       /\ MatchFirst = IF sess[d].isHost THEN d ELSE sess[d].peer

LEMMA FirstLemma ==
  AtMostTwo => (TypeInv /\ PairInv => FirstKnown)
<1> SUFFICES ASSUME AtMostTwo, TypeInv, PairInv
             PROVE  FirstKnown
  OBVIOUS
<1>1. (\A d \in Device : ~HasMatch(d)) => MatchFirst = NoDevice
  BY DEF MatchFirst, InMatch, HasMatch
<1>2. ASSUME NEW d \in Device, HasMatch(d)
      PROVE  /\ MatchFirst \in Device
             /\ MatchFirst = IF sess[d].isHost THEN d ELSE sess[d].peer
  <2> DEFINE c == CHOOSE e \in InMatch : TRUE
  <2>1. d \in InMatch
    BY <1>2 DEF InMatch, HasMatch
  <2>2. c \in InMatch
    BY <2>1
  <2>3. MatchFirst = IF sess[c].isHost THEN c ELSE sess[c].peer
    BY <2>1 DEF MatchFirst
  <2> HIDE DEF c
  <2>4. c \in Device /\ HasMatch(c)
    BY <2>2 DEF InMatch, HasMatch
  <2>5. sess[c].peer \in Device
    BY <2>4 DEF HasMatch, TypeInv, TypeOK, Session
  <2>6. CASE c = d
    BY <2>3, <2>4, <2>5, <2>6
  <2>7. CASE c # d
    BY <1>2, <2>3, <2>4, <2>5, <2>7, PairHosts DEF PairInv
  <2> QED BY <2>6, <2>7
<1> QED BY <1>1, <1>2 DEF FirstKnown

(* A step that leaves peers, hosts and counters alone is no step of the    *)
(* abstract match.                                                         *)
LEMMA Stutters ==
  ASSUME \A e \in Device : /\ sess'[e].peer = sess[e].peer
                           /\ sess'[e].isHost = sess[e].isHost
                           /\ sess'[e].sequence = sess[e].sequence
  PROVE  UNCHANGED Match!match
<1>1. InMatch' = InMatch
  BY DEF InMatch
<1>2. ASSUME InMatch # {}
      PROVE  (CHOOSE e \in InMatch : TRUE) \in Device
  BY <1>2 DEF InMatch
<1>3. MatchFirst' = MatchFirst
  BY <1>1, <1>2 DEF MatchFirst
<1>4. [e \in Device |-> sess[e].sequence]' = [e \in Device |-> sess[e].sequence]
  OBVIOUS
<1> QED BY <1>3, <1>4 DEF Match!match

LEMMA OtherIsPeer ==
  ASSUME AtMostTwo, NEW a \in Device, NEW b \in Device, a # b
  PROVE  Match!Other(a) = b
BY DEF AtMostTwo, Match!Other

(* The counters after d has counted one move more. *)
LEMMA OneMoreMove ==
  ASSUME NEW d \in Device, OnlyChanges(d), sess'[d].sequence = sess[d].sequence + 1
  PROVE  [e \in Device |-> sess[e].sequence]'
           = [[e \in Device |-> sess[e].sequence] EXCEPT ![d] = @ + 1]
BY DEF OnlyChanges

(* Whoever is first stays first. *)
LEMMA FirstStays ==
  ASSUME FirstKnown, FirstKnown', NEW d \in Device, HasMatch(d),
         sess'[d].peer = sess[d].peer, sess'[d].isHost = sess[d].isHost
  PROVE  MatchFirst' = MatchFirst
BY DEF FirstKnown, HasMatch

LEMMA MatchesRefines ==
  ASSUME PairStep, PairInv', FirstKnown, FirstKnown',
         NEW d \in Device, OnlyChanges(d), Matches(d)
  PROVE  Match!Next \/ UNCHANGED Match!match
<1>1. /\ ~HasMatch(d) /\ HasMatch(d)' /\ sess[d].sequence = 0 /\ sess'[d].sequence = 0
  BY NoDeviceIsNoDevice
     DEF Matches, PairStep, PairInv, Unmatched, Searching, HasMatch,
         TypeInv, PeerIsOther, Playing
<1>2. [e \in Device |-> sess[e].sequence]' = [e \in Device |-> sess[e].sequence]
  BY <1>1 DEF OnlyChanges
<1>3. CASE \E c \in Device : HasMatch(c)
  <2>1. PICK c \in Device : HasMatch(c)
    BY <1>3
  <2>2. sess'[c] = sess[c]
    BY <1>1, <2>1 DEF OnlyChanges
  <2>3. MatchFirst' = MatchFirst
    BY <2>1, <2>2, FirstStays
  <2> QED BY <1>2, <2>3 DEF Match!match
<1>4. CASE \A c \in Device : ~HasMatch(c)
  <2>1. MatchFirst = NoDevice /\ MatchFirst' \in Device
    BY <1>1, <1>4 DEF FirstKnown
  <2>2. Match!Pick
    BY <1>2, <2>1 DEF Match!Pick
  <2> QED BY <2>2 DEF Match!Next
<1> QED BY <1>3, <1>4

LEMMA MovesRefines ==
  ASSUME PairStep, FirstKnown, FirstKnown',
         NEW d \in Device, OnlyChanges(d), Moves(d)
  PROVE  Match!Move(d)
<1> DEFINE q == sess[d].peer
           moves == [e \in Device |-> sess[e].sequence]
<1>1. /\ Playing(d) /\ sess[d].myTurn /\ sess'[d].peer = q
      /\ sess'[d].isHost = sess[d].isHost
      /\ sess'[d].sequence = sess[d].sequence + 1
  BY DEF Moves, SameMatch, Playing
<1>2. q \in Device \ {d} /\ HasMatch(d) /\ sess[d].sequence \in Nat
  BY <1>1, NoDeviceIsNoDevice
     DEF PairStep, MatchInv, TypeInv, TypeOK, PeerIsOther, HasMatch, Session
<1>3. sess[d].isHost <=> Even(sess[d].sequence)
  BY <1>1 DEF PairStep, PairInv, TurnByCount
<1>4. MatchFirst = (IF sess[d].isHost THEN d ELSE q) /\ MatchFirst # NoDevice
  BY <1>2, NoDeviceIsNoDevice DEF FirstKnown
<1>5. d = Match!Mover(moves[d])
  <2>1. Match!Other(q) = d
    BY <1>2, OtherIsPeer DEF PairStep
  <2> QED BY <1>2, <1>3, <1>4, <2>1 DEF Match!Mover, Even
<1>6. moves[d] >= moves[Match!Other(d)]
  <2>1. Match!Other(d) = q
    BY <1>2, OtherIsPeer DEF PairStep
  <2>2. sess[q].sequence = sess[d].sequence
    BY <1>1, <1>2, TurnMeansLevel
  <2> QED BY <1>2, <2>1, <2>2
<1>7. MatchFirst' = MatchFirst
  BY <1>1, <1>2, FirstStays
<1>8. moves' = [moves EXCEPT ![d] = @ + 1]
  BY <1>1, OneMoreMove
<1> QED BY <1>4, <1>5, <1>6, <1>7, <1>8 DEF Match!Move

LEMMA AdoptsRefines ==
  ASSUME PairStep, FirstKnown, FirstKnown',
         NEW d \in Device, OnlyChanges(d), Adopts(d)
  PROVE  Match!CatchUp(d)
<1> DEFINE q == sess[d].peer
           moves == [e \in Device |-> sess[e].sequence]
<1>1. /\ q \in Device \ {d} /\ HasMatch(d)
      /\ sess'[d].sequence = sess[d].sequence + 1
      /\ sess[q].sequence = sess[d].sequence + 1
  BY AdoptsLast
<1>2. Match!Other(d) = q
  BY <1>1, OtherIsPeer DEF PairStep
<1>3. moves[d] + 1 = moves[Match!Other(d)]
  BY <1>1, <1>2
<1>4. MatchFirst' = MatchFirst
  BY <1>1, FirstStays DEF Adopts, SameMatch
<1>5. moves' = [moves EXCEPT ![d] = @ + 1]
  BY <1>1, OneMoreMove
<1> QED BY <1>3, <1>4, <1>5 DEF Match!CatchUp

LEMMA StayRefines ==
  ASSUME PairStep, PairInv', FirstKnown, FirstKnown', NEW d \in Device, StayOf(d)
  PROVE  Match!Next \/ UNCHANGED Match!match
<1>1. OnlyChanges(d)
  BY DEF StayOf
<1>2. CASE Enters(d)
  <2>1. begins[d] = 0
    BY <1>2 DEF Enters, PairStep, MatchInv, TypeInv, TypeOK
  <2>2. ~HasMatch(d) /\ sess[d].sequence = 0
    BY <2>1 DEF PairStep, PairInv, Unmatched
  <2>3. ~HasMatch(d)' /\ sess'[d].sequence = 0
    BY <1>2 DEF Enters, HasMatch
  <2>4. InMatch' = InMatch
    BY <1>1, <2>2, <2>3 DEF OnlyChanges, InMatch, HasMatch
  <2>5. MatchFirst' = MatchFirst
    <3>1. CASE \E c \in Device : HasMatch(c)
      BY <1>1, <2>2, <3>1, FirstStays DEF OnlyChanges
    <3>2. CASE \A c \in Device : ~HasMatch(c)
      BY <1>1, <2>3, <3>2 DEF FirstKnown, OnlyChanges, HasMatch
    <3> QED BY <3>1, <3>2
  <2>6. [e \in Device |-> sess[e].sequence]' = [e \in Device |-> sess[e].sequence]
    BY <1>1, <2>2, <2>3 DEF OnlyChanges
  <2> QED BY <2>5, <2>6 DEF Match!match
<1>3. CASE Departs(d) \/ Keeps(d)
  BY <1>1, <1>3, Stutters DEF Departs, Keeps, SameMatch, OnlyChanges
<1>4. CASE Matches(d)
  BY <1>1, <1>4, MatchesRefines
<1>5. CASE Moves(d)
  BY <1>1, <1>5, MovesRefines DEF Match!Next
<1>6. CASE Adopts(d)
  BY <1>1, <1>6, AdoptsRefines DEF Match!Next
<1> QED BY <1>2, <1>3, <1>4, <1>5, <1>6 DEF StayOf

(* Two devices that go through MULTIPLAYER once, over a radio that may     *)
(* delay, repeat and reorder what they send, and that leave knowingly or   *)
(* time out, play an alternating match: one of them is picked to move      *)
(* first, moves alternate, and who is behind catches up with exactly the   *)
(* move that was made.  (matchWith, submit, the State case of              *)
(* handlePacket)                                                           *)
THEOREM SessionImplementsMatch ==
  ASSUME MaxBegins = 1, AtMostTwo
  PROVE  StaySpec => ImplementsMatch
<1>1. Init => MatchInv /\ PairInv
  <2> SUFFICES ASSUME Init PROVE PairInv
    BY InitMatch
  <2>1. \A d \in Device : /\ sess[d].state = "Idle" /\ sess[d].peer = NoDevice
                          /\ sess[d].sequence = 0
    BY DEF Init, ResetSession
  <2>2. air = {}
    BY DEF Init
  <2> QED BY <2>1, <2>2, NoDeviceIsNoDevice
          DEF PairInv, Unmatched, MatchByToss, Mail, TurnByCount, OneMoveApart,
              HasMatch, Playing
<1>2. (MatchInv /\ PairInv) /\ [StayNext]_vars => (MatchInv /\ PairInv)'
  BY StayInv
<1>3. Init => Match!Init
  <2> SUFFICES ASSUME Init PROVE Match!Init
    OBVIOUS
  <2>1. \A d \in Device : sess[d].peer = NoDevice /\ sess[d].sequence = 0
    BY DEF Init, ResetSession
  <2>2. MatchFirst = NoDevice
    BY <2>1 DEF MatchFirst, InMatch
  <2> QED BY <2>1, <2>2 DEF Match!Init
<1>4. MatchInv /\ PairInv => FirstKnown
  BY FirstLemma DEF MatchInv
<1>5. /\ MatchInv /\ PairInv /\ FirstKnown
      /\ (MatchInv /\ PairInv /\ FirstKnown)' /\ [StayNext]_vars
      => [Match!Next]_Match!match
  <2> SUFFICES ASSUME MatchInv, PairInv, FirstKnown, MatchInv', PairInv', FirstKnown',
                      [StayNext]_vars
               PROVE  Match!Next \/ UNCHANGED Match!match
    OBVIOUS
  <2>1. TypeInv /\ PairStep
    BY DEF MatchInv, PairStep
  <2>2. CASE Dwindles
    BY <2>2, Stutters DEF Dwindles
  <2>3. ASSUME NEW d \in Device, StayOf(d)
        PROVE  Match!Next \/ UNCHANGED Match!match
    BY <2>1, <2>3, StayRefines
  <2> QED BY <2>1, <2>2, <2>3, StayKind
<1>6. StaySpec => Match!Spec
  BY <1>1, <1>2, <1>3, <1>4, <1>5, PTL DEF StaySpec, Match!Spec
<1> QED BY <1>6 DEF ImplementsMatch
=============================================================================
