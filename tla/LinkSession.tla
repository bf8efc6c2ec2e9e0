---------------------------- MODULE LinkSession ----------------------------
(***************************************************************************)
(* The link-play session of CrossPlay: a two-player match over a radio     *)
(* that loses, duplicates, delays and reorders packets, with no server.    *)
(* Source: src/apps_local/link/LinkSession.{h,cpp}, the transport contract *)
(* of LinkTransport.h, and the way LinkPlay.cpp and LinkActivity.cpp use   *)
(* the session.                                                            *)
(*                                                                         *)
(* One record sess[d] holds the fields of Session on device d.  board[d]   *)
(* is the game's own copy of the shared state, abstracted to the number of *)
(* moves that are on it: the payload of a State packet is that number, so  *)
(* a board that lost a move is told apart from one that has them all.      *)
(* told[d] is the newest note the game has been handed.                    *)
(*                                                                         *)
(* Time is abstracted: an interval "has elapsed" whenever the action that  *)
(* waits for it is taken.  air is the set of packets in flight.  Receiving *)
(* a packet leaves it in air, so it may arrive again and in any order;     *)
(* Lose removes it.                                                        *)
(*                                                                         *)
(* An operator marked "Fault" is the definition below it with a plausible  *)
(* bug.  No specification uses it; it is there to show that the properties *)
(* can fail.                                                               *)
(***************************************************************************)
EXTENDS Naturals

CONSTANTS
  Device,       \* radio addresses; unique, ordered by <  (Address::operator<)
  Toss,         \* values a coin toss can take            (uint8_t)
  MaxSequence,  \* bound: moves in one match
  MaxNotes,     \* bound: notes one side sends in one match
  MaxBegins     \* bound: times one device taps MULTIPLAYER

ASSUME DeviceAssumption == Device \subseteq Nat \ {0}
ASSUME TossAssumption == Toss \subseteq Nat
ASSUME BoundAssumption == /\ MaxSequence \in Nat /\ MaxSequence < 65535
                          /\ MaxNotes \in Nat /\ MaxNotes < 65535
                          /\ MaxBegins \in Nat

VARIABLES sess, board, told, begins, air

vars == <<sess, board, told, begins, air>>

NoDevice == 0

State == {"Idle", "Searching", "Playing", "Ended"}
EndReason == {"None", "PeerLeft", "PeerLost", "LocalLeft"}
PacketType == {"Hello", "Join", "State", "Ack", "Bye", "Say", "SayAck"}

Session ==
  [state : State, endReason : EndReason,
   isHost : BOOLEAN, myTurn : BOOLEAN, peerConfirmed : BOOLEAN,
   toss : Nat, peer : Device \cup {NoDevice},
   candidate : Device \cup {NoDevice},
   sequence : Nat,
   outgoing : Nat, outgoingSequence : Nat, outgoingPending : BOOLEAN,
   incoming : Nat, incomingPending : BOOLEAN,
   outgoingSaySequence : Nat, outgoingSayPending : BOOLEAN,
   peerSaySequence : Nat, incomingSayPending : BOOLEAN]

Packet == [from : Device, to : Device, type : PacketType,
           seq : Nat, toss : Nat, body : Nat]

TypeOK == /\ sess \in [Device -> Session]
          /\ board \in [Device -> Nat]
          /\ told \in [Device -> Nat]
          /\ begins \in [Device -> Nat]
          /\ air \subseteq Packet

-----------------------------------------------------------------------------
(* Session::reset: every field back to its initial value.                  *)
ResetSession ==
  [state |-> "Idle", endReason |-> "None",
   isHost |-> FALSE, myTurn |-> FALSE, peerConfirmed |-> FALSE,
   toss |-> 0, peer |-> NoDevice, candidate |-> NoDevice,
   sequence |-> 0,
   outgoing |-> 0, outgoingSequence |-> 0, outgoingPending |-> FALSE,
   incoming |-> 0, incomingPending |-> FALSE,
   outgoingSaySequence |-> 0, outgoingSayPending |-> FALSE,
   peerSaySequence |-> 0, incomingSayPending |-> FALSE]

(* uint16_t arithmetic of the two sequence counters. *)
NextSequence(n) == (n + 1) % 65536

(* The packets a session r on device d puts on the air. *)
Unicast(r, d, to, type, seq, body) ==
  {[from |-> d, to |-> to, type |-> type, seq |-> seq,
    toss |-> r.toss, body |-> body]}

HelloFrom(r, d) ==
  UNION {Unicast(r, d, e, "Hello", 0, 0) : e \in Device \ {d}}

JoinFrom(r, d) ==
  Unicast(r, d, IF r.state = "Playing" THEN r.peer ELSE r.candidate, "Join", 0, 0)

StateFrom(r, d) ==
  Unicast(r, d, r.peer, "State", r.outgoingSequence, r.outgoing)

AckFrom(r, d) == Unicast(r, d, r.peer, "Ack", r.sequence, 0)

SayFrom(r, d) == Unicast(r, d, r.peer, "Say", r.outgoingSaySequence, 0)

SayAckFrom(r, d) == Unicast(r, d, r.peer, "SayAck", r.peerSaySequence, 0)

(* Leaves every device but d as it is. *)
Becomes(d, r, sent) == /\ sess' = [sess EXCEPT ![d] = r]
                       /\ air' = air \cup sent

(* Session::end.  A note that is being retransmitted stays pending; nothing *)
(* sends it any more.                                                       *)
Over(r, reason) ==
  [r EXCEPT !.state = "Ended", !.endReason = reason, !.myTurn = FALSE,
            !.outgoingPending = FALSE, !.candidate = NoDevice]

(* The coin toss: the lower one moves first, the address breaks a tie.      *)
MovesFirst(d, toss, peer, peerToss) ==
  IF toss # peerToss THEN toss < peerToss ELSE d < peer

(* Session::matchWith, and the empty board the game deals itself when       *)
(* PlayBase::takeMatchStart reports the match in the same loop pass.        *)
Matched(r, d, peer, peerToss) ==
  LET first == MovesFirst(d, r.toss, peer, peerToss) IN
  [ResetSession EXCEPT
     !.state = "Playing", !.isHost = first, !.myTurn = first,
     !.toss = r.toss, !.peer = peer]

MatchWith(r, d, p) ==
  LET m == Matched(r, d, p.from, p.toss) IN
  /\ Becomes(d, m, AckFrom(m, d))
  /\ board' = [board EXCEPT ![d] = 0]
  /\ told' = [told EXCEPT ![d] = 0]
  /\ UNCHANGED begins

-----------------------------------------------------------------------------
Init == /\ sess = [d \in Device |-> ResetSession]
        /\ board = [d \in Device |-> 0]
        /\ told = [d \in Device |-> 0]
        /\ begins = [d \in Device |-> 0]
        /\ air = {}

(* What the player and the game do. *)

(* The player taps MULTIPLAYER: PlayBase::start takes the radio, whose      *)
(* receive ring starts empty, and Session::begin rolls a toss and announces *)
(* the device at once.                                                      *)
Begin(d) ==
  /\ sess[d].state \in {"Idle", "Ended"}
  /\ begins[d] < MaxBegins
  /\ begins' = [begins EXCEPT ![d] = @ + 1]
  /\ \E t \in Toss :
       LET r == [ResetSession EXCEPT !.state = "Searching", !.toss = t] IN
       /\ sess' = [sess EXCEPT ![d] = r]
       /\ air' = {p \in air : p.to # d} \cup HelloFrom(r, d)
  /\ UNCHANGED <<board, told>>

(* Session::leave.  The three copies of the Bye are one packet here, which  *)
(* may arrive several times or not at all.                                  *)
Leave(d) ==
  LET r == sess[d] IN
  /\ r.state \in {"Searching", "Playing"}
  /\ Becomes(d, Over(r, "LocalLeft"),
             IF r.state = "Playing"
             THEN Unicast(r, d, r.peer, "Bye", r.sequence, 0) ELSE {})
  /\ UNCHANGED <<board, told, begins>>

(* Session::reset where nobody is told: a flat battery, a crash, a reboot.  *)
Vanish(d) ==
  /\ sess[d].state # "Idle"
  /\ Becomes(d, ResetSession, {})
  /\ UNCHANGED <<board, told, begins>>

(* Fault: the turn is looked at, but not whether a board is waiting.        *)
SubmitStale(d) ==
  LET r == sess[d]
      n == NextSequence(r.sequence)
      s == [r EXCEPT !.outgoing = board[d] + 1, !.sequence = n,
                     !.outgoingSequence = n, !.outgoingPending = TRUE,
                     !.myTurn = FALSE]
  IN /\ r.state = "Playing" /\ r.myTurn
     /\ r.sequence < MaxSequence
     /\ board' = [board EXCEPT ![d] = @ + 1]
     /\ Becomes(d, s, StateFrom(s, d))
     /\ UNCHANGED <<told, begins>>

(* Fault: the turn stays with the side that moved.                         *)
SubmitKeepsTurn(d) ==
  LET r == sess[d]
      n == NextSequence(r.sequence)
      s == [r EXCEPT !.outgoing = board[d] + 1, !.sequence = n,
                     !.outgoingSequence = n, !.outgoingPending = TRUE]
  IN /\ r.state = "Playing" /\ r.myTurn
     /\ ~r.incomingPending
     /\ r.sequence < MaxSequence
     /\ board' = [board EXCEPT ![d] = @ + 1]
     /\ Becomes(d, s, StateFrom(s, d))
     /\ UNCHANGED <<told, begins>>

(* The player moves: the board with one move more is submitted.             *)
Submit(d) ==
  LET r == sess[d]
      n == NextSequence(r.sequence)
      s == [r EXCEPT !.outgoing = board[d] + 1, !.sequence = n,
                     !.outgoingSequence = n, !.outgoingPending = TRUE,
                     !.myTurn = FALSE]
  IN /\ r.state = "Playing" /\ r.myTurn
     /\ ~r.incomingPending
     /\ r.sequence < MaxSequence
     /\ board' = [board EXCEPT ![d] = @ + 1]
     /\ Becomes(d, s, StateFrom(s, d))
     /\ UNCHANGED <<told, begins>>

(* The game takes delivery of the peer's board (also after the match ended).*)
TakeIncoming(d) ==
  LET r == sess[d] IN
  /\ r.incomingPending
  /\ board' = [board EXCEPT ![d] = r.incoming]
  /\ Becomes(d, [r EXCEPT !.incomingPending = FALSE], {})
  /\ UNCHANGED <<told, begins>>

(* Session::announce.  A note is identified by its number in the match.     *)
Announce(d) ==
  LET r == sess[d]
      s == [r EXCEPT !.outgoingSaySequence = NextSequence(@),
                     !.outgoingSayPending = TRUE]
  IN /\ r.state = "Playing"
     /\ r.outgoingSaySequence < MaxNotes
     /\ Becomes(d, s, SayFrom(s, d))
     /\ UNCHANGED <<board, told, begins>>

TakeAnnouncement(d) ==
  LET r == sess[d] IN
  /\ r.incomingSayPending
  /\ told' = [told EXCEPT ![d] = r.peerSaySequence]
  /\ Becomes(d, [r EXCEPT !.incomingSayPending = FALSE], {})
  /\ UNCHANGED <<board, begins>>

-----------------------------------------------------------------------------
(* The clocks of Session::tick. *)

HelloTick(d) ==
  /\ sess[d].state = "Searching"
  /\ Becomes(d, sess[d], HelloFrom(sess[d], d))
  /\ UNCHANGED <<board, told, begins>>

JoinTick(d) ==
  /\ sess[d].state = "Searching"
  /\ sess[d].candidate # NoDevice
  /\ Becomes(d, sess[d], JoinFrom(sess[d], d))
  /\ UNCHANGED <<board, told, begins>>

(* kCandidateForgetMs without a word from the candidate. *)
ForgetCandidate(d) ==
  /\ sess[d].state = "Searching"
  /\ sess[d].candidate # NoDevice
  /\ Becomes(d, [sess[d] EXCEPT !.candidate = NoDevice], {})
  /\ UNCHANGED <<board, told, begins>>

(* Fault: only a peer that has been confirmed can be lost.                 *)
PeerTimeoutConfirmedOnly(d) ==
  /\ sess[d].state = "Playing" /\ sess[d].peerConfirmed
  /\ Becomes(d, Over(sess[d], "PeerLost"), {})
  /\ UNCHANGED <<board, told, begins>>

(* kPeerTimeoutMs of silence.  For safety it may happen at any moment: the  *)
(* session never looks at why it heard nothing.                             *)
PeerTimeout(d) ==
  /\ sess[d].state = "Playing"
  /\ Becomes(d, Over(sess[d], "PeerLost"), {})
  /\ UNCHANGED <<board, told, begins>>

RetrySay(d) ==
  /\ sess[d].state = "Playing"
  /\ sess[d].outgoingSayPending
  /\ Becomes(d, sess[d], SayFrom(sess[d], d))
  /\ UNCHANGED <<board, told, begins>>

(* Fault: nothing is resent once the turn has gone.                        *)
RetryStateOnTurn(d) ==
  /\ sess[d].state = "Playing" /\ sess[d].myTurn
  /\ sess[d].outgoingPending
  /\ Becomes(d, sess[d], StateFrom(sess[d], d))
  /\ UNCHANGED <<board, told, begins>>

RetryState(d) ==
  /\ sess[d].state = "Playing"
  /\ sess[d].outgoingPending
  /\ Becomes(d, sess[d], StateFrom(sess[d], d))
  /\ UNCHANGED <<board, told, begins>>

(* The else branch of tick.  While a state is pending the retry always wins:*)
(* its clock is never later than the heartbeat's and its interval shorter.  *)
Heartbeat(d) ==
  /\ sess[d].state = "Playing"
  /\ ~sess[d].outgoingPending
  /\ Becomes(d, sess[d], AckFrom(sess[d], d))
  /\ UNCHANGED <<board, told, begins>>

-----------------------------------------------------------------------------
(* Session::handlePacket while Searching. *)

(* The lowest address heard becomes the candidate. *)
Noticed(r, from) ==
  IF r.candidate = NoDevice \/ from < r.candidate
  THEN [r EXCEPT !.candidate = from] ELSE r

(* Fault: a Hello alone makes nobody a candidate.                          *)
HearDiscoveryDeafToHello(d, p) ==
  LET r == Noticed(sess[d], p.from) IN
  /\ sess[d].state = "Searching"
  /\ p.type = "Join"
  /\ p.from # r.candidate
  /\ Becomes(d, r, {})
  /\ UNCHANGED <<board, told, begins>>

HearDiscovery(d, p) ==
  LET r == Noticed(sess[d], p.from) IN
  /\ sess[d].state = "Searching"
  /\ p.type \in {"Hello", "Join"}
  /\ ~(p.type = "Join" /\ p.from = r.candidate)
  /\ Becomes(d, r, {})
  /\ UNCHANGED <<board, told, begins>>

(* A Join from the candidate is mutual agreement. *)
HearAgreement(d, p) ==
  LET r == Noticed(sess[d], p.from) IN
  /\ sess[d].state = "Searching"
  /\ p.type = "Join"
  /\ p.from = r.candidate
  /\ MatchWith(r, d, p)

(* Anything only a matched device sends seals the match; the packet itself  *)
(* is not processed further.                                                *)
HearMatchTraffic(d, p) ==
  /\ sess[d].state = "Searching"
  /\ p.type \in {"Ack", "State", "Say", "SayAck"}
  /\ MatchWith(sess[d], d, p)

-----------------------------------------------------------------------------
(* Session::handlePacket while Playing; only the peer is listened to. *)

(* Fault: a matched device listens to everybody.                           *)
FromAnybody(d, p) == sess[d].state = "Playing"

FromPeer(d, p) == sess[d].state = "Playing" /\ p.from = sess[d].peer

(* The answer is rate limited; not answering leaves everything as it is.    *)
HearJoin(d, p) ==
  /\ FromPeer(d, p)
  /\ p.type = "Join"
  /\ ~sess[d].peerConfirmed
  /\ Becomes(d, sess[d], JoinFrom(sess[d], d))
  /\ UNCHANGED <<board, told, begins>>

(* Fault: every state that arrives is adopted, however old.                *)
AdoptedAlways(r, p) ==
  [r EXCEPT !.incoming = p.body, !.incomingPending = TRUE,
            !.sequence = p.seq, !.myTurn = TRUE,
            !.outgoingPending = FALSE, !.peerConfirmed = TRUE]

Adopted(r, p) ==
  IF p.seq > r.sequence
  THEN [r EXCEPT !.incoming = p.body, !.incomingPending = TRUE,
                 !.sequence = p.seq, !.myTurn = TRUE,
                 !.outgoingPending = FALSE, !.peerConfirmed = TRUE]
  ELSE [r EXCEPT !.peerConfirmed = TRUE]

(* Every copy of a State is acknowledged, adopted or not. *)
HearState(d, p) ==
  LET s == Adopted(sess[d], p) IN
  /\ FromPeer(d, p)
  /\ p.type = "State"
  /\ Becomes(d, s, AckFrom(s, d))
  /\ UNCHANGED <<board, told, begins>>

(* Fault: any Ack will do, whatever it acknowledges.                       *)
HearAnyAck(d, p) ==
  /\ FromPeer(d, p)
  /\ p.type = "Ack"
  /\ Becomes(d, [sess[d] EXCEPT !.peerConfirmed = TRUE,
                                !.outgoingPending = FALSE], {})
  /\ UNCHANGED <<board, told, begins>>

HearAck(d, p) ==
  LET r == sess[d] IN
  /\ FromPeer(d, p)
  /\ p.type = "Ack"
  /\ Becomes(d, [r EXCEPT !.peerConfirmed = TRUE,
                          !.outgoingPending = @ /\ p.seq < r.outgoingSequence], {})
  /\ UNCHANGED <<board, told, begins>>

(* Fault: a copy of a note is a new note.                                  *)
NoteHeardAgain(r, p) ==
  IF p.seq >= r.peerSaySequence
  THEN [r EXCEPT !.incomingSayPending = TRUE, !.peerSaySequence = p.seq,
                 !.peerConfirmed = TRUE]
  ELSE [r EXCEPT !.peerConfirmed = TRUE]

NoteHeard(r, p) ==
  IF p.seq > r.peerSaySequence
  THEN [r EXCEPT !.incomingSayPending = TRUE, !.peerSaySequence = p.seq,
                 !.peerConfirmed = TRUE]
  ELSE [r EXCEPT !.peerConfirmed = TRUE]

HearSay(d, p) ==
  LET s == NoteHeard(sess[d], p) IN
  /\ FromPeer(d, p)
  /\ p.type = "Say"
  /\ Becomes(d, s, SayAckFrom(s, d))
  /\ UNCHANGED <<board, told, begins>>

(* Fault: the acknowledgement of an old note silences a new one.           *)
HearAnySayAck(d, p) ==
  /\ FromPeer(d, p)
  /\ p.type = "SayAck"
  /\ Becomes(d, [sess[d] EXCEPT !.peerConfirmed = TRUE,
                                !.outgoingSayPending = FALSE], {})
  /\ UNCHANGED <<board, told, begins>>

HearSayAck(d, p) ==
  LET r == sess[d] IN
  /\ FromPeer(d, p)
  /\ p.type = "SayAck"
  /\ Becomes(d, [r EXCEPT !.peerConfirmed = TRUE,
                          !.outgoingSayPending = @ /\ p.seq < r.outgoingSaySequence], {})
  /\ UNCHANGED <<board, told, begins>>

(* A Bye always ends the match; a Hello only once the peer is confirmed. *)
HearDeparture(d, p) ==
  /\ FromPeer(d, p)
  /\ p.type = "Bye" \/ (p.type = "Hello" /\ sess[d].peerConfirmed)
  /\ Becomes(d, Over(sess[d], "PeerLeft"), {})
  /\ UNCHANGED <<board, told, begins>>

-----------------------------------------------------------------------------
Receive(d, p) ==
  /\ p \in air
  /\ p.to = d
  /\ \/ HearDiscovery(d, p) \/ HearAgreement(d, p) \/ HearMatchTraffic(d, p)
     \/ HearJoin(d, p) \/ HearState(d, p) \/ HearAck(d, p)
     \/ HearSay(d, p) \/ HearSayAck(d, p) \/ HearDeparture(d, p)

(* Air and receive ring: a packet is lost, or all its copies have arrived.  *)
Lose(p) == /\ p \in air
           /\ air' = air \ {p}
           /\ UNCHANGED <<sess, board, told, begins>>

UserStep(d) == Begin(d) \/ Leave(d) \/ Vanish(d)
GameStep(d) == Submit(d) \/ TakeIncoming(d) \/ Announce(d) \/ TakeAnnouncement(d)
ClockStep(d) == \/ HelloTick(d) \/ JoinTick(d) \/ ForgetCandidate(d)
            \/ PeerTimeout(d) \/ RetrySay(d) \/ RetryState(d) \/ Heartbeat(d)

Next == \/ \E d \in Device : UserStep(d) \/ GameStep(d) \/ ClockStep(d)
        \/ \E p \in air : Receive(p.to, p) \/ Lose(p)

Spec == Init /\ [][Next]_vars

-----------------------------------------------------------------------------
(* Fairness.  tick() runs on every pass of the main loop, so each of its   *)
(* clocks comes round; and a packet sent again and again is not lost every *)
(* time.  The timeout is patient here, where being early would matter: a   *)
(* peer in the match, or one still looking for it, sends something well    *)
(* within kPeerTimeoutMs, and what anybody else left in the air runs dry.  *)
(* A candidate is forgotten, in the same way, only when it has stopped     *)
(* searching.                                                              *)

PeerSilent(d) == LET q == sess[d].peer IN
  /\ ~(sess[q].state = "Playing" /\ sess[q].peer = d)
  /\ sess[q].state # "Searching"

PatientPeerTimeout(d) ==
  sess[d].state = "Playing" /\ PeerSilent(d) /\ PeerTimeout(d)

PatientForgetCandidate(d) ==
  /\ sess[d].candidate # NoDevice
  /\ sess[sess[d].candidate].state # "Searching"
  /\ ForgetCandidate(d)

(* Whoever goes away here goes without a word, where no Bye can help.      *)
LiveNext ==
  \/ \E d \in Device : \/ Begin(d) \/ Vanish(d) \/ GameStep(d)
                       \/ HelloTick(d) \/ JoinTick(d) \/ PatientForgetCandidate(d)
                       \/ PatientPeerTimeout(d)
                       \/ RetrySay(d) \/ RetryState(d) \/ Heartbeat(d)
  \/ \E p \in air : Receive(p.to, p) \/ Lose(p)

(* What device e is sending now, as opposed to a copy from the past. *)
Current(e, p) == LET r == sess[e] IN
  CASE p.type = "State"  -> p.seq = r.outgoingSequence
    [] p.type = "Ack"    -> p.seq = r.sequence
    [] p.type = "Say"    -> p.seq = r.outgoingSaySequence
    [] p.type = "SayAck" -> p.seq = r.peerSaySequence
    [] OTHER             -> TRUE

Arrives(e, d, type) ==
  \E p \in air : /\ p.from = e /\ p.to = d /\ p.type = type /\ Current(e, p)
               /\ Receive(d, p)

(* The two branches at the end of tick. *)
Beat(d) == RetryState(d) \/ Heartbeat(d)

TickFairness ==
  \A d \in Device :
    /\ WF_vars(HelloTick(d)) /\ WF_vars(JoinTick(d)) /\ WF_vars(Beat(d))
    /\ WF_vars(PatientPeerTimeout(d)) /\ WF_vars(PatientForgetCandidate(d))

AirFairness(types) ==
  \A d \in Device : \A e \in Device \ {d} : \A t \in types :
    SF_vars(Arrives(e, d, t))

LiveSpec == /\ Init /\ [][LiveNext]_vars
            /\ TickFairness /\ AirFairness({"Hello", "Join", "State", "Ack"})

-----------------------------------------------------------------------------
(* Properties. *)

(* Two devices in a match with each other. *)
Mutual(a, b) == /\ a # b
                /\ sess[a].state = "Playing" /\ sess[a].peer = b
                /\ sess[b].state = "Playing" /\ sess[b].peer = a

(* Both sides of a match compute who moves first from the tosses that      *)
(* happened to reach them, and arrive at opposite answers.  (matchWith)    *)
HostAgreement ==
  \A a, b \in Device : Mutual(a, b) => sess[a].isHost # sess[b].isHost

(* Turns alternate: the two sides of a match never hold the turn at once,  *)
(* so two writers cannot race.  (submit, the State case of handlePacket)   *)
SingleWriter ==
  \A a, b \in Device : Mutual(a, b) => ~(sess[a].myTurn /\ sess[b].myTurn)

(* The turn is never lost: when neither side holds it, one of them is still*)
(* retransmitting the move that gives it to the other.                     *)
TurnNotLost ==
  \A a, b \in Device :
    Mutual(a, b) =>
      \/ sess[a].myTurn \/ sess[b].myTurn
      \/ \E x \in {a, b} : LET y == IF x = a THEN b ELSE a IN
           /\ sess[x].outgoingPending
           /\ sess[x].outgoingSequence > sess[y].sequence

(* No move disappears from the game: the board a device plays on, or is    *)
(* about to take delivery of, has as many moves as the match's counter.  A *)
(* board computed from a stale position would be one short.  (submit)      *)
NoMoveVanishes ==
  \A d \in Device :
    sess[d].state = "Playing" =>
      sess[d].sequence = IF sess[d].incomingPending THEN sess[d].incoming
                                                    ELSE board[d]

(* A note is as reliable as a move: a side stops retransmitting it only    *)
(* when its peer has it or a newer one.  (SayAck case of handlePacket)     *)
NoteReaches ==
  \A a, b \in Device :
    Mutual(a, b) => \/ sess[a].outgoingSayPending
                   \/ sess[b].peerSaySequence >= sess[a].outgoingSaySequence

(* A note is handed to the game once, however many copies arrive.          *)
NoteOnce ==
  \A d \in Device :
    sess[d].incomingSayPending => sess[d].peerSaySequence > told[d]

(* A device that has heard an Ack, a State or a note from its peer is in a *)
(* match that is real on both sides, unless the peer has left it.          *)
(* (the Ack case of handlePacket)                                          *)
ConfirmedIsMutual ==
  \A d \in Device :
    (sess[d].state = "Playing" /\ sess[d].peerConfirmed)
      => LET q == sess[d].peer IN sess[q].state = "Playing" => sess[q].peer = d

(* Two devices that are searching, and keep at it, find each other.        *)
MatchForms ==
  \A a \in Device : \A b \in Device \ {a} :
    (sess[a].state = "Searching" /\ sess[b].state = "Searching")
      ~> (Mutual(a, b) \/ sess[a].state \in {"Idle", "Ended"}
                      \/ sess[b].state \in {"Idle", "Ended"})

(* A match only one side believes in does not last: it becomes mutual or   *)
(* it ends.                                                                *)
OneSidedHeals ==
  \A a \in Device :
    (sess[a].state = "Playing")
      ~> ((\E b \in Device : Mutual(a, b)) \/ sess[a].state # "Playing")

(* A submitted move is acknowledged, or the match is over.                 *)
MoveGetsThrough ==
  \A a \in Device : sess[a].outgoingPending ~> ~sess[a].outgoingPending
=============================================================================
