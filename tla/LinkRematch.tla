---------------------------- MODULE LinkRematch ----------------------------
(***************************************************************************)
(* ANOTHER GAME?: how two matched devices go from one game to the next.    *)
(* Source: src/apps_local/link/LinkActivity.cpp (driveLink, proposeRematch,*)
(* startRematch, leaveLink) and LinkEndgame.h, over the two channels of a  *)
(* session (LinkSession.cpp): the board, which carries the turn, and the   *)
(* note, which does not.  Each is retransmitted until acknowledged and its *)
(* newest message wins; nothing orders one channel against the other.      *)
(*                                                                         *)
(* Every operation here runs on the loop task.  One pass of the loop is    *)
(* Pass, which is driveLink up to the point where somebody gets the input, *)
(* and then at most one tap: due[d] says that a tap may follow.            *)
(*                                                                         *)
(* A board is the number of the game it belongs to, the moves on it and    *)
(* whether it is finished.  game (the games a device has started), asked   *)
(* and counted are history; the program does not keep them.                *)
(*                                                                         *)
(* An operator marked "Fault" is the definition below it with a plausible  *)
(* bug.  No specification uses it; it is there to show that the properties *)
(* can fail.                                                               *)
(***************************************************************************)
EXTENDS Naturals, Sequences

CONSTANTS
  SeatByTurn,   \* onRematch seats by linkYourTurn() (chess) or goesFirst()
  MaxMoves,     \* bound: moves in one game
  MaxNotes      \* bound: notes one side sends in the match

ASSUME RematchAssumption ==
  /\ SeatByTurn \in BOOLEAN
  /\ MaxMoves \in Nat /\ MaxNotes \in Nat

VARIABLES
  usage,    \* what this match is like; never changes
  dev,      \* the fields of LinkActivity, Endgame and Session on each device
  out,      \* the newest board a device submitted
  notes,    \* the notes a device has said, oldest first
  due,      \* driveLink has run in this pass, a tap may still be handled
  asked,    \* the games in which a player has said yes to another
  counted   \* how often onMatchEnded ran for a game

vars == <<usage, dev, out, notes, due, asked, counted>>

Device == {1, 2}
Other(d) == 3 - d

(* A match is played over a link where nothing overtakes; or one channel   *)
(* may overtake the other, as a lost packet lets it; or a player presses   *)
(* PLAY AGAIN again while it says READY.                                   *)
Usage == {"inOrder", "overtaking", "tapsTwice"}

Note == {"PlayAgain", "Leaving"}
Link == {"Playing", "OpponentLeft", "OpponentLost", "Off"}
SeatState == {"Ready", "Deciding", "Left", "Lost"}
Stage == {"Live", "Final", "Offer"}
Games == 1..(MaxNotes + MaxNotes + 1)
Board == [game : Games, moves : 0..MaxMoves, over : BOOLEAN]

NewBoard(g) == [game |-> g, moves |-> 0, over |-> FALSE]

LinkActivity ==
  [link : Link, isHost : BOOLEAN, myTurn : BOOLEAN, sequence : Nat, heard : 0..MaxNotes,
   rematch : BOOLEAN, you : SeatState, them : SeatState, stage : Stage,
   game : Games, goesFirst : BOOLEAN, board : Board]

TypeOK == /\ usage \in Usage
          /\ dev \in [Device -> LinkActivity]
          /\ out \in [Device -> [sequence : Nat, board : Board, after : 0..MaxNotes]]
          /\ notes \in [Device -> Seq(Note)]
          /\ due \in [Device -> BOOLEAN]
          /\ asked \in [Device -> SUBSET Games]
          /\ counted \in [Device -> [Games -> 0..1]]

(* Both devices have been through onMatchStart: the host goes first. *)
Init ==
  /\ usage \in Usage
  /\ \E host \in Device :
       dev = [d \in Device |->
                [link |-> "Playing", isHost |-> d = host, myTurn |-> d = host,
                 sequence |-> 0, heard |-> 0,
                 rematch |-> FALSE, you |-> "Deciding", them |-> "Deciding",
                 stage |-> "Live", game |-> 1, goesFirst |-> d = host,
                 board |-> NewBoard(1)]]
  /\ out = [d \in Device |-> [sequence |-> 0, board |-> NewBoard(1), after |-> 0]]
  /\ notes = [d \in Device |-> <<>>]
  /\ due = [d \in Device |-> FALSE]
  /\ asked = [d \in Device |-> {}]
  /\ counted = [d \in Device |-> [g \in Games |-> 0]]

-----------------------------------------------------------------------------
(* linkOwnsScreen: the link screen is up, not the game's. *)
OwnsScreen(r) ==
  /\ r.stage # "Final"
  /\ r.link \in {"OpponentLeft", "OpponentLost"} \/ r.rematch

(* linkModel: the link screen shows PLAY AGAIN. *)
OffersPlayAgain(r) == r.rematch /\ r.them \notin {"Left", "Lost"}

(* Fault: the coin toss seats every game.                                  *)
StartRematchByToss(r, yourTurn) ==
  [r EXCEPT !.stage = "Live", !.rematch = FALSE,
            !.you = "Deciding", !.them = "Deciding",
            !.game = @ + 1, !.board = NewBoard(r.game + 1),
            !.goesFirst = r.isHost]

(* startRematch, and the game's onRematch.                                 *)
StartRematch(r, yourTurn) ==
  [r EXCEPT !.stage = "Live", !.rematch = FALSE,
            !.you = "Deciding", !.them = "Deciding",
            !.game = @ + 1, !.board = NewBoard(r.game + 1),
            !.goesFirst = IF SeatByTurn THEN yourTurn ELSE r.isHost]

-----------------------------------------------------------------------------
(* The steps of driveLink, in their order. *)

(* PlayBase::update: the packets that have come in, and what ended the     *)
(* match, if anything did.  The board that arrived waits to be taken.      *)
Drained(d, board, n, link) == LET r == dev[d] IN
  [r EXCEPT !.heard = n, !.link = link,
            !.sequence = IF board THEN out[Other(d)].sequence ELSE @,
            !.myTurn = (@ \/ board) /\ link = "Playing"]

(* The note the peer sent.  It may be the answer this side waits for.      *)
Heard(r, note, yourTurn) ==
  CASE note = "Leaving" -> [r EXCEPT !.them = "Left", !.rematch = TRUE]
    [] note = "PlayAgain" /\ r.you = "Ready" -> StartRematch(r, yourTurn)
    [] OTHER -> [r EXCEPT !.them = "Ready", !.rematch = TRUE, !.you = "Deciding"]

(* takeOpponentState. *)
TakenBoard(d, r, board) ==
  IF board THEN [r EXCEPT !.board = out[Other(d)].board] ELSE r

(* Endgame::update while in a match.                                       *)
EndgameUpdate(r, expired) ==
  CASE ~r.board.over -> [r EXCEPT !.stage = "Live"]
    [] r.board.over /\ r.stage = "Live" -> [r EXCEPT !.stage = "Final"]
    [] r.board.over /\ r.stage = "Final" /\ expired -> [r EXCEPT !.stage = "Offer"]
    [] OTHER -> r

(* Fault: counted only by the device whose turn it is.                     *)
MatchEndsOnTurn(r) == r.board.over /\ r.stage = "Live" /\ r.myTurn

(* The pass on which EndgameUpdate calls onMatchEnded. *)
MatchEnds(r) == r.board.over /\ r.stage = "Live"

(* Fault: the end of the hold throws away an answer already given.         *)
OfferedForgetful(r) ==
  IF r.stage = "Offer"
  THEN [r EXCEPT !.rematch = TRUE, !.you = "Deciding", !.them = "Deciding"] ELSE r

(* The end of the hold puts the question. *)
Offered(r) ==
  IF r.stage = "Offer" /\ ~r.rematch
  THEN [r EXCEPT !.rematch = TRUE, !.you = "Deciding", !.them = "Deciding"] ELSE r

(* Nobody is left to ask. *)
OverSeen(r) ==
  CASE r.link = "OpponentLeft" -> [r EXCEPT !.them = "Left", !.rematch = TRUE]
    [] r.link = "OpponentLost" -> [r EXCEPT !.them = "Lost", !.rematch = TRUE]
    [] OTHER -> r

-----------------------------------------------------------------------------
(* What may come in.  Both channels deliver only what is newer than what   *)
(* has been seen.  A board is never two behind: turns alternate.           *)
NewBoardFor(d) == /\ dev[d].link = "Playing"
                  /\ out[Other(d)].sequence > dev[d].sequence

NotesFor(d) ==
  IF dev[d].link = "Playing" THEN dev[d].heard..Len(notes[Other(d)])
                             ELSE {dev[d].heard}

(* Nothing overtakes: a board comes after the notes said before it, and a  *)
(* note after the board submitted before it.                               *)
InOrder(d, board, n) == LET o == out[Other(d)] IN
  /\ board => n >= o.after
  /\ (NewBoardFor(d) /\ n > o.after /\ n > dev[d].heard) => board

(* A Bye is heard only from one who left, a silence may be any.            *)
Endings(d) ==
  IF dev[d].link # "Playing" THEN {dev[d].link}
  ELSE {"Playing", "OpponentLost"}
         \cup IF dev[Other(d)].link = "Off" THEN {"OpponentLeft"} ELSE {}

(* Fault: the board is taken before the notes are heard.                   *)
PassBoardFirst(d, board, n, link, expired) ==
  LET r1 == Drained(d, board, n, link)
      r2 == TakenBoard(d, r1, board)
      r3 == IF n # dev[d].heard
            THEN Heard(r2, notes[Other(d)][n], r1.myTurn) ELSE r2
      r4 == EndgameUpdate(r3, expired)
  IN /\ dev[d].link # "Off"
     /\ dev' = [dev EXCEPT ![d] = OverSeen(Offered(r4))]
     /\ due' = [due EXCEPT ![d] = TRUE]
     /\ counted' = IF MatchEnds(r3)
                   THEN [counted EXCEPT ![d][r3.board.game] = @ + 1] ELSE counted
     /\ UNCHANGED <<usage, out, notes, asked>>

(* One pass of driveLink.                                                  *)
PassWith(d, board, n, link, expired) ==
  LET r1 == Drained(d, board, n, link)
      r2 == IF n # dev[d].heard
            THEN Heard(r1, notes[Other(d)][n], r1.myTurn /\ ~board) ELSE r1
      r3 == TakenBoard(d, r2, board)
      r4 == EndgameUpdate(r3, expired)
  IN /\ dev[d].link # "Off"
     /\ dev' = [dev EXCEPT ![d] = OverSeen(Offered(r4))]
     /\ due' = [due EXCEPT ![d] = TRUE]
     /\ counted' = IF MatchEnds(r3)
                   THEN [counted EXCEPT ![d][r3.board.game] = @ + 1] ELSE counted
     /\ UNCHANGED <<usage, out, notes, asked>>

Pass(d) ==
  \E board \in {FALSE, NewBoardFor(d)}, n \in NotesFor(d), link \in Endings(d),
     expired \in BOOLEAN :
    /\ usage = "overtaking" \/ InOrder(d, board, n)
    /\ PassWith(d, board, n, link, expired)

-----------------------------------------------------------------------------
(* What the player does at the end of a pass. *)

(* A move on the game's own screen, submitted at once. *)
Move(d) == LET r == dev[d] IN
  /\ due[d] /\ r.link = "Playing" /\ r.myTurn /\ ~OwnsScreen(r)
  /\ ~r.board.over /\ r.board.moves < MaxMoves
  /\ \E over \in BOOLEAN :
       LET b == [r.board EXCEPT !.moves = @ + 1, !.over = over] IN
       /\ over => b.moves > 1
       /\ dev' = [dev EXCEPT ![d] = [r EXCEPT !.board = b, !.myTurn = FALSE,
                                              !.sequence = @ + 1]]
       /\ out' = [out EXCEPT ![d] = [sequence |-> r.sequence + 1, board |-> b,
                                     after |-> Len(notes[d])]]
  /\ due' = [due EXCEPT ![d] = FALSE]
  /\ UNCHANGED <<usage, notes, asked, counted>>

(* PlayBase::say reaches the peer only while the session is playing. *)
Say(d, note) ==
  notes' = IF dev[d].link = "Playing" THEN [notes EXCEPT ![d] = Append(@, note)]
                                      ELSE notes

(* Where PLAY AGAIN or NEW GAME can be pressed: on the link screen, on a   *)
(* game's finished board, and at any time in chess's settings.             *)
CanAsk(r) ==
  /\ r.link # "Off"
  /\ IF OwnsScreen(r) THEN OffersPlayAgain(r) ELSE r.board.over \/ usage = "overtaking"
  /\ usage = "tapsTwice" \/ ~(r.rematch /\ r.you = "Ready")

(* Fault: a seat left on READY counts as an answer.                        *)
AgreedByLeftover(r) == r.them # "Left"

(* They have asked and are waiting. *)
TheyAlreadyAgreed(r) == r.rematch /\ r.them = "Ready"

ProposeRematch(d) ==
  LET r == dev[d]
      s == [r EXCEPT !.you = "Ready",
                     !.stage = IF @ = "Final" THEN "Offer" ELSE @]
  IN /\ due[d] /\ CanAsk(r) /\ Len(notes[d]) < MaxNotes
     /\ dev' = [dev EXCEPT ![d] =
                  IF TheyAlreadyAgreed(r) THEN StartRematch(s, s.myTurn)
                  ELSE [s EXCEPT !.rematch = TRUE,
                                 !.them = IF @ \in {"Left", "Lost"} THEN @ ELSE "Deciding"]]
     /\ Say(d, "PlayAgain")
     /\ asked' = [asked EXCEPT ![d] = @ \cup {r.game}]
     /\ due' = [due EXCEPT ![d] = FALSE]
     /\ UNCHANGED <<usage, out, counted>>

(* leaveLink.  The note goes out once: stop() resets the session that      *)
(* would have repeated it.                                                 *)
LeaveLink(d) == LET r == dev[d] IN
  /\ due[d] /\ r.link # "Off"
  /\ r.rematch => Len(notes[d]) < MaxNotes
  /\ IF r.rematch THEN Say(d, "Leaving") ELSE UNCHANGED notes
  /\ dev' = [dev EXCEPT ![d] = [r EXCEPT !.link = "Off", !.myTurn = FALSE,
                                         !.rematch = FALSE, !.stage = "Live"]]
  /\ due' = [due EXCEPT ![d] = FALSE]
  /\ UNCHANGED <<usage, out, asked, counted>>

Next == \E d \in Device : Pass(d) \/ Move(d) \/ ProposeRematch(d) \/ LeaveLink(d)

Spec == Init /\ [][Next]_vars

-----------------------------------------------------------------------------
(* Fairness.  The loop keeps turning, what is retransmitted gets through   *)
(* (LinkSession: MoveGetsThrough and, for a note, the same retransmission),*)
(* a hold expires, and a peer that has gone is missed.  Nothing makes a    *)
(* player press anything.                                                  *)
HearsBoard(d) == /\ NewBoardFor(d)
                 /\ \E n \in NotesFor(d) : PassWith(d, TRUE, n, "Playing", FALSE)

HearsNote(d) == LET n == Len(notes[Other(d)]) IN
  /\ dev[d].link = "Playing" /\ dev[d].heard < n
  /\ \E board \in {FALSE, NewBoardFor(d)} : PassWith(d, board, n, "Playing", FALSE)

HoldExpires(d) == /\ dev[d].stage = "Final"
                  /\ PassWith(d, FALSE, dev[d].heard, dev[d].link, TRUE)

MissesPeer(d) == /\ dev[d].link = "Playing" /\ dev[Other(d)].link = "Off"
                 /\ PassWith(d, FALSE, dev[d].heard, "OpponentLost", FALSE)

LoopFairness ==
  \A d \in Device : /\ WF_vars(HearsBoard(d)) /\ WF_vars(HearsNote(d))
                    /\ WF_vars(HoldExpires(d)) /\ WF_vars(MissesPeer(d))

LiveSpec == Spec /\ LoopFairness

-----------------------------------------------------------------------------
(* Properties.  Those about the boards need a link where nothing           *)
(* overtakes: without one each of them fails, and the README says how.     *)

(* Nobody is put into another game without having asked for one in the     *)
(* game before, nor without a yes of the peer for each game: the peer's    *)
(* first notes.  Where a player who waits for the answer does not press    *)
(* PLAY AGAIN again, that yes was to this very game; the second note would *)
(* be heard in the next game as a new question.  (onRematch: "Both sides   *)
(* have said yes to another game")                                         *)
RematchByConsent ==
  \A d \in Device : \A g \in Games : g < dev[d].game =>
    /\ g \in asked[d]
    /\ g \in DOMAIN notes[Other(d)] /\ notes[Other(d)][g] = "PlayAgain"
    /\ usage # "tapsTwice" => g \in asked[Other(d)]

(* When it is a device's turn the peer's last move is on its board, unless *)
(* that move belongs to a game this device has finished with.              *)
(* (PlayBase::update: "The load-bearing line")                             *)
LastMoveOnBoard ==
  usage = "inOrder" => \A d \in Device : LET theirs == out[Other(d)].board IN
    (dev[d].myTurn /\ theirs.game = dev[d].board.game)
      => dev[d].board.moves >= theirs.moves

(* The seat a device sits in is the seat that is to move when it has the   *)
(* turn: who goes first has the turn on an empty board.                    *)
TurnMatchesSeat ==
  usage = "inOrder" => \A d \in Device : LET r == dev[d] IN
    (r.link = "Playing" /\ r.myTurn /\ ~r.board.over)
      => (r.goesFirst <=> r.board.moves % 2 = 0)

(* A finished board is not replaced before the game was counted, once.     *)
CountedBeforeGone ==
  [][\A d \in Device :
       (usage = "inOrder" /\ dev[d].board.over /\ dev'[d].board # dev[d].board)
         => counted[d][dev[d].board.game] = 1]_vars

BothThere == \A d \in Device : dev[d].link = "Playing"

(* When both have said yes, both get another game.                         *)
AgreementStarts ==
  \A g \in Games :
    (usage # "overtaking" /\ \A d \in Device : g \in asked[d]) ~> (~BothThere \/ \A d \in Device : dev[d].game > g)
=============================================================================
