------------------------ MODULE LinkActivityProofs ------------------------
(***************************************************************************)
(* The two halves of LinkActivity.  From one game to the next, for any     *)
(* number of moves and notes: nobody is put into a game that was not       *)
(* agreed; and on a link in order the last move is on the board of who is  *)
(* to move, the seats fit the turn, and a game is counted before its board *)
(* is dealt over.  At the end of a game, for any clock: the final board is *)
(* up for its whole hold.                                                  *)
(***************************************************************************)
EXTENDS LinkRematch, Integers, TLAPS

AnyBoard == [game : Nat, moves : Nat, over : BOOLEAN]

Activity ==
  [link : Link, isHost : BOOLEAN, myTurn : BOOLEAN, sequence : Nat, heard : Nat,
   rematch : BOOLEAN, you : SeatState, them : SeatState, stage : Stage,
   game : Nat, goesFirst : BOOLEAN, board : AnyBoard]

Types ==
  /\ usage \in Usage
  /\ dev \in [Device -> Activity]
  /\ out \in [Device -> [sequence : Nat, board : AnyBoard, after : Nat]]
  /\ notes \in [Device -> Seq(Note)]
  /\ due \in [Device -> BOOLEAN]
  /\ asked \in [Device -> SUBSET Nat]
  /\ counted \in [Device -> [Games -> Nat]]

Plays(d) == dev[d].link = "Playing"

-----------------------------------------------------------------------------
(* Who has asked.  The i-th note of a device asks for the game after game  *)
(* i, unless it is the one with which the device goes. *)
NotesOf(d) ==
  /\ \A i \in DOMAIN notes[d] : notes[d][i] = "PlayAgain" => i \in asked[d] /\ i <= dev[d].game
  /\ \A i \in DOMAIN notes[d] : notes[d][i] = "Leaving" =>
       i = Len(notes[d]) /\ dev[d].link = "Off" /\ dev[d].game <= i
  /\ Plays(d) => Len(notes[d]) = IF dev[d].you = "Ready" THEN dev[d].game ELSE dev[d].game - 1
  /\ Len(notes[d]) <= MaxNotes

(* What a device knows of the other's answer. *)
AnswersOf(d) ==
  /\ dev[d].heard <= Len(notes[Other(d)])
  /\ dev[d].you = "Ready" => /\ dev[d].game \in asked[d]
                             /\ dev[d].link # "Off" => dev[d].rematch
  /\ dev[d].game >= 1 /\ dev[d].game <= dev[d].heard + 1
  /\ dev[d].them = "Ready" => /\ dev[d].game <= dev[d].heard
                              /\ dev[d].game \in asked[Other(d)]
                              /\ notes[Other(d)][dev[d].heard] = "PlayAgain"
                              /\ dev[d].link \in {"Playing", "Off"}
  /\ \A g \in 1..(dev[d].game - 1) : g \in asked[d] /\ g \in asked[Other(d)]

ConsentInv == usage # "tapsTwice" => \A d \in Device : NotesOf(d) /\ AnswersOf(d)

(* What holds however often PLAY AGAIN is pressed.  Who goes says nothing  *)
(* more, and a device is in no more games than the other has said yes.     *)
GoesLast(d) ==
  \A i \in DOMAIN notes[d] : notes[d][i] = "Leaving" => i = Len(notes[d]) /\ dev[d].link = "Off"

OwnOf(d) ==
  /\ dev[d].you = "Ready" => dev[d].game \in asked[d]
  /\ dev[d].heard <= Len(notes[Other(d)])
  /\ dev[d].game >= 1 /\ dev[d].game <= dev[d].heard + 1
  /\ dev[d].them = "Ready" => /\ dev[d].game <= dev[d].heard
                              /\ notes[Other(d)][dev[d].heard] = "PlayAgain"
  /\ \A g \in 1..(dev[d].game - 1) : g \in asked[d] /\ notes[Other(d)][g] = "PlayAgain"

OwnInv == \A d \in Device : GoesLast(d) /\ OwnOf(d)

-----------------------------------------------------------------------------
(* The turn, as the move counters tell it. *)
Mine(d) == dev[d].isHost <=> dev[d].sequence % 2 = 0

TurnOf(d) ==
  /\ dev[d].isHost <=> ~dev[Other(d)].isHost
  /\ dev[d].sequence <= dev[Other(d)].sequence + 1
  /\ dev[d].sequence = dev[Other(d)].sequence + 1 => out[d].sequence = dev[d].sequence /\ ~Mine(d)
  /\ out[d].sequence <= dev[d].sequence
  /\ dev[d].myTurn => Plays(d)
  /\ Plays(d) => (dev[d].myTurn <=> dev[d].sequence = dev[Other(d)].sequence /\ Mine(d))

TurnInv == \A d \in Device : TurnOf(d)

-----------------------------------------------------------------------------
(* The boards, on a link in order. *)

(* Who has asked, or may be asked, has a finished board. *)
BoardOf(d) ==
  /\ dev[d].board.game = dev[d].game
  /\ out[d].board.game >= 1 /\ out[d].board.game <= dev[d].game
  /\ out[d].after = out[d].board.game - 1
  /\ out[d].board.game = dev[d].game => out[d].board.moves <= dev[d].board.moves
  /\ dev[d].board.over => dev[d].board.moves > 1
  /\ ~dev[d].board.over => dev[d].stage = "Live"
  /\ Plays(d) /\ dev[d].rematch /\ dev[d].them # "Left" => dev[d].board.over
  /\ dev[d].game \in DOMAIN notes[d] /\ notes[d][dev[d].game] = "PlayAgain" => dev[d].board.over

SeatsOf(d) ==
  /\ Plays(d) => dev[d].them # "Lost"
  /\ Plays(d) /\ dev[d].them = "Left" => dev[Other(d)].link = "Off" /\ dev[d].rematch
                                         /\ dev[d].heard = Len(notes[Other(d)])
  /\ Plays(d) /\ dev[d].heard >= dev[d].game =>
       /\ dev[d].rematch
       /\ \/ dev[d].them = "Left"
          \/ dev[d].heard = dev[d].game /\ dev[d].them = "Ready" /\ dev[d].you # "Ready"

(* Both in one game. *)
Together(d, e) ==
  /\ dev[d].sequence = dev[e].sequence => dev[d].board = dev[e].board
  /\ dev[d].sequence = dev[e].sequence + 1 =>
       /\ out[d].board = dev[d].board
       /\ dev[d].board.moves = dev[e].board.moves + 1 /\ ~dev[e].board.over

(* d is in the next game, and e has not yet heard that it may follow. *)
Ahead(d, e) ==
  /\ dev[e].sequence <= dev[d].sequence /\ ~dev[d].board.over
  /\ dev[d].sequence = dev[e].sequence =>
       /\ dev[d].board.moves = 0
       /\ out[d].board.game <= dev[e].game
       /\ out[d].board.game = dev[e].game => out[d].board.moves <= dev[e].board.moves
  /\ dev[d].sequence = dev[e].sequence + 1 => out[d].board = dev[d].board /\ dev[d].board.moves = 1
  /\ Plays(e) => /\ dev[e].you = "Ready" /\ dev[e].board.over /\ dev[e].game = dev[e].heard + 1
                 /\ Len(notes[d]) = dev[e].game

PairOf(d, e) ==
  /\ dev[d].game <= dev[e].game + 1
  /\ dev[d].game = dev[e].game => Together(d, e)
  /\ dev[d].game = dev[e].game + 1 => Ahead(d, e)

BoardInv ==
  usage = "inOrder" => \A d \in Device : BoardOf(d) /\ SeatsOf(d) /\ PairOf(d, Other(d))

-----------------------------------------------------------------------------
(* The seats and the count. *)
SeatOf(d) ==
  Plays(d) => ((Mine(d) <=> dev[d].goesFirst) <=> dev[d].board.moves % 2 = 0)

SeatInv == SeatByTurn /\ usage = "inOrder" => \A d \in Device : SeatOf(d)

CountOf(d) ==
  /\ dev[d].board.over /\ dev[d].stage = "Live" => ~due[d] /\ dev[d].you # "Ready"
  /\ dev[d].stage # "Live" => counted[d][dev[d].game] = 1
  /\ dev[d].stage = "Live" => counted[d][dev[d].game] = 0
  /\ \A g \in Games : g > dev[d].game => counted[d][g] = 0

CountInv == usage = "inOrder" => \A d \in Device : dev[d].link # "Off" => CountOf(d)
-----------------------------------------------------------------------------
(* One pass of the loop, as a whole: what comes in and what it makes of    *)
(* the device. *)
Hears(d, n) == n # dev[d].heard
Starts(d, n) == /\ Hears(d, n) /\ notes[Other(d)][n] = "PlayAgain"
                /\ dev[d].you = "Ready"
Asks(d, n) == /\ Hears(d, n) /\ notes[Other(d)][n] = "PlayAgain"
              /\ dev[d].you # "Ready"
Leaves(d, n) == Hears(d, n) /\ notes[Other(d)][n] = "Leaving"

(* The question is put at the end of the hold. *)
Offers(d, n) == /\ dev'[d].stage = "Offer" /\ ~dev[d].rematch
                /\ ~Asks(d, n) /\ ~Leaves(d, n)

(* What comes in. *)
PassFrom(d, board, n, link) ==
  /\ board \in BOOLEAN /\ n \in Nat /\ link \in Link \ {"Off"}
  /\ dev[d].link # "Off"
  /\ board => NewBoardFor(d)
  /\ Hears(d, n) => /\ Plays(d) /\ n > dev[d].heard /\ n \in DOMAIN notes[Other(d)]
                    /\ Starts(d, n) \/ Asks(d, n) \/ Leaves(d, n)
  /\ Plays(d) => n >= dev[d].heard
  /\ ~Plays(d) => link = dev[d].link
  /\ usage = "inOrder" => InOrder(d, board, n)

(* The device after the pass. *)
PassTo(d, board, n, link) ==
  LET r == dev[d]
      s == dev'[d]
      o == out[Other(d)]
  IN
  /\ s \in Activity /\ dev' = [dev EXCEPT ![d] = s]
  /\ s.link = link /\ s.isHost = r.isHost /\ s.heard = n
  /\ s.sequence = IF board THEN o.sequence ELSE r.sequence
  /\ s.myTurn <=> (r.myTurn \/ board) /\ link = "Playing"
  /\ s.game = IF Starts(d, n) THEN r.game + 1 ELSE r.game
  /\ s.goesFirst <=> IF ~Starts(d, n) THEN r.goesFirst
                     ELSE IF SeatByTurn THEN r.myTurn /\ link = "Playing" /\ ~board
                     ELSE r.isHost
  /\ s.board = IF board THEN o.board
               ELSE IF Starts(d, n) THEN NewBoard(r.game + 1) ELSE r.board
  /\ ~s.board.over => s.stage = "Live"
  /\ s.board.over /\ (Starts(d, n) \/ r.stage = "Live") => s.stage = "Final"
  /\ s.board.over /\ ~Starts(d, n) /\ r.stage # "Live" => s.stage \in {r.stage, "Offer"}
  /\ s.you = IF Starts(d, n) \/ Asks(d, n) \/ Offers(d, n) THEN "Deciding" ELSE r.you
  /\ s.them = CASE link = "OpponentLeft" -> "Left"
                [] link = "OpponentLost" -> "Lost"
                [] link = "Playing" /\ Leaves(d, n) -> "Left"
                [] link = "Playing" /\ Asks(d, n) -> "Ready"
                [] link = "Playing" /\ (Starts(d, n) \/ Offers(d, n)) -> "Deciding"
                [] OTHER -> r.them
  /\ s.rematch <=> \/ link \in {"OpponentLeft", "OpponentLost"}
                   \/ Leaves(d, n) \/ Asks(d, n) \/ s.stage = "Offer"
                   \/ r.rematch /\ ~Starts(d, n)
  /\ due' = [due EXCEPT ![d] = TRUE]
  /\ counted' = IF s.board.over /\ (Starts(d, n) \/ r.stage = "Live")
                THEN [counted EXCEPT ![d][s.board.game] = @ + 1] ELSE counted
  /\ UNCHANGED <<usage, out, notes, asked>>

-----------------------------------------------------------------------------
LEMMA Pairs ==
  ASSUME NEW d \in Device
  PROVE  /\ Other(d) \in Device /\ Other(Other(d)) = d /\ Other(d) # d
         /\ \A c \in Device : c = d \/ c = Other(d)
BY DEF Device, Other

(* The steps of driveLink, each with the fields it sets. *)
LEMMA DrainedIs ==
  ASSUME Types, NEW d \in Device, NEW board \in BOOLEAN, NEW n \in Nat, NEW link \in Link
  PROVE  LET r == dev[d]
             s == Drained(d, board, n, link)
         IN  /\ s \in Activity
             /\ s.heard = n /\ s.link = link
             /\ s.isHost = r.isHost /\ s.game = r.game /\ s.goesFirst = r.goesFirst
             /\ s.board = r.board /\ s.stage = r.stage /\ s.rematch = r.rematch
             /\ s.you = r.you /\ s.them = r.them
             /\ s.sequence = IF board THEN out[Other(d)].sequence ELSE r.sequence
             /\ s.myTurn <=> (r.myTurn \/ board) /\ link = "Playing"
<1>1. dev[d] \in Activity /\ out[Other(d)].sequence \in Nat
  BY Pairs DEF Types
<1> QED BY <1>1 DEF Drained, Activity

LEMMA HeardIs ==
  ASSUME NEW r \in Activity, NEW note \in Note, NEW turn \in BOOLEAN
  PROVE  LET s == Heard(r, note, turn)
             starts == note = "PlayAgain" /\ r.you = "Ready"
         IN  /\ s \in Activity
             /\ s.link = r.link /\ s.isHost = r.isHost /\ s.heard = r.heard
             /\ s.sequence = r.sequence /\ s.myTurn = r.myTurn
             /\ s.game = IF starts THEN r.game + 1 ELSE r.game
             /\ s.goesFirst <=> IF ~starts THEN r.goesFirst
                                ELSE IF SeatByTurn THEN turn ELSE r.isHost
             /\ s.board = IF starts THEN NewBoard(r.game + 1) ELSE r.board
             /\ s.stage = IF starts THEN "Live" ELSE r.stage
             /\ s.rematch <=> ~starts
             /\ s.you = IF note = "PlayAgain" THEN "Deciding" ELSE r.you
             /\ s.them = IF note = "Leaving" THEN "Left"
                         ELSE IF starts THEN "Deciding" ELSE "Ready"
<1> DEFINE s == Heard(r, note, turn)
<1>1. CASE note = "Leaving"
  <2>1. s = [r EXCEPT !.them = "Left", !.rematch = TRUE]
    BY <1>1 DEF Heard
  <2> QED BY <1>1, <2>1 DEF Activity, SeatState
<1>2. CASE note = "PlayAgain" /\ r.you = "Ready"
  <2>1. s = StartRematch(r, turn)
    BY <1>2 DEF Heard
  <2>2. NewBoard(r.game + 1) \in AnyBoard /\ r.game + 1 \in Nat
    BY DEF NewBoard, AnyBoard, Activity
  <2>3. (IF SeatByTurn THEN turn ELSE r.isHost) \in BOOLEAN
    BY DEF Activity
  <2> QED BY ZenonT(40), <1>2, <2>1, <2>2, <2>3 DEF StartRematch, Activity, SeatState, Stage
<1>3. CASE note = "PlayAgain" /\ r.you # "Ready"
  <2>1. s = [r EXCEPT !.them = "Ready", !.rematch = TRUE, !.you = "Deciding"]
    BY <1>3 DEF Heard
  <2> QED BY <1>3, <2>1 DEF Activity, SeatState
<1> QED BY <1>1, <1>2, <1>3 DEF Note

LEMMA EndgameIs ==
  ASSUME NEW r \in Activity, NEW expired \in BOOLEAN
  PROVE  LET s == EndgameUpdate(r, expired)
         IN  /\ s \in Activity /\ s = [r EXCEPT !.stage = s.stage]
             /\ ~r.board.over => s.stage = "Live"
             /\ r.board.over /\ r.stage = "Live" => s.stage = "Final"
             /\ r.board.over /\ r.stage # "Live" => s.stage \in {r.stage, "Offer"}
<1>1. r.board.over \in BOOLEAN
  BY DEF Activity, AnyBoard
<1> QED BY <1>1 DEF EndgameUpdate, Activity, Stage

LEMMA OfferedIs ==
  ASSUME NEW r \in Activity
  PROVE  LET s == Offered(r)
             offers == r.stage = "Offer" /\ ~r.rematch
         IN  /\ s \in Activity
             /\ s = [r EXCEPT !.rematch = s.rematch, !.you = s.you, !.them = s.them]
             /\ s.rematch <=> r.rematch \/ offers
             /\ s.you = IF offers THEN "Deciding" ELSE r.you
             /\ s.them = IF offers THEN "Deciding" ELSE r.them
BY DEF Offered, Activity, SeatState

LEMMA OverSeenIs ==
  ASSUME NEW r \in Activity
  PROVE  LET s == OverSeen(r)
         IN  /\ s \in Activity
             /\ s = [r EXCEPT !.rematch = s.rematch, !.them = s.them]
             /\ s.rematch <=> r.rematch \/ r.link \in {"OpponentLeft", "OpponentLost"}
             /\ s.them = IF r.link = "OpponentLeft" THEN "Left"
                         ELSE IF r.link = "OpponentLost" THEN "Lost" ELSE r.them
BY DEF OverSeen, Activity, SeatState

LEMMA PassIs ==
  ASSUME Types, NEW d \in Device, NEW board \in BOOLEAN, NEW n \in Nat,
         NEW link \in Link \ {"Off"}, NEW expired \in BOOLEAN,
         Hears(d, n) => notes[Other(d)][n] \in Note,
         PassWith(d, board, n, link, expired)
  PROVE  PassTo(d, board, n, link)
<1> DEFINE r  == dev[d]
           o  == out[Other(d)]
           r1 == Drained(d, board, n, link)
           r2 == IF n # dev[d].heard
                 THEN Heard(r1, notes[Other(d)][n], r1.myTurn /\ ~board) ELSE r1
           r3 == TakenBoard(d, r2, board)
           r4 == EndgameUpdate(r3, expired)
           r5 == Offered(r4)
           s  == OverSeen(r5)
<1>1. /\ dev' = [dev EXCEPT ![d] = s]
      /\ due' = [due EXCEPT ![d] = TRUE]
      /\ counted' = IF MatchEnds(r3)
                    THEN [counted EXCEPT ![d][r3.board.game] = @ + 1] ELSE counted
      /\ UNCHANGED <<usage, out, notes, asked>>
  BY DEF PassWith
<1>2. r \in Activity /\ o.board \in AnyBoard /\ o.sequence \in Nat
  BY Pairs DEF Types
<1>3. /\ r1 \in Activity /\ r1.heard = n /\ r1.link = link
      /\ r1.sequence = IF board THEN o.sequence ELSE r.sequence
      /\ r1.myTurn <=> (r.myTurn \/ board) /\ link = "Playing"
      /\ r1.isHost = r.isHost /\ r1.game = r.game /\ r1.goesFirst = r.goesFirst
      /\ r1.board = r.board /\ r1.stage = r.stage /\ r1.rematch = r.rematch
      /\ r1.you = r.you /\ r1.them = r.them
  <2>1. link \in Link
    OBVIOUS
  <2> QED BY <2>1, DrainedIs
<1> HIDE DEF r1
<1>4. /\ r2 \in Activity /\ r2.heard = n /\ r2.link = link
      /\ r2.sequence = r1.sequence /\ r2.myTurn = r1.myTurn /\ r2.isHost = r.isHost
      /\ r2.game = IF Starts(d, n) THEN r.game + 1 ELSE r.game
      /\ r2.goesFirst <=> IF ~Starts(d, n) THEN r.goesFirst
                         ELSE IF SeatByTurn THEN r.myTurn /\ link = "Playing" /\ ~board
                         ELSE r.isHost
      /\ r2.board = IF Starts(d, n) THEN NewBoard(r.game + 1) ELSE r.board
      /\ r2.stage = IF Starts(d, n) THEN "Live" ELSE r.stage
      /\ r2.rematch <=> Leaves(d, n) \/ Asks(d, n) \/ (r.rematch /\ ~Starts(d, n))
      /\ r2.you = IF Starts(d, n) \/ Asks(d, n) THEN "Deciding" ELSE r.you
      /\ r2.them = CASE Leaves(d, n) -> "Left"
                     [] Asks(d, n) -> "Ready"
                     [] Starts(d, n) -> "Deciding"
                     [] OTHER -> r.them
  <2>1. CASE n = dev[d].heard
    <3>1. r2 = r1
      BY <2>1
    <3>2. ~Starts(d, n) /\ ~Asks(d, n) /\ ~Leaves(d, n)
      BY <2>1 DEF Starts, Asks, Leaves, Hears
    <3> HIDE DEF r2
    <3> QED BY <1>3, <3>1, <3>2
  <2>2. CASE n # dev[d].heard
    <3> DEFINE note == notes[Other(d)][n]
               turn == r1.myTurn /\ ~board
    <3>1. r2 = Heard(r1, note, turn)
      BY <2>2
    <3>2. note \in Note /\ turn \in BOOLEAN
      BY <2>2 DEF Hears
    <3>3. /\ Starts(d, n) <=> note = "PlayAgain" /\ r.you = "Ready"
          /\ Asks(d, n) <=> note = "PlayAgain" /\ r.you # "Ready"
          /\ Leaves(d, n) <=> note = "Leaving"
      BY <2>2 DEF Starts, Asks, Leaves, Hears
    <3>t. turn <=> r.myTurn /\ link = "Playing" /\ ~board
      BY <1>3
    <3> HIDE DEF r2, note, turn
    <3>4. LET starts == note = "PlayAgain" /\ r1.you = "Ready"
         IN  /\ r2 \in Activity
             /\ r2.link = r1.link /\ r2.isHost = r1.isHost /\ r2.heard = r1.heard
             /\ r2.sequence = r1.sequence /\ r2.myTurn = r1.myTurn
             /\ r2.game = IF starts THEN r1.game + 1 ELSE r1.game
             /\ r2.goesFirst <=> IF ~starts THEN r1.goesFirst
                                ELSE IF SeatByTurn THEN turn ELSE r1.isHost
             /\ r2.board = IF starts THEN NewBoard(r1.game + 1) ELSE r1.board
             /\ r2.stage = IF starts THEN "Live" ELSE r1.stage
             /\ r2.rematch <=> ~starts
             /\ r2.you = IF note = "PlayAgain" THEN "Deciding" ELSE r1.you
             /\ r2.them = IF note = "Leaving" THEN "Left"
                         ELSE IF starts THEN "Deciding" ELSE "Ready"
      BY <1>3, <3>1, <3>2, HeardIs
    <3>5. note = "PlayAgain" \/ note = "Leaving"
      BY <3>2 DEF Note
    <3> QED BY <1>3, <3>3, <3>4, <3>5, <3>t
  <2> QED BY <2>1, <2>2
<1> HIDE DEF r2
<1>5. /\ r3 \in Activity
      /\ r3 = [r2 EXCEPT !.board = IF board THEN o.board ELSE r2.board]
      /\ r3.board = IF board THEN o.board ELSE r2.board
  BY <1>2, <1>4 DEF TakenBoard, Activity
<1> HIDE DEF r3
<1>6. r3.stage = r2.stage
  BY <1>4, <1>5 DEF Activity
<1>7. /\ r4 \in Activity /\ r4 = [r3 EXCEPT !.stage = r4.stage]
      /\ ~r3.board.over => r4.stage = "Live"
      /\ r3.board.over /\ r3.stage = "Live" => r4.stage = "Final"
      /\ r3.board.over /\ r3.stage # "Live" => r4.stage \in {r3.stage, "Offer"}
  BY <1>5, EndgameIs
<1> HIDE DEF r4
<1>8. /\ r5 \in Activity
      /\ r5 = [r4 EXCEPT !.rematch = r5.rematch, !.you = r5.you, !.them = r5.them]
      /\ r5.rematch <=> r4.rematch \/ (r4.stage = "Offer" /\ ~r4.rematch)
      /\ r5.you = IF r4.stage = "Offer" /\ ~r4.rematch THEN "Deciding" ELSE r4.you
      /\ r5.them = IF r4.stage = "Offer" /\ ~r4.rematch THEN "Deciding" ELSE r4.them
  BY <1>7, OfferedIs
<1> HIDE DEF r5
<1>9. /\ s \in Activity
      /\ s = [r5 EXCEPT !.rematch = s.rematch, !.them = s.them]
      /\ s.rematch <=> r5.rematch \/ r5.link \in {"OpponentLeft", "OpponentLost"}
      /\ s.them = IF r5.link = "OpponentLeft" THEN "Left"
                  ELSE IF r5.link = "OpponentLost" THEN "Lost" ELSE r5.them
  BY <1>8, OverSeenIs
<1> HIDE DEF s
<1>10. /\ r4.link = link /\ r4.rematch = r2.rematch /\ r4.you = r2.you /\ r4.them = r2.them
       /\ r4.board = r3.board
  BY <1>4, <1>5, <1>7 DEF Activity
<1>11. r5.link = link /\ r5.board = r3.board /\ r5.stage = r4.stage
  BY <1>7, <1>8, <1>10 DEF Activity
<1>12. s.board = r3.board /\ s.stage = r4.stage /\ s.you = r5.you
  BY <1>8, <1>9, <1>11 DEF Activity
<1>13. /\ s.link = link /\ s.isHost = r.isHost /\ s.heard = n /\ s.sequence = r1.sequence
       /\ s.myTurn = r1.myTurn /\ s.game = r2.game /\ s.goesFirst = r2.goesFirst
  <2>1. /\ r3.isHost = r.isHost /\ r3.heard = n /\ r3.sequence = r1.sequence
        /\ r3.myTurn = r1.myTurn /\ r3.game = r2.game /\ r3.goesFirst = r2.goesFirst
    BY <1>4, <1>5 DEF Activity
  <2>2. /\ r4.isHost = r.isHost /\ r4.heard = n /\ r4.sequence = r1.sequence
        /\ r4.myTurn = r1.myTurn /\ r4.game = r2.game /\ r4.goesFirst = r2.goesFirst
    BY <1>5, <1>7, <2>1 DEF Activity
  <2>3. /\ r5.isHost = r.isHost /\ r5.heard = n /\ r5.sequence = r1.sequence
        /\ r5.myTurn = r1.myTurn /\ r5.game = r2.game /\ r5.goesFirst = r2.goesFirst
    BY <1>7, <1>8, <2>2 DEF Activity
  <2> QED BY <1>8, <1>9, <1>11, <2>3 DEF Activity
<1>14. dev'[d] = s
  BY <1>1 DEF Types
<1>15. r4.rematch <=> Leaves(d, n) \/ Asks(d, n) \/ (r.rematch /\ ~Starts(d, n))
  BY <1>4, <1>10
<1>16. s.stage = "Offer" => ~Starts(d, n)
  <2>1. ASSUME Starts(d, n) PROVE r3.stage = "Live"
    BY <1>4, <1>6, <2>1
  <2>2. r3.board.over \in BOOLEAN
    BY <1>5 DEF Activity, AnyBoard
  <2> QED BY <1>7, <1>12, <2>1, <2>2
<1>17. Offers(d, n) <=> r4.stage = "Offer" /\ ~r4.rematch
  BY <1>12, <1>14, <1>15, <1>16 DEF Offers
<1>18. s.you = IF Starts(d, n) \/ Asks(d, n) \/ Offers(d, n) THEN "Deciding" ELSE r.you
  BY <1>4, <1>8, <1>10, <1>12, <1>17
<1>19. ~(Starts(d, n) /\ Asks(d, n)) /\ ~(Asks(d, n) /\ Leaves(d, n)) /\ ~(Starts(d, n) /\ Leaves(d, n))
  BY DEF Starts, Asks, Leaves
<1>20. s.them = CASE link = "OpponentLeft" -> "Left"
                  [] link = "OpponentLost" -> "Lost"
                  [] link = "Playing" /\ Leaves(d, n) -> "Left"
                  [] link = "Playing" /\ Asks(d, n) -> "Ready"
                  [] link = "Playing" /\ (Starts(d, n) \/ Offers(d, n)) -> "Deciding"
                  [] OTHER -> r.them
  <2>1. Offers(d, n) => ~Asks(d, n) /\ ~Leaves(d, n)
    BY DEF Offers
  <2>2. r5.them = CASE Leaves(d, n) -> "Left"
                    [] Asks(d, n) -> "Ready"
                    [] Starts(d, n) \/ Offers(d, n) -> "Deciding"
                    [] OTHER -> r.them
    BY <1>4, <1>8, <1>10, <1>17, <1>19, <2>1
  <2>3. link \in {"OpponentLeft", "OpponentLost", "Playing"}
    BY DEF Link
  <2> QED BY <1>9, <1>11, <1>19, <2>1, <2>2, <2>3
<1>21. s.rematch <=> \/ link \in {"OpponentLeft", "OpponentLost"}
                     \/ Leaves(d, n) \/ Asks(d, n) \/ s.stage = "Offer"
                     \/ r.rematch /\ ~Starts(d, n)
  <2>1. r5.rematch <=> r4.rematch \/ s.stage = "Offer"
    BY <1>8, <1>12
  <2>2. s.rematch <=> r5.rematch \/ link \in {"OpponentLeft", "OpponentLost"}
    BY <1>9, <1>11
  <2> QED BY <1>15, <2>1, <2>2
<1>22. /\ ~s.board.over => s.stage = "Live"
       /\ s.board.over /\ (Starts(d, n) \/ r.stage = "Live") => s.stage = "Final"
       /\ s.board.over /\ ~Starts(d, n) /\ r.stage # "Live" => s.stage \in {r.stage, "Offer"}
  BY <1>4, <1>6, <1>7, <1>12
<1>23. counted' = IF s.board.over /\ (Starts(d, n) \/ r.stage = "Live")
                  THEN [counted EXCEPT ![d][s.board.game] = @ + 1] ELSE counted
  <2>1. MatchEnds(r3) <=> s.board.over /\ (Starts(d, n) \/ r.stage = "Live")
    BY <1>4, <1>6, <1>12 DEF MatchEnds
  <2> QED BY <1>1, <1>12, <2>1
<1>24. s.board = IF board THEN o.board
                 ELSE IF Starts(d, n) THEN NewBoard(r.game + 1) ELSE r.board
  BY <1>4, <1>5, <1>12
<1> QED BY ZenonT(40), <1>1, <1>3, <1>4, <1>9, <1>13, <1>14, <1>18, <1>20, <1>21, <1>22, <1>23, <1>24
     DEF PassTo

LEMMA PassSteps ==
  ASSUME Types, NEW d \in Device, Pass(d)
  PROVE  \E board \in BOOLEAN, n \in Nat, link \in Link \ {"Off"} :
           PassFrom(d, board, n, link) /\ PassTo(d, board, n, link)
<1>1. PICK board \in {FALSE, NewBoardFor(d)}, n \in NotesFor(d), link \in Endings(d),
           expired \in BOOLEAN :
        /\ usage = "overtaking" \/ InOrder(d, board, n)
        /\ PassWith(d, board, n, link, expired)
  BY DEF Pass
<1> DEFINE e == Other(d)
<1>2. dev[d] \in Activity /\ notes[e] \in Seq(Note) /\ e \in Device
  BY Pairs DEF Types
<1>3. dev[d].heard \in Nat /\ Len(notes[e]) \in Nat /\ DOMAIN notes[e] = 1..Len(notes[e])
  BY <1>2 DEF Activity
<1>4. board \in BOOLEAN /\ (board => NewBoardFor(d))
  BY DEF NewBoardFor
<1>5. n \in Nat /\ n >= dev[d].heard
  BY <1>3 DEF NotesFor
<1>6. ASSUME Hears(d, n)
      PROVE  /\ Plays(d) /\ n > dev[d].heard /\ n \in DOMAIN notes[e]
             /\ notes[e][n] \in Note
  <2>1. Plays(d) /\ n \in dev[d].heard..Len(notes[e])
    BY <1>6 DEF NotesFor, Hears, Plays
  <2>2. n > dev[d].heard /\ n \in DOMAIN notes[e]
    BY <1>3, <1>5, <1>6, <2>1 DEF Hears
  <2> QED BY <1>2, <2>1, <2>2
<1>7. dev[d].link # "Off"
  BY <1>1 DEF PassWith
<1>8. link \in Link \ {"Off"} /\ (~Plays(d) => link = dev[d].link)
  BY <1>2, <1>7 DEF Endings, Plays, Link, Activity
<1>9. PassTo(d, board, n, link)
  BY <1>1, <1>4, <1>5, <1>6, <1>8, PassIs
<1>10. Hears(d, n) => Starts(d, n) \/ Asks(d, n) \/ Leaves(d, n)
  BY <1>6 DEF Starts, Asks, Leaves, Note
<1>11. PassFrom(d, board, n, link)
  BY <1>1, <1>4, <1>5, <1>6, <1>7, <1>8, <1>10 DEF PassFrom
<1> QED BY <1>4, <1>5, <1>8, <1>9, <1>11

-----------------------------------------------------------------------------
(* What the player does, each with the fields it sets. *)
LEMMA MovedBoard ==
  ASSUME NEW old \in AnyBoard, NEW over \in BOOLEAN
  PROVE  LET b == [old EXCEPT !.moves = @ + 1, !.over = over]
         IN  /\ b \in AnyBoard /\ b.game = old.game
             /\ b.moves = old.moves + 1 /\ b.over = over
<1>1. old.moves + 1 \in Nat
  BY DEF AnyBoard
<1> QED BY <1>1 DEF AnyBoard

LEMMA MoveSteps ==
  ASSUME Types, NEW d \in Device, Move(d)
  PROVE  LET r == dev[d]
             s == dev'[d]
         IN  /\ due[d] /\ Plays(d) /\ r.myTurn /\ ~OwnsScreen(r) /\ ~r.board.over
             /\ s \in Activity /\ dev' = [dev EXCEPT ![d] = s]
             /\ s.link = r.link /\ s.isHost = r.isHost /\ s.heard = r.heard
             /\ s.rematch = r.rematch /\ s.you = r.you /\ s.them = r.them
             /\ s.stage = r.stage /\ s.game = r.game /\ s.goesFirst = r.goesFirst
             /\ ~s.myTurn /\ s.sequence = r.sequence + 1
             /\ s.board \in AnyBoard /\ s.board.game = r.board.game
             /\ s.board.moves = r.board.moves + 1
             /\ s.board.over => s.board.moves > 1
             /\ out' = [out EXCEPT ![d] = [sequence |-> r.sequence + 1, board |-> s.board,
                                           after |-> Len(notes[d])]]
             /\ due' = [due EXCEPT ![d] = FALSE]
             /\ UNCHANGED <<usage, notes, asked, counted>>
<1> DEFINE r == dev[d]
           s == dev'[d]
<1>1. PICK over \in BOOLEAN :
        LET b == [r.board EXCEPT !.moves = @ + 1, !.over = over] IN
        /\ over => b.moves > 1
        /\ dev' = [dev EXCEPT ![d] = [r EXCEPT !.board = b, !.myTurn = FALSE,
                                               !.sequence = @ + 1]]
        /\ out' = [out EXCEPT ![d] = [sequence |-> r.sequence + 1, board |-> b,
                                      after |-> Len(notes[d])]]
  BY DEF Move
<1> DEFINE b == [r.board EXCEPT !.moves = @ + 1, !.over = over]
<1>2. r \in Activity
  BY DEF Types
<1>3. b \in AnyBoard /\ b.game = r.board.game /\ b.moves = r.board.moves + 1 /\ b.over = over
  <2>1. r.board \in AnyBoard
    BY <1>2 DEF Activity
  <2> QED BY <2>1, MovedBoard
<1>4. s = [r EXCEPT !.board = b, !.myTurn = FALSE, !.sequence = @ + 1]
  BY <1>1 DEF Types
<1>5. (over => b.moves > 1) /\ dev' = [dev EXCEPT ![d] = s]
  BY <1>1, <1>4
<1>6. out' = [out EXCEPT ![d] = [sequence |-> r.sequence + 1, board |-> b,
                                 after |-> Len(notes[d])]]
  BY <1>1
<1> HIDE DEF b, r
<1>7. /\ s \in Activity /\ s.board = b
      /\ s.link = r.link /\ s.isHost = r.isHost /\ s.heard = r.heard
      /\ s.rematch = r.rematch /\ s.you = r.you /\ s.them = r.them
      /\ s.stage = r.stage /\ s.game = r.game /\ s.goesFirst = r.goesFirst
      /\ ~s.myTurn /\ s.sequence = r.sequence + 1
  <2>1. b \in AnyBoard
    BY <1>3
  <2>2. r.sequence + 1 \in Nat
    BY <1>2 DEF Activity
  <2> HIDE DEF s
  <2> QED BY <1>2, <1>4, <2>1, <2>2 DEF Activity
<1>9. /\ due[d] /\ Plays(d) /\ r.myTurn /\ ~OwnsScreen(r) /\ ~r.board.over
      /\ due' = [due EXCEPT ![d] = FALSE]
      /\ UNCHANGED <<usage, notes, asked, counted>>
  BY DEF Move, Plays, r
<1> QED BY <1>3, <1>5, <1>6, <1>7, <1>9 DEF r

Agrees(d) == TheyAlreadyAgreed(dev[d])

LEMMA ProposeSteps ==
  ASSUME Types, NEW d \in Device, ProposeRematch(d)
  PROVE  LET r == dev[d]
             s == dev'[d]
         IN  /\ due[d] /\ CanAsk(r) /\ Len(notes[d]) < MaxNotes
             /\ s \in Activity /\ dev' = [dev EXCEPT ![d] = s]
             /\ s.link = r.link /\ s.isHost = r.isHost /\ s.heard = r.heard
             /\ s.myTurn = r.myTurn /\ s.sequence = r.sequence
             /\ Agrees(d) => /\ s.game = r.game + 1 /\ s.board = NewBoard(r.game + 1)
                             /\ s.stage = "Live" /\ ~s.rematch
                             /\ s.you = "Deciding" /\ s.them = "Deciding"
                             /\ s.goesFirst <=> IF SeatByTurn THEN r.myTurn ELSE r.isHost
             /\ ~Agrees(d) => /\ s.game = r.game /\ s.board = r.board
                              /\ s.goesFirst = r.goesFirst
                              /\ s.stage = IF r.stage = "Final" THEN "Offer" ELSE r.stage
                              /\ s.rematch /\ s.you = "Ready"
                              /\ s.them = IF r.them \in {"Left", "Lost"} THEN r.them
                                          ELSE "Deciding"
             /\ Say(d, "PlayAgain")
             /\ asked' = [asked EXCEPT ![d] = @ \cup {r.game}]
             /\ due' = [due EXCEPT ![d] = FALSE]
             /\ UNCHANGED <<usage, out, counted>>
<1> DEFINE r == dev[d]
           s == dev'[d]
           t == [r EXCEPT !.you = "Ready", !.stage = IF @ = "Final" THEN "Offer" ELSE @]
<1>1. /\ due[d] /\ CanAsk(r) /\ Len(notes[d]) < MaxNotes
      /\ Say(d, "PlayAgain")
      /\ asked' = [asked EXCEPT ![d] = @ \cup {r.game}]
      /\ due' = [due EXCEPT ![d] = FALSE]
      /\ UNCHANGED <<usage, out, counted>>
      /\ dev' = [dev EXCEPT ![d] =
                   IF TheyAlreadyAgreed(r) THEN StartRematch(t, t.myTurn)
                   ELSE [t EXCEPT !.rematch = TRUE,
                                  !.them = IF @ \in {"Left", "Lost"} THEN @ ELSE "Deciding"]]
  BY DEF ProposeRematch
<1>2. r \in Activity
  BY DEF Types
<1>3. /\ t \in Activity
      /\ t.you = "Ready" /\ t.stage = IF r.stage = "Final" THEN "Offer" ELSE r.stage
      /\ t.link = r.link /\ t.isHost = r.isHost /\ t.heard = r.heard
      /\ t.myTurn = r.myTurn /\ t.sequence = r.sequence /\ t.game = r.game
      /\ t.board = r.board /\ t.goesFirst = r.goesFirst /\ t.them = r.them
  BY <1>2 DEF Activity, SeatState, Stage
<1> HIDE DEF t
<1>4. CASE Agrees(d)
  <2>1. s = StartRematch(t, t.myTurn) /\ dev' = [dev EXCEPT ![d] = s]
    BY <1>1, <1>4 DEF Types, Agrees
  <2>2. NewBoard(t.game + 1) \in AnyBoard /\ t.game + 1 \in Nat
    BY <1>3 DEF NewBoard, AnyBoard, Activity
  <2>3. (IF SeatByTurn THEN t.myTurn ELSE t.isHost) \in BOOLEAN
    BY <1>3 DEF Activity
  <2>4. /\ s \in Activity
        /\ s.link = t.link /\ s.isHost = t.isHost /\ s.heard = t.heard
        /\ s.myTurn = t.myTurn /\ s.sequence = t.sequence
        /\ s.game = t.game + 1 /\ s.board = NewBoard(t.game + 1)
        /\ s.stage = "Live" /\ ~s.rematch /\ s.you = "Deciding" /\ s.them = "Deciding"
        /\ s.goesFirst = IF SeatByTurn THEN t.myTurn ELSE t.isHost
    BY ZenonT(40), <1>3, <2>1, <2>2, <2>3 DEF StartRematch, Activity, SeatState, Stage
  <2> QED BY <1>1, <1>3, <1>4, <2>1, <2>4
<1>5. CASE ~Agrees(d)
  <2>1. /\ s = [t EXCEPT !.rematch = TRUE,
                         !.them = IF @ \in {"Left", "Lost"} THEN @ ELSE "Deciding"]
        /\ dev' = [dev EXCEPT ![d] = s]
    BY <1>1, <1>5 DEF Types, Agrees
  <2>2. /\ s \in Activity
        /\ s.link = t.link /\ s.isHost = t.isHost /\ s.heard = t.heard
        /\ s.myTurn = t.myTurn /\ s.sequence = t.sequence
        /\ s.game = t.game /\ s.board = t.board /\ s.stage = t.stage
        /\ s.goesFirst = t.goesFirst /\ s.rematch /\ s.you = "Ready"
        /\ s.them = IF t.them \in {"Left", "Lost"} THEN t.them ELSE "Deciding"
    BY <1>3, <2>1 DEF Activity, SeatState
  <2> QED BY <1>1, <1>3, <1>5, <2>1, <2>2
<1> QED BY <1>4, <1>5

LEMMA LeaveSteps ==
  ASSUME Types, NEW d \in Device, LeaveLink(d)
  PROVE  LET r == dev[d]
             s == dev'[d]
         IN  /\ due[d] /\ r.link # "Off" /\ (r.rematch => Len(notes[d]) < MaxNotes)
             /\ s \in Activity /\ dev' = [dev EXCEPT ![d] = s]
             /\ s.link = "Off" /\ ~s.myTurn /\ ~s.rematch /\ s.stage = "Live"
             /\ s.isHost = r.isHost /\ s.heard = r.heard /\ s.sequence = r.sequence
             /\ s.you = r.you /\ s.them = r.them /\ s.game = r.game
             /\ s.goesFirst = r.goesFirst /\ s.board = r.board
             /\ IF r.rematch THEN Say(d, "Leaving") ELSE UNCHANGED notes
             /\ due' = [due EXCEPT ![d] = FALSE]
             /\ UNCHANGED <<usage, out, asked, counted>>
<1> DEFINE r == dev[d]
           s == dev'[d]
<1>1. /\ due[d] /\ r.link # "Off" /\ (r.rematch => Len(notes[d]) < MaxNotes)
      /\ IF r.rematch THEN Say(d, "Leaving") ELSE UNCHANGED notes
      /\ due' = [due EXCEPT ![d] = FALSE]
      /\ UNCHANGED <<usage, out, asked, counted>>
  BY DEF LeaveLink
<1>2. r \in Activity
  BY DEF Types
<1>3. /\ s = [r EXCEPT !.link = "Off", !.myTurn = FALSE, !.rematch = FALSE, !.stage = "Live"]
      /\ dev' = [dev EXCEPT ![d] = s]
  BY DEF LeaveLink, Types
<1> HIDE DEF r, s
<1>4. /\ s \in Activity
      /\ s.link = "Off" /\ ~s.myTurn /\ ~s.rematch /\ s.stage = "Live"
      /\ s.isHost = r.isHost /\ s.heard = r.heard /\ s.sequence = r.sequence
      /\ s.you = r.you /\ s.them = r.them /\ s.game = r.game
      /\ s.goesFirst = r.goesFirst /\ s.board = r.board
  BY <1>2, <1>3 DEF Activity, Link, Stage
<1> QED BY <1>1, <1>3, <1>4 DEF r, s

(* A note said is the last of its device's. *)
LEMMA SaySteps ==
  ASSUME Types, NEW d \in Device, NEW note \in Note, Say(d, note)
  PROVE  /\ notes' \in [Device -> Seq(Note)]
         /\ notes'[Other(d)] = notes[Other(d)]
         /\ ~Plays(d) => notes' = notes
         /\ Plays(d) => /\ Len(notes'[d]) = Len(notes[d]) + 1
                        /\ DOMAIN notes'[d] = 1..(Len(notes[d]) + 1)
                        /\ \A i \in 1..Len(notes[d]) : notes'[d][i] = notes[d][i]
                        /\ notes'[d][Len(notes[d]) + 1] = note
<1>1. notes[d] \in Seq(Note) /\ Other(d) \in Device /\ Other(d) # d
  BY Pairs DEF Types
<1>2. CASE Plays(d)
  <2>1. notes' = [notes EXCEPT ![d] = Append(@, note)]
    BY <1>2 DEF Say, Plays
  <2>2. notes'[d] = Append(notes[d], note) /\ notes'[Other(d)] = notes[Other(d)]
    BY <1>1, <2>1 DEF Types
  <2>3. Append(notes[d], note) \in Seq(Note)
    BY <1>1
  <2> QED BY <1>1, <1>2, <2>1, <2>2, <2>3 DEF Types
<1>3. CASE ~Plays(d)
  BY <1>3 DEF Say, Plays, Types
<1> QED BY <1>2, <1>3

LEMMA NotesAre ==
  ASSUME Types, NEW d \in Device
  PROVE  /\ notes[d] \in Seq(Note) /\ Len(notes[d]) \in Nat
         /\ DOMAIN notes[d] = 1..Len(notes[d])
         /\ \A i \in DOMAIN notes[d] : notes[d][i] \in Note
BY DEF Types

-----------------------------------------------------------------------------
(* Types. *)
LEMMA TypesInit == Init => Types
<1> SUFFICES ASSUME Init PROVE Types
  OBVIOUS
<1>1. PICK host \in Device :
        dev = [d \in Device |->
                [link |-> "Playing", isHost |-> d = host, myTurn |-> d = host,
                 sequence |-> 0, heard |-> 0,
                 rematch |-> FALSE, you |-> "Deciding", them |-> "Deciding",
                 stage |-> "Live", game |-> 1, goesFirst |-> d = host,
                 board |-> NewBoard(1)]]
  BY DEF Init
<1>2. NewBoard(1) \in AnyBoard
  BY DEF NewBoard, AnyBoard
<1>3. dev \in [Device -> Activity]
  BY <1>1, <1>2 DEF Activity, Link, SeatState, Stage
<1>4. out \in [Device -> [sequence : Nat, board : AnyBoard, after : Nat]]
  BY <1>2 DEF Init
<1> QED BY <1>3, <1>4 DEF Init, Types

LEMMA TypesStep == Types /\ [Next]_vars => Types'
<1> SUFFICES ASSUME Types, [Next]_vars PROVE Types'
  OBVIOUS
<1>1. ASSUME NEW d \in Device, Pass(d) PROVE Types'
  <2>1. PICK board \in BOOLEAN, n \in Nat, link \in Link \ {"Off"} : PassTo(d, board, n, link)
    BY <1>1, PassSteps
  <2>2. /\ dev'[d] \in Activity /\ dev' = [dev EXCEPT ![d] = dev'[d]]
        /\ due' = [due EXCEPT ![d] = TRUE]
        /\ UNCHANGED <<usage, out, notes, asked>>
    BY <2>1 DEF PassTo
  <2>3. counted' \in [Device -> [Games -> Nat]]
    <3> DEFINE g == dev'[d].board.game
    <3>1. CASE counted' = counted
      BY <3>1 DEF Types
    <3>2. CASE counted' = [counted EXCEPT ![d][g] = @ + 1]
      <4> DEFINE c == counted[d]
      <4>2. c \in [Games -> Nat]
        BY DEF Types
      <4> HIDE DEF c, g
      <4>3. \A x \in Games : [c EXCEPT ![g] = @ + 1][x] \in Nat
        BY <4>2
      <4>4. [c EXCEPT ![g] = @ + 1] \in [Games -> Nat]
        BY <4>2, <4>3
      <4>1. [counted[d] EXCEPT ![g] = @ + 1] \in [Games -> Nat]
        BY <4>4 DEF c
      <4> QED BY <3>2, <4>1 DEF Types
    <3> QED BY <2>1, <3>1, <3>2 DEF PassTo
  <2> QED BY <2>2, <2>3 DEF Types
<1>2. ASSUME NEW d \in Device, Move(d) PROVE Types'
  <2>1. /\ dev'[d] \in Activity /\ dev' = [dev EXCEPT ![d] = dev'[d]]
        /\ dev'[d].board \in AnyBoard
        /\ out' = [out EXCEPT ![d] = [sequence |-> dev[d].sequence + 1,
                                      board |-> dev'[d].board, after |-> Len(notes[d])]]
        /\ due' = [due EXCEPT ![d] = FALSE]
        /\ UNCHANGED <<usage, notes, asked, counted>>
    BY <1>2, MoveSteps
  <2>2. dev[d].sequence \in Nat /\ Len(notes[d]) \in Nat
    BY NotesAre DEF Types, Activity
  <2>3. [sequence |-> dev[d].sequence + 1, board |-> dev'[d].board, after |-> Len(notes[d])]
          \in [sequence : Nat, board : AnyBoard, after : Nat]
    BY <2>1, <2>2
  <2> QED BY <2>1, <2>3 DEF Types
<1>3. ASSUME NEW d \in Device, ProposeRematch(d) PROVE Types'
  <2>1. /\ dev'[d] \in Activity /\ dev' = [dev EXCEPT ![d] = dev'[d]]
        /\ Say(d, "PlayAgain")
        /\ asked' = [asked EXCEPT ![d] = @ \cup {dev[d].game}]
        /\ due' = [due EXCEPT ![d] = FALSE]
        /\ UNCHANGED <<usage, out, counted>>
    BY <1>3, ProposeSteps
  <2>2. dev[d].game \in Nat
    BY DEF Types, Activity
  <2>3. notes' \in [Device -> Seq(Note)]
    BY <2>1, SaySteps DEF Note
  <2> QED BY <2>1, <2>2, <2>3 DEF Types
<1>4. ASSUME NEW d \in Device, LeaveLink(d) PROVE Types'
  <2>1. /\ dev'[d] \in Activity /\ dev' = [dev EXCEPT ![d] = dev'[d]]
        /\ IF dev[d].rematch THEN Say(d, "Leaving") ELSE UNCHANGED notes
        /\ due' = [due EXCEPT ![d] = FALSE]
        /\ UNCHANGED <<usage, out, asked, counted>>
    BY <1>4, LeaveSteps
  <2>2. notes' \in [Device -> Seq(Note)]
    BY <2>1, SaySteps DEF Note, Types
  <2> QED BY <2>1, <2>2 DEF Types
<1>5. CASE UNCHANGED vars
  BY <1>5 DEF vars, Types
<1> QED BY <1>1, <1>2, <1>3, <1>4, <1>5 DEF Next

LEMMA FieldTypes ==
  ASSUME Types, NEW d \in Device
  PROVE  /\ dev[d].sequence \in Nat /\ dev[d].heard \in Nat /\ dev[d].game \in Nat
         /\ dev[d].board \in AnyBoard /\ dev[d].board.game \in Nat
         /\ dev[d].board.moves \in Nat /\ dev[d].board.over \in BOOLEAN
         /\ dev[d].isHost \in BOOLEAN /\ dev[d].myTurn \in BOOLEAN
         /\ dev[d].goesFirst \in BOOLEAN /\ dev[d].rematch \in BOOLEAN
         /\ dev[d].link \in Link /\ dev[d].stage \in Stage
         /\ dev[d].you \in SeatState /\ dev[d].them \in SeatState
         /\ out[d].sequence \in Nat /\ out[d].after \in Nat
         /\ out[d].board \in AnyBoard /\ out[d].board.game \in Nat
         /\ out[d].board.moves \in Nat /\ out[d].board.over \in BOOLEAN
         /\ due[d] \in BOOLEAN
<1>1. dev[d] \in Activity /\ out[d].sequence \in Nat /\ out[d].after \in Nat
      /\ out[d].board \in AnyBoard /\ due[d] \in BOOLEAN
  BY DEF Types
<1>2. dev[d].board \in AnyBoard
  BY <1>1 DEF Activity
<1>3. \A b \in AnyBoard : b.game \in Nat /\ b.moves \in Nat /\ b.over \in BOOLEAN
  BY DEF AnyBoard
<1> QED BY <1>1, <1>2, <1>3 DEF Activity

(* Everything about the other device stays. *)
LEMMA OtherStays ==
  ASSUME Types, NEW d \in Device, NEW s, dev' = [dev EXCEPT ![d] = s]
  PROVE  dev'[d] = s /\ dev'[Other(d)] = dev[Other(d)]
BY Pairs DEF Types

(* Turns alternate, so the counters change their parity. *)
LEMMA Parity == \A n \in Nat : (n + 1) % 2 = 0 <=> ~(n % 2 = 0)
OBVIOUS

-----------------------------------------------------------------------------
(* The turn. *)
LEMMA TurnInit == Init => TurnInv
<1> SUFFICES ASSUME Init, NEW d \in Device PROVE TurnOf(d)
  BY DEF TurnInv
<1>1. PICK host \in Device :
        \A c \in Device : /\ dev[c].sequence = 0 /\ dev[c].isHost = (c = host)
                          /\ dev[c].myTurn = (c = host) /\ Plays(c)
  BY DEF Init, Plays
<1>2. \A c \in Device : out[c].sequence = 0
  BY DEF Init
<1>3. (Other(d) = host) <=> ~(d = host)
  BY Pairs
<1>4. /\ dev[d].sequence = 0 /\ (dev[d].isHost <=> d = host)
      /\ (dev[d].myTurn <=> d = host) /\ Plays(d) /\ out[d].sequence = 0
  BY <1>1, <1>2
<1>5. dev[Other(d)].sequence = 0 /\ (dev[Other(d)].isHost <=> Other(d) = host)
  BY <1>1, Pairs
<1>6. Mine(d) <=> d = host
  BY <1>4 DEF Mine
<1> QED BY <1>3, <1>4, <1>5, <1>6 DEF TurnOf

(* What TurnInv makes of a board that is new to d. *)
LEMMA NewBoardIs ==
  ASSUME Types, TurnInv, NEW d \in Device, NewBoardFor(d)
  PROVE  /\ Plays(d) /\ out[Other(d)].sequence = dev[Other(d)].sequence
         /\ dev[Other(d)].sequence = dev[d].sequence + 1
         /\ ~Mine(Other(d)) /\ ~dev[d].myTurn
<1>1. /\ Other(d) \in Device /\ Other(Other(d)) = d
      /\ TurnOf(d) /\ TurnOf(Other(d))
  BY Pairs DEF TurnInv
<1>2. /\ dev[d].sequence \in Nat /\ dev[Other(d)].sequence \in Nat
      /\ out[Other(d)].sequence \in Nat
  BY <1>1, FieldTypes
<1> QED BY <1>1, <1>2 DEF TurnOf, NewBoardFor, Plays

LEMMA TurnPass ==
  ASSUME Types, TurnInv, NEW d \in Device, NEW board, NEW n, NEW link,
         PassFrom(d, board, n, link), PassTo(d, board, n, link)
  PROVE  TurnInv'
<1> DEFINE e == Other(d)
<1>1. e \in Device /\ Other(e) = d /\ (\A c \in Device : c = d \/ c = e)
  BY Pairs
<1>2. /\ dev'[e] = dev[e] /\ out' = out
      /\ dev'[d].link = link /\ dev'[d].isHost = dev[d].isHost
      /\ dev'[d].sequence = IF board THEN out[e].sequence ELSE dev[d].sequence
      /\ dev'[d].myTurn <=> (dev[d].myTurn \/ board) /\ link = "Playing"
      /\ board \in BOOLEAN
  BY OtherStays DEF PassTo, PassFrom
<1>3. link = "Playing" => Plays(d)
  BY DEF PassFrom, Plays
<1>4. TurnOf(d) /\ TurnOf(e)
  BY <1>1 DEF TurnInv
<1>5. /\ dev[d].sequence \in Nat /\ dev[e].sequence \in Nat
      /\ out[d].sequence \in Nat /\ out[e].sequence \in Nat
      /\ dev[d].isHost \in BOOLEAN /\ dev[e].isHost \in BOOLEAN
      /\ dev[d].myTurn \in BOOLEAN /\ dev[e].myTurn \in BOOLEAN
  BY <1>1, FieldTypes
<1>6. CASE board
  <2>1. /\ out[e].sequence = dev[e].sequence /\ dev[e].sequence = dev[d].sequence + 1
        /\ ~Mine(e) /\ ~dev[d].myTurn
    BY <1>6, NewBoardIs DEF PassFrom
  <2>2. dev'[d].sequence = dev[e].sequence /\ (dev'[d].myTurn <=> link = "Playing")
    BY <1>2, <1>6, <2>1
  <2>3. Mine(d)' /\ ~Mine(e)' /\ ~dev[e].myTurn
    BY <1>1, <1>2, <1>4, <1>5, <2>1, <2>2 DEF TurnOf, Mine, Plays
  <2>4. TurnOf(d)'
    BY <1>1, <1>2, <1>4, <1>5, <2>1, <2>2, <2>3 DEF TurnOf, Plays
  <2>5. TurnOf(e)'
    BY <1>1, <1>2, <1>4, <1>5, <2>1, <2>2, <2>3 DEF TurnOf, Plays
  <2> QED BY <1>1, <2>4, <2>5 DEF TurnInv
<1>7. CASE ~board
  <2>1. dev'[d].sequence = dev[d].sequence
        /\ (dev'[d].myTurn <=> dev[d].myTurn /\ link = "Playing")
    BY <1>2, <1>7
  <2>2. (Mine(d)' <=> Mine(d)) /\ (Mine(e)' <=> Mine(e))
    BY <1>2, <2>1 DEF Mine
  <2>3. TurnOf(d)' /\ TurnOf(e)'
    BY <1>1, <1>2, <1>3, <1>4, <2>1, <2>2 DEF TurnOf, Plays
  <2> QED BY <1>1, <2>3 DEF TurnInv
<1> QED BY <1>2, <1>6, <1>7

LEMMA TurnMove ==
  ASSUME Types, TurnInv, NEW d \in Device, Move(d)
  PROVE  TurnInv'
<1> DEFINE e == Other(d)
<1>1. e \in Device /\ Other(e) = d /\ (\A c \in Device : c = d \/ c = e) /\ e # d
  BY Pairs
<1>2. /\ dev'[e] = dev[e] /\ Plays(d) /\ dev[d].myTurn
      /\ dev'[d].link = dev[d].link /\ dev'[d].isHost = dev[d].isHost
      /\ dev'[d].sequence = dev[d].sequence + 1 /\ ~dev'[d].myTurn
      /\ out' = [out EXCEPT ![d] = [sequence |-> dev[d].sequence + 1, board |-> dev'[d].board,
                                    after |-> Len(notes[d])]]
  BY MoveSteps, OtherStays
<1>3. out'[d].sequence = dev[d].sequence + 1 /\ out'[e] = out[e]
  BY <1>1, <1>2 DEF Types
<1>4. TurnOf(d) /\ TurnOf(e)
  BY <1>1 DEF TurnInv
<1>5. /\ dev[d].sequence \in Nat /\ dev[e].sequence \in Nat
      /\ out[d].sequence \in Nat /\ out[e].sequence \in Nat
      /\ dev[d].isHost \in BOOLEAN /\ dev[e].isHost \in BOOLEAN
      /\ dev[d].myTurn \in BOOLEAN /\ dev[e].myTurn \in BOOLEAN
  BY <1>1, FieldTypes
<1>6. dev[d].sequence = dev[e].sequence /\ Mine(d)
  BY <1>2, <1>4 DEF TurnOf
<1>7. ~Mine(d)'
  BY <1>2, <1>5, <1>6, Parity DEF Mine
<1>8. ~Mine(e)
  BY <1>1, <1>4, <1>6 DEF TurnOf, Mine
<1>9. Plays(e) => ~dev[e].myTurn
  BY <1>4, <1>8 DEF TurnOf
<1>10. TurnOf(d)'
  BY <1>1, <1>2, <1>3, <1>4, <1>5, <1>6, <1>7 DEF TurnOf, Plays
<1>11. TurnOf(e)'
  BY <1>1, <1>2, <1>3, <1>4, <1>5, <1>6, <1>9 DEF TurnOf, Plays
<1> QED BY <1>1, <1>10, <1>11 DEF TurnInv

LEMMA TurnStep == Types /\ TurnInv /\ [Next]_vars => TurnInv'
<1> SUFFICES ASSUME Types, TurnInv, [Next]_vars PROVE TurnInv'
  OBVIOUS
<1>1. ASSUME NEW d \in Device, Pass(d) PROVE TurnInv'
  BY <1>1, PassSteps, TurnPass
<1>2. ASSUME NEW d \in Device, Move(d) PROVE TurnInv'
  BY <1>2, TurnMove
<1>3. ASSUME NEW d \in Device, NEW e \in Device, e = Other(d), TurnOf(d), TurnOf(e),
             out' = out, dev'[e] = dev[e],
             dev'[d].isHost = dev[d].isHost, dev'[d].sequence = dev[d].sequence,
             \/ dev'[d].link = dev[d].link /\ dev'[d].myTurn = dev[d].myTurn
             \/ dev'[d].link = "Off" /\ ~dev'[d].myTurn
      PROVE  TurnInv'
  <2>1. Other(e) = d /\ (\A c \in Device : c = d \/ c = e)
    BY <1>3, Pairs
  <2>2. TurnOf(d)' /\ TurnOf(e)'
    BY <1>3, <2>1 DEF TurnOf, Mine, Plays
  <2> QED BY <2>1, <2>2 DEF TurnInv
<1>4. ASSUME NEW d \in Device, ProposeRematch(d) PROVE TurnInv'
  <2>1. dev'[Other(d)] = dev[Other(d)] /\ out' = out
        /\ dev'[d].link = dev[d].link /\ dev'[d].isHost = dev[d].isHost
        /\ dev'[d].myTurn = dev[d].myTurn /\ dev'[d].sequence = dev[d].sequence
    <3>1. /\ dev' = [dev EXCEPT ![d] = dev'[d]] /\ out' = out
          /\ dev'[d].link = dev[d].link /\ dev'[d].isHost = dev[d].isHost
          /\ dev'[d].myTurn = dev[d].myTurn /\ dev'[d].sequence = dev[d].sequence
      BY <1>4, ProposeSteps
    <3> QED BY <3>1, OtherStays
  <2> QED BY <1>3, <2>1, Pairs DEF TurnInv
<1>5. ASSUME NEW d \in Device, LeaveLink(d) PROVE TurnInv'
  <2>1. dev'[Other(d)] = dev[Other(d)] /\ out' = out
        /\ dev'[d].link = "Off" /\ ~dev'[d].myTurn
        /\ dev'[d].isHost = dev[d].isHost /\ dev'[d].sequence = dev[d].sequence
    BY <1>5, LeaveSteps, OtherStays
  <2> QED BY <1>3, <2>1, Pairs DEF TurnInv
<1>6. CASE UNCHANGED vars
  BY <1>6 DEF vars, TurnInv, TurnOf, Mine, Plays
<1> QED BY <1>1, <1>2, <1>4, <1>5, <1>6 DEF Next

-----------------------------------------------------------------------------
(* Who has asked. *)
LEMMA ConsentInit == Init => ConsentInv
<1> SUFFICES ASSUME Init, NEW d \in Device PROVE NotesOf(d) /\ AnswersOf(d)
  BY DEF ConsentInv
<1>1. \A c \in Device : /\ dev[c].game = 1 /\ dev[c].heard = 0
                        /\ dev[c].you = "Deciding" /\ dev[c].them = "Deciding"
                        /\ notes[c] = <<>>
  BY DEF Init
<1>2. Len(notes[d]) = 0 /\ Len(notes[Other(d)]) = 0 /\ DOMAIN notes[d] = {}
  BY <1>1, Pairs
<1> QED BY <1>1, <1>2, RematchAssumption DEF NotesOf, AnswersOf

(* A note heard asks for, or answers to, the game this device is in. *)
LEMMA AskedIn ==
  ASSUME Types, NEW d \in Device, NotesOf(Other(d)), AnswersOf(d),
         NEW n \in DOMAIN notes[Other(d)], n > dev[d].heard,
         notes[Other(d)][n] = "PlayAgain"
  PROVE  dev[d].game <= n /\ dev[d].game \in asked[Other(d)]
<1> DEFINE e == Other(d)
           g == dev[d].game
<1>1. e \in Device /\ DOMAIN notes[e] = 1..Len(notes[e]) /\ Len(notes[e]) \in Nat
      /\ g \in Nat /\ dev[d].heard \in Nat /\ n \in Nat
  BY Pairs, NotesAre, FieldTypes
<1>2. g >= 1 /\ g <= n /\ g \in DOMAIN notes[e]
  BY <1>1 DEF AnswersOf
<1>3. notes[e][g] = "PlayAgain"
  <2>1. notes[e][g] \in Note
    BY <1>1, <1>2, NotesAre
  <2>2. CASE g = n
    BY <2>2
  <2>3. CASE g # n
    BY <1>1, <1>2, <2>1, <2>3 DEF NotesOf, Note
  <2> QED BY <2>2, <2>3
<1> QED BY <1>2, <1>3 DEF NotesOf

LEMMA ConsentPass ==
  ASSUME Types, NEW d \in Device, NotesOf(d), NotesOf(Other(d)),
         AnswersOf(d), AnswersOf(Other(d)), NEW board, NEW n, NEW link,
         PassFrom(d, board, n, link), PassTo(d, board, n, link)
  PROVE  /\ NotesOf(d)' /\ NotesOf(Other(d))'
         /\ AnswersOf(d)' /\ AnswersOf(Other(d))'
<1> DEFINE e == Other(d)
           r == dev[d]
           s == dev'[d]
<1>1. e \in Device /\ Other(e) = d
  BY Pairs
<1>2. /\ dev'[e] = dev[e] /\ notes' = notes /\ asked' = asked
      /\ s.link = link /\ s.heard = n
      /\ s.game = IF Starts(d, n) THEN r.game + 1 ELSE r.game
      /\ s.you = IF Starts(d, n) \/ Asks(d, n) \/ Offers(d, n) THEN "Deciding" ELSE r.you
  BY OtherStays DEF PassTo
<1>3. /\ r.link # "Off" /\ n \in Nat
      /\ link = "Playing" => Plays(d)
  BY DEF PassFrom, Plays
<1>4. /\ r.heard \in Nat /\ r.game \in Nat /\ Len(notes[d]) \in Nat /\ Len(notes[e]) \in Nat
      /\ DOMAIN notes[d] = 1..Len(notes[d]) /\ DOMAIN notes[e] = 1..Len(notes[e])
      /\ r.rematch \in BOOLEAN
  BY <1>1, FieldTypes, NotesAre
<1>5. Hears(d, n) => /\ n > r.heard /\ n \in DOMAIN notes[e]
                     /\ Starts(d, n) \/ Asks(d, n) \/ Leaves(d, n)
  BY DEF PassFrom
<1>6. Starts(d, n) => /\ r.you = "Ready" /\ ~Asks(d, n) /\ ~Offers(d, n)
                      /\ n > r.heard /\ r.game \in asked[e]
  <2>1. ASSUME Starts(d, n)
        PROVE  /\ r.you = "Ready" /\ ~Asks(d, n) /\ n > r.heard /\ r.game \in asked[e]
               /\ notes[e][n] = "PlayAgain"
    BY <1>5, <2>1, AskedIn DEF Starts, Asks
  <2>2. ASSUME Starts(d, n) PROVE ~Offers(d, n)
    BY <1>3, <2>1, <2>2 DEF Offers, AnswersOf
  <2> QED BY <2>1, <2>2
<1>7. Asks(d, n) => r.you # "Ready" /\ r.game <= n /\ r.game \in asked[e]
                    /\ notes[e][n] = "PlayAgain"
  BY <1>5, AskedIn DEF Asks
<1>8. Offers(d, n) => r.you # "Ready"
  BY <1>3 DEF Offers, AnswersOf
<1>9. NotesOf(d)'
  <2>1. link = "Playing" => Len(notes[d]) = IF s.you = "Ready" THEN s.game ELSE s.game - 1
    <3>1. CASE Starts(d, n)
      BY <1>2, <1>3, <1>4, <1>6, <3>1 DEF NotesOf
    <3>2. CASE ~Starts(d, n)
      BY <1>2, <1>3, <1>4, <1>7, <1>8, <3>2 DEF NotesOf
    <3> QED BY <3>1, <3>2
  <2>2. \A i \in DOMAIN notes[d] : notes[d][i] # "Leaving"
    BY <1>3 DEF NotesOf
  <2>3. r.game <= s.game
    BY <1>2, <1>4
  <2>4. s.game \in Nat
    BY <1>2, <1>4
  <2> QED BY <1>2, <1>4, <2>1, <2>2, <2>3, <2>4 DEF NotesOf, Plays
<1>10. NotesOf(e)'
  BY <1>1, <1>2 DEF NotesOf, Plays
<1>11. AnswersOf(e)'
  BY <1>1, <1>2 DEF AnswersOf
<1>12. AnswersOf(d)'
  <2>1. n <= Len(notes[e]) /\ n >= r.heard
    <3>1. CASE Hears(d, n)
      BY <1>4, <1>5, <3>1
    <3>2. CASE ~Hears(d, n)
      BY <1>4, <3>2 DEF Hears, AnswersOf
    <3> QED BY <3>1, <3>2
  <2>2. s.you = "Ready" => /\ s.game \in asked[d]
                           /\ s.link # "Off" => s.rematch
    <3>1. s.rematch <=> \/ link \in {"OpponentLeft", "OpponentLost"}
                        \/ Leaves(d, n) \/ Asks(d, n) \/ s.stage = "Offer"
                        \/ r.rematch /\ ~Starts(d, n)
      BY DEF PassTo
    <3> QED BY <1>2, <1>3, <3>1 DEF AnswersOf
  <2>3. s.game >= 1 /\ s.game <= n + 1
    <3>1. CASE Starts(d, n)
      BY <1>2, <1>3, <1>4, <1>6, <3>1 DEF AnswersOf
    <3>2. CASE ~Starts(d, n)
      BY <1>2, <1>3, <1>4, <2>1, <3>2 DEF AnswersOf
    <3> QED BY <3>1, <3>2
  <2>4. ASSUME s.them = "Ready"
        PROVE  /\ s.game <= n /\ s.game \in asked[e] /\ notes[e][n] = "PlayAgain"
               /\ link \in {"Playing", "Off"}
    <3>1. s.them = CASE link = "OpponentLeft" -> "Left"
                     [] link = "OpponentLost" -> "Lost"
                     [] link = "Playing" /\ Leaves(d, n) -> "Left"
                     [] link = "Playing" /\ Asks(d, n) -> "Ready"
                     [] link = "Playing" /\ (Starts(d, n) \/ Offers(d, n)) -> "Deciding"
                     [] OTHER -> r.them
      BY DEF PassTo
    <3>2. link = "Playing"
      BY <2>4, <3>1 DEF PassFrom, Link
    <3>3. CASE Asks(d, n)
      <4>1. ~Starts(d, n)
        BY <3>3 DEF Asks, Starts
      <4> QED BY <1>2, <1>7, <3>2, <3>3, <4>1
    <3>4. CASE ~Asks(d, n)
      <4>1. ~Leaves(d, n) /\ ~Starts(d, n) /\ r.them = "Ready"
        BY <2>4, <3>1, <3>2, <3>4
      <4>2. n = r.heard
        BY <1>5, <3>4, <4>1 DEF Hears
      <4> QED BY <1>2, <3>2, <4>1, <4>2 DEF AnswersOf
    <3> QED BY <3>3, <3>4
  <2>5. \A g \in 1..(s.game - 1) : g \in asked[d] /\ g \in asked[e]
    <3>1. CASE Starts(d, n)
      <4>1. s.game - 1 = r.game /\ r.game \in asked[d] /\ r.game \in asked[e]
        BY <1>2, <1>4, <1>6, <3>1 DEF AnswersOf
      <4>2. \A g \in 1..r.game : g = r.game \/ g \in 1..(r.game - 1)
        BY <1>4
      <4> QED BY <4>1, <4>2 DEF AnswersOf
    <3>2. CASE ~Starts(d, n)
      BY <1>2, <3>2 DEF AnswersOf
    <3> QED BY <3>1, <3>2
  <2> QED BY <1>2, <2>1, <2>2, <2>3, <2>4, <2>5 DEF AnswersOf
<1> QED BY <1>9, <1>10, <1>11, <1>12

LEMMA ConsentMove ==
  ASSUME Types, NEW d \in Device, NotesOf(d), NotesOf(Other(d)),
         AnswersOf(d), AnswersOf(Other(d)), Move(d)
  PROVE  /\ NotesOf(d)' /\ NotesOf(Other(d))'
         /\ AnswersOf(d)' /\ AnswersOf(Other(d))'
<1>1. Other(d) \in Device /\ Other(Other(d)) = d
  BY Pairs
<1>2. /\ dev'[Other(d)] = dev[Other(d)] /\ notes' = notes /\ asked' = asked
      /\ dev'[d].link = dev[d].link /\ dev'[d].heard = dev[d].heard
      /\ dev'[d].rematch = dev[d].rematch /\ dev'[d].you = dev[d].you
      /\ dev'[d].them = dev[d].them /\ dev'[d].game = dev[d].game
  BY MoveSteps, OtherStays
<1> QED BY <1>1, <1>2 DEF NotesOf, AnswersOf, Plays

(* A note of d and a yes of d leave what is known of the other alone. *)
LEMMA ConsentOther ==
  ASSUME Types, NEW d \in Device, NotesOf(Other(d)), AnswersOf(Other(d)),
         dev'[Other(d)] = dev[Other(d)], notes'[Other(d)] = notes[Other(d)],
         asked'[Other(d)] = asked[Other(d)], asked[d] \subseteq asked'[d],
         \/ notes' = notes
         \/ /\ Len(notes'[d]) = Len(notes[d]) + 1
            /\ \A i \in 1..Len(notes[d]) : notes'[d][i] = notes[d][i]
  PROVE  NotesOf(Other(d))' /\ AnswersOf(Other(d))'
<1> DEFINE e == Other(d)
<1>1. e \in Device /\ Other(e) = d
  BY Pairs
<1>2. NotesOf(e)'
  BY <1>1 DEF NotesOf, Plays
<1>3. dev[e].heard \in Nat /\ dev[e].game \in Nat /\ Len(notes[d]) \in Nat
  BY <1>1, FieldTypes, NotesAre
<1>4. dev[e].heard <= Len(notes'[d])
  BY <1>1, <1>3 DEF AnswersOf
<1>5. dev[e].them = "Ready" => notes'[d][dev[e].heard] = "PlayAgain"
  <2>1. dev[e].them = "Ready" => dev[e].heard \in 1..Len(notes[d])
    BY <1>1, <1>3 DEF AnswersOf
  <2> QED BY <1>1, <2>1 DEF AnswersOf
<1>6. AnswersOf(e)'
  BY <1>1, <1>4, <1>5 DEF AnswersOf
<1> QED BY <1>2, <1>6

LEMMA ConsentPropose ==
  ASSUME Types, NEW d \in Device, NotesOf(d), NotesOf(Other(d)),
         AnswersOf(d), AnswersOf(Other(d)), ProposeRematch(d), usage # "tapsTwice"
  PROVE  /\ NotesOf(d)' /\ NotesOf(Other(d))'
         /\ AnswersOf(d)' /\ AnswersOf(Other(d))'
<1> DEFINE e == Other(d)
           r == dev[d]
           s == dev'[d]
<1>1. e \in Device /\ Other(e) = d /\ e # d
  BY Pairs
<1>2. /\ CanAsk(r) /\ Len(notes[d]) < MaxNotes /\ Say(d, "PlayAgain")
      /\ dev'[e] = dev[e] /\ asked' = [asked EXCEPT ![d] = @ \cup {r.game}]
      /\ s.link = r.link /\ s.heard = r.heard
      /\ Agrees(d) => /\ s.game = r.game + 1 /\ s.you = "Deciding" /\ s.them = "Deciding"
      /\ ~Agrees(d) => /\ s.game = r.game /\ s.rematch /\ s.you = "Ready"
                       /\ s.them \in {"Left", "Lost", "Deciding"}
  <2>1. /\ CanAsk(r) /\ Len(notes[d]) < MaxNotes /\ Say(d, "PlayAgain")
        /\ dev' = [dev EXCEPT ![d] = s] /\ asked' = [asked EXCEPT ![d] = @ \cup {r.game}]
        /\ s.link = r.link /\ s.heard = r.heard
    BY ProposeSteps
  <2>2. Agrees(d) => /\ s.game = r.game + 1 /\ s.you = "Deciding" /\ s.them = "Deciding"
    BY ProposeSteps
  <2>3. ~Agrees(d) => /\ s.game = r.game /\ s.rematch /\ s.you = "Ready"
                      /\ s.them = IF r.them \in {"Left", "Lost"} THEN r.them ELSE "Deciding"
    BY ProposeSteps
  <2>4. dev'[e] = dev[e]
    BY <2>1, OtherStays
  <2> QED BY <2>1, <2>2, <2>3, <2>4
<1>3. asked'[d] = asked[d] \cup {r.game} /\ asked'[e] = asked[e]
  BY <1>1, <1>2 DEF Types
<1>4. /\ r.link # "Off" /\ r.you # "Ready"
  <2>1. r.link # "Off" /\ ~(r.rematch /\ r.you = "Ready")
    BY <1>2 DEF CanAsk
  <2> QED BY <2>1 DEF AnswersOf
<1>5. /\ r.heard \in Nat /\ r.game \in Nat /\ Len(notes[d]) \in Nat /\ Len(notes[e]) \in Nat
      /\ DOMAIN notes[d] = 1..Len(notes[d]) /\ MaxNotes \in Nat
  BY <1>1, FieldTypes, NotesAre, RematchAssumption
<1>6. /\ notes'[e] = notes[e]
      /\ ~Plays(d) => notes' = notes
      /\ Plays(d) => /\ Len(notes'[d]) = Len(notes[d]) + 1
                     /\ DOMAIN notes'[d] = 1..(Len(notes[d]) + 1)
                     /\ \A i \in 1..Len(notes[d]) : notes'[d][i] = notes[d][i]
                     /\ notes'[d][Len(notes[d]) + 1] = "PlayAgain"
  <2>1. "PlayAgain" \in Note
    BY DEF Note
  <2> QED BY <1>2, <2>1, SaySteps
<1>7. NotesOf(e)' /\ AnswersOf(e)'
  <2>1. \/ notes' = notes
        \/ /\ Len(notes'[d]) = Len(notes[d]) + 1
           /\ \A i \in 1..Len(notes[d]) : notes'[d][i] = notes[d][i]
    BY <1>6
  <2> QED BY <1>2, <1>3, <1>6, <2>1, ConsentOther
<1>8. r.game <= s.game /\ s.game \in Nat
  BY <1>2, <1>5
<1>9. NotesOf(d)'
  <2>1. CASE Plays(d)
    <3>1. Len(notes[d]) = r.game - 1
      BY <1>4, <2>1 DEF NotesOf
    <3>2. Len(notes'[d]) = IF s.you = "Ready" THEN s.game ELSE s.game - 1
      BY <1>2, <1>5, <1>6, <2>1, <3>1
    <3>3. Len(notes'[d]) <= MaxNotes
      BY <1>2, <1>5, <1>6, <2>1
    <3>4. \A i \in DOMAIN notes'[d] : /\ notes'[d][i] # "Leaving"
                                      /\ notes'[d][i] = "PlayAgain" => i \in asked'[d] /\ i <= s.game
      <4>1. SUFFICES ASSUME NEW i \in 1..(Len(notes[d]) + 1)
                     PROVE  /\ notes'[d][i] # "Leaving"
                            /\ notes'[d][i] = "PlayAgain" => i \in asked'[d] /\ i <= s.game
        BY <1>6, <2>1
      <4>2. CASE i = Len(notes[d]) + 1
        <5>1. i = r.game
          BY <1>5, <3>1, <4>2
        <5> QED BY <1>3, <1>6, <1>8, <2>1, <4>2, <5>1
      <4>3. CASE i # Len(notes[d]) + 1
        <5>1. i \in 1..Len(notes[d])
          BY <1>5, <4>3
        <5>2. notes'[d][i] = notes[d][i]
          BY <1>6, <2>1, <5>1
        <5> QED BY <1>3, <1>4, <1>5, <1>8, <5>1, <5>2 DEF NotesOf
      <4> QED BY <4>2, <4>3
    <3> QED BY <1>2, <2>1, <3>2, <3>3, <3>4 DEF NotesOf, Plays
  <2>2. CASE ~Plays(d)
    BY SMTT(20), <1>2, <1>3, <1>4, <1>5, <1>6, <1>8, <2>2 DEF NotesOf, Plays
  <2> QED BY <2>1, <2>2
<1>10. AnswersOf(d)'
  <2>1. s.heard <= Len(notes'[e])
    BY <1>2, <1>6 DEF AnswersOf
  <2>2. s.you = "Ready" => s.game \in asked'[d] /\ s.rematch
    BY <1>2, <1>3
  <2>3. s.game >= 1 /\ s.game <= s.heard + 1
    <3>1. CASE Agrees(d)
      BY <1>2, <1>5, <3>1 DEF AnswersOf, Agrees, TheyAlreadyAgreed
    <3>2. CASE ~Agrees(d)
      BY <1>2, <1>5, <3>2 DEF AnswersOf
    <3> QED BY <3>1, <3>2
  <2>4. s.them # "Ready"
    BY <1>2
  <2>5. \A g \in 1..(s.game - 1) : g \in asked'[d] /\ g \in asked'[e]
    <3>1. CASE Agrees(d)
      <4>1. s.game - 1 = r.game /\ r.game \in asked'[d] /\ r.game \in asked'[e]
        BY <1>2, <1>3, <1>5, <3>1 DEF AnswersOf, Agrees, TheyAlreadyAgreed
      <4>2. \A g \in 1..r.game : g = r.game \/ g \in 1..(r.game - 1)
        BY <1>5
      <4> QED BY <1>3, <4>1, <4>2 DEF AnswersOf
    <3>2. CASE ~Agrees(d)
      BY <1>2, <1>3, <3>2 DEF AnswersOf
    <3> QED BY <3>1, <3>2
  <2> QED BY <2>1, <2>2, <2>3, <2>4, <2>5 DEF AnswersOf
<1> QED BY <1>7, <1>9, <1>10

LEMMA ConsentLeave ==
  ASSUME Types, NEW d \in Device, NotesOf(d), NotesOf(Other(d)),
         AnswersOf(d), AnswersOf(Other(d)), LeaveLink(d)
  PROVE  /\ NotesOf(d)' /\ NotesOf(Other(d))'
         /\ AnswersOf(d)' /\ AnswersOf(Other(d))'
<1> DEFINE e == Other(d)
           r == dev[d]
           s == dev'[d]
<1>1. e \in Device /\ Other(e) = d /\ e # d
  BY Pairs
<1>2. /\ r.link # "Off" /\ (r.rematch => Len(notes[d]) < MaxNotes)
      /\ IF r.rematch THEN Say(d, "Leaving") ELSE UNCHANGED notes
      /\ dev'[e] = dev[e] /\ asked' = asked
      /\ s.link = "Off" /\ s.heard = r.heard /\ s.game = r.game
      /\ s.you = r.you /\ s.them = r.them
  BY LeaveSteps, OtherStays
<1>3. /\ r.game \in Nat /\ Len(notes[d]) \in Nat /\ DOMAIN notes[d] = 1..Len(notes[d])
      /\ MaxNotes \in Nat
  BY FieldTypes, NotesAre, RematchAssumption
<1>4. CASE notes' = notes
  <2>1. NotesOf(e)' /\ AnswersOf(e)'
    BY <1>2, <1>4, ConsentOther
  <2> QED BY <1>1, <1>2, <1>4, <2>1 DEF NotesOf, AnswersOf, Plays
<1>5. CASE notes' # notes
  <2>1. Say(d, "Leaving") /\ r.rematch
    BY <1>2, <1>5
  <2>2. "Leaving" \in Note
    BY DEF Note
  <2>3. /\ Plays(d) /\ notes'[e] = notes[e]
        /\ Len(notes'[d]) = Len(notes[d]) + 1
        /\ DOMAIN notes'[d] = 1..(Len(notes[d]) + 1)
        /\ \A i \in 1..Len(notes[d]) : notes'[d][i] = notes[d][i]
        /\ notes'[d][Len(notes[d]) + 1] = "Leaving"
    BY <1>5, <2>1, <2>2, SaySteps
  <2>4. NotesOf(e)' /\ AnswersOf(e)'
    BY <1>2, <2>3, ConsentOther
  <2>5. r.game <= Len(notes[d]) + 1
    BY <1>3, <2>3 DEF NotesOf
  <2>6. NotesOf(d)'
    <3>1. \A i \in DOMAIN notes'[d] :
            /\ notes'[d][i] = "PlayAgain" => i \in asked[d] /\ i <= r.game
            /\ notes'[d][i] = "Leaving" => i = Len(notes'[d]) /\ r.game <= i
      <4>1. SUFFICES ASSUME NEW i \in 1..(Len(notes[d]) + 1)
                     PROVE  /\ notes'[d][i] = "PlayAgain" => i \in asked[d] /\ i <= r.game
                            /\ notes'[d][i] = "Leaving" => i = Len(notes'[d]) /\ r.game <= i
        BY <2>3
      <4>2. CASE i = Len(notes[d]) + 1
        BY <2>3, <2>5, <4>2
      <4>3. CASE i # Len(notes[d]) + 1
        <5>1. i \in 1..Len(notes[d])
          BY <1>3, <4>3
        <5> QED BY <1>2, <1>3, <2>3, <5>1 DEF NotesOf
      <4> QED BY <4>2, <4>3
    <3>2. Len(notes'[d]) <= MaxNotes
      BY <1>2, <1>3, <2>1, <2>3
    <3> QED BY <1>2, <3>1, <3>2 DEF NotesOf, Plays
  <2>7. AnswersOf(d)'
    BY <1>1, <1>2, <2>3 DEF AnswersOf
  <2> QED BY <2>4, <2>6, <2>7
<1> QED BY <1>4, <1>5

LEMMA ConsentStep == Types /\ ConsentInv /\ [Next]_vars => ConsentInv'
<1> SUFFICES ASSUME Types, ConsentInv, [Next]_vars, usage' # "tapsTwice"
             PROVE  \A c \in Device : NotesOf(c)' /\ AnswersOf(c)'
  BY DEF ConsentInv
<1>1. usage' = usage
  <2>1. ASSUME NEW d \in Device, Pass(d) PROVE usage' = usage
    BY <2>1, PassSteps DEF PassTo
  <2> QED BY <2>1 DEF Next, Move, ProposeRematch, LeaveLink, vars
<1>2. \A c \in Device : NotesOf(c) /\ AnswersOf(c)
  BY <1>1 DEF ConsentInv
<1>3. ASSUME NEW d \in Device,
             NotesOf(d)' /\ NotesOf(Other(d))' /\ AnswersOf(d)' /\ AnswersOf(Other(d))'
      PROVE  \A c \in Device : NotesOf(c)' /\ AnswersOf(c)'
  BY <1>3, Pairs
<1>4. ASSUME NEW d \in Device, Pass(d)
      PROVE  \A c \in Device : NotesOf(c)' /\ AnswersOf(c)'
  BY <1>2, <1>3, <1>4, Pairs, PassSteps, ConsentPass
<1>5. ASSUME NEW d \in Device, Move(d)
      PROVE  \A c \in Device : NotesOf(c)' /\ AnswersOf(c)'
  BY <1>2, <1>3, <1>5, Pairs, ConsentMove
<1>6. ASSUME NEW d \in Device, ProposeRematch(d)
      PROVE  \A c \in Device : NotesOf(c)' /\ AnswersOf(c)'
  BY <1>1, <1>2, <1>3, <1>6, Pairs, ConsentPropose
<1>7. ASSUME NEW d \in Device, LeaveLink(d)
      PROVE  \A c \in Device : NotesOf(c)' /\ AnswersOf(c)'
  BY <1>2, <1>3, <1>7, Pairs, ConsentLeave
<1>8. CASE UNCHANGED vars
  BY <1>2, <1>8 DEF vars, NotesOf, AnswersOf, Plays
<1> QED BY <1>4, <1>5, <1>6, <1>7, <1>8 DEF Next

(* However often PLAY AGAIN is pressed. *)
LEMMA OwnInit == Init => OwnInv
<1> SUFFICES ASSUME Init, NEW d \in Device PROVE GoesLast(d) /\ OwnOf(d)
  BY DEF OwnInv
<1>1. \A c \in Device : /\ dev[c].game = 1 /\ dev[c].heard = 0
                        /\ dev[c].you = "Deciding" /\ dev[c].them = "Deciding"
                        /\ notes[c] = <<>>
  BY DEF Init
<1>2. Len(notes[Other(d)]) = 0 /\ DOMAIN notes[d] = {}
  BY <1>1, Pairs
<1> QED BY <1>1, <1>2 DEF GoesLast, OwnOf

(* The note for the game a device is in is a yes, once a later one is.     *)
LEMMA YesFor ==
  ASSUME Types, NEW d \in Device, GoesLast(Other(d)), OwnOf(d),
         NEW n \in DOMAIN notes[Other(d)], notes[Other(d)][n] = "PlayAgain", dev[d].game <= n
  PROVE  notes[Other(d)][dev[d].game] = "PlayAgain"
<1>1. /\ DOMAIN notes[Other(d)] = 1..Len(notes[Other(d)]) /\ Len(notes[Other(d)]) \in Nat
      /\ dev[d].game \in Nat /\ n \in Nat
  BY Pairs, NotesAre, FieldTypes
<1>2. dev[d].game \in DOMAIN notes[Other(d)]
  BY <1>1 DEF OwnOf
<1>3. notes[Other(d)][dev[d].game] \in Note
  BY <1>2, Pairs, NotesAre
<1> QED BY <1>1, <1>2, <1>3 DEF GoesLast, Note

LEMMA OwnPass ==
  ASSUME Types, NEW d \in Device, GoesLast(d), GoesLast(Other(d)), OwnOf(d), OwnOf(Other(d)),
         NEW board, NEW n, NEW link, PassFrom(d, board, n, link), PassTo(d, board, n, link)
  PROVE  /\ GoesLast(d)' /\ GoesLast(Other(d))'
         /\ OwnOf(d)' /\ OwnOf(Other(d))'
<1> DEFINE e == Other(d)
           r == dev[d]
           s == dev'[d]
<1>1. e \in Device /\ Other(e) = d
  BY Pairs
<1>2. /\ dev'[e] = dev[e] /\ notes' = notes /\ asked' = asked
      /\ s.link = link /\ s.heard = n /\ r.link # "Off"
      /\ s.game = IF Starts(d, n) THEN r.game + 1 ELSE r.game
      /\ s.you = IF Starts(d, n) \/ Asks(d, n) \/ Offers(d, n) THEN "Deciding" ELSE r.you
  BY OtherStays DEF PassTo, PassFrom
<1>3. /\ r.heard \in Nat /\ r.game \in Nat /\ n \in Nat /\ Len(notes[e]) \in Nat
      /\ DOMAIN notes[e] = 1..Len(notes[e])
  BY <1>1, FieldTypes, NotesAre DEF PassFrom
<1>4. GoesLast(d)' /\ GoesLast(e)' /\ OwnOf(e)'
  BY <1>1, <1>2 DEF GoesLast, OwnOf
<1>5. Hears(d, n) => /\ n > r.heard /\ n \in DOMAIN notes[e]
                     /\ Starts(d, n) \/ Asks(d, n) \/ Leaves(d, n)
  BY DEF PassFrom
<1>6. n >= r.heard /\ n <= Len(notes[e])
  <2>1. CASE Hears(d, n)
    BY <1>3, <1>5, <2>1
  <2>2. CASE ~Hears(d, n)
    BY <1>3, <2>2 DEF Hears, OwnOf
  <2> QED BY <2>1, <2>2
<1>7. Starts(d, n) \/ Asks(d, n) => r.game <= n /\ n \in DOMAIN notes[e] /\ notes[e][n] = "PlayAgain"
  BY <1>3, <1>5 DEF Starts, Asks, OwnOf
<1>8. Starts(d, n) => r.game \in asked[d] /\ notes[e][r.game] = "PlayAgain"
  BY <1>1, <1>7, YesFor DEF Starts, OwnOf
<1>9. OwnOf(d)'
  <2>1. s.you = "Ready" => s.game \in asked[d]
    BY <1>2 DEF OwnOf
  <2>2. s.game >= 1 /\ s.game <= n + 1
    BY <1>2, <1>3, <1>6, <1>7 DEF OwnOf
  <2>3. ASSUME s.them = "Ready" PROVE s.game <= n /\ notes[e][n] = "PlayAgain"
    <3>1. s.them = CASE link = "OpponentLeft" -> "Left"
                     [] link = "OpponentLost" -> "Lost"
                     [] link = "Playing" /\ Leaves(d, n) -> "Left"
                     [] link = "Playing" /\ Asks(d, n) -> "Ready"
                     [] link = "Playing" /\ (Starts(d, n) \/ Offers(d, n)) -> "Deciding"
                     [] OTHER -> r.them
      BY DEF PassTo
    <3>2. link = "Playing"
      BY <2>3, <3>1 DEF PassFrom, Link
    <3>3. CASE Asks(d, n)
      <4>1. ~Starts(d, n)
        BY <3>3 DEF Asks, Starts
      <4> QED BY <1>2, <1>7, <3>3, <4>1
    <3>4. CASE ~Asks(d, n)
      <4>1. ~Leaves(d, n) /\ ~Starts(d, n) /\ r.them = "Ready"
        BY <2>3, <3>1, <3>2, <3>4
      <4>2. n = r.heard
        BY <1>5, <3>4, <4>1 DEF Hears
      <4> QED BY <1>2, <4>1, <4>2 DEF OwnOf
    <3> QED BY <3>3, <3>4
  <2>4. \A g \in 1..(s.game - 1) : g \in asked[d] /\ notes[e][g] = "PlayAgain"
    <3>1. CASE Starts(d, n)
      <4>1. \A g \in 1..(s.game - 1) : g = r.game \/ g \in 1..(r.game - 1)
        BY <1>2, <1>3, <3>1
      <4> QED BY <1>8, <3>1, <4>1 DEF OwnOf
    <3>2. CASE ~Starts(d, n)
      BY <1>2, <3>2 DEF OwnOf
    <3> QED BY <3>1, <3>2
  <2> QED BY <1>2, <1>6, <2>1, <2>2, <2>3, <2>4 DEF OwnOf
<1> QED BY <1>4, <1>9

(* A note of d, said last, or a yes of d. *)
LEMMA OwnSays ==
  ASSUME Types, NEW d \in Device, GoesLast(d), GoesLast(Other(d)), OwnOf(Other(d)),
         dev'[Other(d)] = dev[Other(d)], notes'[Other(d)] = notes[Other(d)],
         asked'[Other(d)] = asked[Other(d)],
         NEW note, dev'[d].link = dev[d].link \/ dev'[d].link = "Off",
         note = "Leaving" => dev'[d].link = "Off",
         \/ notes' = notes
         \/ /\ Plays(d)
            /\ Len(notes'[d]) = Len(notes[d]) + 1
            /\ DOMAIN notes'[d] = 1..(Len(notes[d]) + 1)
            /\ \A i \in 1..Len(notes[d]) : notes'[d][i] = notes[d][i]
            /\ notes'[d][Len(notes[d]) + 1] = note
  PROVE  GoesLast(d)' /\ GoesLast(Other(d))' /\ OwnOf(Other(d))'
<1> DEFINE e == Other(d)
<1>1. e \in Device /\ Other(e) = d
  BY Pairs
<1>2. /\ dev[e].heard \in Nat /\ dev[e].game \in Nat /\ Len(notes[d]) \in Nat
      /\ DOMAIN notes[d] = 1..Len(notes[d])
  BY <1>1, FieldTypes, NotesAre
<1>3. GoesLast(e)'
  BY <1>1 DEF GoesLast
<1>4. CASE notes' = notes
  BY <1>1, <1>3, <1>4 DEF GoesLast, OwnOf
<1>5. CASE notes' # notes
  <2>1. /\ Plays(d)
        /\ Len(notes'[d]) = Len(notes[d]) + 1
        /\ DOMAIN notes'[d] = 1..(Len(notes[d]) + 1)
        /\ \A i \in 1..Len(notes[d]) : notes'[d][i] = notes[d][i]
        /\ notes'[d][Len(notes[d]) + 1] = note
    BY <1>5
  <2>2. GoesLast(d)'
    <3>1. ASSUME NEW i \in 1..Len(notes[d]) PROVE notes'[d][i] # "Leaving"
      BY <1>2, <2>1 DEF GoesLast, Plays
    <3>2. \A i \in 1..(Len(notes[d]) + 1) : i \in 1..Len(notes[d]) \/ i = Len(notes[d]) + 1
      BY <1>2
    <3> QED BY <2>1, <3>1, <3>2 DEF GoesLast
  <2>3. dev[e].heard <= Len(notes'[d])
    BY <1>1, <1>2, <2>1 DEF OwnOf
  <2>4. dev[e].them = "Ready" => notes'[d][dev[e].heard] = "PlayAgain"
    <3>1. dev[e].them = "Ready" => dev[e].heard \in 1..Len(notes[d])
      BY <1>1, <1>2 DEF OwnOf
    <3> QED BY <1>1, <2>1, <3>1 DEF OwnOf
  <2>5. \A g \in 1..(dev[e].game - 1) : notes'[d][g] = "PlayAgain"
    <3>1. \A g \in 1..(dev[e].game - 1) : g \in 1..Len(notes[d])
      BY <1>1, <1>2 DEF OwnOf
    <3> QED BY <1>1, <2>1, <3>1 DEF OwnOf
  <2> QED BY <1>1, <1>3, <2>2, <2>3, <2>4, <2>5 DEF OwnOf
<1> QED BY <1>4, <1>5

LEMMA OwnPropose ==
  ASSUME Types, NEW d \in Device, GoesLast(d), GoesLast(Other(d)), OwnOf(d), OwnOf(Other(d)),
         ProposeRematch(d)
  PROVE  /\ GoesLast(d)' /\ GoesLast(Other(d))'
         /\ OwnOf(d)' /\ OwnOf(Other(d))'
<1> DEFINE e == Other(d)
           r == dev[d]
           s == dev'[d]
<1>1. e \in Device /\ Other(e) = d /\ e # d
  BY Pairs
<1>2. /\ Say(d, "PlayAgain") /\ asked' = [asked EXCEPT ![d] = @ \cup {r.game}]
      /\ dev'[e] = dev[e] /\ s.link = r.link /\ s.heard = r.heard
      /\ Agrees(d) => /\ s.game = r.game + 1 /\ s.you = "Deciding" /\ s.them = "Deciding"
      /\ ~Agrees(d) => /\ s.game = r.game /\ s.them \in {"Left", "Lost", "Deciding"}
  <2>1. /\ Say(d, "PlayAgain") /\ asked' = [asked EXCEPT ![d] = @ \cup {r.game}]
        /\ dev' = [dev EXCEPT ![d] = s] /\ s.link = r.link /\ s.heard = r.heard
    BY ProposeSteps
  <2>2. Agrees(d) => /\ s.game = r.game + 1 /\ s.you = "Deciding" /\ s.them = "Deciding"
    BY ProposeSteps
  <2>3. ~Agrees(d) => /\ s.game = r.game
                      /\ s.them = IF r.them \in {"Left", "Lost"} THEN r.them ELSE "Deciding"
    BY ProposeSteps
  <2>4. dev'[e] = dev[e]
    BY <2>1, OtherStays
  <2> QED BY <2>1, <2>2, <2>3, <2>4
<1>3. asked'[d] = asked[d] \cup {r.game} /\ asked'[e] = asked[e]
  BY <1>1, <1>2 DEF Types
<1>4. /\ r.heard \in Nat /\ r.game \in Nat /\ Len(notes[e]) \in Nat
      /\ DOMAIN notes[e] = 1..Len(notes[e])
  BY <1>1, FieldTypes, NotesAre
<1>5. /\ notes'[e] = notes[e]
      /\ ~Plays(d) => notes' = notes
      /\ Plays(d) => /\ Len(notes'[d]) = Len(notes[d]) + 1
                     /\ DOMAIN notes'[d] = 1..(Len(notes[d]) + 1)
                     /\ \A i \in 1..Len(notes[d]) : notes'[d][i] = notes[d][i]
                     /\ notes'[d][Len(notes[d]) + 1] = "PlayAgain"
  <2>1. "PlayAgain" \in Note
    BY DEF Note
  <2> QED BY <1>2, <2>1, SaySteps
<1>6. GoesLast(d)' /\ GoesLast(e)' /\ OwnOf(e)'
  BY <1>2, <1>3, <1>5, OwnSays
<1>7. Agrees(d) => r.game <= r.heard /\ notes[e][r.game] = "PlayAgain"
  <2>1. Agrees(d) => /\ r.game <= r.heard /\ r.heard \in DOMAIN notes[e]
                     /\ notes[e][r.heard] = "PlayAgain"
    BY <1>4 DEF Agrees, TheyAlreadyAgreed, OwnOf
  <2> QED BY <2>1, YesFor
<1>8. OwnOf(d)'
  <2>1. s.you = "Ready" => s.game \in asked'[d]
    BY <1>2, <1>3
  <2>2. s.game >= 1 /\ s.game <= s.heard + 1 /\ s.heard <= Len(notes'[e])
    BY <1>2, <1>4, <1>5, <1>7 DEF OwnOf
  <2>3. \A g \in 1..(s.game - 1) : g \in asked'[d] /\ notes'[e][g] = "PlayAgain"
    <3>1. CASE Agrees(d)
      <4>1. \A g \in 1..(s.game - 1) : g = r.game \/ g \in 1..(r.game - 1)
        BY <1>2, <1>4, <3>1
      <4> QED BY <1>3, <1>5, <1>7, <3>1, <4>1 DEF OwnOf
    <3>2. CASE ~Agrees(d)
      BY <1>2, <1>3, <1>5, <3>2 DEF OwnOf
    <3> QED BY <3>1, <3>2
  <2>4. s.them # "Ready"
    BY <1>2
  <2> QED BY <2>1, <2>2, <2>3, <2>4 DEF OwnOf
<1> QED BY <1>6, <1>8

LEMMA OwnLeave ==
  ASSUME Types, NEW d \in Device, GoesLast(d), GoesLast(Other(d)), OwnOf(d), OwnOf(Other(d)),
         LeaveLink(d)
  PROVE  /\ GoesLast(d)' /\ GoesLast(Other(d))'
         /\ OwnOf(d)' /\ OwnOf(Other(d))'
<1> DEFINE e == Other(d)
           r == dev[d]
           s == dev'[d]
<1>1. /\ IF r.rematch THEN Say(d, "Leaving") ELSE UNCHANGED notes
      /\ dev'[e] = dev[e] /\ asked' = asked
      /\ s.link = "Off" /\ s.heard = r.heard /\ s.game = r.game
      /\ s.you = r.you /\ s.them = r.them
  BY LeaveSteps, OtherStays
<1>2. /\ notes'[e] = notes[e]
      /\ \/ notes' = notes
         \/ /\ Plays(d)
            /\ Len(notes'[d]) = Len(notes[d]) + 1
            /\ DOMAIN notes'[d] = 1..(Len(notes[d]) + 1)
            /\ \A i \in 1..Len(notes[d]) : notes'[d][i] = notes[d][i]
            /\ notes'[d][Len(notes[d]) + 1] = "Leaving"
  <2>1. "Leaving" \in Note
    BY DEF Note
  <2> QED BY <1>1, <2>1, SaySteps
<1>3. GoesLast(d)' /\ GoesLast(e)' /\ OwnOf(e)'
  BY <1>1, <1>2, OwnSays
<1>4. OwnOf(d)'
  BY <1>1, <1>2 DEF OwnOf
<1> QED BY <1>3, <1>4

LEMMA OwnStep == Types /\ OwnInv /\ [Next]_vars => OwnInv'
<1> SUFFICES ASSUME Types, OwnInv, [Next]_vars PROVE \A c \in Device : GoesLast(c)' /\ OwnOf(c)'
  BY DEF OwnInv
<1>1. \A c \in Device : GoesLast(c) /\ OwnOf(c)
  BY DEF OwnInv
<1>2. ASSUME NEW d \in Device,
             GoesLast(d)' /\ GoesLast(Other(d))' /\ OwnOf(d)' /\ OwnOf(Other(d))'
      PROVE  \A c \in Device : GoesLast(c)' /\ OwnOf(c)'
  BY <1>2, Pairs
<1>3. ASSUME NEW d \in Device, Pass(d)
      PROVE  \A c \in Device : GoesLast(c)' /\ OwnOf(c)'
  BY <1>1, <1>2, <1>3, Pairs, PassSteps, OwnPass
<1>4. ASSUME NEW d \in Device, Move(d)
      PROVE  \A c \in Device : GoesLast(c)' /\ OwnOf(c)'
  <2>1. /\ dev'[Other(d)] = dev[Other(d)] /\ notes' = notes /\ asked' = asked
        /\ dev'[d].link = dev[d].link /\ dev'[d].heard = dev[d].heard
        /\ dev'[d].you = dev[d].you /\ dev'[d].them = dev[d].them /\ dev'[d].game = dev[d].game
    BY <1>4, MoveSteps, OtherStays
  <2> QED BY <1>1, <2>1, Pairs DEF GoesLast, OwnOf
<1>5. ASSUME NEW d \in Device, ProposeRematch(d)
      PROVE  \A c \in Device : GoesLast(c)' /\ OwnOf(c)'
  BY <1>1, <1>2, <1>5, Pairs, OwnPropose
<1>6. ASSUME NEW d \in Device, LeaveLink(d)
      PROVE  \A c \in Device : GoesLast(c)' /\ OwnOf(c)'
  BY <1>1, <1>2, <1>6, Pairs, OwnLeave
<1>7. CASE UNCHANGED vars
  BY <1>1, <1>7 DEF vars, GoesLast, OwnOf
<1> QED BY <1>3, <1>4, <1>5, <1>6, <1>7 DEF Next

(* Nobody is put into another game without having asked for it, nor into   *)
(* more games than the peer has said yes to; and where a player who waits  *)
(* does not press PLAY AGAIN again, both have asked for every game begun:  *)
(* LinkActivity's onRematch says "Both sides have said yes to another      *)
(* game".  Any number of games, moves and notes, and either channel may    *)
(* overtake the other. *)
THEOREM BothSaidYes == Spec => []RematchByConsent
<1>1. Init => Types /\ ConsentInv /\ OwnInv
  BY TypesInit, ConsentInit, OwnInit
<1>2. Types /\ ConsentInv /\ OwnInv /\ [Next]_vars => (Types /\ ConsentInv /\ OwnInv)'
  BY TypesStep, ConsentStep, OwnStep
<1>3. Types /\ ConsentInv /\ OwnInv => RematchByConsent
  <2> SUFFICES ASSUME Types, ConsentInv, OwnInv, NEW d \in Device, NEW g \in Games, g < dev[d].game
               PROVE  /\ g \in asked[d]
                      /\ g \in DOMAIN notes[Other(d)] /\ notes[Other(d)][g] = "PlayAgain"
                      /\ usage # "tapsTwice" => g \in asked[Other(d)]
    BY DEF RematchByConsent
  <2>1. /\ g \in 1..(dev[d].game - 1) /\ dev[d].game \in Nat /\ dev[d].heard \in Nat
        /\ Len(notes[Other(d)]) \in Nat /\ DOMAIN notes[Other(d)] = 1..Len(notes[Other(d)])
    BY Pairs, NotesAre, FieldTypes DEF Games
  <2>2. g \in asked[d] /\ notes[Other(d)][g] = "PlayAgain"
    BY <2>1 DEF OwnInv, OwnOf
  <2>3. g \in DOMAIN notes[Other(d)]
    BY <2>1 DEF OwnInv, OwnOf
  <2>4. usage # "tapsTwice" => g \in asked[Other(d)]
    BY <2>1 DEF ConsentInv, AnswersOf
  <2> QED BY <2>2, <2>3, <2>4
<1> QED BY <1>1, <1>2, <1>3, PTL DEF Spec

-----------------------------------------------------------------------------
(* The boards.  What a pass can find on a link in order. *)
InOrderInv ==
  /\ usage = "inOrder" /\ Types /\ TurnInv /\ ConsentInv /\ BoardInv

LEMMA PartsOf ==
  ASSUME InOrderInv, NEW d \in Device
  PROVE  /\ TurnOf(d) /\ NotesOf(d) /\ AnswersOf(d)
         /\ BoardOf(d) /\ SeatsOf(d) /\ PairOf(d, Other(d))
BY DEF InOrderInv, TurnInv, ConsentInv, BoardInv

LEMMA NumbersOf ==
  ASSUME InOrderInv, NEW d \in Device
  PROVE  /\ dev[d].sequence \in Nat /\ dev[d].heard \in Nat /\ dev[d].game \in Nat
         /\ dev[d].board.game \in Nat /\ dev[d].board.moves \in Nat
         /\ out[d].board.game \in Nat /\ out[d].board.moves \in Nat
         /\ out[d].sequence \in Nat /\ out[d].after \in Nat
         /\ Len(notes[d]) \in Nat /\ DOMAIN notes[d] = 1..Len(notes[d])
BY FieldTypes, NotesAre DEF InOrderInv

(* The one who is behind waits for the answer, and it is the next note. *)
LEMMA BehindStarts ==
  ASSUME InOrderInv, NEW d \in Device, NEW board, NEW n, NEW link,
         PassFrom(d, board, n, link), Hears(d, n),
         dev[Other(d)].game = dev[d].game + 1
  PROVE  Starts(d, n) /\ n = dev[d].game
<1> DEFINE e == Other(d)
<1>1. e \in Device /\ Other(e) = d
  BY Pairs
<1>2. Ahead(e, d)
  <2>1. PairOf(e, d)
    BY <1>1, PartsOf
  <2> QED BY <2>1 DEF PairOf
<1>3. /\ Plays(d) /\ n \in DOMAIN notes[e] /\ n > dev[d].heard
      /\ Starts(d, n) \/ Asks(d, n) \/ Leaves(d, n)
  BY DEF PassFrom
<1>4. /\ dev[d].you = "Ready" /\ dev[d].game = dev[d].heard + 1
      /\ Len(notes[e]) = dev[d].game
  BY <1>2, <1>3 DEF Ahead
<1>5. /\ dev[d].heard \in Nat /\ dev[d].game \in Nat /\ dev[e].game \in Nat
      /\ DOMAIN notes[e] = 1..Len(notes[e])
  BY <1>1, NumbersOf
<1>6. n = dev[d].game
  BY <1>3, <1>4, <1>5
<1>7. ~Leaves(d, n)
  <2>1. NotesOf(e)
    BY <1>1, PartsOf
  <2> QED BY <1>3, <1>5, <1>6, <2>1 DEF NotesOf, Leaves
<1> QED BY <1>3, <1>4, <1>6, <1>7 DEF Asks

(* Where a note puts a device into the next game. *)
LEMMA StartsIs ==
  ASSUME InOrderInv, NEW d \in Device, NEW board, NEW n, NEW link,
         PassFrom(d, board, n, link), Starts(d, n)
  PROVE  /\ Plays(d) /\ dev[d].you = "Ready" /\ dev[d].rematch /\ dev[d].board.over
         /\ n = dev[d].game /\ Len(notes[d]) = dev[d].game
         /\ \/ /\ dev[Other(d)].game = dev[d].game + 1
               /\ Len(notes[Other(d)]) = dev[d].game
            \/ /\ dev[Other(d)].game = dev[d].game
               /\ dev[Other(d)].sequence = dev[d].sequence
               /\ dev[Other(d)].board = dev[d].board /\ ~board
<1> DEFINE e == Other(d)
           g == dev[d].game
<1>1. e \in Device /\ Other(e) = d
  BY Pairs
<1>2. /\ TurnOf(d) /\ NotesOf(d) /\ AnswersOf(d) /\ BoardOf(d) /\ SeatsOf(d) /\ PairOf(d, e)
      /\ TurnOf(e) /\ NotesOf(e) /\ AnswersOf(e) /\ BoardOf(e) /\ SeatsOf(e) /\ PairOf(e, d)
  BY <1>1, PartsOf
<1>3. /\ Plays(d) /\ n > dev[d].heard /\ n \in DOMAIN notes[e]
      /\ notes[e][n] = "PlayAgain" /\ dev[d].you = "Ready"
  BY DEF PassFrom, Starts
<1>4. /\ dev[d].sequence \in Nat /\ dev[e].sequence \in Nat
      /\ dev[d].heard \in Nat /\ g \in Nat /\ dev[e].game \in Nat /\ n \in Nat
      /\ Len(notes[e]) \in Nat /\ DOMAIN notes[e] = 1..Len(notes[e])
  BY <1>1, <1>3, NumbersOf
<1>5. dev[d].rematch /\ Len(notes[d]) = g
  BY <1>2, <1>3 DEF AnswersOf, NotesOf, Plays
<1>6. dev[d].board.over
  <2>1. dev[d].them # "Left"
    BY <1>2, <1>3, <1>4 DEF SeatsOf
  <2> QED BY <1>2, <1>3, <1>5, <2>1 DEF BoardOf
<1>7. g <= n
  BY <1>1, <1>2, <1>3, AskedIn DEF InOrderInv
<1>8. n <= dev[e].game
  BY <1>2, <1>3 DEF NotesOf
<1>9. dev[e].game = g \/ dev[e].game = g + 1
  BY SMTT(20), <1>2, <1>4, <1>6 DEF PairOf, Ahead
<1>10. CASE dev[e].game = g + 1
  <2>1. Len(notes[e]) = g
    BY <1>2, <1>3, <1>10 DEF PairOf, Ahead
  <2> QED BY <1>3, <1>4, <1>5, <1>6, <1>7, <1>10, <2>1
<1>11. CASE dev[e].game = g
  <2>1. n = g
    BY <1>4, <1>7, <1>8, <1>11
  <2>2. dev[e].board.over
    BY <1>2, <1>3, <1>11, <2>1 DEF BoardOf
  <2>3. Together(d, e) /\ Together(e, d)
    BY <1>2, <1>11 DEF PairOf
  <2>4. dev[e].sequence = dev[d].sequence
    BY SMTT(20), <1>1, <1>2, <1>4, <1>6, <2>2, <2>3 DEF Together, TurnOf
  <2>5. dev[e].board = dev[d].board
    BY <2>3, <2>4 DEF Together
  <2>6. ~board
    <3>1. board => NewBoardFor(d)
      BY DEF PassFrom
    <3> QED BY <1>4, <2>4, <3>1, NewBoardIs DEF InOrderInv
  <2> QED BY <1>3, <1>5, <1>6, <1>11, <2>1, <2>4, <2>5, <2>6
<1> QED BY <1>9, <1>10, <1>11

(* Where a note puts the question. *)
LEMMA AsksIs ==
  ASSUME InOrderInv, NEW d \in Device, NEW board, NEW n, NEW link,
         PassFrom(d, board, n, link), Asks(d, n)
  PROVE  /\ Plays(d) /\ dev[d].you # "Ready" /\ ~Starts(d, n)
         /\ dev[Other(d)].game = dev[d].game /\ n = dev[d].game
         /\ dev[Other(d)].board.over
         /\ ~board => dev[d].board = dev[Other(d)].board
<1> DEFINE e == Other(d)
           g == dev[d].game
<1>1. e \in Device /\ Other(e) = d
  BY Pairs
<1>2. /\ TurnOf(d) /\ AnswersOf(d) /\ PairOf(d, e)
      /\ TurnOf(e) /\ NotesOf(e) /\ BoardOf(e) /\ PairOf(e, d)
  BY <1>1, PartsOf
<1>3. /\ Plays(d) /\ n > dev[d].heard /\ n \in DOMAIN notes[e] /\ Hears(d, n)
      /\ notes[e][n] = "PlayAgain" /\ dev[d].you # "Ready" /\ ~Starts(d, n)
  BY DEF PassFrom, Asks, Starts
<1>4. /\ dev[d].sequence \in Nat /\ dev[e].sequence \in Nat /\ out[e].sequence \in Nat
      /\ dev[d].heard \in Nat /\ g \in Nat /\ dev[e].game \in Nat /\ n \in Nat
      /\ out[e].after \in Nat
      /\ Len(notes[e]) \in Nat /\ DOMAIN notes[e] = 1..Len(notes[e])
  BY <1>1, <1>3, NumbersOf
<1>5. g <= n
  BY <1>1, <1>2, <1>3, AskedIn DEF InOrderInv
<1>6. n <= dev[e].game
  BY <1>2, <1>3 DEF NotesOf
<1>7. dev[e].game # g + 1
  BY <1>3, BehindStarts
<1>8. dev[e].game = g /\ n = g
  BY <1>2, <1>4, <1>5, <1>6, <1>7 DEF PairOf
<1>9. dev[e].board.over
  BY <1>2, <1>3, <1>8 DEF BoardOf
<1>10. Together(d, e) /\ Together(e, d)
  BY <1>2, <1>8 DEF PairOf
<1>11. ASSUME dev[e].sequence = dev[d].sequence + 1 PROVE board
  <2>1. out[e].sequence = dev[e].sequence /\ out[e].board = dev[e].board
    BY <1>1, <1>2, <1>10, <1>11 DEF TurnOf, Together
  <2>2. NewBoardFor(d)
    BY <1>3, <1>4, <1>11, <2>1 DEF NewBoardFor, Plays
  <2>3. n > out[e].after
    <3>1. out[e].after = g - 1
      BY <1>2, <1>8, <2>1 DEF BoardOf
    <3> QED BY <1>4, <1>8, <3>1
  <2>4. InOrder(d, board, n)
    BY DEF PassFrom, InOrderInv
  <2> QED BY <1>3, <2>2, <2>3, <2>4 DEF InOrder
<1>12. ~board => dev[d].board = dev[e].board
  BY <1>1, <1>2, <1>4, <1>9, <1>10, <1>11 DEF TurnOf, Together
<1> QED BY <1>3, <1>8, <1>9, <1>12

(* Which board is new. *)
LEMMA BoardIs ==
  ASSUME InOrderInv, NEW d \in Device, NEW board, NEW n, NEW link,
         PassFrom(d, board, n, link), board
  PROVE  /\ Plays(d) /\ out[Other(d)].sequence = dev[Other(d)].sequence
         /\ dev[Other(d)].sequence = dev[d].sequence + 1
         /\ out[Other(d)].board = dev[Other(d)].board
         /\ \/ /\ ~Starts(d, n) /\ dev[Other(d)].game = dev[d].game /\ ~dev[d].board.over
               /\ dev[Other(d)].board.moves = dev[d].board.moves + 1
            \/ /\ Starts(d, n) /\ dev[Other(d)].game = dev[d].game + 1
               /\ ~dev[Other(d)].board.over /\ dev[Other(d)].board.moves = 1
<1> DEFINE e == Other(d)
           g == dev[d].game
<1>1. e \in Device /\ Other(e) = d
  BY Pairs
<1>2. PairOf(d, e) /\ PairOf(e, d) /\ BoardOf(e)
  BY <1>1, PartsOf
<1>3. /\ Plays(d) /\ out[e].sequence = dev[e].sequence
      /\ dev[e].sequence = dev[d].sequence + 1
  BY NewBoardIs DEF PassFrom, InOrderInv
<1>4. /\ dev[d].sequence \in Nat /\ g \in Nat /\ dev[e].game \in Nat
      /\ dev[d].heard \in Nat /\ dev[e].board.game \in Nat
  BY <1>1, NumbersOf
<1>5. dev[e].game = g \/ dev[e].game = g + 1
  BY <1>2, <1>3, <1>4 DEF PairOf, Ahead
<1>6. CASE dev[e].game = g
  <2>1. /\ out[e].board = dev[e].board /\ ~dev[d].board.over
        /\ dev[e].board.moves = dev[d].board.moves + 1
    BY <1>2, <1>3, <1>6 DEF PairOf, Together
  <2>2. ~Starts(d, n)
    BY <2>1, StartsIs
  <2> QED BY <1>3, <1>6, <2>1, <2>2
<1>7. CASE dev[e].game = g + 1
  <2>1. /\ out[e].board = dev[e].board /\ ~dev[e].board.over /\ dev[e].board.moves = 1
        /\ g = dev[d].heard + 1
    BY <1>2, <1>3, <1>7 DEF PairOf, Ahead
  <2>2. out[e].after = g
    BY <1>2, <1>4, <1>7, <2>1 DEF BoardOf
  <2>3. n >= g
    <3>1. InOrder(d, board, n)
      BY DEF PassFrom, InOrderInv
    <3> QED BY <2>2, <3>1 DEF InOrder
  <2>4. Hears(d, n)
    BY <1>4, <2>1, <2>3 DEF Hears
  <2> QED BY <1>3, <1>7, <2>1, <2>4, BehindStarts
<1> QED BY <1>5, <1>6, <1>7

(* The new standing of the device, as far as the boards tell it apart. *)
LEMMA PassFields ==
  ASSUME InOrderInv, NEW d \in Device, NEW board, NEW n, NEW link,
         PassFrom(d, board, n, link), PassTo(d, board, n, link)
  PROVE  LET r == dev[d]
             s == dev'[d]
         IN  /\ dev'[Other(d)] = dev[Other(d)] /\ out' = out /\ notes' = notes
             /\ s.link = link /\ s.heard = n
             /\ link = "Playing" => Plays(d)
             /\ r.link # "Off" /\ link # "Off"
             /\ Starts(d, n) => /\ s.game = r.game + 1 /\ s.you = "Deciding"
                                /\ link = "Playing" => ~s.rematch /\ s.them = "Deciding"
             /\ ~Starts(d, n) => s.game = r.game
             /\ Asks(d, n) => /\ s.you = "Deciding" /\ s.rematch
                              /\ link = "Playing" => s.them = "Ready"
             /\ Leaves(d, n) => s.rematch /\ (link = "Playing" => s.them = "Left")
             /\ ~Hears(d, n) => n = r.heard
             /\ Hears(d, n) => Starts(d, n) \/ Asks(d, n) \/ Leaves(d, n)
             /\ ~Hears(d, n) /\ r.rematch => s.rematch /\ s.you = r.you
                                             /\ (link = "Playing" => s.them = r.them)
             /\ ~Starts(d, n) /\ ~Asks(d, n) /\ r.you = "Ready" => s.you = "Ready"
             /\ s.you = "Ready" => r.you = "Ready" /\ ~Starts(d, n) /\ ~Asks(d, n)
             /\ link = "Playing" /\ s.rematch =>
                  Leaves(d, n) \/ Asks(d, n) \/ s.stage = "Offer" \/ r.rematch
             /\ link = "Playing" /\ s.them = "Left" => Leaves(d, n) \/ (r.them = "Left" /\ ~Hears(d, n))
             /\ link = "Playing" /\ s.them = "Lost" => r.them = "Lost"
             /\ ~s.board.over => s.stage = "Live"
<1> DEFINE r == dev[d]
           s == dev'[d]
<1>1. /\ dev'[Other(d)] = dev[Other(d)] /\ out' = out /\ notes' = notes
      /\ s.link = link /\ s.heard = n
      /\ s.game = IF Starts(d, n) THEN r.game + 1 ELSE r.game
      /\ ~s.board.over => s.stage = "Live"
      /\ s.you = IF Starts(d, n) \/ Asks(d, n) \/ Offers(d, n) THEN "Deciding" ELSE r.you
      /\ s.rematch <=> \/ link \in {"OpponentLeft", "OpponentLost"}
                       \/ Leaves(d, n) \/ Asks(d, n) \/ s.stage = "Offer"
                       \/ r.rematch /\ ~Starts(d, n)
  BY OtherStays DEF PassTo, InOrderInv
<1>2. /\ r.link # "Off" /\ link # "Off"
      /\ link = "Playing" => Plays(d)
      /\ Hears(d, n) => Starts(d, n) \/ Asks(d, n) \/ Leaves(d, n)
  BY DEF PassFrom, Plays
<1>3. link = "Playing" =>
        s.them = IF Leaves(d, n) THEN "Left" ELSE IF Asks(d, n) THEN "Ready"
                 ELSE IF Starts(d, n) \/ Offers(d, n) THEN "Deciding" ELSE r.them
  <2> SUFFICES ASSUME link = "Playing"
               PROVE  s.them = IF Leaves(d, n) THEN "Left" ELSE IF Asks(d, n) THEN "Ready"
                 ELSE IF Starts(d, n) \/ Offers(d, n) THEN "Deciding" ELSE r.them
    OBVIOUS
  <2>1. s.them = CASE link = "OpponentLeft" -> "Left"
                   [] link = "OpponentLost" -> "Lost"
                   [] link = "Playing" /\ Leaves(d, n) -> "Left"
                   [] link = "Playing" /\ Asks(d, n) -> "Ready"
                   [] link = "Playing" /\ (Starts(d, n) \/ Offers(d, n)) -> "Deciding"
                   [] OTHER -> r.them
    BY DEF PassTo
  <2>2. ~(Leaves(d, n) /\ Asks(d, n)) /\ ~(Leaves(d, n) /\ Starts(d, n))
        /\ ~(Asks(d, n) /\ Starts(d, n)) /\ (Offers(d, n) => ~Leaves(d, n) /\ ~Asks(d, n))
    BY DEF Leaves, Asks, Starts, Offers
  <2> QED BY <2>1, <2>2
<1>4. Starts(d, n) => ~Leaves(d, n) /\ ~Asks(d, n) /\ s.stage # "Offer"
  <2>1. Starts(d, n) => ~Leaves(d, n) /\ ~Asks(d, n)
    BY DEF Leaves, Asks, Starts
  <2>2. Starts(d, n) => s.stage \in {"Live", "Final"}
    <3>1. s.board.over /\ (Starts(d, n) \/ r.stage = "Live") => s.stage = "Final"
      BY DEF PassTo
    <3> QED BY <1>1, <3>1
  <2> QED BY <2>1, <2>2
<1>5. /\ ~Hears(d, n) <=> n = r.heard
      /\ Leaves(d, n) \/ Asks(d, n) \/ Starts(d, n) => Hears(d, n)
  BY DEF Hears, Leaves, Asks, Starts
<1>6. Offers(d, n) => ~r.rematch
  BY DEF Offers
<1>7. r.you = "Ready" => r.rematch
  BY <1>2, PartsOf DEF AnswersOf
<1>8. link = "Playing" /\ s.them = "Left" => Leaves(d, n) \/ (r.them = "Left" /\ ~Hears(d, n))
  <2>1. ASSUME link = "Playing", s.them = "Left", ~Leaves(d, n)
        PROVE  r.them = "Left" /\ ~Asks(d, n) /\ ~Starts(d, n)
    BY <1>3, <2>1
  <2> QED BY <1>2, <2>1
<1>9. link = "Playing" /\ s.them = "Lost" => r.them = "Lost"
  BY <1>3
<1>10. Starts(d, n) => /\ s.game = r.game + 1 /\ s.you = "Deciding"
                       /\ link = "Playing" => ~s.rematch /\ s.them = "Deciding"
  BY <1>1, <1>3, <1>4
<1>11. /\ Asks(d, n) => /\ s.you = "Deciding" /\ s.rematch
                        /\ link = "Playing" => s.them = "Ready"
       /\ Leaves(d, n) => s.rematch /\ (link = "Playing" => s.them = "Left")
  <2>1. Asks(d, n) => ~Leaves(d, n)
    BY DEF Asks, Leaves
  <2> QED BY <1>1, <1>3, <2>1
<1>12. ~Hears(d, n) /\ r.rematch => s.rematch /\ s.you = r.you
                                    /\ (link = "Playing" => s.them = r.them)
  BY <1>1, <1>3, <1>5, <1>6
<1>13. /\ ~Starts(d, n) /\ ~Asks(d, n) /\ r.you = "Ready" => s.you = "Ready"
       /\ s.you = "Ready" => r.you = "Ready" /\ ~Starts(d, n) /\ ~Asks(d, n)
  BY <1>1, <1>6, <1>7
<1>14. link = "Playing" /\ s.rematch =>
         Leaves(d, n) \/ Asks(d, n) \/ s.stage = "Offer" \/ r.rematch
  BY <1>1
<1> QED BY <1>1, <1>2, <1>5, <1>8, <1>9, <1>10, <1>11, <1>12, <1>13, <1>14

LEMMA BoardPassStarts ==
  ASSUME InOrderInv, NEW d \in Device, NEW board, NEW n, NEW link,
         PassFrom(d, board, n, link), PassTo(d, board, n, link), Starts(d, n)
  PROVE  /\ BoardOf(d)' /\ SeatsOf(d)'
         /\ PairOf(d, Other(d))' /\ PairOf(Other(d), d)'
<1> DEFINE e == Other(d)
           r == dev[d]
           s == dev'[d]
           g == dev[d].game
<1>1. e \in Device /\ Other(e) = d
  BY Pairs
<1>2. /\ TurnOf(d) /\ NotesOf(d) /\ AnswersOf(d) /\ BoardOf(d) /\ PairOf(d, e)
      /\ TurnOf(e) /\ NotesOf(e) /\ AnswersOf(e) /\ BoardOf(e) /\ SeatsOf(e) /\ PairOf(e, d)
  BY <1>1, PartsOf
<1>3. /\ g \in Nat /\ dev[e].game \in Nat /\ dev[e].heard \in Nat
      /\ r.sequence \in Nat /\ dev[e].sequence \in Nat
      /\ out[d].board.game \in Nat /\ out[e].board.game \in Nat
      /\ Len(notes[d]) \in Nat /\ DOMAIN notes[d] = 1..Len(notes[d])
      /\ Len(notes[e]) \in Nat /\ DOMAIN notes[e] = 1..Len(notes[e])
      /\ dev[e].board \in AnyBoard
  BY <1>1, NumbersOf, FieldTypes DEF InOrderInv
<1>4. /\ dev'[e] = dev[e] /\ out' = out /\ notes' = notes
      /\ s.link = link /\ s.heard = n /\ s.game = g + 1 /\ s.you = "Deciding"
      /\ link = "Playing" => ~s.rematch /\ s.them = "Deciding"
      /\ ~s.board.over => s.stage = "Live"
      /\ r.link # "Off"
  BY PassFields
<1>5. /\ Plays(d) /\ r.you = "Ready" /\ r.rematch /\ r.board.over
      /\ n = g /\ Len(notes[d]) = g
      /\ \/ dev[e].game = g + 1 /\ Len(notes[e]) = g
         \/ dev[e].game = g /\ dev[e].sequence = r.sequence
            /\ dev[e].board = r.board /\ ~board
  BY StartsIs
<1>6. /\ s.board = IF board THEN out[e].board ELSE NewBoard(g + 1)
      /\ s.sequence = IF board THEN out[e].sequence ELSE r.sequence
  BY DEF PassTo
<1>7. NewBoard(g + 1).game = g + 1 /\ NewBoard(g + 1).moves = 0 /\ ~NewBoard(g + 1).over
  BY DEF NewBoard
<1>8. s.board.game = g + 1 /\ ~s.board.over
  <2>1. CASE board
    <3>1. dev[e].game = g + 1 /\ out[e].board = dev[e].board /\ ~dev[e].board.over
      BY <2>1, BoardIs
    <3> QED BY <1>2, <1>6, <2>1, <3>1 DEF BoardOf
  <2>2. CASE ~board
    BY <1>6, <1>7, <2>2
  <2> QED BY <2>1, <2>2
<1>9. BoardOf(d)'
  <2>1. /\ out[d].board.game >= 1 /\ out[d].board.game <= g + 1
        /\ out[d].after = out[d].board.game - 1 /\ out[d].board.game # g + 1
    BY <1>2, <1>3 DEF BoardOf
  <2>2. g + 1 \notin DOMAIN notes[d]
    BY <1>3, <1>5
  <2> QED BY <1>4, <1>8, <2>1, <2>2 DEF BoardOf, Plays
<1>10. SeatsOf(d)'
  <2>1. ~(n >= g + 1)
    BY <1>3, <1>5
  <2> QED BY <1>4, <2>1 DEF SeatsOf, Plays
<1>11. CASE dev[e].game = g + 1 /\ board
  <2>1. /\ s.board = dev[e].board /\ s.sequence = dev[e].sequence
    BY <1>6, <1>11, BoardIs
  <2>2. dev[e].game <= s.game + 1 /\ s.game <= dev[e].game + 1
        /\ ~(dev[e].game = s.game + 1) /\ ~(s.game = dev[e].game + 1)
    BY <1>3, <1>4, <1>11
  <2>3. ~(dev[e].sequence = dev[e].sequence + 1)
    BY <1>3
  <2>4. Together(d, e)' /\ Together(e, d)'
    BY <1>4, <2>1, <2>3 DEF Together
  <2> QED BY <1>4, <1>9, <1>10, <2>2, <2>4 DEF PairOf
<1>12. CASE dev[e].game = g + 1 /\ ~board
  <2>1. s.board = NewBoard(g + 1) /\ s.sequence = r.sequence
    BY <1>6, <1>12
  <2>2. Ahead(e, d)
    BY <1>2, <1>12 DEF PairOf
  <2>3. /\ r.sequence <= dev[e].sequence /\ ~dev[e].board.over
        /\ r.sequence = dev[e].sequence => dev[e].board.moves = 0
        /\ dev[e].sequence = r.sequence + 1 => out[e].board = dev[e].board
                                               /\ dev[e].board.moves = 1
    BY <2>2 DEF Ahead
  <2>4. dev[e].board.game = g + 1
    BY <1>2, <1>12 DEF BoardOf
  <2>5. r.sequence = dev[e].sequence => s.board = dev[e].board
    BY <1>3, <2>1, <2>3, <2>4 DEF NewBoard, AnyBoard
  <2>6. Together(d, e)'
    BY <1>3, <1>4, <2>1, <2>3, <2>5 DEF Together
  <2>7. Together(e, d)'
    BY <1>3, <1>4, <1>7, <2>1, <2>3, <2>5 DEF Together
  <2>8. dev[e].game <= s.game + 1 /\ s.game <= dev[e].game + 1
        /\ ~(dev[e].game = s.game + 1) /\ ~(s.game = dev[e].game + 1)
    BY <1>3, <1>4, <1>12
  <2> QED BY <1>4, <1>9, <1>10, <2>6, <2>7, <2>8 DEF PairOf
<1>13. CASE dev[e].game = g /\ dev[e].sequence = r.sequence
            /\ dev[e].board = r.board /\ ~board
  <2>1. s.board = NewBoard(g + 1) /\ s.sequence = r.sequence
    BY <1>6, <1>13
  <2>2. out[d].board.game <= g
        /\ (out[d].board.game = g => out[d].board.moves <= dev[e].board.moves)
    BY <1>2, <1>13 DEF BoardOf
  <2>3. ASSUME Plays(e)
        PROVE  /\ dev[e].you = "Ready" /\ dev[e].board.over
               /\ dev[e].game = dev[e].heard + 1 /\ Len(notes[d]) = dev[e].game
    <3>1. Len(notes[e]) >= g
      BY <1>3, <1>5 DEF PassFrom, Starts
    <3>2. dev[e].you = "Ready"
      BY <1>2, <1>3, <1>13, <2>3, <3>1 DEF NotesOf
    <3>3. ~(dev[e].heard >= g)
      BY <1>1, <1>2, <1>4, <1>13, <2>3, <3>2 DEF SeatsOf
    <3> QED BY <1>2, <1>3, <1>5, <1>13, <3>2, <3>3 DEF AnswersOf
  <2>4. Ahead(d, e)'
    BY <1>3, <1>4, <1>7, <1>13, <2>1, <2>2, <2>3 DEF Ahead, Plays
  <2>5. /\ s.game <= dev[e].game + 1 /\ ~(s.game = dev[e].game)
        /\ dev[e].game <= s.game + 1 /\ ~(dev[e].game = s.game) /\ ~(dev[e].game = s.game + 1)
    BY <1>3, <1>4, <1>13
  <2> QED BY <1>4, <1>9, <1>10, <2>4, <2>5 DEF PairOf
<1> QED BY <1>5, <1>11, <1>12, <1>13

LEMMA BoardPassStays ==
  ASSUME InOrderInv, NEW d \in Device, NEW board, NEW n, NEW link,
         PassFrom(d, board, n, link), PassTo(d, board, n, link), ~Starts(d, n)
  PROVE  /\ BoardOf(d)' /\ SeatsOf(d)'
         /\ PairOf(d, Other(d))' /\ PairOf(Other(d), d)'
<1> DEFINE e == Other(d)
           r == dev[d]
           s == dev'[d]
           g == dev[d].game
<1>1. e \in Device /\ Other(e) = d
  BY Pairs
<1>2. /\ TurnOf(d) /\ NotesOf(d) /\ AnswersOf(d) /\ BoardOf(d) /\ SeatsOf(d) /\ PairOf(d, e)
      /\ TurnOf(e) /\ NotesOf(e) /\ AnswersOf(e) /\ BoardOf(e) /\ SeatsOf(e) /\ PairOf(e, d)
  BY <1>1, PartsOf
<1>3. /\ g \in Nat /\ dev[e].game \in Nat /\ r.heard \in Nat
      /\ r.sequence \in Nat /\ dev[e].sequence \in Nat
      /\ out[d].board.game \in Nat /\ out[d].board.moves \in Nat /\ r.board.moves \in Nat
      /\ Len(notes[e]) \in Nat /\ DOMAIN notes[e] = 1..Len(notes[e])
  BY <1>1, NumbersOf
<1>4. /\ dev'[e] = dev[e] /\ out' = out /\ notes' = notes
      /\ s.link = link /\ s.heard = n /\ s.game = g
      /\ link = "Playing" => Plays(d)
      /\ r.link # "Off"
      /\ Asks(d, n) => /\ s.you = "Deciding" /\ s.rematch
                       /\ link = "Playing" => s.them = "Ready"
      /\ Leaves(d, n) => s.rematch /\ (link = "Playing" => s.them = "Left")
      /\ ~Hears(d, n) => n = r.heard
      /\ Hears(d, n) => Asks(d, n) \/ Leaves(d, n)
      /\ ~Hears(d, n) /\ r.rematch => s.rematch /\ s.you = r.you
                                      /\ (link = "Playing" => s.them = r.them)
      /\ s.you = "Ready" => r.you = "Ready"
      /\ ~Asks(d, n) /\ r.you = "Ready" => s.you = "Ready"
      /\ link = "Playing" /\ s.rematch =>
           Leaves(d, n) \/ Asks(d, n) \/ s.stage = "Offer" \/ r.rematch
      /\ link = "Playing" /\ s.them = "Left" => Leaves(d, n) \/ (r.them = "Left" /\ ~Hears(d, n))
      /\ link = "Playing" /\ s.them = "Lost" => r.them = "Lost"
      /\ ~s.board.over => s.stage = "Live"
  BY PassFields
<1>5. /\ s.board = IF board THEN out[e].board ELSE r.board
      /\ s.sequence = IF board THEN out[e].sequence ELSE r.sequence
  BY DEF PassTo
<1>6. board => /\ Plays(d) /\ out[e].sequence = dev[e].sequence
               /\ dev[e].sequence = r.sequence + 1 /\ out[e].board = dev[e].board
               /\ dev[e].game = g /\ ~r.board.over /\ dev[e].board.moves = r.board.moves + 1
  BY BoardIs
<1>7. Asks(d, n) => /\ r.you # "Ready" /\ dev[e].game = g /\ n = g /\ dev[e].board.over
                    /\ ~board => r.board = dev[e].board
  BY AsksIs
<1>8. Leaves(d, n) => n = Len(notes[e]) /\ dev[e].link = "Off"
  BY <1>2 DEF NotesOf, PassFrom, Leaves
<1>9. Asks(d, n) => s.board.over
  BY <1>5, <1>6, <1>7
<1>10. /\ s.board.game = g
       /\ s.board.over => s.board.moves > 1
       /\ ~board => s.board = r.board
       /\ board => s.board = dev[e].board
  BY <1>2, <1>5, <1>6 DEF BoardOf
<1>11. r.board.moves <= s.board.moves
  BY <1>3, <1>6, <1>10
<1>12. BoardOf(d)'
  <2>1. /\ out[d].board.game >= 1 /\ out[d].board.game <= g
        /\ out[d].after = out[d].board.game - 1
    BY <1>2 DEF BoardOf
  <2>2. out[d].board.game = g => out[d].board.moves <= s.board.moves
    <3>1. s.board.moves \in Nat
      BY <1>1, <1>10, NumbersOf
    <3> QED BY <1>2, <1>3, <1>11, <3>1 DEF BoardOf
  <2>3. ASSUME link = "Playing", s.rematch, s.them # "Left" PROVE s.board.over
    <3>1. CASE Asks(d, n)
      BY <1>9, <3>1
    <3>2. CASE Leaves(d, n)
      BY <1>4, <2>3, <3>2
    <3>3. CASE s.stage = "Offer"
      BY <1>4, <3>3
    <3>4. CASE r.rematch /\ ~Asks(d, n) /\ ~Leaves(d, n)
      <4>1. s.them = r.them /\ Plays(d)
        BY <1>4, <2>3, <3>4
      <4>2. r.board.over
        BY <1>2, <2>3, <3>4, <4>1 DEF BoardOf
      <4> QED BY <1>6, <1>10, <4>2
    <3> QED BY <1>4, <2>3, <3>1, <3>2, <3>3, <3>4
  <2>4. g \in DOMAIN notes[d] /\ notes[d][g] = "PlayAgain" => s.board.over
    BY <1>2, <1>6, <1>10 DEF BoardOf
  <2> QED BY <1>4, <1>10, <2>1, <2>2, <2>3, <2>4 DEF BoardOf, Plays
<1>13. SeatsOf(d)'
  <2>1. link = "Playing" => s.them # "Lost"
    BY <1>2, <1>4 DEF SeatsOf
  <2>2. ASSUME link = "Playing", s.them = "Left"
        PROVE  dev[e].link = "Off" /\ s.rematch /\ n = Len(notes[e])
    <3>1. CASE Leaves(d, n)
      BY <1>4, <1>8, <3>1
    <3>2. CASE ~Leaves(d, n)
      <4>1. r.them = "Left" /\ ~Hears(d, n) /\ Plays(d)
        BY <1>4, <2>2, <3>2
      <4>2. dev[e].link = "Off" /\ r.rematch /\ r.heard = Len(notes[e])
        BY <1>2, <4>1 DEF SeatsOf
      <4> QED BY <1>4, <4>1, <4>2
    <3> QED BY <3>1, <3>2
  <2>3. ASSUME link = "Playing", n >= g
        PROVE  /\ s.rematch
               /\ \/ s.them = "Left"
                  \/ n = g /\ s.them = "Ready" /\ s.you # "Ready"
    <3>1. CASE Asks(d, n)
      BY <1>4, <1>7, <2>3, <3>1
    <3>2. CASE Leaves(d, n)
      BY <1>4, <2>3, <3>2
    <3>3. CASE ~Hears(d, n)
      BY <1>2, <1>4, <2>3, <3>3 DEF SeatsOf
    <3> QED BY <1>4, <3>1, <3>2, <3>3
  <2> QED BY <1>4, <2>1, <2>2, <2>3 DEF SeatsOf, Plays
<1>14. PairOf(d, e)' /\ PairOf(e, d)'
  <2>1. CASE board
    <3>1. s.board = dev[e].board /\ s.sequence = dev[e].sequence /\ dev[e].game = g
      BY <1>5, <1>6, <1>10, <2>1
    <3>2. Together(d, e)' /\ Together(e, d)'
      <4>1. ~(dev[e].sequence = dev[e].sequence + 1)
        BY <1>3
      <4> QED BY <1>4, <3>1, <4>1 DEF Together
    <3>3. g <= g + 1 /\ ~(g = g + 1)
      BY <1>3
    <3> QED BY <1>4, <3>1, <3>2, <3>3 DEF PairOf
  <2>2. CASE ~board
    <3>1. s.board = r.board /\ s.sequence = r.sequence
      BY <1>5, <2>2
    <3>2. Together(d, e)' <=> Together(d, e)
      BY <1>4, <3>1 DEF Together
    <3>3. Together(e, d)' <=> Together(e, d)
      BY <1>4, <3>1 DEF Together
    <3>4. Ahead(d, e)' <=> Ahead(d, e)
      BY <1>4, <3>1 DEF Ahead, Plays
    <3>5. ASSUME dev[e].game = g + 1 PROVE Ahead(e, d)'
      <4>1. Ahead(e, d)
        BY <1>2, <3>5 DEF PairOf
      <4>2. ~Hears(d, n) /\ ~Asks(d, n)
        <5>1. ~Hears(d, n)
          BY <3>5, BehindStarts
        <5> QED BY <5>1 DEF Asks
      <4>3. ASSUME link = "Playing"
            PROVE  /\ s.you = "Ready" /\ s.board.over /\ s.game = s.heard + 1
                   /\ Len(notes[e]) = s.game
        BY <1>4, <3>1, <4>1, <4>2, <4>3 DEF Ahead
      <4> QED BY <1>4, <3>1, <4>1, <4>3 DEF Ahead, Plays
    <3> QED BY <1>2, <1>4, <3>2, <3>3, <3>4, <3>5 DEF PairOf
  <2>3. board \in BOOLEAN
    BY DEF PassFrom
  <2> QED BY <2>1, <2>2, <2>3
<1> QED BY <1>12, <1>13, <1>14

(* What d does leaves the boards of the other as they are. *)
LEMMA BoardPass ==
  ASSUME InOrderInv, NEW d \in Device, Pass(d)
  PROVE  BoardInv'
<1> DEFINE e == Other(d)
<1>1. e \in Device /\ Other(e) = d /\ (\A c \in Device : c = d \/ c = e)
  BY Pairs
<1>2. PICK board \in BOOLEAN, n \in Nat, link \in Link \ {"Off"} :
        PassFrom(d, board, n, link) /\ PassTo(d, board, n, link)
  BY PassSteps DEF InOrderInv
<1>3. BoardOf(d)' /\ SeatsOf(d)' /\ PairOf(d, e)' /\ PairOf(e, d)'
  BY <1>2, BoardPassStarts, BoardPassStays
<1>4. /\ dev'[e] = dev[e] /\ out' = out /\ notes' = notes /\ dev[d].link # "Off"
  BY <1>2, PassFields
<1>5. BoardOf(e) /\ SeatsOf(e)
  BY <1>1, PartsOf
<1>6. BoardOf(e)'
  BY <1>4, <1>5 DEF BoardOf, Plays
<1>7. SeatsOf(e)'
  BY <1>1, <1>4, <1>5 DEF SeatsOf, Plays
<1> QED BY <1>1, <1>3, <1>6, <1>7 DEF BoardInv

(* Who moves has not asked, so every note of theirs was said before. *)
LEMMA MoverIs ==
  ASSUME InOrderInv, NEW d \in Device, Move(d)
  PROVE  /\ Plays(d) /\ dev[d].myTurn /\ ~dev[d].board.over /\ dev[d].stage = "Live"
         /\ ~dev[d].rematch /\ dev[d].you # "Ready"
         /\ Len(notes[d]) = dev[d].game - 1
         /\ dev[d].sequence = dev[Other(d)].sequence /\ Mine(d)
<1>1. /\ Plays(d) /\ dev[d].myTurn /\ ~OwnsScreen(dev[d]) /\ ~dev[d].board.over
  BY MoveSteps DEF InOrderInv
<1>2. dev[d].stage = "Live"
  BY <1>1, PartsOf DEF BoardOf
<1>3. ~dev[d].rematch
  BY <1>1, <1>2 DEF OwnsScreen
<1>4. dev[d].you # "Ready"
  BY <1>1, <1>3, PartsOf DEF AnswersOf, Plays
<1>5. Len(notes[d]) = dev[d].game - 1
  BY <1>1, <1>4, PartsOf DEF NotesOf
<1>6. dev[d].sequence = dev[Other(d)].sequence /\ Mine(d)
  BY <1>1, PartsOf DEF TurnOf
<1> QED BY <1>1, <1>2, <1>3, <1>4, <1>5, <1>6

LEMMA BoardMove ==
  ASSUME InOrderInv, NEW d \in Device, Move(d)
  PROVE  BoardInv'
<1> DEFINE e == Other(d)
           r == dev[d]
           s == dev'[d]
           g == dev[d].game
<1>1. e \in Device /\ Other(e) = d /\ e # d /\ (\A c \in Device : c = d \/ c = e)
  BY Pairs
<1>2. /\ BoardOf(d) /\ SeatsOf(d) /\ PairOf(d, e) /\ TurnOf(d) /\ AnswersOf(d)
      /\ BoardOf(e) /\ SeatsOf(e) /\ PairOf(e, d)
  BY <1>1, PartsOf
<1>3. /\ g \in Nat /\ dev[e].game \in Nat
      /\ r.sequence \in Nat /\ dev[e].sequence \in Nat
      /\ out[d].board.game \in Nat /\ r.board.moves \in Nat /\ dev[e].board.moves \in Nat
      /\ Len(notes[d]) \in Nat /\ DOMAIN notes[d] = 1..Len(notes[d])
  BY <1>1, NumbersOf
<1>4. /\ Plays(d) /\ ~r.board.over /\ r.stage = "Live" /\ ~r.rematch
      /\ Len(notes[d]) = g - 1 /\ r.sequence = dev[e].sequence
  BY MoverIs
<1>5. /\ s.link = r.link /\ s.heard = r.heard
      /\ s.rematch = r.rematch /\ s.you = r.you /\ s.them = r.them
      /\ s.stage = r.stage /\ s.game = g /\ s.sequence = r.sequence + 1
      /\ s.board.game = r.board.game /\ s.board.moves = r.board.moves + 1
      /\ s.board.over => s.board.moves > 1
      /\ dev'[e] = dev[e] /\ notes' = notes
      /\ out' = [out EXCEPT ![d] = [sequence |-> r.sequence + 1, board |-> s.board,
                                    after |-> Len(notes[d])]]
  <2>1. Types
    BY DEF InOrderInv
  <2>2. dev' = [dev EXCEPT ![d] = s]
    BY <2>1, MoveSteps
  <2>3. dev'[e] = dev[e]
    BY <2>1, <2>2, OtherStays
  <2>4. /\ s.link = r.link /\ s.heard = r.heard
        /\ s.rematch = r.rematch /\ s.you = r.you /\ s.them = r.them
        /\ s.stage = r.stage /\ s.game = g /\ s.sequence = r.sequence + 1
        /\ s.board.game = r.board.game /\ s.board.moves = r.board.moves + 1
        /\ s.board.over => s.board.moves > 1
        /\ notes' = notes
    BY <2>1, MoveSteps
  <2>5. out' = [out EXCEPT ![d] = [sequence |-> r.sequence + 1, board |-> s.board,
                                   after |-> Len(notes[d])]]
    BY <2>1, MoveSteps
  <2> QED
    BY <2>3, <2>4, <2>5
<1>6. /\ out'[d] = [sequence |-> r.sequence + 1, board |-> s.board, after |-> Len(notes[d])]
      /\ out'[e] = out[e]
  BY <1>1, <1>5 DEF InOrderInv, Types
<1>7. out'[d].board = s.board /\ out'[d].after = g - 1
  BY <1>4, <1>6
<1>8. BoardOf(d)'
  <2>1. s.board.game = g /\ g >= 1
    BY <1>2, <1>5 DEF BoardOf, AnswersOf
  <2>2. g \notin DOMAIN notes[d]
    BY <1>3, <1>4
  <2>3. s.board.moves <= s.board.moves /\ g <= g
    BY <1>3, <1>5
  <2> QED BY <1>4, <1>5, <1>7, <2>1, <2>2, <2>3 DEF BoardOf
<1>9. SeatsOf(d)'
  BY <1>2, <1>5 DEF SeatsOf, Plays
<1>10. BoardOf(e)'
  BY <1>2, <1>5, <1>6 DEF BoardOf, Plays
<1>11. SeatsOf(e)'
  BY <1>1, <1>2, <1>5 DEF SeatsOf, Plays
<1>12. dev[e].game = g \/ dev[e].game = g + 1 \/ g = dev[e].game + 1
  BY SMTT(20), <1>2, <1>3 DEF PairOf
<1>13. CASE dev[e].game = g
  <2>1. r.board = dev[e].board
    BY <1>2, <1>4, <1>13 DEF PairOf, Together
  <2>2. Together(d, e)'
    BY <1>3, <1>4, <1>5, <1>7, <2>1 DEF Together
  <2>3. Together(e, d)'
    BY <1>3, <1>4, <1>5 DEF Together
  <2>4. g <= g + 1 /\ ~(g = g + 1)
    BY <1>3
  <2> QED BY <1>1, <1>5, <1>8, <1>9, <1>10, <1>11, <1>13, <2>2, <2>3, <2>4 DEF BoardInv, PairOf
<1>14. CASE g = dev[e].game + 1
  <2>1. Ahead(d, e)
    BY <1>2, <1>14 DEF PairOf
  <2>2. r.board.moves = 0
    BY <1>4, <2>1 DEF Ahead
  <2>3. s.board.moves = 1 /\ ~s.board.over
    BY <1>5, <2>2
  <2>4. dev[e].sequence <= r.sequence + 1 /\ ~(r.sequence + 1 = dev[e].sequence)
    BY <1>3, <1>4
  <2>5. Ahead(d, e)'
    BY <1>4, <1>5, <1>7, <2>1, <2>3, <2>4 DEF Ahead, Plays
  <2>6. ~(g = dev[e].game) /\ g <= dev[e].game + 1 /\ dev[e].game <= g + 1
        /\ ~(dev[e].game = g + 1) /\ ~(dev[e].game = g)
    BY <1>3, <1>14
  <2> QED BY <1>1, <1>5, <1>8, <1>9, <1>10, <1>11, <2>5, <2>6 DEF BoardInv, PairOf
<1>15. CASE dev[e].game = g + 1
  BY <1>2, <1>4, <1>15 DEF PairOf, Ahead
<1> QED BY <1>12, <1>13, <1>14, <1>15

(* Who asks has a finished board and has not asked before. *)
LEMMA AskerIs ==
  ASSUME InOrderInv, NEW d \in Device, ProposeRematch(d)
  PROVE  /\ dev[d].link # "Off" /\ dev[d].you # "Ready"
         /\ Plays(d) => dev[d].board.over /\ Len(notes[d]) = dev[d].game - 1
         /\ Agrees(d) => /\ Plays(d) /\ dev[d].rematch /\ dev[d].them = "Ready"
                         /\ dev[d].heard = dev[d].game
                         /\ dev[Other(d)].game = dev[d].game
                         /\ dev[Other(d)].sequence = dev[d].sequence
                         /\ dev[Other(d)].board = dev[d].board
<1> DEFINE e == Other(d)
           g == dev[d].game
<1>1. e \in Device /\ Other(e) = d
  BY Pairs
<1>2. /\ TurnOf(d) /\ NotesOf(d) /\ AnswersOf(d) /\ BoardOf(d) /\ SeatsOf(d) /\ PairOf(d, e)
      /\ TurnOf(e) /\ NotesOf(e) /\ BoardOf(e) /\ PairOf(e, d)
  BY <1>1, PartsOf
<1>3. /\ g \in Nat /\ dev[e].game \in Nat /\ dev[d].heard \in Nat
      /\ dev[d].sequence \in Nat /\ dev[e].sequence \in Nat
      /\ Len(notes[e]) \in Nat /\ DOMAIN notes[e] = 1..Len(notes[e])
  BY <1>1, NumbersOf
<1>4. CanAsk(dev[d]) /\ usage = "inOrder"
  BY ProposeSteps DEF InOrderInv
<1>5. dev[d].link # "Off" /\ dev[d].you # "Ready"
  BY <1>2, <1>4 DEF CanAsk, AnswersOf
<1>6. Plays(d) => dev[d].board.over
  BY <1>2, <1>4 DEF CanAsk, OffersPlayAgain, BoardOf
<1>7. Plays(d) => Len(notes[d]) = g - 1
  BY <1>2, <1>5 DEF NotesOf
<1>8. ASSUME Agrees(d)
      PROVE  /\ Plays(d) /\ dev[d].rematch /\ dev[d].them = "Ready"
             /\ dev[d].heard = g /\ dev[e].game = g
             /\ dev[e].sequence = dev[d].sequence /\ dev[e].board = dev[d].board
  <2>1. dev[d].rematch /\ dev[d].them = "Ready"
    BY <1>8 DEF Agrees, TheyAlreadyAgreed
  <2>2. /\ Plays(d) /\ g <= dev[d].heard /\ notes[e][dev[d].heard] = "PlayAgain"
        /\ dev[d].heard <= Len(notes[e]) /\ g >= 1
    BY <1>2, <1>5, <2>1 DEF AnswersOf, Plays
  <2>3. dev[d].heard = g
    BY <1>2, <1>3, <2>1, <2>2 DEF SeatsOf
  <2>4. g \in DOMAIN notes[e] /\ g <= dev[e].game
    BY <1>2, <1>3, <2>2, <2>3 DEF NotesOf
  <2>5. dev[e].game # g + 1
    BY <1>2, <1>3, <1>5, <2>2 DEF PairOf, Ahead
  <2>6. dev[e].game = g
    BY <1>2, <1>3, <2>4, <2>5 DEF PairOf
  <2>7. dev[e].board.over
    BY <1>2, <2>2, <2>3, <2>4, <2>6 DEF BoardOf
  <2>8. Together(d, e) /\ Together(e, d)
    BY <1>2, <2>6 DEF PairOf
  <2>9. dev[e].sequence = dev[d].sequence
    BY <1>1, <1>2, <1>3, <1>6, <2>2, <2>7, <2>8 DEF Together, TurnOf
  <2> QED BY <2>1, <2>2, <2>3, <2>6, <2>8, <2>9 DEF Together
<1> QED BY <1>5, <1>6, <1>7, <1>8

LEMMA BoardPropose ==
  ASSUME InOrderInv, NEW d \in Device, ProposeRematch(d)
  PROVE  BoardInv'
<1> DEFINE e == Other(d)
           r == dev[d]
           s == dev'[d]
           g == dev[d].game
<1>1. e \in Device /\ Other(e) = d /\ e # d /\ (\A c \in Device : c = d \/ c = e)
  BY Pairs
<1>2. /\ BoardOf(d) /\ SeatsOf(d) /\ PairOf(d, e) /\ AnswersOf(d)
      /\ NotesOf(e) /\ AnswersOf(e) /\ BoardOf(e) /\ SeatsOf(e) /\ PairOf(e, d)
  BY <1>1, PartsOf
<1>3. /\ g \in Nat /\ dev[e].game \in Nat /\ dev[e].heard \in Nat
      /\ out[d].board.game \in Nat
      /\ Len(notes[d]) \in Nat /\ DOMAIN notes[d] = 1..Len(notes[d])
      /\ Len(notes[e]) \in Nat /\ DOMAIN notes[e] = 1..Len(notes[e])
  BY <1>1, NumbersOf
<1>4. /\ r.link # "Off" /\ r.you # "Ready"
      /\ Plays(d) => r.board.over /\ Len(notes[d]) = g - 1
      /\ Agrees(d) => /\ Plays(d) /\ r.heard = g /\ dev[e].game = g
                      /\ dev[e].sequence = r.sequence /\ dev[e].board = r.board
  BY AskerIs
<1>5. /\ s.link = r.link /\ s.heard = r.heard /\ s.sequence = r.sequence
      /\ Agrees(d) => /\ s.game = g + 1 /\ s.board = NewBoard(g + 1)
                      /\ s.stage = "Live" /\ ~s.rematch
                      /\ s.you = "Deciding" /\ s.them = "Deciding"
      /\ ~Agrees(d) => /\ s.game = g /\ s.board = r.board
                       /\ s.stage = IF r.stage = "Final" THEN "Offer" ELSE r.stage
                       /\ s.rematch /\ s.you = "Ready"
                       /\ s.them = IF r.them \in {"Left", "Lost"} THEN r.them ELSE "Deciding"
      /\ Say(d, "PlayAgain") /\ dev'[e] = dev[e] /\ out' = out
  BY ProposeSteps, OtherStays DEF InOrderInv
<1>6. /\ notes'[e] = notes[e]
      /\ ~Plays(d) => notes' = notes
      /\ Plays(d) => Len(notes'[d]) = g /\ DOMAIN notes'[d] = 1..g
  <2>1. "PlayAgain" \in Note
    BY DEF Note
  <2> QED BY <1>3, <1>4, <1>5, <2>1, SaySteps DEF InOrderInv
<1>7. BoardOf(e)' /\ SeatsOf(e)'
  BY <1>1, <1>2, <1>4, <1>5, <1>6 DEF BoardOf, SeatsOf, Plays
<1>8. CASE Agrees(d)
  <2>1. NewBoard(g + 1).game = g + 1 /\ NewBoard(g + 1).moves = 0 /\ ~NewBoard(g + 1).over
    BY DEF NewBoard
  <2>2. BoardOf(d)'
    <3>1. /\ out[d].board.game >= 1 /\ out[d].board.game <= g + 1
          /\ out[d].after = out[d].board.game - 1 /\ out[d].board.game # g + 1
      BY <1>2, <1>3 DEF BoardOf
    <3>2. g + 1 \notin DOMAIN notes'[d]
      BY <1>3, <1>4, <1>6, <1>8
    <3> QED BY <1>5, <1>8, <2>1, <3>1, <3>2 DEF BoardOf
  <2>3. SeatsOf(d)'
    <3>1. ~(r.heard >= g + 1)
      BY <1>3, <1>4, <1>8
    <3> QED BY <1>5, <1>8, <3>1 DEF SeatsOf
  <2>4. ASSUME Plays(e)
        PROVE  /\ dev[e].you = "Ready" /\ dev[e].board.over
               /\ dev[e].game = dev[e].heard + 1 /\ Len(notes'[d]) = dev[e].game
    <3>1. Len(notes[e]) >= g
      BY <1>2, <1>4, <1>8 DEF AnswersOf
    <3>2. dev[e].you = "Ready"
      BY <1>2, <1>3, <1>4, <1>8, <2>4, <3>1 DEF NotesOf
    <3>3. ~(dev[e].heard >= g)
      BY <1>1, <1>2, <1>4, <1>8, <2>4, <3>2 DEF SeatsOf
    <3> QED BY <1>2, <1>3, <1>4, <1>6, <1>8, <3>2, <3>3 DEF AnswersOf
  <2>5. Ahead(d, e)'
    <3>1. /\ out[d].board.game <= dev[e].game
          /\ out[d].board.game = dev[e].game => out[d].board.moves <= dev[e].board.moves
      BY <1>2, <1>4, <1>8 DEF BoardOf
    <3>2. dev[e].sequence <= r.sequence /\ ~(r.sequence = dev[e].sequence + 1)
      BY <1>1, <1>4, <1>8, NumbersOf
    <3> QED BY <1>4, <1>5, <1>8, <2>1, <2>4, <3>1, <3>2 DEF Ahead, Plays
  <2>6. /\ s.game <= dev[e].game + 1 /\ ~(s.game = dev[e].game)
        /\ dev[e].game <= s.game + 1 /\ ~(dev[e].game = s.game) /\ ~(dev[e].game = s.game + 1)
    BY <1>3, <1>4, <1>5, <1>8
  <2>7. PairOf(d, e)' /\ PairOf(e, d)'
    BY <1>5, <2>5, <2>6 DEF PairOf
  <2> QED BY <1>1, <1>7, <2>2, <2>3, <2>7 DEF BoardInv
<1>9. CASE ~Agrees(d)
  <2>1. BoardOf(d)'
    <3>1. ~r.board.over => s.stage = "Live"
      BY <1>2, <1>5, <1>9 DEF BoardOf
    <3> QED BY <1>2, <1>4, <1>5, <1>6, <1>9, <3>1 DEF BoardOf, Plays
  <2>2. SeatsOf(d)'
    <3>1. ASSUME Plays(d), r.heard >= g PROVE r.them = "Left"
      <4>1. r.rematch /\ (r.them = "Left" \/ r.them = "Ready")
        BY <1>2, <3>1 DEF SeatsOf
      <4> QED BY <1>9, <4>1 DEF Agrees, TheyAlreadyAgreed
    <3>2. Plays(d) => s.them # "Lost" /\ (s.them = "Left" <=> r.them = "Left")
      BY <1>2, <1>5, <1>9 DEF SeatsOf
    <3> QED BY <1>2, <1>5, <1>6, <1>9, <3>1, <3>2 DEF SeatsOf, Plays
  <2>3. /\ Together(d, e)' <=> Together(d, e)
        /\ Together(e, d)' <=> Together(e, d)
    BY <1>5, <1>9 DEF Together
  <2>4. ASSUME g = dev[e].game + 1 PROVE Ahead(d, e)'
    <3>1. Ahead(d, e)
      BY <1>2, <2>4 DEF PairOf
    <3>2. notes' = notes
      BY <1>4, <1>6, <3>1 DEF Ahead
    <3> QED BY <1>5, <1>9, <3>1, <3>2 DEF Ahead, Plays
  <2>5. ASSUME dev[e].game = g + 1 PROVE Ahead(e, d)'
    <3>1. Ahead(e, d)
      BY <1>2, <2>5 DEF PairOf
    <3>2. ~Plays(d)
      BY <1>4, <3>1 DEF Ahead
    <3> QED BY <1>5, <1>9, <3>1, <3>2 DEF Ahead, Plays
  <2>6. PairOf(d, e)' /\ PairOf(e, d)'
    BY <1>2, <1>5, <1>9, <2>3, <2>4, <2>5 DEF PairOf
  <2> QED BY <1>1, <1>7, <2>1, <2>2, <2>6 DEF BoardInv
<1> QED BY <1>8, <1>9

LEMMA BoardLeave ==
  ASSUME InOrderInv, NEW d \in Device, LeaveLink(d)
  PROVE  BoardInv'
<1> DEFINE e == Other(d)
           r == dev[d]
           s == dev'[d]
           g == dev[d].game
<1>1. e \in Device /\ Other(e) = d /\ e # d /\ (\A c \in Device : c = d \/ c = e)
  BY Pairs
<1>2. /\ BoardOf(d) /\ SeatsOf(d) /\ PairOf(d, e)
      /\ BoardOf(e) /\ SeatsOf(e) /\ PairOf(e, d)
  BY <1>1, PartsOf
<1>3. /\ r.link # "Off"
      /\ IF r.rematch THEN Say(d, "Leaving") ELSE UNCHANGED notes
      /\ s.link = "Off" /\ s.stage = "Live" /\ s.sequence = r.sequence
      /\ s.game = g /\ s.board = r.board /\ dev'[e] = dev[e] /\ out' = out
  BY LeaveSteps, OtherStays DEF InOrderInv
<1>4. /\ Len(notes[d]) \in Nat /\ DOMAIN notes[d] = 1..Len(notes[d])
  BY NumbersOf
<1>5. /\ notes'[e] = notes[e]
      /\ \/ notes' = notes
         \/ /\ Plays(d) /\ r.rematch
            /\ DOMAIN notes'[d] = 1..(Len(notes[d]) + 1)
            /\ \A i \in 1..Len(notes[d]) : notes'[d][i] = notes[d][i]
            /\ notes'[d][Len(notes[d]) + 1] = "Leaving"
  <2>1. "Leaving" \in Note
    BY DEF Note
  <2>2. CASE r.rematch
    BY <1>3, <2>1, <2>2, SaySteps DEF InOrderInv
  <2>3. CASE ~r.rematch
    BY <1>3, <2>3
  <2> QED BY <2>2, <2>3
<1>6. g \in DOMAIN notes'[d] /\ notes'[d][g] = "PlayAgain"
        => g \in DOMAIN notes[d] /\ notes[d][g] = "PlayAgain"
  <2>1. CASE notes' = notes
    BY <2>1
  <2>2. CASE notes' # notes
    <3>1. "Leaving" # "PlayAgain"
      OBVIOUS
    <3> QED BY <1>4, <1>5, <2>2, <3>1
  <2> QED BY <2>1, <2>2
<1>7. BoardOf(d)'
  BY <1>2, <1>3, <1>6 DEF BoardOf, Plays
<1>8. SeatsOf(d)'
  BY <1>3 DEF SeatsOf, Plays
<1>9. BoardOf(e)' /\ SeatsOf(e)'
  BY <1>1, <1>2, <1>3, <1>5 DEF BoardOf, SeatsOf, Plays
<1>10. /\ Together(d, e)' <=> Together(d, e)
       /\ Together(e, d)' <=> Together(e, d)
  BY <1>3 DEF Together
<1>11. ASSUME g = dev[e].game + 1 PROVE Ahead(d, e)'
  <2>1. Ahead(d, e)
    BY <1>2, <1>11 DEF PairOf
  <2>2. Plays(e) => notes' = notes
    <3>1. ASSUME Plays(e), notes' # notes PROVE FALSE
      <4>1. Plays(d) /\ r.rematch /\ ~r.board.over
        BY <1>5, <2>1, <3>1 DEF Ahead
      <4>2. r.them = "Left"
        BY <1>2, <4>1 DEF BoardOf
      <4> QED BY <1>2, <3>1, <4>1, <4>2 DEF SeatsOf, Plays
    <3> QED BY <3>1
  <2> QED BY <1>3, <2>1, <2>2 DEF Ahead, Plays
<1>12. ASSUME dev[e].game = g + 1 PROVE Ahead(e, d)'
  <2>1. Ahead(e, d)
    BY <1>2, <1>12 DEF PairOf
  <2> QED BY <1>3, <2>1 DEF Ahead, Plays
<1>13. PairOf(d, e)' /\ PairOf(e, d)'
  BY <1>2, <1>3, <1>10, <1>11, <1>12 DEF PairOf
<1> QED BY <1>1, <1>7, <1>8, <1>9, <1>13 DEF BoardInv

LEMMA BoardInit == Init => BoardInv
<1> SUFFICES ASSUME Init, NEW d \in Device
             PROVE  BoardOf(d) /\ SeatsOf(d) /\ PairOf(d, Other(d))
  BY DEF BoardInv
<1>1. \A c \in Device : /\ dev[c].game = 1 /\ dev[c].heard = 0 /\ dev[c].sequence = 0
                        /\ ~dev[c].rematch /\ dev[c].them = "Deciding"
                        /\ dev[c].stage = "Live" /\ dev[c].board = NewBoard(1)
  BY DEF Init
<1>2. /\ notes[d] = <<>> /\ out[d].board = NewBoard(1) /\ out[d].after = 0
  BY DEF Init
<1>3. NewBoard(1).game = 1 /\ NewBoard(1).moves = 0 /\ ~NewBoard(1).over
  BY DEF NewBoard
<1>4. BoardOf(d)
  BY <1>1, <1>2, <1>3 DEF BoardOf
<1>5. SeatsOf(d)
  BY <1>1 DEF SeatsOf
<1>6. PairOf(d, Other(d))
  BY <1>1, Pairs DEF PairOf, Together
<1> QED BY <1>4, <1>5, <1>6

(* The usage of a match is chosen once. *)
LEMMA UsageStays == Types /\ [Next]_vars => usage' = usage
<1> SUFFICES ASSUME Types, [Next]_vars PROVE usage' = usage
  OBVIOUS
<1>1. ASSUME NEW d \in Device, Pass(d) PROVE usage' = usage
  BY <1>1, PassSteps DEF PassTo
<1> QED BY <1>1 DEF Next, Move, ProposeRematch, LeaveLink, vars

LEMMA BoardStep == Types /\ TurnInv /\ ConsentInv /\ BoardInv /\ [Next]_vars => BoardInv'
<1> SUFFICES ASSUME Types, TurnInv, ConsentInv, BoardInv, [Next]_vars PROVE BoardInv'
  OBVIOUS
<1>1. CASE usage # "inOrder"
  BY <1>1, UsageStays DEF BoardInv
<1>2. CASE usage = "inOrder"
  <2>1. InOrderInv
    BY <1>2 DEF InOrderInv
  <2>2. CASE UNCHANGED vars
    BY <2>2 DEF vars, BoardInv, BoardOf, SeatsOf, PairOf, Together, Ahead, Plays
  <2> QED BY <2>1, <2>2, BoardPass, BoardMove, BoardPropose, BoardLeave DEF Next
<1> QED BY <1>1, <1>2

LEMMA InvStep ==
  Types /\ TurnInv /\ ConsentInv /\ BoardInv /\ [Next]_vars
    => (Types /\ TurnInv /\ ConsentInv /\ BoardInv)'
BY TypesStep, TurnStep, ConsentStep, BoardStep

LEMMA InvInit == Init => Types /\ TurnInv /\ ConsentInv /\ BoardInv
BY TypesInit, TurnInit, ConsentInit, BoardInit

(* When it is a device's turn, the peer's last move of this game is on its *)
(* board: PlayBase::update calls this "the load-bearing line".  For any    *)
(* number of games, moves and notes, on a link in order. *)
THEOREM LastMoveIsThere == Spec => []LastMoveOnBoard
<1>1. Types /\ TurnInv /\ ConsentInv /\ BoardInv => LastMoveOnBoard
  <2> SUFFICES ASSUME Types, TurnInv, ConsentInv, BoardInv, usage = "inOrder",
                      NEW d \in Device, dev[d].myTurn,
                      out[Other(d)].board.game = dev[d].board.game
               PROVE  dev[d].board.moves >= out[Other(d)].board.moves
    BY DEF LastMoveOnBoard
  <2> DEFINE e == Other(d)
             g == dev[d].game
  <2>1. InOrderInv /\ e \in Device /\ Other(e) = d
    BY Pairs DEF InOrderInv
  <2>2. /\ TurnOf(d) /\ BoardOf(d) /\ PairOf(d, e) /\ BoardOf(e) /\ PairOf(e, d)
    BY <2>1, PartsOf
  <2>3. /\ g \in Nat /\ dev[e].game \in Nat /\ out[e].board.game \in Nat
        /\ dev[d].board.moves \in Nat /\ out[e].board.moves \in Nat
    BY <2>1, NumbersOf
  <2>4. dev[d].sequence = dev[e].sequence /\ out[e].board.game = g
    BY <2>2 DEF TurnOf, BoardOf
  <2>5. out[e].board.game <= dev[e].game
    BY <2>2 DEF BoardOf
  <2>6. CASE dev[e].game = g
    BY <2>2, <2>3, <2>4, <2>6 DEF BoardOf, PairOf, Together
  <2>7. CASE dev[e].game = g + 1
    BY <2>2, <2>3, <2>4, <2>7 DEF PairOf, Ahead
  <2> QED BY <2>2, <2>3, <2>4, <2>5, <2>6, <2>7 DEF PairOf
<1> QED BY <1>1, InvInit, InvStep, PTL DEF Spec

-----------------------------------------------------------------------------
(* The seats, in a game that seats by the turn. *)
LEMMA SeatInit == Init => SeatInv
<1> SUFFICES ASSUME Init, NEW d \in Device PROVE SeatOf(d)
  BY DEF SeatInv
<1>1. PICK host \in Device :
        \A c \in Device : /\ dev[c].sequence = 0 /\ dev[c].isHost = (c = host)
                          /\ dev[c].goesFirst = (c = host) /\ dev[c].board = NewBoard(1)
  BY DEF Init
<1>2. dev[d].sequence = 0 /\ (dev[d].isHost <=> d = host) /\ (dev[d].goesFirst <=> d = host)
  BY <1>1
<1>3. dev[d].board.moves = 0
  BY <1>1 DEF NewBoard
<1>4. Mine(d) <=> d = host
  BY <1>2 DEF Mine
<1> QED BY <1>2, <1>3, <1>4 DEF SeatOf

LEMMA SeatPass ==
  ASSUME InOrderInv, TurnInv', SeatByTurn, NEW d \in Device, SeatOf(d),
         NEW board, NEW n, NEW link,
         PassFrom(d, board, n, link), PassTo(d, board, n, link), link = "Playing"
  PROVE  SeatOf(d)'
<1> DEFINE e == Other(d)
           r == dev[d]
           s == dev'[d]
<1>1. e \in Device /\ Other(e) = d
  BY Pairs
<1>2. /\ s.isHost = r.isHost /\ s.link = link
      /\ s.sequence = IF board THEN out[e].sequence ELSE r.sequence
      /\ s.myTurn <=> r.myTurn \/ board
      /\ s.goesFirst <=> IF ~Starts(d, n) THEN r.goesFirst ELSE r.myTurn /\ ~board
      /\ s.board = IF board THEN out[e].board
                   ELSE IF Starts(d, n) THEN NewBoard(r.game + 1) ELSE r.board
  BY DEF PassTo
<1>3. Plays(d) /\ Plays(d)' /\ board \in BOOLEAN
  BY <1>2 DEF PassFrom, Plays
<1>4. /\ r.sequence \in Nat /\ dev[e].sequence \in Nat /\ r.board.moves \in Nat
      /\ r.isHost \in BOOLEAN /\ dev[e].isHost \in BOOLEAN /\ r.myTurn \in BOOLEAN
  BY <1>1, FieldTypes DEF InOrderInv
<1>5. CASE board
  <2>1. s.sequence = r.sequence + 1 /\ s.board = dev[e].board
    BY <1>2, <1>5, BoardIs
  <2>2. CASE Starts(d, n)
    <3>1. s.board.moves = 1 /\ ~s.goesFirst
      BY <1>2, <1>5, <2>1, <2>2, BoardIs
    <3>2. Mine(d)'
      <4>1. TurnOf(d)' /\ s.myTurn
        BY <1>2, <1>5 DEF TurnInv
      <4> QED BY <1>3, <4>1 DEF TurnOf
    <3> QED BY <3>1, <3>2 DEF SeatOf
  <2>3. CASE ~Starts(d, n)
    <3>1. s.board.moves = r.board.moves + 1 /\ (s.goesFirst <=> r.goesFirst)
      BY <1>2, <1>5, <2>1, <2>3, BoardIs
    <3>2. Mine(d)' <=> ~Mine(d)
      BY <1>2, <1>4, <2>1, Parity DEF Mine
    <3>3. s.board.moves % 2 = 0 <=> ~(r.board.moves % 2 = 0)
      BY <1>4, <3>1, Parity
    <3> QED BY <1>3, <3>1, <3>2, <3>3 DEF SeatOf
  <2> QED BY <2>2, <2>3
<1>6. CASE ~board
  <2>1. Mine(d)' <=> Mine(d)
    BY <1>2, <1>6 DEF Mine
  <2>2. CASE Starts(d, n)
    <3>1. s.board.moves = 0 /\ (s.goesFirst <=> r.myTurn)
      BY <1>2, <1>6, <2>2 DEF NewBoard
    <3>2. r.myTurn <=> Mine(d)
      <4>1. /\ TurnOf(d) /\ TurnOf(e) /\ PairOf(e, d)
        BY <1>1, PartsOf
      <4>2. CASE dev[e].sequence = r.sequence
        BY <1>3, <4>1, <4>2 DEF TurnOf
      <4>3. CASE dev[e].sequence # r.sequence
        <5>1. dev[e].game = r.game + 1
          BY <2>2, <4>3, StartsIs
        <5>2. dev[e].sequence = r.sequence + 1
          BY <1>1, <1>4, <4>1, <4>3, <5>1 DEF TurnOf, PairOf, Ahead
        <5>3. ~Mine(e)
          BY <1>1, <4>1, <5>2 DEF TurnOf
        <5>4. ~Mine(d)
          BY <1>1, <1>4, <4>1, <5>2, <5>3, Parity DEF TurnOf, Mine
        <5> QED BY <1>3, <4>1, <5>4 DEF TurnOf
      <4> QED BY <4>2, <4>3
    <3>3. s.board.moves % 2 = 0
      BY <3>1
    <3> QED BY <2>1, <3>1, <3>2, <3>3 DEF SeatOf
  <2>3. CASE ~Starts(d, n)
    BY <1>2, <1>3, <1>6, <2>1, <2>3 DEF SeatOf
  <2> QED BY <2>2, <2>3
<1> QED BY <1>3, <1>5, <1>6

LEMMA SeatStep ==
  Types /\ TurnInv /\ ConsentInv /\ BoardInv /\ SeatInv /\ [Next]_vars => SeatInv'
<1> SUFFICES ASSUME Types, TurnInv, ConsentInv, BoardInv, SeatInv, [Next]_vars,
                    SeatByTurn, usage' = "inOrder"
             PROVE  \A c \in Device : SeatOf(c)'
  BY DEF SeatInv
<1>1. InOrderInv /\ TurnInv' /\ \A c \in Device : SeatOf(c)
  BY UsageStays, InvStep DEF InOrderInv, SeatInv
<1>2. ASSUME NEW d \in Device, dev'[Other(d)] = dev[Other(d)], SeatOf(d)'
      PROVE  \A c \in Device : SeatOf(c)'
  <2>1. SeatOf(Other(d))'
    BY <1>1, <1>2, Pairs DEF SeatOf, Mine, Plays
  <2> QED BY <1>2, <2>1, Pairs
<1>3. ASSUME NEW d \in Device, Pass(d) PROVE \A c \in Device : SeatOf(c)'
  <2>1. PICK board \in BOOLEAN, n \in Nat, link \in Link \ {"Off"} :
          PassFrom(d, board, n, link) /\ PassTo(d, board, n, link)
    BY <1>3, PassSteps
  <2>2. dev'[Other(d)] = dev[Other(d)] /\ dev'[d].link = link
    BY <1>1, <2>1, PassFields
  <2>3. SeatOf(d)'
    <3>1. CASE link = "Playing"
      BY <1>1, <2>1, <3>1, SeatPass
    <3>2. CASE link # "Playing"
      BY <2>2, <3>2 DEF SeatOf, Plays
    <3> QED BY <3>1, <3>2
  <2> QED BY <1>2, <2>2, <2>3
<1>4. ASSUME NEW d \in Device, Move(d) PROVE \A c \in Device : SeatOf(c)'
  <2>1. /\ dev'[Other(d)] = dev[Other(d)] /\ Plays(d)
        /\ dev'[d].isHost = dev[d].isHost /\ dev'[d].goesFirst = dev[d].goesFirst
        /\ dev'[d].sequence = dev[d].sequence + 1
        /\ dev'[d].board.moves = dev[d].board.moves + 1
    BY <1>4, MoveSteps, OtherStays
  <2>2. dev[d].sequence \in Nat /\ dev[d].board.moves \in Nat /\ dev[d].isHost \in BOOLEAN
    BY FieldTypes
  <2>3. Mine(d)' <=> ~Mine(d)
    BY <2>1, <2>2, Parity DEF Mine
  <2>4. dev'[d].board.moves % 2 = 0 <=> ~(dev[d].board.moves % 2 = 0)
    BY <2>1, <2>2, Parity
  <2>5. SeatOf(d)'
    BY <1>1, <2>1, <2>3, <2>4 DEF SeatOf
  <2> QED BY <1>2, <2>1, <2>5
<1>5. ASSUME NEW d \in Device, ProposeRematch(d) PROVE \A c \in Device : SeatOf(c)'
  <2>1. /\ dev'[Other(d)] = dev[Other(d)] /\ dev'[d].link = dev[d].link
        /\ dev'[d].isHost = dev[d].isHost /\ dev'[d].sequence = dev[d].sequence
        /\ Agrees(d) => dev'[d].board = NewBoard(dev[d].game + 1)
                        /\ (dev'[d].goesFirst <=> dev[d].myTurn)
        /\ ~Agrees(d) => dev'[d].board = dev[d].board
                         /\ dev'[d].goesFirst = dev[d].goesFirst
    BY <1>5, ProposeSteps, OtherStays
  <2>2. Mine(d)' <=> Mine(d)
    BY <2>1 DEF Mine
  <2>3. CASE Agrees(d)
    <3>1. dev[d].myTurn <=> Mine(d)
      BY <1>1, <1>5, <2>3, AskerIs, PartsOf DEF TurnOf
    <3>2. dev'[d].board.moves = 0
      BY <2>1, <2>3 DEF NewBoard
    <3>3. dev'[d].board.moves % 2 = 0
      BY <3>2
    <3>4. SeatOf(d)'
      BY <2>1, <2>2, <2>3, <3>1, <3>3 DEF SeatOf
    <3> QED BY <1>2, <2>1, <3>4
  <2>4. CASE ~Agrees(d)
    <3>1. SeatOf(d)'
      BY <1>1, <2>1, <2>2, <2>4 DEF SeatOf, Plays
    <3> QED BY <1>2, <2>1, <3>1
  <2> QED BY <2>3, <2>4
<1>6. ASSUME NEW d \in Device, LeaveLink(d) PROVE \A c \in Device : SeatOf(c)'
  <2>1. dev'[Other(d)] = dev[Other(d)] /\ dev'[d].link = "Off"
    BY <1>6, LeaveSteps, OtherStays
  <2> QED BY <1>2, <2>1 DEF SeatOf, Plays
<1>7. CASE UNCHANGED vars
  BY <1>1, <1>7 DEF vars, SeatOf, Mine, Plays
<1> QED BY <1>3, <1>4, <1>5, <1>6, <1>7 DEF Next

(* Who has the turn sits in the seat that is to move: onRematch seats by   *)
(* linkYourTurn(), as chess does.  For any number of games, moves and      *)
(* notes, on a link in order. *)
THEOREM TheSeatIsTheTurn == ASSUME SeatByTurn PROVE Spec => []TurnMatchesSeat
<1>1. Types /\ TurnInv /\ SeatInv => TurnMatchesSeat
  <2> SUFFICES ASSUME Types, TurnInv, SeatInv, usage = "inOrder", NEW d \in Device,
                      Plays(d), dev[d].myTurn
               PROVE  dev[d].goesFirst <=> dev[d].board.moves % 2 = 0
    BY DEF TurnMatchesSeat, Plays
  <2>1. SeatOf(d) /\ TurnOf(d)
    BY DEF SeatInv, TurnInv
  <2>2. Mine(d)
    BY <2>1 DEF TurnOf
  <2>3. dev[d].goesFirst \in BOOLEAN
    BY FieldTypes
  <2> QED BY <2>1, <2>2, <2>3 DEF SeatOf
<1>2. Types /\ TurnInv /\ ConsentInv /\ BoardInv /\ SeatInv /\ [Next]_vars
        => (Types /\ TurnInv /\ ConsentInv /\ BoardInv /\ SeatInv)'
  BY InvStep, SeatStep
<1> QED BY <1>1, <1>2, InvInit, SeatInit, PTL DEF Spec

-----------------------------------------------------------------------------
(* The count. *)
LEMMA CountInit == Init => CountInv
<1> SUFFICES ASSUME Init, NEW d \in Device PROVE CountOf(d)
  BY DEF CountInv
<1>1. /\ dev[d].board = NewBoard(1) /\ dev[d].stage = "Live" /\ dev[d].game = 1
      /\ counted[d] = [g \in Games |-> 0]
  BY DEF Init
<1>2. ~dev[d].board.over
  BY <1>1 DEF NewBoard
<1>3. 1 \in Games
  BY RematchAssumption DEF Games
<1> QED BY <1>1, <1>2, <1>3 DEF CountOf

(* The games of a match are within the notes that are said in it. *)
LEMMA GamesAre ==
  ASSUME InOrderInv, NEW d \in Device
  PROVE  dev[d].game \in Games
<1>1. /\ dev[d].game >= 1 /\ dev[d].game <= dev[d].heard + 1
      /\ dev[d].heard <= Len(notes[Other(d)])
  BY PartsOf DEF AnswersOf
<1>2. Len(notes[Other(d)]) <= MaxNotes /\ Other(d) \in Device
  BY Pairs, PartsOf DEF NotesOf
<1>3. dev[d].game \in Nat /\ dev[d].heard \in Nat /\ Len(notes[Other(d)]) \in Nat
      /\ MaxNotes \in Nat
  BY <1>2, NumbersOf, RematchAssumption
<1> QED BY <1>1, <1>2, <1>3 DEF Games

LEMMA CountPass ==
  ASSUME InOrderInv, NEW d \in Device, CountOf(d), NEW board, NEW n, NEW link,
         PassFrom(d, board, n, link), PassTo(d, board, n, link)
  PROVE  CountOf(d)' /\ counted'[Other(d)] = counted[Other(d)]
<1> DEFINE e == Other(d)
           r == dev[d]
           s == dev'[d]
           g == dev[d].game
<1>1. e \in Device /\ Other(e) = d /\ e # d
  BY Pairs
<1>2. /\ s.game = IF Starts(d, n) THEN g + 1 ELSE g
      /\ s.board = IF board THEN out[e].board
                   ELSE IF Starts(d, n) THEN NewBoard(g + 1) ELSE r.board
      /\ ~s.board.over => s.stage = "Live"
      /\ s.board.over /\ (Starts(d, n) \/ r.stage = "Live") => s.stage = "Final"
      /\ s.board.over /\ ~Starts(d, n) /\ r.stage # "Live" => s.stage \in {r.stage, "Offer"}
      /\ counted' = IF s.board.over /\ (Starts(d, n) \/ r.stage = "Live")
                    THEN [counted EXCEPT ![d][s.board.game] = @ + 1] ELSE counted
  BY DEF PassTo
<1>3. g \in Games /\ g \in Nat /\ counted \in [Device -> [Games -> Nat]] /\ BoardOf(d)
  BY GamesAre, NumbersOf, PartsOf DEF InOrderInv, Types
<1>4. CASE Starts(d, n)
  <2>1. ~s.board.over
    <3>1. CASE board
      BY <1>2, <1>4, <3>1, BoardIs
    <3>2. CASE ~board
      BY <1>2, <1>4, <3>2 DEF NewBoard
    <3> QED BY <3>1, <3>2
  <2>2. s.stage = "Live" /\ counted' = counted /\ s.game = g + 1
    BY <1>2, <1>4, <2>1
  <2>3. /\ g + 1 \in Games => counted[d][g + 1] = 0
        /\ \A h \in Games : h > g + 1 => counted[d][h] = 0
    BY <1>3 DEF CountOf, Games
  <2>4. g + 1 \in Games
    <3>2. n = g
      BY <1>4, StartsIs
    <3>3. n <= Len(notes[e]) /\ Len(notes[e]) <= MaxNotes
      <4>1. n \in DOMAIN notes[e]
        BY <1>4 DEF PassFrom, Starts
      <4> QED BY <1>1, <4>1, NumbersOf, PartsOf DEF NotesOf
    <3>4. Len(notes[e]) \in Nat
      BY <1>1, NumbersOf
    <3>5. g <= MaxNotes
      BY <1>3, <3>2, <3>3, <3>4, RematchAssumption
    <3> QED BY <1>3, <3>5, RematchAssumption DEF Games
  <2> QED BY <2>1, <2>2, <2>3, <2>4 DEF CountOf
<1>5. CASE ~Starts(d, n)
  <2>1. s.game = g /\ s.board.game = g /\ (s.board.over \/ ~r.board.over)
    <3>1. CASE board
      <4>1. dev[e].game = g /\ out[e].board = dev[e].board /\ ~r.board.over
        BY <1>5, <3>1, BoardIs
      <4>2. dev[e].board.game = dev[e].game
        BY <1>1, PartsOf DEF BoardOf
      <4> QED BY <1>2, <1>5, <3>1, <4>1, <4>2
    <3>2. CASE ~board
      BY <1>2, <1>3, <1>5, <3>2 DEF BoardOf
    <3> QED BY <3>1, <3>2
  <2>2. ~s.board.over => r.stage = "Live"
    BY <1>3, <2>1 DEF BoardOf
  <2>3. CASE s.board.over /\ r.stage = "Live"
    <3>1. s.stage = "Final" /\ counted' = [counted EXCEPT ![d][g] = @ + 1]
      BY <1>2, <2>1, <2>3
    <3>2. /\ counted'[d][g] = counted[d][g] + 1
          /\ \A h \in Games : h # g => counted'[d][h] = counted[d][h]
          /\ counted'[e] = counted[e]
      BY <1>1, <1>3, <3>1
    <3>3. counted[d][g] = 0
      BY <2>3 DEF CountOf
    <3>4. counted'[d][g] = 1
      BY <3>2, <3>3
    <3>5. \A h \in Games : h > g => counted'[d][h] = 0
      BY <1>3, <3>2 DEF CountOf, Games
    <3> QED BY <2>1, <3>1, <3>2, <3>4, <3>5 DEF CountOf
  <2>4. CASE ~(s.board.over /\ r.stage = "Live")
    <3>1. counted' = counted
      BY <1>2, <1>5, <2>4
    <3>2. s.board.over => r.stage # "Live" /\ s.stage # "Live"
      BY <1>2, <1>5, <2>4
    <3> QED BY <1>2, <2>1, <2>2, <3>1, <3>2 DEF CountOf
  <2> QED BY <2>3, <2>4
<1> QED BY <1>4, <1>5

LEMMA CountPropose ==
  ASSUME InOrderInv, NEW d \in Device, CountOf(d), ProposeRematch(d)
  PROVE  CountOf(d)' /\ (dev[d].board.over => dev[d].stage # "Live")
<1> DEFINE r == dev[d]
           s == dev'[d]
           g == dev[d].game
<1>1. /\ due[d] /\ counted' = counted
      /\ Agrees(d) => s.game = g + 1 /\ s.board = NewBoard(g + 1) /\ s.stage = "Live"
      /\ ~Agrees(d) => /\ s.game = g /\ s.board = r.board
                       /\ s.stage = IF r.stage = "Final" THEN "Offer" ELSE r.stage
  BY ProposeSteps DEF InOrderInv
<1>2. r.board.over => r.stage # "Live"
  BY <1>1 DEF CountOf
<1>3. g \in Games /\ g \in Nat
  BY GamesAre, NumbersOf
<1>4. CASE Agrees(d)
  <2>1. ~s.board.over
    BY <1>1, <1>4 DEF NewBoard
  <2>2. g + 1 \in Games
    <3>1. /\ r.heard = g /\ r.heard <= Len(notes[Other(d)])
          /\ Len(notes[Other(d)]) <= MaxNotes
      BY <1>4, AskerIs, Pairs, PartsOf DEF AnswersOf, NotesOf
    <3>2. Len(notes[Other(d)]) \in Nat
      BY Pairs, NumbersOf
    <3> QED BY <1>3, <3>1, <3>2, RematchAssumption DEF Games
  <2>3. counted[d][g + 1] = 0 /\ \A h \in Games : h > g + 1 => counted[d][h] = 0
    BY <1>3, <2>2 DEF CountOf, Games
  <2> QED BY <1>1, <1>2, <1>4, <2>1, <2>3 DEF CountOf
<1>5. CASE ~Agrees(d)
  BY <1>1, <1>2, <1>5 DEF CountOf
<1> QED BY <1>4, <1>5

LEMMA CountStep ==
  Types /\ TurnInv /\ ConsentInv /\ BoardInv /\ CountInv /\ [Next]_vars => CountInv'
<1> SUFFICES ASSUME Types, TurnInv, ConsentInv, BoardInv, CountInv, [Next]_vars,
                    usage' = "inOrder"
             PROVE  \A c \in Device : dev'[c].link # "Off" => CountOf(c)'
  BY DEF CountInv
<1>1. InOrderInv /\ \A c \in Device : dev[c].link # "Off" => CountOf(c)
  BY UsageStays DEF InOrderInv, CountInv
<1>2. ASSUME NEW d \in Device, dev'[Other(d)] = dev[Other(d)],
             counted'[Other(d)] = counted[Other(d)], due'[Other(d)] = due[Other(d)],
             dev'[d].link # "Off" => CountOf(d)'
      PROVE  \A c \in Device : dev'[c].link # "Off" => CountOf(c)'
  <2>1. dev'[Other(d)].link # "Off" => CountOf(Other(d))'
    BY <1>1, <1>2, Pairs DEF CountOf
  <2> QED BY <1>2, <2>1, Pairs
<1>3. ASSUME NEW d \in Device, NEW v \in BOOLEAN, due' = [due EXCEPT ![d] = v]
      PROVE  due'[d] = v /\ due'[Other(d)] = due[Other(d)]
  BY <1>3, Pairs DEF Types
<1>4. ASSUME NEW d \in Device, Pass(d)
      PROVE  \A c \in Device : dev'[c].link # "Off" => CountOf(c)'
  <2>1. PICK board \in BOOLEAN, n \in Nat, link \in Link \ {"Off"} :
          PassFrom(d, board, n, link) /\ PassTo(d, board, n, link)
    BY <1>4, PassSteps
  <2>2. dev'[Other(d)] = dev[Other(d)] /\ dev[d].link # "Off"
    BY <1>1, <2>1, PassFields
  <2>3. CountOf(d)' /\ counted'[Other(d)] = counted[Other(d)]
    BY <1>1, <2>1, <2>2, CountPass
  <2>4. due'[Other(d)] = due[Other(d)]
    BY <1>3, <2>1 DEF PassTo
  <2> QED BY <1>2, <2>2, <2>3, <2>4
<1>5. ASSUME NEW d \in Device, Move(d)
      PROVE  \A c \in Device : dev'[c].link # "Off" => CountOf(c)'
  <2>1. /\ dev'[Other(d)] = dev[Other(d)] /\ counted' = counted
        /\ dev'[d].you = dev[d].you /\ dev'[d].stage = dev[d].stage
        /\ dev'[d].game = dev[d].game /\ due' = [due EXCEPT ![d] = FALSE]
    BY <1>5, MoveSteps, OtherStays
  <2>2. Plays(d) /\ dev[d].stage = "Live" /\ dev[d].you # "Ready"
    BY <1>1, <1>5, MoverIs
  <2>3. CountOf(d)
    BY <1>1, <2>2 DEF Plays
  <2>4. ~due'[d] /\ due'[Other(d)] = due[Other(d)]
    BY <1>3, <2>1
  <2>5. CountOf(d)'
    BY <2>1, <2>2, <2>3, <2>4 DEF CountOf
  <2> QED BY <1>2, <2>1, <2>4, <2>5
<1>6. ASSUME NEW d \in Device, ProposeRematch(d)
      PROVE  \A c \in Device : dev'[c].link # "Off" => CountOf(c)'
  <2>1. /\ dev'[Other(d)] = dev[Other(d)] /\ counted' = counted
        /\ due' = [due EXCEPT ![d] = FALSE]
    BY <1>6, ProposeSteps, OtherStays
  <2>2. CountOf(d)'
    BY <1>1, <1>6, AskerIs, CountPropose
  <2>3. due'[Other(d)] = due[Other(d)]
    BY <1>3, <2>1
  <2> QED BY <1>2, <2>1, <2>2, <2>3
<1>7. ASSUME NEW d \in Device, LeaveLink(d)
      PROVE  \A c \in Device : dev'[c].link # "Off" => CountOf(c)'
  <2>1. /\ dev'[Other(d)] = dev[Other(d)] /\ counted' = counted
        /\ due' = [due EXCEPT ![d] = FALSE] /\ dev'[d].link = "Off"
    BY <1>7, LeaveSteps, OtherStays
  <2>2. due'[Other(d)] = due[Other(d)]
    BY <1>3, <2>1
  <2> QED BY <1>2, <2>1, <2>2
<1>8. CASE UNCHANGED vars
  BY <1>1, <1>8 DEF vars, CountOf
<1> QED BY <1>4, <1>5, <1>6, <1>7, <1>8 DEF Next

(* A finished board is dealt over only by a rematch, and who agreed to one *)
(* had the end counted. *)
LEMMA CountedStep ==
  ASSUME Types, TurnInv, ConsentInv, BoardInv, CountInv, [Next]_vars,
         usage = "inOrder", NEW c \in Device, dev[c].board.over,
         dev'[c].board # dev[c].board
  PROVE  counted[c][dev[c].board.game] = 1
<1>1. InOrderInv
  BY DEF InOrderInv
<1>2. dev[c].board.game = dev[c].game
  BY <1>1, PartsOf DEF BoardOf
<1>3. ASSUME dev[c].link # "Off", dev[c].stage # "Live"
      PROVE  counted[c][dev[c].game] = 1
  BY <1>3 DEF CountInv, CountOf
<1>4. ASSUME NEW d \in Device, dev'[Other(d)] = dev[Other(d)] PROVE c = d
  BY <1>4, Pairs
<1>5. ASSUME NEW d \in Device, Pass(d) PROVE counted[c][dev[c].game] = 1
  <2>1. PICK board \in BOOLEAN, n \in Nat, link \in Link \ {"Off"} :
          PassFrom(d, board, n, link) /\ PassTo(d, board, n, link)
    BY <1>5, PassSteps
  <2>2. dev'[Other(d)] = dev[Other(d)] /\ dev[d].link # "Off"
    BY <1>1, <2>1, PassFields
  <2>3. c = d
    BY <1>4, <2>2
  <2>4. Starts(c, n)
    <3>1. dev'[c].board = IF board THEN out[Other(c)].board
                          ELSE IF Starts(c, n) THEN NewBoard(dev[c].game + 1) ELSE dev[c].board
      BY <2>1, <2>3 DEF PassTo
    <3>2. board => Starts(c, n)
      BY <1>1, <2>1, <2>3, BoardIs
    <3> QED BY <3>1, <3>2
  <2>5. dev[c].you = "Ready"
    BY <2>4 DEF Starts
  <2>6. dev[c].stage # "Live"
    BY <2>2, <2>3, <2>5 DEF CountInv, CountOf
  <2> QED BY <1>3, <2>2, <2>3, <2>6
<1>6. ASSUME NEW d \in Device, Move(d) PROVE FALSE
  BY <1>4, <1>6, MoveSteps, OtherStays
<1>7. ASSUME NEW d \in Device, ProposeRematch(d) PROVE counted[c][dev[c].game] = 1
  <2>1. dev'[Other(d)] = dev[Other(d)] /\ dev[d].link # "Off"
    BY <1>1, <1>7, ProposeSteps, OtherStays, AskerIs
  <2>2. c = d
    BY <1>4, <2>1
  <2>3. dev[c].stage # "Live"
    BY <1>1, <1>7, <2>1, <2>2, CountPropose DEF CountInv
  <2> QED BY <1>3, <2>1, <2>2, <2>3
<1>8. ASSUME NEW d \in Device, LeaveLink(d) PROVE FALSE
  BY <1>4, <1>8, LeaveSteps, OtherStays
<1>9. ~(UNCHANGED vars)
  BY DEF vars
<1> QED BY <1>2, <1>5, <1>6, <1>7, <1>8, <1>9 DEF Next

(* A finished board is not replaced before onMatchEnded has run for its    *)
(* game, and it ran once.  For any number of games, moves and notes, on a  *)
(* link in order. *)
THEOREM NothingUncounted == Spec => CountedBeforeGone
<1> DEFINE Inv == Types /\ TurnInv /\ ConsentInv /\ BoardInv /\ CountInv
<1>1. Init => Inv
  BY InvInit, CountInit
<1>2. Inv /\ [Next]_vars => Inv'
  BY InvStep, CountStep
<1>3. Inv /\ [Next]_vars
        => [\A d \in Device :
              (usage = "inOrder" /\ dev[d].board.over /\ dev'[d].board # dev[d].board)
                => counted[d][dev[d].board.game] = 1]_vars
  BY CountedStep
<1> QED BY <1>1, <1>2, <1>3, PTL DEF Spec, CountedBeforeGone

-----------------------------------------------------------------------------
(* The hold of the final board, which LinkActivity keeps between a match   *)
(* and the question: LinkEndgame, for every clock and every hold.          *)
CONSTANTS Clock, kHoldMs, kUnpaintedHoldMs, MaxGap
VARIABLES over, stage, painted, holdUntil, pendingPaint, now, frame, panel, shown, age, gap

Hold == INSTANCE LinkEndgame

(* A board that ended its game is up, and its player has not been asked.   *)
Held == over /\ stage = "Final"

(* It was drawn: the report of it waits or has been consumed. *)
Reported == painted \/ pendingPaint # 0

(* A frame of the final board is begun only when the game has ended, and   *)
(* so draws the finished board.                                            *)
FrameInv ==
  /\ over /\ stage = "Live" => frame.stage # "Final"
  /\ over /\ frame.stage = "Final" => frame.content \in {"Begun", "Finished"}

(* Once reported it stays: no frame of another picture is on its way.      *)
PanelInv ==
  Held /\ Reported => panel = "Finished" /\ (frame.content # "None" => frame.stage = "Final")

(* The deadline of a board that was not reported, and of one that was.  A  *)
(* report at millis() = 0 is stamped one later.                            *)
CeilingInv ==
  Held /\ ~painted /\ age < kUnpaintedHoldMs
    => holdUntil = Hold!After(now, kUnpaintedHoldMs - age)

DeadlineInv ==
  Held /\ Reported /\ shown < kHoldMs
    => \E r \in (kHoldMs - shown)..(kHoldMs + 1) : Hold!HoldUntil = Hold!After(now, r)

HoldInv == FrameInv /\ PanelInv /\ CeilingInv /\ DeadlineInv

(* Arithmetic on the clock. *)
LEMMA ModIs ==
  ASSUME NEW c \in Nat, c > 0, NEW x \in Int, NEW y \in 0..(c - 1),
         x = y \/ x = y + c \/ x = y - c
  PROVE  x % c = y
OBVIOUS

LEMMA AfterIs ==
  ASSUME Hold!ClockFits, NEW t \in Hold!Time, NEW ms \in 0..(Clock - 1)
  PROVE  /\ Hold!After(t, ms) = IF t + ms < Clock THEN t + ms ELSE t + ms - Clock
         /\ Hold!After(t, ms) \in Hold!Time
<1>1. Clock \in Nat /\ Clock > 0 /\ t \in Nat /\ t < Clock
  BY DEF Hold!ClockFits, Hold!Time
<1>2. CASE t + ms < Clock
  <2>1. (t + ms) % Clock = t + ms
    BY <1>1, <1>2, ModIs
  <2> QED BY <1>1, <1>2, <2>1 DEF Hold!After, Hold!Time
<1>3. CASE t + ms >= Clock
  <2>1. (t + ms) % Clock = t + ms - Clock
    BY <1>1, <1>3, ModIs
  <2> QED BY <1>1, <1>3, <2>1 DEF Hold!After, Hold!Time
<1> QED BY <1>1, <1>2, <1>3

(* A deadline is a tick closer a tick later. *)
LEMMA TickCloser ==
  ASSUME Hold!ClockFits, NEW t \in Hold!Time, NEW r \in 1..(Clock - 1)
  PROVE  Hold!After(Hold!After(t, 1), r - 1) = Hold!After(t, r)
<1>1. Clock \in Nat /\ Clock > 2 /\ t \in Nat /\ t < Clock
  BY DEF Hold!ClockFits, Hold!Time
<1>2. /\ Hold!After(t, 1) = IF t + 1 < Clock THEN t + 1 ELSE t + 1 - Clock
      /\ Hold!After(t, 1) \in Hold!Time
  BY <1>1, AfterIs
<1>3. Hold!After(t, r) = IF t + r < Clock THEN t + r ELSE t + r - Clock
  BY <1>1, AfterIs
<1> DEFINE u == Hold!After(t, 1)
<1>4. Hold!After(u, r - 1) = IF u + (r - 1) < Clock THEN u + (r - 1) ELSE u + (r - 1) - Clock
  BY <1>1, <1>2, AfterIs
<1> HIDE DEF u
<1> QED BY <1>1, <1>2, <1>3, <1>4 DEF u

(* One that is ahead, by less than half the clock, is not past. *)
LEMMA NotExpired ==
  ASSUME Hold!ClockFits, NEW t \in Hold!Time, NEW r \in 1..(Clock - 1), 2 * r < Clock
  PROVE  ~Hold!Expired(t, Hold!After(t, r))
<1>1. Clock \in Nat /\ Clock > 2 /\ t \in Nat /\ t < Clock
  BY DEF Hold!ClockFits, Hold!Time
<1> DEFINE u == Hold!After(t, r)
<1>2. u = (IF t + r < Clock THEN t + r ELSE t + r - Clock) /\ u \in Nat
  BY <1>1, AfterIs DEF Hold!Time
<1> HIDE DEF u
<1>3. (t - u) % Clock = Clock - r
  BY <1>1, <1>2, ModIs
<1>4. ~(Clock - r < Clock \div 2)
  BY <1>1
<1> QED BY <1>3, <1>4 DEF Hold!Expired, u

(* The stamp of a report is now, or one later.                             *)
LEMMA StampIs ==
  ASSUME Hold!ClockFits, NEW t \in Hold!Time
  PROVE  /\ Hold!Stamp(t) \in Hold!Time /\ Hold!Stamp(t) # 0
         /\ \E r \in kHoldMs..(kHoldMs + 1) :
              Hold!After(Hold!Stamp(t), kHoldMs) = Hold!After(t, r)
<1>1. /\ Clock \in Nat /\ Clock > 2 /\ t \in Nat /\ t < Clock
      /\ kHoldMs \in Nat /\ kHoldMs + 1 < Clock
  BY DEF Hold!ClockFits, Hold!Time
<1>2. CASE t # 0
  BY <1>1, <1>2 DEF Hold!Stamp
<1>3. CASE t = 0
  <2>1. Hold!After(1, kHoldMs) = kHoldMs + 1 \/ 1 + kHoldMs = Clock
    BY <1>1, AfterIs DEF Hold!Time
  <2>2. Hold!After(0, kHoldMs + 1) = kHoldMs + 1
    BY <1>1, AfterIs DEF Hold!Time
  <2> QED BY <1>1, <1>3, <2>1, <2>2 DEF Hold!Stamp, Hold!Time
<1> QED BY <1>2, <1>3

LEMMA HoldTypes ==
  ASSUME Hold!ClockFits, Hold!TypeOK, [Hold!Next]_(Hold!vars)
  PROVE  Hold!TypeOK'
<1> USE DEF Hold!TypeOK, Hold!Stage, Hold!Picture, Hold!NoFrame
<1>1. /\ Clock \in Nat /\ Clock > 2 /\ MaxGap \in Nat /\ kHoldMs \in Nat /\ kUnpaintedHoldMs \in Nat
      /\ 0 \in Hold!Time /\ kHoldMs \in 0..(Clock - 1) /\ kUnpaintedHoldMs \in 0..(Clock - 1)
      /\ 1 \in 0..(Clock - 1)
  BY DEF Hold!ClockFits, Hold!Time
<1>2. \A t \in Hold!Time : /\ Hold!After(t, 1) \in Hold!Time
                           /\ Hold!After(t, kHoldMs) \in Hold!Time
                           /\ Hold!After(t, kUnpaintedHoldMs) \in Hold!Time
                           /\ Hold!Stamp(t) \in Hold!Time
  BY <1>1, AfterIs, StampIs
<1>3. CASE Hold!Tick
  <2>1. Hold!UpTo(shown, kHoldMs) \in 0..kHoldMs /\ 0 \in 0..kHoldMs
    BY <1>1 DEF Hold!UpTo
  <2>2. Hold!UpTo(age, kUnpaintedHoldMs) \in 0..kUnpaintedHoldMs
    BY <1>1 DEF Hold!UpTo
  <2>3. gap < MaxGap => gap + 1 \in 0..MaxGap
    BY <1>1
  <2>4. shown' \in 0..kHoldMs
    BY <1>3, <2>1 DEF Hold!Tick
  <2>5. age' \in 0..kUnpaintedHoldMs
    BY <1>3, <2>2 DEF Hold!Tick
  <2>6. gap' \in 0..MaxGap
    BY <1>3, <2>3 DEF Hold!Tick
  <2>7. now' \in Hold!Time
    BY <1>2, <1>3 DEF Hold!Tick
  <2> QED BY <1>3, <2>4, <2>5, <2>6, <2>7 DEF Hold!Tick, Hold!endgame
<1>4. CASE Hold!GameEnds \/ Hold!BoardReplaced \/ Hold!Skip
  BY <1>4 DEF Hold!GameEnds, Hold!BoardReplaced, Hold!Skip, Hold!endgame, Hold!history
<1>5. CASE Hold!Rematch
  BY <1>1, <1>5 DEF Hold!Rematch, Hold!Reset, Hold!history
<1>6. CASE Hold!Update
  <2>1. /\ over' = over /\ now' = now /\ frame' = frame /\ panel' = panel /\ shown' = shown
        /\ gap' \in 0..MaxGap
    BY <1>1, <1>6 DEF Hold!Update, Hold!UpdateRunning, Hold!UpdateEnds, Hold!UpdateHeld, Hold!Passes
  <2>2. CASE Hold!UpdateRunning
    BY <1>1, <2>1, <2>2 DEF Hold!UpdateRunning, Hold!Reset
  <2>3. CASE Hold!UpdateEnds
    <3>1. holdUntil' \in Hold!Time /\ pendingPaint' \in Hold!Time
      BY <1>1, <1>2, <2>3 DEF Hold!UpdateEnds
    <3>2. age' \in 0..kUnpaintedHoldMs
      BY <1>1, <2>3 DEF Hold!UpdateEnds
    <3>3. stage' \in Hold!Stage /\ painted' \in BOOLEAN
      BY <2>3 DEF Hold!UpdateEnds
    <3> QED BY <2>1, <3>1, <3>2, <3>3
  <2>4. CASE Hold!UpdateHeld
    <3>1. Hold!HoldUntil \in Hold!Time
      BY <1>2 DEF Hold!HoldUntil
    <3>2. holdUntil' \in Hold!Time /\ pendingPaint' \in Hold!Time /\ age' = age
      BY <1>1, <2>4, <3>1 DEF Hold!UpdateHeld
    <3>3. stage' \in Hold!Stage /\ painted' \in BOOLEAN
      BY <2>4 DEF Hold!UpdateHeld, Hold!Painting
    <3> QED BY <2>1, <3>2, <3>3
  <2> QED BY <1>6, <2>2, <2>3, <2>4 DEF Hold!Update
<1>7. CASE Hold!FrameBegins \/ Hold!FrameDraws
  BY <1>7 DEF Hold!FrameBegins, Hold!FrameDraws, Hold!endgame, Hold!history
<1>8. CASE Hold!FramePainted
  <2>1. pendingPaint' \in Hold!Time /\ shown' \in 0..kHoldMs
    BY <1>1, <1>2, <1>8 DEF Hold!FramePainted
  <2> QED BY <1>8, <2>1 DEF Hold!FramePainted
<1>9. CASE UNCHANGED Hold!vars
  BY <1>9 DEF Hold!vars, Hold!endgame, Hold!history
<1> QED BY <1>3, <1>4, <1>5, <1>6, <1>7, <1>8, <1>9 DEF Hold!Next, Hold!Render

-----------------------------------------------------------------------------
LEMMA FrameStep ==
  ASSUME Hold!TypeOK, FrameInv, [Hold!Next]_(Hold!vars)
  PROVE  FrameInv'
<1> USE DEF FrameInv
<1>1. CASE Hold!FrameBegins
  BY <1>1 DEF Hold!FrameBegins, Hold!endgame
<1>2. CASE Hold!FrameDraws
  <2>1. frame'.stage = frame.stage
    BY <1>2 DEF Hold!FrameDraws, Hold!TypeOK
  <2> QED BY <1>2, <2>1 DEF Hold!FrameDraws, Hold!endgame, Hold!TypeOK
<1>3. CASE Hold!FramePainted
  BY <1>3 DEF Hold!FramePainted, Hold!NoFrame
<1>4. CASE Hold!GameEnds
  BY <1>4 DEF Hold!GameEnds, Hold!endgame
<1>5. CASE Hold!Rematch \/ Hold!BoardReplaced
  BY <1>5 DEF Hold!Rematch, Hold!BoardReplaced
<1>6. CASE Hold!Update
  BY <1>6 DEF Hold!Update, Hold!UpdateRunning, Hold!UpdateEnds, Hold!UpdateHeld, Hold!Passes
<1>7. CASE Hold!Tick \/ Hold!Skip \/ UNCHANGED Hold!vars
  BY <1>7 DEF Hold!Tick, Hold!Skip, Hold!vars, Hold!endgame
<1> QED BY <1>1, <1>2, <1>3, <1>4, <1>5, <1>6, <1>7 DEF Hold!Next, Hold!Render

LEMMA PanelStep ==
  ASSUME Hold!TypeOK, FrameInv, PanelInv, [Hold!Next]_(Hold!vars)
  PROVE  PanelInv'
<1> USE DEF PanelInv, Held, Reported
<1>1. CASE Hold!FrameBegins
  BY <1>1 DEF Hold!FrameBegins, Hold!endgame
<1>2. CASE Hold!FrameDraws
  <2>1. frame'.stage = frame.stage
    BY <1>2 DEF Hold!FrameDraws, Hold!TypeOK
  <2> QED BY <1>2, <2>1 DEF Hold!FrameDraws, Hold!endgame
<1>3. CASE Hold!FramePainted
  <2>1. Held' /\ Reported' => frame.stage = "Final"
    BY <1>3 DEF Hold!FramePainted
  <2> QED BY <1>3, <2>1 DEF Hold!FramePainted, FrameInv, Hold!NoFrame
<1>4. CASE Hold!GameEnds \/ Hold!Rematch \/ Hold!BoardReplaced
  BY <1>4 DEF Hold!GameEnds, Hold!Rematch, Hold!BoardReplaced, Hold!Reset, Hold!endgame
<1>5. CASE Hold!Update
  BY <1>5 DEF Hold!Update, Hold!UpdateRunning, Hold!UpdateEnds, Hold!UpdateHeld, Hold!Passes,
              Hold!Painting, Hold!TypeOK
<1>6. CASE Hold!Tick \/ Hold!Skip \/ UNCHANGED Hold!vars
  BY <1>6 DEF Hold!Tick, Hold!Skip, Hold!vars, Hold!endgame
<1> QED BY <1>1, <1>2, <1>3, <1>4, <1>5, <1>6 DEF Hold!Next, Hold!Render

LEMMA CeilingStep ==
  ASSUME Hold!ClockFits, Hold!TypeOK, CeilingInv, [Hold!Next]_(Hold!vars)
  PROVE  CeilingInv'
<1> USE DEF CeilingInv, Held
<1>1. /\ Clock \in Nat /\ kHoldMs \in Nat /\ kUnpaintedHoldMs \in Nat
      /\ 2 * kUnpaintedHoldMs < Clock /\ MaxGap \in Nat
  BY DEF Hold!ClockFits
<1>2. CASE Hold!Tick
  <2> SUFFICES ASSUME over, stage = "Final", ~painted, age' < kUnpaintedHoldMs
               PROVE  holdUntil = Hold!After(now', kUnpaintedHoldMs - age')
    BY <1>2 DEF Hold!Tick, Hold!endgame
  <2>1. age \in Nat /\ age + 1 < kUnpaintedHoldMs /\ age' = age + 1
    BY <1>1, <1>2 DEF Hold!Tick, Hold!UpTo, Hold!TypeOK
  <2>2. holdUntil = Hold!After(now, kUnpaintedHoldMs - age)
    BY <1>1, <2>1
  <2> DEFINE r == kUnpaintedHoldMs - age
  <2>3. r \in 1..(Clock - 1) /\ r - 1 = kUnpaintedHoldMs - age'
    BY <1>1, <2>1
  <2>4. Hold!After(Hold!After(now, 1), r - 1) = Hold!After(now, r)
    BY <2>3, TickCloser DEF Hold!TypeOK
  <2> QED BY <1>2, <2>2, <2>3, <2>4 DEF Hold!Tick
<1>3. CASE Hold!UpdateEnds
  <2>1. kUnpaintedHoldMs - 0 = kUnpaintedHoldMs
    BY <1>1
  <2> QED BY <1>3, <2>1 DEF Hold!UpdateEnds, Hold!Passes
<1>4. CASE Hold!UpdateHeld
  <2>1. painted' \/ ~Hold!Painting
    BY <1>4 DEF Hold!UpdateHeld
  <2> QED BY <1>4, <2>1 DEF Hold!UpdateHeld, Hold!HoldUntil, Hold!Passes, Hold!TypeOK
<1>5. CASE Hold!UpdateRunning
  BY <1>5 DEF Hold!UpdateRunning, Hold!Passes
<1>6. CASE Hold!GameEnds \/ Hold!Rematch \/ Hold!BoardReplaced \/ Hold!Skip
  BY <1>6 DEF Hold!GameEnds, Hold!Rematch, Hold!BoardReplaced, Hold!Skip, Hold!endgame
<1>7. CASE Hold!Render \/ UNCHANGED Hold!vars
  BY <1>7 DEF Hold!Render, Hold!FrameBegins, Hold!FrameDraws, Hold!FramePainted, Hold!vars,
              Hold!endgame, Hold!history
<1> QED BY <1>2, <1>3, <1>4, <1>5, <1>6, <1>7 DEF Hold!Next, Hold!Update

LEMMA RangeGrows ==
  ASSUME NEW k \in Nat, NEW n \in Nat, NEW r \in k..(k + 1)
  PROVE  r \in (k - n)..(k + 1)
OBVIOUS

LEMMA DeadlineStep ==
  ASSUME Hold!ClockFits, Hold!TypeOK, FrameInv, PanelInv, DeadlineInv, [Hold!Next]_(Hold!vars)
  PROVE  DeadlineInv'
<1> USE DEF DeadlineInv, Held, Reported
<1>1. /\ Clock \in Nat /\ kHoldMs \in Nat /\ kUnpaintedHoldMs \in Nat
      /\ 2 * (kHoldMs + 1) < Clock /\ shown \in Nat
  BY DEF Hold!ClockFits, Hold!TypeOK
<1>2. CASE Hold!Tick
  <2> SUFFICES ASSUME over, stage = "Final", Reported, shown' < kHoldMs
               PROVE  \E r \in (kHoldMs - shown')..(kHoldMs + 1) :
                        Hold!HoldUntil = Hold!After(now', r)
    BY <1>2 DEF Hold!Tick, Hold!endgame, Hold!HoldUntil, Hold!Painting
  <2>1. shown' = shown + 1
    BY <1>1, <1>2 DEF Hold!Tick, Hold!UpTo, PanelInv
  <2>2. PICK r \in (kHoldMs - shown)..(kHoldMs + 1) : Hold!HoldUntil = Hold!After(now, r)
    BY <1>1, <2>1
  <2>3. r \in 1..(Clock - 1) /\ r - 1 \in (kHoldMs - shown')..(kHoldMs + 1)
    BY <1>1, <2>1
  <2>4. Hold!After(Hold!After(now, 1), r - 1) = Hold!After(now, r)
    BY <2>3, TickCloser DEF Hold!TypeOK
  <2> QED BY <1>2, <2>2, <2>3, <2>4 DEF Hold!Tick
<1>3. CASE Hold!FramePainted
  <2> SUFFICES ASSUME over, stage = "Final", Reported', shown' < kHoldMs
               PROVE  \E r \in (kHoldMs - shown')..(kHoldMs + 1) :
                        Hold!HoldUntil' = Hold!After(now, r)
    BY <1>3 DEF Hold!FramePainted
  <2>1. CASE painted
    <3>1. panel' = panel /\ shown' = shown
      BY <1>3, <2>1 DEF Hold!FramePainted, PanelInv, FrameInv
    <3>2. Hold!HoldUntil' = Hold!HoldUntil
      BY <1>3, <2>1 DEF Hold!FramePainted, Hold!HoldUntil, Hold!Painting
    <3> QED BY <2>1, <3>1, <3>2
  <2>2. CASE ~painted
    <3>1. frame.stage = "Final"
      BY <1>3, <2>2 DEF Hold!FramePainted, PanelInv
    <3>2. pendingPaint' = Hold!Stamp(now) /\ Hold!Stamp(now) # 0
      BY <1>3, <3>1, StampIs DEF Hold!FramePainted, Hold!TypeOK
    <3>3. Hold!HoldUntil' = Hold!After(Hold!Stamp(now), kHoldMs)
      BY <1>3, <2>2, <3>2 DEF Hold!FramePainted, Hold!HoldUntil, Hold!Painting
    <3>4. PICK r \in kHoldMs..(kHoldMs + 1) :
             Hold!After(Hold!Stamp(now), kHoldMs) = Hold!After(now, r)
      BY StampIs DEF Hold!TypeOK
    <3>5. shown' \in Nat
      BY <1>1, <1>3 DEF Hold!FramePainted
    <3>6. r \in (kHoldMs - shown')..(kHoldMs + 1)
      BY <1>1, <3>5, RangeGrows
    <3> QED BY <3>3, <3>4, <3>6
  <2> QED BY <2>1, <2>2 DEF Hold!TypeOK
<1>4. CASE Hold!UpdateHeld
  <2> SUFFICES ASSUME stage' = "Final", painted', shown < kHoldMs
               PROVE  \E r \in (kHoldMs - shown)..(kHoldMs + 1) :
                        Hold!HoldUntil' = Hold!After(now, r)
    BY <1>4 DEF Hold!UpdateHeld, Hold!Passes
  <2>1. over /\ stage = "Final" /\ Reported
    BY <1>4 DEF Hold!UpdateHeld, Hold!Painting
  <2>2. Hold!HoldUntil' = Hold!HoldUntil
    BY <1>4 DEF Hold!UpdateHeld, Hold!HoldUntil, Hold!Painting
  <2> QED BY <2>1, <2>2
<1>5. CASE Hold!UpdateEnds \/ Hold!UpdateRunning
  <2>1. ~(Held' /\ Reported')
    BY <1>5 DEF Hold!UpdateEnds, Hold!UpdateRunning, Hold!Passes
  <2> QED BY <2>1
<1>6. CASE Hold!GameEnds \/ Hold!Rematch \/ Hold!BoardReplaced \/ Hold!Skip
  BY <1>6 DEF Hold!GameEnds, Hold!Rematch, Hold!BoardReplaced, Hold!Skip, Hold!Reset, Hold!endgame
<1>7. CASE Hold!FrameBegins \/ Hold!FrameDraws \/ UNCHANGED Hold!vars
  <2>1. UNCHANGED <<over, stage, painted, holdUntil, pendingPaint, now, shown>>
    BY <1>7 DEF Hold!FrameBegins, Hold!FrameDraws, Hold!vars, Hold!endgame, Hold!history
  <2>2. Hold!HoldUntil' = Hold!HoldUntil
    BY <2>1 DEF Hold!HoldUntil, Hold!Painting
  <2> QED BY <2>1, <2>2
<1> QED BY <1>2, <1>3, <1>4, <1>5, <1>6, <1>7 DEF Hold!Next, Hold!Update, Hold!Render

(* The board that ended the game has been on the panel for the whole hold  *)
(* before ANOTHER GAME? replaces it, unless the player asked or the ceiling*)
(* was reached, wherever the clock wraps.  (Endgame::update)               *)
THEOREM TheLoserSawIt ==
  ASSUME Hold!ClockFits
  PROVE  Hold!Spec => Hold!FinalBoardIsRead
<1> DEFINE Inv == Hold!TypeOK /\ HoldInv
<1>1. Hold!Init => Inv
  <2> SUFFICES ASSUME Hold!Init PROVE Inv
    OBVIOUS
  <2>1. 0 \in Hold!Time /\ 0 \in 0..kHoldMs /\ 0 \in 0..kUnpaintedHoldMs /\ 0 \in 0..MaxGap
    BY DEF Hold!Time, Hold!ClockFits
  <2>2. Hold!TypeOK
    BY <2>1 DEF Hold!Init, Hold!TypeOK, Hold!Stage, Hold!Picture, Hold!NoFrame
  <2> QED BY <2>2 DEF Hold!Init, HoldInv, FrameInv, PanelInv, CeilingInv, DeadlineInv, Held
<1>2. Inv /\ [Hold!Next]_(Hold!vars) => Inv'
  BY HoldTypes, FrameStep, PanelStep, CeilingStep, DeadlineStep DEF HoldInv
<1>3. ASSUME Inv, [Hold!Next]_(Hold!vars), stage = "Final", stage' = "Offer", ~Hold!Skip
      PROVE  shown >= kHoldMs \/ age >= kUnpaintedHoldMs
  <2> SUFFICES ASSUME shown < kHoldMs, age < kUnpaintedHoldMs
               PROVE  FALSE
    BY <1>3 DEF Hold!TypeOK, Hold!ClockFits
  <2>1. Hold!UpdateHeld /\ Hold!Expired(now, Hold!HoldUntil)
    BY <1>3 DEF Hold!Next, Hold!vars, Hold!endgame, Hold!Tick, Hold!GameEnds, Hold!Rematch, Hold!Reset,
                Hold!BoardReplaced, Hold!Update, Hold!UpdateRunning, Hold!UpdateEnds, Hold!UpdateHeld,
                Hold!Render, Hold!FrameBegins, Hold!FrameDraws, Hold!FramePainted
  <2>2. Held
    BY <1>3, <2>1 DEF Held, Hold!UpdateHeld
  <2>3. /\ Clock \in Nat /\ kHoldMs \in Nat /\ kUnpaintedHoldMs \in Nat /\ MaxGap \in Nat
        /\ kHoldMs < kUnpaintedHoldMs /\ 2 * (kUnpaintedHoldMs + MaxGap) < Clock
        /\ now \in Hold!Time /\ shown \in Nat /\ age \in Nat
    BY <1>3 DEF Hold!TypeOK, Hold!ClockFits
  <2>4. \E r \in 1..(Clock - 1) : 2 * r < Clock /\ Hold!HoldUntil = Hold!After(now, r)
    <3>1. CASE Reported
      <4>1. PICK r \in (kHoldMs - shown)..(kHoldMs + 1) : Hold!HoldUntil = Hold!After(now, r)
        BY <1>3, <2>2, <3>1 DEF HoldInv, DeadlineInv
      <4>2. r \in 1..(Clock - 1) /\ 2 * r < Clock
        BY <2>3
      <4> QED BY <4>1, <4>2
    <3>2. CASE ~Reported
      <4>1. Hold!HoldUntil = Hold!After(now, kUnpaintedHoldMs - age)
        BY <1>3, <2>2, <3>2 DEF HoldInv, CeilingInv, Reported, Hold!HoldUntil, Hold!Painting
      <4>2. /\ kUnpaintedHoldMs - age \in 1..(Clock - 1)
            /\ 2 * (kUnpaintedHoldMs - age) < Clock
        BY <2>3
      <4> QED BY <4>1, <4>2
    <3> QED BY <3>1, <3>2
  <2> QED BY <2>1, <2>3, <2>4, NotExpired
<1>4. Inv /\ [Hold!Next]_(Hold!vars) =>
        [(stage = "Final" /\ stage' = "Offer" /\ ~Hold!Skip)
           => (shown >= kHoldMs \/ age >= kUnpaintedHoldMs)]_(Hold!vars)
  BY <1>3
<1> HIDE DEF Inv
<1> QED BY <1>1, <1>2, <1>4, PTL DEF Hold!Spec, Hold!FinalBoardIsRead
=============================================================================
