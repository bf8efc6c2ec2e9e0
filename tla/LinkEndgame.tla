---------------------------- MODULE LinkEndgame ----------------------------
(***************************************************************************)
(* The end of a match on one device: the final board is held on the panel  *)
(* before ANOTHER GAME? is asked.  Source: src/apps_local/link/            *)
(* LinkEndgame.h and LinkActivity::render.                                 *)
(*                                                                         *)
(* Two tasks.  The loop task runs update(), reset() and skip(); the render *)
(* task reads the stage, builds a frame, puts it on the panel and reports  *)
(* it.  They share the stage byte and pendingPaintMs.  millis() is a clock *)
(* of Clock values that wraps round, and 0 means "nothing pending".        *)
(*                                                                         *)
(* shown, age and gap are history: the program does not keep them.         *)
(*                                                                         *)
(* An operator marked "Fault" is the definition below it with a plausible  *)
(* bug.  No specification uses it; it is there to show that the properties *)
(* can fail.                                                               *)
(***************************************************************************)
EXTENDS Integers

CONSTANTS
  Clock,             \* values of millis() before it wraps   (2^32)
  kHoldMs,           \* how long a painted final board stays
  kUnpaintedHoldMs,  \* how long one stays that was never reported
  MaxGap             \* bound: ticks between two passes of the loop

ClockFits ==
  /\ {Clock, kHoldMs, kUnpaintedHoldMs, MaxGap} \subseteq Nat
  /\ kHoldMs < kUnpaintedHoldMs
  /\ 2 * (kUnpaintedHoldMs + MaxGap) < Clock

ASSUME ClockAssumption == ClockFits

VARIABLES
  over,       \* matchGameOver()
  stage, painted, holdUntil, pendingPaint,
  now,
  frame,      \* the frame the render task is working on
  panel,      \* what the reader sees
  shown,      \* ticks the finished board has been on the panel, up to kHoldMs
  age,        \* ticks since onMatchEnded, up to kUnpaintedHoldMs
  gap         \* ticks since the last pass

endgame == <<stage, painted, holdUntil, pendingPaint>>
history == <<shown, age, gap>>
vars == <<over, endgame, now, frame, panel, history>>

Stage == {"Live", "Final", "Offer"}
Picture == {"None", "Playing", "Finished", "Link"}
NoFrame == [stage |-> "Live", content |-> "None"]
Time == 0..(Clock - 1)

(* Every time fits the clock.                                              *)
TypeOK ==
  /\ over \in BOOLEAN /\ stage \in Stage /\ painted \in BOOLEAN
  /\ holdUntil \in Time /\ pendingPaint \in Time /\ now \in Time
  /\ frame \in [stage : Stage, content : Picture] \cup {[stage |-> s, content |-> "Begun"] : s \in Stage}
  /\ panel \in Picture
  /\ shown \in 0..kHoldMs /\ age \in 0..kUnpaintedHoldMs /\ gap \in 0..MaxGap

Init ==
  /\ over = FALSE /\ stage = "Live" /\ painted = FALSE
  /\ holdUntil = 0 /\ pendingPaint = 0
  /\ now \in Time
  /\ frame = NoFrame /\ panel = "Playing"
  /\ shown = 0 /\ age = 0 /\ gap = 0

(* uint32_t arithmetic on millis(). *)
After(t, ms) == (t + ms) % Clock

(* Endgame::expired: the difference, read as a signed number. *)
Expired(t, until) == (t - until) % Clock < Clock \div 2

(* notePainted: a stamp of 0 would read as nothing pending. *)
Stamp(t) == IF t = 0 THEN 1 ELSE t

-----------------------------------------------------------------------------
(* Time.  The loop is never away for longer than MaxGap. *)
UpTo(n, max) == IF n < max THEN n + 1 ELSE max

Tick == /\ gap < MaxGap
        /\ now' = After(now, 1)
        /\ gap' = gap + 1
        /\ shown' = IF panel = "Finished" THEN UpTo(shown, kHoldMs) ELSE 0
        /\ age' = IF stage = "Final" THEN UpTo(age, kUnpaintedHoldMs) ELSE age
        /\ UNCHANGED <<over, endgame, frame, panel>>

(* The loop task. *)

(* A move ends the game: this player's, or the peer's in takeOpponentState.*)
(* A whole game outlasts any frame of the one before it.                   *)
GameEnds == /\ ~over /\ stage = "Live" /\ frame.stage # "Final" /\ panel # "Finished"
            /\ over' = TRUE
            /\ UNCHANGED <<endgame, now, frame, panel, history>>

(* Endgame::reset. *)
Reset == stage' = "Live" /\ painted' = FALSE /\ holdUntil' = 0 /\ pendingPaint' = 0

(* startRematch: both sides have said yes. *)
Rematch == /\ over /\ stage # "Live"
           /\ over' = FALSE
           /\ Reset
           /\ UNCHANGED <<now, frame, panel, history>>

(* The peer's first board of the next game, adopted before its answer was  *)
(* heard: a rematch without reset().                                       *)
BoardReplaced == /\ over /\ stage # "Live"
                 /\ over' = FALSE
                 /\ UNCHANGED <<endgame, now, frame, panel, history>>

(* A report waiting to be consumed starts the hold, once.                  *)
Painting == pendingPaint # 0 /\ stage = "Final" /\ ~painted

(* The end of the hold, once the reports have been consumed. *)
HoldUntil == IF Painting THEN After(pendingPaint, kHoldMs) ELSE holdUntil

Passes == gap' = 0 /\ UNCHANGED <<over, now, frame, panel, shown>>

(* update() while the game runs. *)
UpdateRunning == /\ ~over
                 /\ IF stage = "Live" THEN pendingPaint' = 0 /\ UNCHANGED <<stage, painted, holdUntil>>
                                      ELSE Reset
                 /\ UNCHANGED age
                 /\ Passes

(* update() on the pass the game has ended: onMatchEnded. *)
UpdateEnds ==
  /\ over /\ stage = "Live"
  /\ stage' = "Final" /\ painted' = FALSE /\ age' = 0
  /\ holdUntil' = After(now, kUnpaintedHoldMs) /\ pendingPaint' = 0
  /\ Passes

(* Fault: a board that was never reported is held for ever.                *)
UpdateHeldNoCeiling ==
  /\ over /\ stage # "Live"
  /\ painted' = (painted \/ Painting) /\ holdUntil' = HoldUntil /\ pendingPaint' = 0
  /\ stage' = IF stage = "Final" /\ (painted \/ Painting) /\ Expired(now, HoldUntil)
              THEN "Offer" ELSE stage
  /\ UNCHANGED age
  /\ Passes

(* update() while the final board is up, and after. *)
UpdateHeld ==
  /\ over /\ stage # "Live"
  /\ painted' = (painted \/ Painting) /\ holdUntil' = HoldUntil /\ pendingPaint' = 0
  /\ stage' = IF stage = "Final" /\ Expired(now, HoldUntil) THEN "Offer" ELSE stage
  /\ UNCHANGED age
  /\ Passes

Update == UpdateRunning \/ UpdateEnds \/ UpdateHeld

(* The player asks for another game while the final board is up. *)
Skip == /\ stage = "Final"
        /\ stage' = "Offer"
        /\ UNCHANGED <<over, painted, holdUntil, pendingPaint, now, frame, panel, history>>

-----------------------------------------------------------------------------
(* The render task: render() in the steps another task can get between. *)

(* Who owns the screen, and the stage the frame is built in. *)
FrameBegins == /\ frame.content = "None"
               /\ frame' = [stage |-> stage, content |-> IF stage = "Offer" THEN "Link" ELSE "Begun"]
               /\ UNCHANGED <<over, endgame, now, panel, history>>

(* gameRender draws the game as it finds it. *)
FrameDraws == /\ frame.content = "Begun"
              /\ frame' = [frame EXCEPT !.content = IF over THEN "Finished" ELSE "Playing"]
              /\ UNCHANGED <<over, endgame, now, panel, history>>

(* Fault: the stage is read when the frame is done.                        *)
FramePaintedStageNow ==
  /\ frame.content \in {"Playing", "Finished", "Link"}
  /\ panel' = frame.content
  /\ shown' = IF panel' = panel THEN shown ELSE 0
  /\ pendingPaint' = IF stage = "Final" THEN Stamp(now) ELSE pendingPaint
  /\ frame' = NoFrame
  /\ UNCHANGED <<over, stage, painted, holdUntil, now, age, gap>>

(* displayBuffer, and notePainted unless the link screen was drawn. *)
FramePainted ==
  /\ frame.content \in {"Playing", "Finished", "Link"}
  /\ panel' = frame.content
  /\ shown' = IF panel' = panel THEN shown ELSE 0
  /\ pendingPaint' = IF frame.stage = "Final" THEN Stamp(now) ELSE pendingPaint
  /\ frame' = NoFrame
  /\ UNCHANGED <<over, stage, painted, holdUntil, now, age, gap>>

Render == FrameBegins \/ FrameDraws \/ FramePainted

Next == \/ Tick \/ GameEnds \/ Rematch \/ BoardReplaced \/ Update \/ Skip
        \/ Render

Spec == Init /\ [][Next]_vars

(* The loop keeps turning and time passes.  The render task owes nothing:  *)
(* the ceiling is there for a frame that is never reported.                *)
LiveSpec == Spec /\ WF_vars(Update) /\ WF_vars(Tick)

-----------------------------------------------------------------------------
(* Properties. *)

(* The board that ended the game has been on the panel for the whole hold  *)
(* before ANOTHER GAME? replaces it, unless the player asked or the ceiling*)
(* was reached.  (LinkEndgame.h: the loser never saw the move)             *)
FinalBoardIsRead ==
  [][(stage = "Final" /\ stage' = "Offer" /\ ~Skip)
       => (shown >= kHoldMs \/ age >= kUnpaintedHoldMs)]_vars

(* A finished board does not stay for ever.  ("a player stuck forever")    *)
AsksInTheEnd == (stage = "Final") ~> (stage # "Final")
=============================================================================
