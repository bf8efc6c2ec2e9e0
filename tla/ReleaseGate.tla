---------------------------- MODULE ReleaseGate ----------------------------
(***************************************************************************)
(* One physical press, one logical event.  Source:                         *)
(* src/util/ButtonReleaseGate.{h,cpp}, src/MappedInputManager.{h,cpp} and  *)
(* the order in which ActivityManager::loop() calls them.                  *)
(*                                                                         *)
(* Two things keep a release from who must not act on it: the gate, armed  *)
(* with the buttons that are down when the activity on top changes, and    *)
(* the suppression of the release that follows a long press.  Buttons are  *)
(* the gated ones; a mask is a set.                                        *)
(*                                                                         *)
(* owner, honest and held are history, per button: who was on top when it  *)
(* was pressed, whether that is still so with no long press taken from it, *)
(* and whether this press was taken as a long one.  longPresses, pumps and *)
(* skips never change: they say what the screens in use do.                *)
(*                                                                         *)
(* An operator marked "Fault" is the definition below it with a plausible  *)
(* bug; no specification uses it.                                          *)
(***************************************************************************)
CONSTANTS
  Button,       \* GATED_BUTTONS
  Activity      \* what can be on top

ASSUME ActivityAssumption == Activity # {}

VARIABLES
  level, pressEdges, releaseEdges,  \* what the last poll found
  armed,                            \* ButtonReleaseGate
  suppressedReleaseButtons, longPressFiredButtons,
  top,                              \* the activity on top
  pass,                             \* where the main loop is
  delivered,                        \* the releases it was given in this pass
  owner, honest, held,
  longPresses,                      \* some screen acts on long presses
  pumps,                            \* some transfer polls from inside a pass
  skips                             \* some pass ends before the activities run

vars == <<level, pressEdges, releaseEdges, armed, suppressedReleaseButtons,
          longPressFiredButtons, top, pass, delivered, owner, honest, held,
          longPresses, pumps, skips>>

poll == <<level, pressEdges, releaseEdges>>
history == <<owner, honest, held>>
usage == <<longPresses, pumps, skips>>

(* An arm stands only while its press lasts, to the frame of its release.  *)
TypeOK ==
  /\ level \subseteq Button /\ pressEdges \subseteq level /\ releaseEdges \subseteq Button \ level
  /\ armed \subseteq level \cup releaseEdges
  /\ suppressedReleaseButtons \subseteq Button /\ longPressFiredButtons \subseteq level
  /\ top \in Activity
  /\ pass \in {"idle", "polled", "reading", "read", "over"}
  /\ delivered \subseteq Button
  /\ owner \in [Button -> Activity] /\ honest \in [Button -> BOOLEAN] /\ held \in [Button -> BOOLEAN]
  /\ longPresses \in BOOLEAN /\ pumps \in BOOLEAN /\ skips \in BOOLEAN

Init ==
  /\ level = {} /\ pressEdges = {} /\ releaseEdges = {}
  /\ armed = {} /\ suppressedReleaseButtons = {} /\ longPressFiredButtons = {}
  /\ top \in Activity
  /\ pass = "idle" /\ delivered = {}
  /\ owner = [b \in Button |-> top]
  /\ honest = [b \in Button |-> FALSE] /\ held = [b \in Button |-> FALSE]
  /\ longPresses \in BOOLEAN /\ pumps \in BOOLEAN /\ skips \in BOOLEAN

-----------------------------------------------------------------------------
(* ButtonReleaseGate. *)

(* Fault: a fresh press does not start a fresh cycle.                      *)
SettleThroughPress(presses, releases, down) == armed \cap (releases \cup down)

Settle(presses, releases, down) == (armed \ presses) \cap (releases \cup down)

SwallowsRelease(b) == b \in armed

-----------------------------------------------------------------------------
(* MappedInputManager. *)

(* update(): the buttons that are down now, the edges that makes, and the  *)
(* gate settled before anyone reads.                                       *)
Update(down) ==
  LET presses  == down \ level
      releases == level \ down
  IN /\ level' = down /\ pressEdges' = presses /\ releaseEdges' = releases
     /\ armed' = Settle(presses, releases, down)
     /\ longPressFiredButtons' = longPressFiredButtons \cap down
     /\ owner' = [b \in Button |-> IF b \in presses THEN top ELSE owner[b]]
     /\ honest' = [b \in Button |-> b \in presses \/ honest[b]]
     /\ held' = [b \in Button |-> b \notin presses /\ held[b]]
     /\ delivered' = {}
     /\ UNCHANGED <<suppressedReleaseButtons, top, usage>>

(* What wasReleased() says: the gate hides what it swallows.               *)
WasReleased == {b \in releaseEdges : ~SwallowsRelease(b)}

Poll == /\ pass = "idle"
        /\ \E down \in SUBSET Button : Update(down)
        /\ pass' = "polled"

(* consumeSuppressedRelease: the whole pass is given up for it.            *)
Consumed == suppressedReleaseButtons \cap WasReleased

(* Fault: the release is forgotten and the pass goes on.                   *)
ConsumeSuppressedReleaseNot ==
  /\ pass = "polled"
  /\ pass' = "reading"
  /\ suppressedReleaseButtons' = suppressedReleaseButtons \ Consumed
  /\ UNCHANGED <<usage, poll, history, armed, longPressFiredButtons, top, delivered>>

ConsumeSuppressedRelease ==
  /\ pass = "polled"
  /\ pass' = IF Consumed = {} THEN "reading" ELSE "over"
  /\ suppressedReleaseButtons' = suppressedReleaseButtons \ Consumed
  /\ UNCHANGED <<usage, poll, history, armed, longPressFiredButtons, top, delivered>>

(* The activity on top reads its releases.                                 *)
ReadReleases ==
  /\ pass = "reading"
  /\ pass' = "read"
  /\ delivered' = WasReleased
  /\ UNCHANGED <<usage, poll, history, armed, suppressedReleaseButtons, longPressFiredButtons, top>>

(* wasLongPressed() crosses its threshold, some frames into the press.     *)
LongPress(b) ==
  /\ longPresses
  /\ pass \in {"reading", "read"}
  /\ b \in level \ pressEdges /\ b \notin longPressFiredButtons
  /\ longPressFiredButtons' = longPressFiredButtons \cup {b}
  /\ suppressedReleaseButtons' = suppressedReleaseButtons \cup {b}
  /\ honest' = [honest EXCEPT ![b] = FALSE]
  /\ held' = [held EXCEPT ![b] = TRUE]
  /\ UNCHANGED <<usage, poll, armed, top, pass, delivered, owner>>

(* A blocking transfer advances the latch itself, inside one loop().       *)
Pump == /\ pumps /\ pass \in {"reading", "read"}
        /\ \E down \in SUBSET Button : Update(down)
        /\ pass' = "reading"

(* main.cpp's loop() returns before the activities run: a screenshot, the  *)
(* release of a power press that woke the device, a double click.          *)
SkipPass == /\ skips /\ pass = "polled"
            /\ pass' = "idle"
            /\ UNCHANGED <<usage, poll, history, armed, suppressedReleaseButtons, longPressFiredButtons,
                           top, delivered>>

-----------------------------------------------------------------------------
(* ActivityManager. *)

(* Fault: only buttons seen going down in this frame are armed.            *)
SwallowNextReleaseOfPressedButtons == armed \cup pressEdges

(* swallowNextReleaseOfHeldButtons.                                        *)
SwallowNextReleaseOfHeldButtons == armed \cup level \cup pressEdges

(* setCurrentActivity: at the end of a pass, after the activity has read.  *)
SetCurrentActivity(next) ==
  /\ pass \in {"reading", "read"} /\ next # top
  /\ top' = next
  /\ armed' = SwallowNextReleaseOfHeldButtons
  /\ pass' = "over"
  /\ delivered' = {}
  /\ honest' = [b \in Button |-> honest[b] /\ b \notin level]
  /\ UNCHANGED <<usage, poll, suppressedReleaseButtons, longPressFiredButtons, owner, held>>

EndPass ==
  /\ pass \in {"reading", "read", "over"}
  /\ pass' = "idle"
  /\ delivered' = {}
  /\ UNCHANGED <<usage, poll, history, armed, suppressedReleaseButtons, longPressFiredButtons, top>>

Next == \/ Poll \/ SkipPass \/ ConsumeSuppressedRelease \/ ReadReleases \/ Pump \/ EndPass
        \/ \E b \in Button : LongPress(b)
        \/ \E a \in Activity : SetCurrentActivity(a)

Spec == Init /\ [][Next]_vars

-----------------------------------------------------------------------------
(* Properties. *)

(* "A release belongs to whoever saw the press": the activity on top acts  *)
(* only on releases of presses made while it was there.                    *)
ReleaseBelongs == \A b \in delivered : owner[b] = top

(* The release that follows a long press lands nowhere, neither in the     *)
(* activity that acted on it nor in the one it opened, where nothing polls *)
(* the buttons from inside a pass.                                         *)
LongPressHasNoRelease == ~pumps => \A b \in delivered : ~held[b]

(* Where no screen acts on long presses, a button pressed and let go under *)
(* one activity is read by it ("a later, honest press/release pair passes  *)
(* through untouched").                                                    *)
HonestReleaseIsRead ==
  [][~longPresses =>
       /\ pass = "polled" /\ pass' = "over" => \A b \in releaseEdges : ~honest[b]
       /\ pass = "reading" /\ pass' = "read" => \A b \in releaseEdges : honest[b] => b \in delivered'
    ]_vars

=============================================================================
