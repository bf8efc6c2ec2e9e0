------------------------- MODULE ReleaseGateProofs -------------------------
(***************************************************************************)
(* The release gate for any buttons and any activities, whether or not     *)
(* passes are cut short.  Whose release it is holds with every switch;     *)
(* that honest releases are read needs that nothing is held long; that a   *)
(* long press has no release needs that nothing polls from inside a pass.  *)
(***************************************************************************)
EXTENDS ReleaseGate, TLAPS

(* A button that is down belongs to the screen on top or is armed, and so  *)
(* does one that has just been let go while the pass can still read it.    *)
Whose ==
  /\ \A b \in level : owner[b] = top \/ b \in armed
  /\ pass \in {"polled", "reading", "read"} =>
       \A b \in releaseEdges : owner[b] = top \/ b \in armed

(* Only presses that changed hands are armed.                              *)
ArmedNotHonest == \A b \in armed : ~honest[b]

(* What was delivered, the gate let through in this pass.                  *)
DeliveredLetThrough ==
  /\ delivered \subseteq WasReleased
  /\ delivered # {} => pass = "read"

GateInvariant == TypeOK /\ Whose /\ ArmedNotHonest /\ DeliveredLetThrough

LEMMA InitGate == Init => GateInvariant
  BY ActivityAssumption
  DEF Init, GateInvariant, TypeOK, Whose, ArmedNotHonest, DeliveredLetThrough, WasReleased, SwallowsRelease

(* A poll, whoever makes it and whatever the buttons do.                   *)
LEMMA UpdateKeepsGate ==
  ASSUME GateInvariant, NEW down \in SUBSET Button, Update(down),
         pass' \in {"polled", "reading"}
  PROVE  GateInvariant'
<1>1. TypeOK'
  BY DEF GateInvariant, TypeOK, Update, Settle, usage
<1>2. Whose'
  BY DEF GateInvariant, TypeOK, Whose, Update, Settle, usage
<1>3. ArmedNotHonest'
  BY DEF GateInvariant, TypeOK, ArmedNotHonest, Update, Settle
<1>4. DeliveredLetThrough'
  BY DEF DeliveredLetThrough, Update
<1> QED BY <1>1, <1>2, <1>3, <1>4 DEF GateInvariant

(* A change of screen arms everything that is down.                        *)
LEMMA ChangeKeepsGate ==
  ASSUME GateInvariant, NEW a \in Activity, SetCurrentActivity(a)
  PROVE  GateInvariant'
<1>1. TypeOK'
  BY DEF GateInvariant, TypeOK, SetCurrentActivity, SwallowNextReleaseOfHeldButtons, usage, poll
<1>2. Whose'
  BY DEF Whose, SetCurrentActivity, SwallowNextReleaseOfHeldButtons, usage, poll
<1>3. ArmedNotHonest'
  BY DEF GateInvariant, TypeOK, ArmedNotHonest, SetCurrentActivity, SwallowNextReleaseOfHeldButtons
<1>4. DeliveredLetThrough'
  BY DEF DeliveredLetThrough, SetCurrentActivity
<1> QED BY <1>1, <1>2, <1>3, <1>4 DEF GateInvariant

LEMMA LongPressKeepsGate ==
  ASSUME GateInvariant, NEW b \in Button, LongPress(b)
  PROVE  GateInvariant'
<1>1. TypeOK'
  BY DEF GateInvariant, TypeOK, LongPress,
              usage, poll
<1>2. Whose' /\ DeliveredLetThrough'
  BY DEF GateInvariant, Whose, DeliveredLetThrough, WasReleased, SwallowsRelease, LongPress,
              usage, poll
<1>3. ArmedNotHonest'
  BY DEF GateInvariant, TypeOK, ArmedNotHonest, LongPress
<1> QED BY <1>1, <1>2, <1>3 DEF GateInvariant

LEMMA StepKeepsGate == GateInvariant /\ [Next]_vars => GateInvariant'
<1> SUFFICES ASSUME GateInvariant, [Next]_vars PROVE GateInvariant'
  OBVIOUS
<1>1. CASE Poll
  BY <1>1, UpdateKeepsGate DEF Poll
<1>2. CASE Pump
  BY <1>2, UpdateKeepsGate DEF Pump
<1>3. CASE \E a \in Activity : SetCurrentActivity(a)
  BY <1>3, ChangeKeepsGate
<1>4. CASE \E b \in Button : LongPress(b)
  BY <1>4, LongPressKeepsGate
<1>5. CASE SkipPass \/ EndPass
  BY <1>5 DEF SkipPass, EndPass, GateInvariant, TypeOK, Whose, ArmedNotHonest, DeliveredLetThrough,
              WasReleased, SwallowsRelease, usage, poll, history
<1>6. CASE ConsumeSuppressedRelease
  BY <1>6 DEF ConsumeSuppressedRelease, GateInvariant, TypeOK, Whose, ArmedNotHonest,
              DeliveredLetThrough, WasReleased, SwallowsRelease, usage, poll, history
<1>7. CASE ReadReleases
  BY <1>7 DEF ReadReleases, GateInvariant, TypeOK, Whose, ArmedNotHonest, DeliveredLetThrough,
              WasReleased, SwallowsRelease, usage, poll, history
<1>8. CASE UNCHANGED vars
  BY <1>8 DEF vars, GateInvariant, TypeOK, Whose, ArmedNotHonest, DeliveredLetThrough, WasReleased,
              SwallowsRelease
<1> QED BY <1>1, <1>2, <1>3, <1>4, <1>5, <1>6, <1>7, <1>8 DEF Next

(* The gate keeps its invariant through every poll, read, long press and   *)
(* change of screen (ButtonReleaseGate.cpp, settle and arm).               *)
THEOREM GateHolds == Spec => []GateInvariant
  BY InitGate, StepKeepsGate, PTL DEF Spec

(* The masks stay well formed, and an arm never outlives its press by more *)
(* than the frame of the release (ButtonReleaseGate.h:33-35).              *)
THEOREM ArmIsBounded == Spec => []TypeOK
<1>1. GateInvariant => TypeOK
  BY DEF GateInvariant
<1> QED BY <1>1, GateHolds, PTL

(* No screen acts on the release of a press made under another             *)
(* (ButtonReleaseGate.h:25-27, "a release belongs to whoever saw the       *)
(* press"), for any buttons, screens, long presses and polls.              *)
THEOREM ReleaseIsItsOwners == Spec => []ReleaseBelongs
<1>1. GateInvariant => ReleaseBelongs
  BY DEF GateInvariant, Whose, DeliveredLetThrough, ReleaseBelongs, WasReleased, SwallowsRelease
<1> QED BY <1>1, GateHolds, PTL

-----------------------------------------------------------------------------
(* Honest releases, where no screen acts on long presses.                  *)

NothingSuppressed == ~longPresses => suppressedReleaseButtons = {}

(* What the screens in use do does not change.                             *)
LEMMA UsageFixed == [Next]_vars => UNCHANGED usage
  BY DEF Next, vars, usage, Poll, Pump, Update, SkipPass, ConsumeSuppressedRelease, ReadReleases,
         EndPass, LongPress, SetCurrentActivity

LEMMA NeverSuppressed == NothingSuppressed /\ [Next]_vars => NothingSuppressed'
<1> SUFFICES ASSUME NothingSuppressed, [Next]_vars, ~longPresses
             PROVE  suppressedReleaseButtons' = {}
  BY UsageFixed DEF NothingSuppressed, usage
<1>1. suppressedReleaseButtons = {}
  BY DEF NothingSuppressed
<1> QED
  BY <1>1 DEF Next, vars, Poll, Pump, Update, SkipPass, ConsumeSuppressedRelease, ReadReleases,
              EndPass, LongPress, SetCurrentActivity

LEMMA HonestStep ==
  GateInvariant /\ NothingSuppressed /\ [Next]_vars =>
    [~longPresses =>
       /\ pass = "polled" /\ pass' = "over" => \A b \in releaseEdges : ~honest[b]
       /\ pass = "reading" /\ pass' = "read" => \A b \in releaseEdges : honest[b] => b \in delivered'
    ]_vars
<1> SUFFICES ASSUME GateInvariant, NothingSuppressed, Next, ~longPresses
             PROVE  /\ ~(pass = "polled" /\ pass' = "over")
                    /\ pass = "reading" /\ pass' = "read" =>
                         \A b \in releaseEdges : honest[b] => b \in delivered'
  OBVIOUS
<1>1. ~(pass = "polled" /\ pass' = "over")
  BY DEF NothingSuppressed, Next, Poll, Pump, SkipPass, ConsumeSuppressedRelease, Consumed,
         ReadReleases, EndPass, LongPress, SetCurrentActivity
<1>2. pass = "reading" /\ pass' = "read" => delivered' = WasReleased
  BY DEF Next, Poll, Pump, SkipPass, ConsumeSuppressedRelease, ReadReleases, EndPass, LongPress,
         SetCurrentActivity
<1> QED BY <1>1, <1>2 DEF GateInvariant, ArmedNotHonest, WasReleased, SwallowsRelease

(* Where no screen acts on long presses, a press and release made under    *)
(* one screen is read by it: the gate never swallows too much, "the        *)
(* failure mode to fear" of ButtonReleaseGate.h:29-35.                     *)
THEOREM HonestIsRead == Spec => HonestReleaseIsRead
<1>1. Init => NothingSuppressed
  BY DEF Init, NothingSuppressed
<1>2. Spec => []NothingSuppressed
  BY <1>1, NeverSuppressed, PTL DEF Spec
<1> QED BY <1>2, GateHolds, HonestStep, PTL DEF Spec, HonestReleaseIsRead

-----------------------------------------------------------------------------
(* Long presses, where nothing polls from inside a pass.                   *)

(* A long press stays suppressed while it is down and until its release is *)
(* consumed, so none the gate lets through is left to be read.             *)
HeldIsSuppressed ==
  ~pumps =>
    /\ \A b \in level : held[b] => b \in suppressedReleaseButtons
    /\ pass = "polled" => \A b \in releaseEdges : held[b] => b \in suppressedReleaseButtons
    /\ pass \in {"reading", "read"} => \A b \in WasReleased : ~held[b]

LEMMA StepKeepsHeld == GateInvariant /\ HeldIsSuppressed /\ [Next]_vars => HeldIsSuppressed'
<1> SUFFICES ASSUME GateInvariant, HeldIsSuppressed, [Next]_vars PROVE HeldIsSuppressed'
  OBVIOUS
<1>0. CASE pumps
  BY <1>0, UsageFixed DEF HeldIsSuppressed, usage
<1>7. ASSUME ~pumps PROVE ~Pump
  BY <1>7 DEF Pump
<1>1. CASE Poll
  BY <1>1 DEF Poll, Update, usage, GateInvariant, TypeOK, HeldIsSuppressed
<1>2. CASE ConsumeSuppressedRelease
  BY <1>2 DEF ConsumeSuppressedRelease, Consumed, GateInvariant, TypeOK, HeldIsSuppressed,
              WasReleased, SwallowsRelease, usage, poll, history
<1>3. CASE \E b \in Button : LongPress(b)
  BY <1>3 DEF LongPress, GateInvariant, TypeOK, HeldIsSuppressed, WasReleased, SwallowsRelease, usage,
              poll
<1>4. CASE SkipPass \/ EndPass \/ ReadReleases
  BY <1>4 DEF SkipPass, EndPass, ReadReleases, HeldIsSuppressed, WasReleased, SwallowsRelease, usage, poll,
              history
<1>5. CASE \E a \in Activity : SetCurrentActivity(a)
  BY <1>5 DEF SetCurrentActivity, HeldIsSuppressed, usage, poll
<1>6. CASE UNCHANGED vars
  BY <1>6 DEF vars, HeldIsSuppressed, WasReleased, SwallowsRelease
<1> QED BY <1>0, <1>1, <1>2, <1>3, <1>4, <1>5, <1>6, <1>7 DEF Next

(* Where nothing polls from inside a pass, the release that ends a long    *)
(* press is read by no screen, the one that took it and the one it opened  *)
(* alike (MappedInputManager.cpp:365-388).                                 *)
THEOREM LongPressIsOneEvent == Spec => []LongPressHasNoRelease
<1>1. Init => HeldIsSuppressed
  BY DEF Init, HeldIsSuppressed
<1>2. Spec => []HeldIsSuppressed
  BY <1>1, StepKeepsHeld, GateHolds, PTL DEF Spec
<1>3. GateInvariant /\ HeldIsSuppressed => LongPressHasNoRelease
  BY DEF GateInvariant, DeliveredLetThrough, HeldIsSuppressed, LongPressHasNoRelease
<1> QED BY <1>2, <1>3, GateHolds, PTL
=============================================================================
