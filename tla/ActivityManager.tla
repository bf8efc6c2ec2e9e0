-------------------------- MODULE ActivityManager --------------------------
(***************************************************************************)
(* One main loop, one render task, a stack of screens.  Source:            *)
(* src/activities/ActivityManager.{h,cpp}, Activity.cpp, RenderLock.h.     *)
(*                                                                         *)
(* The loop runs the activity on top, then carries out the navigation it   *)
(* asked for; the render task paints it when notified.  They share current *)
(* under the RenderLock and two direct-to-task notifications, whose counts *)
(* only matter as zero or not, since every take clears them.               *)
(*                                                                         *)
(* An activity is a number, in order of construction; what it does in its  *)
(* own loop(), onEnter() or result handler is any sequence of the calls    *)
(* Activity.h offers, with at most one of them a navigation.               *)
(*                                                                         *)
(* shown says that the panel has what the activity on top last asked to be *)
(* drawn.  An operator marked "Fault" is the definition below it with a    *)
(* plausible bug; no specification uses it.                                *)
(***************************************************************************)
EXTENDS Naturals, Sequences

CONSTANTS
  MaxActivities,  \* bound: activities constructed
  MaxCalls,       \* bound: calls activities make
  LocksChanges    \* activities change what render() reads under a RenderLock

ASSUME BoundAssumption == MaxActivities \in Nat \ {0} /\ MaxCalls \in Nat
ASSUME SwitchAssumption == LocksChanges \in BOOLEAN

VARIABLES
  current, stackActivities, pendingActivity, pendingAction,
  resultHandler,    \* per activity: the child whose result it waits for
  requestedUpdate, renderNotice, loopNotice, waitingTask,
  renderingMutex,   \* who holds it
  life,             \* per activity: where it is between new and delete
  kind,             \* per activity: what it is
  loop,             \* the main loop: where it is, for whom, and has it navigated
  render,           \* the render task: where it is, whom it paints
  panel, shown,
  sleeping,         \* goToSleep is on the stack
  calls

vars == <<current, stackActivities, pendingActivity, pendingAction, resultHandler,
          requestedUpdate, renderNotice, loopNotice, waitingTask, renderingMutex,
          life, kind, loop, render, panel, shown, sleeping, calls>>

nav == <<current, stackActivities, pendingActivity, pendingAction, resultHandler, life, kind>>
paint == <<render, panel, shown>>
notices == <<requestedUpdate, renderNotice, loopNotice, waitingTask>>

Activity == 1..MaxActivities
None == 0
Kind == {"app", "home", "usb", "sleep"}

TypeOK ==
  /\ current \in Activity \cup {None} /\ (current = None <=> loop.at = "goHome")
  /\ pendingActivity \in Activity \cup {None}
  /\ stackActivities \in Seq(Activity)
  /\ pendingAction \in {"None", "Push", "Pop", "Replace"}
  /\ resultHandler \in [Activity -> Activity \cup {None}]
  /\ {requestedUpdate, renderNotice, loopNotice, waitingTask, shown, sleeping} \subseteq BOOLEAN
  /\ renderingMutex \in {"free", "render"}
  /\ life \in [Activity -> {"new", "pending", "entering", "entered", "gone"}]
  /\ kind \in [Activity -> Kind]
  /\ loop \in [at : {"top", "running", "entering", "handling", "returned", "draining",
                     "goHome", "asleep"},
               wait : {"no", "registered", "blocked"}, moved : BOOLEAN,
               result : Activity \cup {None}]
  /\ render \in [at : {"idle", "woken", "painting", "painted", "told"},
                 of : Activity \cup {None}, fresh : BOOLEAN]
  /\ panel \in Activity \cup {None}
  /\ calls \in 0..MaxCalls

(* make_unique<...>: the next number.                                      *)
Unbuilt == {i \in Activity : life[i] = "new"}
NextBuilt == CHOOSE i \in Unbuilt : \A j \in Unbuilt : i <= j

At(where) == [at |-> where, wait |-> "no", moved |-> FALSE, result |-> None]

(* setup() has shown the first screen and asked for its first paint.       *)
Init ==
  /\ current = 1 /\ stackActivities = <<>>
  /\ pendingActivity = None /\ pendingAction = "None"
  /\ resultHandler = [i \in Activity |-> None]
  /\ requestedUpdate = TRUE
  /\ renderNotice = FALSE /\ loopNotice = FALSE /\ waitingTask = FALSE
  /\ renderingMutex = "free"
  /\ life = [i \in Activity |-> IF i = 1 THEN "entered" ELSE "new"]
  /\ kind = [i \in Activity |-> "app"]
  /\ loop = At("top")
  /\ render = [at |-> "idle", of |-> None, fresh |-> FALSE]
  /\ panel = None /\ shown = FALSE /\ sleeping = FALSE /\ calls = 0

-----------------------------------------------------------------------------
(* Navigation: what is asked for now and carried out by the loop later.    *)

(* A new activity to install; one that was waiting is destroyed unseen.    *)
SetPending(action, k) ==
  /\ Unbuilt # {}
  /\ pendingActivity' = NextBuilt /\ pendingAction' = action
  /\ life' = [i \in Activity |-> IF i = NextBuilt THEN "pending"
                                ELSE IF i = pendingActivity THEN "gone" ELSE life[i]]
  /\ kind' = [kind EXCEPT ![NextBuilt] = k]

(* replaceActivity while an activity is on top.                            *)
ReplaceActivity(k) == SetPending("Replace", k) /\ UNCHANGED <<current, stackActivities, resultHandler>>

PushActivity(k) == SetPending("Push", k) /\ UNCHANGED <<current, stackActivities, resultHandler>>

StartActivityForResult(k) ==
  /\ SetPending("Push", k)
  /\ resultHandler' = [resultHandler EXCEPT ![current] = NextBuilt]
  /\ UNCHANGED <<current, stackActivities>>

PopActivity ==
  /\ stackActivities = <<>> => Unbuilt # {}    \* the bound: goHome() will need one
  /\ pendingActivity' = None /\ pendingAction' = "Pop"
  /\ life' = [i \in Activity |-> IF i = pendingActivity THEN "gone" ELSE life[i]]
  /\ UNCHANGED <<current, stackActivities, resultHandler, kind>>

-----------------------------------------------------------------------------
(* What the activity on top may call; the sleep screen only draws.         *)

Calling == /\ loop.at \in {"running", "entering", "handling"} /\ loop.wait = "no"
           /\ kind[current] # "sleep"
           /\ calls < MaxCalls
           /\ calls' = calls + 1

(* What render() reads changes.                                            *)
Change ==
  /\ Calling
  /\ LocksChanges => renderingMutex = "free"
  /\ shown' = FALSE
  /\ render' = [render EXCEPT !.fresh = FALSE]
  /\ UNCHANGED <<nav, notices, renderingMutex, loop, panel, sleeping>>

RequestUpdate ==
  /\ Calling
  /\ requestedUpdate' = TRUE
  /\ UNCHANGED <<nav, paint, renderNotice, loopNotice, waitingTask, renderingMutex, loop, sleeping>>

RequestUpdateNow ==
  /\ Calling
  /\ renderNotice' = TRUE
  /\ UNCHANGED <<nav, paint, requestedUpdate, loopNotice, waitingTask, renderingMutex, loop, sleeping>>

(* requestUpdateAndWait: it puts itself down as waiting, wakes the render  *)
(* task, and takes its own notification.  HomeActivity never calls it.     *)
Register ==
  /\ Calling /\ kind[current] # "home"
  /\ waitingTask' = TRUE
  /\ loop' = [loop EXCEPT !.wait = "registered"]
  /\ UNCHANGED <<nav, paint, requestedUpdate, renderNotice, loopNotice, renderingMutex, sleeping>>

(* Fault: the render task is not woken.                                    *)
NotifyRenderNot ==
  /\ loop.wait = "registered"
  /\ loop' = [loop EXCEPT !.wait = "blocked"]
  /\ UNCHANGED <<nav, paint, notices, renderingMutex, sleeping, calls>>

NotifyRender ==
  /\ loop.wait = "registered"
  /\ renderNotice' = TRUE
  /\ loop' = [loop EXCEPT !.wait = "blocked"]
  /\ UNCHANGED <<nav, paint, requestedUpdate, loopNotice, waitingTask, renderingMutex, sleeping, calls>>

TakeNotice ==
  /\ loop.wait = "blocked" /\ loopNotice
  /\ loopNotice' = FALSE
  /\ loop' = [loop EXCEPT !.wait = "no"]
  /\ UNCHANGED <<nav, paint, requestedUpdate, renderNotice, waitingTask, renderingMutex, sleeping, calls>>

(* An activity that owns the raw card never navigates; it reboots.         *)
RequiresExclusiveStorage == current # None /\ kind[current] = "usb"

Navigate ==
  /\ Calling
  /\ ~loop.moved /\ kind[current] \in {"app", "home"}
  /\ \/ \E k \in {"app", "home", "usb"} : ReplaceActivity(k)
     \/ StartActivityForResult("app")
     \/ PopActivity
  /\ loop' = [loop EXCEPT !.moved = TRUE]
  /\ UNCHANGED <<notices, paint, renderingMutex, sleeping>>

-----------------------------------------------------------------------------
(* ActivityManager::loop().                                                *)

EndOfPass == At(IF sleeping THEN "asleep" ELSE "top")

Notify == /\ requestedUpdate' = FALSE
          /\ renderNotice' = (renderNotice \/ requestedUpdate)

(* consumeSuppressedRelease, or handleHomeGesture: the pass is over.       *)
SwallowInput ==
  /\ loop.at = "top"
  /\ loop' = EndOfPass
  /\ UNCHANGED <<nav, notices, paint, renderingMutex, sleeping, calls>>

HomeGesture ==
  /\ loop.at = "top" /\ ~RequiresExclusiveStorage /\ kind[current] # "home"
  /\ ReplaceActivity("home")
  /\ loop' = EndOfPass
  /\ UNCHANGED <<notices, paint, renderingMutex, sleeping, calls>>

LightPanelGesture ==
  /\ loop.at = "top" /\ ~RequiresExclusiveStorage
  /\ PushActivity("app")
  /\ loop' = EndOfPass
  /\ UNCHANGED <<notices, paint, renderingMutex, sleeping, calls>>

RunActivity ==
  /\ loop.at = "top"
  /\ loop' = At("running")
  /\ UNCHANGED <<nav, notices, paint, renderingMutex, sleeping, calls>>

(* The exclusive pass ends at once: nothing pending is carried out.        *)
ReturnExclusive ==
  /\ loop.at = "running" /\ loop.wait = "no" /\ RequiresExclusiveStorage
  /\ Notify
  /\ loop' = EndOfPass
  /\ UNCHANGED <<nav, paint, loopNotice, waitingTask, renderingMutex, sleeping, calls>>

ReturnFromLoop ==
  /\ loop.at = "running" /\ loop.wait = "no" /\ ~RequiresExclusiveStorage
  /\ loop' = At("draining")
  /\ UNCHANGED <<nav, notices, paint, renderingMutex, sleeping, calls>>

(* An activity's onEnter() ends by asking for its first paint; that of     *)
(* SleepActivity draws the screen itself.                                  *)
ReturnFromOnEnter ==
  /\ loop.at = "entering" /\ loop.wait = "no"
  /\ life' = [life EXCEPT ![current] = "entered"]
  /\ loop' = At("draining")
  /\ IF kind[current] = "sleep"
       THEN panel' = current /\ shown' = TRUE /\ UNCHANGED requestedUpdate
       ELSE requestedUpdate' = TRUE /\ UNCHANGED <<panel, shown>>
  /\ UNCHANGED <<current, stackActivities, pendingActivity, pendingAction, resultHandler, kind,
                 renderNotice, loopNotice, waitingTask, render, renderingMutex, sleeping, calls>>

(* The rest holds the RenderLock until the top has changed.                *)
Uncovered == stackActivities[Len(stackActivities)]
Beneath == SubSeq(stackActivities, 1, Len(stackActivities) - 1)

(* The top is destroyed and what is beneath it comes back, with handlers   *)
(* as what is still waited for then; an empty stack means goHome().        *)
Finish(handlers) ==
  /\ renderingMutex = "free"
  /\ pendingAction' = "None"
  /\ life' = [life EXCEPT ![current] = "gone"]
  /\ shown' = FALSE
  /\ IF stackActivities = <<>>
       THEN /\ current' = None /\ loop' = At("goHome")
            /\ UNCHANGED <<stackActivities, resultHandler>>
       ELSE /\ current' = Uncovered /\ stackActivities' = Beneath
            /\ resultHandler' = handlers
            /\ loop' = IF resultHandler[Uncovered] = None THEN At("returned")
                       ELSE [At("handling") EXCEPT !.result = current]
  /\ UNCHANGED <<pendingActivity, kind, notices, render, panel, renderingMutex, sleeping, calls>>

HandlerMovedOut == [resultHandler EXCEPT ![Uncovered] = None]

(* Fault: the handler stays where it was and is used again.                *)
PopKeepsHandler == /\ loop.at = "draining" /\ pendingAction = "Pop"
                   /\ Finish(resultHandler)

(* Fault: finish() does not wait for the call it was made in to return.    *)
PopAtOnce == /\ loop.at \in {"entering", "draining"} /\ loop.wait = "no" /\ pendingAction = "Pop"
             /\ Finish(HandlerMovedOut)

(* The handler is moved out before it runs: it may launch another.         *)
Pop == /\ loop.at = "draining" /\ pendingAction = "Pop"
       /\ Finish(HandlerMovedOut)

ReturnFromHandler ==
  /\ loop.at = "handling" /\ loop.wait = "no"
  /\ loop' = At("returned")
  /\ UNCHANGED <<nav, notices, paint, renderingMutex, sleeping, calls>>

(* Fault: the activity that is back on top is left to ask.                 *)
ResumeUnpainted ==
  /\ loop.at = "returned"
  /\ loop' = At("draining")
  /\ UNCHANGED <<nav, paint, notices, renderingMutex, sleeping, calls>>

(* The activity that is back on top is painted again.                      *)
Resume ==
  /\ loop.at = "returned"
  /\ requestedUpdate' = (requestedUpdate \/ pendingAction = "None")
  /\ loop' = At("draining")
  /\ UNCHANGED <<nav, paint, renderNotice, loopNotice, waitingTask, renderingMutex, sleeping, calls>>

(* The bottom of the stack was popped: goHome() with nothing on top        *)
(* installs at once, and without the lock.                                 *)
LaunchHome ==
  /\ loop.at = "goHome"
  /\ current' = NextBuilt
  /\ life' = [life EXCEPT ![NextBuilt] = "entering"]
  /\ kind' = [kind EXCEPT ![NextBuilt] = "home"]
  /\ loop' = At("entering")
  /\ UNCHANGED <<stackActivities, pendingActivity, pendingAction, resultHandler, notices, paint,
                 renderingMutex, sleeping, calls>>

(* Fault: replacing leaves the stack as it was.                            *)
InstallOverStack ==
  /\ loop.at = "draining" /\ pendingAction \in {"Push", "Replace"} /\ pendingActivity # None
  /\ renderingMutex = "free"
  /\ life' = [life EXCEPT ![current] = IF pendingAction = "Push" THEN @ ELSE "gone",
                          ![pendingActivity] = "entering"]
  /\ stackActivities' = Append(stackActivities, current)
  /\ current' = pendingActivity
  /\ pendingActivity' = None /\ pendingAction' = "None"
  /\ shown' = FALSE
  /\ loop' = At("entering")
  /\ UNCHANGED <<resultHandler, kind, notices, render, panel, renderingMutex, sleeping, calls>>

Install ==
  /\ loop.at = "draining" /\ pendingAction \in {"Push", "Replace"} /\ pendingActivity # None
  /\ renderingMutex = "free"
  /\ LET left == IF pendingAction = "Push" THEN {}
                 ELSE {current} \cup {stackActivities[i] : i \in 1..Len(stackActivities)}
     IN life' = [i \in Activity |-> IF i \in left THEN "gone"
                                   ELSE IF i = pendingActivity THEN "entering" ELSE life[i]]
  /\ stackActivities' = IF pendingAction = "Push" THEN Append(stackActivities, current) ELSE <<>>
  /\ current' = pendingActivity
  /\ pendingActivity' = None /\ pendingAction' = "None"
  /\ shown' = FALSE
  /\ loop' = At("entering")
  /\ UNCHANGED <<resultHandler, kind, notices, render, panel, renderingMutex, sleeping, calls>>

FinishPass ==
  /\ loop.at = "draining" /\ pendingAction = "None"
  /\ Notify
  /\ loop' = EndOfPass
  /\ UNCHANGED <<nav, paint, loopNotice, waitingTask, renderingMutex, sleeping, calls>>

(* enterDeepSleep: goToSleep() puts the sleep screen in line and runs one  *)
(* pass; the chip goes down when that pass is over.                        *)
GoToSleep ==
  /\ loop.at = "top" /\ ~sleeping /\ ~RequiresExclusiveStorage
  /\ ReplaceActivity("sleep")
  /\ sleeping' = TRUE
  /\ UNCHANGED <<notices, paint, renderingMutex, loop, calls>>

DeepSleep == loop.at = "asleep" /\ UNCHANGED vars

-----------------------------------------------------------------------------
(* renderTaskLoop, on its own core.                                        *)

(* Fault: who waits is told before the frame is built.                     *)
RenderWakesAndTells ==
  /\ render.at = "idle" /\ renderNotice
  /\ renderNotice' = FALSE
  /\ waitingTask' = FALSE
  /\ loopNotice' = (loopNotice \/ waitingTask)
  /\ render' = [render EXCEPT !.at = "woken"]
  /\ UNCHANGED <<nav, requestedUpdate, renderingMutex, loop, panel, shown, sleeping, calls>>

RenderWakes ==
  /\ render.at = "idle" /\ renderNotice
  /\ renderNotice' = FALSE
  /\ render' = [render EXCEPT !.at = "woken"]
  /\ UNCHANGED <<nav, requestedUpdate, loopNotice, waitingTask, renderingMutex, loop, panel, shown,
                 sleeping, calls>>

(* Fault: the activity is read, and painted, without the lock.             *)
RenderBeginsUnlocked ==
  /\ render.at = "woken"
  /\ render' = [at |-> IF current = None THEN "painted" ELSE "painting", of |-> current, fresh |-> TRUE]
  /\ UNCHANGED <<nav, notices, renderingMutex, loop, panel, shown, sleeping, calls>>

RenderBegins ==
  /\ render.at = "woken" /\ renderingMutex = "free"
  /\ renderingMutex' = "render"
  /\ render' = [at |-> IF current = None THEN "painted" ELSE "painting", of |-> current, fresh |-> TRUE]
  /\ UNCHANGED <<nav, notices, loop, panel, shown, sleeping, calls>>

(* What changed while the frame was built is not known to be in it.        *)
RenderEnds ==
  /\ render.at = "painting"
  /\ render' = [render EXCEPT !.at = "painted"]
  /\ IF kind[render.of] = "sleep" THEN UNCHANGED <<panel, shown>>
                                  ELSE panel' = render.of /\ shown' = (shown \/ render.fresh)
  /\ UNCHANGED <<nav, notices, renderingMutex, loop, sleeping, calls>>

WakeWaiter ==
  /\ render.at = "painted"
  /\ waitingTask' = FALSE
  /\ loopNotice' = (loopNotice \/ waitingTask)
  /\ render' = [render EXCEPT !.at = "told"]
  /\ UNCHANGED <<nav, requestedUpdate, renderNotice, renderingMutex, loop, panel, shown, sleeping, calls>>

(* The lock outlives the whole iteration.                                  *)
RenderReleases ==
  /\ render.at = "told"
  /\ renderingMutex' = "free"
  /\ render' = [at |-> "idle", of |-> None, fresh |-> FALSE]
  /\ UNCHANGED <<nav, notices, loop, panel, shown, sleeping, calls>>

-----------------------------------------------------------------------------
ActivityCalls == Change \/ RequestUpdate \/ RequestUpdateNow \/ Register \/ Navigate

LoopSteps == \/ NotifyRender \/ TakeNotice
             \/ RunActivity \/ ReturnExclusive \/ ReturnFromLoop \/ ReturnFromOnEnter
             \/ Pop \/ ReturnFromHandler \/ Resume \/ LaunchHome \/ Install \/ FinishPass

Inputs == SwallowInput \/ HomeGesture \/ LightPanelGesture \/ GoToSleep

RenderSteps == RenderWakes \/ RenderBegins \/ RenderEnds \/ WakeWaiter \/ RenderReleases

Next == ActivityCalls \/ LoopSteps \/ Inputs \/ RenderSteps \/ DeepSleep

Spec == Init /\ [][Next]_vars

(* Both tasks run; an activity's function returns.                         *)
LiveSpec == Spec /\ WF_vars(LoopSteps) /\ WF_vars(RenderSteps)

-----------------------------------------------------------------------------
(* Properties. *)

(* The render task never paints an activity that has been destroyed, nor   *)
(* one that is not on top: renderTaskLoop reads currentActivity under the  *)
(* lock that every destruction takes.                                      *)
PaintsTheTop ==
  render.at = "painting" => /\ render.of = current
                            /\ life[render.of] \in {"entering", "entered"}

(* Every activity that is alive has exactly one owner: the top, one place  *)
(* on the stack, or the pending slot; and owners only own the living.      *)
OwnedOnce ==
  LET owned == stackActivities \o <<current, pendingActivity>>
  IN /\ \A p, q \in 1..Len(owned) : p # q /\ owned[p] = owned[q] => owned[p] = None
     /\ \A i \in Activity : (\E p \in 1..Len(owned) : owned[p] = i)
                             <=> life[i] \in {"pending", "entering", "entered"}
     /\ \A i \in Activity : pendingActivity = i <=> life[i] = "pending"

(* What a result handler is given is the result of the activity it was     *)
(* installed for, whatever else was pushed and popped in between.          *)
ResultReachesLauncher ==
  [][loop.at = "draining" /\ loop'.at = "handling"
       => resultHandler[current'] = loop'.result]_vars

(* Nothing is destroyed in the middle of its own onEnter(): "delete this"  *)
(* is what deferring a navigation is for.                                  *)
NotDestroyedWhileEntering ==
  [][\A i \in Activity : life[i] = "entering" => life'[i] \in {"entering", "entered"}]_vars

(* requestUpdateAndWait "blocks until it completes": on return the panel   *)
(* has what the caller had changed.                                        *)
WaitShows ==
  [][loop.wait = "blocked" /\ loop'.wait = "no" => panel = current /\ shown]_vars

(* Every wait for a paint ends.                                            *)
WaitEnds == (loop.wait # "no") ~> (loop.wait = "no")

(* Every update that is asked for is painted, and so, without having to    *)
(* ask, is an activity that is back on top; unless the device sleeps.      *)
UpdateIsPainted ==
  (requestedUpdate \/ renderNotice \/ (loop.at = "returned" /\ pendingAction = "None"))
     ~> ((panel = current /\ shown) \/ loop.at = "asleep")
=============================================================================
