----------------------- MODULE ActivityManagerProofs -----------------------
(***************************************************************************)
(* The screens for any number of activities and of calls: every living     *)
(* activity has one owner, results reach the activity that waits for them, *)
(* nothing is destroyed in its own onEnter() or under the render task, and *)
(* a wait for a paint ends with that paint.                                *)
(***************************************************************************)
EXTENDS ActivityManager, SequenceTheorems, WellFoundedInduction, TLAPS

Stack == 1..Len(stackActivities)

(* Who owns whom. *)
OwnInv ==
  /\ \A i \in Activity : pendingActivity = i <=> life[i] = "pending"
  /\ \A i \in Activity : life[i] \in {"entering", "entered"}
                           <=> i = current \/ \E p \in Stack : stackActivities[p] = i
  /\ \A p \in Stack : stackActivities[p] # current
  /\ \A p, q \in Stack : p # q => stackActivities[p] # stackActivities[q]
  /\ \A i \in Activity : life[i] = "entering" <=> i = current /\ loop.at = "entering"

(* What an activity asks for is carried out in the pass it asks in. *)
SamePass ==
  /\ loop.at \in {"running", "entering", "handling", "returned", "draining"}
  /\ loop.at \in {"running", "entering", "handling"} => loop.moved
  /\ kind[current] # "usb"

AskedInv ==
  /\ pendingActivity = None <=> pendingAction \in {"None", "Pop"}
  /\ pendingAction = "Pop" => SamePass /\ (stackActivities = <<>> => Unbuilt # {})
  /\ loop.at = "goHome" => stackActivities = <<>> /\ pendingAction = "None" /\ Unbuilt # {}

(* A handler waits for the activity right above the one that set it. *)
Above(p) == IF p = Len(stackActivities) THEN current ELSE stackActivities[p + 1]

HandlerInv ==
  /\ \A p \in Stack : resultHandler[stackActivities[p]] \in {None, Above(p)}
  /\ current # None /\ resultHandler[current] # None
       => SamePass /\ pendingAction = "Push" /\ resultHandler[current] = pendingActivity
  /\ \A i \in Activity : life[i] \in {"new", "pending"} => resultHandler[i] = None

NavInv == TypeOK /\ OwnInv /\ AskedInv /\ HandlerInv

(* The render task has the lock from the reading of current to the end. *)
LockInv ==
  /\ render.at \in {"painting", "painted", "told"} <=> renderingMutex = "render"
  /\ render.at = "painting" => render.of = current /\ current # None

(* Who waits is an activity that may, and is told once. *)
WaitInv ==
  /\ loop.wait # "no" => /\ loop.at \in {"running", "entering", "handling"}
                         /\ kind[current] \notin {"home", "sleep"}
  /\ waitingTask \/ loopNotice => loop.wait # "no"
  /\ ~(waitingTask /\ loopNotice)

(* A frame under way has every change made before it. *)
ShownInv ==
  /\ render.at = "painting" => render.fresh
  /\ render.at = "painted" => \/ current = None \/ kind[current] \in {"home", "sleep"}
                              \/ panel = current /\ shown
  /\ loopNotice => panel = current /\ shown

-----------------------------------------------------------------------------
(* The next number is one that has not been given out. *)
LEMMA BuiltIs == Unbuilt # {} => NextBuilt \in Activity /\ life[NextBuilt] = "new"
<1> SUFFICES ASSUME Unbuilt # {} PROVE NextBuilt \in Unbuilt
  BY DEF Unbuilt
<1> DEFINE Less == {ss \in Nat \X Nat : ss[1] < ss[2]}
<1>1. IsWellFoundedOn(Less, Nat)
  BY NatLessThanWellFounded DEF OpToRel
<1>2. Unbuilt \subseteq Nat
  BY DEF Unbuilt, Activity
<1>3. PICK i \in Unbuilt : \A j \in Unbuilt : <<j, i>> \notin Less
  BY <1>1, <1>2, WFMin
<1>4. ASSUME NEW j \in Unbuilt PROVE i <= j
  <2>1. i \in Nat /\ j \in Nat /\ <<j, i>> \in Nat \X Nat
    BY <1>2
  <2>2. ~(<<j, i>>[1] < <<j, i>>[2])
    BY <1>3, <2>1
  <2> QED
    BY <2>1, <2>2
<1> QED
  BY <1>4 DEF NextBuilt

(* The stack without its last, and that last. *)
LEMMA StackIs ==
  ASSUME stackActivities \in Seq(Activity), stackActivities # <<>>
  PROVE  /\ Len(stackActivities) \in Nat \ {0}
         /\ Uncovered \in Activity
         /\ Beneath \in Seq(Activity) /\ Len(Beneath) = Len(stackActivities) - 1
         /\ \A p \in 1..(Len(stackActivities) - 1) : Beneath[p] = stackActivities[p]
<1>1. Len(stackActivities) \in Nat \ {0}
  BY EmptySeq
<1>2. Uncovered \in Activity
  BY <1>1 DEF Uncovered
<1>3. \A p \in 1..(Len(stackActivities) - 1) : stackActivities[p] \in Activity
  BY <1>1
<1>4. 1 \in Int /\ Len(stackActivities) - 1 \in Int
  BY <1>1
<1>5. /\ Beneath \in Seq(Activity)
      /\ Len(Beneath) = IF 1 <= Len(stackActivities) - 1 THEN Len(stackActivities) - 1 - 1 + 1 ELSE 0
      /\ \A p \in 1..(Len(stackActivities) - 1 - 1 + 1) : Beneath[p] = stackActivities[1 + p - 1]
  BY <1>3, <1>4, SubSeqProperties DEF Beneath
<1>6. Len(Beneath) = Len(stackActivities) - 1
  <2> DEFINE n == Len(stackActivities)
  <2>1. n \in Nat /\ n # 0
    BY <1>1
  <2>2. Len(Beneath) = IF 1 <= n - 1 THEN n - 1 - 1 + 1 ELSE 0
    BY <1>5
  <2> HIDE DEF n
  <2>3. Len(Beneath) = n - 1
    BY <2>1, <2>2
  <2> QED
    BY <2>3 DEF n
<1>7. ASSUME NEW p \in 1..(Len(stackActivities) - 1)
      PROVE  Beneath[p] = stackActivities[p]
  <2>1. p \in 1..(Len(stackActivities) - 1 - 1 + 1) /\ 1 + p - 1 = p
    BY <1>1
  <2> QED
    BY <1>5, <2>1
<1> QED
  BY <1>1, <1>2, <1>5, <1>6, <1>7

LEMMA InitNav == Init => NavInv
<1> SUFFICES ASSUME Init PROVE NavInv
  OBVIOUS
<1> USE BoundAssumption
<1>1. 1 \in Activity /\ None \notin Activity /\ Stack = {}
  BY DEF Init, Activity, None, Stack
<1>2. TypeOK
  <2>1. loop.at = "top" /\ loop.wait = "no" /\ loop = At("top")
    BY DEF Init, At
  <2>2. loop \in [at : {"top", "running", "entering", "handling", "returned", "draining",
                         "goHome", "asleep"},
                   wait : {"no", "registered", "blocked"}, moved : BOOLEAN,
                   result : Activity \cup {None}]
    BY <2>1 DEF At
  <2>3. kind \in [Activity -> Kind]
    BY DEF Init, Kind
  <2>4. render \in [at : {"idle", "woken", "painting", "painted", "told"},
                     of : Activity \cup {None}, fresh : BOOLEAN]
    BY DEF Init
  <2>5. /\ stackActivities \in Seq(Activity)
        /\ resultHandler \in [Activity -> Activity \cup {None}]
        /\ life \in [Activity -> {"new", "pending", "entering", "entered", "gone"}]
    BY DEF Init
  <2>6. /\ current \in Activity /\ current # None
        /\ pendingActivity = None /\ pendingAction = "None" /\ panel = None
        /\ renderingMutex = "free" /\ calls \in 0..MaxCalls
    BY <1>1 DEF Init
  <2>7. {requestedUpdate, renderNotice, loopNotice, waitingTask, shown, sleeping} \subseteq BOOLEAN
    BY DEF Init
  <2> QED
    BY <2>1, <2>2, <2>3, <2>4, <2>5, <2>6, <2>7 DEF TypeOK
<1>3. OwnInv
  BY <1>1 DEF Init, OwnInv, At, Activity, None
<1>4. AskedInv /\ HandlerInv
  BY <1>1 DEF Init, AskedInv, HandlerInv, At
<1> QED
  BY <1>2, <1>3, <1>4 DEF NavInv

LEMMA PendingType ==
  ASSUME TypeOK, NEW action \in {"Push", "Replace"}, NEW k \in Kind, SetPending(action, k)
  PROVE  /\ pendingActivity' \in Activity \cup {None}
         /\ pendingAction' \in {"None", "Push", "Pop", "Replace"}
         /\ life' \in [Activity -> {"new", "pending", "entering", "entered", "gone"}]
         /\ kind' \in [Activity -> Kind]
BY BuiltIs DEF SetPending, TypeOK

(* Types, action by action. *)
LEMMA CallsType == TypeOK /\ ActivityCalls => TypeOK'
<1> SUFFICES ASSUME TypeOK, ActivityCalls PROVE TypeOK'
  OBVIOUS
<1> USE BoundAssumption
<1>0. Calling /\ calls' \in 0..MaxCalls
  BY DEF ActivityCalls, Change, RequestUpdate, RequestUpdateNow, Register, Navigate, Calling, TypeOK
<1>1. CASE Change
  <2>1. render' \in [at : {"idle", "woken", "painting", "painted", "told"},
                     of : Activity \cup {None}, fresh : BOOLEAN]
    BY <1>1 DEF Change, TypeOK
  <2>2. UNCHANGED <<nav, notices, renderingMutex, loop, panel, sleeping>> /\ shown' \in BOOLEAN
    BY <1>1 DEF Change
  <2>3. {requestedUpdate', renderNotice', loopNotice', waitingTask', shown', sleeping'} \subseteq BOOLEAN
    BY <2>2 DEF TypeOK, notices
  <2>4. loop' \in [at : {"top", "running", "entering", "handling", "returned", "draining",
                        "goHome", "asleep"},
                  wait : {"no", "registered", "blocked"}, moved : BOOLEAN,
                  result : Activity \cup {None}]
    BY <2>2 DEF TypeOK
  <2>5. /\ current' \in Activity \cup {None} /\ (current' = None <=> loop'.at = "goHome")
        /\ pendingActivity' \in Activity \cup {None}
        /\ stackActivities' \in Seq(Activity)
        /\ pendingAction' \in {"None", "Push", "Pop", "Replace"}
        /\ resultHandler' \in [Activity -> Activity \cup {None}]
        /\ life' \in [Activity -> {"new", "pending", "entering", "entered", "gone"}]
        /\ kind' \in [Activity -> Kind]
    BY <2>2 DEF TypeOK, nav
  <2>6. renderingMutex' \in {"free", "render"} /\ panel' \in Activity \cup {None}
    BY <2>2 DEF TypeOK
  <2> QED
    BY <1>0, <2>1, <2>3, <2>4, <2>5, <2>6 DEF TypeOK
<1>2. CASE RequestUpdate
  BY <1>0, <1>2 DEF RequestUpdate, TypeOK, nav, paint
<1>3. CASE RequestUpdateNow
  BY <1>0, <1>3 DEF RequestUpdateNow, TypeOK, nav, paint
<1>4. CASE Register
  BY <1>0, <1>4 DEF Register, TypeOK, nav, paint
<1>5. CASE Navigate
  <2>1. /\ pendingActivity' \in Activity \cup {None}
        /\ pendingAction' \in {"None", "Push", "Pop", "Replace"}
        /\ life' \in [Activity -> {"new", "pending", "entering", "entered", "gone"}]
        /\ kind' \in [Activity -> Kind]
        /\ resultHandler' \in [Activity -> Activity \cup {None}]
        /\ UNCHANGED <<current, stackActivities>>
    BY <1>5, BuiltIs DEF Navigate, ReplaceActivity, StartActivityForResult, PopActivity, SetPending,
                         TypeOK, Kind
  <2> QED
    BY <1>0, <1>5, <2>1 DEF Navigate, TypeOK, notices, paint
<1> QED
  BY <1>1, <1>2, <1>3, <1>4, <1>5 DEF ActivityCalls

LEMMA AtIs ==
  ASSUME NEW where \in {"top", "running", "entering", "handling", "returned", "draining",
                        "goHome", "asleep"}
  PROVE  At(where) \in [at : {"top", "running", "entering", "handling", "returned", "draining",
                              "goHome", "asleep"},
                        wait : {"no", "registered", "blocked"}, moved : BOOLEAN,
                        result : Activity \cup {None}]
         /\ At(where).at = where /\ At(where).wait = "no"
BY DEF At

LEMMA LoopType == NavInv /\ LoopSteps => TypeOK'
<1> SUFFICES ASSUME NavInv, LoopSteps PROVE TypeOK'
  OBVIOUS
<1>0. TypeOK
  BY DEF NavInv
<1>1. CASE NotifyRender
  BY <1>0, <1>1 DEF NotifyRender, TypeOK, nav, paint
<1>2. CASE TakeNotice
  BY ZenonT(40), <1>0, <1>2 DEF TakeNotice, TypeOK, nav, paint
<1>3. CASE RunActivity
  BY <1>0, <1>3, AtIs DEF RunActivity, TypeOK, nav, paint, notices
<1>4. CASE ReturnExclusive
  <2>1. EndOfPass \in {At("top"), At("asleep")}
    BY DEF EndOfPass
  <2> QED
    BY ZenonT(40), <1>0, <1>4, <2>1, AtIs DEF ReturnExclusive, Notify, TypeOK, nav, paint
<1>5. CASE ReturnFromLoop
  BY <1>0, <1>5, AtIs DEF ReturnFromLoop, TypeOK, nav, paint, notices
<1>6. CASE ReturnFromOnEnter
  <2>1. /\ life' \in [Activity -> {"new", "pending", "entering", "entered", "gone"}]
        /\ panel' \in Activity \cup {None} /\ shown' \in BOOLEAN /\ requestedUpdate' \in BOOLEAN
    BY <1>0, <1>6 DEF ReturnFromOnEnter, TypeOK
  <2> QED
    BY <1>0, <1>6, <2>1, AtIs DEF ReturnFromOnEnter, TypeOK
<1>7. CASE Pop
  <2>1. loop' \in [at : {"top", "running", "entering", "handling", "returned", "draining",
                         "goHome", "asleep"},
                   wait : {"no", "registered", "blocked"}, moved : BOOLEAN,
                   result : Activity \cup {None}]
        /\ (loop'.at = "goHome" <=> stackActivities = <<>>)
    <3>1. CASE stackActivities = <<>>
      BY <1>7, <3>1, AtIs DEF Pop, Finish
    <3>2. CASE stackActivities # <<>> /\ resultHandler[Uncovered] = None
      BY <1>7, <3>2, AtIs DEF Pop, Finish
    <3>3. CASE stackActivities # <<>> /\ resultHandler[Uncovered] # None
      <4>1. current \in Activity \cup {None}
        BY <1>0 DEF TypeOK
      <4>2. loop' = [at |-> "handling", wait |-> "no", moved |-> FALSE, result |-> current]
        BY <1>7, <3>3 DEF Pop, Finish, At
      <4>3. loop'.at # "goHome"
        BY <4>2
      <4>4. loop' \in [at : {"top", "running", "entering", "handling", "returned", "draining",
                            "goHome", "asleep"},
                      wait : {"no", "registered", "blocked"}, moved : BOOLEAN,
                      result : Activity \cup {None}]
        BY <4>1, <4>2
      <4> QED
        BY <3>3, <4>3, <4>4
    <3> QED
      BY <3>1, <3>2, <3>3
  <2>2. stackActivities # <<>> => /\ Uncovered \in Activity
                                  /\ Beneath \in Seq(Activity)
                                  /\ HandlerMovedOut \in [Activity -> Activity \cup {None}]
    BY <1>0, StackIs DEF TypeOK, HandlerMovedOut
  <2>3. /\ current' \in Activity \cup {None} /\ (current' = None <=> loop'.at = "goHome")
        /\ stackActivities' \in Seq(Activity)
        /\ resultHandler' \in [Activity -> Activity \cup {None}]
        /\ life' \in [Activity -> {"new", "pending", "entering", "entered", "gone"}]
        /\ pendingAction' = "None" /\ shown' = FALSE
    BY <1>0, <1>7, <2>1, <2>2 DEF Pop, Finish, TypeOK, Activity, None
  <2> QED
    BY <1>0, <1>7, <2>1, <2>3 DEF Pop, Finish, TypeOK, notices
<1>8. CASE ReturnFromHandler
  BY <1>0, <1>8, AtIs DEF ReturnFromHandler, TypeOK, nav, paint, notices
<1>9. CASE Resume
  BY <1>0, <1>9, AtIs DEF Resume, TypeOK, nav, paint
<1>10. CASE LaunchHome
  <2>1. NextBuilt \in Activity /\ current' = NextBuilt /\ current' # None
    BY <1>10, BuiltIs DEF LaunchHome, NavInv, AskedInv, Activity, None
  <2> QED
    BY <1>0, <1>10, <2>1, AtIs DEF LaunchHome, TypeOK, paint, notices, Kind
<1>11. CASE Install
  <2>1. current \in Activity /\ pendingActivity \in Activity /\ pendingActivity # None
    BY <1>0, <1>11 DEF Install, TypeOK, Activity, None
  <2>2. stackActivities' \in Seq(Activity)
    BY <1>0, <1>11, <2>1 DEF Install, TypeOK
  <2>3. life' \in [Activity -> {"new", "pending", "entering", "entered", "gone"}]
    BY <1>0, <1>11 DEF Install, TypeOK
  <2> QED
    BY ZenonT(40), <1>0, <1>11, <2>1, <2>2, <2>3, AtIs DEF Install, TypeOK, notices
<1>12. CASE FinishPass
  <2>1. EndOfPass \in {At("top"), At("asleep")}
    BY DEF EndOfPass
  <2> QED
    BY ZenonT(40), <1>0, <1>12, <2>1, AtIs DEF FinishPass, Notify, TypeOK, nav, paint
<1> QED
  BY <1>1, <1>2, <1>3, <1>4, <1>5, <1>6, <1>7, <1>8, <1>9, <1>10, <1>11, <1>12 DEF LoopSteps

LEMMA InputsType == TypeOK /\ Inputs => TypeOK'
<1> SUFFICES ASSUME TypeOK, Inputs PROVE TypeOK'
  OBVIOUS
<1>0. EndOfPass \in {At("top"), At("asleep")}
  BY DEF EndOfPass
<1>1. CASE SwallowInput
  BY <1>0, <1>1, AtIs DEF SwallowInput, TypeOK, nav, paint, notices
<1>2. CASE HomeGesture
  <2>1. SetPending("Replace", "home") /\ UNCHANGED <<current, stackActivities, resultHandler>>
    BY <1>2 DEF HomeGesture, ReplaceActivity
  <2> QED
    BY <1>0, <1>2, <2>1, PendingType, AtIs DEF HomeGesture, TypeOK, paint, notices, Kind
<1>3. CASE LightPanelGesture
  <2>1. SetPending("Push", "app") /\ UNCHANGED <<current, stackActivities, resultHandler>>
    BY <1>3 DEF LightPanelGesture, PushActivity
  <2> QED
    BY <1>0, <1>3, <2>1, PendingType, AtIs DEF LightPanelGesture, TypeOK, paint, notices, Kind
<1>4. CASE GoToSleep
  <2>1. SetPending("Replace", "sleep") /\ UNCHANGED <<current, stackActivities, resultHandler>>
    BY <1>4 DEF GoToSleep, ReplaceActivity
  <2> QED
    BY <1>4, <2>1, PendingType DEF GoToSleep, TypeOK, paint, notices, Kind
<1> QED
  BY <1>1, <1>2, <1>3, <1>4 DEF Inputs

LEMMA RenderType == TypeOK /\ RenderSteps => TypeOK'
<1> SUFFICES ASSUME TypeOK, RenderSteps PROVE TypeOK'
  OBVIOUS
<1>1. CASE RenderWakes
  BY ZenonT(40), <1>1 DEF RenderWakes, TypeOK, nav
<1>2. CASE RenderBegins
  BY <1>2 DEF RenderBegins, TypeOK, nav, notices
<1>3. CASE RenderEnds
  BY <1>3 DEF RenderEnds, TypeOK, nav, notices
<1>4. CASE WakeWaiter
  BY ZenonT(40), <1>4 DEF WakeWaiter, TypeOK, nav
<1>5. CASE RenderReleases
  BY <1>5 DEF RenderReleases, TypeOK, nav, notices
<1> QED
  BY <1>1, <1>2, <1>3, <1>4, <1>5 DEF RenderSteps

LEMMA NextType == NavInv /\ [Next]_vars => TypeOK'
<1> SUFFICES ASSUME NavInv, [Next]_vars PROVE TypeOK'
  OBVIOUS
<1>0. TypeOK
  BY DEF NavInv
<1>1. CASE UNCHANGED vars \/ DeepSleep
  BY <1>0, <1>1 DEF vars, DeepSleep, TypeOK
<1> QED
  BY <1>0, <1>1, CallsType, LoopType, InputsType, RenderType DEF Next

-----------------------------------------------------------------------------
(* Ownership, navigation and result handlers, by what a step does to them. *)

(* Nothing, and the loop moves on within the pass. *)
LEMMA StillNav ==
  ASSUME NavInv, TypeOK', UNCHANGED nav,
         loop'.at = "entering" <=> loop.at = "entering",
         loop'.at = "goHome" => loop.at = "goHome",
         pendingAction # "None" /\ SamePass => SamePass'
  PROVE  NavInv'
<1>1. /\ Stack' = Stack /\ Unbuilt' = Unbuilt
      /\ \A p : Above(p)' = Above(p)
  BY DEF nav, Stack, Unbuilt, Above
<1>2. OwnInv'
  BY <1>1 DEF NavInv, OwnInv, nav
<1>3. AskedInv'
  BY <1>1 DEF NavInv, AskedInv, nav
<1>4. HandlerInv'
  BY <1>1 DEF NavInv, HandlerInv, nav
<1> QED
  BY <1>2, <1>3, <1>4 DEF NavInv

(* An activity is put in line. *)
LEMMA AskNav ==
  ASSUME NavInv, TypeOK', NEW action \in {"Push", "Replace"}, NEW k,
         SetPending(action, k), UNCHANGED <<current, stackActivities>>,
         loop.at # "goHome", ~(SamePass /\ pendingAction = "Push"),
         loop'.at # "goHome", loop'.at = "entering" <=> loop.at = "entering",
         \/ resultHandler' = resultHandler
         \/ /\ resultHandler' = [resultHandler EXCEPT ![current] = NextBuilt]
            /\ action = "Push" /\ SamePass'
  PROVE  NavInv'
<1>1. /\ NextBuilt \in Activity /\ NextBuilt # None /\ life[NextBuilt] = "new"
      /\ pendingActivity' = NextBuilt /\ pendingAction' = action
      /\ life' = [i \in Activity |-> IF i = NextBuilt THEN "pending"
                                     ELSE IF i = pendingActivity THEN "gone" ELSE life[i]]
  BY BuiltIs DEF SetPending, Activity, None
<1>2. Stack' = Stack /\ \A p : Above(p)' = Above(p)
  BY DEF Stack, Above
<1>3. /\ current \in Activity /\ life[current] \in {"entering", "entered"}
      /\ current # NextBuilt /\ current # pendingActivity
      /\ resultHandler[current] = None
  BY <1>1 DEF NavInv, TypeOK, OwnInv, HandlerInv
<1>4. \A p \in Stack : /\ stackActivities[p] \in Activity
                       /\ stackActivities[p] # NextBuilt /\ stackActivities[p] # pendingActivity
  <2>1. \A p \in Stack : stackActivities[p] \in Activity
    BY DEF NavInv, TypeOK, Stack
  <2> QED
    BY <1>1, <2>1 DEF NavInv, OwnInv
<1>5. OwnInv'
  <2>1. \A i \in Activity : pendingActivity' = i <=> life'[i] = "pending"
    BY <1>1 DEF NavInv, OwnInv
  <2>2. \A i \in Activity : life'[i] \in {"entering", "entered"} <=> life[i] \in {"entering", "entered"}
    BY <1>1 DEF NavInv, OwnInv
  <2>3. \A i \in Activity : life'[i] = "entering" <=> life[i] = "entering"
    BY <1>1 DEF NavInv, OwnInv
  <2> QED
    BY <1>2, <2>1, <2>2, <2>3 DEF NavInv, OwnInv
<1>6. AskedInv'
  BY <1>1 DEF AskedInv
<1>7. HandlerInv'
  <2>1. \A p \in Stack : resultHandler'[stackActivities[p]] = resultHandler[stackActivities[p]]
    BY <1>4 DEF NavInv, OwnInv, TypeOK
  <2>2. resultHandler'[current] # None
          => SamePass' /\ pendingAction' = "Push" /\ resultHandler'[current] = pendingActivity'
    BY <1>1, <1>3 DEF NavInv, TypeOK
  <2>3. \A i \in Activity : life'[i] \in {"new", "pending"} => resultHandler'[i] = None
    BY <1>1, <1>3 DEF NavInv, HandlerInv, TypeOK
  <2> QED
    BY <1>2, <2>1, <2>2, <2>3 DEF NavInv, HandlerInv
<1> QED
  BY <1>5, <1>6, <1>7 DEF NavInv

(* finish(): the top is to go. *)
LEMMA FinishNav ==
  ASSUME NavInv, TypeOK', PopActivity, SamePass', loop.at # "goHome", ~(SamePass /\ pendingAction = "Push"),
         loop'.at = "entering" <=> loop.at = "entering"
  PROVE  NavInv'
<1>1. /\ pendingActivity' = None /\ pendingAction' = "Pop" /\ None \notin Activity
      /\ life' = [i \in Activity |-> IF i = pendingActivity THEN "gone" ELSE life[i]]
      /\ UNCHANGED <<current, stackActivities, resultHandler, kind>>
      /\ stackActivities = <<>> => Unbuilt # {}
  BY DEF PopActivity, Activity, None
<1>2. Stack' = Stack /\ \A p : Above(p)' = Above(p)
  BY <1>1 DEF Stack, Above
<1>3. current \in Activity /\ resultHandler[current] = None
  BY DEF NavInv, TypeOK, HandlerInv
<1>4. OwnInv'
  <2>1. \A i \in Activity : pendingActivity' = i <=> life'[i] = "pending"
    BY <1>1 DEF NavInv, OwnInv
  <2>2. \A i \in Activity : /\ life'[i] \in {"entering", "entered"} <=> life[i] \in {"entering", "entered"}
                            /\ life'[i] = "entering" <=> life[i] = "entering"
    BY <1>1 DEF NavInv, OwnInv
  <2> QED
    BY <1>1, <1>2, <2>1, <2>2 DEF NavInv, OwnInv
<1>5. Unbuilt' = Unbuilt
  BY <1>1 DEF NavInv, OwnInv, Unbuilt
<1>6. AskedInv'
  BY <1>1, <1>5 DEF NavInv, AskedInv, SamePass
<1>7. HandlerInv'
  BY <1>1, <1>2, <1>3 DEF NavInv, HandlerInv
<1> QED
  BY <1>4, <1>6, <1>7 DEF NavInv

(* The top goes, and what is beneath it comes back. *)
LEMMA PopNav == NavInv /\ Pop => NavInv'
<1> SUFFICES ASSUME NavInv, Pop PROVE NavInv'
  OBVIOUS
<1>0. TypeOK' /\ TypeOK /\ OwnInv /\ AskedInv /\ HandlerInv
  BY LoopType DEF LoopSteps, NavInv
<1>1. /\ loop.at = "draining" /\ pendingAction = "Pop" /\ pendingAction' = "None"
      /\ pendingActivity = None /\ pendingActivity' = None /\ None \notin Activity
      /\ current \in Activity /\ resultHandler[current] = None
      /\ life' = [life EXCEPT ![current] = "gone"] /\ kind' = kind
  BY <1>0 DEF Pop, Finish, TypeOK, AskedInv, HandlerInv, Activity, None
<1>2. life[current] = "entered" /\ \A i \in Activity : life[i] # "entering"
  BY <1>0, <1>1 DEF OwnInv
<1>3. CASE stackActivities = <<>>
  <2>1. /\ current' = None /\ loop'.at = "goHome"
        /\ stackActivities' = <<>> /\ resultHandler' = resultHandler
    BY <1>3, <1>1, AtIs DEF Pop, Finish
  <2>2. Stack = {} /\ Stack' = {}
    BY <1>3, <2>1 DEF Stack
  <2>3. OwnInv'
    BY <1>0, <1>1, <1>2, <2>1, <2>2 DEF OwnInv, TypeOK
  <2>4. Unbuilt # {} /\ Unbuilt' = Unbuilt
    BY <1>0, <1>1, <1>2, <1>3 DEF AskedInv, Unbuilt, TypeOK
  <2>5. AskedInv'
    BY <1>1, <2>1, <2>4 DEF AskedInv
  <2>6. HandlerInv'
    BY <1>0, <1>1, <2>1, <2>2 DEF HandlerInv, TypeOK
  <2> QED
    BY <1>0, <2>3, <2>5, <2>6 DEF NavInv
<1>4. CASE stackActivities # <<>>
  <2> DEFINE n == Len(stackActivities)
  <2>1. /\ current' = Uncovered /\ stackActivities' = Beneath
        /\ resultHandler' = [resultHandler EXCEPT ![Uncovered] = None]
        /\ loop'.at \in {"returned", "handling"}
    BY <1>4, AtIs DEF Pop, Finish, HandlerMovedOut, At
  <2>2. /\ n \in Nat \ {0} /\ n - 1 \in Nat /\ Uncovered \in Activity
        /\ Stack = 1..n /\ Stack' = 1..(n - 1)
        /\ \A p \in 1..(n - 1) : stackActivities'[p] = stackActivities[p]
        /\ Uncovered = stackActivities[n]
    BY <1>0, <1>4, <2>1, StackIs DEF TypeOK, Stack, Uncovered
  <2> HIDE DEF n
  <2>3. /\ n \in 1..n /\ \A p \in 1..(n - 1) : p \in 1..n /\ p # n
        /\ \A p \in 1..n : p = n \/ p \in 1..(n - 1)
    BY <2>2
  <2>4. current # Uncovered /\ life[Uncovered] = "entered"
    BY <1>0, <1>2, <2>2, <2>3 DEF OwnInv
  <2>5. OwnInv'
    <3>1. \A i \in Activity : pendingActivity' = i <=> life'[i] = "pending"
      BY <1>0, <1>1, <1>2 DEF OwnInv, TypeOK
    <3>2. \A i \in Activity : life[i] \in {"entering", "entered"}
                                <=> i = current \/ i = Uncovered \/ \E p \in 1..(n - 1) : stackActivities[p] = i
      BY <1>0, <2>2, <2>3 DEF OwnInv
    <3>3. current # Uncovered /\ \A p \in 1..(n - 1) : /\ stackActivities[p] # current
                                                       /\ stackActivities[p] # Uncovered
      BY <1>0, <2>2, <2>3, <2>4 DEF OwnInv
    <3>4. \A i \in Activity : life'[i] \in {"entering", "entered"}
                                <=> i = Uncovered \/ \E p \in 1..(n - 1) : stackActivities[p] = i
      BY <1>0, <1>1, <3>2, <3>3 DEF TypeOK
    <3>5. \A p, q \in 1..(n - 1) : p # q => stackActivities[p] # stackActivities[q]
      BY <1>0, <2>2, <2>3 DEF OwnInv
    <3>6. \A i \in Activity : life'[i] # "entering"
      BY <1>0, <1>1, <1>2 DEF TypeOK
    <3> QED
      BY <2>1, <2>2, <3>1, <3>3, <3>4, <3>5, <3>6 DEF OwnInv
  <2>6. AskedInv'
    BY <1>1, <2>1 DEF AskedInv
  <2>7. HandlerInv'
    <3>1. \A p \in 1..(n - 1) : Above(p)' = Above(p)
      <4> SUFFICES ASSUME NEW p \in 1..(n - 1) PROVE Above(p)' = Above(p)
        OBVIOUS
      <4>1. Above(p) = stackActivities[p + 1]
        BY <2>3 DEF Above, n
      <4>2. Len(stackActivities') = n - 1
        BY <1>0, <1>4, <2>1, StackIs DEF TypeOK, n
      <4>3. CASE p = n - 1
        BY <2>1, <2>2, <4>1, <4>2, <4>3 DEF Above
      <4>4. CASE p # n - 1
        <5>1. p + 1 \in 1..(n - 1)
          BY <2>2, <4>4
        <5> QED
          BY <2>2, <4>1, <4>2, <4>4, <5>1 DEF Above
      <4> QED
        BY <4>3, <4>4
    <3>2. \A p \in 1..(n - 1) : resultHandler'[stackActivities'[p]] \in {None, Above(p)'}
      BY <1>0, <2>1, <2>2, <2>3, <3>1 DEF HandlerInv, TypeOK
    <3>3. resultHandler'[current'] = None
      BY <1>0, <2>1, <2>2 DEF TypeOK
    <3>4. \A i \in Activity : life'[i] \in {"new", "pending"} => resultHandler'[i] = None
      BY <1>0, <1>1, <2>1, <2>2 DEF HandlerInv, TypeOK
    <3> QED
      BY <2>2, <3>2, <3>3, <3>4 DEF HandlerInv
  <2> QED
    BY <1>0, <2>5, <2>6, <2>7 DEF NavInv
<1> QED
  BY <1>3, <1>4

(* goHome() with nothing on top. *)
LEMMA HomeNav == NavInv /\ LaunchHome => NavInv'
<1> SUFFICES ASSUME NavInv, LaunchHome PROVE NavInv'
  OBVIOUS
<1>0. TypeOK' /\ TypeOK /\ OwnInv /\ AskedInv /\ HandlerInv
  BY LoopType DEF LoopSteps, NavInv
<1>1. /\ stackActivities = <<>> /\ stackActivities' = <<>> /\ pendingAction = "None"
      /\ current = None /\ pendingActivity = None /\ None \notin Activity
      /\ UNCHANGED <<pendingActivity, pendingAction, resultHandler>>
      /\ current' = NextBuilt /\ loop'.at = "entering"
      /\ life' = [life EXCEPT ![NextBuilt] = "entering"]
  BY <1>0, AtIs DEF LaunchHome, TypeOK, AskedInv, Activity, None
<1>2. NextBuilt \in Activity /\ life[NextBuilt] = "new" /\ resultHandler[NextBuilt] = None
  BY <1>0, BuiltIs DEF LaunchHome, AskedInv, HandlerInv
<1>3. Stack = {} /\ Stack' = {}
  BY <1>1 DEF Stack
<1>4. OwnInv'
  BY <1>0, <1>1, <1>2, <1>3 DEF OwnInv, TypeOK
<1>5. AskedInv' /\ HandlerInv'
  BY <1>0, <1>1, <1>2, <1>3 DEF AskedInv, HandlerInv, TypeOK
<1> QED
  BY <1>0, <1>4, <1>5 DEF NavInv

(* What is in line goes on top: of the stack, or instead of all of it. *)
LEMMA InstallNav == NavInv /\ Install => NavInv'
<1> SUFFICES ASSUME NavInv, Install PROVE NavInv'
  OBVIOUS
<1>0. TypeOK' /\ TypeOK /\ OwnInv /\ AskedInv /\ HandlerInv
  BY LoopType DEF LoopSteps, NavInv
<1>1. /\ loop.at = "draining" /\ loop'.at = "entering"
      /\ current' = pendingActivity /\ pendingActivity' = None /\ pendingAction' = "None"
      /\ UNCHANGED <<resultHandler, kind>>
      /\ pendingActivity \in Activity /\ current \in Activity /\ None \notin Activity
  BY <1>0, AtIs DEF Install, TypeOK, Activity, None
<1>2. /\ life[pendingActivity] = "pending" /\ resultHandler[pendingActivity] = None
      /\ \A i \in Activity : life[i] # "entering"
      /\ \A i \in Activity : life[i] = "pending" => i = pendingActivity
      /\ current # pendingActivity /\ \A p \in Stack : stackActivities[p] # pendingActivity
  BY <1>0, <1>1 DEF OwnInv, HandlerInv
<1>3. AskedInv'
  BY <1>1 DEF AskedInv
<1>4. CASE pendingAction = "Push"
  <2> DEFINE n == Len(stackActivities)
  <2>1. /\ stackActivities' = Append(stackActivities, current)
        /\ life' = [i \in Activity |-> IF i = pendingActivity THEN "entering" ELSE life[i]]
    BY <1>4 DEF Install
  <2>2. /\ n \in Nat /\ Stack = 1..n /\ Stack' = 1..(n + 1) /\ Len(stackActivities') = n + 1
        /\ \A p \in 1..n : stackActivities'[p] = stackActivities[p]
        /\ stackActivities'[n + 1] = current
    BY <1>0, <1>1, <2>1 DEF TypeOK, Stack
  <2> HIDE DEF n
  <2>3. /\ n + 1 \in 1..(n + 1) /\ \A p \in 1..n : p \in 1..(n + 1) /\ p # n + 1
        /\ \A p \in 1..(n + 1) : p = n + 1 \/ p \in 1..n
    BY <2>2
  <2>4. OwnInv'
    <3>1. \A i \in Activity : pendingActivity' = i <=> life'[i] = "pending"
      BY <1>1, <1>2, <2>1
    <3>2. \A i \in Activity : life'[i] \in {"entering", "entered"}
                                <=> i = current' \/ \E p \in Stack' : stackActivities'[p] = i
      <4>1. \A i \in Activity : (\E p \in Stack' : stackActivities'[p] = i)
                                  <=> i = current \/ \E p \in 1..n : stackActivities[p] = i
        BY <2>2, <2>3
      <4> QED
        BY <1>0, <1>1, <1>2, <2>1, <2>2, <4>1 DEF OwnInv
    <3>3. \A p \in Stack' : stackActivities'[p] # current'
      BY <1>1, <1>2, <2>2, <2>3
    <3>4. \A p, q \in Stack' : p # q => stackActivities'[p] # stackActivities'[q]
      BY <1>0, <2>2, <2>3 DEF OwnInv
    <3>5. \A i \in Activity : life'[i] = "entering" <=> i = current' /\ loop'.at = "entering"
      BY <1>1, <1>2, <2>1
    <3> QED
      BY <3>1, <3>2, <3>3, <3>4, <3>5 DEF OwnInv
  <2>5. HandlerInv'
    <3>1. \A p \in Nat : p = n + 1 => Above(p)' = current'
      BY <2>2 DEF Above
    <3>2. \A p \in 1..n : Above(p)' = Above(p)
      <4> SUFFICES ASSUME NEW p \in 1..n PROVE Above(p)' = Above(p)
        OBVIOUS
      <4>1. Above(p)' = stackActivities'[p + 1]
        BY <2>2, <2>3 DEF Above
      <4>2. CASE p = n
        BY <2>2, <4>1, <4>2 DEF Above, n
      <4>3. CASE p # n
        <5>1. p + 1 \in 1..n
          BY <2>2, <4>3
        <5> QED
          BY <2>2, <4>1, <4>3, <5>1 DEF Above, n
      <4> QED
        BY <4>2, <4>3
    <3>3. resultHandler[current] \in {None, current'}
      BY <1>0, <1>1 DEF HandlerInv, TypeOK
    <3>4. \A p \in Stack' : resultHandler'[stackActivities'[p]] \in {None, Above(p)'}
      <4> SUFFICES ASSUME NEW p \in 1..(n + 1)
                   PROVE  resultHandler'[stackActivities'[p]] \in {None, Above(p)'}
        BY <2>2
      <4>1. CASE p = n + 1
        BY <1>1, <2>2, <3>1, <3>3, <4>1
      <4>2. CASE p \in 1..n
        BY <1>0, <1>1, <2>2, <3>2, <4>2 DEF HandlerInv
      <4> QED
        BY <2>3, <4>1, <4>2
    <3>5. \A i \in Activity : life'[i] \in {"new", "pending"} => resultHandler'[i] = None
      BY <1>0, <1>1, <2>1 DEF HandlerInv
    <3> QED
      BY <1>1, <1>2, <3>4, <3>5 DEF HandlerInv
  <2> QED
    BY <1>0, <1>3, <2>4, <2>5 DEF NavInv
<1>5. CASE pendingAction = "Replace"
  <2>1. /\ stackActivities' = <<>>
        /\ life' = [i \in Activity |->
                      IF i \in {current} \cup {stackActivities[p] : p \in Stack} THEN "gone"
                      ELSE IF i = pendingActivity THEN "entering" ELSE life[i]]
    BY <1>5 DEF Install, Stack
  <2>2. Stack' = {}
    BY <2>1 DEF Stack
  <2>3. \A i \in Activity : life'[i] = IF i = pendingActivity THEN "entering"
                                       ELSE IF life[i] \in {"entering", "entered"} THEN "gone"
                                       ELSE life[i]
    BY <1>0, <1>2, <2>1 DEF OwnInv
  <2>4. OwnInv'
    BY <1>1, <1>2, <2>2, <2>3 DEF OwnInv
  <2>5. HandlerInv'
    BY <1>0, <1>1, <1>2, <2>2, <2>3 DEF HandlerInv
  <2> QED
    BY <1>0, <1>3, <2>4, <2>5 DEF NavInv
<1> QED
  BY <1>4, <1>5 DEF Install

(* Its own onEnter() has returned. *)
LEMMA EnteredNav == NavInv /\ ReturnFromOnEnter => NavInv'
<1> SUFFICES ASSUME NavInv, ReturnFromOnEnter PROVE NavInv'
  OBVIOUS
<1>0. TypeOK' /\ TypeOK /\ OwnInv /\ AskedInv /\ HandlerInv
  BY LoopType DEF LoopSteps, NavInv
<1>1. /\ loop.at = "entering" /\ loop'.at = "draining"
      /\ UNCHANGED <<current, stackActivities, pendingActivity, pendingAction, resultHandler, kind>>
      /\ current \in Activity /\ life[current] = "entering"
      /\ life' = [life EXCEPT ![current] = "entered"]
  BY <1>0, AtIs DEF ReturnFromOnEnter, TypeOK, OwnInv, Activity, None
<1>2. /\ Stack' = Stack /\ \A p : Above(p)' = Above(p)
  BY <1>1 DEF Stack, Above
<1>3. \A i \in Activity : /\ life'[i] \in {"entering", "entered"} <=> life[i] \in {"entering", "entered"}
                          /\ life'[i] \in {"new", "pending"} => life'[i] = life[i]
                          /\ life'[i] = "pending" <=> life[i] = "pending"
                          /\ life'[i] = "new" <=> life[i] = "new"
                          /\ life'[i] # "entering"
  BY <1>0, <1>1 DEF OwnInv, TypeOK
<1>4. OwnInv'
  BY <1>0, <1>1, <1>2, <1>3 DEF OwnInv
<1>5. Unbuilt' = Unbuilt
  BY <1>3 DEF Unbuilt
<1>6. AskedInv'
  BY <1>0, <1>1, <1>5 DEF AskedInv, SamePass
<1>7. HandlerInv'
  BY <1>0, <1>1, <1>2, <1>3 DEF HandlerInv, SamePass
<1> QED
  BY <1>0, <1>4, <1>6, <1>7 DEF NavInv

LEMMA CallsNav == NavInv /\ ActivityCalls => NavInv'
<1> SUFFICES ASSUME NavInv, ActivityCalls PROVE NavInv'
  OBVIOUS
<1>0. TypeOK' /\ TypeOK /\ AskedInv /\ HandlerInv
  BY CallsType DEF NavInv
<1>1. CASE Change \/ RequestUpdate \/ RequestUpdateNow \/ Register
  <2>1. UNCHANGED nav /\ loop'.at = loop.at /\ loop'.moved = loop.moved
    BY <1>0, <1>1 DEF Change, RequestUpdate, RequestUpdateNow, Register, TypeOK
  <2> QED
    BY <1>0, <2>1, StillNav DEF SamePass, nav
<1>2. CASE Navigate
  <2>1. /\ loop.at \in {"running", "entering", "handling"} /\ ~loop.moved
        /\ kind[current] \in {"app", "home"}
        /\ loop'.at = loop.at /\ loop'.moved = TRUE
    BY <1>0, <1>2 DEF Navigate, Calling, TypeOK
  <2>2. ~SamePass
    BY <2>1 DEF SamePass
  <2>3. current \in Activity /\ life[current] # "new"
    BY <1>0, <2>1 DEF NavInv, OwnInv, TypeOK
  <2>4. ASSUME NEW k \in Kind, NEW a \in {"Push", "Replace"}, SetPending(a, k), current' = current
        PROVE  SamePass'
    <3>1. kind'[current] = kind[current]
      BY <1>0, <2>3, <2>4, BuiltIs DEF SetPending, TypeOK
    <3> QED
      BY <2>1, <2>4, <3>1 DEF SamePass
  <2>5. CASE \E k \in {"app", "home", "usb"} : ReplaceActivity(k)
    BY <1>0, <2>1, <2>2, <2>5, AskNav DEF ReplaceActivity
  <2>6. CASE StartActivityForResult("app")
    BY <1>0, <2>1, <2>2, <2>4, <2>6, AskNav DEF StartActivityForResult, Kind
  <2>7. CASE PopActivity
    <3>1. SamePass'
      BY <2>1, <2>7 DEF PopActivity, SamePass
    <3> QED
      BY <1>0, <2>1, <2>2, <2>7, <3>1, FinishNav
  <2> QED
    BY <1>2, <2>5, <2>6, <2>7 DEF Navigate
<1> QED
  BY <1>1, <1>2 DEF ActivityCalls

LEMMA LoopNav == NavInv /\ LoopSteps => NavInv'
<1> SUFFICES ASSUME NavInv, LoopSteps PROVE NavInv'
  OBVIOUS
<1>0. TypeOK' /\ TypeOK /\ AskedInv /\ HandlerInv
  BY LoopType DEF NavInv
<1>1. CASE NotifyRender \/ TakeNotice
  <2>1. UNCHANGED nav /\ loop'.at = loop.at /\ loop'.moved = loop.moved
    BY <1>0, <1>1 DEF NotifyRender, TakeNotice, TypeOK
  <2> QED
    BY <1>0, <2>1, StillNav DEF SamePass, nav
<1>2. CASE RunActivity \/ ReturnExclusive \/ FinishPass
  <2>1. UNCHANGED nav /\ loop.at \in {"top", "running", "draining"}
        /\ loop'.at \in {"top", "running", "asleep"}
    BY <1>2, AtIs DEF RunActivity, ReturnExclusive, FinishPass, EndOfPass
  <2>2. ~(pendingAction # "None" /\ SamePass)
    BY <1>2 DEF RunActivity, ReturnExclusive, FinishPass, RequiresExclusiveStorage, SamePass
  <2> QED
    BY <1>0, <2>1, <2>2, StillNav
<1>3. CASE ReturnFromLoop \/ ReturnFromHandler \/ Resume
  <2>1. UNCHANGED nav /\ loop.at \in {"running", "handling", "returned"}
        /\ loop'.at \in {"draining", "returned"}
    BY <1>3, AtIs DEF ReturnFromLoop, ReturnFromHandler, Resume
  <2> QED
    BY <1>0, <2>1, StillNav DEF SamePass, nav
<1> QED
  BY <1>1, <1>2, <1>3, EnteredNav, PopNav, HomeNav, InstallNav DEF LoopSteps

LEMMA InputsNav == NavInv /\ Inputs => NavInv'
<1> SUFFICES ASSUME NavInv, Inputs PROVE NavInv'
  OBVIOUS
<1>0. TypeOK' /\ TypeOK
  BY InputsType DEF NavInv
<1>1. loop.at = "top" /\ ~SamePass
  BY DEF Inputs, SwallowInput, HomeGesture, LightPanelGesture, GoToSleep, SamePass
<1>2. loop'.at \in {"top", "asleep"}
  BY <1>1, AtIs DEF Inputs, SwallowInput, HomeGesture, LightPanelGesture, GoToSleep, EndOfPass
<1>3. CASE SwallowInput
  BY <1>0, <1>1, <1>2, <1>3, StillNav DEF SwallowInput
<1>4. CASE HomeGesture \/ LightPanelGesture \/ GoToSleep
  <2>1. PICK a \in {"Push", "Replace"}, k \in Kind : SetPending(a, k)
    BY <1>4 DEF HomeGesture, LightPanelGesture, GoToSleep, ReplaceActivity, PushActivity, Kind
  <2>2. UNCHANGED <<current, stackActivities, resultHandler>>
    BY <1>4 DEF HomeGesture, LightPanelGesture, GoToSleep, ReplaceActivity, PushActivity
  <2> QED
    BY <1>0, <1>1, <1>2, <2>1, <2>2, AskNav
<1> QED
  BY <1>3, <1>4 DEF Inputs

LEMMA NextNav == NavInv /\ [Next]_vars => NavInv'
<1> SUFFICES ASSUME NavInv, [Next]_vars PROVE NavInv'
  OBVIOUS
<1>0. TypeOK' /\ TypeOK
  BY NextType DEF NavInv
<1>1. CASE RenderSteps \/ DeepSleep \/ UNCHANGED vars
  <2>1. UNCHANGED <<current, stackActivities, pendingActivity, pendingAction, resultHandler, life,
                    kind, loop>>
    BY <1>1 DEF RenderSteps, RenderWakes, RenderBegins, RenderEnds, WakeWaiter, RenderReleases,
                DeepSleep, vars, nav
  <2> QED
    BY <1>0, <2>1, StillNav DEF nav, SamePass
<1> QED
  BY <1>1, CallsNav, LoopNav, InputsNav DEF Next

(* Whatever activities ask for, the owners, the pending action and the     *)
(* result handlers fit together.  (ActivityManager::loop)                  *)
THEOREM NavInvariant == Spec => []NavInv
<1> QED
  BY InitNav, NextNav, PTL DEF Spec

(* Every activity that is alive has one owner, and owners only own the     *)
(* living: nothing is leaked, and nothing is deleted twice.                *)
THEOREM EveryActivityOwnedOnce == Spec => []OwnedOnce
<1>1. NavInv => OwnedOnce
  <2> SUFFICES ASSUME NavInv PROVE OwnedOnce
    OBVIOUS
  <2> DEFINE n == Len(stackActivities)
             owned == stackActivities \o <<current, pendingActivity>>
  <2>1. n \in Nat /\ Stack = 1..n /\ Len(owned) = n + 2
    BY DEF NavInv, TypeOK, Stack
  <2>2. /\ \A p \in 1..n : owned[p] = stackActivities[p] /\ stackActivities[p] \in Activity
        /\ owned[n + 1] = current /\ owned[n + 2] = pendingActivity
    BY <2>1 DEF NavInv, TypeOK
  <2> HIDE DEF n, owned
  <2>3. /\ n + 1 \in 1..(n + 2) /\ n + 2 \in 1..(n + 2) /\ n + 1 # n + 2
        /\ \A p \in 1..(n + 2) : p \in 1..n \/ p = n + 1 \/ p = n + 2
        /\ \A p \in 1..n : p \in 1..(n + 2)
    BY <2>1
  <2>4. None \notin Activity /\ current \in Activity \cup {None}
        /\ pendingActivity \in Activity \cup {None}
    BY DEF NavInv, TypeOK, Activity, None
  <2>5. current # None => current # pendingActivity
    BY <2>4 DEF NavInv, OwnInv
  <2>6. \A p \in 1..n : stackActivities[p] # current /\ stackActivities[p] # pendingActivity
    BY <2>1, <2>2, <2>4 DEF NavInv, OwnInv
  <2>7. \A p, q \in 1..(n + 2) : p # q /\ owned[p] = owned[q] => owned[p] = None
    BY <2>1, <2>2, <2>3, <2>5, <2>6 DEF NavInv, OwnInv
  <2>8. \A i \in Activity : (\E p \in 1..(n + 2) : owned[p] = i)
                              <=> i = current \/ i = pendingActivity \/ \E p \in 1..n : stackActivities[p] = i
    BY <2>2, <2>3
  <2>9. \A i \in Activity : (\E p \in 1..(n + 2) : owned[p] = i)
                              <=> life[i] \in {"pending", "entering", "entered"}
    BY <2>1, <2>8 DEF NavInv, OwnInv
  <2> QED
    BY <2>1, <2>7, <2>9 DEF NavInv, OwnInv, OwnedOnce, owned
<1> QED
  BY <1>1, NavInvariant, PTL

(* A navigation asked for in onEnter() waits until it has returned.        *)
THEOREM NothingDestroyedInOnEnter == Spec => NotDestroyedWhileEntering
<1>1. ASSUME NavInv, [Next]_vars, NEW i \in Activity, life[i] = "entering"
      PROVE  life'[i] \in {"entering", "entered"}
  <2>1. i = current /\ loop.at = "entering" /\ i # pendingActivity
    BY <1>1 DEF NavInv, OwnInv
  <2>2. life \in [Activity -> {"new", "pending", "entering", "entered", "gone"}]
    BY <1>1 DEF NavInv, TypeOK
  <2>3. CASE UNCHANGED life
    BY <1>1, <2>3
  <2>4. CASE Navigate
    BY <1>1, <2>1, <2>2, <2>4, BuiltIs
       DEF Navigate, ReplaceActivity, StartActivityForResult, PopActivity, SetPending
  <2>5. CASE ReturnFromOnEnter
    BY <1>1, <2>1, <2>2, <2>5 DEF ReturnFromOnEnter
  <2> QED
    BY <1>1, <2>1, <2>3, <2>4, <2>5
       DEF Next, ActivityCalls, LoopSteps, Inputs, RenderSteps, vars, nav,
           Change, RequestUpdate, RequestUpdateNow, Register, NotifyRender, TakeNotice,
           RunActivity, ReturnExclusive, ReturnFromLoop, Pop, ReturnFromHandler, Resume, LaunchHome,
           Install, FinishPass, SwallowInput, HomeGesture, LightPanelGesture, GoToSleep,
           RenderWakes, RenderBegins, RenderEnds, WakeWaiter, RenderReleases, DeepSleep
<1>2. NavInv /\ [Next]_vars
        => [\A i \in Activity : life[i] = "entering" => life'[i] \in {"entering", "entered"}]_vars
  BY <1>1
<1> QED
  BY <1>2, NavInvariant, PTL DEF Spec, NotDestroyedWhileEntering

(* Whatever was pushed and popped in between, a handler is given the       *)
(* result of the activity it was installed for.                            *)
THEOREM ResultsReachLaunchers == Spec => ResultReachesLauncher
<1>1. ASSUME NavInv, [Next]_vars, loop.at = "draining", loop'.at = "handling"
      PROVE  resultHandler[current'] = loop'.result
  <2>1. Pop
    BY <1>1, AtIs
       DEF Next, ActivityCalls, LoopSteps, Inputs, RenderSteps, vars, nav, NavInv, TypeOK, Calling, EndOfPass,
           Change, RequestUpdate, RequestUpdateNow, Register, Navigate, NotifyRender, TakeNotice,
           RunActivity, ReturnExclusive, ReturnFromLoop, ReturnFromOnEnter, ReturnFromHandler, Resume, LaunchHome,
           Install, FinishPass, SwallowInput, HomeGesture, LightPanelGesture, GoToSleep,
           RenderWakes, RenderBegins, RenderEnds, WakeWaiter, RenderReleases, DeepSleep
  <2>2. stackActivities # <<>> /\ current' = Uncovered /\ resultHandler[Uncovered] # None
    <3>1. stackActivities # <<>>
      BY <1>1, <2>1, AtIs DEF Pop, Finish
    <3>2. resultHandler[Uncovered] # None
      BY <1>1, <2>1, <3>1, AtIs DEF Pop, Finish
    <3> QED
      BY <2>1, <3>1, <3>2 DEF Pop, Finish
  <2>3. loop'.result = current
    BY <2>1, <2>2 DEF Pop, Finish, At
  <2>4. Len(stackActivities) \in Stack
    BY <1>1, <2>2, StackIs DEF NavInv, TypeOK, Stack
  <2>5. resultHandler[Uncovered] \in {None, current}
    BY <1>1, <2>4 DEF NavInv, HandlerInv, Above, Uncovered
  <2> QED
    BY <2>2, <2>3, <2>5
<1>2. NavInv /\ [Next]_vars
        => [loop.at = "draining" /\ loop'.at = "handling"
              => resultHandler[current'] = loop'.result]_vars
  BY <1>1
<1> QED
  BY <1>2, NavInvariant, PTL DEF Spec, ResultReachesLauncher

-----------------------------------------------------------------------------
(* The render task.                                                        *)

LEMMA InitLock == Init => LockInv
BY DEF Init, LockInv

LEMMA NextLock == NavInv /\ LockInv /\ [Next]_vars => LockInv'
<1> SUFFICES ASSUME NavInv, LockInv, [Next]_vars PROVE LockInv'
  OBVIOUS
<1>0. TypeOK
  BY DEF NavInv
<1>1. CASE UNCHANGED <<current, renderingMutex>> /\ render'.at = render.at /\ render'.of = render.of
  BY <1>1 DEF LockInv
<1>2. CASE Pop \/ Install
  <2>1. renderingMutex = "free" /\ UNCHANGED <<render, renderingMutex>>
    BY <1>2 DEF Pop, Finish, Install
  <2> QED
    BY <2>1 DEF LockInv
<1>3. CASE LaunchHome
  <2>1. current = None /\ UNCHANGED <<render, renderingMutex>>
    BY <1>0, <1>3 DEF LaunchHome, TypeOK, paint
  <2> QED
    BY <2>1 DEF LockInv
<1>4. CASE RenderSteps
  BY <1>0, <1>4 DEF RenderSteps, RenderWakes, RenderBegins, RenderEnds, WakeWaiter, RenderReleases,
                    LockInv, TypeOK, nav
<1>5. CASE ActivityCalls \/ Inputs \/ DeepSleep \/ UNCHANGED vars
  <2>1. UNCHANGED <<current, renderingMutex>> /\ render'.at = render.at /\ render'.of = render.of
    BY <1>0, <1>5 DEF ActivityCalls, Inputs, vars, nav, paint, TypeOK,
           Change, RequestUpdate, RequestUpdateNow, Register, Navigate, ReplaceActivity, PushActivity,
           StartActivityForResult, PopActivity,
           SwallowInput, HomeGesture, LightPanelGesture, GoToSleep, DeepSleep
  <2> QED
    BY <1>1, <2>1
<1>6. CASE LoopSteps
  BY <1>1, <1>2, <1>3, <1>6
     DEF LoopSteps, NotifyRender, TakeNotice, RunActivity, ReturnExclusive, ReturnFromLoop,
         ReturnFromOnEnter, ReturnFromHandler, Resume, FinishPass, nav, paint
<1> QED
  BY <1>4, <1>5, <1>6 DEF Next

(* The render task paints the activity on top, and never a destroyed one.  *)
THEOREM TopIsPainted == Spec => []PaintsTheTop
<1>1. Spec => []LockInv
  BY InitLock, NextLock, NavInvariant, PTL DEF Spec
<1>2. NavInv /\ LockInv => PaintsTheTop
  BY DEF NavInv, TypeOK, OwnInv, LockInv, PaintsTheTop
<1> QED
  BY <1>1, <1>2, NavInvariant, PTL

-----------------------------------------------------------------------------
(* The wait for a paint. *)

(* What is on top stays what it is. *)
LEMMA KindStays ==
  ASSUME NavInv, [Next]_vars, current' = current, current # None
  PROVE  kind'[current] = kind[current]
<1>0. current \in Activity /\ life[current] # "new" /\ kind \in [Activity -> Kind]
  BY DEF NavInv, TypeOK, OwnInv
<1>1. CASE kind' = kind
  BY <1>1
<1>2. CASE LaunchHome
  BY <1>2 DEF LaunchHome, NavInv, TypeOK
<1>3. CASE Navigate \/ Inputs
  BY <1>0, <1>3, BuiltIs
     DEF Navigate, Inputs, SwallowInput, HomeGesture, LightPanelGesture, GoToSleep, nav,
         ReplaceActivity, PushActivity, StartActivityForResult, PopActivity, SetPending
<1> QED
  BY <1>1, <1>2, <1>3
     DEF Next, ActivityCalls, LoopSteps, RenderSteps, vars, nav,
         Change, RequestUpdate, RequestUpdateNow, Register, NotifyRender, TakeNotice,
         RunActivity, ReturnExclusive, ReturnFromLoop, ReturnFromOnEnter, Pop, Finish, ReturnFromHandler,
         Resume, Install, FinishPass,
         RenderWakes, RenderBegins, RenderEnds, WakeWaiter, RenderReleases, DeepSleep

LEMMA InitWait == Init => WaitInv
BY DEF Init, WaitInv, At

LEMMA NextWait == NavInv /\ WaitInv /\ [Next]_vars => WaitInv'
<1> SUFFICES ASSUME NavInv, WaitInv, [Next]_vars PROVE WaitInv'
  OBVIOUS
<1>0. TypeOK
  BY DEF NavInv
<1>1. CASE /\ UNCHANGED <<current, waitingTask, loopNotice>>
           /\ loop'.wait = loop.wait /\ loop'.at = loop.at
  <2>1. loop.wait # "no" => current # None /\ kind'[current] = kind[current]
    BY <1>0, <1>1, KindStays DEF WaitInv, TypeOK
  <2> QED
    BY <1>1, <2>1 DEF WaitInv
<1>2. CASE loop.wait = "no" /\ loop'.wait = "no" /\ UNCHANGED <<waitingTask, loopNotice>>
  BY <1>2 DEF WaitInv
<1>3. CASE Register
  <2>1. /\ kind[current] \notin {"home", "sleep"} /\ UNCHANGED <<kind, current, loopNotice>>
        /\ loop.wait = "no" /\ loop'.at = loop.at /\ loop'.wait = "registered"
        /\ loop.at \in {"running", "entering", "handling"}
    BY <1>0, <1>3 DEF Register, Calling, nav, TypeOK
  <2> QED
    BY <2>1 DEF WaitInv
<1>4. CASE NotifyRender
  <2>1. /\ UNCHANGED <<kind, current, loopNotice, waitingTask>>
        /\ loop.wait = "registered" /\ loop'.at = loop.at /\ loop'.wait = "blocked"
    BY <1>0, <1>4 DEF NotifyRender, nav, TypeOK
  <2> QED
    BY <2>1 DEF WaitInv
<1>5. CASE TakeNotice
  <2>1. waitingTask' = waitingTask /\ loopNotice /\ loopNotice' = FALSE /\ loop'.wait = "no"
    BY <1>0, <1>5 DEF TakeNotice, TypeOK
  <2> QED
    BY <2>1 DEF WaitInv
<1>6. CASE WakeWaiter
  <2>1. /\ UNCHANGED <<kind, current, loop>>
        /\ waitingTask' = FALSE /\ loopNotice' = (loopNotice \/ waitingTask)
    BY <1>6 DEF WakeWaiter, nav
  <2> QED
    BY <2>1 DEF WaitInv
<1>7. CASE RunActivity \/ ReturnExclusive \/ ReturnFromLoop \/ ReturnFromOnEnter \/ Pop \/ ReturnFromHandler
           \/ Resume \/ LaunchHome \/ Install \/ FinishPass \/ SwallowInput \/ HomeGesture
           \/ LightPanelGesture
  <2>1. loop.wait = "no" /\ UNCHANGED <<waitingTask, loopNotice>>
    BY <1>7 DEF RunActivity, ReturnExclusive, ReturnFromLoop, ReturnFromOnEnter, Pop, Finish,
                ReturnFromHandler, Resume, LaunchHome, Install, FinishPass, SwallowInput, HomeGesture,
                LightPanelGesture, notices, WaitInv
  <2>2. CASE Pop
    BY <1>2, <2>1, <2>2 DEF Pop, Finish, At
  <2>3. CASE ~Pop
    BY <1>2, <1>7, <2>1, <2>3, AtIs
       DEF RunActivity, ReturnExclusive, ReturnFromLoop, ReturnFromOnEnter,
           ReturnFromHandler, Resume, LaunchHome, Install, FinishPass, SwallowInput, HomeGesture,
           LightPanelGesture, EndOfPass
  <2> QED
    BY <2>2, <2>3
<1>8. CASE Change \/ RequestUpdate \/ RequestUpdateNow \/ Navigate \/ GoToSleep \/ RenderWakes
           \/ RenderBegins \/ RenderEnds \/ RenderReleases \/ DeepSleep \/ UNCHANGED vars
  <2>1. /\ UNCHANGED <<current, waitingTask, loopNotice>>
        /\ loop'.wait = loop.wait /\ loop'.at = loop.at
    BY <1>0, <1>8
       DEF Change, RequestUpdate, RequestUpdateNow, Navigate, GoToSleep, RenderWakes, RenderBegins,
           RenderEnds, RenderReleases, DeepSleep, vars, nav, notices, TypeOK,
           ReplaceActivity, PushActivity, StartActivityForResult, PopActivity
  <2> QED
    BY <1>1, <2>1
<1> QED
  BY <1>3, <1>4, <1>5, <1>6, <1>7, <1>8 DEF Next, ActivityCalls, LoopSteps, Inputs, RenderSteps

LEMMA InitShown == Init => ShownInv
BY DEF Init, ShownInv

LEMMA NextShown ==
  ASSUME LocksChanges = TRUE, NavInv, LockInv, WaitInv, ShownInv, [Next]_vars
  PROVE  ShownInv'
<1>0. TypeOK
  BY DEF NavInv
<1>1. CASE UNCHANGED <<current, render, panel, shown, loopNotice>>
  <2>1. current # None => kind'[current] = kind[current]
    BY <1>1, KindStays
  <2> QED
    BY <1>1, <2>1 DEF ShownInv
<1>2. CASE Change
  <2>1. renderingMutex = "free" /\ loop.wait = "no" /\ loopNotice' = loopNotice
        /\ render'.at = render.at
    BY <1>0, <1>2 DEF Change, Calling, notices, TypeOK
  <2> QED
    BY <2>1 DEF LockInv, WaitInv, ShownInv
<1>3. CASE Pop \/ Install
  <2>1. /\ renderingMutex = "free" /\ loop.at = "draining"
        /\ loopNotice' = loopNotice /\ render' = render
    BY <1>3 DEF Pop, Finish, Install, notices
  <2> QED
    BY <2>1 DEF LockInv, WaitInv, ShownInv
<1>4. CASE LaunchHome
  <2>1. /\ loop.at = "goHome" /\ loopNotice' = loopNotice /\ render' = render
        /\ current' = NextBuilt /\ kind' = [kind EXCEPT ![NextBuilt] = "home"]
        /\ NextBuilt \in Activity
    BY <1>4, BuiltIs DEF LaunchHome, paint, notices, NavInv, AskedInv
  <2>2. kind'[current'] = "home"
    BY <1>0, <2>1 DEF TypeOK
  <2> QED
    BY <2>1, <2>2 DEF WaitInv, ShownInv
<1>5. CASE ReturnFromOnEnter
  <2>1. /\ loop.wait = "no" /\ loopNotice' = loopNotice /\ render' = render
        /\ UNCHANGED <<current, kind>>
        /\ \/ panel' = current /\ shown' = TRUE
           \/ UNCHANGED <<panel, shown>>
    BY <1>5 DEF ReturnFromOnEnter
  <2> QED
    BY <2>1 DEF WaitInv, ShownInv
<1>6. CASE TakeNotice
  BY <1>6 DEF TakeNotice, nav, paint, ShownInv
<1>7. CASE RenderBegins
  BY <1>7 DEF RenderBegins, nav, notices, ShownInv
<1>8. CASE RenderEnds
  <2>1. /\ render.of = current /\ render.fresh /\ render'.at = "painted"
        /\ UNCHANGED <<current, kind, loopNotice>>
    BY <1>0, <1>8 DEF RenderEnds, nav, notices, LockInv, ShownInv, TypeOK
  <2>2. \/ kind[current] = "sleep" /\ UNCHANGED <<panel, shown>>
        \/ panel' = current /\ shown' = TRUE
    BY <1>8, <2>1 DEF RenderEnds
  <2> QED
    BY <2>1, <2>2 DEF ShownInv
<1>9. CASE WakeWaiter
  <2>1. /\ render.at = "painted" /\ render'.at = "told" /\ UNCHANGED <<current, kind, panel, shown>>
        /\ loopNotice' = (loopNotice \/ waitingTask)
    BY <1>0, <1>9 DEF WakeWaiter, nav, TypeOK
  <2>2. waitingTask => current # None /\ kind[current] \notin {"home", "sleep"}
    BY <1>0 DEF WaitInv, TypeOK
  <2> QED
    BY <2>1, <2>2 DEF ShownInv
<1>10. CASE RenderWakes \/ RenderReleases
  <2>1. render'.at \in {"woken", "idle"} /\ UNCHANGED <<current, panel, shown, loopNotice>>
    BY <1>0, <1>10 DEF RenderWakes, RenderReleases, nav, notices, TypeOK
  <2> QED
    BY <2>1 DEF ShownInv
<1>11. CASE RequestUpdate \/ RequestUpdateNow \/ Register \/ Navigate \/ NotifyRender \/ RunActivity
            \/ ReturnExclusive \/ ReturnFromLoop \/ ReturnFromHandler \/ Resume \/ FinishPass
            \/ Inputs \/ DeepSleep \/ UNCHANGED vars
  <2>1. UNCHANGED <<current, render, panel, shown, loopNotice>>
    BY <1>11
       DEF RequestUpdate, RequestUpdateNow, Register, Navigate, NotifyRender, RunActivity,
           ReturnExclusive, ReturnFromLoop, ReturnFromHandler, Resume, FinishPass, Inputs, SwallowInput,
           HomeGesture, LightPanelGesture, GoToSleep, DeepSleep, vars, nav, paint, notices,
           ReplaceActivity, PushActivity, StartActivityForResult, PopActivity
  <2> QED
    BY <1>1, <2>1
<1> QED
  BY <1>2, <1>3, <1>4, <1>5, <1>6, <1>7, <1>8, <1>9, <1>10, <1>11
     DEF Next, ActivityCalls, LoopSteps, RenderSteps

(* requestUpdateAndWait returns with the panel showing what its caller had *)
(* changed, as long as activities change what render() reads under the     *)
(* lock (XkcdActivity.cpp:1199-1207 says what a frame under way misses).   *)
THEOREM WaitersSeeTheirPaint ==
  ASSUME LocksChanges = TRUE
  PROVE  Spec => WaitShows
<1>1. Spec => []LockInv
  BY InitLock, NextLock, NavInvariant, PTL DEF Spec
<1>2. Spec => []WaitInv
  BY InitWait, NextWait, NavInvariant, PTL DEF Spec
<1>3. NavInv /\ LockInv /\ WaitInv /\ ShownInv /\ [Next]_vars => ShownInv'
  BY NextShown
<1>4. Spec => []ShownInv
  BY <1>1, <1>2, <1>3, InitShown, NavInvariant, PTL DEF Spec
<1>5. ASSUME NavInv, WaitInv, ShownInv, [Next]_vars, loop.wait = "blocked", loop'.wait = "no"
      PROVE  panel = current /\ shown
  <2>1. TakeNotice
    BY <1>5, AtIs
       DEF Next, ActivityCalls, LoopSteps, Inputs, RenderSteps, vars, nav, NavInv, TypeOK, WaitInv, Calling,
           Change, RequestUpdate, RequestUpdateNow, Register, Navigate, NotifyRender,
           RunActivity, ReturnExclusive, ReturnFromLoop, ReturnFromOnEnter, Pop, Finish, ReturnFromHandler,
           Resume, LaunchHome, Install, FinishPass, SwallowInput, HomeGesture, LightPanelGesture, GoToSleep,
           RenderWakes, RenderBegins, RenderEnds, WakeWaiter, RenderReleases, DeepSleep
  <2> QED
    BY <1>5, <2>1 DEF TakeNotice, ShownInv
<1>6. NavInv /\ WaitInv /\ ShownInv /\ [Next]_vars
        => [loop.wait = "blocked" /\ loop'.wait = "no" => panel = current /\ shown]_vars
  BY <1>5
<1> QED
  BY <1>2, <1>4, <1>6, NavInvariant, PTL DEF Spec, WaitShows
=============================================================================
