------------------------------ MODULE DevMode ------------------------------
(***************************************************************************)
(* One radio and its users: Developer Mode's background join and control   *)
(* server (src/DevMode.cpp) against the screens that take the radio or the *)
(* ports: the web transfer screen and the Wi-Fi picker, which nest         *)
(* (CrossPointWebServerActivity.cpp, WifiSelectionActivity.cpp), a link    *)
(* match (LinkRadio.cpp), typing notes from a phone (NotesActivity.cpp),   *)
(* a Live lease (LiveEngine.cpp), an app that fetches and Settings'        *)
(* network row (HackerNewsActivity.cpp, SettingsActivity.cpp).             *)
(*                                                                         *)
(* All of it runs on the loop task: update() is one action per branch, and *)
(* a screen's handler is one action.  The Wi-Fi task associates and drops  *)
(* the station between any two of them.  The deadlines (nextAttemptAt,     *)
(* joinDeadline) pass at any time.                                         *)
(*                                                                         *)
(* by, in radio, is history: who called WiFi.begin() for what is up.       *)
(* "Fault" marks a plausible bug in the definition that follows it; no     *)
(* specification uses one.                                                 *)
(***************************************************************************)
EXTENDS Naturals

CONSTANTS Ssid, None

ASSUME SsidAssumption == None \notin Ssid

VARIABLES
  setting,     \* SETTINGS.devMode
  saved,       \* the store's last connected network
  range,       \* the networks in reach
  radio,       \* the Wi-Fi driver
  espNow,      \* the ESP-NOW stack is initialised
  dev,         \* Developer Mode's own state
  yieldDepth,  \* how many holders Developer Mode has stood down for
  screen,      \* the activity on the stack
  use,         \* what that screen does with the radio
  picker,      \* the Wi-Fi picker on top of it
  link         \* the flags of the match's Radio

devVars == <<radio, dev, yieldDepth>>
screenVars == <<screen, use, picker, link, espNow>>
vars == <<setting, saved, range, devVars, screenVars>>

Network == Ssid \cup {None}
Screen == {"home", "web", "link", "app", "notes", "live", "network"}
Use == {"idle", "station", "ap", "phone", "lease", "raised"}

RadioOff == [mode |-> "Off", target |-> None, on |-> None, by |-> "nobody"]

Radio ==
  [mode : {"Off", "Sta", "Ap"}, target : Network, on : Network,
   by : {"nobody", "dev", "screen"}]

Dev ==
  [state : {"Off", "NoNetwork", "Joining", "Serving", "Waiting"},
   server : BOOLEAN, ssid : Network, ours : BOOLEAN, issued : BOOLEAN,
   reload : BOOLEAN, attempt : BOOLEAN]

TypeOK ==
  /\ setting \in BOOLEAN /\ saved \in Network /\ range \subseteq Ssid
  /\ radio \in Radio /\ dev \in Dev
  /\ yieldDepth \in Nat
  /\ screen \in Screen /\ use \in Use
  /\ picker \in {"closed", "scanning", "connecting"}
  /\ espNow \in BOOLEAN
  /\ link \in [held : BOOLEAN, espNowUp : BOOLEAN]

Init ==
  /\ setting \in BOOLEAN /\ saved \in Network /\ range \in SUBSET Ssid
  /\ radio = RadioOff
  /\ dev = [state |-> "Off", server |-> FALSE, ssid |-> None, ours |-> FALSE,
            issued |-> FALSE, reload |-> FALSE, attempt |-> FALSE]
  /\ yieldDepth = 0
  /\ screen = "home" /\ use = "idle" /\ picker = "closed"
  /\ espNow = FALSE
  /\ link = [held |-> FALSE, espNowUp |-> FALSE]

-----------------------------------------------------------------------------
(* The driver's calls. *)
Connected(r) == r.on # None

Station(r) == IF r.mode = "Sta" THEN r ELSE [RadioOff EXCEPT !.mode = "Sta"]

Disconnect(r) == [r EXCEPT !.target = None, !.on = None, !.by = "nobody"]

BeginJoin(r, ssid, who) ==
  [Station(r) EXCEPT !.target = ssid, !.on = None, !.by = who]

(* The Wi-Fi task: an association completes, a network comes or goes.  The *)
(* core rejoins what it was told to join.                                  *)
Associate ==
  /\ radio.mode = "Sta" /\ radio.on = None /\ radio.target \in range
  /\ radio' = [radio EXCEPT !.on = radio.target]
  /\ UNCHANGED <<setting, saved, range, dev, yieldDepth, screenVars>>

RangeChanges ==
  /\ range' \in SUBSET Ssid
  /\ radio' = IF radio.on \in range' THEN radio ELSE [radio EXCEPT !.on = None]
  /\ UNCHANGED <<setting, saved, dev, yieldDepth, screenVars>>

-----------------------------------------------------------------------------
(* Developer Mode's functions, over its own state, the radio and the count *)
(* of holders. *)
Now == [radio |-> radio, dev |-> dev, depth |-> yieldDepth]

Becomes(s) == radio' = s.radio /\ dev' = s.dev /\ yieldDepth' = s.depth

HoldsRadio(s) ==
  s.dev.ours /\ setting /\ s.radio.mode # "Off" /\ Connected(s.radio)

TearDown(s) ==
  [s EXCEPT !.dev.server = FALSE, !.dev.attempt = FALSE, !.dev.ours = FALSE,
            !.dev.state = "Off", !.radio = IF s.dev.ours THEN RadioOff ELSE @]

StartJoin(s) ==
  IF s.radio.mode # "Off" /\ Connected(s.radio) /\ ~s.dev.ours
  THEN [s EXCEPT !.dev.state = "Waiting", !.dev.attempt = TRUE]
  ELSE [s EXCEPT !.radio = BeginJoin(@, s.dev.ssid, "dev"),
                 !.dev.issued = TRUE, !.dev.state = "Joining"]

Pause(s) ==
  IF s.depth > 0 \/ s.dev.state = "Off" THEN [s EXCEPT !.depth = @ + 1]
  ELSE [s EXCEPT !.depth = @ + 1, !.dev.server = FALSE]

HandedBack(s) ==
  IF s.dev.state = "Off" THEN s
  ELSE IF ~setting THEN TearDown(s)
  ELSE [s EXCEPT !.dev.ours = @ /\ s.radio.mode # "Off" /\ Connected(s.radio),
                 !.dev.reload = TRUE, !.dev.issued = FALSE, !.dev.attempt = TRUE,
                 !.dev.state = "Joining"]

(* Fault: a latch that is set or not, where the holders nest.              *)
ResumeAsLatch(s) == IF s.depth = 0 THEN s ELSE HandedBack([s EXCEPT !.depth = 0])

Resume(s) ==
  CASE s.depth = 0 -> s
    [] s.depth > 1 -> [s EXCEPT !.depth = @ - 1]
    [] OTHER -> HandedBack([s EXCEPT !.depth = 0])

-----------------------------------------------------------------------------
(* update(), one action per branch.  A raised lease keeps the loop task in *)
(* a blocking call.                                                        *)
LoopRuns == use \notin {"lease", "raised"}

Update(s) ==
  /\ yieldDepth = 0 /\ LoopRuns
  /\ Becomes(s)
  /\ UNCHANGED <<setting, saved, range, screenVars>>

SwitchOff == ~setting /\ dev.state # "Off" /\ Update(TearDown(Now))

(* turnOn, from Off and when a network has been saved since. *)
TurnOn == LET s == [Now EXCEPT !.dev.ssid = saved, !.dev.issued = FALSE] IN
  /\ setting
  /\ dev.state = "Off" \/ (dev.state = "NoNetwork" /\ saved # None)
  /\ Update(IF saved = None
            THEN [s EXCEPT !.dev.state = "NoNetwork", !.dev.attempt = FALSE]
            ELSE StartJoin(s))

(* Fault: what the holder changed is not read back.                        *)
ReloadedStale == [Now EXCEPT !.dev.reload = FALSE]

(* What Joining sees: the network to join is read again after a yield. *)
Reloaded ==
  IF dev.reload THEN [Now EXCEPT !.dev.reload = FALSE, !.dev.ssid = saved] ELSE Now

Joining == setting /\ dev.state = "Joining" /\ ~(dev.reload /\ saved = None)

NothingToJoin ==
  /\ setting /\ dev.state = "Joining" /\ dev.reload /\ saved = None
  /\ Update([Reloaded EXCEPT !.dev.state = "NoNetwork", !.dev.attempt = FALSE])

(* Connected: the radio is Developer Mode's if its own join brought it up. *)
Claimed == [Reloaded EXCEPT !.dev.ours = dev.issued /\ radio.on = Reloaded.dev.ssid]

Serve == /\ Joining /\ Connected(radio)
         /\ Update([Claimed EXCEPT !.dev.state = "Serving", !.dev.server = TRUE])

ServerFails == /\ Joining /\ Connected(radio)
               /\ Update([Claimed EXCEPT !.dev.state = "Waiting", !.dev.attempt = TRUE])

JoinExpires == /\ Joining /\ ~Connected(radio)
               /\ Update([Reloaded EXCEPT !.radio = Disconnect(@), !.dev.attempt = TRUE])

JoinRetries == /\ Joining /\ ~Connected(radio) /\ dev.attempt
               /\ Update(StartJoin([Reloaded EXCEPT !.dev.attempt = FALSE]))

JoinWaits == /\ Joining /\ ~Connected(radio) /\ dev.reload
             /\ Update(Reloaded)

(* The backoff is over, or there is no network to back off from. *)
WaitingEnds == /\ setting /\ dev.state = "Waiting"
               /\ Update([Now EXCEPT !.dev.state = "Joining", !.dev.attempt = TRUE])

ServingDrops == /\ setting /\ dev.state = "Serving" /\ ~Connected(radio)
                /\ Update([Now EXCEPT !.dev.server = FALSE, !.dev.state = "Joining",
                                      !.dev.attempt = TRUE])

DevUpdate ==
  \/ SwitchOff \/ TurnOn \/ NothingToJoin \/ Serve \/ ServerFails
  \/ JoinExpires \/ JoinRetries \/ JoinWaits \/ WaitingEnds \/ ServingDrops

-----------------------------------------------------------------------------
(* The setting: the Developer Mode screen flips it, its server's           *)
(* /api/dev/off clears it.                                                 *)
ToggleSetting ==
  /\ screen = "home" \/ (dev.server /\ setting /\ LoopRuns)
  /\ setting' = ~setting
  /\ UNCHANGED <<saved, range, devVars, screenVars>>

-----------------------------------------------------------------------------
(* The Wi-Fi picker, on top of a screen. *)
PickerOpens(s) ==
  LET p == Pause(s) IN
  \/ /\ screen # "network" /\ saved # None           \* auto-connect
     /\ picker' = "connecting"
     /\ Becomes([p EXCEPT !.radio = BeginJoin(Disconnect(Station(@)), saved, "screen")])
  \/ /\ screen = "network" \/ saved = None
     /\ picker' = "scanning"
     /\ Becomes([p EXCEPT !.radio = Disconnect(Station(@))])

(* A screen with nothing up asks for the network. *)
AskForNetwork ==
  /\ picker = "closed" /\ use = "idle"
  /\ screen \in {"web", "network"} \/ (screen \in {"app", "notes"} /\ ~Connected(radio))
  /\ PickerOpens([Now EXCEPT !.radio = IF screen = "network" THEN @ ELSE Station(@)])
  /\ UNCHANGED <<setting, saved, range, screen, use, link, espNow>>

PickNetwork == \E n \in Ssid :
  /\ picker = "scanning"
  /\ picker' = "connecting"
  /\ radio' = BeginJoin(Disconnect(Station(radio)), n, "screen")
  /\ UNCHANGED <<setting, saved, range, dev, yieldDepth, screen, use, link, espNow>>

(* A timeout, or the player gives up on it: back to the list.  Where the   *)
(* driver itself reports the failure its attempt is left standing.         *)
PickFails ==
  /\ picker = "connecting"
  /\ picker' = "scanning"
  /\ \/ radio' = Disconnect(radio)
     \/ ~Connected(radio) /\ radio' = radio
  /\ UNCHANGED <<setting, saved, range, dev, yieldDepth, screen, use, link, espNow>>

ForgetNetwork ==
  /\ picker = "scanning" /\ saved # None
  /\ saved' = None
  /\ radio' = Disconnect(Station(radio))
  /\ UNCHANGED <<setting, range, dev, yieldDepth, screenVars>>

(* The picker's onExit, and then the handler of the screen beneath. *)
Picked ==
  /\ picker = "connecting" /\ Connected(radio)
  /\ picker' = "closed"
  /\ saved' = radio.target
  /\ IF screen = "network"
     THEN Becomes([Resume(Now) EXCEPT !.radio = RadioOff]) /\ screen' = "home" /\ use' = use
     ELSE /\ Becomes(IF screen = "notes" THEN Pause(Resume(Now)) ELSE Resume(Now))
          /\ use' = CASE screen = "web" -> "station" [] screen = "notes" -> "phone"
                      [] OTHER -> use
          /\ screen' = screen
  /\ UNCHANGED <<setting, range, link, espNow>>

PickerCancelled ==
  /\ picker = "scanning"
  /\ picker' = "closed"
  /\ Becomes([Resume(Now) EXCEPT !.radio = IF screen = "network" THEN RadioOff ELSE @])
  /\ screen' = IF screen = "network" THEN "home" ELSE screen
  /\ UNCHANGED <<setting, saved, range, use, link, espNow>>

-----------------------------------------------------------------------------
(* The screens. *)
Open(to) ==
  /\ screen = "home" /\ screen' = to
  /\ Becomes(IF to = "web" THEN Pause(Now) ELSE Now)
  /\ UNCHANGED <<setting, saved, range, use, picker, link, espNow>>

(* CREATE HOTSPOT. *)
StartAccessPoint ==
  /\ screen = "web" /\ use = "idle" /\ picker = "closed"
  /\ use' = "ap"
  /\ radio' = [RadioOff EXCEPT !.mode = "Ap"]
  /\ UNCHANGED <<setting, saved, range, dev, yieldDepth, screen, picker, link, espNow>>

(* Typing from a phone, over a station that is up. *)
StartPhone ==
  /\ screen = "notes" /\ use = "idle" /\ picker = "closed" /\ Connected(radio)
  /\ use' = "phone"
  /\ Becomes(Pause(Now))
  /\ UNCHANGED <<setting, saved, range, screen, picker, link, espNow>>

StopPhone ==
  /\ use = "phone" /\ use' = "idle"
  /\ Becomes(Resume(Now))
  /\ UNCHANGED <<setting, saved, range, screen, picker, link, espNow>>

(* A blocking request to Live.  A station that is up is used as it is.     *)
TakeLease ==
  /\ screen = "live" /\ use = "idle"
  /\ IF Connected(radio) THEN use' = "lease" /\ UNCHANGED devVars
     ELSE /\ saved # None /\ use' = "raised"
          /\ Becomes([Pause(Now) EXCEPT !.radio = BeginJoin(@, saved, "screen")])
  /\ UNCHANGED <<setting, saved, range, screen, picker, link, espNow>>

ReleaseLease ==
  /\ use \in {"lease", "raised"} /\ use' = "idle"
  /\ Becomes(IF use = "raised" THEN Resume([Now EXCEPT !.radio = RadioOff]) ELSE Now)
  /\ UNCHANGED <<setting, saved, range, screen, picker, link, espNow>>

-----------------------------------------------------------------------------
(* A match takes the radio outright.  NowAnd adds the match's flags and    *)
(* the stack to what changes.                                              *)
NowAnd == [net |-> Now, link |-> link, espNow |-> espNow]

(* Fault: the radio goes down whoever holds it.                            *)
EndAlways(m) ==
  [net |-> Resume([m.net EXCEPT !.radio = RadioOff]),
   link |-> [held |-> FALSE, espNowUp |-> FALSE],
   espNow |-> m.espNow /\ ~m.link.espNowUp]

End(m) ==
  [net |-> IF m.link.held THEN Resume([m.net EXCEPT !.radio = RadioOff]) ELSE m.net,
   link |-> [held |-> FALSE, espNowUp |-> FALSE],
   espNow |-> m.espNow /\ ~m.link.espNowUp]

(* The stations of begin() at which it may fail, end() included. *)
Taken(m) == [m EXCEPT !.link.held = TRUE,
                      !.net = [Pause(m.net) EXCEPT !.radio = Disconnect(Station(@))]]
StackUp(m) == [m EXCEPT !.espNow = TRUE, !.link.espNowUp = TRUE]

(* Fault: the stack is marked up only at the end of begin().               *)
BeginMarksLate(m) == LET t == Taken(End(m)) IN
  {End(t)} \cup IF t.espNow THEN {} ELSE {End([t EXCEPT !.espNow = TRUE]), StackUp(t)}

(* Radio::begin: esp_now_init refuses where the stack is already up.       *)
Begin(m) == LET t == Taken(End(m)) IN
  {End(t)} \cup IF t.espNow THEN {} ELSE {End(StackUp(t)), StackUp(t)}

RadioStep(m) ==
  /\ Becomes(m.net) /\ link' = m.link /\ espNow' = m.espNow
  /\ UNCHANGED <<setting, saved, range, screen, use, picker>>

StartMatch == screen = "link" /\ \E m \in Begin(NowAnd) : RadioStep(m)

StopMatch == screen = "link" /\ RadioStep(End(NowAnd))

-----------------------------------------------------------------------------
(* onExit of an app that fetched, and of the web screen: the radio goes    *)
(* down unless Developer Mode holds it.  silentRestart() is taken as on    *)
(* the boards with touch, where it switches the radio off and returns      *)
(* (finishWifiSessionWithoutRestart, main.cpp:227-240).                    *)
AppRadioOnExit(s) ==
  IF s.radio.mode # "Off" /\ ~HoldsRadio(s) THEN [s EXCEPT !.radio = RadioOff] ELSE s

WebRadioOnExit(s) ==
  AppRadioOnExit(IF use = "ap" THEN [s EXCEPT !.radio = Disconnect(@)] ELSE s)

(* The screen goes, by Back or by the home gesture, which takes the picker *)
(* with it and calls no handler.                                           *)
Leave ==
  LET s == IF picker = "closed" THEN Now ELSE Resume(Now)
      m == IF screen = "link" THEN End(NowAnd) ELSE NowAnd
  IN
  /\ screen # "home" /\ LoopRuns
  /\ Becomes(CASE screen = "web" -> Resume(WebRadioOnExit(s))
               [] screen = "app" -> AppRadioOnExit(s)
               [] use = "phone" -> Resume(s)
               [] screen = "link" -> m.net
               [] OTHER -> s)
  /\ link' = m.link /\ espNow' = m.espNow
  /\ screen' = "home" /\ use' = "idle" /\ picker' = "closed"
  /\ UNCHANGED <<setting, saved, range>>

ScreenStep ==
  \/ \E to \in Screen \ {"home"} : Open(to)
  \/ AskForNetwork \/ PickNetwork \/ PickFails \/ ForgetNetwork \/ Picked \/ PickerCancelled
  \/ StartAccessPoint \/ StartPhone \/ StopPhone \/ TakeLease \/ ReleaseLease
  \/ StartMatch \/ StopMatch \/ Leave

Next == DevUpdate \/ Associate \/ RangeChanges \/ ToggleSetting \/ ScreenStep

Spec == Init /\ [][Next]_vars

(* update() runs on every pass of the loop, so what it would do it does; a *)
(* network in reach is joined if it is asked for often enough; the server  *)
(* starts if it is tried often enough.                                     *)
Fairness ==
  /\ WF_vars(TurnOn) /\ WF_vars(NothingToJoin)
  /\ WF_vars(JoinRetries) /\ WF_vars(JoinExpires)
  /\ WF_vars(WaitingEnds) /\ WF_vars(ServingDrops)
  /\ SF_vars(Serve) /\ SF_vars(Associate)

LiveSpec == Spec /\ Fairness

-----------------------------------------------------------------------------
(* Properties. *)
One(b) == IF b THEN 1 ELSE 0

(* What a screen took it gives back, once, however it nests and however it *)
(* ends: Developer Mode is stood down for exactly the holders there are,   *)
(* and an ESP-NOW stack left up never outlives the match that would have   *)
(* to find it down.  (yieldDepth: "A COUNT rather than a bool, because the *)
(* holders nest"; Radio::begin: "Every match after it, until a reboot")    *)
HandedBackOnce ==
  /\ yieldDepth = One(screen = "web") + One(picker # "closed") + One(use = "phone")
                    + One(use = "raised") + One(link.held)
  /\ espNow => screen = "link" /\ link.held

(* Ports 80, 81 and 8134 have one owner: while a screen serves, scans or   *)
(* plays, Developer Mode's server is down.                                 *)
OneServer ==
  (screen = "web" \/ picker # "closed" \/ use \in {"phone", "raised"} \/ link.held)
    => ~dev.server

(* While Developer Mode serves on an association it made, no screen that   *)
(* has not stood it down takes that away; a match that ends twice, too.    *)
(* (end(): "~30s off the network after every game")                        *)
ServedIsKept ==
  [][dev.server /\ dev'.server /\ dev.ours /\ setting /\ setting' /\ Connected(radio)
       => radio'.target = radio.target]_vars

Wanted == /\ setting /\ saved \in range /\ screen = "home"

(* Whatever the screens left behind, Developer Mode is back on the network *)
(* once nobody holds the radio and its network is in reach.                *)
ServesAgain == Wanted ~> (dev.server \/ ~Wanted)
=============================================================================
