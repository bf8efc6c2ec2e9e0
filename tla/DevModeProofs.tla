--------------------------- MODULE DevModeProofs ---------------------------
(***************************************************************************)
(* Proofs about DevMode, for every set of networks: what is taken is given *)
(* back once (HandedBackOnce), the ports have one owner (OneServer), and   *)
(* nobody takes the association of a server that is up (ServedIsKept).     *)
(* All follow from an inductive invariant that says, beside the types,     *)
(* which screen may use the radio how, that Developer Mode's server is up  *)
(* only while it serves and nobody holds it off, and that the match's two  *)
(* flags and the ESP-NOW stack go up and down together.                    *)
(***************************************************************************)
EXTENDS DevMode, TLAPS

(* Developer Mode, the radio and the count, as its functions pass them on. *)
Net == [radio : Radio, dev : Dev, depth : Nat]

(* A server is up only in Serving, and only while nobody is stood down for. *)
Ok(s) == /\ s \in Net
         /\ s.dev.server => s.dev.state = "Serving" /\ s.depth = 0

(* Which screen may be doing what. *)
UseFits ==
  /\ use \in {"station", "ap"} => screen = "web"
  /\ use = "phone" => screen = "notes"
  /\ use \in {"lease", "raised"} => screen = "live"
  /\ picker # "closed" => use = "idle" /\ screen \in {"web", "app", "notes", "network"}
  /\ link.held => screen = "link"

FlagsTogether == (link.espNowUp <=> link.held) /\ (espNow <=> link.held)

Count == One(screen = "web") + One(picker # "closed") + One(use = "phone")
           + One(use = "raised") + One(link.held)

IInv == TypeOK /\ Ok(Now) /\ UseFits /\ FlagsTogether /\ yieldDepth = Count

-----------------------------------------------------------------------------
(* The driver's calls give radios. *)
LEMMA DriverTypes ==
  ASSUME NEW r \in Radio, NEW n \in Network, NEW who \in {"nobody", "dev", "screen"}
  PROVE  /\ RadioOff \in Radio /\ Station(r) \in Radio /\ Disconnect(r) \in Radio
         /\ BeginJoin(r, n, who) \in Radio
         /\ [RadioOff EXCEPT !.mode = "Ap"] \in Radio
  BY DEF Radio, Network, RadioOff, Station, Disconnect, BeginJoin

LEMMA NetFields ==
  ASSUME NEW r, NEW d, NEW n
  PROVE  /\ [radio |-> r, dev |-> d, depth |-> n].radio = r
         /\ [radio |-> r, dev |-> d, depth |-> n].dev = d
         /\ [radio |-> r, dev |-> d, depth |-> n].depth = n
  OBVIOUS

(* A new radio changes nothing else. *)
LEMMA RadioOk ==
  ASSUME NEW s, Ok(s), NEW r \in Radio
  PROVE  Ok([s EXCEPT !.radio = r]) /\ [s EXCEPT !.radio = r].depth = s.depth
  BY DEF Ok, Net

(* pause() counts, and leaves no server up. *)
LEMMA PauseOk ==
  ASSUME NEW s, Ok(s)
  PROVE  Ok(Pause(s)) /\ Pause(s).depth = s.depth + 1
<1>1. CASE s.depth > 0 \/ s.dev.state = "Off"
  <2>1. ~s.dev.server
    BY <1>1 DEF Ok, Net
  <2>2. QED BY <1>1, <2>1 DEF Ok, Net, Pause
<1>2. CASE ~(s.depth > 0 \/ s.dev.state = "Off")
  <2> DEFINE u == [s EXCEPT !.depth = s.depth + 1, !.dev.server = FALSE]
  <2>1. Pause(s) = u
    BY <1>2 DEF Pause
  <2> DEFINE v == [s EXCEPT !.dev.server = FALSE]
  <2>2. v \in Net /\ ~v.dev.server /\ v.depth = s.depth
    BY DEF Ok, Net, Dev
  <2>3. u = [v EXCEPT !.depth = s.depth + 1]
    OBVIOUS
  <2> HIDE DEF u, v
  <2>4. u \in Net /\ ~u.dev.server /\ u.depth = s.depth + 1
    BY <2>2, <2>3 DEF Ok, Net
  <2>5. QED BY <2>1, <2>4 DEF Ok
<1>3. QED BY <1>1, <1>2

LEMMA TearDownOk ==
  ASSUME NEW s, Ok(s)
  PROVE  Ok(TearDown(s)) /\ TearDown(s).depth = s.depth
  BY DEF Ok, Net, TearDown, Dev, Radio, RadioOff, Network

(* The outermost release brings no server up itself. *)
LEMMA HandedBackOk ==
  ASSUME NEW s, Ok(s), s.depth = 0, ~s.dev.server
  PROVE  Ok(HandedBack(s)) /\ HandedBack(s).depth = 0
<1>1. CASE s.dev.state # "Off" /\ setting
  <2> DEFINE ours == s.dev.ours /\ s.radio.mode # "Off" /\ Connected(s.radio)
             u == [s EXCEPT !.dev.ours = ours, !.dev.reload = TRUE, !.dev.issued = FALSE,
                            !.dev.attempt = TRUE, !.dev.state = "Joining"]
  <2>1. HandedBack(s) = u
    BY <1>1 DEF HandedBack
  <2>2. ours \in BOOLEAN
    BY DEF Ok, Net, Dev
  <2> HIDE DEF ours
  <2>3. u \in Net /\ u.depth = 0 /\ ~u.dev.server
    BY <2>2 DEF Ok, Net, Dev
  <2> HIDE DEF u
  <2>4. QED BY <2>1, <2>3 DEF Ok
<1>2. CASE s.dev.state = "Off"
  BY <1>2 DEF HandedBack
<1>3. CASE s.dev.state # "Off" /\ ~setting
  BY <1>3, TearDownOk DEF HandedBack
<1>4. QED BY <1>1, <1>2, <1>3

(* resume() counts down. *)
LEMMA ResumeOk ==
  ASSUME NEW s, Ok(s), s.depth > 0
  PROVE  Ok(Resume(s)) /\ Resume(s).depth = s.depth - 1
<1>1. CASE s.depth > 1
  BY <1>1 DEF Ok, Net, Resume
<1>2. CASE s.depth = 1
  <2> DEFINE t == [s EXCEPT !.depth = 0]
  <2>1. Resume(s) = HandedBack(t)
    BY <1>2 DEF Resume
  <2>2. Ok(t) /\ t.depth = 0 /\ ~t.dev.server
    BY <1>2 DEF Ok, Net
  <2> HIDE DEF t
  <2>3. QED BY <1>2, <2>1, <2>2, HandedBackOk
<1>3. QED BY <1>1, <1>2 DEF Ok, Net

(* A join is tried with no server up. *)
LEMMA StartJoinOk ==
  ASSUME NEW s, Ok(s), ~s.dev.server
  PROVE  Ok(StartJoin(s)) /\ StartJoin(s).depth = s.depth
<1>1. CASE s.radio.mode # "Off" /\ Connected(s.radio) /\ ~s.dev.ours
  <2> DEFINE u == [s EXCEPT !.dev.state = "Waiting", !.dev.attempt = TRUE]
  <2>1. StartJoin(s) = u
    BY <1>1 DEF StartJoin
  <2>2. u \in Net /\ ~u.dev.server /\ u.depth = s.depth
    BY DEF Ok, Net, Dev
  <2> HIDE DEF u
  <2>3. QED BY <2>1, <2>2 DEF Ok
<1>2. CASE ~(s.radio.mode # "Off" /\ Connected(s.radio) /\ ~s.dev.ours)
  <2> DEFINE r == BeginJoin(s.radio, s.dev.ssid, "dev")
             v == [s EXCEPT !.dev.issued = TRUE, !.dev.state = "Joining"]
             u == [s EXCEPT !.radio = r, !.dev.issued = TRUE, !.dev.state = "Joining"]
  <2>1. StartJoin(s) = u
    BY <1>2 DEF StartJoin
  <2>2. v \in Net /\ ~v.dev.server /\ v.depth = s.depth
    BY DEF Ok, Net, Dev
  <2>3. r \in Radio
    BY DriverTypes DEF Ok, Net, Dev
  <2> HIDE DEF r
  <2>4. u = [v EXCEPT !.radio = r]
    OBVIOUS
  <2> HIDE DEF u, v
  <2>5. u \in Net /\ ~u.dev.server /\ u.depth = s.depth
    BY <2>2, <2>3, <2>4 DEF Net
  <2>6. QED BY <2>1, <2>5 DEF Ok
<1>3. QED BY <1>1, <1>2

-----------------------------------------------------------------------------
(* What a step leaves behind, from what its functions returned. *)
LEMMA BecomesOk ==
  ASSUME NEW s, Ok(s), Becomes(s)
  PROVE  /\ radio' \in Radio /\ dev' \in Dev /\ yieldDepth' \in Nat
         /\ Ok(Now)' /\ yieldDepth' = s.depth
  BY DEF Ok, Net, Becomes, Now

LEMMA NowOk ==
  ASSUME IInv
  PROVE  /\ Ok(Now) /\ Now.depth = yieldDepth /\ Now.dev = dev /\ Now.radio = radio
         /\ radio \in Radio /\ dev \in Dev /\ yieldDepth \in Nat
  BY DEF IInv, TypeOK, Now

(* A pass of update() leaves the screens and their count alone. *)
LEMMA UpdateKeeps ==
  ASSUME IInv, NEW s, Ok(s), s.depth = 0, Update(s)
  PROVE  IInv'
<1>1. yieldDepth = 0 /\ Becomes(s) /\ UNCHANGED <<setting, saved, range, screenVars>>
  BY DEF Update
<1>2. /\ radio' \in Radio /\ dev' \in Dev /\ yieldDepth' = yieldDepth
      /\ Ok(Now)'
  BY <1>1, BecomesOk
<1>3. TypeOK'
  BY <1>1, <1>2 DEF IInv, TypeOK, screenVars
<1>4. UseFits' /\ FlagsTogether' /\ (yieldDepth = Count)'
  BY <1>1, <1>2 DEF IInv, UseFits, FlagsTogether, Count, One, screenVars
<1>5. QED BY <1>2, <1>3, <1>4 DEF IInv

LEMMA DevUpdateKeeps ==
  ASSUME IInv, DevUpdate
  PROVE  IInv'
<1> USE NowOk
<1>0. saved \in Network
  BY DEF IInv, TypeOK
<1>1. CASE SwitchOff
  <2>1. Ok(TearDown(Now)) /\ TearDown(Now).depth = 0
    BY <1>1, TearDownOk DEF SwitchOff, Update
  <2>2. QED BY <1>1, <2>1, UpdateKeeps DEF SwitchOff
<1>2. CASE TurnOn
  <2> DEFINE s == [Now EXCEPT !.dev.ssid = saved, !.dev.issued = FALSE]
             none == [s EXCEPT !.dev.state = "NoNetwork", !.dev.attempt = FALSE]
  <2>1. s \in Net /\ ~s.dev.server /\ s.depth = 0
    BY <1>0, <1>2 DEF TurnOn, Update, Ok, Net, Dev
  <2>2. Update(IF saved = None THEN none ELSE StartJoin(s))
    BY <1>2 DEF TurnOn
  <2> HIDE DEF s
  <2>3. Ok(s)
    BY <2>1 DEF Ok
  <2>4. none \in Net /\ ~none.dev.server /\ none.depth = 0
    BY <2>1 DEF Net, Dev
  <2> HIDE DEF none
  <2>5. Ok(none) /\ none.depth = 0 /\ Ok(StartJoin(s)) /\ StartJoin(s).depth = 0
    BY <2>1, <2>3, <2>4, StartJoinOk DEF Ok
  <2>6. QED BY <2>2, <2>5, UpdateKeeps
<1>3. ASSUME dev.state = "Joining", yieldDepth = 0
      PROVE  Ok(Reloaded) /\ ~Reloaded.dev.server /\ Reloaded.depth = 0
  <2>1. Reloaded \in Net /\ ~Reloaded.dev.server /\ Reloaded.depth = 0
    BY <1>0, <1>3 DEF Reloaded, Ok, Net, Dev
  <2>2. QED BY <2>1 DEF Ok
<1>4. CASE NothingToJoin
  <2> DEFINE u == [Reloaded EXCEPT !.dev.state = "NoNetwork", !.dev.attempt = FALSE]
  <2>1. Ok(Reloaded) /\ ~Reloaded.dev.server /\ Reloaded.depth = 0
    BY <1>3, <1>4 DEF NothingToJoin, Update
  <2>2. u \in Net /\ ~u.dev.server /\ u.depth = 0
    BY <2>1 DEF Ok, Net, Dev
  <2>3. Update(u)
    BY <1>4 DEF NothingToJoin
  <2> HIDE DEF u
  <2>4. QED BY <2>2, <2>3, UpdateKeeps DEF Ok
<1>5. CASE Serve \/ ServerFails
  <2> DEFINE u == [Claimed EXCEPT !.dev.state = "Serving", !.dev.server = TRUE]
             w == [Claimed EXCEPT !.dev.state = "Waiting", !.dev.attempt = TRUE]
             ours == dev.issued /\ radio.on = Reloaded.dev.ssid
  <2>1. Ok(Reloaded) /\ ~Reloaded.dev.server /\ Reloaded.depth = 0
    BY <1>3, <1>5 DEF Serve, ServerFails, Joining, Update
  <2>2. ours \in BOOLEAN
    BY DEF Dev
  <2>3. Claimed = [Reloaded EXCEPT !.dev.ours = ours]
    BY DEF Claimed
  <2>4. Update(u) \/ Update(w)
    BY <1>5 DEF Serve, ServerFails
  <2> HIDE DEF ours
  <2>5. Claimed \in Net /\ ~Claimed.dev.server /\ Claimed.depth = 0
    BY <2>1, <2>2, <2>3 DEF Ok, Net, Dev
  <2>6. /\ u \in Net /\ u.dev.state = "Serving" /\ u.depth = 0
        /\ w \in Net /\ ~w.dev.server /\ w.depth = 0
    BY <2>5 DEF Net, Dev
  <2> HIDE DEF u, w
  <2>7. Ok(u) /\ Ok(w)
    BY <2>6 DEF Ok
  <2>8. QED BY <2>4, <2>6, <2>7, UpdateKeeps
<1>6. CASE JoinExpires
  <2> DEFINE r == Disconnect(Reloaded.radio)
             v == [Reloaded EXCEPT !.dev.attempt = TRUE]
             u == [Reloaded EXCEPT !.radio = r, !.dev.attempt = TRUE]
  <2>1. Ok(Reloaded) /\ ~Reloaded.dev.server /\ Reloaded.depth = 0
    BY <1>3, <1>6 DEF JoinExpires, Joining, Update
  <2>2. v \in Net /\ ~v.dev.server /\ v.depth = 0
    BY <2>1 DEF Ok, Net, Dev
  <2>3. r \in Radio
    BY <1>0, <2>1, DriverTypes DEF Ok, Net
  <2>4. Update(u)
    BY <1>6 DEF JoinExpires
  <2> HIDE DEF r
  <2>5. u = [v EXCEPT !.radio = r]
    OBVIOUS
  <2> HIDE DEF u, v
  <2>6. u \in Net /\ ~u.dev.server /\ u.depth = 0
    BY <2>2, <2>3, <2>5 DEF Net
  <2>7. QED BY <2>4, <2>6, UpdateKeeps DEF Ok
<1>7. CASE JoinRetries
  <2> DEFINE v == [Reloaded EXCEPT !.dev.attempt = FALSE]
  <2>1. Ok(Reloaded) /\ ~Reloaded.dev.server /\ Reloaded.depth = 0
    BY <1>3, <1>7 DEF JoinRetries, Joining, Update
  <2>2. v \in Net /\ ~v.dev.server /\ v.depth = 0
    BY <2>1 DEF Ok, Net, Dev
  <2>3. Update(StartJoin(v))
    BY <1>7 DEF JoinRetries
  <2> HIDE DEF v
  <2>4. Ok(StartJoin(v)) /\ StartJoin(v).depth = 0
    BY <2>2, StartJoinOk DEF Ok
  <2>5. QED BY <2>3, <2>4, UpdateKeeps
<1>8. CASE JoinWaits
  <2>1. Ok(Reloaded) /\ Reloaded.depth = 0
    BY <1>3, <1>8 DEF JoinWaits, Joining, Update
  <2>2. QED BY <1>8, <2>1, UpdateKeeps DEF JoinWaits
<1>9. CASE WaitingEnds
  <2> DEFINE u == [Now EXCEPT !.dev.state = "Joining", !.dev.attempt = TRUE]
  <2>1. u \in Net /\ ~u.dev.server /\ u.depth = 0
    BY <1>9 DEF WaitingEnds, Update, Ok, Net, Dev
  <2>2. Update(u)
    BY <1>9 DEF WaitingEnds
  <2> HIDE DEF u
  <2>3. QED BY <2>1, <2>2, UpdateKeeps DEF Ok
<1>10. CASE ServingDrops
  <2> DEFINE u == [Now EXCEPT !.dev.server = FALSE, !.dev.state = "Joining",
                              !.dev.attempt = TRUE]
  <2>1. u \in Net /\ ~u.dev.server /\ u.depth = 0
    BY <1>10 DEF ServingDrops, Update, Ok, Net, Dev
  <2>2. Update(u)
    BY <1>10 DEF ServingDrops
  <2> HIDE DEF u
  <2>3. QED BY <2>1, <2>2, UpdateKeeps DEF Ok
<1>11. QED BY <1>1, <1>2, <1>4, <1>5, <1>6, <1>7, <1>8, <1>9, <1>10 DEF DevUpdate

-----------------------------------------------------------------------------
(* A match: its flags, the stack and the net. *)
Match == [net : Net, link : [held : BOOLEAN, espNowUp : BOOLEAN], espNow : BOOLEAN]

(* What end() needs: a stack that is up is marked up, and who holds is     *)
(* counted.                                                                *)
Endable(m) == /\ m \in Match /\ Ok(m.net)
              /\ m.espNow => m.link.espNowUp
              /\ m.link.held => m.net.depth > 0

(* The holders other than the match. *)
Others(m) == m.net.depth - One(m.link.held)

Settled(m) == (m.link.espNowUp <=> m.link.held) /\ (m.espNow <=> m.link.held)

LEMMA EndOk ==
  ASSUME NEW m, Endable(m)
  PROVE  /\ Endable(End(m)) /\ Settled(End(m)) /\ ~End(m).link.held
         /\ Others(End(m)) = Others(m)
<1> DEFINE n == IF m.link.held THEN Resume([m.net EXCEPT !.radio = RadioOff]) ELSE m.net
<1>1. Ok(n) /\ n.depth = m.net.depth - One(m.link.held)
  <2>1. CASE m.link.held
    <3> DEFINE k == [m.net EXCEPT !.radio = RadioOff]
    <3>1. RadioOff \in Radio
      BY DEF Radio, RadioOff, Network
    <3>2. Ok(k) /\ k.depth = m.net.depth
      BY <3>1, RadioOk DEF Endable
    <3> HIDE DEF k
    <3>3. n = Resume(k)
      BY <2>1 DEF k
    <3>4. QED BY <2>1, <3>2, <3>3, ResumeOk DEF Endable, One
  <2>2. CASE ~m.link.held
    BY <2>2 DEF Endable, Match, Net, One
  <2>3. QED BY <2>1, <2>2
<1>2. End(m) = [net |-> n, link |-> [held |-> FALSE, espNowUp |-> FALSE],
                espNow |-> m.espNow /\ ~m.link.espNowUp]
  BY DEF End
<1>3. (m.espNow /\ ~m.link.espNowUp) = FALSE
  BY DEF Endable
<1> HIDE DEF n
<1>4. End(m) = [net |-> n, link |-> [held |-> FALSE, espNowUp |-> FALSE], espNow |-> FALSE]
  BY <1>2, <1>3
<1>5. n \in Net /\ n.depth \in Nat
  BY <1>1 DEF Ok, Net
<1>6. /\ End(m).net = n /\ ~End(m).link.held /\ ~End(m).link.espNowUp /\ ~End(m).espNow
      /\ End(m) \in Match
  BY <1>4, <1>5 DEF Match
<1>7. Endable(End(m)) /\ Settled(End(m))
  BY <1>1, <1>6 DEF Endable, Settled
<1>8. Others(End(m)) = n.depth /\ Others(m) = n.depth
  BY <1>1, <1>5, <1>6 DEF Others, One
<1>9. QED BY <1>6, <1>7, <1>8

LEMMA TakenOk ==
  ASSUME NEW m, Endable(m), ~m.link.held, Settled(m)
  PROVE  /\ Endable(Taken(m)) /\ ~Taken(m).espNow /\ ~Taken(m).link.espNowUp
         /\ Taken(m).link.held /\ Others(Taken(m)) = Others(m)
<1> DEFINE p == Pause(m.net)
           n == [p EXCEPT !.radio = Disconnect(Station(@))]
<1>1. Ok(p) /\ p.depth = m.net.depth + 1
  BY PauseOk DEF Endable
<1> HIDE DEF p
<1>2. Disconnect(Station(p.radio)) \in Radio
  BY <1>1 DEF Ok, Net, Radio, Disconnect, Station, RadioOff, Network
<1>3. Ok(n) /\ n.depth = m.net.depth + 1
  BY <1>1, <1>2, RadioOk
<1>4. Taken(m) = [m EXCEPT !.link.held = TRUE, !.net = n]
  BY DEF Taken, p
<1> HIDE DEF n
<1>5. n \in Net /\ m.net.depth \in Nat /\ m \in Match
  BY <1>3 DEF Ok, Endable, Net
<1>6. /\ Taken(m) \in Match /\ Taken(m).net = n /\ Taken(m).link.held
      /\ Taken(m).link.espNowUp = m.link.espNowUp /\ Taken(m).espNow = m.espNow
  BY <1>4, <1>5 DEF Match
<1>7. ~m.link.espNowUp /\ ~m.espNow
  BY DEF Settled
<1>8. Endable(Taken(m))
  BY <1>3, <1>5, <1>6, <1>7 DEF Endable
<1>9. Others(Taken(m)) = m.net.depth /\ Others(m) = m.net.depth
  BY <1>3, <1>5, <1>6 DEF Others, One
<1>10. QED BY <1>6, <1>7, <1>8, <1>9

LEMMA StackUpOk ==
  ASSUME NEW m, Endable(m), m.link.held
  PROVE  /\ Endable(StackUp(m)) /\ Settled(StackUp(m)) /\ StackUp(m).link.held
         /\ Others(StackUp(m)) = Others(m)
  BY DEF Endable, Match, StackUp, Settled, Others

(* However begin() ends, nothing is left half up. *)
LEMMA BeginOk ==
  ASSUME NEW m, Endable(m), NEW b \in Begin(m)
  PROVE  Endable(b) /\ Settled(b) /\ Others(b) = Others(m)
<1> DEFINE t == Taken(End(m))
<1>1. /\ Endable(t) /\ ~t.espNow /\ t.link.held
      /\ Others(t) = Others(m)
  BY EndOk, TakenOk
<1>2. b \in {End(t), End(StackUp(t)), StackUp(t)}
  BY DEF Begin
<1> HIDE DEF t
<1>3. Endable(End(t)) /\ Settled(End(t)) /\ Others(End(t)) = Others(m)
  BY <1>1, EndOk
<1>4. Endable(StackUp(t)) /\ Settled(StackUp(t)) /\ Others(StackUp(t)) = Others(m)
  BY <1>1, StackUpOk
<1>5. Endable(End(StackUp(t))) /\ Settled(End(StackUp(t)))
      /\ Others(End(StackUp(t))) = Others(m)
  BY <1>4, EndOk
<1>6. QED BY <1>2, <1>3, <1>4, <1>5

LEMMA NowAndOk ==
  ASSUME IInv
  PROVE  Endable(NowAnd) /\ Others(NowAnd) = yieldDepth - One(link.held)
<1>1. NowAnd \in Match
  BY NowOk DEF NowAnd, Match, IInv, TypeOK, Ok
<1>2. link.held => yieldDepth > 0
  BY DEF IInv, Count, One, TypeOK
<1>3. NowAnd.net = Now /\ NowAnd.link = link /\ NowAnd.espNow = espNow
  BY DEF NowAnd
<1>4. QED BY <1>1, <1>2, <1>3, NowOk DEF Endable, Others, IInv, FlagsTogether

LEMMA MatchStepKeeps ==
  ASSUME IInv, screen = "link", NEW m, Endable(m), Settled(m),
         Others(m) = yieldDepth - One(link.held), RadioStep(m)
  PROVE  IInv'
<1>1. /\ Becomes(m.net) /\ link' = m.link /\ espNow' = m.espNow
      /\ UNCHANGED <<setting, saved, range, screen, use, picker>>
  BY DEF RadioStep
<1>2. /\ radio' \in Radio /\ dev' \in Dev /\ yieldDepth' \in Nat
      /\ Ok(Now)' /\ yieldDepth' = m.net.depth
  BY <1>1, BecomesOk DEF Endable
<1>3. link' \in [held : BOOLEAN, espNowUp : BOOLEAN] /\ espNow' \in BOOLEAN
  BY <1>1 DEF Endable, Match
<1>4. TypeOK'
  BY <1>1, <1>2, <1>3 DEF IInv, TypeOK
<1>5. UseFits' /\ FlagsTogether'
  BY <1>1 DEF IInv, UseFits, FlagsTogether, Settled
<1>6. yieldDepth' - One(link'.held) = yieldDepth - One(link.held)
  BY <1>1, <1>2 DEF Others
<1>7. (yieldDepth = Count)'
  BY <1>1, <1>2, <1>6 DEF IInv, TypeOK, Count, One
<1>8. QED BY <1>2, <1>4, <1>5, <1>7 DEF IInv

-----------------------------------------------------------------------------
(* A handler that passes the net on, and leaves the match's flags alone.   *)
LEMMA HandlerKeeps ==
  ASSUME IInv, NEW s, Ok(s), Becomes(s), UNCHANGED <<setting, range, link, espNow>>,
         saved' \in Network, screen' \in Screen, use' \in Use,
         picker' \in {"closed", "scanning", "connecting"},
         UseFits', s.depth = Count'
  PROVE  IInv'
<1>1. /\ radio' \in Radio /\ dev' \in Dev /\ yieldDepth' \in Nat
      /\ Ok(Now)' /\ yieldDepth' = s.depth
  BY BecomesOk
<1>2. TypeOK'
  BY <1>1 DEF IInv, TypeOK
<1>3. FlagsTogether'
  BY DEF IInv, FlagsTogether
<1>4. QED BY <1>1, <1>2, <1>3 DEF IInv

(* A step of the picker or the driver that only sets the radio.            *)
LEMMA RadioOnly ==
  ASSUME IInv, NEW r \in Radio, radio' = r, UNCHANGED <<dev, yieldDepth, link, espNow>>,
         setting' \in BOOLEAN, range' \subseteq Ssid,
         saved' \in Network, screen' \in Screen, use' \in Use,
         picker' \in {"closed", "scanning", "connecting"},
         UseFits', yieldDepth = Count'
  PROVE  IInv'
<1>1. Ok([Now EXCEPT !.radio = r]) /\ Now' = [Now EXCEPT !.radio = r]
  BY NowOk, RadioOk DEF Now
<1>2. TypeOK' /\ FlagsTogether'
  BY DEF IInv, TypeOK, FlagsTogether
<1>3. Ok(Now)'
  BY <1>1 DEF Ok
<1>4. (yieldDepth = Count)'
  OBVIOUS
<1>5. QED BY <1>2, <1>3, <1>4 DEF IInv

LEMMA PickerKeeps ==
  ASSUME IInv, AskForNetwork \/ PickNetwork \/ PickFails \/ ForgetNetwork
               \/ Picked \/ PickerCancelled
  PROVE  IInv'
<1> USE NowOk
<1>0. /\ TypeOK /\ UseFits /\ yieldDepth = Count /\ saved \in Network
      /\ RadioOff \in Radio
  BY DEF IInv, TypeOK, Radio, RadioOff, Network
<1>1. CASE AskForNetwork
  <2> DEFINE s == [Now EXCEPT !.radio = IF screen = "network" THEN @ ELSE Station(@)]
             p == Pause(s)
             r == Disconnect(Station(p.radio))
             b == BeginJoin(r, saved, "screen")
  <2>1. /\ picker = "closed" /\ use = "idle" /\ screen \in {"web", "app", "notes", "network"}
        /\ PickerOpens(s) /\ UNCHANGED <<setting, saved, range, screen, use, link, espNow>>
    BY <1>1 DEF AskForNetwork
  <2>2. (IF screen = "network" THEN radio ELSE Station(radio)) \in Radio
    BY <1>0, DriverTypes
  <2>3. Ok(s) /\ s.depth = yieldDepth
    BY <2>2, RadioOk DEF Now
  <2>4. Ok(p) /\ p.depth = yieldDepth + 1
    BY <2>3, PauseOk
  <2>5. \/ picker' = "connecting" /\ Becomes([p EXCEPT !.radio = b])
        \/ picker' = "scanning" /\ Becomes([p EXCEPT !.radio = r])
    BY <2>1 DEF PickerOpens
  <2> HIDE DEF s, p
  <2>6. r \in Radio /\ b \in Radio
    BY <1>0, <2>4, DriverTypes DEF Ok, Net
  <2> HIDE DEF r, b
  <2>7. /\ Ok([p EXCEPT !.radio = b]) /\ [p EXCEPT !.radio = b].depth = yieldDepth + 1
        /\ Ok([p EXCEPT !.radio = r]) /\ [p EXCEPT !.radio = r].depth = yieldDepth + 1
    BY <2>4, <2>6, RadioOk
  <2>8. UseFits' /\ Count' = yieldDepth + 1
    BY <1>0, <2>1, <2>5 DEF UseFits, Count, One
  <2>9. QED BY <1>0, <2>1, <2>5, <2>7, <2>8, HandlerKeeps DEF TypeOK
<1>2. CASE PickNetwork
  <2>1. PICK n \in Ssid :
          /\ picker = "scanning" /\ picker' = "connecting"
          /\ radio' = BeginJoin(Disconnect(Station(radio)), n, "screen")
          /\ UNCHANGED <<setting, saved, range, dev, yieldDepth, screen, use, link, espNow>>
    BY <1>2 DEF PickNetwork
  <2>2. radio' \in Radio
    BY <2>1, DriverTypes DEF Network
  <2>3. UseFits' /\ yieldDepth = Count'
    BY <1>0, <2>1 DEF UseFits, Count, One
  <2>4. QED BY <1>0, <2>1, <2>2, <2>3, RadioOnly DEF TypeOK
<1>3. CASE PickFails
  <2>1. /\ radio' \in Radio
        /\ UseFits' /\ yieldDepth = Count'
    BY <1>0, <1>3, DriverTypes DEF PickFails, UseFits, Count, One
  <2>2. QED BY <1>0, <1>3, <2>1, RadioOnly DEF PickFails, TypeOK
<1>4. CASE ForgetNetwork
  <2>1. /\ radio' \in Radio
        /\ UseFits' /\ yieldDepth = Count' /\ saved' \in Network
    BY <1>0, <1>4, DriverTypes DEF ForgetNetwork, screenVars, UseFits, Count, One, Network
  <2>2. QED BY <1>0, <1>4, <2>1, RadioOnly DEF ForgetNetwork, screenVars, TypeOK
<1>5. ASSUME picker # "closed"
      PROVE  Ok(Resume(Now)) /\ Resume(Now).depth = yieldDepth - 1 /\ yieldDepth > 0
  BY <1>0, <1>5, ResumeOk DEF Count, One, TypeOK
<1>6. CASE Picked
  <2> DEFINE s == Resume(Now)
             off == [s EXCEPT !.radio = RadioOff]
  <2>1. /\ Ok(s) /\ s.depth = yieldDepth - 1 /\ Ok(off) /\ off.depth = yieldDepth - 1
        /\ Ok(Pause(s)) /\ Pause(s).depth = yieldDepth
    BY <1>0, <1>5, <1>6, RadioOk, PauseOk DEF Picked
  <2>2. /\ picker \in {"scanning", "connecting"} /\ picker' = "closed" /\ saved' \in Network
        /\ UNCHANGED <<setting, range, link, espNow>>
    BY <1>6 DEF Picked, Radio
  <2>3. CASE screen = "network"
    <3>1. Becomes(off) /\ screen' = "home" /\ use' = use
      BY <1>6, <2>3 DEF Picked
    <3>2. UseFits' /\ Count' = yieldDepth - 1
      BY <1>0, <2>2, <2>3, <3>1 DEF UseFits, Count, One
    <3> HIDE DEF off
    <3>3. QED BY <1>0, <2>1, <2>2, <3>1, <3>2, HandlerKeeps DEF TypeOK, Screen
  <2>4. CASE screen = "notes"
    <3>1. Becomes(Pause(s)) /\ screen' = screen /\ use' = "phone"
      BY <1>6, <2>4 DEF Picked
    <3>2. UseFits' /\ Count' = yieldDepth
      BY <1>0, <2>2, <2>4, <3>1 DEF UseFits, Count, One
    <3> HIDE DEF s
    <3>3. QED BY <1>0, <2>1, <2>2, <3>1, <3>2, HandlerKeeps DEF TypeOK, Use
  <2>5. CASE screen \in {"web", "app"}
    <3>1. Becomes(s) /\ screen' = screen /\ use' = IF screen = "web" THEN "station" ELSE use
      BY <1>6, <2>5 DEF Picked
    <3>2. UseFits' /\ Count' = yieldDepth - 1
      BY <1>0, <2>2, <2>5, <3>1 DEF UseFits, Count, One
    <3> HIDE DEF s
    <3>3. QED BY <1>0, <2>1, <2>2, <3>1, <3>2, HandlerKeeps DEF TypeOK, Use
  <2>6. QED BY <1>0, <2>2, <2>3, <2>4, <2>5 DEF UseFits
<1>7. CASE PickerCancelled
  <2> DEFINE s == Resume(Now)
             r == IF screen = "network" THEN RadioOff ELSE s.radio
             u == [s EXCEPT !.radio = r]
  <2>1. Ok(s) /\ s.depth = yieldDepth - 1
    BY <1>5, <1>7 DEF PickerCancelled
  <2>2. Becomes(u)
    BY <1>7 DEF PickerCancelled
  <2> HIDE DEF s
  <2>3. r \in Radio
    BY <1>0, <2>1 DEF Ok, Net
  <2> HIDE DEF r
  <2>4. Ok(u) /\ u.depth = yieldDepth - 1
    BY <2>1, <2>3, RadioOk
  <2> HIDE DEF u
  <2>5. /\ picker = "scanning" /\ picker' = "closed"
        /\ screen' = (IF screen = "network" THEN "home" ELSE screen)
        /\ UNCHANGED <<setting, saved, range, use, link, espNow>>
    BY <1>7 DEF PickerCancelled
  <2>6. UseFits' /\ Count' = yieldDepth - 1 /\ screen' \in Screen
    BY <1>0, <2>5 DEF UseFits, Count, One, TypeOK, Screen
  <2>7. QED BY <1>0, <2>2, <2>4, <2>5, <2>6, HandlerKeeps DEF TypeOK
<1>8. QED BY <1>1, <1>2, <1>3, <1>4, <1>6, <1>7

LEMMA ScreenKeeps ==
  ASSUME IInv, (\E to \in Screen \ {"home"} : Open(to))
               \/ StartAccessPoint \/ StartPhone \/ StopPhone \/ TakeLease \/ ReleaseLease
               \/ StartMatch \/ StopMatch
  PROVE  IInv'
<1> USE NowOk
<1>0. /\ TypeOK /\ UseFits /\ yieldDepth = Count /\ saved \in Network
      /\ RadioOff \in Radio
  BY DEF IInv, TypeOK, Radio, RadioOff, Network
<1>1. ASSUME NEW to \in Screen \ {"home"}, Open(to)
      PROVE  IInv'
  <2>1. /\ screen = "home" /\ screen' = to
        /\ Becomes(IF to = "web" THEN Pause(Now) ELSE Now)
        /\ UNCHANGED <<setting, saved, range, use, picker, link, espNow>>
    BY <1>1 DEF Open
  <2>2. Ok(Pause(Now)) /\ Pause(Now).depth = yieldDepth + 1
    BY PauseOk
  <2>3. UseFits' /\ Count' = yieldDepth + One(to = "web")
    BY <1>0, <2>1 DEF UseFits, Count, One
  <2>4. QED BY <1>0, <2>1, <2>2, <2>3, HandlerKeeps DEF TypeOK, One
<1>2. CASE StartAccessPoint
  <2>1. /\ radio' \in Radio /\ UseFits' /\ yieldDepth = Count'
    BY <1>0, <1>2, DriverTypes DEF StartAccessPoint, UseFits, Count, One
  <2>2. QED BY <1>0, <1>2, <2>1, RadioOnly DEF StartAccessPoint, TypeOK, Use
<1>3. CASE StartPhone
  <2>1. Ok(Pause(Now)) /\ Pause(Now).depth = yieldDepth + 1
    BY PauseOk
  <2>2. UseFits' /\ Count' = yieldDepth + 1
    BY <1>0, <1>3 DEF StartPhone, UseFits, Count, One
  <2>3. QED BY <1>0, <1>3, <2>1, <2>2, HandlerKeeps DEF StartPhone, TypeOK, Use
<1>4. CASE StopPhone
  <2>1. yieldDepth > 0
    BY <1>0, <1>4 DEF StopPhone, Count, One
  <2>2. Ok(Resume(Now)) /\ Resume(Now).depth = yieldDepth - 1
    BY <2>1, ResumeOk
  <2>3. UseFits' /\ Count' = yieldDepth - 1
    BY <1>0, <1>4 DEF StopPhone, UseFits, Count, One
  <2>4. QED BY <1>0, <1>4, <2>2, <2>3, HandlerKeeps DEF StopPhone, TypeOK, Use
<1>5. CASE TakeLease
  <2>1. CASE use' = "lease" /\ UNCHANGED devVars
    <3>1. Becomes(Now)
      BY <2>1 DEF Becomes, devVars
    <3>2. UseFits' /\ Count' = yieldDepth
      BY <1>0, <1>5, <2>1 DEF TakeLease, UseFits, Count, One
    <3>3. QED BY <1>0, <1>5, <2>1, <3>1, <3>2, HandlerKeeps DEF TakeLease, TypeOK, Use
  <2>2. CASE use' = "raised" /\ Becomes([Pause(Now) EXCEPT !.radio = BeginJoin(@, saved, "screen")])
    <3> DEFINE p == Pause(Now)
               r == BeginJoin(p.radio, saved, "screen")
    <3>1. Ok(p) /\ p.depth = yieldDepth + 1
      BY PauseOk
    <3>2. Becomes([p EXCEPT !.radio = r])
      BY <2>2
    <3> HIDE DEF p
    <3>3. r \in Radio
      BY <1>0, <3>1, DriverTypes DEF Ok, Net
    <3> HIDE DEF r
    <3>4. Ok([p EXCEPT !.radio = r]) /\ [p EXCEPT !.radio = r].depth = yieldDepth + 1
      BY <3>1, <3>3, RadioOk
    <3>5. UseFits' /\ Count' = yieldDepth + 1
      BY <1>0, <1>5, <2>2 DEF TakeLease, UseFits, Count, One
    <3>6. QED BY <1>0, <1>5, <2>2, <3>2, <3>4, <3>5, HandlerKeeps DEF TakeLease, TypeOK, Use
  <2>3. QED BY <1>5, <2>1, <2>2 DEF TakeLease
<1>6. CASE ReleaseLease
  <2> DEFINE s == [Now EXCEPT !.radio = RadioOff]
  <2>1. Ok(s) /\ s.depth = yieldDepth
    BY <1>0, RadioOk
  <2>2. Becomes(IF use = "raised" THEN Resume(s) ELSE Now)
    BY <1>6 DEF ReleaseLease
  <2> HIDE DEF s
  <2>3. use = "raised" => Ok(Resume(s)) /\ Resume(s).depth = yieldDepth - 1
    BY <1>0, <2>1, ResumeOk DEF Count, One
  <2>4. UseFits' /\ Count' = yieldDepth - One(use = "raised")
    BY <1>0, <1>6 DEF ReleaseLease, UseFits, Count, One
  <2>5. QED BY <1>0, <1>6, <2>2, <2>3, <2>4, HandlerKeeps DEF ReleaseLease, TypeOK, Use, One
<1>7. CASE StartMatch
  BY <1>7, NowAndOk, BeginOk, MatchStepKeeps DEF StartMatch
<1>8. CASE StopMatch
  BY <1>8, NowAndOk, EndOk, MatchStepKeeps DEF StopMatch
<1>9. QED BY <1>1, <1>2, <1>3, <1>4, <1>5, <1>6, <1>7, <1>8

LEMMA OnExitOk ==
  ASSUME NEW s, Ok(s)
  PROVE  /\ Ok(AppRadioOnExit(s)) /\ AppRadioOnExit(s).depth = s.depth
         /\ Ok(WebRadioOnExit(s)) /\ WebRadioOnExit(s).depth = s.depth
<1>1. RadioOff \in Radio /\ Disconnect(s.radio) \in Radio
  BY DEF Radio, RadioOff, Network, Disconnect, Ok, Net
<1>2. ASSUME NEW t, Ok(t)
      PROVE  Ok(AppRadioOnExit(t)) /\ AppRadioOnExit(t).depth = t.depth
  BY <1>1, <1>2, RadioOk DEF AppRadioOnExit
<1>3. QED BY <1>1, <1>2, RadioOk DEF WebRadioOnExit

(* Leaving gives back all the screen and the picker on it hold.            *)
LEMMA LeaveKeeps ==
  ASSUME IInv, Leave
  PROVE  IInv'
<1> USE NowOk
<1>0. TypeOK /\ UseFits /\ FlagsTogether /\ yieldDepth = Count /\ use \notin {"lease", "raised"}
  BY DEF IInv, Leave, LoopRuns
<1> DEFINE s == IF picker = "closed" THEN Now ELSE Resume(Now)
           m == IF screen = "link" THEN End(NowAnd) ELSE NowAnd
<1>1. Ok(s) /\ s.depth = yieldDepth - One(picker # "closed")
  BY <1>0, ResumeOk DEF Count, One, TypeOK
<1>2. /\ Endable(m) /\ Settled(m) /\ ~m.link.held /\ Others(m) = yieldDepth - One(link.held)
  <2>1. screen # "link" => ~link.held
    BY <1>0 DEF UseFits
  <2>2. Settled(NowAnd)
    BY <1>0 DEF Settled, NowAnd, FlagsTogether
  <2>3. NowAnd.link = link
    BY DEF NowAnd
  <2>4. QED BY <2>1, <2>2, <2>3, NowAndOk, EndOk
<1>3. m.net.depth = yieldDepth - One(link.held) /\ m.link \in [held : BOOLEAN, espNowUp : BOOLEAN]
      /\ m.espNow \in BOOLEAN /\ Ok(m.net)
  BY <1>2 DEF Others, One, Endable, Match, Net
<1>4. /\ screen # "home"
      /\ Becomes(CASE screen = "web" -> Resume(WebRadioOnExit(s))
                   [] screen = "app" -> AppRadioOnExit(s)
                   [] use = "phone" -> Resume(s)
                   [] screen = "link" -> m.net
                   [] OTHER -> s)
      /\ link' = m.link /\ espNow' = m.espNow
      /\ screen' = "home" /\ use' = "idle" /\ picker' = "closed"
      /\ UNCHANGED <<setting, saved, range>>
  BY DEF Leave
<1> HIDE DEF s, m
<1>5. Count' = 0
  BY <1>2, <1>4 DEF Count, One
<1>6. \E n : Ok(n) /\ n.depth = 0 /\ Becomes(n)
  <2>1. CASE screen = "web"
    <3>1. s.depth = 1
      BY <1>0, <1>1, <2>1 DEF UseFits, Count, One
    <3>2. Ok(Resume(WebRadioOnExit(s))) /\ Resume(WebRadioOnExit(s)).depth = 0
      BY <1>1, <3>1, OnExitOk, ResumeOk
    <3>3. Becomes(Resume(WebRadioOnExit(s)))
      <4>1. use # "phone"
        BY <1>0, <2>1 DEF UseFits
      <4>2. QED BY <1>4, <2>1, <4>1
    <3>4. QED BY <3>2, <3>3
  <2>2. CASE screen = "app"
    <3>1. s.depth = 0
      BY <1>0, <1>1, <2>2 DEF UseFits, Count, One
    <3>2. Ok(AppRadioOnExit(s)) /\ AppRadioOnExit(s).depth = 0
      BY <1>1, <3>1, OnExitOk
    <3>3. Becomes(AppRadioOnExit(s))
      <4>1. use # "phone"
        BY <1>0, <2>2 DEF UseFits
      <4>2. QED BY <1>4, <2>2, <4>1
    <3>4. QED BY <3>2, <3>3
  <2>3. CASE use = "phone"
    <3>1. screen = "notes" /\ s.depth = 1
      BY <1>0, <1>1, <2>3 DEF UseFits, Count, One
    <3>2. Ok(Resume(s)) /\ Resume(s).depth = 0
      BY <1>1, <3>1, ResumeOk
    <3>3. Becomes(Resume(s))
      BY <1>4, <2>3, <3>1
    <3>4. QED BY <3>2, <3>3
  <2>4. CASE screen = "link"
    <3>1. m.net.depth = 0 /\ use # "phone"
      BY <1>0, <1>3, <2>4 DEF UseFits, Count, One
    <3>2. Becomes(m.net)
      BY <1>4, <2>4, <3>1
    <3>3. QED BY <1>3, <3>1, <3>2
  <2>5. CASE screen \notin {"web", "app", "link"} /\ use # "phone"
    <3>1. s.depth = 0
      BY <1>0, <1>1, <2>5 DEF UseFits, Count, One
    <3>2. Becomes(s)
      BY <1>4, <2>5
    <3>3. QED BY <1>1, <3>1, <3>2
  <2>6. QED BY <2>1, <2>2, <2>3, <2>4, <2>5
<1>7. /\ radio' \in Radio /\ dev' \in Dev /\ yieldDepth' \in Nat
      /\ Ok(Now)' /\ yieldDepth' = 0
  BY <1>6, BecomesOk
<1>8. TypeOK'
  BY <1>0, <1>3, <1>4, <1>7 DEF TypeOK, Screen, Use
<1>9. UseFits' /\ FlagsTogether'
  BY <1>2, <1>4 DEF UseFits, FlagsTogether, Settled
<1>10. QED BY <1>5, <1>7, <1>8, <1>9 DEF IInv

-----------------------------------------------------------------------------
LEMMA Inductive ==
  ASSUME IInv, [Next]_vars
  PROVE  IInv'
<1> USE NowOk
<1>0. TypeOK /\ UseFits /\ yieldDepth = Count
  BY DEF IInv
<1>1. CASE Associate
  <2>1. radio' \in Radio
    BY <1>1 DEF Associate, Radio
  <2>2. UseFits' /\ yieldDepth = Count'
    BY <1>0, <1>1 DEF Associate, screenVars, UseFits, Count, One
  <2>3. QED BY <1>0, <1>1, <2>1, <2>2, RadioOnly DEF Associate, screenVars, TypeOK
<1>2. CASE RangeChanges
  <2>1. radio' \in Radio
    BY <1>2 DEF RangeChanges, Radio, Network
  <2>2. UseFits' /\ yieldDepth = Count'
    BY <1>0, <1>2 DEF RangeChanges, screenVars, UseFits, Count, One
  <2>3. QED BY <1>0, <1>2, <2>1, <2>2, RadioOnly DEF RangeChanges, screenVars, TypeOK
<1>3. CASE ToggleSetting
  <2>1. UseFits' /\ yieldDepth = Count'
    BY <1>0, <1>3 DEF ToggleSetting, screenVars, devVars, UseFits, Count, One
  <2>2. QED BY <1>0, <1>3, <2>1, RadioOnly DEF ToggleSetting, screenVars, devVars, TypeOK
<1>4. CASE UNCHANGED vars
  <2>1. UseFits' /\ yieldDepth = Count'
    BY <1>0, <1>4 DEF vars, screenVars, devVars, UseFits, Count, One
  <2>2. QED BY <1>0, <1>4, <2>1, RadioOnly DEF vars, screenVars, devVars, TypeOK
<1>5. QED
  BY <1>1, <1>2, <1>3, <1>4, DevUpdateKeeps, PickerKeeps, ScreenKeeps, LeaveKeeps
     DEF Next, ScreenStep

LEMMA InitHolds == Init => IInv
<1> SUFFICES ASSUME Init PROVE IInv
  OBVIOUS
<1>1. TypeOK
  BY DEF Init, TypeOK, Radio, RadioOff, Dev, Network, Screen, Use
<1>2. Ok(Now)
  BY <1>1 DEF Ok, Net, Now, TypeOK, Init
<1>3. UseFits /\ FlagsTogether /\ yieldDepth = Count
  BY DEF Init, UseFits, FlagsTogether, Count, One
<1>4. QED BY <1>1, <1>2, <1>3 DEF IInv

LEMMA Implies ==
  ASSUME IInv
  PROVE  HandedBackOnce /\ OneServer
<1>1. TypeOK /\ UseFits /\ FlagsTogether /\ yieldDepth = Count
      /\ (dev.server => yieldDepth = 0)
  BY DEF IInv, Ok, Now
<1>2. HandedBackOnce
  BY <1>1 DEF HandedBackOnce, Count, UseFits, FlagsTogether
<1>3. OneServer
  BY <1>1 DEF OneServer, Count, One
<1>4. QED BY <1>2, <1>3

(* The types hold, for every set of networks.                              *)
THEOREM DevModeTypes == Spec => []TypeOK
<1>1. IInv => TypeOK
  BY DEF IInv
<1>2. QED BY <1>1, InitHolds, Inductive, PTL DEF Spec

(* Whatever screens nest, fail or are gestured away, Developer Mode is     *)
(* stood down for exactly the holders there are, and ESP-NOW never         *)
(* outlives its match.                                                     *)
THEOREM TakenIsHandedBack == Spec => []HandedBackOnce
<1>1. IInv => HandedBackOnce
  BY Implies
<1>2. QED BY <1>1, InitHolds, Inductive, PTL DEF Spec

(* Developer Mode never serves beside a screen that has the radio.         *)
THEOREM PortsHaveOneOwner == Spec => []OneServer
<1>1. IInv => OneServer
  BY Implies
<1>2. QED BY <1>1, InitHolds, Inductive, PTL DEF Spec

-----------------------------------------------------------------------------
(* A server that is down stays down while a holder gives the radio back.   *)
LEMMA ResumeStartsNothing ==
  ASSUME NEW s, s \in Net, ~s.dev.server
  PROVE  ~Resume(s).dev.server
<1>1. CASE s.depth = 0
  BY <1>1 DEF Resume
<1>2. CASE s.depth > 1
  BY <1>2 DEF Net, Resume
<1>3. CASE s.depth = 1
  <2> DEFINE t == [s EXCEPT !.depth = 0]
  <2>1. t \in Net /\ ~t.dev.server /\ Resume(s) = HandedBack(t)
    BY <1>3 DEF Net, Resume
  <2> HIDE DEF t
  <2>2. ~HandedBack(t).dev.server
    BY <2>1 DEF HandedBack, TearDown, Net, Dev
  <2> QED BY <2>1, <2>2
<1> QED BY <1>1, <1>2, <1>3 DEF Net

LEMMA EndStartsNothing ==
  ASSUME NEW m, Endable(m), ~m.net.dev.server
  PROVE  ~End(m).net.dev.server
<1>1. CASE m.link.held
  <2> DEFINE k == [m.net EXCEPT !.radio = RadioOff]
  <2>1. k \in Net /\ ~k.dev.server
    BY DEF Endable, Ok, Net, Radio, RadioOff, Network
  <2>2. End(m).net = Resume(k)
    BY <1>1 DEF End
  <2> HIDE DEF k
  <2> QED BY <2>1, <2>2, ResumeStartsNothing
<1>2. CASE ~m.link.held
  BY <1>2 DEF End
<1> QED BY <1>1, <1>2

(* A match that takes the radio brings the server down, if it was up.      *)
LEMMA MatchStopsServer ==
  ASSUME IInv, ~link.held, NEW b \in Begin(NowAnd)
  PROVE  ~b.net.dev.server
<1> DEFINE t == Taken(End(NowAnd))
<1>1. Endable(t) /\ t.link.held
  BY NowAndOk, EndOk, TakenOk
<1>2. ~t.net.dev.server
  BY <1>1 DEF Endable, Ok, Net
<1>3. b \in {End(t), End(StackUp(t)), StackUp(t)}
  BY DEF Begin
<1> HIDE DEF t
<1>4. Endable(StackUp(t)) /\ ~StackUp(t).net.dev.server
  BY <1>1, <1>2, StackUpOk DEF StackUp, Endable, Match
<1> QED
  BY <1>1, <1>2, <1>3, <1>4, EndStartsNothing

LEMMA KeptByStep ==
  ASSUME IInv, [Next]_vars, dev.server, dev'.server, dev.ours, setting, setting', Connected(radio)
  PROVE  radio'.target = radio.target
<1>0. /\ TypeOK /\ dev.state = "Serving" /\ yieldDepth = 0
      /\ Now.dev = dev /\ Now.radio = radio /\ Now.depth = 0 /\ Now \in Net
  BY NowOk DEF IInv, Ok, Now
<1>1. screen # "web" /\ picker = "closed" /\ use \notin {"phone", "raised"} /\ ~link.held
  BY <1>0 DEF IInv, Count, One
<1>2. ~DevUpdate
  BY <1>0 DEF DevUpdate, SwitchOff, TurnOn, NothingToJoin, Joining, Serve, ServerFails, JoinExpires,
              JoinRetries, JoinWaits, WaitingEnds, ServingDrops
<1>3. CASE Associate \/ RangeChanges
  BY <1>0, <1>3 DEF Associate, RangeChanges, TypeOK, Radio
<1>4. CASE ToggleSetting \/ UNCHANGED vars
  BY <1>4 DEF ToggleSetting, devVars, vars
<1>5. ASSUME NEW p, p = Pause(Now) PROVE p.radio = radio /\ ~p.dev.server /\ p \in Net
  <2>1. Pause(Now) = [Now EXCEPT !.depth = 1, !.dev.server = FALSE]
    BY <1>0 DEF Pause
  <2>2. Ok(p) /\ p.depth = 1
    BY <1>0, <1>5, NowOk, PauseOk
  <2> DEFINE v == [Now EXCEPT !.dev.server = FALSE]
  <2>3. v.radio = radio /\ v \in Net
    BY <1>0 DEF Net, Dev
  <2>4. p = [v EXCEPT !.depth = 1]
    BY <1>5, <2>1
  <2> HIDE DEF v
  <2>5. p.radio = radio
    BY <2>3, <2>4 DEF Net
  <2> QED BY <2>2, <2>5 DEF Ok
<1>6. CASE \E to \in Screen \ {"home"} : Open(to)
  BY <1>0, <1>5, <1>6 DEF Open, Becomes
<1>7. ~AskForNetwork
  <2>1. ASSUME AskForNetwork PROVE FALSE
    <3> DEFINE r == IF screen = "network" THEN Now.radio ELSE Station(Now.radio)
               s == [Now EXCEPT !.radio = r]
               q == Pause(s)
    <3>1. s.depth = 0 /\ s.dev = dev
      BY <1>0 DEF Net
    <3>2. \E x : Becomes([q EXCEPT !.radio = x])
      BY <2>1 DEF AskForNetwork, PickerOpens
    <3>3. q = [s EXCEPT !.depth = s.depth + 1, !.dev.server = FALSE]
      BY <1>0, <3>1 DEF Pause
    <3>4. ~q.dev.server
      BY <1>0, <3>1, <3>3 DEF Net, Dev
    <3> HIDE DEF q
    <3>5. PICK x : Becomes([q EXCEPT !.radio = x])
      BY <3>2
    <3>6. [q EXCEPT !.radio = x].dev = q.dev
      OBVIOUS
    <3> QED BY <3>4, <3>5, <3>6 DEF Becomes
  <2> QED BY <2>1
<1>8. CASE StartPhone
  BY <1>5, <1>8 DEF StartPhone, Becomes
<1>9. CASE TakeLease
  BY <1>9 DEF TakeLease, devVars
<1>10. CASE ReleaseLease
  BY <1>0, <1>1, <1>10 DEF ReleaseLease, Becomes
<1>11. ~StartMatch
  <2>1. ASSUME StartMatch PROVE FALSE
    <3>1. PICK b \in Begin(NowAnd) : Becomes(b.net)
      BY <2>1 DEF StartMatch, RadioStep
    <3> QED BY <1>1, <3>1, MatchStopsServer DEF Becomes
  <2> QED BY <2>1
<1>12. End(NowAnd).net = Now
  BY <1>1 DEF End, NowAnd
<1>13. CASE StopMatch
  BY <1>0, <1>12, <1>13 DEF StopMatch, RadioStep, Becomes
<1>14. CASE Leave
  <2>1. AppRadioOnExit(Now) = Now
    BY <1>0 DEF AppRadioOnExit, HoldsRadio
  <2>2. \/ screen = "app" /\ Becomes(AppRadioOnExit(Now))
        \/ screen = "link" /\ Becomes(End(NowAnd).net)
        \/ Becomes(Now)
    BY <1>1, <1>14 DEF Leave
  <2> QED BY <1>0, <1>12, <2>1, <2>2 DEF Becomes
<1> QED
  BY <1>1, <1>2, <1>3, <1>4, <1>6, <1>7, <1>8, <1>9, <1>10, <1>11, <1>13, <1>14
     DEF Next, ScreenStep, PickNetwork, PickFails, ForgetNetwork, Picked, PickerCancelled,
         StartAccessPoint, StopPhone

(* While Developer Mode serves on an association it made, nobody who has   *)
(* not stood it down takes that association away, whatever opens, leaves,  *)
(* fetches or stops a match twice.                                         *)
THEOREM ServedStaysServed == Spec => ServedIsKept
<1>1. IInv /\ [Next]_vars =>
        [dev.server /\ dev'.server /\ dev.ours /\ setting /\ setting' /\ Connected(radio)
           => radio'.target = radio.target]_vars
  BY KeptByStep
<1>2. QED BY <1>1, InitHolds, Inductive, PTL DEF Spec, ServedIsKept
=============================================================================
