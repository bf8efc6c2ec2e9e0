# CrossPlay firmware: models and proofs

TLA+ models of the firmware under `src/` (CrossPlay, an e-ink reader on an
ESP32-S3 that also plays two-player games over a radio link), checked with TLC
and proved with TLAPS: every safety property and every refinement a run checks
is also a theorem, for all values of the constants. Liveness is TLC's.

Nearly all of the firmware is sequential code on one task, and host tests reach
it well. The models are about the rest: two devices over a link that loses,
repeats and reorders packets; the main loop, the render task and a radio
callback on shared memory; a clock that wraps; one radio that half a dozen
screens and a background service take from each other; reviews on their way
through three stores that may each stop at any moment; a firmware image written
over a partition with the power going at any flash operation; and long
sequences of legal calls (a held button under a changing screen, a stack of
screens that navigate from anywhere) that nobody has written a test for.

## 1. Inventory

Paths are below `src/src/`, those of the bridge below `src/`.

| Component | State it keeps | Operations | Talks to |
|---|---|---|---|
| **Link session** `apps_local/link/LinkSession` | state, peer, candidate, coin toss, move counter, turn, outgoing/incoming board, outgoing/incoming note | begin, leave, reset, submit, takeIncoming, announce, takeAnnouncement, tick (drain, clocks, timeouts) | peer, through packets Hello, Join, State, Ack, Bye, Say, SayAck |
| **Link play** `apps_local/link/LinkPlay` | phase, ending, a move held for a game that has not taken it | start, stop, update, playRaw, takeRaw, say, heard | session, radio, games |
| **Rematch** `apps_local/link/LinkActivity` | the seats (`you_`, `them_`), `rematch_`, last phase | driveLink, proposeRematch, startRematch, leaveLink, routeLinkScreen | link play, final-board hold, the game's hooks |
| **Final-board hold** `apps_local/link/LinkEndgame.h` | stage, hold deadline, one stamp shared with the render task | update, reset, skip, notePainted | loop task and render task |
| **Link radio** `apps_local/link/LinkRadio` | receive ring, its two indices, started, held | begin, end, receive, send, the receive callback | Wi-Fi task, ESP-NOW, Developer Mode |
| **Screens** `activities/ActivityManager`, `Activity`, `RenderLock` | the activity on top, the stack, the pending navigation, result handlers, requested update, the waiter | loop, push/pop/replace, startActivityForResult, finish, requestUpdate, requestUpdateAndWait, goToSleep, renderTaskLoop | main loop and render task, every activity |
| **Button releases** `util/ButtonReleaseGate`, `MappedInputManager` | armed mask, suppressed releases, fired long presses | update/settle, wasReleased, wasLongPressed, consumeSuppressedRelease, swallowNextReleaseOfHeldButtons | screens |
| **Boot, sleep, power** `main.cpp`, `util/WakePolicy.h` | wake reason, power-button latches | setup, loop, enterDeepSleep | everything |
| **Developer Mode** `DevMode`, `DevModePairing.h`, `DevSerialBridge` | Off/NoNetwork/Joining/Serving/Waiting, how many holders it has stood down for, back-off, whether the association is its own, server, token | begin, update, pause, resume, turnOn, tearDown, holdsRadio, pair | everybody who takes the radio or the ports: `WifiSelectionActivity`, `CrossPointWebServerActivity`, `LinkRadio`, `NotesActivity`, `LiveEngine`, apps that fetch, Settings |
| **Web server, transfers** `network/CrossPointWebServer`, `WebDAVHandler`, `HttpDownloader` | an upload in progress, open files | HTTP handlers | SD card, Developer Mode |
| **Firmware update** `network/FirmwareFlasher`, `OtaBootSwitch`, `OtaUpdater`, `SdFirmwareUpdateActivity`, `OtaUpdateActivity`, `/api/dev/flash` | the two app partitions, the two entries of otadata, how far an install has got | check, validate, prompt, stream, switch, restart | flash, SD card, network, bootloader |
| **Settings and stores** `CrossPointSettings`, `CrossPointState`, `RecentBooksStore`, ... | one record each, and its file | load, save | SD card |
| **Games** `apps_local/chess`, `connectfour`, ... | a board | legal moves, finished, seats | rematch |
| **Study sync** `apps_local/study/StudyActivity`, `StudySync` | revlog.dat (append only, records struck out by UNDO), cards.dat, `.bridge` (token, acknowledged bytes and their checksum, builds) | grade, undo, pair, sync (post, poll, fetch, put in place) | the bridge |
| **Study bridge** `server/study-bridge/bridge/`, `tools_local/study/deck_to_anki.py` | journal.db, latest.json, the job, the mirror of the collection, the deck last built | POST /api/sync, sync_cycle (sync, apply, mark, push, clear), build | AnkiWeb, the reader |
| **Other network apps** `apps_local/instapaper`, `live`, `remote` | queues of things to send, cursors | synchronise | servers |
| **Reader, formats, drawing, vendored libraries, servers, tools** | | | |

Which behaviours are hard, and what makes each component correct:

* *Session.* No server, no clock in common, every packet may be lost, repeated,
  late or out of order, and either side may go without a word. Both sides must
  agree who moves first, never both hold the turn, never lose it, never play on
  a board that misses a move, and a match only one side believes in must end.
* *Rematch.* Two reliable channels (board and note) that are not ordered
  against each other carry one conversation. Nobody may be put in a game that
  was not agreed; the boards and seats of the next game must fit the turn.
* *Final-board hold.* The loop decides when the board has been seen, the render
  task knows when it was drawn; a frame takes longer than a pass.
* *Radio ring.* Lock-free, one producer and one consumer, reset between matches.
* *Screens.* An activity may navigate from its loop, its `onEnter` or a result
  handler, gestures navigate too, the render task reads the top concurrently,
  and a wait for a paint is a handshake of three flags.
* *Button releases.* One press must be one event though the screen changes
  while the button is down; swallowing too much is a dead button.
* *Developer Mode.* A join and back-off machine that must hand the radio to
  others and take it back. The holders nest and end in many ways; each must
  release once, and no call may take away an association that is not its own.
* *Firmware update.* Three doors to one install. Whatever fails or wherever the
  power goes, the bootloader must find a whole image for this device, and what
  is reported as installed must be what starts.
* *Study sync.* Two devices, three stores, no transaction across them: a reply
  is lost and its post repeated, a review is undone after it was sent, the
  log is replaced, the mirror is replaced, any of them stops between two
  writes. No review the reader calls safe may be lost or arrive twice.

`PROJECT.json` lists the hazards at their lines with the properties that cover
them; those no property covers are listed in section 5.

## 2. Modules

| Module | Models | Correspondence |
|---|---|---|
| `LinkSession` | `LinkSession.{h,cpp}`, the transport contract, the parts of `LinkPlay` that call it | `sess[d]` is the record of Session's fields on device `d`; one action per public call, per clock in `tick` and per packet type in `handlePacket`. `board[d]` is the game's copy, abstracted to the number of moves on it; a State packet carries that number. `air` is the set of packets in flight: receiving leaves a packet there, so it may be repeated and overtaken, `Lose` removes it |
| `AlternatingMatch` | what a match promises two players | the abstract specification: pick one, then strict alternation |
| `LinkSessionInduction` | the inductive invariants of the session | used by TLC's instances and by the proofs |
| `MCLinkSession` | LinkSession for TLC, and the refinement mapping to `AlternatingMatch` | |
| `LinkSessionProofs` | theorems about LinkSession, and that it implements AlternatingMatch | |
| `LinkRematch` | `LinkActivity.cpp` on both devices | `Pass` is all of `driveLink`, in its order: drain, note, board, hold, question, departure; then at most one tap of the player. The session is reduced to its two channels. `usage`, chosen once, says what the match is like: a link in order, one that overtakes, a player who taps PLAY AGAIN twice |
| `LinkEndgame` | `LinkEndgame.h`, `LinkActivity::render` | one action per access to what the two tasks share |
| `LinkActivityProofs` | theorems about LinkRematch and, in its last part, LinkEndgame (as the instance `Hold`) | the two halves of `LinkActivity.cpp` |
| `LinkRadio` | the receive ring, `begin`, `end` | one action per access to an index or a slot; a slot being copied holds `Torn` |
| `PacketQueue` | a bounded queue | what the ring implements |
| `LinkRadioProofs` | theorems about the ring, and that it implements PacketQueue | |
| `ActivityManager` | `ActivityManager.cpp`, `Activity.cpp`, `RenderLock.h` | `loop` and `render` are the places of the two tasks; an activity does any sequence of the calls `Activity.h` offers, at most one of them a navigation per function |
| `ActivityManagerProofs` | theorems about ActivityManager | |
| `ReleaseGate` | `ButtonReleaseGate`, the releases of `MappedInputManager`, the order in which `ActivityManager::loop` uses them | masks are sets; `owner`, `honest`, `held` are history |
| `ReleaseGateProofs` | theorems about the gate | |
| `DevMode` | `DevMode.cpp` and what its users do with the radio: the Wi-Fi picker, the web screen, Notes, a Live lease, apps that fetch, Settings' network row, `LinkRadio`'s begin and end | one action per branch of `update()`, one per handler of a screen; `radio` is the driver. Developer Mode's functions are functions from a state to a state, because screens call them in the middle of a handler. Deadlines pass at any time |
| `DevModeProofs` | theorems about DevMode | |
| `FirmwareUpdate` | `FirmwareFlasher`, `OtaBootSwitch`, the download of `OtaUpdater`, the three callers | `flash` has chunks that are of an image, erased or torn; one action per flash operation; the bootloader and `esp_ota_*` are external |
| `MCFirmwareUpdate` | FirmwareUpdate for TLC | the sizes of the images |
| `FirmwareUpdateProofs` | theorems about FirmwareUpdate | |
| `StudySync` | `StudyActivity` and `StudySync` on the reader, the bridge's app, journal, jobs and engine, `deck_to_anki.apply` | one action per file the device replaces and per commit of the bridge; a review is its card and its time, a schedule the time of the last review in it, a checksum the records it is of |
| `StudySyncProofs` | theorems about StudySync | |

An operator marked *Fault* in a module is its neighbour with a plausible bug.
No specification uses it; it shows that a property is able to fail.

### How the models compose

LinkRadio delivers packets to LinkSession: what LinkSession assumes of `air`
(whole packets, of this match once the radio is restarted) is what LinkRadio
shows. LinkSession's two channels are the channels of LinkRematch: "newest
wins, retransmitted until acknowledged" is `NoteReaches`, `TurnNotLost` and
`MoveGetsThrough` there. LinkRematch treats the end of the hold as an input;
LinkEndgame says when it comes. ActivityManager and ReleaseGate share one loop:
the gate is armed where ActivityManager's `Install` and `Finish` change the top.
LinkRadio's `Begin` and `End` clear the ring; DevMode has the same two
functions as the taking and the handing back of the radio, with every place
they fail at. DevMode's server is the one through which FirmwareUpdate's
`DevFlash` comes.

## 3. What is checked

Passing runs:

| Run | Instance | Shows |
|---|---|---|
| `session` | two devices, tosses 0 and 1, two moves, two notes a side, nobody vanishes | one writer, no lost turn, no vanished move, reliable notes heard once, and the refinement of `AlternatingMatch` |
| `session_three` | three devices discovering each other, any of them vanishing | a confirmed match is real on both sides |
| `session_live` | two devices, one move, packets lost, devices vanishing | matching succeeds, one-sided matches heal or end, a move gets through |
| `rematch` | a game seated by the turn; each usage of a match; NEW GAME in an overtaking one | no game without one's own and the peer's consent; boards, turns and seats of the next game fit; every finished board counted exactly once; agreement starts a game |
| `endgame` | a clock of 20 ticks, from every start, hold 2, ceiling 5 | the final board is up for its whole hold; the hold ends |
| `radio_ring` | depth 3, 7 packets, any number of matches | no shared slot, nothing stale, and the refinement of `PacketQueue` |
| `screens` | four activities, four calls | who may be painted, who owns whom, results, waits, repaints |
| `gate` | two buttons, two screens, every combination of long presses, polls inside a pass and passes cut short | whose release it is, no dead button, one event per long press |
| `devmode` | two networks that come and go, the setting flipped at any time, every screen | what is taken is handed back once, one owner of the ports, no association taken from under the server, and it serves again in the end |
| `firmware` | four images (two fit, one torn, one for another board), three chunks, erased two at a time, every state of otadata | whenever the power goes there is an image to start, and the boot target is fit unless a developer flash over an update is unfinished; success means it starts |
| `study` | one card, two reviews, one fault of any kind, requests and replies lost at will, posts that meet a job | no acknowledged review lost, none twice or after UNDO, no newer review undone by a deck (but those posted during its job), everything in Anki in the end |

A run that shows a disagreement between the code and its own words:

| Run | What it shows |
|---|---|
| `study_crash` | as `study` with two faults. `engine.py:16-17` promises "A crash anywhere re-runs as a safe retry." Stopped between a full download and `reset_applied()` (engine.py:117-123), the bridge counts as applied what was applied to the mirror it has just replaced; the next cycle pushes, and deletes those reviews from the journal. The reader has been told they are safe |

### Bounds, and why they are enough

* *Session.* Two moves bring every transition of turn and acknowledgement,
  including a late copy of the move before the last; two notes bring the late
  acknowledgement of an older note. The tosses 0 and 1 give both orders and the
  tie. What is proved holds for any number of moves, notes, devices and tosses.
  Three devices need no moves: everything that can go wrong among three happens
  before the first one. `MaxSequence < 65535` is an assumption: the 16-bit
  counter would wrap after 65535 moves, which no game reaches.
* *Rematch.* Two notes a side: a question and an answer, and a second question
  or a departure over the game that follows. Three moves: games of even and odd
  length.
* *Endgame.* `ClockAssumption` is the program's own relation between width,
  ceiling and pass; 20 ticks let the clock wrap in every phase of a hold.
* *Ring.* Seven packets in a ring of three slots go round it twice and more.
* *Screens.* Four activities: a stack of two, one pending and one to come.
* *Gate.* Two buttons, because one suppressed release affects the other.
* *DevMode.* Two networks: the one saved before a yield and another. Nothing is
  bounded but the networks; the holders nest as deep as the screens allow.
* *Firmware.* Three chunks and a block of two: a block of which part is written,
  and a last block cut by the end of the partition. Numbers from 1 to 5 take
  otadata through blank, equal, older and newer entries and both parities, over
  two installs. The proofs have no bound.
* *Study.* Two reviews of one card: one acknowledged and one newer, which is
  what a marker, a checksum or a deck can confuse. One fault already meets every
  step; `study_crash` needs two (a full sync demanded, then the stop). Reviews
  of different cards meet in the code only in the order of the log and where
  two rows would get one id and one is nudged (deck_to_anki.py:191-202), which
  needs two reviews in the same millisecond.

### Fairness

* *Session.* `tick` runs on every pass of the loop, so its clocks are weakly
  fair. A packet that is sent again and again is not lost every time (strong
  fairness of its arrival), and only of what the peer is sending *now*: no old
  copy is owed to anybody. The timeout is patient in the live specification: a
  peer that is in the match or still looking for it sends several times within
  `kPeerTimeoutMs`. Begin, moves, losing and vanishing owe nothing.
* *Rematch.* The loop turns, retransmitted messages arrive, a hold expires, a
  departed peer is missed. No player is obliged to press anything.
* *Endgame.* Loop and clock; the render task owes nothing, which is what the
  ceiling is there for.
* *Screens.* Both tasks run, and an activity's functions return.
* *DevMode.* `update()` is called on every pass, so its branches are weakly fair;
  a network in reach is joined, and the server starts, if tried often enough
  (strong fairness). No screen is obliged to do anything; `ServesAgain` is about
  a device at home.
* *Study.* The reader's user presses SYNC again and again; not every post is
  lost; the bridge's job runs; AnkiWeb can be reached now and then. Nobody is
  obliged to resolve a demanded upload, which `ReachesAnki` excepts.

### What the properties depend on

The code keeps several of them only under conditions, which are constants or
assumptions of the modules:

* A device that leaves and taps MULTIPLAYER again within the life of its old
  packets is matched by an old view of its toss; then both sides, or neither,
  may believe they move first. `HostAgreement`, `SingleWriter`, `TurnNotLost`,
  `ConfirmedIsMutual`, `NoteReaches` and `ImplementsMatch` are about devices
  that search once (`MaxBegins = 1`); `NoMoveVanishes`, `NoteOnce` and the types
  hold, and are proved, for any number of times.
* `HearDeparture` takes a late Hello from before the match for a departure
  (LinkSession.cpp:290). It ends the match for one side and, a timeout later,
  for the other; no property claims that a peer reported as gone has gone.
* When one channel overtakes the other (`usage = "overtaking"`), the first board
  of the next game can arrive before the answer that begins it, and is then
  dealt over. `LastMoveOnBoard`, `TurnMatchesSeat` and `CountedBeforeGone` are
  about a link in order, `AgreementStarts` about one where nothing overtakes.
* `RematchByConsent` demands of every match that a player asked for each game
  he is put into and that the peer has said yes at least that often. That the
  peer's yes was to this very game it demands except where
  `usage = "tapsTwice"`: `linkModel()` (LinkActivity.cpp:238) keeps offering
  PLAY AGAIN to a player who has answered, and a second note heard after the new
  game began is a new question there, whose answer starts a game at once ("Both
  sides have said yes to another game", LinkActivity.h:87).
* `TurnMatchesSeat` holds for a game that seats by `linkYourTurn()`, as chess
  does and explains (ChessActivity.cpp:1157-1160); with `SeatByTurn = FALSE` it
  fails, and that is what Connect Four (ConnectFourActivity.cpp:191, against its
  own :154), checkers, hex, go, yahtzee, knucklebones and toy battle do: they
  seat a rematch by the coin toss of the match, while the turn carries over.
* `HonestReleaseIsRead` is about screens that do not act on long presses. Where
  one does, a long press that changes the screen is both suppressed and armed;
  the gate hides its release from `consumeSuppressedRelease()`
  (MappedInputManager.cpp:382), and the next, ordinary press of that button is
  thrown away with its pass, which ButtonReleaseGate.cpp:23-24 means to avoid.
* `OneServer` and `HandedBackOnce` say nothing of the radio's mode. "Off means
  off" (DevMode.h:16) is not true while the first join is on its way:
  `tearDown()` puts down only an association already claimed
  (DevMode.cpp:155, :324), and the station stays on and joins.
* A screen that puts its radio down is modelled as on the boards with touch,
  where `silentRestart()` switches the radio off and returns
  (main.cpp:227-240); without touch it reboots. The model also takes the ways
  in which a radio is left up (Notes never puts down what its picker joined;
  the home gesture out of Settings' network row; a picker over Developer Mode's
  own association inside the web screen, DevMode.cpp:466-471). Developer Mode
  then serves on it, which `ServesAgain` allows.
* `DeckKeepsReviews` excepts the reviews of a post that met a job under way
  (`late`), and only them: that job has read the cards already
  (app.py:625-627). If it takes the review in, the card gets the schedule posted
  before the review; if not, the deck it builds has that schedule, the reader
  takes it, and posts it with its next sync. Either way the schedule of that
  review is gone until the card is graded again; the review itself reaches Anki.
  It also excepts a cut between the removal of cards.dat and its rename
  (`cutRename`), after which the schedules of reviews not yet posted are gone in
  the same way, and a stop of the bridge right after a full download
  (`cutDownload`), as do `NothingLost` and, of reviews not in Anki,
  `ReachesAnki`: that is what `study_crash` shows. `mishap` and `late` are
  history; no action reads them.
* A power cut in `saveBridgeState` between remove and rename (StudySync.cpp:
  380-381) leaves no `.bridge`: the device pairs again and sends everything
  again. The comment above it means to prevent that; the reviews survive it.
* A developer flash begun in the seconds between the update screen's switch and
  its restart writes over the partition otadata already names. While it is
  `unfinished`, `TargetIsFit` demands only that the image the program runs from
  is whole, which the bootloader falls back on, and `SwitchTakes` only that the
  target is the destination. The code does nothing to avoid the window.
* `WaitShows` needs the caller to change its state under the RenderLock
  (`LocksChanges`), as `XkcdActivity.cpp:1199-1207` explains; Wordle and
  Connections do not.
* Going to sleep relies on one pass to show the sleep screen, and that pass may
  swallow its input or navigate (`SwallowInput`, `Navigate` while `sleeping`);
  a navigation pending from a gesture may be dropped by the next one. The model
  takes both steps; no property claims the opposite.
* The ring assumes that unregistering the ESP-NOW callback waits for one that
  is running, and the endgame that a whole game outlasts a frame of the last.

## 4. What is proved

For every value of the constants, from the assumptions the modules name:

| Theorem | Statement |
|---|---|
| `TypeCorrect` | types of every session, board and packet |
| `BoardsComplete`, `NoteHandedOnce` | `NoMoveVanishes`, and `NoteOnce`: no note of a match is handed to a game twice or after a newer one (it may be superseded; the newest wins), for any number of devices, tries, moves and notes |
| `HostsAgree`, `OneWriter`, `TurnSurvives`, `ConfirmedIsReal`, `NotesArrive` | the match and note invariants, for any number of devices of which none searches twice |
| `SessionImplementsMatch` | two devices that search once implement AlternatingMatch: one first mover, strict alternation, to the end of the match and past it |
| `BothSaidYes` | `RematchByConsent`, whatever overtakes what: one's own yes and as many of the peer's, and his to this very game where nobody taps PLAY AGAIN twice |
| `LastMoveIsThere`, `TheSeatIsTheTurn`, `NothingUncounted` | boards, seats and counts over any number of games, on a link in order |
| `TheLoserSawIt` | `FinalBoardIsRead`, for any width of the clock and any hold and ceiling that fit it |
| `RingRaceFree`, `RingWhole`, `RingFresh`, `RingImplementsQueue` | the ring, for any depth of at least two: races, torn and stale packets, and that it is a bounded queue |
| `NavInvariant`, `EveryActivityOwnedOnce`, `NothingDestroyedInOnEnter`, `ResultsReachLaunchers`, `TopIsPainted`, `WaitersSeeTheirPaint` | the screens, for any number of activities and calls |
| `ArmIsBounded`, `ReleaseIsItsOwners`, `HonestIsRead`, `LongPressIsOneEvent` | the release gate, for any buttons and screens |
| `DevModeTypes`, `TakenIsHandedBack`, `PortsHaveOneOwner`, `ServedStaysServed` | types, the count of holders, one owner of the ports, no association taken from a server, for any networks |
| `FirmwareTypes`, `CutAnywhere`, `SuccessIsStarted`, `AlwaysAnImage` | types, `TargetIsFit`, `SwitchTakes`, `RunningBoots`, for any images, sizes and sequence numbers |
| `NothingIsLost`, `AnkiGetsEachOnce`, `ScheduleIsKept` | `NothingLost`, `OnceAndMeant`, `DeckKeepsReviews`, for any cards, reviews and number of faults |

Some theorems have a hypothesis beside the modules' assumptions, and each is a
condition the code needs (section 3, "What the properties depend on"):
`MaxBegins = 1` (no device searches twice), `AtMostTwo` (at most two devices, for the
refinement only: AlternatingMatch has two players), `LocksChanges = TRUE` (for
`WaitersSeeTheirPaint`), `SeatByTurn` (for `TheSeatIsTheTurn`), `ClockFits` (for
`TheLoserSawIt`: LinkEndgame's own `ClockAssumption`).

The inductive invariants below are what the safety properties need and do not
say; TLC checked each on small instances before it was proved.

**Session.** `BoardInv` strengthens `NoMoveVanishes` by what is on its way:
every State packet and every outgoing board has as many moves as its sequence
number says. It needs nothing about who plays whom, so it holds over any number
of matches. `NoteInv` does the same for notes: what a game was handed last is
not newer than what its session has heard. `MatchInv` is the argument for a
single match. `Traffic` says that
whatever a matched device has in the air was sent in this match to this peer;
`HostByToss` ties the host to the tosses and `TurnParity` the turn to the host
and the parity of the counter, so two devices with opposite hosts and counters
at most one apart (`Lockstep`) cannot both have the turn; `PendingIsLast` says
that what is being resent is the last move, so if neither has the turn it is on
its way. `Waiting` covers the time in which one side has matched and the other
still searches. The step is proved through the kinds of change a session can
make (enters, matches, moves, adopts, keeps, dwindles, quits): each action is
shown to be of a kind, each kind to keep the invariant. `ReachInv` adds the
notes: an acknowledgement in the air is of a note its sender has heard
(`NotesAcked`), and a peer that has not joined has acknowledged none.

**AlternatingMatch.** A match ends for one side before the other, and the
refinement has to speak of it then, too. `PairInv` restates for two devices
what outlives the match: the peer and who moves first (`MatchByToss`), the
traffic (`Mail`), and that the counters are one apart only when the one ahead
has made the move that was its own (`OneMoveApart`). With it the first session
to match is a `Pick`, `Submit` is a `Move` of the player whose turn the abstract
match says it is, an adopted board is a `CatchUp`, and everything else stutters.

**Rematch.** The loop's pass is one action with a dozen steps; `PassIs` says
once what a pass does, field by field, and the invariants are proved from that.
`ConsentInv` numbers the notes: the n-th note of a device asks for the game
after its n-th, so a note that is heard asks for, or answers to, the game one is
in. This is what a second tap of PLAY AGAIN breaks. What a second tap leaves is
`OwnInv`: a departure is the last note a device sends (`GoesLast`), so every
note before it is a yes, and a device starts no more games than it has heard
notes. Neither needs an order between boards and notes, so `BothSaidYes` holds
where they overtake each other.
`BoardInv` is the argument about two channels in order. Two devices are in one
game (`Together`: equal counters mean equal boards, else the one ahead has
just moved), or one is in the next (`Ahead`): it can have made at most the first
move there, and the other has asked, has a finished board, and has the answer
still to hear. `SeatsOf` says that an answer that waits is answered at once.
`TurnInv` ties the turns to the counters without the session's packets, as
`MatchInv` does with them. `SeatInv` adds the parity of the board, `CountInv`
that a finished board is counted where the stage leaves `Live`.

**Final board.** While a final board is up its deadline is a number of ticks
away that is never more than what is left of the ceiling, and once the board is
reported never less than what is left of the hold (`CeilingInv`, `DeadlineInv`):
a distance modulo the clock, which stays exact because it is less than half of
it. `FrameInv` and `PanelInv` say why a report is of the finished board: a frame
begun in `Final` draws the board that ended the game, and after it no other
picture is on its way.

**Ring.** The consumer's copy of head and the producer's copy of tail are exact
where they matter, every slot between head and tail is whole and of this match,
and the slot being written is not between them. The refinement reads the slots
from head to tail as a sequence; `OrderInv` says that the numbers on it grow, are
newer than what was taken out and older than what is being put in, so the store
to tail is an append and the store to head takes the first.

**Screens.** `OwnInv` says what owns an activity by the stage of its life,
`AskedInv` what a pending action stands for, `HandlerInv` that a handler on the
stack waits for the activity right above its own. A handler is installed before
its activity is, and `SamePass` bridges that: what an activity asks for is
carried out in the pass it asks in. `LockInv` is the render task's lock, from the
reading of `current` to the end of the frame. `ShownInv` and `WaitInv` are the
handshake: who waits is told once, by a frame begun after it changed its state.

**Gate.** A button that is down belongs to the screen on top or is armed
(`Whose`), and an armed button's press changed hands (`ArmedNotHonest`); a
second invariant follows a long press to the release that consumes it.

**DevMode.** `HandedBackOnce` is nearly inductive: what it needs is what a
screen can be doing (`UseFits`) and that the match's two flags and the stack go
together (`FlagsTogether`). The argument is in the lemmas about Developer
Mode's own functions: `Pause` adds one to the count and stops the server,
`Resume` takes one off and starts nothing, no branch of `update()` runs while
the count is positive. `BeginOk` follows `begin()` to each of its failures. `ServedIsKept` follows from
the same invariant: a screen that touches the radio has stood the server down,
and `end()` of a match leaves the radio alone unless its own flags say that it
holds it.

**Firmware.** `TargetIsFit` is two invariants, `RunningBoots` and `TargetFits`.
The second needs to know that nothing has been switched yet
(`Unswitched`), that the destination is filled from the front over erased chunks
(`Filling`), and that the entry to be written is one the bootloader does not use
(`Picked`); `SpareIsFree` and `WriteTakes` are the two facts about otadata, that
erasing the spare entry changes nothing and that writing it makes its partition
the target, by the parity and the order of the numbers. `RunningBoots` is kept
by every step because nothing is written where the program runs.

**Study.** `JournalInv` follows a review from the post that carries it: until
the bridge has taken the post it is in the request, from then on in the journal
or in Anki (`SentInv`), and what the journal counts as applied is in the mirror,
but for the moment after a full download (`AppliedInv`); that exception is what
`study_crash` shows. `VoidInv` is about times: every record has one of its own,
and none that UNDO struck out, or still would, has left the card. `ScheduleInv`
follows the schedules the same way round as the reviews: the cards posted cover
every review that was there (`PostedInv`), the mirror covers what it was given
(`MirrorInv`), the deck built covers the device (`DeckInv`), each but for the
reviews that came late (`OnTime`). The step
that needs all of them is the application to the mirror: a card with new rows
gets the schedule that was posted, which covers its reviews, and any other card
keeps the mirror's, which already did.

## 5. What is only model-checked

Liveness is out of the prover's reach here, as is anything under fairness:
`MoveGetsThrough`, `MatchForms`, `OneSidedHeals`, `AgreementStarts`,
`AsksInTheEnd`, `WaitEnds`, `UpdateIsPainted`, `ServesAgain` and `ReachesAnki` are
checked by TLC on the instances above, and hold for those. `SafeRetry` is
refuted, and so there is nothing to prove.

Hazards the models take as steps, or leave out, without a property:

* a late Hello that ends a live match (LinkSession.cpp:290), the goodbye that is
  sent once (LinkActivity.cpp:50), a frame painted at `millis() == 0`
  (LinkEndgame.h:137), one suppressed release that discards the other buttons'
  of its pass (MappedInputManager.cpp:386), an activity painted before its
  `onEnter` has run (ActivityManager.cpp:296), a gesture over a screen that owns
  the raw card (ActivityManager.cpp:184): steps of the models of which the code
  promises nothing more;
* the 16-bit move counter (LinkSession.cpp:350): an assumption;
* the search task of Go, which takes the loop's notification (GoActivity.cpp:
  122, 139): the loop waits for it where it stands, so only the two seconds in
  `onExit` could leave a notification behind;
* the files of a deck renamed one by one (StudyActivity.cpp:2227), a rename that
  fails and is not noticed (2229), a deck.dat that is missing beside a cards.dat
  (2185): StudySync has no deck.dat;
* two reviews at one time, of one card (journal.py:53) or of two, whose rows
  get ids of their own (deck_to_anki.py:191-202): StudySync's clock moves.

## 6. What is not modelled, and why

* Packet encoding, names, phase strings, drawing, logs: no property is about
  them.
* The second repaint of a live sleep screen (main.cpp:436), the search task of
  Go that shares the loop's notification (GoActivity.cpp:122, 136), and what a
  screen's `render` reads before its `onEnter` has run: each is one screen's own.
* The rules of the games: sequential, and covered by host tests. A game enters
  LinkRematch only by how it seats players and when its board is finished.
* DevMode leaves out pairing codes and tokens, the serial bridge, Calibre (which
  does what the web screen does), deep sleep, and the prompt to save a password.
* FirmwareUpdate leaves out the search for a newer release, the bytes of the
  header and the board tag (an image is fit or not; one without a tag passes, as
  in the code), the device report, and the wrap of the sequence number at 2^32.
  The file does not change between the second check and the end of the flash:
  both are in one call on the loop task (SdFirmwareUpdateActivity.cpp:192,
  CrossPointWebServer.cpp:2716), so no upload comes between, and a card put in
  during it is not initialised before the next `Storage.begin()` (main.cpp:608),
  so its reads fail, which is `StreamFails`.
* StudySync has one deck and cards.dat as its only file beside the log: the
  choice of decks, deck.dat, fonts and images, cards deleted in Anki, a second
  reader on the account and the pairing of a second device are left out. A new
  post supersedes an older one that was never answered.
* LiveEngine's `commitImage`, Instapaper's queue, web uploads and the settings
  files: planned.
* Parsers, layout, caches, drawing, vendored libraries, the other servers and
  tools: hundreds of thousands of lines of data, generated tables, third-party
  code and sequential algorithms, which is most of the repository by size and
  holds little control.

## 7. Plan

In order of importance; done so far: 1 to 10.

1. LinkSession, its abstract specification, its proofs.
2. LinkRematch over the two channels.
3. LinkEndgame: loop and render task over a wrapping clock.
4. LinkRadio's ring, PacketQueue, proofs.
5. ActivityManager: loop and render task.
6. ReleaseGate, proofs.
7. DevMode: join, back-off, serve, yield, and the users of `pause`/`resume`;
   proofs.
8. FirmwareUpdate: a cut between any two flash operations; proofs.
9. StudySync: reader, journal, job, AnkiWeb.
10. Proofs of every safety property, action property and refinement the runs
    check.
11. Saving settings and stores: a crash leaves the old or the new file.
12. Instapaper's queue; LiveEngine's commit of an image; upload sessions.
13. WakePolicy and the power button.

As modules are added, runs that ask small questions give way to those that ask
bigger ones.
