----------------------------- MODULE StudySync -----------------------------
(***************************************************************************)
(* Reviews of a Study deck on their way from the card in the reader to     *)
(* Anki.  Source: src/apps_local/study/StudyActivity.cpp and StudySync.cpp *)
(* on the device, server/study-bridge/bridge/ (app, journal, jobs, engine, *)
(* wire) and tools_local/study/deck_to_anki.py on the bridge.              *)
(*                                                                         *)
(* One reader, one account, one deck.  The device appends reviews to       *)
(* revlog.dat, posts the part the bridge has not acknowledged together     *)
(* with cards.dat, and fetches the rebuilt deck.  The bridge keeps reviews *)
(* in a journal until they are in Anki's own collection; a job in a thread *)
(* carries them there.  Power cuts, restarts of the bridge, lost requests  *)
(* and replies, a card that was changed on a computer and a demand of      *)
(* AnkiWeb for a full sync happen between any two steps.                   *)
(*                                                                         *)
(* A review is its card and its time.  The schedule of a card is the time  *)
(* of the last review it accounts for.  The checksum of the bytes already  *)
(* sent is those bytes.  Only this reader reviews, and no card is deleted  *)
(* in Anki.                                                                *)
(*                                                                         *)
(* Two variables are history, read by no action: mishap (the bridge        *)
(* stopped between a full download and what follows it, "cutDownload"; a   *)
(* power cut left the deck without its cards, "cutRename") and late, the   *)
(* reviews a post brought to the bridge while a job was under way.         *)
(*                                                                         *)
(* "Fault" marks a plausible bug in the definition that follows it; no     *)
(* specification uses one.                                                 *)
(***************************************************************************)
EXTENDS Naturals, Sequences, SequencesExt, FiniteSets

CONSTANTS
  Card,
  MaxReviews,   \* bound: cards graded
  MaxFaults     \* bound: power cuts, restarts, cards changed, demands

ASSUME BoundsAssumption == MaxReviews \in Nat /\ MaxFaults \in Nat

VARIABLES
  log,          \* revlog.dat
  cards,        \* cards.dat; empty where the file is missing
  saved,        \* the file .bridge
  undo,         \* what UNDO would take back
  flow,         \* the sync under way on the device
  clock,        \* the time of the next review
  request,      \* the post on its way
  journal,      \* journal.db: reviews waiting, and applied to the mirror
  latest,       \* latest.json: the cards last posted
  job,          \* the job of this account
  build,        \* the deck last built
  mirror,       \* the bridge's copy of the collection
  upstream,     \* the collection on AnkiWeb
  demand,       \* the full sync AnkiWeb insists on
  faults,
  mishap, late  \* history

card == <<log, cards, saved>>
device == <<card, undo, flow, clock>>
bridge == <<journal, latest, job, build, mirror>>
history == <<mishap, late>>
vars == <<device, request, bridge, upstream, demand, faults, history>>

Review == [card : Card, at : 1..MaxReviews]
Record == [of : Review, voided : BOOLEAN, whole : BOOLEAN]
Cards == [Card -> 0..MaxReviews] \cup {<<>>}
Saved == [paired : BOOLEAN, sent : Seq(Record), build : Nat]
Collection == [rows : SUBSET [of : Review, copy : {1, 2}], cards : [Card -> 0..MaxReviews]]

NewDeck == [c \in Card |-> 0]
Unpaired == [paired |-> FALSE, sent |-> <<>>, build |-> 0]
NoUndo == [of |-> "nothing"]
Idle == [at |-> "idle"]
NoRequest == [at |-> "none"]
NoJob == [at |-> "none", cards |-> <<>>, pending |-> {}]

Init ==
  /\ log = <<>> /\ cards = NewDeck
  /\ saved \in {Unpaired, [paired |-> TRUE, sent |-> <<>>, build |-> 1]}
  /\ undo = NoUndo /\ flow = Idle /\ clock = 1
  /\ request = NoRequest
  /\ journal = [waiting |-> {}, applied |-> {}] /\ latest = <<>> /\ job = NoJob
  /\ build = [id |-> 1, cards |-> NewDeck]
  /\ mirror = [rows |-> {}, cards |-> NewDeck] /\ upstream = mirror
  /\ demand = "none" /\ faults = 0
  /\ mishap = {} /\ late = {}

Meets(kind) == mishap' = mishap \cup {kind} /\ UNCHANGED late

FaultHappens == faults < MaxFaults /\ faults' = faults + 1

-----------------------------------------------------------------------------
(* Reviewing. *)

(* A half-written record at the end is written over. *)
Grid(s) == IF s # <<>> /\ ~Last(s).whole THEN Front(s) ELSE s

NewRecord(c) == [of |-> [card |-> c, at |-> clock], voided |-> FALSE, whole |-> TRUE]

(* What the bridge takes from a log: whole records that were not undone.   *)
Standing(s) == {e.of : e \in {x \in ToSet(s) : x.whole /\ ~x.voided}}

Reviewing == flow = Idle /\ cards # <<>> /\ clock <= MaxReviews

(* grade, persist: the card and then the log, which may be closed, and is  *)
(* not written before the clock is set. *)
Grade(c) == /\ Reviewing
            /\ cards' = [cards EXCEPT ![c] = clock]
            /\ \E written \in BOOLEAN :
                 /\ log' = IF written THEN Append(Grid(log), NewRecord(c)) ELSE log
                 /\ undo' = [of |-> c, before |-> cards[c], written |-> written]
            /\ clock' = clock + 1
            /\ UNCHANGED <<saved, flow, request, bridge, upstream, demand, faults, history>>

(* The record is struck out, not removed. *)
Undo == /\ flow = Idle /\ undo # NoUndo
        /\ cards' = [cards EXCEPT ![undo.of] = undo.before]
        /\ log' = IF undo.written THEN [log EXCEPT ![Len(log)].voided = TRUE] ELSE log
        /\ undo' = NoUndo
        /\ UNCHANGED <<saved, flow, clock, request, bridge, upstream, demand, faults, history>>

-----------------------------------------------------------------------------
(* The sync of the device. *)

(* Fault: the number of bytes alone.                                       *)
AckByLength == IF Len(saved.sent) <= Len(log) THEN Len(saved.sent) ELSE 0

(* buildPayloads: how much of this very log the bridge has acknowledged.   *)
Ack == IF IsPrefix(saved.sent, log) THEN Len(saved.sent) ELSE 0

Pair == /\ flow = Idle /\ ~saved.paired
        /\ saved' = [Unpaired EXCEPT !.paired = TRUE]
        /\ undo' = NoUndo
        /\ UNCHANGED <<log, cards, flow, clock, request, bridge, upstream, demand, faults, history>>

(* A post given up earlier is not heard any more once this one is sent.    *)
(* The deck is closed for it, and a deck opened again has nothing to undo. *)
Post == /\ flow = Idle /\ saved.paired /\ request.at # "ingested"
        /\ request' = [at |-> "sent", cards |-> cards,
                       reviews |-> Standing(SubSeq(log, Ack + 1, Len(log)))]
        /\ saved' = IF log = <<>> THEN [saved EXCEPT !.sent = <<>>] ELSE saved
        /\ flow' = [at |-> "posting"]
        /\ undo' = NoUndo
        /\ UNCHANGED <<log, cards, clock, bridge, upstream, demand, faults, history>>

TakeReply == /\ flow.at = "posting" /\ request.at = "answered"
             /\ flow' = [at |-> "saving"]
             /\ request' = NoRequest
             /\ UNCHANGED <<card, undo, clock, bridge, upstream, demand, faults, history>>

(* The token was revoked. *)
Refused == /\ flow.at = "posting" /\ request.at = "sent"
           /\ FaultHappens
           /\ saved' = Unpaired
           /\ flow' = Idle /\ request' = NoRequest
           /\ UNCHANGED <<log, cards, undo, clock, bridge, upstream, demand, history>>

(* setAck, setAckHash, saveBridgeState. *)
Acknowledged == [saved EXCEPT !.sent = log]

SaveAck == /\ flow.at = "saving"
           /\ saved' = Acknowledged
           /\ flow' = [at |-> "polling"]
           /\ UNCHANGED <<log, cards, undo, clock, request, bridge, upstream, demand, faults, history>>

(* The job is done, and the card does not hold the deck it built.          *)
PollDone == /\ flow.at = "polling" /\ job.at = "done"
            /\ flow' = IF cards # <<>> /\ saved.build = build.id THEN Idle
                       ELSE [at |-> "fetched", build |-> build]
            /\ UNCHANGED <<card, undo, clock, request, bridge, upstream, demand, faults, history>>

(* BACK, a lost request, an error, a deck file that did not arrive whole.  *)
Leave == /\ flow.at \in {"posting", "polling", "fetched"}
         /\ flow' = Idle
         /\ UNCHANGED <<card, undo, clock, request, bridge, upstream, demand, faults, history>>

(* applyManifests: the files take their names, then .bridge says so.       *)
Rename == /\ flow.at = "fetched"
          /\ cards' = flow.build.cards
          /\ flow' = [flow EXCEPT !.at = "renamed"]
          /\ UNCHANGED <<log, saved, undo, clock, request, bridge, upstream, demand, faults, history>>

Built == [saved EXCEPT !.build = flow.build.id]

SaveBuild == /\ flow.at = "renamed"
             /\ saved' = Built
             /\ flow' = Idle
             /\ UNCHANGED <<log, cards, undo, clock, request, bridge, upstream, demand, faults, history>>

-----------------------------------------------------------------------------
(* Power cuts.  A file is replaced by remove and rename: a cut in between  *)
(* leaves neither. *)
PowerCut ==
  /\ FaultHappens
  /\ saved' \in {saved} \cup CASE flow.at = "saving" -> {Unpaired, Acknowledged}
                               [] flow.at = "renamed" -> {Unpaired, Built}
                               [] OTHER -> {}
  /\ \/ UNCHANGED <<cards, history>>
     \/ flow.at = "fetched" /\ cards' = <<>> /\ Meets("cutRename")
  /\ undo' = NoUndo /\ flow' = Idle
  /\ UNCHANGED <<log, clock, request, bridge, upstream, demand>>

(* While a card is graded: its schedule is flushed before its record.      *)
CutWhileGrading(c) ==
  /\ Reviewing /\ FaultHappens
  /\ cards' = [cards EXCEPT ![c] = clock]
  /\ log' \in {log, Append(Grid(log), [NewRecord(c) EXCEPT !.whole = FALSE])}
  /\ clock' = clock + 1 /\ undo' = NoUndo
  /\ UNCHANGED <<saved, flow, request, bridge, upstream, demand, history>>

(* On a computer: the deck is deleted, or its log replaced by an older one.*)
CardChanged ==
  /\ flow = Idle /\ FaultHappens
  /\ \/ log' = <<>> /\ cards' = <<>>
     \/ \E n \in 0..(Len(log) - 1) : log' = SubSeq(log, 1, n) /\ UNCHANGED cards
  /\ undo' = NoUndo
  /\ UNCHANGED <<saved, flow, clock, request, bridge, upstream, demand, history>>

-----------------------------------------------------------------------------
(* The bridge: POST /api/sync, and the job beside it. *)

(* Fault: a job that failed still counts as under way.                     *)
InFlightForever == job.at \notin {"none", "done"}

InFlight == job.at \notin {"none", "done", "error", "frozen"}

Held == journal.waiting \cup journal.applied

Ingest == /\ request.at = "sent"
          /\ late' = IF InFlight THEN late \cup (request.reviews \ Held) ELSE late
          /\ journal' = [journal EXCEPT !.waiting = @ \cup (request.reviews \ Held)]
          /\ request' = [request EXCEPT !.at = "ingested"]
          /\ UNCHANGED <<device, latest, job, build, mirror, upstream, demand, faults, mishap>>

(* The cards are kept for the job, which may be one already under way.     *)
Accept == /\ request.at = "ingested"
          /\ latest' = request.cards
          /\ job' = IF InFlight THEN job ELSE [NoJob EXCEPT !.at = "queued"]
          /\ request' = [request EXCEPT !.at = "answered"]
          /\ UNCHANGED <<device, journal, build, mirror, upstream, demand, faults, history>>

JobStep(from, to) == job.at = from /\ job' = [job EXCEPT !.at = to]

Work == /\ job.at = "queued"
        /\ job' = [job EXCEPT !.at = "pull", !.cards = latest]
        /\ UNCHANGED <<device, request, journal, latest, build, mirror, upstream, demand, faults, history>>

(* sync_collection: what the mirror has gained goes up. *)
Exchange == /\ upstream' = [mirror EXCEPT !.rows = @ \cup upstream.rows]
            /\ mirror' = upstream'

Pull == /\ JobStep("pull", "apply")
        /\ demand = "none"
        /\ Exchange
        /\ UNCHANGED <<device, request, journal, latest, build, demand, faults, history>>

FullDownload == /\ JobStep("pull", "downloaded")
                /\ demand = "download" /\ demand' = "none"
                /\ mirror' = upstream
                /\ UNCHANGED <<device, request, journal, latest, build, upstream, faults, history>>

(* Fault: what was applied to the mirror that is gone counts as applied.   *)
ResetAppliedNot == journal

ResetApplied == [waiting |-> Held, applied |-> {}]

Reset == /\ JobStep("downloaded", "apply")
         /\ journal' = ResetApplied
         /\ UNCHANGED <<device, request, latest, build, mirror, upstream, demand, faults, history>>

Rows(r) == {x \in mirror.rows : x.of = r}

(* Fault: a review the collection has is added to it again.                *)
NewRowsAgain == {[of |-> r, copy |-> Cardinality(Rows(r)) + 1] : r \in {q \in journal.waiting : Cardinality(Rows(q)) < 2}}

(* deck_to_anki.apply skips what the collection has. *)
NewRows == {[of |-> r, copy |-> 1] : r \in {q \in journal.waiting : Rows(q) = {}}}

(* The cards of the new rows get the schedule the device posted.  A row    *)
(* whose id is taken is nudged to a free one; the model's clock never      *)
(* gives two reviews one time, so there is nothing to nudge.               *)
Apply ==
  LET touched == {x.of.card : x \in NewRows} IN
  /\ job.at = "apply"
  /\ job' = [at |-> IF journal.waiting = {} THEN "push" ELSE "mark",
             cards |-> <<>>, pending |-> journal.waiting]
  /\ mirror' = [rows |-> mirror.rows \cup NewRows,
                cards |-> [c \in Card |-> IF c \in touched \cap DOMAIN job.cards
                                          THEN job.cards[c] ELSE mirror.cards[c]]]
  /\ UNCHANGED <<device, request, journal, latest, build, upstream, demand, faults, history>>

Marked == [waiting |-> journal.waiting \ job.pending,
           applied |-> journal.applied \cup (journal.waiting \cap job.pending)]

MarkApplied == /\ job.at = "mark" /\ job' = [NoJob EXCEPT !.at = "push"]
               /\ journal' = Marked
               /\ UNCHANGED <<device, request, latest, build, mirror, upstream, demand, faults, history>>

Push == /\ JobStep("push", "clear")
        /\ demand = "none"
        /\ Exchange
        /\ UNCHANGED <<device, request, journal, latest, build, demand, faults, history>>

(* A full sync is demanded in between: the journal is kept. *)
PushRefused == /\ JobStep("push", "build")
               /\ demand = "download"
               /\ UNCHANGED <<device, request, journal, latest, build, mirror, upstream, demand, faults, history>>

ClearPushed == /\ JobStep("clear", "build")
               /\ journal' = [journal EXCEPT !.applied = {}]
               /\ UNCHANGED <<device, request, latest, build, mirror, upstream, demand, faults, history>>

BuildDeck == /\ JobStep("build", "done")
             /\ build' = IF mirror.cards = build.cards THEN build
                         ELSE [id |-> build.id + 1, cards |-> mirror.cards]
             /\ UNCHANGED <<device, request, journal, latest, mirror, upstream, demand, faults, history>>

(* AnkiWeb cannot be reached, also for the media that follow the push, or  *)
(* wants an upload, which is never given.                                  *)
JobFails == /\ \/ \E at \in {"pull", "push", "clear"} : JobStep(at, "error")
               \/ demand = "upload" /\ (JobStep("pull", "frozen") \/ JobStep("push", "frozen"))
            /\ UNCHANGED <<device, request, journal, latest, build, mirror, upstream, demand, faults, history>>

(* A restart forgets the job and the request being handled. *)
Restart == /\ FaultHappens
           /\ IF job.at = "downloaded" THEN Meets("cutDownload") ELSE UNCHANGED history
           /\ job' = NoJob
           /\ request' = IF request.at = "ingested" THEN NoRequest ELSE request
           /\ UNCHANGED <<device, journal, latest, build, mirror, upstream, demand>>

(* Somebody uses Anki. *)
Demanded == /\ FaultHappens
            /\ demand = "none" /\ demand' \in {"download", "upload"}
            /\ UNCHANGED <<device, request, bridge, upstream, history>>

Resolved == /\ demand = "upload" /\ demand' = "none"
            /\ UNCHANGED <<device, request, bridge, upstream, faults, history>>

-----------------------------------------------------------------------------
SyncFlow == TakeReply \/ SaveAck \/ PollDone \/ Leave \/ Rename \/ SaveBuild

JobRuns == Work \/ Reset \/ Apply \/ MarkApplied \/ ClearPushed \/ BuildDeck

Next ==
  \/ \E c \in Card : Grade(c) \/ CutWhileGrading(c)
  \/ Undo \/ Pair \/ Post \/ Refused \/ SyncFlow
  \/ PowerCut \/ CardChanged
  \/ Ingest \/ Accept \/ JobRuns \/ Pull \/ FullDownload \/ Push \/ PushRefused \/ JobFails
  \/ Restart \/ Demanded \/ Resolved

Spec == Init /\ [][Next]_vars

(* SYNC is pressed again and again; not every post is lost; the bridge     *)
(* does its work; and AnkiWeb can be reached now and then.                 *)
Fairness ==
  /\ WF_vars(Pair) /\ WF_vars(Post) /\ WF_vars(SyncFlow)
  /\ SF_vars(Ingest) /\ WF_vars(Accept) /\ WF_vars(JobRuns)
  /\ SF_vars(Pull) /\ SF_vars(FullDownload) /\ SF_vars(Push) /\ WF_vars(PushRefused)

LiveSpec == Spec /\ Fairness

-----------------------------------------------------------------------------
(* Properties. *)
InAnki == {x.of : x \in upstream.rows}

TypeOK ==
  /\ log \in Seq(Record) /\ cards \in Cards /\ saved \in Saved
  /\ mirror \in Collection /\ upstream \in Collection
  /\ journal \in [waiting : SUBSET Review, applied : SUBSET Review]

(* What the device will not send again is in the journal or in Anki.       *)
(* (engine.py: "The journal drops reviews only after the SECOND sync (the  *)
(* push) came back clean. A crash anywhere re-runs as a safe retry.")      *)
SafeRetry == Standing(SubSeq(log, 1, Ack)) \subseteq Held \cup InAnki

(* That is so where the bridge does not stop right after a full download.  *)
NothingLost == "cutDownload" \notin mishap => SafeRetry

(* Anki gets each review once, and none that was taken back.  (journal.py: *)
(* "a retried POST or re-posted tail can never double-apply")              *)
OnceAndMeant ==
  /\ \A x \in upstream.rows : x.copy = 1
  /\ \A e \in ToSet(log) : e.voided => e.of \notin InAnki \cup Held

(* A deck that comes back from the bridge does not undo the reviews in the *)
(* log, whatever posts and jobs came between.  Left out are the reviews    *)
(* that reached the bridge while a job was under way, which may get to     *)
(* Anki with the schedule posted before them, a deck without its cards,    *)
(* and the bridge that stops right after a full download.                  *)
DeckKeepsReviews ==
  (mishap = {} /\ cards # <<>>) => \A r \in Standing(log) \ late : cards[r.card] >= r.at

(* Who keeps pressing SYNC gets every review into Anki: again and again    *)
(* there is none that is only on the card.                                 *)
ReachesAnki ==
  []<>(Standing(log) \subseteq InAnki \/ demand = "upload" \/ "cutDownload" \in mishap)
=============================================================================
