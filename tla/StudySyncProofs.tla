-------------------------- MODULE StudySyncProofs --------------------------
(***************************************************************************)
(* Reviews on their way to Anki, for any number of cards, reviews and      *)
(* mishaps: what the device will not send again is in the journal or in    *)
(* Anki, Anki gets nothing twice and nothing that was taken back, and a    *)
(* deck that comes back is not older than the reviews on the device.       *)
(***************************************************************************)
EXTENDS StudySync, SequenceTheorems, TLAPS

-----------------------------------------------------------------------------
(* Types. *)

DeckCards == [Card -> 0..MaxReviews]
BuiltDeck == [id : Nat, cards : DeckCards]

DeviceType ==
  /\ log \in Seq(Record) /\ cards \in Cards /\ saved \in Saved
  /\ clock \in 1..(MaxReviews + 1)
  /\ undo = NoUndo \/ undo \in [of : Card, before : 0..MaxReviews, written : BOOLEAN]
  /\ flow.at \in {"idle", "posting", "saving", "polling", "fetched", "renamed"}
  /\ flow.at \in {"fetched", "renamed"} => flow \in [at : {"fetched", "renamed"}, build : BuiltDeck]

RequestType ==
  /\ request.at \in {"none", "sent", "ingested", "answered"}
  /\ request.at # "none" => request \in [at : {"sent", "ingested", "answered"}, cards : Cards,
                                         reviews : SUBSET Review]

BridgeType ==
  /\ journal \in [waiting : SUBSET Review, applied : SUBSET Review]
  /\ latest \in Cards /\ build \in BuiltDeck
  /\ job \in [at : {"none", "queued", "pull", "downloaded", "apply", "mark", "push", "clear", "build",
                    "done", "error", "frozen"},
              cards : Cards, pending : SUBSET Review]
  /\ mirror \in Collection /\ upstream \in Collection

Types == DeviceType /\ RequestType /\ BridgeType

-----------------------------------------------------------------------------
(* The journal. *)

InMirror == {x.of : x \in mirror.rows}

Safe == Held \cup InAnki

(* What counts as acknowledged is safe; so is what a post has brought in,  *)
(* from the moment the bridge has taken it.                                *)
SentInv ==
  /\ Standing(saved.sent) \subseteq Safe
  /\ flow.at = "posting" /\ request.at = "sent" => Standing(log) \subseteq Safe \cup request.reviews
  /\ flow.at = "posting" /\ request.at \in {"ingested", "answered"} => Standing(log) \subseteq Safe
  /\ flow.at \in {"saving", "polling"} => Standing(log) \subseteq Safe

(* What is marked applied is in the mirror, except between a full download *)
(* and the reset that follows it; what is dropped is in Anki.              *)
AppliedInv ==
  /\ job.at # "downloaded" => journal.applied \subseteq InMirror
  /\ job.at = "mark" => job.pending \subseteq InMirror
  /\ job.at = "clear" => journal.applied \subseteq InAnki

JournalInv == "cutDownload" \notin mishap => SentInv /\ AppliedInv

-----------------------------------------------------------------------------
(* What was taken back. *)

Asked == IF request.at = "none" THEN {} ELSE request.reviews

(* Every review that has left the card. *)
Gone == InAnki \cup InMirror \cup Held \cup Asked

(* Reviews have times of their own, and none has left the card that was    *)
(* struck out or that UNDO would still take back.                          *)
VoidInv ==
  /\ \A i \in DOMAIN log : log[i].of.at < clock
  /\ \A r \in Gone : r.at < clock
  /\ \A i, j \in DOMAIN log : log[i].of = log[j].of => i = j
  /\ \A i \in DOMAIN log : log[i].voided => log[i].of \notin Gone
  /\ undo # NoUndo /\ undo.written => log # <<>> /\ log[Len(log)].of \notin Gone

CopyInv == \A x \in mirror.rows \cup upstream.rows : x.copy = 1

OnceInv == VoidInv /\ CopyInv

-----------------------------------------------------------------------------
(* The way of the schedules. *)

(* A set of cards accounts for reviews. *)
Covers(cs, reviews) == \A r \in reviews : r.card \in DOMAIN cs /\ cs[r.card] >= r.at

Standings == Standing(log)

(* What did not reach the bridge while a job was under way.                *)
OnTime == Standings \ late

(* Every review the bridge has. *)
Arrived == InAnki \cup InMirror \cup Held

(* The device expects the deck of the job that its post began.             *)
Awaited == flow.at \in {"saving", "polling"} \/ (flow.at = "posting" /\ request.at = "answered")

CardInv ==
  /\ Covers(cards, OnTime)
  /\ undo # NoUndo =>
       \A r \in OnTime : (r.card = undo.of /\ (undo.written => r # log[Len(log)].of))
                            => undo.before >= r.at

(* What was posted accounts for all reviews that have left the card, up to *)
(* the moment the job has put them into the mirror.                        *)
PostedInv ==
  /\ request.at \in {"sent", "ingested"} => Covers(request.cards, OnTime \cap Gone)
  /\ job.at = "queued" => Covers(latest, OnTime \cap Arrived)
  /\ job.at \in {"pull", "downloaded", "apply"} => Covers(job.cards, OnTime \cap Arrived)

MirrorInv ==
  /\ InAnki \subseteq InMirror
  /\ Covers(mirror.cards, OnTime \cap InMirror)
  /\ Covers(upstream.cards, OnTime \cap InAnki)
  /\ job.at \in {"mark", "push", "clear", "build"} => Held \ late \subseteq InMirror

DeckInv ==
  /\ job.at = "done" /\ Awaited => Covers(build.cards, OnTime)
  /\ flow.at = "fetched" => Covers(flow.build.cards, OnTime)

ScheduleInv == mishap = {} => CardInv /\ PostedInv /\ MirrorInv /\ DeckInv

-----------------------------------------------------------------------------
(* What stands in a log. *)

LEMMA StandingIs ==
  ASSUME NEW s
  PROVE  \A r : r \in Standing(s)
                  <=> \E i \in DOMAIN s : s[i].whole /\ ~s[i].voided /\ s[i].of = r
BY DEF Standing, ToSet

LEMMA NoneStand == Standing(<<>>) = {}
BY StandingIs

LEMMA TypedStand == \A s \in Seq(Record) : Standing(s) \subseteq Review
<1> SUFFICES ASSUME NEW s \in Seq(Record), NEW r \in Standing(s) PROVE r \in Review
  OBVIOUS
<1>1. PICK i \in DOMAIN s : s[i].of = r
  BY StandingIs
<1>2. s[i] \in Record
  OBVIOUS
<1> QED
  BY <1>1, <1>2 DEF Record

(* A log is what comes first and what comes after. *)
LEMMA StandingSplit ==
  ASSUME NEW s \in Seq(Record), NEW n \in 0..Len(s)
  PROVE  /\ SubSeq(s, 1, n) \in Seq(Record) /\ SubSeq(s, n + 1, Len(s)) \in Seq(Record)
         /\ Standing(s) = Standing(SubSeq(s, 1, n)) \cup Standing(SubSeq(s, n + 1, Len(s)))
<1> DEFINE a == SubSeq(s, 1, n)
           b == SubSeq(s, n + 1, Len(s))
<1>1. Len(s) \in Nat /\ n \in Nat /\ n <= Len(s) /\ 1 \in Int /\ n \in Int /\ n + 1 \in Int /\ Len(s) \in Int
      /\ DOMAIN s = 1..Len(s)
  OBVIOUS
<1>2. /\ \A i \in 1..n : s[i] \in Record
      /\ \A i \in (n + 1)..Len(s) : s[i] \in Record
  BY <1>1
<1>3. /\ a \in Seq(Record) /\ Len(a) = IF 1 <= n THEN n - 1 + 1 ELSE 0
      /\ \A i \in 1..(n - 1 + 1) : a[i] = s[1 + i - 1]
  BY <1>1, <1>2, SubSeqProperties
<1>4. /\ b \in Seq(Record) /\ Len(b) = IF n + 1 <= Len(s) THEN Len(s) - (n + 1) + 1 ELSE 0
      /\ \A i \in 1..(Len(s) - (n + 1) + 1) : b[i] = s[n + 1 + i - 1]
  BY <1>1, <1>2, SubSeqProperties
<1>5. /\ DOMAIN a = 1..n /\ \A i \in 1..n : a[i] = s[i]
  BY <1>1, <1>3
<1>6. /\ DOMAIN b = 1..(Len(s) - n) /\ \A i \in 1..(Len(s) - n) : b[i] = s[n + i]
  BY <1>1, <1>4
<1> HIDE DEF a, b
<1>7. ASSUME NEW r
      PROVE  r \in Standing(s) <=> r \in Standing(a) \/ r \in Standing(b)
  <2>1. ASSUME r \in Standing(s) PROVE r \in Standing(a) \/ r \in Standing(b)
    <3>1. PICK i \in 1..Len(s) : s[i].whole /\ ~s[i].voided /\ s[i].of = r
      BY <1>1, <2>1, StandingIs
    <3>2. CASE i \in 1..n
      BY <1>5, <3>1, <3>2, StandingIs
    <3>3. CASE i \notin 1..n
      <4>1. i - n \in 1..(Len(s) - n) /\ n + (i - n) = i
        BY <1>1, <3>3
      <4>2. b[i - n] = s[i]
        BY <1>6, <4>1
      <4> QED
        BY <1>6, <3>1, <4>1, <4>2, StandingIs
    <3> QED
      BY <3>2, <3>3
  <2>2. ASSUME r \in Standing(a) PROVE r \in Standing(s)
    <3>1. PICK i \in 1..n : a[i].whole /\ ~a[i].voided /\ a[i].of = r
      BY <1>5, <2>2, StandingIs
    <3>2. i \in 1..Len(s) /\ a[i] = s[i]
      BY <1>1, <1>5
    <3> QED
      BY <1>1, <3>1, <3>2, StandingIs
  <2>3. ASSUME r \in Standing(b) PROVE r \in Standing(s)
    <3>1. PICK i \in 1..(Len(s) - n) : b[i].whole /\ ~b[i].voided /\ b[i].of = r
      BY <1>6, <2>3, StandingIs
    <3>2. n + i \in 1..Len(s) /\ b[i] = s[n + i]
      BY <1>1, <1>6
    <3> QED
      BY <1>1, <3>1, <3>2, StandingIs
  <2> QED
    BY <2>1, <2>2, <2>3
<1> QED
  BY <1>3, <1>4, <1>7 DEF a, b

(* What is acknowledged is what has been sent of this very log, or nothing.*)
LEMMA AckIs ==
  ASSUME DeviceType
  PROVE  /\ Ack \in 0..Len(log)
         /\ Standing(SubSeq(log, 1, Ack)) \subseteq Standing(saved.sent)
<1>0. log \in Seq(Record) /\ saved.sent \in Seq(Record)
  BY DEF DeviceType, Saved
<1>1. CASE IsPrefix(saved.sent, log)
  <2>1. Ack = Len(saved.sent) /\ Len(saved.sent) <= Len(log)
        /\ SubSeq(saved.sent, 1, Len(saved.sent)) = SubSeq(log, 1, Len(saved.sent))
    BY <1>1 DEF Ack, IsPrefix
  <2>2. Len(saved.sent) \in 0..Len(saved.sent) /\ Ack \in 0..Len(log)
    BY <1>0, <2>1
  <2>3. Standing(SubSeq(saved.sent, 1, Len(saved.sent))) \subseteq Standing(saved.sent)
    BY <1>0, <2>2, StandingSplit
  <2> QED
    BY <2>1, <2>2, <2>3
<1>2. CASE ~IsPrefix(saved.sent, log)
  <2>1. Ack = 0 /\ 0 \in 0..Len(log)
    BY <1>0, <1>2 DEF Ack
  <2>2. SubSeq(log, 1, 0) = <<>>
    BY <1>0
  <2> QED
    BY <2>1, <2>2, NoneStand
<1> QED
  BY <1>1, <1>2

-----------------------------------------------------------------------------
(* Types, action by action. *)

LEMMA GridIs ==
  ASSUME NEW s \in Seq(Record)
  PROVE  /\ Grid(s) \in Seq(Record) /\ Len(Grid(s)) \in 0..Len(s)
         /\ \A i \in 1..Len(Grid(s)) : Grid(s)[i] = s[i]
         /\ Standing(Grid(s)) = Standing(s)
<1>1. CASE s # <<>> /\ ~Last(s).whole
  <2> DEFINE n == Len(s)
             g == SubSeq(s, 1, n - 1)
  <2>1. n \in Nat /\ n # 0 /\ DOMAIN s = 1..n /\ ~s[n].whole
    BY <1>1, EmptySeq DEF Last
  <2>2. Grid(s) = g
    BY <1>1 DEF Grid, Front
  <2>3. 1 \in Int /\ n - 1 \in Int /\ \A i \in 1..(n - 1) : s[i] \in Record
    BY <2>1
  <2>4. /\ g \in Seq(Record) /\ Len(g) = IF 1 <= n - 1 THEN n - 1 - 1 + 1 ELSE 0
        /\ \A i \in 1..(n - 1 - 1 + 1) : g[i] = s[1 + i - 1]
    BY <2>3, SubSeqProperties
  <2> HIDE DEF n, g
  <2>5. Len(g) = n - 1 /\ \A i \in 1..(n - 1) : g[i] = s[i]
    BY <2>1, <2>4
  <2>6. DOMAIN g = 1..(n - 1)
    BY <2>4, <2>5
  <2>7. ASSUME NEW r PROVE r \in Standing(g) <=> r \in Standing(s)
    <3>1. ASSUME r \in Standing(s) PROVE r \in Standing(g)
      <4>1. PICK i \in 1..n : s[i].whole /\ ~s[i].voided /\ s[i].of = r
        BY <2>1, <3>1, StandingIs
      <4>2. i \in 1..(n - 1)
        BY <2>1, <4>1
      <4> QED
        BY <2>5, <2>6, <4>1, <4>2, StandingIs
    <3>2. ASSUME r \in Standing(g) PROVE r \in Standing(s)
      <4>1. PICK i \in DOMAIN g : g[i].whole /\ ~g[i].voided /\ g[i].of = r
        BY <3>2, StandingIs
      <4>2. i \in 1..n /\ g[i] = s[i]
        BY <2>1, <2>5, <2>6
      <4> QED
        BY <2>1, <4>1, <4>2, StandingIs
    <3> QED
      BY <3>1, <3>2
  <2>8. n - 1 \in 0..n
    BY <2>1
  <2> QED
    BY <2>2, <2>4, <2>5, <2>7, <2>8 DEF n
<1>2. CASE ~(s # <<>> /\ ~Last(s).whole)
  BY <1>2 DEF Grid
<1> QED
  BY <1>1, <1>2

LEMMA InitTypes == Init => Types
<1> SUFFICES ASSUME Init PROVE Types
  OBVIOUS
<1> USE BoundsAssumption
<1>1. NewDeck \in DeckCards /\ DeckCards \subseteq Cards /\ <<>> \in Cards
  BY DEF NewDeck, DeckCards, Cards
<1>2. saved \in Saved
  <2>1. <<>> \in Seq(Record)
    BY EmptySeq
  <2>2. Unpaired \in Saved /\ [paired |-> TRUE, sent |-> <<>>, build |-> 1] \in Saved
    BY <2>1 DEF Saved, Unpaired
  <2> QED
    BY <2>2 DEF Init
<1>3. DeviceType
  BY <1>1, <1>2 DEF Init, DeviceType, Idle
<1>4. RequestType
  BY DEF Init, RequestType, NoRequest
<1>5. mirror \in Collection /\ upstream \in Collection
  BY <1>1 DEF Init, Collection, DeckCards
<1>6. BridgeType
  BY <1>1, <1>5 DEF Init, BridgeType, NoJob, BuiltDeck
<1> QED
  BY <1>3, <1>4, <1>6 DEF Types

(* On the device. *)
LEMMA GradeTypes ==
  ASSUME Types, NEW c \in Card, Grade(c) \/ CutWhileGrading(c)
  PROVE  Types'
<1> USE BoundsAssumption
<1>1. /\ clock \in 1..MaxReviews /\ clock' \in 1..(MaxReviews + 1)
      /\ cards \in DeckCards /\ cards[c] \in 0..MaxReviews
      /\ cards' \in DeckCards /\ DeckCards \subseteq Cards
  <2>1. clock \in 1..(MaxReviews + 1) /\ clock <= MaxReviews /\ clock' = clock + 1
        /\ cards # <<>> /\ cards \in Cards /\ cards' = [cards EXCEPT ![c] = clock]
    BY DEF Grade, CutWhileGrading, Reviewing, Types, DeviceType
  <2>2. clock \in 1..MaxReviews /\ clock' \in 1..(MaxReviews + 1)
    BY <2>1
  <2>3. cards \in DeckCards /\ DeckCards \subseteq Cards
    BY <2>1 DEF Cards, DeckCards
  <2>4. cards[c] \in 0..MaxReviews /\ cards' \in DeckCards
    BY <2>1, <2>2, <2>3 DEF DeckCards
  <2> QED
    BY <2>2, <2>3, <2>4
<1>2. /\ NewRecord(c) \in Record
      /\ [NewRecord(c) EXCEPT !.whole = FALSE] \in Record
  BY <1>1 DEF NewRecord, Record, Review
<1>3. /\ Append(Grid(log), NewRecord(c)) \in Seq(Record)
      /\ Append(Grid(log), [NewRecord(c) EXCEPT !.whole = FALSE]) \in Seq(Record)
      /\ log \in Seq(Record)
  BY <1>2, GridIs DEF Types, DeviceType
<1>4. log' \in Seq(Record)
  BY <1>3 DEF Grade, CutWhileGrading
<1>5. undo' = NoUndo \/ undo' \in [of : Card, before : 0..MaxReviews, written : BOOLEAN]
  BY <1>1 DEF Grade, CutWhileGrading
<1>6. UNCHANGED <<saved, flow, request, bridge, upstream>>
  BY DEF Grade, CutWhileGrading
<1>7. DeviceType'
  BY <1>1, <1>4, <1>5, <1>6 DEF Types, DeviceType
<1> QED
  BY <1>6, <1>7 DEF Types, RequestType, BridgeType, bridge

LEMMA UndoTypes == Types /\ Undo => Types'
<1> SUFFICES ASSUME Types, Undo PROVE Types'
  OBVIOUS
<1>1. undo \in [of : Card, before : 0..MaxReviews, written : BOOLEAN] /\ log \in Seq(Record)
  BY DEF Undo, Types, DeviceType
<1>2. cards' \in Cards
  <2>1. cards' = [cards EXCEPT ![undo.of] = undo.before]
    BY DEF Undo
  <2>2. CASE cards \in DeckCards
    BY <1>1, <2>1, <2>2 DEF DeckCards, Cards
  <2>3. CASE cards = <<>>
    BY <2>1, <2>3 DEF Cards
  <2> QED
    BY <2>2, <2>3 DEF Types, DeviceType, Cards, DeckCards
<1>3. log' \in Seq(Record)
  <2>1. CASE log' = log
    BY <1>1, <2>1
  <2>2. CASE log' = [log EXCEPT ![Len(log)].voided = TRUE]
    <3>1. CASE log = <<>>
      <4>1. log' = <<>>
        BY <1>1, <2>2, <3>1
      <4> QED
        BY <4>1
    <3>2. CASE log # <<>>
      <4>1. Len(log) \in 1..Len(log) /\ log[Len(log)] \in Record
        BY <1>1, <3>2, EmptySeq
      <4>2. [log[Len(log)] EXCEPT !.voided = TRUE] \in Record
        BY <4>1 DEF Record
      <4>3. log' = [log EXCEPT ![Len(log)] = [log[Len(log)] EXCEPT !.voided = TRUE]]
        BY <1>1, <2>2
      <4> QED
        BY <1>1, <4>1, <4>2, <4>3, ExceptSeq
    <3> QED
      BY <3>1, <3>2
  <2> QED
    BY <2>1, <2>2 DEF Undo
<1>4. UNCHANGED <<saved, flow, clock, request, bridge, upstream>> /\ undo' = NoUndo
  BY DEF Undo
<1>5. DeviceType'
  BY <1>2, <1>3, <1>4 DEF Types, DeviceType
<1> QED
  BY <1>4, <1>5 DEF Types, RequestType, BridgeType, bridge

LEMMA SavedTypes ==
  ASSUME DeviceType
  PROVE  /\ Unpaired \in Saved /\ [Unpaired EXCEPT !.paired = TRUE] \in Saved
         /\ [saved EXCEPT !.sent = <<>>] \in Saved /\ Acknowledged \in Saved
         /\ flow.at = "renamed" => Built \in Saved
         /\ Unpaired.sent = <<>> /\ [Unpaired EXCEPT !.paired = TRUE].sent = <<>>
         /\ [saved EXCEPT !.sent = <<>>].sent = <<>> /\ Acknowledged.sent = log
         /\ Built.sent = saved.sent
<1>1. <<>> \in Seq(Record)
  BY EmptySeq
<1>2. saved \in [paired : BOOLEAN, sent : Seq(Record), build : Nat] /\ log \in Seq(Record)
  BY DEF DeviceType, Saved
<1>3. /\ Unpaired \in Saved /\ [Unpaired EXCEPT !.paired = TRUE] \in Saved
      /\ Unpaired.sent = <<>> /\ [Unpaired EXCEPT !.paired = TRUE].sent = <<>>
  BY <1>1 DEF Saved, Unpaired
<1>4. /\ [saved EXCEPT !.sent = <<>>] \in Saved /\ Acknowledged \in Saved
      /\ [saved EXCEPT !.sent = <<>>].sent = <<>> /\ Acknowledged.sent = log
  BY <1>1, <1>2 DEF Saved, Acknowledged
<1>5. Built.sent = saved.sent /\ (flow.at = "renamed" => Built \in Saved)
  BY <1>2 DEF Saved, Built, DeviceType, BuiltDeck
<1> QED
  BY <1>3, <1>4, <1>5

LEMMA FlowTypes == Types /\ (Pair \/ Post \/ Refused \/ SyncFlow) => Types'
<1> SUFFICES ASSUME Types, Pair \/ Post \/ Refused \/ SyncFlow PROVE Types'
  OBVIOUS
<1>0. DeviceType /\ RequestType /\ BridgeType
  BY DEF Types
<1>1. CASE Pair
  BY <1>0, <1>1, SavedTypes DEF Pair, Types, DeviceType, RequestType, BridgeType, bridge
<1>2. CASE Post
  <2>1. Standing(SubSeq(log, Ack + 1, Len(log))) \subseteq Review
    BY <1>0, AckIs, StandingSplit, TypedStand DEF DeviceType
  <2>2. RequestType'
    BY <1>0, <1>2, <2>1 DEF Post, RequestType, DeviceType
  <2>3. saved' \in Saved
    BY <1>0, <1>2, SavedTypes DEF Post, DeviceType
  <2>4. DeviceType'
    BY <1>0, <1>2, <2>3 DEF Post, DeviceType
  <2> QED
    BY <1>0, <1>2, <2>2, <2>4 DEF Post, Types, BridgeType, bridge
<1>3. CASE Refused
  BY <1>0, <1>3, SavedTypes
     DEF Refused, Types, DeviceType, RequestType, BridgeType, bridge, Idle, NoRequest
<1>4. CASE TakeReply
  BY <1>0, <1>4 DEF TakeReply, Types, DeviceType, RequestType, BridgeType, bridge, card, NoRequest
<1>5. CASE SaveAck
  BY <1>0, <1>5, SavedTypes DEF SaveAck, Types, DeviceType, RequestType, BridgeType, bridge
<1>6. CASE PollDone
  <2>1. \/ flow' = [at |-> "idle"]
        \/ flow' = [at |-> "fetched", build |-> build]
    BY <1>6 DEF PollDone, Idle
  <2>2. build \in BuiltDeck
    BY <1>0 DEF BridgeType
  <2>3. DeviceType'
    BY <1>0, <1>6, <2>1, <2>2 DEF PollDone, DeviceType, card
  <2> QED
    BY <1>0, <1>6, <2>3 DEF PollDone, Types, RequestType, BridgeType, bridge
<1>7. CASE Leave
  BY <1>0, <1>7 DEF Leave, Types, DeviceType, RequestType, BridgeType, bridge, card, Idle
<1>8. CASE Rename
  <2>1. flow \in [at : {"fetched", "renamed"}, build : BuiltDeck]
    BY <1>0, <1>8 DEF Rename, DeviceType
  <2>2. cards' \in Cards
    BY <1>8, <2>1 DEF Rename, BuiltDeck, DeckCards, Cards
  <2>3. flow' \in [at : {"fetched", "renamed"}, build : BuiltDeck]
    BY <1>8, <2>1 DEF Rename
  <2> QED
    BY <1>0, <1>8, <2>2, <2>3 DEF Rename, Types, DeviceType, RequestType, BridgeType, bridge
<1>9. CASE SaveBuild
  BY <1>0, <1>9, SavedTypes DEF SaveBuild, Types, DeviceType, RequestType, BridgeType, bridge, Idle
<1> QED
  BY <1>1, <1>2, <1>3, <1>4, <1>5, <1>6, <1>7, <1>8, <1>9 DEF SyncFlow

LEMMA CutTypes == Types /\ (PowerCut \/ CardChanged) => Types'
<1> SUFFICES ASSUME Types, PowerCut \/ CardChanged PROVE Types'
  OBVIOUS
<1>0. DeviceType /\ RequestType /\ BridgeType
  BY DEF Types
<1>1. CASE PowerCut
  <2>1. saved' \in Saved
    BY <1>0, <1>1, SavedTypes DEF PowerCut, DeviceType
  <2>2. cards' \in Cards
    BY <1>0, <1>1 DEF PowerCut, DeviceType, Cards
  <2>3. DeviceType'
    BY <1>0, <1>1, <2>1, <2>2 DEF PowerCut, DeviceType, Idle
  <2> QED
    BY <1>0, <1>1, <2>3 DEF PowerCut, Types, RequestType, BridgeType, bridge
<1>2. CASE CardChanged
  <2>1. log' \in Seq(Record) /\ cards' \in Cards
    <3>1. CASE log' = <<>> /\ cards' = <<>>
      BY <3>1, EmptySeq DEF Cards
    <3>2. CASE \E n \in 0..(Len(log) - 1) : log' = SubSeq(log, 1, n) /\ UNCHANGED cards
      <4>1. PICK n \in 0..(Len(log) - 1) : log' = SubSeq(log, 1, n) /\ UNCHANGED cards
        BY <3>2
      <4>2. n \in 0..Len(log) /\ log \in Seq(Record)
        BY <1>0 DEF DeviceType
      <4> QED
        BY <1>0, <4>1, <4>2, StandingSplit DEF DeviceType
    <3> QED
      BY <1>2, <3>1, <3>2 DEF CardChanged
  <2> QED
    BY <1>0, <1>2, <2>1 DEF CardChanged, Types, DeviceType, RequestType, BridgeType, bridge
<1> QED
  BY <1>1, <1>2

(* On the bridge. *)
LEMMA MirrorTypes ==
  ASSUME BridgeType
  PROVE  /\ [mirror EXCEPT !.rows = @ \cup upstream.rows] \in Collection
         /\ NewRows \subseteq [of : Review, copy : {1, 2}]
BY DEF BridgeType, Collection, NewRows

LEMMA BridgeTypes ==
  ASSUME Types, \/ Ingest \/ Accept \/ JobRuns \/ Pull \/ FullDownload \/ Push \/ PushRefused
                \/ JobFails \/ Restart \/ Demanded \/ Resolved
  PROVE  Types'
<1>0. DeviceType /\ RequestType /\ BridgeType
  BY DEF Types
<1>1. CASE Ingest
  <2>1. RequestType' /\ request.reviews \subseteq Review
    BY <1>0, <1>1 DEF Ingest, RequestType
  <2>2. BridgeType'
    BY <1>0, <1>1, <2>1 DEF Ingest, BridgeType
  <2> QED
    BY <1>0, <1>1, <2>1, <2>2 DEF Ingest, Types, DeviceType, device, card
<1>2. CASE Accept
  <2>1. RequestType' /\ request.cards \in Cards
    BY <1>0, <1>2 DEF Accept, RequestType
  <2>2. BridgeType'
    BY <1>0, <1>2, <2>1 DEF Accept, BridgeType, NoJob, Cards
  <2> QED
    BY <1>0, <1>2, <2>1, <2>2 DEF Accept, Types, DeviceType, device, card
<1>3. CASE Apply
  <2>1. mirror' \in Collection
    <3> DEFINE touched == {x.of.card : x \in NewRows}
               newCards == [c \in Card |-> IF c \in touched \cap DOMAIN job.cards
                                           THEN job.cards[c] ELSE mirror.cards[c]]
    <3>1. newCards \in [Card -> 0..MaxReviews]
      <4>1. \A c \in Card \cap DOMAIN job.cards : job.cards[c] \in 0..MaxReviews
        BY <1>0 DEF BridgeType, Cards
      <4>2. \A c \in Card : mirror.cards[c] \in 0..MaxReviews
        BY <1>0 DEF BridgeType, Collection
      <4> QED
        BY <4>1, <4>2
    <3>2. mirror' = [rows |-> mirror.rows \cup NewRows, cards |-> newCards]
      BY <1>3 DEF Apply
    <3> HIDE DEF newCards
    <3>3. mirror.rows \cup NewRows \in SUBSET [of : Review, copy : {1, 2}]
      BY <1>0, MirrorTypes DEF BridgeType, Collection
    <3> QED
      BY <3>1, <3>2, <3>3 DEF Collection
  <2>2. BridgeType'
    BY <1>0, <1>3, <2>1 DEF Apply, BridgeType, Cards
  <2> QED
    BY <1>0, <1>3, <2>2 DEF Apply, Types, DeviceType, RequestType, device, card
<1>4. CASE Work
  BY <1>0, <1>4 DEF Work, Types, DeviceType, RequestType, BridgeType, device, card
<1>5. CASE Reset
  BY <1>0, <1>5
     DEF Reset, ResetApplied, Held, JobStep, Types, DeviceType, RequestType, BridgeType, device, card
<1>6. CASE MarkApplied
  BY <1>0, <1>6
     DEF MarkApplied, Marked, NoJob, Cards, Types, DeviceType, RequestType, BridgeType, device, card
<1>7. CASE ClearPushed
  BY <1>0, <1>7 DEF ClearPushed, JobStep, Types, DeviceType, RequestType, BridgeType, device, card
<1>8. CASE BuildDeck
  <2>1. build' \in BuiltDeck
    <3>1. mirror.cards \in DeckCards
      BY <1>0 DEF BridgeType, Collection, DeckCards
    <3> QED
      BY <1>0, <1>8, <3>1 DEF BuildDeck, BridgeType, BuiltDeck
  <2> QED
    BY <1>0, <1>8, <2>1 DEF BuildDeck, JobStep, Types, DeviceType, RequestType, BridgeType, device, card
<1>9. CASE Pull \/ Push
  <2>1. mirror' \in Collection /\ upstream' \in Collection
    BY <1>0, <1>9, MirrorTypes DEF Pull, Push, Exchange
  <2> QED
    BY <1>0, <1>9, <2>1 DEF Pull, Push, JobStep, Types, DeviceType, RequestType, BridgeType, device, card
<1>10. CASE FullDownload
  BY <1>0, <1>10 DEF FullDownload, JobStep, Types, DeviceType, RequestType, BridgeType, device, card
<1>11. CASE PushRefused \/ JobFails
  BY <1>0, <1>11
     DEF PushRefused, JobFails, JobStep, Types, DeviceType, RequestType, BridgeType, device, card
<1>12. CASE Restart
  <2>1. RequestType'
    BY <1>0, <1>12 DEF Restart, RequestType, NoRequest
  <2> QED
    BY <1>0, <1>12, <2>1 DEF Restart, NoJob, Cards, Types, DeviceType, BridgeType, device, card
<1>13. CASE Demanded \/ Resolved
  BY <1>0, <1>13 DEF Demanded, Resolved, Types, DeviceType, RequestType, BridgeType, device, card, bridge
<1> QED
  BY <1>1, <1>2, <1>3, <1>4, <1>5, <1>6, <1>7, <1>8, <1>9, <1>10, <1>11, <1>12, <1>13 DEF JobRuns

LEMMA NextTypes == Types /\ [Next]_vars => Types'
<1> SUFFICES ASSUME Types, [Next]_vars PROVE Types'
  OBVIOUS
<1>1. CASE UNCHANGED vars
  BY <1>1 DEF vars, device, card, bridge, Types, DeviceType, RequestType, BridgeType
<1> QED
  BY <1>1, GradeTypes, UndoTypes, FlowTypes, CutTypes, BridgeTypes DEF Next

-----------------------------------------------------------------------------
(* The journal argument. *)

LEMMA InitJournal == Init => JournalInv
<1> SUFFICES ASSUME Init PROVE SentInv /\ AppliedInv
  BY DEF JournalInv
<1>1. saved.sent = <<>>
  BY DEF Init, Unpaired
<1>2. SentInv
  BY <1>1, NoneStand DEF Init, SentInv, Idle
<1>3. AppliedInv
  BY DEF Init, AppliedInv, NoJob
<1> QED
  BY <1>2, <1>3

(* Rows go up and down together. *)
LEMMA ExchangeIs ==
  ASSUME Types, Exchange
  PROVE  /\ mirror' = upstream' /\ mirror'.rows = mirror.rows \cup upstream.rows
         /\ mirror'.cards = mirror.cards
         /\ InMirror' = InMirror \cup InAnki /\ InAnki' = InMirror \cup InAnki
<1>1. mirror \in [rows : SUBSET [of : Review, copy : {1, 2}], cards : [Card -> 0..MaxReviews]]
  BY DEF Types, BridgeType, Collection
<1>2. /\ mirror' = upstream' /\ mirror'.rows = mirror.rows \cup upstream.rows
      /\ mirror'.cards = mirror.cards
  BY <1>1 DEF Exchange
<1> QED
  BY <1>2 DEF InMirror, InAnki

(* A step changes the journal in one of four ways. *)
LEMMA JournalSteps ==
  ASSUME Types, [Next]_vars
  PROVE  \/ Ingest \/ Reset \/ MarkApplied \/ ClearPushed
         \/ journal' = journal
BY DEF Next, vars, bridge, Grade, CutWhileGrading, Undo, Pair, Post, Refused, SyncFlow, TakeReply, SaveAck,
       PollDone, Leave, Rename, SaveBuild, PowerCut, CardChanged, Accept, JobRuns, Work,
       Apply, BuildDeck, Pull, FullDownload, Push, PushRefused, JobFails, Restart,
       Demanded, Resolved

LEMMA UpstreamSteps ==
  ASSUME Types, [Next]_vars
  PROVE  Pull \/ Push \/ upstream' = upstream
BY DEF Next, vars, bridge, Grade, CutWhileGrading, Undo, Pair, Post, Refused, SyncFlow, TakeReply, SaveAck,
       PollDone, Leave, Rename, SaveBuild, PowerCut, CardChanged, Ingest, Accept, JobRuns, Work, Reset,
       Apply, MarkApplied, ClearPushed, BuildDeck, FullDownload, PushRefused, JobFails, Restart,
       Demanded, Resolved

LEMMA HeldSteps ==
  ASSUME Types
  PROVE  /\ Ingest => Held' = Held \cup request.reviews /\ journal'.applied = journal.applied
         /\ Reset => Held' = Held /\ journal'.applied = {}
         /\ MarkApplied => /\ Held' = Held
                           /\ journal'.applied \subseteq journal.applied \cup job.pending
         /\ ClearPushed => /\ Held \subseteq Held' \cup journal.applied /\ Held' \subseteq Held
                           /\ journal'.applied = {}
<1>1. journal \in [waiting : SUBSET Review, applied : SUBSET Review]
  BY DEF Types, BridgeType
<1>2. ASSUME Ingest PROVE Held' = Held \cup request.reviews /\ journal'.applied = journal.applied
  BY <1>1, <1>2 DEF Ingest, Held
<1>3. ASSUME Reset PROVE Held' = Held /\ journal'.applied = {}
  BY <1>1, <1>3 DEF Reset, ResetApplied, Held
<1>4. ASSUME MarkApplied
      PROVE  Held' = Held /\ journal'.applied \subseteq journal.applied \cup job.pending
  BY <1>1, <1>4 DEF MarkApplied, Marked, Held
<1>5. ASSUME ClearPushed
      PROVE  /\ Held \subseteq Held' \cup journal.applied /\ Held' \subseteq Held
             /\ journal'.applied = {}
  BY <1>1, <1>5 DEF ClearPushed, Held
<1> QED
  BY <1>2, <1>3, <1>4, <1>5

(* What is safe stays safe. *)
LEMMA SafeStays ==
  ASSUME Types, AppliedInv, [Next]_vars
  PROVE  Safe \subseteq Safe' /\ InAnki \subseteq InAnki'
<1>1. InAnki \subseteq InAnki'
  <2>1. CASE Pull \/ Push
    BY <2>1, ExchangeIs DEF Pull, Push
  <2>2. CASE upstream' = upstream
    BY <2>2 DEF InAnki
  <2> QED
    BY <2>1, <2>2, UpstreamSteps
<1>2. Held \subseteq Held' \cup InAnki
  <2>1. CASE ClearPushed
    BY <2>1, HeldSteps DEF ClearPushed, JobStep, AppliedInv
  <2>2. CASE Ingest \/ Reset \/ MarkApplied
    BY <2>2, HeldSteps
  <2>3. CASE journal' = journal
    BY <2>3 DEF Held
  <2> QED
    BY <2>1, <2>2, <2>3, JournalSteps
<1> QED
  BY <1>1, <1>2 DEF Safe

LEMMA NextApplied ==
  ASSUME Types, AppliedInv, [Next]_vars, "cutDownload" \notin mishap'
  PROVE  AppliedInv'
<1>0. job \in [at : {"none", "queued", "pull", "downloaded", "apply", "mark", "push", "clear", "build",
                     "done", "error", "frozen"}, cards : Cards, pending : SUBSET Review]
  BY DEF Types, BridgeType
<1>1. CASE /\ journal' = journal /\ InMirror \subseteq InMirror' /\ job'.at \notin {"mark", "clear"}
           /\ job.at # "downloaded" \/ job'.at = "downloaded"
  BY <1>1 DEF AppliedInv
<1>2. CASE UNCHANGED <<journal, job, mirror, upstream>>
  BY <1>2 DEF AppliedInv, InMirror, InAnki
<1>3. CASE Ingest
  BY <1>3, HeldSteps DEF Ingest, AppliedInv, InMirror, InAnki
<1>4. CASE Reset
  BY <1>0, <1>4, HeldSteps DEF Reset, JobStep, AppliedInv, InMirror, InAnki
<1>5. CASE MarkApplied
  <2>1. /\ job'.at = "push" /\ mirror' = mirror /\ job.at = "mark"
        /\ journal'.applied \subseteq journal.applied \cup job.pending
    BY <1>5, HeldSteps DEF MarkApplied, NoJob
  <2> QED
    BY <2>1 DEF AppliedInv, InMirror
<1>6. CASE ClearPushed
  BY <1>0, <1>6, HeldSteps DEF ClearPushed, JobStep, AppliedInv
<1>7. CASE Pull \/ Push
  <2>1. /\ journal' = journal /\ job.at # "downloaded" /\ job'.at \in {"apply", "clear"}
        /\ InMirror \subseteq InMirror' /\ InMirror \subseteq InAnki'
    BY <1>0, <1>7, ExchangeIs DEF Pull, Push, JobStep
  <2> QED
    BY <2>1 DEF AppliedInv
<1>8. CASE FullDownload
  <2>1. journal' = journal /\ job'.at = "downloaded"
    BY <1>0, <1>8 DEF FullDownload, JobStep
  <2> QED
    BY <2>1 DEF AppliedInv
<1>9. CASE Apply
  <2>1. /\ journal' = journal /\ job.at = "apply" /\ job'.at \in {"push", "mark"}
        /\ job'.pending = journal.waiting /\ mirror'.rows = mirror.rows \cup NewRows
    BY <1>9 DEF Apply
  <2>2. InMirror \subseteq InMirror'
    BY <2>1 DEF InMirror
  <2>3. ASSUME NEW r \in journal.waiting PROVE r \in InMirror'
    <3>1. CASE Rows(r) = {}
      <4>1. [of |-> r, copy |-> 1] \in NewRows
        BY <3>1 DEF NewRows
      <4> QED
        BY <2>1, <4>1 DEF InMirror
    <3>2. CASE Rows(r) # {}
      BY <2>2, <3>2 DEF Rows, InMirror
    <3> QED
      BY <3>1, <3>2
  <2> QED
    BY <2>1, <2>2, <2>3 DEF AppliedInv
<1>10. CASE Accept \/ Work \/ PushRefused \/ BuildDeck \/ JobFails
  <2>1. UNCHANGED <<journal, mirror, upstream>>
    BY <1>10 DEF Accept, Work, PushRefused, BuildDeck, JobFails
  <2>2. job' = job \/ (job'.at \notin {"mark", "clear"} /\ job.at # "downloaded")
    BY <1>0, <1>10 DEF Accept, Work, PushRefused, BuildDeck, JobFails, JobStep, InFlight, NoJob
  <2> QED
    BY <1>1, <1>2, <2>1, <2>2 DEF InMirror
<1>11. CASE Restart
  <2>1. UNCHANGED <<journal, mirror, upstream>> /\ job'.at = "none" /\ job.at # "downloaded"
    BY <1>11 DEF Restart, NoJob, Meets
  <2> QED
    BY <1>1, <2>1 DEF InMirror
<1>12. CASE UNCHANGED bridge /\ upstream' = upstream
  BY <1>2, <1>12 DEF bridge
<1> QED
  BY <1>3, <1>4, <1>5, <1>6, <1>7, <1>8, <1>9, <1>10, <1>11, <1>12
     DEF Next, vars, Grade, CutWhileGrading, Undo, Pair, Post, Refused, SyncFlow, TakeReply, SaveAck,
         PollDone, Leave, Rename, SaveBuild, PowerCut, CardChanged, JobRuns, Demanded, Resolved

LEMMA NextSent ==
  ASSUME Types, SentInv, AppliedInv, [Next]_vars
  PROVE  SentInv'
<1>0. DeviceType /\ log \in Seq(Record) /\ saved \in Saved /\ Safe \subseteq Safe'
  BY SafeStays DEF Types, DeviceType
<1>1. CASE Post
  <2>1. /\ log' = log /\ flow'.at = "posting" /\ request'.at = "sent"
        /\ request'.reviews = Standing(SubSeq(log, Ack + 1, Len(log)))
        /\ saved'.sent = saved.sent \/ saved'.sent = <<>>
    BY <1>0, <1>1, SavedTypes DEF Post
  <2>2. Standing(log) \subseteq Standing(saved.sent) \cup request'.reviews
    BY <1>0, <2>1, AckIs, StandingSplit
  <2> QED
    BY <1>0, <2>1, <2>2, NoneStand DEF SentInv
<1>2. CASE Ingest
  <2>1. UNCHANGED <<log, saved, flow>> /\ request'.at = "ingested" /\ request.at = "sent"
    BY <1>2 DEF Ingest, device, card
  <2>2. Safe \cup request.reviews \subseteq Safe'
    BY <1>0, <1>2, HeldSteps DEF Safe
  <2> QED
    BY <2>1, <2>2 DEF SentInv
<1>3. CASE TakeReply
  <2>1. UNCHANGED <<log, saved>> /\ flow.at = "posting" /\ request.at = "answered" /\ flow'.at = "saving"
    BY <1>3 DEF TakeReply, card
  <2> QED
    BY <1>0, <2>1 DEF SentInv
<1>4. CASE /\ \/ flow'.at \notin {"posting", "saving", "polling"}
              \/ log' = log /\ flow.at = "saving" /\ flow'.at = "polling"
           /\ \/ saved'.sent \in {saved.sent, <<>>}
              \/ flow.at = "saving" /\ saved'.sent = log
  BY <1>0, <1>4, NoneStand DEF SentInv
<1>5. CASE Pair \/ Refused \/ SaveAck \/ SaveBuild
  <2>1. flow'.at = "idle" \/ (log' = log /\ flow.at = "saving" /\ flow'.at = "polling")
    BY <1>5 DEF Pair, Refused, SaveAck, SaveBuild, Idle
  <2>2. \/ saved'.sent \in {saved.sent, <<>>}
        \/ flow.at = "saving" /\ saved'.sent = log
    BY <1>0, <1>5, SavedTypes DEF Pair, Refused, SaveAck, SaveBuild
  <2> QED
    BY <1>4, <2>1, <2>2
<1>6. CASE PowerCut
  <2>1. flow'.at = "idle"
    BY <1>6 DEF PowerCut, Idle
  <2>2. \/ saved' = saved
        \/ saved' = Unpaired
        \/ saved' = Acknowledged /\ flow.at = "saving"
        \/ saved' = Built
    BY <1>6 DEF PowerCut
  <2> QED
    BY <1>0, <1>4, <2>1, <2>2, SavedTypes
<1>7. CASE \/ \E c \in Card : Grade(c) \/ CutWhileGrading(c)
           \/ Undo \/ CardChanged \/ PollDone \/ Leave \/ Rename
  <2>1. saved' = saved
    BY <1>7 DEF Grade, CutWhileGrading, Undo, CardChanged, PollDone, Leave, Rename, card
  <2>2. flow'.at \in {"idle", "fetched", "renamed"}
    <3>1. CASE Rename
      BY <3>1, <1>0 DEF Rename, DeviceType
    <3>2. CASE PollDone \/ Leave
      BY <3>2 DEF PollDone, Leave, Idle
    <3>3. CASE flow' = flow /\ flow = Idle
      BY <3>3 DEF Idle
    <3> QED
      BY <1>7, <3>1, <3>2, <3>3 DEF Grade, CutWhileGrading, Reviewing, Undo, CardChanged
  <2> QED
    BY <1>4, <2>1, <2>2
<1>8. CASE /\ log' = log /\ saved' = saved /\ flow' = flow
           /\ \/ request' = request
              \/ request.at = "ingested" /\ request'.at \in {"answered", "none"}
  BY <1>0, <1>8 DEF SentInv
<1>9. CASE Accept \/ Restart
  <2>1. log' = log /\ saved' = saved /\ flow' = flow
    BY <1>9 DEF Accept, Restart, device, card
  <2>2. CASE Accept
    <3>1. request.at = "ingested" /\ request' = [request EXCEPT !.at = "answered"]
      BY <2>2 DEF Accept
    <3>2. request'.at = "answered"
      BY <3>1 DEF Types, RequestType
    <3> QED
      BY <1>8, <2>1, <3>1, <3>2
  <2>3. CASE Restart
    BY <1>8, <2>1, <2>3 DEF Restart, NoRequest
  <2> QED
    BY <1>9, <2>2, <2>3
<1>10. CASE UNCHANGED <<log, saved, flow, request>>
  BY <1>8, <1>10
<1>11. CASE JobRuns
  BY <1>10, <1>11 DEF JobRuns, Work, Reset, Apply, MarkApplied, ClearPushed, BuildDeck, device, card
<1>12. CASE Pull \/ FullDownload \/ Push \/ PushRefused \/ JobFails \/ Demanded \/ Resolved \/ UNCHANGED vars
  BY <1>10, <1>12 DEF Pull, FullDownload, Push, PushRefused, JobFails, Demanded, Resolved, device, card, vars
<1> QED
  BY <1>1, <1>2, <1>3, <1>5, <1>6, <1>7, <1>9, <1>11, <1>12 DEF Next, SyncFlow

(* No step takes history back. *)
LEMMA HistoryGrows ==
  ASSUME [Next]_vars
  PROVE  /\ mishap \subseteq mishap' /\ late \subseteq late'
         /\ Ingest \/ late' = late
<1>1. CASE UNCHANGED history
  BY <1>1 DEF history
<1>2. CASE PowerCut \/ Restart
  BY <1>2 DEF PowerCut, Restart, Meets, history
<1>3. CASE Ingest
  BY <1>3 DEF Ingest
<1> QED
  BY <1>1, <1>2, <1>3
     DEF Next, vars, Grade, CutWhileGrading, Undo, Pair, Post, Refused, SyncFlow, TakeReply, SaveAck,
         PollDone, Leave, Rename, SaveBuild, CardChanged, Accept, JobRuns, Work, Reset,
         Apply, MarkApplied, ClearPushed, BuildDeck, Pull, FullDownload, Push, PushRefused, JobFails,
         Demanded, Resolved

LEMMA NextJournal == Types /\ JournalInv /\ [Next]_vars => JournalInv'
<1> SUFFICES ASSUME Types, JournalInv, [Next]_vars, "cutDownload" \notin mishap' PROVE SentInv' /\ AppliedInv'
  BY DEF JournalInv
<1>1. "cutDownload" \notin mishap
  BY HistoryGrows
<1> QED
  BY <1>1, NextSent, NextApplied DEF JournalInv

(* Where no stop of the bridge came right after a full download, whatever  *)
(* the device will not send again is in the bridge's journal or in Anki,   *)
(* through power cuts, lost requests, retries and a card that was changed. *)
THEOREM NothingIsLost == Spec => []NothingLost
<1>1. Init => Types /\ JournalInv
  BY InitTypes, InitJournal
<1>2. Types /\ JournalInv /\ [Next]_vars => (Types /\ JournalInv)'
  BY NextTypes, NextJournal
<1>3. Types /\ JournalInv => NothingLost
  <2> SUFFICES ASSUME Types, JournalInv, "cutDownload" \notin mishap PROVE SafeRetry
    BY DEF NothingLost
  <2> QED
    BY AckIs DEF Types, JournalInv, SentInv, Safe, SafeRetry
<1> QED
  BY <1>1, <1>2, <1>3, PTL DEF Spec

-----------------------------------------------------------------------------
(* Once, and meant. *)

(* Nothing leaves the card but by a post. *)
LEMMA GoneSteps ==
  ASSUME Types, [Next]_vars
  PROVE  /\ Gone' \subseteq Gone \/ Post
         /\ Post => Gone' \subseteq Gone \cup Standing(log)
<1>1. ASSUME Post PROVE Gone' \subseteq Gone \cup Standing(log)
  <2>1. UNCHANGED <<bridge, upstream>> /\ log \in Seq(Record)
        /\ request'.reviews = Standing(SubSeq(log, Ack + 1, Len(log)))
    BY <1>1 DEF Post, Types, DeviceType
  <2>2. Asked' \subseteq Standing(log)
    BY <2>1, AckIs, StandingSplit DEF Asked, Types
  <2>3. InAnki' = InAnki /\ InMirror' = InMirror /\ Held' = Held
    BY <2>1 DEF bridge, InAnki, InMirror, Held
  <2> QED
    BY <2>2, <2>3 DEF Gone
<1>2. ASSUME ~Post PROVE Gone' \subseteq Gone
  <2>1. CASE Pull \/ Push
    <3>1. UNCHANGED <<journal, request>>
      BY <2>1 DEF Pull, Push
    <3>2. InAnki' \subseteq InMirror \cup InAnki /\ InMirror' \subseteq InMirror \cup InAnki
      BY <2>1, ExchangeIs DEF Pull, Push
    <3> QED
      BY <3>1, <3>2 DEF Gone, Asked, Held
  <2>2. CASE FullDownload
    BY <2>2 DEF FullDownload, Gone, Asked, Held, InMirror, InAnki
  <2>3. CASE Ingest
    <3>1. UNCHANGED <<mirror, upstream>> /\ request.at = "sent" /\ request'.reviews = request.reviews
      BY <2>3 DEF Ingest, Types, RequestType
    <3>2. Held' \subseteq Held \cup Asked /\ Asked' \subseteq Asked
      BY <2>3, <3>1, HeldSteps DEF Asked
    <3> QED
      BY <3>1, <3>2 DEF Gone, InMirror, InAnki
  <2>4. CASE Reset \/ MarkApplied \/ ClearPushed
    <3>1. Held' \subseteq Held
      BY <2>4, HeldSteps
    <3>2. UNCHANGED <<mirror, upstream, request>>
      BY <2>4 DEF Reset, MarkApplied, ClearPushed
    <3> QED
      BY <3>1, <3>2 DEF Gone, Asked, InMirror, InAnki
  <2>5. CASE Apply
    <3>1. UNCHANGED <<journal, upstream, request>> /\ mirror'.rows = mirror.rows \cup NewRows
      BY <2>5 DEF Apply
    <3>2. \A x \in NewRows : x.of \in Held
      BY DEF NewRows, Held
    <3>3. InMirror' \subseteq InMirror \cup Held
      BY <3>1, <3>2 DEF InMirror
    <3> QED
      BY <3>1, <3>3 DEF Gone, Asked, Held, InAnki
  <2>6. CASE /\ UNCHANGED <<journal, mirror, upstream>>
             /\ \/ request' = request
                \/ request' = NoRequest
                \/ request.at # "none" /\ request'.reviews = request.reviews
    BY <2>6 DEF Gone, Asked, Held, InMirror, InAnki, NoRequest
  <2>7. CASE Accept
    <3>1. UNCHANGED <<journal, mirror, upstream>> /\ request.at # "none" /\ request'.reviews = request.reviews
      BY <2>7 DEF Accept, Types, RequestType
    <3> QED
      BY <2>6, <3>1
  <2>8. CASE Restart \/ Refused \/ TakeReply
    BY <2>6, <2>8 DEF Restart, Refused, TakeReply, bridge
  <2>9. CASE UNCHANGED <<journal, mirror, upstream, request>>
    BY <2>6, <2>9
  <2> QED
    BY <1>2, <2>1, <2>2, <2>3, <2>4, <2>5, <2>7, <2>8, <2>9
       DEF Next, vars, bridge, Grade, CutWhileGrading, Undo, Pair, SyncFlow, SaveAck, PollDone, Leave, Rename,
           SaveBuild, PowerCut, CardChanged, JobRuns, Work, BuildDeck, PushRefused, JobFails, Demanded, Resolved
<1> QED
  BY <1>1, <1>2

(* A record is written after what was kept of the log. *)
LEMMA AppendIs ==
  ASSUME NEW s \in Seq(Record), NEW x \in Record
  PROVE  LET t == Append(Grid(s), x) IN
         /\ DOMAIN t = 1..Len(t) /\ Len(t) \in Nat /\ Len(t) # 0 /\ Len(t) - 1 \in 0..Len(s)
         /\ t[Len(t)] = x
         /\ \A i \in 1..(Len(t) - 1) : t[i] = s[i]
<1>1. Grid(s) \in Seq(Record) /\ Len(Grid(s)) \in 0..Len(s) /\ \A i \in 1..Len(Grid(s)) : Grid(s)[i] = s[i]
  BY GridIs
<1> DEFINE g == Grid(s)
<1> HIDE DEF g
<1>2. Append(g, x) \in Seq(Record) /\ Len(Append(g, x)) = Len(g) + 1 /\ Append(g, x)[Len(g) + 1] = x
      /\ \A i \in 1..Len(g) : Append(g, x)[i] = g[i]
  BY <1>1 DEF g
<1> QED
  BY <1>1, <1>2 DEF g

LEMMA TypedGone ==
  ASSUME Types
  PROVE  Gone \subseteq Review
<1>1. InMirror \subseteq Review /\ InAnki \subseteq Review
  BY DEF Types, BridgeType, Collection, InMirror, InAnki
<1>2. Held \subseteq Review /\ Asked \subseteq Review
  BY DEF Types, BridgeType, RequestType, Held, Asked
<1> QED
  BY <1>1, <1>2 DEF Gone

LEMMA NextVoid ==
  ASSUME Types, VoidInv, [Next]_vars
  PROVE  VoidInv'
<1>0. /\ log \in Seq(Record) /\ clock \in Nat /\ DOMAIN log = 1..Len(log) /\ Len(log) \in Nat
      /\ clock + 1 \in Nat
  BY DEF Types, DeviceType
<1>t. /\ \A i \in DOMAIN log : log[i] \in Record /\ log[i].of.at \in Nat
      /\ \A r \in Gone : r.at \in Nat
  <2>1. \A r \in Review : r.at \in Nat
    BY BoundsAssumption DEF Review
  <2>2. \A i \in DOMAIN log : log[i] \in Record
    BY <1>0
  <2> QED
    BY <2>1, <2>2, TypedGone DEF Record
<1>1. ASSUME NEW c \in Card, Grade(c) \/ CutWhileGrading(c) PROVE VoidInv'
  <2>1. Gone' = Gone /\ clock' = clock + 1
    BY <1>1 DEF Grade, CutWhileGrading, Gone, Held, Asked, InMirror, InAnki, bridge
  <2>t. NewRecord(c) \in Record /\ NewRecord(c).of.at = clock
    <3>1. clock \in 1..MaxReviews
      BY <1>0, <1>1 DEF Grade, CutWhileGrading, Reviewing, Types, DeviceType
    <3> QED
      BY <3>1 DEF NewRecord, Record, Review
  <2>2. \/ log' = log /\ (undo' = NoUndo \/ ~undo'.written)
        \/ \E x \in Record : log' = Append(Grid(log), x) /\ x.of.at = clock /\ ~x.voided
    <3>1. CASE Grade(c)
      <4>1. PICK written \in BOOLEAN :
               /\ log' = IF written THEN Append(Grid(log), NewRecord(c)) ELSE log
               /\ undo' = [of |-> c, before |-> cards[c], written |-> written]
        BY <3>1 DEF Grade
      <4>2. ~NewRecord(c).voided
        BY DEF NewRecord
      <4> QED
        BY <2>t, <4>1, <4>2
    <3>2. CASE CutWhileGrading(c)
      <4> DEFINE x == [NewRecord(c) EXCEPT !.whole = FALSE]
      <4>1. x \in Record /\ x.of.at = clock /\ ~x.voided
        BY <2>t DEF NewRecord, Record
      <4> HIDE DEF x
      <4>2. undo' = NoUndo /\ (log' = log \/ log' = Append(Grid(log), x))
        BY <3>2 DEF CutWhileGrading, x
      <4> QED
        BY <4>1, <4>2
    <3> QED
      BY <1>1, <3>1, <3>2
  <2>3. CASE log' = log /\ (undo' = NoUndo \/ ~undo'.written)
    <3>1. /\ \A i \in DOMAIN log : log[i].of.at < clock + 1
          /\ \A r \in Gone : r.at < clock + 1
      BY <1>0, <1>t DEF VoidInv
    <3> QED
      BY <2>1, <2>3, <3>1 DEF VoidInv
  <2>4. ASSUME NEW x \in Record, log' = Append(Grid(log), x), x.of.at = clock, ~x.voided
        PROVE  VoidInv'
    <3>1. /\ DOMAIN log' = 1..Len(log') /\ Len(log') \in Nat /\ Len(log') # 0
          /\ Len(log') - 1 \in 0..Len(log)
          /\ log'[Len(log')] = x
          /\ \A i \in 1..(Len(log') - 1) : log'[i] = log[i]
      BY <1>0, <2>4, AppendIs
    <3>2. ASSUME NEW i \in DOMAIN log'
          PROVE  \/ i = Len(log') /\ log'[i] = x
                 \/ i \in DOMAIN log /\ log'[i] = log[i]
      BY <1>0, <3>1
    <3>3. x.of \notin Gone /\ \A i \in DOMAIN log : log[i].of # x.of
      BY <1>0, <1>t, <2>4 DEF VoidInv
    <3>4. \A i \in DOMAIN log' : log'[i].of.at < clock + 1
      BY <1>0, <1>t, <2>4, <3>2 DEF VoidInv
    <3>5. \A r \in Gone : r.at < clock + 1
      BY <1>0, <1>t DEF VoidInv
    <3>6. \A i, j \in DOMAIN log' : log'[i].of = log'[j].of => i = j
      BY <3>2, <3>3 DEF VoidInv
    <3>7. \A i \in DOMAIN log' : log'[i].voided => log'[i].of \notin Gone
      BY <2>4, <3>2 DEF VoidInv
    <3>8. log' # <<>> /\ log'[Len(log')].of \notin Gone
      BY <3>1, <3>3
    <3> QED
      BY <2>1, <3>4, <3>5, <3>6, <3>7, <3>8 DEF VoidInv
  <2> QED
    BY <2>2, <2>3, <2>4
<1>2. CASE Undo
  <2>1. Gone' = Gone /\ clock' = clock /\ undo' = NoUndo /\ undo # NoUndo
    BY <1>2 DEF Undo, Gone, Held, Asked, InMirror, InAnki, bridge
  <2>2. CASE undo.written
    <3> DEFINE n == Len(log)
    <3>1. log # <<>> /\ log[n].of \notin Gone /\ n \in DOMAIN log
      <4>1. log # <<>> /\ log[n].of \notin Gone
        BY <2>1, <2>2 DEF VoidInv
      <4> QED
        BY <1>0, <4>1, EmptySeq
    <3>2. /\ DOMAIN log' = DOMAIN log
          /\ \A i \in DOMAIN log : log'[i].of = log[i].of /\ (i # n => log'[i] = log[i])
      <4>1. log' = [log EXCEPT ![n] = [log[n] EXCEPT !.voided = TRUE]]
        BY <1>2, <2>2 DEF Undo
      <4>2. [log[n] EXCEPT !.voided = TRUE].of = log[n].of
        BY <1>t, <3>1 DEF Record
      <4> QED
        BY <4>1, <4>2
    <3> QED
      BY <2>1, <3>1, <3>2 DEF VoidInv
  <2>3. CASE ~undo.written
    BY <1>2, <2>1, <2>3 DEF Undo, VoidInv
  <2> QED
    BY <2>2, <2>3
<1>3. CASE CardChanged
  <2>1. Gone' = Gone /\ clock' = clock /\ undo' = NoUndo
    BY <1>3 DEF CardChanged, Gone, Held, Asked, InMirror, InAnki, bridge
  <2>2. DOMAIN log' \subseteq DOMAIN log /\ \A i \in DOMAIN log' : log'[i] = log[i]
    <3>1. CASE log' = <<>>
      BY <3>1
    <3>2. ASSUME NEW n \in 0..(Len(log) - 1), log' = SubSeq(log, 1, n)
          PROVE  DOMAIN log' \subseteq DOMAIN log /\ \A i \in DOMAIN log' : log'[i] = log[i]
      BY <1>0, <3>2
    <3> QED
      BY <1>3, <3>1, <3>2 DEF CardChanged
  <2> QED
    BY <2>1, <2>2 DEF VoidInv
<1>4. CASE Post
  <2>1. log' = log /\ clock' = clock /\ undo' = NoUndo /\ Gone' \subseteq Gone \cup Standing(log)
    BY <1>4, GoneSteps DEF Post
  <2>2. \A r \in Standing(log) : \E i \in DOMAIN log : log[i].of = r /\ ~log[i].voided
    BY StandingIs
  <2>3. ASSUME NEW i \in DOMAIN log, log[i].voided PROVE log[i].of \notin Standing(log)
    BY <2>2, <2>3 DEF VoidInv
  <2>4. \A r \in Standing(log) : r.at < clock
    BY <2>2 DEF VoidInv
  <2> QED
    BY <2>1, <2>3, <2>4 DEF VoidInv
<1>5. CASE log' = log /\ clock' = clock /\ undo' \in {undo, NoUndo} /\ Gone' \subseteq Gone
  BY <1>5 DEF VoidInv
<1>6. CASE Post \/ Gone' \subseteq Gone
  <2>1. CASE \/ Pair \/ Refused \/ SyncFlow \/ PowerCut
    BY <1>4, <1>5, <1>6, <2>1
       DEF Pair, Refused, SyncFlow, TakeReply, SaveAck, PollDone, Leave, Rename, SaveBuild, PowerCut, card
  <2>2. CASE UNCHANGED device \/ UNCHANGED vars
    BY <1>4, <1>5, <1>6, <2>2 DEF device, card, vars
  <2> QED
    BY <1>1, <1>2, <1>3, <1>4, <2>1, <2>2
       DEF Next, Ingest, Accept, JobRuns, Work, Reset, Apply, MarkApplied, ClearPushed, BuildDeck, Pull,
           FullDownload, Push, PushRefused, JobFails, Restart, Demanded, Resolved
<1> QED
  BY <1>6, GoneSteps

LEMMA NextCopy ==
  ASSUME Types, CopyInv, [Next]_vars
  PROVE  CopyInv'
<1>1. CASE Pull \/ Push
  BY <1>1, ExchangeIs DEF Pull, Push, CopyInv
<1>2. CASE FullDownload
  BY <1>2 DEF FullDownload, CopyInv
<1>3. CASE Apply
  BY <1>3 DEF Apply, NewRows, CopyInv
<1>4. CASE UNCHANGED <<mirror, upstream>>
  BY <1>4 DEF CopyInv
<1> QED
  BY <1>1, <1>2, <1>3, <1>4
     DEF Next, vars, bridge, Grade, CutWhileGrading, Undo, Pair, Post, Refused, SyncFlow, TakeReply, SaveAck,
         PollDone, Leave, Rename, SaveBuild, PowerCut, CardChanged, Ingest, Accept, JobRuns, Work, Reset,
         MarkApplied, ClearPushed, BuildDeck, PushRefused, JobFails, Restart, Demanded, Resolved

LEMMA InitOnce == Init => OnceInv
<1> SUFFICES ASSUME Init PROVE OnceInv
  OBVIOUS
<1>1. Gone = {} /\ DOMAIN log = {} /\ undo = NoUndo
  BY DEF Init, Gone, InAnki, InMirror, Held, Asked, NoRequest
<1> QED
  BY <1>1 DEF Init, OnceInv, VoidInv, CopyInv

(* Anki's collection never holds a review twice, and a review that UNDO    *)
(* struck out of the log is neither in it nor in the journal that goes     *)
(* there, however often posts, jobs and downloads are repeated.            *)
THEOREM AnkiGetsEachOnce == Spec => []OnceAndMeant
<1>1. Init => Types /\ OnceInv
  BY InitTypes, InitOnce
<1>2. Types /\ OnceInv /\ [Next]_vars => (Types /\ OnceInv)'
  BY NextTypes, NextVoid, NextCopy DEF OnceInv
<1>3. Types /\ OnceInv => OnceAndMeant
  <2> SUFFICES ASSUME Types, OnceInv PROVE OnceAndMeant
    OBVIOUS
  <2>1. \A e \in ToSet(log) : \E i \in DOMAIN log : log[i] = e
    BY DEF ToSet
  <2> QED
    BY <2>1 DEF OnceInv, VoidInv, CopyInv, Gone, OnceAndMeant
<1> QED
  BY <1>1, <1>2, <1>3, PTL DEF Spec

-----------------------------------------------------------------------------
(* The schedules. *)

LEMMA CoversIs ==
  ASSUME NEW cs, NEW S, NEW T, Covers(cs, S), T \subseteq S
  PROVE  Covers(cs, T)
BY DEF Covers

(* What stands comes from before, or is the review being graded, which has *)
(* not left the card. *)
LEMMA StandingSteps ==
  ASSUME Types, VoidInv, [Next]_vars
  PROVE  /\ \A c \in Card : Grade(c) =>
              /\ Standings' \subseteq Standings \cup {[card |-> c, at |-> clock]}
              /\ log' = log \/ log'[Len(log')].of = [card |-> c, at |-> clock]
         /\ \A c \in Card : CutWhileGrading(c) => Standings' \subseteq Standings
         /\ Undo => /\ Standings' \subseteq Standings
                    /\ undo.written => log[Len(log)].of \notin Standings'
         /\ CardChanged => Standings' \subseteq Standings
         /\ \/ \E c \in Card : Grade(c) \/ CutWhileGrading(c)
            \/ Undo \/ CardChanged \/ log' = log
         /\ Standings' \cap Gone \subseteq Standings
<1>0. /\ log \in Seq(Record) /\ clock \in Nat /\ DOMAIN log = 1..Len(log) /\ Len(log) \in Nat
      /\ \A i \in DOMAIN log : log[i] \in Record
  BY DEF Types, DeviceType
<1>a. ASSUME NEW x \in Record, log' = Append(Grid(log), x)
      PROVE  /\ log'[Len(log')] = x
             /\ \A r \in Standings' : r \in Standings \/ (x.whole /\ r = x.of)
  <2>1. /\ DOMAIN log' = 1..Len(log') /\ Len(log') \in Nat /\ Len(log') # 0
        /\ Len(log') - 1 \in 0..Len(log)
        /\ log'[Len(log')] = x
        /\ \A i \in 1..(Len(log') - 1) : log'[i] = log[i]
    BY <1>0, <1>a, AppendIs
  <2>2. ASSUME NEW r \in Standings' PROVE r \in Standings \/ (x.whole /\ r = x.of)
    <3>1. PICK i \in DOMAIN log' : log'[i].whole /\ ~log'[i].voided /\ log'[i].of = r
      BY <2>2, StandingIs DEF Standings
    <3>2. CASE i = Len(log')
      BY <2>1, <3>1, <3>2
    <3>3. CASE i # Len(log')
      <4>1. i \in DOMAIN log /\ log'[i] = log[i]
        BY <1>0, <2>1, <3>3
      <4> QED
        BY <3>1, <4>1, StandingIs DEF Standings
    <3> QED
      BY <3>2, <3>3
  <2> QED
    BY <2>1, <2>2
<1>t. ASSUME NEW c \in Card, clock <= MaxReviews
      PROVE  /\ NewRecord(c) \in Record /\ NewRecord(c).of = [card |-> c, at |-> clock]
             /\ [NewRecord(c) EXCEPT !.whole = FALSE] \in Record
             /\ ~[NewRecord(c) EXCEPT !.whole = FALSE].whole
  <2>1. clock \in 1..MaxReviews
    BY <1>0, <1>t DEF Types, DeviceType
  <2> QED
    BY <2>1 DEF NewRecord, Record, Review
<1>1. ASSUME NEW c \in Card, Grade(c)
      PROVE  /\ Standings' \subseteq Standings \cup {[card |-> c, at |-> clock]}
             /\ log' = log \/ log'[Len(log')].of = [card |-> c, at |-> clock]
  <2>1. clock <= MaxReviews /\ (log' = log \/ log' = Append(Grid(log), NewRecord(c)))
    BY <1>1 DEF Grade, Reviewing
  <2> QED
    BY <1>a, <1>t, <2>1 DEF Standings
<1>2. ASSUME NEW c \in Card, CutWhileGrading(c) PROVE Standings' \subseteq Standings
  <2>1. /\ clock <= MaxReviews
        /\ log' = log \/ log' = Append(Grid(log), [NewRecord(c) EXCEPT !.whole = FALSE])
    BY <1>2 DEF CutWhileGrading, Reviewing
  <2> QED
    BY <1>a, <1>t, <2>1 DEF Standings
<1>3. ASSUME Undo
      PROVE  /\ Standings' \subseteq Standings
             /\ undo.written => log[Len(log)].of \notin Standings'
  <2>1. CASE ~undo.written
    BY <1>3, <2>1 DEF Undo, Standings
  <2>2. CASE undo.written
    <3> DEFINE n == Len(log)
    <3>1. log # <<>> /\ n \in DOMAIN log
      <4>1. log # <<>>
        BY <1>3, <2>2 DEF Undo, VoidInv
      <4> QED
        BY <1>0, <4>1, EmptySeq
    <3>2. log' = [log EXCEPT ![n] = [log[n] EXCEPT !.voided = TRUE]]
      BY <1>3, <2>2 DEF Undo
    <3>3. [log[n] EXCEPT !.voided = TRUE].voided /\ log[n] \in Record
      BY <1>0, <3>1 DEF Record
    <3>4. /\ DOMAIN log' = DOMAIN log /\ log'[n].voided
          /\ \A i \in DOMAIN log : i # n => log'[i] = log[i]
      BY <3>1, <3>2, <3>3
    <3>5. ASSUME NEW r \in Standings' PROVE r \in Standings /\ r # log[n].of
      <4>1. PICK i \in DOMAIN log' : log'[i].whole /\ ~log'[i].voided /\ log'[i].of = r
        BY <3>5, StandingIs DEF Standings
      <4>2. i # n /\ i \in DOMAIN log /\ log'[i] = log[i]
        BY <3>4, <4>1
      <4>3. log[i].of # log[n].of
        BY <3>1, <4>2 DEF VoidInv
      <4> QED
        BY <4>1, <4>2, <4>3, StandingIs DEF Standings
    <3> QED
      BY <3>5
  <2> QED
    BY <2>1, <2>2
<1>4. ASSUME CardChanged PROVE Standings' \subseteq Standings
  <2>1. CASE log' = <<>>
    BY <2>1, NoneStand DEF Standings
  <2>2. ASSUME NEW n \in 0..(Len(log) - 1), log' = SubSeq(log, 1, n)
        PROVE  Standings' \subseteq Standings
    <3>1. n \in 0..Len(log)
      BY <1>0, <2>2
    <3> QED
      BY <1>0, <2>2, <3>1, StandingSplit DEF Standings
  <2> QED
    BY <1>4, <2>1, <2>2 DEF CardChanged
<1>5. \/ \E c \in Card : Grade(c) \/ CutWhileGrading(c)
      \/ Undo \/ CardChanged \/ log' = log
  BY DEF Next, vars, device, card, Pair, Post, Refused, SyncFlow, TakeReply, SaveAck, PollDone, Leave, Rename,
         SaveBuild, PowerCut, Ingest, Accept, JobRuns, Work, Reset, Apply, MarkApplied, ClearPushed, BuildDeck,
         Pull, FullDownload, Push, PushRefused, JobFails, Restart, Demanded, Resolved
<1>6. Standings' \cap Gone \subseteq Standings
  <2>1. \A c : [card |-> c, at |-> clock] \notin Gone
    BY <1>0 DEF VoidInv
  <2>2. CASE log' = log
    BY <2>2 DEF Standings
  <2> QED
    BY <1>1, <1>2, <1>3, <1>4, <1>5, <2>1, <2>2
<1> QED
  BY <1>1, <1>2, <1>3, <1>4, <1>5, <1>6

(* No review becomes on time but the one being graded.                     *)
LEMMA OnTimeSteps ==
  ASSUME Types, VoidInv, [Next]_vars
  PROVE  /\ \A c \in Card : /\ Grade(c) => OnTime' \subseteq OnTime \cup {[card |-> c, at |-> clock]}
                            /\ CutWhileGrading(c) => OnTime' \subseteq OnTime
         /\ Undo => /\ OnTime' \subseteq OnTime
                    /\ undo.written => log[Len(log)].of \notin OnTime'
         /\ CardChanged \/ log' = log => OnTime' \subseteq OnTime
         /\ OnTime' \cap Gone \subseteq OnTime
<1>1. late \subseteq late'
  BY HistoryGrows
<1>2. log' = log => Standings' = Standings
  BY DEF Standings
<1> QED
  BY <1>1, <1>2, StandingSteps DEF OnTime

(* What stands is from before now. *)
LEMMA StandingBefore ==
  ASSUME Types, VoidInv
  PROVE  /\ \A r \in Standings : r \in Review /\ r.at < clock
         /\ OnTime \subseteq Standings
<1>1. ASSUME NEW r \in Standings PROVE r \in Review /\ r.at < clock
  <2>1. PICK i \in DOMAIN log : log[i].of = r
    BY StandingIs DEF Standings
  <2> QED
    BY <2>1, TypedStand DEF VoidInv, Standings, Types, DeviceType
<1> QED
  BY <1>1 DEF OnTime

LEMMA NextCard ==
  ASSUME Types, VoidInv, CardInv, DeckInv, [Next]_vars, mishap' = {}
  PROVE  CardInv'
<1>0. \A r \in OnTime : r \in Review /\ r.at < clock /\ r.at \in Nat /\ clock \in Nat
  BY StandingBefore, BoundsAssumption DEF Review, Types, DeviceType
<1>1. ASSUME NEW c \in Card, Grade(c) PROVE CardInv'
  <2>1. /\ cards \in DeckCards /\ cards' = [cards EXCEPT ![c] = clock] /\ clock \in Nat
    BY <1>1 DEF Grade, Reviewing, Types, DeviceType, Cards, DeckCards
  <2>2. DOMAIN cards' = Card /\ cards'[c] = clock /\ \A d \in Card : d # c => cards'[d] = cards[d]
    BY <2>1 DEF DeckCards
  <2>3. Covers(cards, OnTime)
    BY DEF CardInv
  <2>4. ASSUME NEW r \in OnTime PROVE r.card \in Card /\ cards'[r.card] >= r.at
    BY <1>0, <2>1, <2>2, <2>3 DEF Covers, Review
  <2>5. OnTime' \subseteq OnTime \cup {[card |-> c, at |-> clock]}
    BY <1>1, OnTimeSteps
  <2>6. Covers(cards', OnTime')
    BY <2>1, <2>2, <2>4, <2>5 DEF Covers
  <2>7. ASSUME NEW r \in OnTime', r.card = undo'.of, undo'.written => r # log'[Len(log')].of
        PROVE  undo'.before >= r.at
    <3>1. undo'.of = c /\ undo'.before = cards[c]
      BY <1>1 DEF Grade
    <3>2. r \in OnTime
      <4>1. PICK written \in BOOLEAN :
               /\ log' = IF written THEN Append(Grid(log), NewRecord(c)) ELSE log
               /\ undo' = [of |-> c, before |-> cards[c], written |-> written]
        BY <1>1 DEF Grade
      <4>2. CASE written
        <5>1. log'[Len(log')].of = [card |-> c, at |-> clock]
          <6>1. clock \in 1..MaxReviews /\ log \in Seq(Record)
            BY <1>1 DEF Grade, Reviewing, Types, DeviceType
          <6>2. NewRecord(c) \in Record
            BY <6>1 DEF NewRecord, Record, Review
          <6> QED
            BY <4>1, <4>2, <6>1, <6>2, AppendIs DEF NewRecord
        <5> QED
          BY <2>5, <2>7, <4>1, <4>2, <5>1
      <4>3. CASE ~written
        BY <1>1, <2>7, <4>1, <4>3, OnTimeSteps
      <4> QED
        BY <4>2, <4>3
    <3> QED
      BY <2>3, <2>7, <3>1, <3>2 DEF Covers
  <2> QED
    BY <2>6, <2>7 DEF CardInv
<1>2. ASSUME NEW c \in Card, CutWhileGrading(c) PROVE CardInv'
  <2>1. /\ cards \in DeckCards /\ cards' = [cards EXCEPT ![c] = clock] /\ undo' = NoUndo
    BY <1>2 DEF CutWhileGrading, Reviewing, Types, DeviceType, Cards, DeckCards
  <2>2. DOMAIN cards' = Card /\ cards'[c] = clock /\ \A d \in Card : d # c => cards'[d] = cards[d]
    BY <2>1 DEF DeckCards
  <2>3. ASSUME NEW r \in OnTime PROVE r.card \in Card /\ cards'[r.card] >= r.at
    BY <1>0, <2>1, <2>2 DEF Covers, Review, CardInv
  <2>4. OnTime' \subseteq OnTime
    BY <1>2, OnTimeSteps
  <2> QED
    BY <2>1, <2>2, <2>3, <2>4 DEF CardInv, Covers
<1>3. CASE Undo
  <2>1. /\ undo # NoUndo /\ undo' = NoUndo /\ cards' = [cards EXCEPT ![undo.of] = undo.before]
    BY <1>3 DEF Undo
  <2>2. /\ OnTime' \subseteq OnTime
        /\ undo.written => log[Len(log)].of \notin OnTime'
    BY <1>3, OnTimeSteps
  <2>3. ASSUME NEW r \in OnTime' PROVE r.card \in DOMAIN cards' /\ cards'[r.card] >= r.at
    <3>1. r \in OnTime /\ r.card \in DOMAIN cards /\ cards[r.card] >= r.at
      BY <2>2, <2>3 DEF CardInv, Covers
    <3>2. CASE r.card = undo.of
      <4>1. undo.before >= r.at
        BY <2>1, <2>2, <2>3, <3>1, <3>2 DEF CardInv
      <4> QED
        BY <2>1, <3>1, <3>2, <4>1
    <3>3. CASE r.card # undo.of
      BY <2>1, <3>1, <3>3
    <3> QED
      BY <3>2, <3>3
  <2> QED
    BY <2>1, <2>3 DEF CardInv, Covers
<1>4. CASE CardChanged
  <2>1. undo' = NoUndo /\ OnTime' \subseteq OnTime
    BY <1>4, OnTimeSteps DEF CardChanged
  <2>2. CASE log' = <<>> /\ cards' = <<>>
    BY <2>1, <2>2, NoneStand DEF CardInv, Covers, Standings, OnTime
  <2>3. CASE cards' = cards
    BY <2>1, <2>3 DEF CardInv, Covers
  <2> QED
    BY <1>4, <2>2, <2>3 DEF CardChanged
<1>5. CASE Rename
  BY <1>5, OnTimeSteps DEF Rename, DeckInv, CardInv, Covers
<1>6. CASE log' = log /\ cards' = cards /\ undo' \in {undo, NoUndo}
  BY <1>6, OnTimeSteps DEF CardInv, Covers
<1>7. CASE PowerCut
  BY <1>6, <1>7 DEF PowerCut, Meets
<1>8. CASE Pair \/ Post \/ Refused \/ TakeReply \/ SaveAck \/ PollDone \/ Leave \/ SaveBuild
  BY <1>6, <1>8 DEF Pair, Post, Refused, TakeReply, SaveAck, PollDone, Leave, SaveBuild, card
<1>9. CASE UNCHANGED device \/ UNCHANGED vars
  BY <1>6, <1>9 DEF device, card, vars
<1> QED
  BY <1>1, <1>2, <1>3, <1>4, <1>5, <1>7, <1>8, <1>9
     DEF Next, SyncFlow, Ingest, Accept, JobRuns, Work, Reset, Apply, MarkApplied, ClearPushed, BuildDeck, Pull,
         FullDownload, Push, PushRefused, JobFails, Restart, Demanded, Resolved

(* Only a post that is taken brings the bridge something, and while a job  *)
(* is under way that is late.                                              *)
LEMMA ArrivedSteps ==
  ASSUME Types, [Next]_vars
  PROVE  /\ Ingest \/ Arrived' \subseteq Arrived
         /\ Ingest => job' = job /\ mirror' = mirror /\ upstream' = upstream
         /\ Ingest /\ InFlight => Arrived' \subseteq Arrived \cup late' /\ Held' \subseteq Held \cup late'
<1>1. ASSUME Ingest
      PROVE  /\ job' = job /\ mirror' = mirror /\ upstream' = upstream
             /\ InFlight => Arrived' \subseteq Arrived \cup late' /\ Held' \subseteq Held \cup late'
  <2>1. job' = job /\ mirror' = mirror /\ upstream' = upstream /\ Held' = Held \cup request.reviews
    BY <1>1, HeldSteps DEF Ingest
  <2>2. InFlight => request.reviews \subseteq Held \cup late'
    BY <1>1 DEF Ingest
  <2> QED
    BY <2>1, <2>2 DEF Arrived, InMirror, InAnki
<1>2. ASSUME ~Ingest PROVE Arrived' \subseteq Arrived
  <2>1. CASE Pull \/ Push
    <3>1. journal' = journal
      BY <2>1 DEF Pull, Push
    <3> QED
      BY <2>1, <3>1, ExchangeIs DEF Pull, Push, Arrived, Held
  <2>2. CASE FullDownload
    BY <2>2 DEF FullDownload, Arrived, Held, InMirror, InAnki
  <2>3. CASE Apply
    <3>1. UNCHANGED <<journal, upstream>> /\ mirror'.rows = mirror.rows \cup NewRows
      BY <2>3 DEF Apply
    <3>2. \A x \in NewRows : x.of \in Held
      BY DEF NewRows, Held
    <3> QED
      BY <3>1, <3>2 DEF Arrived, Held, InMirror, InAnki
  <2>4. CASE Reset \/ MarkApplied \/ ClearPushed
    <3>1. Held' \subseteq Held
      BY <2>4, HeldSteps
    <3>2. UNCHANGED <<mirror, upstream>>
      BY <2>4 DEF Reset, MarkApplied, ClearPushed
    <3> QED
      BY <3>1, <3>2 DEF Arrived, InMirror, InAnki
  <2>5. CASE UNCHANGED <<journal, mirror, upstream>>
    BY <2>5 DEF Arrived, Held, InMirror, InAnki
  <2> QED
    BY <1>2, <2>1, <2>2, <2>3, <2>4, <2>5
       DEF Next, vars, bridge, Grade, CutWhileGrading, Undo, Pair, Post, Refused, SyncFlow, TakeReply, SaveAck,
           PollDone, Leave, Rename, SaveBuild, PowerCut, CardChanged, Accept, JobRuns, Work, BuildDeck,
           PushRefused, JobFails, Restart, Demanded, Resolved
<1> QED
  BY <1>1, <1>2

(* How the job moves. *)
LEMMA JobSteps ==
  ASSUME Types, [Next]_vars
  PROVE  \/ job' = job /\ latest' = latest /\ ~Accept
         \/ Accept /\ (job' = job \/ job'.at = "queued")
         \/ Work /\ job.at = "queued" /\ job'.at = "pull"
         \/ /\ Pull \/ FullDownload \/ Reset
            /\ job.at \in {"pull", "downloaded"} /\ job'.at \in {"downloaded", "apply"}
            /\ job'.cards = job.cards
         \/ Apply /\ job.at = "apply" /\ job'.at \in {"mark", "push"}
         \/ /\ MarkApplied \/ Push \/ PushRefused \/ ClearPushed
            /\ job.at \in {"mark", "push", "clear"} /\ job'.at \in {"push", "clear", "build"}
         \/ BuildDeck /\ job.at = "build" /\ job'.at = "done"
         \/ job.at \in {"pull", "push", "clear"} /\ job'.at \in {"error", "frozen"}
         \/ job'.at = "none"
<1>0. job \in [at : {"none", "queued", "pull", "downloaded", "apply", "mark", "push", "clear", "build",
                     "done", "error", "frozen"}, cards : Cards, pending : SUBSET Review]
  BY DEF Types, BridgeType
<1>1. CASE Pull \/ FullDownload \/ Reset
  BY <1>0, <1>1 DEF Pull, FullDownload, Reset, JobStep
<1>2. CASE Push \/ PushRefused \/ ClearPushed
  BY <1>0, <1>2 DEF Push, PushRefused, ClearPushed, JobStep
<1>3. CASE MarkApplied
  BY <1>0, <1>3 DEF MarkApplied, NoJob
<1>4. CASE BuildDeck
  BY <1>0, <1>4 DEF BuildDeck, JobStep
<1>5. CASE JobFails
  BY <1>0, <1>5 DEF JobFails, JobStep
<1>6. CASE Restart
  BY <1>6 DEF Restart, NoJob
<1>7. CASE Work
  BY <1>0, <1>7 DEF Work
<1>8. CASE Apply
  BY <1>8 DEF Apply
<1>9. CASE Accept
  BY <1>9 DEF Accept, NoJob
<1>10. CASE job' = job /\ latest' = latest
  BY <1>9, <1>10
<1> QED
  BY <1>1, <1>2, <1>3, <1>4, <1>5, <1>6, <1>7, <1>8, <1>9, <1>10
     DEF Next, vars, bridge, Grade, CutWhileGrading, Undo, Pair, Post, Refused, SyncFlow, TakeReply, SaveAck,
         PollDone, Leave, Rename, SaveBuild, PowerCut, CardChanged, Ingest, JobRuns, Demanded, Resolved

(* How a post moves. *)
LEMMA RequestSteps ==
  ASSUME Types, [Next]_vars
  PROVE  \/ request' = request
         \/ request' = NoRequest
         \/ Post
         \/ /\ Ingest /\ request.at = "sent"
            /\ request'.at = "ingested" /\ request'.cards = request.cards
         \/ Accept /\ request.at = "ingested" /\ request'.at = "answered"
<1>1. CASE Ingest
  BY <1>1 DEF Ingest, Types, RequestType
<1>2. CASE Accept
  BY <1>2 DEF Accept, Types, RequestType
<1> QED
  BY <1>1, <1>2
     DEF Next, vars, bridge, Grade, CutWhileGrading, Undo, Pair, Refused, SyncFlow, TakeReply, SaveAck,
         PollDone, Leave, Rename, SaveBuild, PowerCut, CardChanged, JobRuns, Work, Reset, Apply, MarkApplied,
         ClearPushed, BuildDeck, Pull, FullDownload, Push, PushRefused, JobFails, Restart, Demanded, Resolved

LEMMA NextPosted ==
  ASSUME Types, VoidInv, CardInv, PostedInv, [Next]_vars
  PROVE  PostedInv'
<1>0. job \in [at : {"none", "queued", "pull", "downloaded", "apply", "mark", "push", "clear", "build",
                     "done", "error", "frozen"}, cards : Cards, pending : SUBSET Review]
  BY DEF Types, BridgeType
<1>1. /\ OnTime' \cap Gone \subseteq OnTime
      /\ Arrived \subseteq Gone
  BY OnTimeSteps DEF Arrived, Gone
<1>2. ASSUME request'.at \in {"sent", "ingested"} PROVE Covers(request'.cards, OnTime' \cap Gone')
  <2>1. CASE Post
    <3>1. log' = log /\ request'.cards = cards
      BY <2>1 DEF Post
    <3> QED
      BY <3>1, OnTimeSteps DEF CardInv, Covers
  <2>2. CASE ~Post
    <3>1. Gone' \subseteq Gone
      BY <2>2, GoneSteps
    <3>2. request.at \in {"sent", "ingested"} /\ request'.cards = request.cards
      BY <1>2, <2>2, RequestSteps DEF NoRequest
    <3>3. OnTime' \cap Gone' \subseteq OnTime \cap Gone
      BY <1>1, <3>1
    <3> QED
      BY <3>2, <3>3, CoversIs DEF PostedInv
  <2> QED
    BY <2>1, <2>2
<1>3. ASSUME InFlight PROVE OnTime' \cap Arrived' \subseteq OnTime \cap Arrived
  <2>1. Arrived' \subseteq Arrived \cup late'
    BY <1>3, ArrivedSteps
  <2> QED
    BY <1>1, <2>1 DEF OnTime
<1>4. ASSUME job'.at = "queued" PROVE Covers(latest', OnTime' \cap Arrived')
  <2>1. CASE Accept
    <3>1. latest' = request.cards /\ request.at = "ingested" /\ Arrived' = Arrived
      BY <2>1 DEF Accept, Arrived, Held, InMirror, InAnki
    <3>2. OnTime' \cap Arrived' \subseteq OnTime \cap Gone
      BY <1>1, <3>1
    <3> QED
      BY <3>1, <3>2, CoversIs DEF PostedInv
  <2>2. CASE ~Accept
    <3>1. job' = job /\ latest' = latest
      BY <1>4, <2>2, JobSteps
    <3>2. InFlight
      BY <1>4, <3>1 DEF InFlight
    <3> QED
      BY <1>3, <1>4, <3>1, <3>2, CoversIs DEF PostedInv
  <2> QED
    BY <2>1, <2>2
<1>5. ASSUME job'.at \in {"pull", "downloaded", "apply"} PROVE Covers(job'.cards, OnTime' \cap Arrived')
  <2>1. CASE Work
    <3>1. job.at = "queued" /\ job'.cards = latest
      BY <1>0, <2>1 DEF Work
    <3>2. InFlight
      BY <3>1 DEF InFlight
    <3> QED
      BY <1>3, <3>1, <3>2, CoversIs DEF PostedInv
  <2>2. CASE ~Work
    <3>1. ~Accept \/ job' = job
      BY <1>5 DEF Accept, NoJob
    <3>2. job.at \in {"pull", "downloaded", "apply"} /\ job'.cards = job.cards
      BY <1>5, <2>2, <3>1, JobSteps
    <3>3. InFlight
      BY <3>2 DEF InFlight
    <3> QED
      BY <1>3, <3>2, <3>3, CoversIs DEF PostedInv
  <2> QED
    BY <2>1, <2>2
<1> QED
  BY <1>2, <1>4, <1>5 DEF PostedInv

LEMMA NextMirror ==
  ASSUME Types, VoidInv, AppliedInv, PostedInv, MirrorInv, [Next]_vars
  PROVE  MirrorInv'
<1>0. job \in [at : {"none", "queued", "pull", "downloaded", "apply", "mark", "push", "clear", "build",
                     "done", "error", "frozen"}, cards : Cards, pending : SUBSET Review]
  BY DEF Types, BridgeType
<1>1. /\ OnTime' \cap Gone \subseteq OnTime
      /\ InMirror \subseteq Gone /\ InAnki \subseteq Gone /\ Held \subseteq Arrived
      /\ InAnki \subseteq InMirror
  BY OnTimeSteps DEF Gone, Arrived, MirrorInv
<1>2. /\ OnTime' \cap InMirror \subseteq OnTime \cap InMirror
      /\ OnTime' \cap InAnki \subseteq OnTime \cap InAnki
  BY <1>1
<1>3. /\ Covers(mirror.cards, OnTime' \cap InMirror)
      /\ Covers(upstream.cards, OnTime' \cap InAnki)
  BY <1>2, CoversIs DEF MirrorInv
<1>4. CASE Apply
  <2> DEFINE touched == {x.of.card : x \in NewRows}
  <2>1. /\ job.at = "apply" /\ UNCHANGED <<device, journal, upstream>>
        /\ mirror' = [rows |-> mirror.rows \cup NewRows,
                      cards |-> [c \in Card |-> IF c \in touched \cap DOMAIN job.cards
                                                THEN job.cards[c] ELSE mirror.cards[c]]]
    BY <1>4 DEF Apply
  <2>2. InMirror \subseteq InMirror' /\ Held' = Held /\ InAnki' = InAnki /\ OnTime' \subseteq OnTime
    BY <2>1, OnTimeSteps DEF InMirror, Held, InAnki, device, card
  <2>3. ASSUME NEW r \in OnTime, r \in InMirror'
        PROVE  r.card \in DOMAIN mirror'.cards /\ mirror'.cards[r.card] >= r.at
    <3>1. r.card \in Card
      BY StandingBefore DEF Review
    <3>2. /\ DOMAIN mirror'.cards = Card
          /\ mirror'.cards[r.card] = IF r.card \in touched \cap DOMAIN job.cards
                                     THEN job.cards[r.card] ELSE mirror.cards[r.card]
      BY <2>1, <3>1
    <3>3. r \in Arrived /\ (r \in InMirror \/ r.card \in touched)
      <4>1. PICK x \in mirror.rows \cup NewRows : x.of = r
        BY <2>1, <2>3 DEF InMirror
      <4> QED
        BY <4>1 DEF NewRows, Arrived, InMirror, Held
    <3>4. r.card \in DOMAIN job.cards /\ job.cards[r.card] >= r.at
      BY <2>1, <3>3 DEF PostedInv, Covers
    <3>5. r \in InMirror => mirror.cards[r.card] >= r.at
      BY DEF MirrorInv, Covers
    <3> QED
      BY <3>1, <3>2, <3>3, <3>4, <3>5
  <2>4. Held \subseteq InMirror'
    <3>1. journal.applied \subseteq InMirror
      BY <2>1 DEF AppliedInv
    <3>2. ASSUME NEW r \in journal.waiting PROVE r \in InMirror'
      <4>1. CASE Rows(r) = {}
        <5>1. [of |-> r, copy |-> 1] \in NewRows
          BY <4>1 DEF NewRows
        <5> QED
          BY <2>1, <5>1 DEF InMirror
      <4>2. CASE Rows(r) # {}
        BY <2>2, <4>2 DEF Rows, InMirror
      <4> QED
        BY <4>1, <4>2
    <3> QED
      BY <2>2, <3>1, <3>2 DEF Held
  <2>5. Covers(upstream'.cards, OnTime' \cap InAnki')
    BY <1>3, <2>1, <2>2
  <2> QED
    BY <1>1, <2>2, <2>3, <2>4, <2>5 DEF MirrorInv, Covers
<1>5. ASSUME ~Apply, job'.at \in {"mark", "push", "clear", "build"} PROVE Held' \ late' \subseteq InMirror'
  <2>1. ~Accept \/ job' = job
    BY <1>5 DEF Accept, NoJob
  <2>2. job.at \in {"mark", "push", "clear", "build"}
    BY <1>5, <2>1, JobSteps
  <2>3. InFlight /\ ~Reset /\ ~FullDownload
    BY <2>2 DEF InFlight, Reset, FullDownload, JobStep
  <2>4. Held' \subseteq Held \cup late'
    <3>1. CASE MarkApplied \/ ClearPushed
      BY <3>1, HeldSteps
    <3>2. CASE journal' = journal
      BY <3>2 DEF Held
    <3> QED
      BY <2>3, <3>1, <3>2, JournalSteps, ArrivedSteps
  <2>5. InMirror \subseteq InMirror'
    <3>1. CASE Pull \/ Push
      BY <3>1, ExchangeIs DEF Pull, Push
    <3>2. CASE mirror' = mirror
      BY <3>2 DEF InMirror
    <3> QED
      BY <1>5, <2>3, <3>1, <3>2, ArrivedSteps
         DEF Next, vars, bridge, Grade, CutWhileGrading, Undo, Pair, Post, Refused, SyncFlow, TakeReply, SaveAck,
             PollDone, Leave, Rename, SaveBuild, PowerCut, CardChanged, Accept, JobRuns, Work, MarkApplied,
             ClearPushed, BuildDeck, PushRefused, JobFails, Restart, Demanded, Resolved
  <2> QED
    BY <2>2, <2>4, <2>5, HistoryGrows DEF MirrorInv
<1>6. CASE Pull \/ Push
  <2>1. ~Apply
    BY <1>0, <1>6 DEF Pull, Push, JobStep, Apply
  <2>2. /\ mirror' = upstream' /\ mirror'.cards = mirror.cards
        /\ InMirror' = InMirror /\ InAnki' = InMirror
    BY <1>1, <1>6, ExchangeIs DEF Pull, Push
  <2>3. Covers(mirror'.cards, OnTime' \cap InMirror') /\ Covers(upstream'.cards, OnTime' \cap InAnki')
    BY <1>3, <2>2
  <2> QED
    BY <1>5, <2>1, <2>2, <2>3 DEF MirrorInv
<1>7. CASE FullDownload
  <2>1. mirror' = upstream /\ upstream' = upstream /\ ~Apply
    BY <1>0, <1>7 DEF FullDownload, JobStep, Apply
  <2>2. InMirror' = InAnki /\ InAnki' = InAnki
    BY <2>1 DEF InMirror, InAnki
  <2>3. Covers(mirror'.cards, OnTime' \cap InMirror') /\ Covers(upstream'.cards, OnTime' \cap InAnki')
    BY <1>3, <2>1, <2>2
  <2> QED
    BY <1>5, <2>1, <2>2, <2>3 DEF MirrorInv
<1>8. ASSUME UNCHANGED <<mirror, upstream>>, ~Apply PROVE MirrorInv'
  <2>1. InMirror' = InMirror /\ InAnki' = InAnki
    BY <1>8 DEF InMirror, InAnki
  <2>2. Covers(mirror'.cards, OnTime' \cap InMirror') /\ Covers(upstream'.cards, OnTime' \cap InAnki')
    BY <1>3, <1>8, <2>1
  <2> QED
    BY <1>1, <1>5, <1>8, <2>1, <2>2 DEF MirrorInv
<1>9. CASE UNCHANGED <<mirror, upstream>>
  BY <1>4, <1>8, <1>9
<1> QED
  BY <1>4, <1>6, <1>7, <1>9
     DEF Next, vars, bridge, Grade, CutWhileGrading, Undo, Pair, Post, Refused, SyncFlow, TakeReply, SaveAck,
         PollDone, Leave, Rename, SaveBuild, PowerCut, CardChanged, Ingest, Accept, JobRuns, Work, Reset,
         MarkApplied, ClearPushed, BuildDeck, PushRefused, JobFails, Restart, Demanded, Resolved

LEMMA NextDeck ==
  ASSUME Types, VoidInv, SentInv, PostedInv, MirrorInv, DeckInv, [Next]_vars
  PROVE  DeckInv'
<1>1. ASSUME job'.at = "done", Awaited' PROVE Covers(build'.cards, OnTime')
  <2>1. ~Accept
    BY <1>1 DEF Accept, NoJob, InFlight
  <2>2. log' = log /\ Awaited
    <3>1. CASE TakeReply \/ SaveAck
      BY <3>1 DEF TakeReply, SaveAck, Awaited, card
    <3>2. CASE UNCHANGED <<log, flow>> /\ (request' = request \/ request'.at # "answered")
      BY <1>1, <3>2 DEF Awaited
    <3>3. CASE flow' = flow /\ flow = Idle
      BY <1>1, <3>3 DEF Awaited, Idle
    <3>4. CASE flow'.at \in {"idle", "fetched", "renamed"}
      BY <1>1, <3>4 DEF Awaited
    <3>5. CASE Post
      BY <1>1, <3>5 DEF Post, Awaited
    <3>6. CASE Rename
      BY <3>4, <3>6 DEF Rename, Types, DeviceType
    <3>7. CASE Pair \/ Refused \/ PollDone \/ Leave \/ SaveBuild \/ PowerCut
      BY <3>3, <3>4, <3>7 DEF Pair, Refused, PollDone, Leave, SaveBuild, PowerCut, Idle
    <3>8. CASE Undo \/ CardChanged \/ \E c \in Card : Grade(c) \/ CutWhileGrading(c)
      BY <3>3, <3>8 DEF Undo, CardChanged, Grade, CutWhileGrading, Reviewing
    <3>9. CASE UNCHANGED device \/ UNCHANGED vars
      <4>1. UNCHANGED <<log, flow>>
        BY <3>9 DEF device, card, vars
      <4>2. request' = request \/ request'.at # "answered" \/ Post
        BY <2>1, RequestSteps DEF NoRequest
      <4> QED
        BY <3>2, <3>5, <4>1, <4>2
    <3> QED
      BY <2>1, <3>1, <3>5, <3>6, <3>7, <3>8, <3>9
         DEF Next, SyncFlow, Ingest, JobRuns, Work, Reset, Apply, MarkApplied, ClearPushed, BuildDeck, Pull,
             FullDownload, Push, PushRefused, JobFails, Restart, Demanded, Resolved
  <2>3. CASE BuildDeck
    <3>1. job.at = "build" /\ build'.cards = mirror.cards
      <4>1. build \in BuiltDeck
        BY DEF Types, BridgeType
      <4> QED
        BY <2>3, <4>1 DEF BuildDeck, JobStep
    <3>2. OnTime \subseteq InMirror
      BY <2>2, <3>1 DEF SentInv, Awaited, Safe, MirrorInv, Standings, OnTime
    <3>3. OnTime' \subseteq OnTime \cap InMirror
      BY <2>2, <3>2, OnTimeSteps
    <3> QED
      BY <3>1, <3>3, CoversIs DEF MirrorInv
  <2>4. CASE ~BuildDeck
    <3>1. job' = job
      BY <1>1, <2>1, <2>4, JobSteps
    <3>2. build' = build
      BY <2>4 DEF Next, vars, bridge, Grade, CutWhileGrading, Undo, Pair, Post, Refused, SyncFlow, TakeReply,
          SaveAck, PollDone, Leave, Rename, SaveBuild, PowerCut, CardChanged, Ingest, Accept, JobRuns, Work,
          Reset, Apply, MarkApplied, ClearPushed, Pull, FullDownload, Push, PushRefused, JobFails, Restart,
          Demanded, Resolved
    <3> QED
      BY <1>1, <2>2, <3>1, <3>2, OnTimeSteps DEF DeckInv, Covers
  <2> QED
    BY <2>3, <2>4
<1>2. ASSUME flow'.at = "fetched" PROVE Covers(flow'.build.cards, OnTime')
  <2>1. CASE PollDone
    <3>1. log' = log /\ flow' = [at |-> "fetched", build |-> build] /\ job.at = "done" /\ Awaited
      BY <1>2, <2>1 DEF PollDone, Idle, Awaited, card
    <3> QED
      BY <3>1, OnTimeSteps DEF DeckInv, Covers
  <2>2. CASE flow' = flow /\ log' = log
    BY <1>2, <2>2, OnTimeSteps DEF DeckInv, Covers
  <2>3. CASE flow' = flow /\ flow = Idle
    BY <1>2, <2>3 DEF Idle
  <2>4. ~(Pair \/ Post \/ Refused \/ TakeReply \/ SaveAck \/ Leave \/ SaveBuild \/ PowerCut) \/ flow' = flow
    BY <1>2 DEF Pair, Post, Refused, TakeReply, SaveAck, Leave, SaveBuild, PowerCut, Idle
  <2>5. ~Rename
    BY <1>2 DEF Rename, Types, DeviceType
  <2>6. CASE flow' # flow
    BY <2>1, <2>4, <2>5, <2>6
       DEF Next, vars, device, SyncFlow, Grade, CutWhileGrading, Undo, CardChanged, Ingest, Accept, JobRuns, Work,
           Reset, Apply, MarkApplied, ClearPushed, BuildDeck, Pull, FullDownload, Push, PushRefused, JobFails,
           Restart, Demanded, Resolved
  <2>7. CASE flow' = flow
    <3>1. \/ \E c \in Card : Grade(c) \/ CutWhileGrading(c)
          \/ Undo \/ CardChanged \/ log' = log
      BY StandingSteps
    <3> QED
      BY <2>2, <2>3, <2>7, <3>1 DEF Undo, CardChanged, Grade, CutWhileGrading, Reviewing
  <2> QED
    BY <2>6, <2>7
<1> QED
  BY <1>1, <1>2 DEF DeckInv

LEMMA InitSchedule == Init => ScheduleInv
<1> SUFFICES ASSUME Init PROVE CardInv /\ PostedInv /\ MirrorInv /\ DeckInv
  BY DEF ScheduleInv
<1>1. OnTime = {} /\ undo = NoUndo /\ InAnki = {} /\ InMirror = {} /\ Held = {}
  BY NoneStand DEF Init, Standings, OnTime, InAnki, InMirror, Held
<1>2. CardInv /\ PostedInv
  BY <1>1 DEF Init, CardInv, PostedInv, Covers, NoRequest, NoJob
<1>3. MirrorInv /\ DeckInv
  BY <1>1 DEF Init, MirrorInv, DeckInv, Covers, NoJob, Idle
<1> QED
  BY <1>2, <1>3

LEMMA NextSchedule ==
  ASSUME Types, OnceInv, JournalInv, ScheduleInv, [Next]_vars
  PROVE  ScheduleInv'
<1> SUFFICES ASSUME mishap' = {} PROVE CardInv' /\ PostedInv' /\ MirrorInv' /\ DeckInv'
  BY DEF ScheduleInv
<1>1. mishap = {}
  BY HistoryGrows
<1>2. VoidInv /\ SentInv /\ AppliedInv /\ CardInv /\ PostedInv /\ MirrorInv /\ DeckInv
  BY <1>1 DEF OnceInv, JournalInv, ScheduleInv
<1> QED
  BY <1>2, NextCard, NextPosted, NextMirror, NextDeck

(* Where no bridge was stopped right after a full download and no power    *)
(* cut left the deck without its cards, the schedule of every card         *)
(* accounts for every review in the log that did not reach the bridge      *)
(* while a job was under way, whatever decks came back in between.         *)
THEOREM ScheduleIsKept == Spec => []DeckKeepsReviews
<1>1. Init => Types /\ OnceInv /\ JournalInv /\ ScheduleInv
  BY InitTypes, InitOnce, InitJournal, InitSchedule
<1>2. Types /\ OnceInv /\ JournalInv /\ ScheduleInv /\ [Next]_vars
      => (Types /\ OnceInv /\ JournalInv /\ ScheduleInv)'
  BY NextTypes, NextVoid, NextCopy, NextJournal, NextSchedule DEF OnceInv
<1>3. ScheduleInv => DeckKeepsReviews
  BY DEF ScheduleInv, CardInv, Covers, Standings, OnTime, DeckKeepsReviews
<1> QED
  BY <1>1, <1>2, <1>3, PTL DEF Spec
=============================================================================
