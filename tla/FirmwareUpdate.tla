--------------------------- MODULE FirmwareUpdate ---------------------------
(***************************************************************************)
(* Installing a firmware image into the app partition that is not running, *)
(* and telling the bootloader to start it.  Source:                        *)
(* src/network/FirmwareFlasher.cpp and OtaBootSwitch.cpp, and the three    *)
(* callers: the SD screen, the developer server and the update screen,     *)
(* whose download is in OtaUpdater.cpp.                                    *)
(*                                                                         *)
(* The flash is NOR: a chunk is erased, written once, or spoilt by being   *)
(* written again or cut off.  otadata is two sectors, each with a sequence *)
(* number whose parity names a partition.  The power may go at any moment. *)
(* The bootloader, ESP-IDF's partition choice and its esp_ota_* calls are  *)
(* not in this repository; they are modelled from how OtaBootSwitch.h and  *)
(* OtaUpdater.cpp describe and use them.                                   *)
(*                                                                         *)
(* unfinished is history: a developer flash was begun over an image the    *)
(* update screen had made the boot target and not started yet, and no      *)
(* flash has completed since.                                              *)
(*                                                                         *)
(* "Fault" marks a plausible bug in the definition that follows it; no     *)
(* specification uses one.                                                 *)
(***************************************************************************)
EXTENDS Integers, FiniteSets

CONSTANTS
  Image,        \* what may be in a file or behind a release's address
  Whole,        \* the images that pass the integrity check
  Ours,         \* the images for this chip and board, and the untagged ones
  Size,         \* the chunks of an image
  Chunks,       \* the chunks of an app partition
  Block,        \* the chunks erased at a time
  FirstSeq,     \* bound: the sequence numbers otadata may start with
  LastSeq,      \* bound: no install begins above it
  Erased, Torn  \* what a chunk holds that is of no image

ASSUME ImageAssumption ==
  /\ Whole \subseteq Image /\ Ours \subseteq Image
  /\ Erased \notin Image /\ Torn \notin Image /\ Erased # Torn
  /\ Size \in [Image -> Nat \ {0}]

ASSUME BoundsAssumption ==
  Chunks \in Nat /\ Block \in Nat \ {0} /\ FirstSeq \in Nat /\ LastSeq \in Nat

VARIABLES
  flash,        \* the two app partitions
  otadata,      \* the two entries the bootloader reads
  running,      \* the partition the program runs from
  card,         \* the image in the file to be flashed
  stage,        \* how far an install has got
  under,        \* what a developer flash that fails returns to
  how,          \* who is installing
  image,        \* what is being written
  pos, erased,  \* chunks written, chunks erased
  pick,         \* the otadata entry decided on
  unfinished

install == <<stage, under, how, image, pos, erased, pick>>
vars == <<flash, otadata, running, card, install, unfinished>>

Partition == 0..1
Chunk == 0..(Chunks - 1)
Entry == [seq : Nat \ {0}, sound : BOOLEAN, refused : BOOLEAN]
Blank == [seq |-> 1, sound |-> FALSE, refused |-> FALSE]
Contents == [Chunk -> Image \cup {Erased, Torn}]

Valid(i) == i \in Whole \cap Ours /\ Size[i] =< Chunks
Holds(p, i) == Size[i] =< Chunks /\ \A k \in Chunk : k < Size[i] => p[k] = i
FitToRun(p) == \E i \in Image : Valid(i) /\ Holds(p, i)

----------------------------------------------------------------------------
(* otadata. *)

Usable(e) == e.sound /\ ~e.refused

Chosen(od) ==
  {i \in 0..1 : /\ Usable(od[i])
                /\ \A j \in 0..1 : Usable(od[j]) =>
                     od[j].seq < od[i].seq \/ (od[j].seq = od[i].seq /\ i =< j)}

ActiveSeq(od) == IF 0 \in Chosen(od) THEN od[0].seq
                 ELSE IF 1 \in Chosen(od) THEN od[1].seq ELSE 0

(* Fault: the entry in use is the one rewritten. *)
SpareIsActive(od) == IF 1 \in Chosen(od) THEN 1 ELSE 0

Spare(od) == IF 0 \in Chosen(od) THEN 1 ELSE 0

(* Fault: the next number, whichever partition it names. *)
NextSeqPlain(seq, dest) == seq + 1

NextSeq(seq, dest) == IF seq % 2 = dest THEN seq + 1 ELSE seq + 2

(* The partition the bootloader tries first: the first one where otadata   *)
(* has no usable entry.  It tries the other where that one holds no whole  *)
(* image.                                                                  *)
Named(seq) == (seq - 1) % 2
Target(od) == IF Chosen(od) = {} THEN 0 ELSE Named(ActiveSeq(od))
Bootable(p) == \E i \in Whole : Holds(p, i)

(* Where an install goes: the partition the program does not run from.     *)
Dest == 1 - running

----------------------------------------------------------------------------
Init ==
  /\ flash \in [Partition -> {[k \in Chunk |-> IF k < Size[i] THEN i ELSE Erased] : i \in Image}]
  /\ otadata \in [0..1 -> [seq : 1..FirstSeq, sound : {TRUE}, refused : BOOLEAN] \cup {Blank}]
  /\ running = Target(otadata) /\ FitToRun(flash[running])
  /\ card \in Image
  /\ stage = "idle" /\ under = "idle" /\ how = "sd" /\ image = card
  /\ pos = 0 /\ erased = 0 /\ pick = [slot |-> 0, seq |-> 1]
  /\ unfinished = FALSE

(* The file changes: the card is taken to another reader, or an upload     *)
(* replaces it.  The second check and the flash are one call on the loop   *)
(* task, and a card put in during it answers no read before the next       *)
(* Storage.begin() (main.cpp:608): to the flash that is a read that fails. *)
ChangeFile ==
  /\ stage \in {"idle", "confirm"}
  /\ card' \in Image
  /\ UNCHANGED <<flash, otadata, running, install, unfinished>>

Starts(i, who, back) ==
  /\ ActiveSeq(otadata) + 2 =< LastSeq
  /\ stage' = "stream" /\ under' = back /\ how' = who /\ image' = i
  /\ pos' = 0 /\ erased' = 0
  /\ UNCHANGED <<otadata, running, card, pick>>

(* The file is checked before the prompt and, because the card may have    *)
(* been changed since, again before it is flashed.                         *)
PickFile ==
  /\ stage = "idle" /\ Valid(card)
  /\ stage' = "confirm"
  /\ UNCHANGED <<flash, otadata, running, card, under, how, image, pos, erased, pick, unfinished>>

Decline ==
  /\ stage = "confirm"
  /\ stage' = "idle"
  /\ UNCHANGED <<flash, otadata, running, card, under, how, image, pos, erased, pick, unfinished>>

FlashFile ==
  /\ stage = "confirm" /\ Valid(card)
  /\ Starts(card, "sd", "idle")
  /\ UNCHANGED <<flash, unfinished>>

FileRefused ==
  /\ stage = "confirm" /\ ~Valid(card)
  /\ stage' = "idle"
  /\ UNCHANGED <<flash, otadata, running, card, under, how, image, pos, erased, pick, unfinished>>

(* A request to the developer server, taken between two passes of any      *)
(* screen, the update screen about to restart among them.                  *)
DevFlash ==
  /\ stage \in {"idle", "confirm"} \/ (stage = "restart" /\ how = "ota")
  /\ Valid(card)
  /\ Starts(card, "dev", stage)
  /\ unfinished' = (unfinished \/ stage = "restart")
  /\ UNCHANGED flash

(* esp_ota_begin, its size not told, erases the whole partition.           *)
Download(i) ==
  /\ stage = "idle" /\ Size[i] =< Chunks
  /\ ActiveSeq(otadata) + 2 =< LastSeq
  /\ stage' = "stream" /\ under' = "idle" /\ how' = "ota" /\ image' = i
  /\ pos' = 0 /\ erased' = Chunks
  /\ flash' = [flash EXCEPT ![Dest] = [k \in Chunk |-> Erased]]
  /\ UNCHANGED <<otadata, running, card, pick, unfinished>>

----------------------------------------------------------------------------
(* The image goes across, block by block and chunk by chunk.               *)

NextBlock == {k \in Chunk : pos =< k /\ k < pos + Block}

EraseBlock ==
  /\ stage = "stream" /\ pos < Size[image] /\ pos >= erased
  /\ flash' = [flash EXCEPT ![Dest] =
                 [k \in Chunk |-> IF k \in NextBlock THEN Erased ELSE flash[Dest][k]]]
  /\ erased' = IF pos + Block =< Chunks THEN pos + Block ELSE Chunks
  /\ UNCHANGED <<otadata, running, card, stage, under, how, image, pos, pick, unfinished>>

(* A chunk that is not erased cannot be written over.                      *)
Over(old, new) == IF old = Erased THEN new ELSE Torn

WriteChunk ==
  /\ stage = "stream" /\ pos < Size[image] /\ pos < erased
  /\ flash' = [flash EXCEPT ![Dest][pos] = Over(@, image)]
  /\ pos' = pos + 1
  /\ UNCHANGED <<otadata, running, card, stage, under, how, image, erased, pick, unfinished>>

(* An erase or a write that fails leaves any part of what it was to do; a  *)
(* read, the download or the device check may fail with nothing touched.   *)
StreamFails ==
  /\ stage = "stream"
  /\ \E spoilt \in SUBSET NextBlock : \E mark \in {Erased, Torn} :
       flash' = [flash EXCEPT ![Dest] =
                   [k \in Chunk |-> IF k \in spoilt THEN mark ELSE flash[Dest][k]]]
  /\ stage' = under
  /\ UNCHANGED <<otadata, running, card, under, how, image, pos, erased, pick, unfinished>>

(* A download was not checked before it was written: esp_ota_end verifies  *)
(* it, and an image for another device has been refused by then.           *)
StreamEnds ==
  /\ stage = "stream" /\ pos = Size[image]
  /\ stage' = IF how = "ota" /\ ~Valid(image) THEN under ELSE "switch"
  /\ UNCHANGED <<flash, otadata, running, card, under, how, image, pos, erased, pick, unfinished>>

----------------------------------------------------------------------------
(* switchTo: read both entries, erase the spare one, write it.             *)

EraseEntry ==
  /\ stage = "switch"
  /\ pick' = [slot |-> Spare(otadata), seq |-> NextSeq(ActiveSeq(otadata), Dest)]
  /\ otadata' = [otadata EXCEPT ![pick'.slot] = Blank]
  /\ stage' = "writeEntry"
  /\ UNCHANGED <<flash, running, card, under, how, image, pos, erased, unfinished>>

WriteEntry ==
  /\ stage = "writeEntry"
  /\ otadata' = [otadata EXCEPT ![pick.slot] =
                   [seq |-> pick.seq, sound |-> TRUE, refused |-> FALSE]]
  /\ stage' = "restart" /\ unfinished' = FALSE
  /\ UNCHANGED <<flash, running, card, under, how, image, pos, erased, pick>>

(* Either flash operation may fail, an entry cut short failing its CRC.    *)
SwitchFails ==
  /\ \/ stage = "switch" /\ UNCHANGED otadata
     \/ stage = "switch" /\ otadata' = [otadata EXCEPT ![Spare(otadata)] = Blank]
     \/ /\ stage = "writeEntry"
        /\ otadata' = [otadata EXCEPT ![pick.slot] =
                         [seq |-> pick.seq, sound |-> FALSE, refused |-> FALSE]]
  /\ stage' = under
  /\ UNCHANGED <<flash, running, card, under, how, image, pos, erased, pick, unfinished>>

----------------------------------------------------------------------------
Boots ==
  /\ running' = IF Bootable(flash[Target(otadata)]) THEN Target(otadata) ELSE 1 - Target(otadata)
  /\ stage' = "idle" /\ under' = "idle" /\ how' = "sd" /\ image' = card
  /\ pos' = 0 /\ erased' = 0 /\ pick' = [slot |-> 0, seq |-> 1]
  /\ UNCHANGED <<flash, otadata, card, unfinished>>

Restart == stage = "restart" /\ Boots

PowerCut == Boots

Next ==
  \/ ChangeFile \/ PickFile \/ Decline \/ FlashFile \/ FileRefused \/ DevFlash
  \/ \E i \in Image : Download(i)
  \/ EraseBlock \/ WriteChunk \/ StreamFails \/ StreamEnds
  \/ EraseEntry \/ WriteEntry \/ SwitchFails
  \/ Restart \/ PowerCut

Spec == Init /\ [][Next]_vars

----------------------------------------------------------------------------
TypeOK ==
  /\ flash \in [Partition -> Contents]
  /\ otadata \in [0..1 -> Entry]
  /\ running \in Partition /\ card \in Image
  /\ stage \in {"idle", "confirm", "stream", "switch", "writeEntry", "restart"}
  /\ under \in {"idle", "confirm", "restart"} /\ how \in {"sd", "dev", "ota"}
  /\ image \in Image /\ pos \in Nat /\ erased \in Nat
  /\ pick \in [slot : 0..1, seq : Nat \ {0}]
  /\ unfinished \in BOOLEAN

(* Whenever the power goes, the bootloader has an image to start: the one   *)
(* the program runs from stays whole, in a developer flash over an         *)
(* unstarted update too, and where none of those is unfinished, the        *)
(* partition it tries first holds a whole image for this device.           *)
(* FirmwareFlasher.cpp:276-278, OtaBootSwitch.cpp:68-79,                   *)
(* partitions.csv:14-16.                                                   *)
TargetIsFit ==
  /\ Bootable(flash[running])
  /\ ~unfinished => FitToRun(flash[Target(otadata)])

(* An install that reports success has put a fit image where it will be    *)
(* started from, whatever otadata held before.  A developer flash that     *)
(* failed over it leaves only the second half true.  FirmwareFlasher.cpp   *)
(* :350-354, OtaBootSwitch.cpp:57-66.                                      *)
SwitchTakes ==
  stage = "restart" =>
    /\ Target(otadata) = Dest
    /\ ~unfinished => Valid(image) /\ Holds(flash[Dest], image)

(* The two halves of TargetIsFit.                                          *)
RunningBoots == Bootable(flash[running])
TargetFits == ~unfinished => FitToRun(flash[Target(otadata)])

(* What the above rest on: until the switch the entries name the partition *)
(* that runs, and the destination is filled with the image from the front. *)
Unswitched ==
  ~unfinished /\ stage # "restart" => Target(otadata) = running /\ FitToRun(flash[running])

Filling ==
  /\ stage = "stream" =>
       /\ pos =< Size[image] /\ Size[image] =< Chunks /\ erased =< Chunks
       /\ how # "ota" => Valid(image)
       /\ \A k \in Chunk : /\ k < pos => flash[Dest][k] = image
                           /\ pos =< k /\ k < erased => flash[Dest][k] = Erased
  /\ stage \in {"switch", "writeEntry"} => Valid(image) /\ Holds(flash[Dest], image)

Picked ==
  stage = "writeEntry" =>
    /\ pick = [slot |-> Spare(otadata), seq |-> NextSeq(ActiveSeq(otadata), Dest)]
    /\ ~Usable(otadata[pick.slot])

(* Only a developer flash over an image not started yet can fail back to   *)
(* the restart that image was waiting for.                                 *)
Overlapping == under = "restart" /\ stage # "restart" => unfinished /\ Target(otadata) = Dest

IndInv ==
  /\ TypeOK /\ RunningBoots /\ TargetFits /\ SwitchTakes
  /\ Unswitched /\ Filling /\ Picked /\ Overlapping
=============================================================================
