------------------------ MODULE FirmwareUpdateProofs ------------------------
(***************************************************************************)
(* That a power cut at any moment of an install leaves the reader with an  *)
(* image to start, for every set of images, every size of partition and of *)
(* erase block, and whatever otadata held.                                 *)
(***************************************************************************)
EXTENDS FirmwareUpdate, TLAPS

----------------------------------------------------------------------------
(* otadata. *)

(* There is one entry in use, or none. *)
LEMMA ChosenCases ==
  ASSUME NEW od \in [0..1 -> Entry]
  PROVE  \/ /\ Chosen(od) = {} /\ ~Usable(od[0]) /\ ~Usable(od[1])
         \/ /\ Chosen(od) = {0} /\ Usable(od[0])
            /\ Usable(od[1]) => od[1].seq =< od[0].seq
         \/ /\ Chosen(od) = {1} /\ Usable(od[1])
            /\ Usable(od[0]) => od[0].seq < od[1].seq
<1>1. 0..1 = {0, 1}
  OBVIOUS
<1>2. od[0].seq \in Nat /\ od[1].seq \in Nat
  BY DEF Entry
<1>3. CASE ~Usable(od[0]) /\ ~Usable(od[1])
  BY <1>1, <1>3 DEF Chosen
<1>4. CASE Usable(od[0]) /\ (Usable(od[1]) => od[1].seq =< od[0].seq)
  BY <1>1, <1>2, <1>4 DEF Chosen
<1>5. CASE Usable(od[1]) /\ (Usable(od[0]) => od[0].seq < od[1].seq)
  BY <1>1, <1>2, <1>5 DEF Chosen
<1> QED
  BY <1>2, <1>3, <1>4, <1>5

LEMMA ActiveSeqNat ==
  ASSUME NEW od \in [0..1 -> Entry]
  PROVE  ActiveSeq(od) \in Nat /\ Spare(od) \in 0..1 /\ Target(od) \in Partition
<1>1. od[0].seq \in Nat \ {0} /\ od[1].seq \in Nat \ {0}
  BY DEF Entry
<1> QED
  BY <1>1 DEF ActiveSeq, Spare, Target, Named, Partition

LEMMA NextSeqFacts ==
  ASSUME NEW seq \in Nat, NEW dest \in 0..1
  PROVE  /\ NextSeq(seq, dest) \in Nat \ {0} /\ NextSeq(seq, dest) > seq
         /\ Named(NextSeq(seq, dest)) = dest
<1>1. seq % 2 \in 0..1
  OBVIOUS
<1>2. CASE seq % 2 = dest
  BY <1>2 DEF NextSeq, Named
<1>3. CASE seq % 2 # dest
  <2>1. (seq + 1) % 2 = 1 - (seq % 2)
    OBVIOUS
  <2> QED
    BY <1>1, <1>3, <2>1 DEF NextSeq, Named
<1> QED
  BY <1>2, <1>3

(* Erasing or spoiling the spare entry changes nothing the bootloader      *)
(* looks at.                                                               *)
LEMMA SpareIsFree ==
  ASSUME NEW od \in [0..1 -> Entry], NEW e \in Entry, ~Usable(e)
  PROVE  LET new == [od EXCEPT ![Spare(od)] = e]
         IN  /\ new \in [0..1 -> Entry]
             /\ Target(new) = Target(od) /\ Spare(new) = Spare(od)
             /\ ActiveSeq(new) = ActiveSeq(od) /\ ~Usable(new[Spare(od)])
<1> DEFINE new == [od EXCEPT ![Spare(od)] = e]
<1>1. new \in [0..1 -> Entry] /\ Spare(od) \in 0..1
  BY ActiveSeqNat
<1>2. CASE Chosen(od) = {}
  <2>1. Spare(od) = 0 /\ ~Usable(new[0]) /\ ~Usable(new[1])
    BY <1>2, ChosenCases DEF Spare
  <2>2. Chosen(new) = {}
    BY <1>1, <2>1, ChosenCases
  <2>3. ActiveSeq(new) = 0 /\ ActiveSeq(od) = 0 /\ Target(new) = 0 /\ Target(od) = 0 /\ Spare(new) = 0
    BY <1>2, <2>2 DEF Target, Spare, ActiveSeq
  <2> QED
    BY <1>1, <2>1, <2>3
<1>3. CASE Chosen(od) = {0}
  <2>1. Spare(od) = 1 /\ Usable(new[0]) /\ ~Usable(new[1]) /\ new[0] = od[0]
    BY <1>3, ChosenCases DEF Spare
  <2>2. Chosen(new) = {0}
    BY <1>1, <2>1, ChosenCases
  <2>3. ActiveSeq(new) = new[0].seq /\ ActiveSeq(od) = od[0].seq /\ Spare(new) = 1
    BY <1>3, <2>2 DEF Spare, ActiveSeq
  <2>4. Target(new) = Named(ActiveSeq(new)) /\ Target(od) = Named(ActiveSeq(od))
    BY <1>3, <2>2 DEF Target
  <2> QED
    BY <1>1, <2>1, <2>3, <2>4
<1>4. CASE Chosen(od) = {1}
  <2>1. Spare(od) = 0 /\ Usable(new[1]) /\ ~Usable(new[0]) /\ new[1] = od[1]
    BY <1>4, ChosenCases DEF Spare
  <2>2. Chosen(new) = {1}
    BY <1>1, <2>1, ChosenCases
  <2>3. ActiveSeq(new) = new[1].seq /\ ActiveSeq(od) = od[1].seq /\ Spare(new) = 0
    BY <1>4, <2>2 DEF Spare, ActiveSeq
  <2>4. Target(new) = Named(ActiveSeq(new)) /\ Target(od) = Named(ActiveSeq(od))
    BY <1>4, <2>2 DEF Target
  <2> QED
    BY <1>1, <2>1, <2>3, <2>4
<1> QED
  BY <1>2, <1>3, <1>4, ChosenCases

(* Writing the spare entry with the next number makes its partition the    *)
(* one that is started, whatever the entries held.                         *)
LEMMA WriteTakes ==
  ASSUME NEW od \in [0..1 -> Entry], NEW dest \in 0..1, NEW e \in Entry,
         Usable(e), e.seq = NextSeq(ActiveSeq(od), dest)
  PROVE  LET new == [od EXCEPT ![Spare(od)] = e]
         IN  new \in [0..1 -> Entry] /\ Target(new) = dest
<1> DEFINE new == [od EXCEPT ![Spare(od)] = e]
<1>1. new \in [0..1 -> Entry] /\ Spare(od) \in 0..1
  BY ActiveSeqNat
<1>2. e.seq \in Nat /\ e.seq > ActiveSeq(od) /\ Named(e.seq) = dest
  BY ActiveSeqNat, NextSeqFacts
<1>3. ASSUME Chosen(od) = {0} PROVE Target(new) = dest
  <2>1. new[1] = e /\ new[0] = od[0] /\ ActiveSeq(od) = od[0].seq
    BY <1>3 DEF Spare, ActiveSeq
  <2>2. od[0].seq \in Nat
    BY DEF Entry
  <2>3. Chosen(new) = {1}
    <3>1. Usable(new[1]) /\ new[0].seq < new[1].seq
      BY <1>2, <2>1, <2>2
    <3>2. new[0].seq \in Nat /\ new[1].seq \in Nat
      BY <1>2, <2>1, <2>2
    <3> HIDE DEF new
    <3> QED
      BY <1>1, <3>1, <3>2, ChosenCases
  <2>4. ActiveSeq(new) = e.seq
    BY <2>1, <2>3 DEF ActiveSeq
  <2>5. Target(new) = Named(e.seq)
    BY <2>3, <2>4 DEF Target
  <2> QED
    BY <1>2, <2>5
<1>4. ASSUME Chosen(od) # {0} PROVE Target(new) = dest
  <2>1. new[0] = e /\ new[1] = od[1]
    BY <1>4, ChosenCases DEF Spare
  <2>2. Usable(od[1]) => ActiveSeq(od) = od[1].seq
    BY <1>4, ChosenCases DEF ActiveSeq
  <2>3. od[1].seq \in Nat
    BY DEF Entry
  <2>4. Chosen(new) = {0}
    <3>1. Usable(new[0]) /\ (Usable(new[1]) => new[1].seq < new[0].seq)
      BY <1>2, <2>1, <2>2
    <3>2. new[0].seq \in Nat /\ new[1].seq \in Nat
      BY <1>2, <2>1, <2>3
    <3> HIDE DEF new
    <3> QED
      BY <1>1, <3>1, <3>2, ChosenCases
  <2>5. ActiveSeq(new) = e.seq
    BY <2>1, <2>4 DEF ActiveSeq
  <2>6. Target(new) = Named(e.seq)
    BY <2>4, <2>5 DEF Target
  <2> QED
    BY <1>2, <2>6
<1>5. Target(new) = dest
  BY <1>3, <1>4
<1> QED
  BY <1>1, <1>5

----------------------------------------------------------------------------
(* What an install may disturb. *)

(* The partition the program runs from is not the destination. *)
LEMMA DestIsOther ==
  ASSUME TypeOK
  PROVE  Dest \in Partition /\ Dest # running
BY DEF TypeOK, Dest, Partition

LEMMA RunningKept ==
  ASSUME TypeOK, NEW f \in Contents, flash' = [flash EXCEPT ![Dest] = f], UNCHANGED running
  PROVE  /\ flash' \in [Partition -> Contents]
         /\ flash'[running] = flash[running] /\ flash'[Dest] = f /\ Dest' = Dest
BY DestIsOther DEF TypeOK, Dest

LEMMA FitBoots ==
  ASSUME NEW p, FitToRun(p)
  PROVE  Bootable(p)
BY DEF FitToRun, Bootable, Valid

(* A chunk of the partition is a chunk number. *)
LEMMA ImageFacts ==
  ASSUME NEW i \in Image
  PROVE  Size[i] \in Nat \ {0} /\ i # Erased /\ i # Torn
BY ImageAssumption

LEMMA FirmwareInit == Init => IndInv
<1> SUFFICES ASSUME Init PROVE IndInv
  OBVIOUS
<1>1. Blank \in Entry
  BY DEF Blank, Entry
<1>2. otadata \in [0..1 -> Entry]
  <2>1. ASSUME NEW e \in [seq : 1..FirstSeq, sound : {TRUE}, refused : BOOLEAN]
        PROVE  e \in Entry
    <3>1. e = [seq |-> e.seq, sound |-> e.sound, refused |-> e.refused]
      OBVIOUS
    <3>2. e.seq \in Nat \ {0}
      BY BoundsAssumption
    <3>3. e.sound \in {TRUE} /\ e.refused \in BOOLEAN
      OBVIOUS
    <3>4. e.sound \in BOOLEAN
      BY <3>3, Zenon
    <3> QED
      BY <3>1, <3>2, <3>3, <3>4 DEF Entry
  <2> QED
    BY <1>1, <2>1 DEF Init
<1>3. running \in Partition
  BY <1>2, ActiveSeqNat DEF Init
<1>4. flash \in [Partition -> Contents]
  <2>1. ASSUME NEW i \in Image
        PROVE  [k \in Chunk |-> IF k < Size[i] THEN i ELSE Erased] \in Contents
    BY DEF Contents
  <2> QED
    BY <2>1 DEF Init
<1>5. TypeOK
  <2>1. pick \in [slot : 0..1, seq : Nat \ {0}]
    BY DEF Init
  <2>2. stage = "idle" /\ under = "idle" /\ how = "sd" /\ image \in Image /\ card \in Image
    BY DEF Init
  <2>3. pos \in Nat /\ erased \in Nat /\ unfinished \in BOOLEAN
    BY DEF Init
  <2> QED
    BY <1>2, <1>3, <1>4, <2>1, <2>2, <2>3 DEF TypeOK
<1>6. RunningBoots /\ TargetFits /\ Unswitched
  BY FitBoots DEF Init, RunningBoots, TargetFits, Unswitched
<1>7. SwitchTakes /\ Filling /\ Picked /\ Overlapping
  BY DEF Init, SwitchTakes, Filling, Picked, Overlapping
<1> QED
  BY <1>5, <1>6, <1>7 DEF IndInv

(* Steps of the screens, which write nothing.                              *)
LEMMA ScreenSteps ==
  ASSUME IndInv, ChangeFile \/ PickFile \/ Decline \/ FileRefused
  PROVE  IndInv'
<1> USE DEF IndInv
<1>1. TypeOK'
  BY DEF TypeOK, install, ChangeFile, PickFile, Decline, FileRefused
<1>2. /\ UNCHANGED <<flash, otadata, running, unfinished, under>>
      /\ stage \in {"idle", "confirm"} /\ stage' \in {"idle", "confirm"}
  BY DEF install, ChangeFile, PickFile, Decline, FileRefused
<1>3. RunningBoots' /\ TargetFits' /\ Unswitched'
  BY <1>2 DEF RunningBoots, TargetFits, Unswitched
<1>4. SwitchTakes' /\ Filling' /\ Picked' /\ Overlapping'
  BY <1>2 DEF SwitchTakes, Filling, Picked, Overlapping, Dest
<1> QED
  BY <1>1, <1>3, <1>4

LEMMA BeginSteps ==
  ASSUME IndInv, FlashFile \/ DevFlash
  PROVE  IndInv'
<1> USE DEF IndInv
<1>1. /\ UNCHANGED <<flash, otadata, running, card, pick>>
      /\ stage' = "stream" /\ image' = card /\ Valid(card)
      /\ pos' = 0 /\ erased' = 0 /\ how' \in {"sd", "dev"}
  BY DEF FlashFile, DevFlash, Starts
<1>2. \/ stage # "restart" /\ under' # "restart" /\ unfinished' = unfinished
      \/ stage = "restart" /\ under' = "restart" /\ unfinished'
  BY DEF FlashFile, DevFlash, Starts, TypeOK
<1>3. TypeOK'
  BY <1>1, <1>2 DEF FlashFile, DevFlash, Starts, TypeOK
<1>4. RunningBoots' /\ TargetFits' /\ SwitchTakes' /\ Picked'
  BY <1>1, <1>2 DEF RunningBoots, TargetFits, SwitchTakes, Picked
<1>5. Unswitched'
  BY <1>1, <1>2 DEF Unswitched
<1>6. Overlapping'
  BY <1>1, <1>2 DEF Overlapping, SwitchTakes, Dest
<1>7. Filling'
  BY <1>1, ImageFacts, BoundsAssumption DEF Filling, Valid, Chunk, TypeOK
<1> QED
  BY <1>3, <1>4, <1>5, <1>6, <1>7

LEMMA DownloadStep ==
  ASSUME IndInv, NEW i \in Image, Download(i)
  PROVE  IndInv'
<1> USE DEF IndInv
<1> DEFINE blank == [k \in Chunk |-> Erased]
<1>1. blank \in Contents
  BY DEF Contents
<1>2. /\ flash' \in [Partition -> Contents]
      /\ flash'[running] = flash[running] /\ flash'[Dest] = blank /\ Dest' = Dest
  BY <1>1, RunningKept DEF Download
<1>3. TypeOK'
  BY <1>2, BoundsAssumption DEF Download, TypeOK
<1>4. RunningBoots' /\ SwitchTakes' /\ Picked' /\ Overlapping'
  BY <1>2 DEF Download, RunningBoots, SwitchTakes, Picked, Overlapping
<1>5. TargetFits' /\ Unswitched'
  BY <1>2 DEF Download, TargetFits, Unswitched
<1>6. Filling'
  BY <1>2, ImageFacts, BoundsAssumption DEF Download, Filling, Chunk
<1> QED
  BY <1>3, <1>4, <1>5, <1>6

LEMMA EraseBlockStep ==
  ASSUME IndInv, EraseBlock
  PROVE  IndInv'
<1> USE DEF IndInv
<1> DEFINE swept == [k \in Chunk |-> IF k \in NextBlock THEN Erased ELSE flash[Dest][k]]
<1>1. swept \in Contents
  BY DestIsOther DEF Contents, TypeOK
<1>2. /\ flash' \in [Partition -> Contents]
      /\ flash'[running] = flash[running] /\ flash'[Dest] = swept /\ Dest' = Dest
  BY <1>1, RunningKept DEF EraseBlock
<1>3. TypeOK'
  BY <1>2, BoundsAssumption DEF EraseBlock, TypeOK
<1>4. RunningBoots' /\ SwitchTakes' /\ Picked' /\ Overlapping'
  BY <1>2 DEF EraseBlock, RunningBoots, SwitchTakes, Picked, Overlapping
<1>5. TargetFits' /\ Unswitched'
  BY <1>2 DEF EraseBlock, TargetFits, Unswitched
<1>6. Filling'
  <2>1. erased' \in Nat /\ erased' =< Chunks /\ erased' =< pos + Block
    BY BoundsAssumption DEF EraseBlock, TypeOK
  <2>2. ASSUME NEW k \in Chunk
        PROVE  /\ k < pos => flash'[Dest][k] = image
               /\ pos =< k /\ k < erased' => flash'[Dest][k] = Erased
    <3>1. k \in Nat /\ pos \in Nat
      BY BoundsAssumption DEF Chunk, TypeOK
    <3>2. k < pos => flash[Dest][k] = image
      BY DEF EraseBlock, Filling
    <3>3. flash'[Dest][k] = IF pos =< k /\ k < pos + Block THEN Erased ELSE flash[Dest][k]
      BY <1>2 DEF NextBlock
    <3> QED
      BY <2>1, <3>1, <3>2, <3>3, BoundsAssumption
  <2> QED
    BY <1>2, <2>1, <2>2 DEF EraseBlock, Filling
<1> QED
  BY <1>3, <1>4, <1>5, <1>6

LEMMA WriteChunkStep ==
  ASSUME IndInv, WriteChunk
  PROVE  IndInv'
<1> USE DEF IndInv
<1> DEFINE filled == [flash[Dest] EXCEPT ![pos] = Over(@, image)]
<1>1. pos \in Chunk /\ flash[Dest][pos] = Erased
  BY ImageFacts, BoundsAssumption DEF WriteChunk, Filling, Chunk, TypeOK
<1>2. filled \in Contents /\ flash[Dest] \in Contents
  BY DestIsOther DEF Contents, TypeOK, Over
<1>3. flash' = [flash EXCEPT ![Dest] = filled]
  BY DestIsOther DEF WriteChunk, TypeOK
<1>4. /\ flash' \in [Partition -> Contents]
      /\ flash'[running] = flash[running] /\ flash'[Dest] = filled /\ Dest' = Dest
  BY <1>2, <1>3, RunningKept DEF WriteChunk
<1>5. TypeOK'
  BY <1>4 DEF WriteChunk, TypeOK
<1>6. RunningBoots' /\ SwitchTakes' /\ Picked' /\ Overlapping'
  BY <1>4 DEF WriteChunk, RunningBoots, SwitchTakes, Picked, Overlapping
<1>7. TargetFits' /\ Unswitched'
  BY <1>4 DEF WriteChunk, TargetFits, Unswitched
<1>8. Filling'
  <2>1. pos \in Nat /\ pos' = pos + 1 /\ pos < Size[image] /\ Size[image] \in Nat
    BY ImageFacts DEF WriteChunk, TypeOK
  <2>2. ASSUME NEW k \in Chunk
        PROVE  /\ k < pos + 1 => flash'[Dest][k] = image
               /\ pos + 1 =< k /\ k < erased => flash'[Dest][k] = Erased
    <3>1. k \in Nat
      BY BoundsAssumption DEF Chunk
    <3>2. /\ k < pos => flash[Dest][k] = image
          /\ pos =< k /\ k < erased => flash[Dest][k] = Erased
      BY DEF WriteChunk, Filling
    <3>3. flash'[Dest][k] = IF k = pos THEN image ELSE flash[Dest][k]
      BY <1>1, <1>2, <1>4 DEF Over, Contents
    <3> QED
      BY <2>1, <3>1, <3>2, <3>3
  <2> QED
    BY <1>4, <2>1, <2>2 DEF WriteChunk, Filling
<1> QED
  BY <1>5, <1>6, <1>7, <1>8

LEMMA StreamFailsStep ==
  ASSUME IndInv, StreamFails
  PROVE  IndInv'
<1> USE DEF IndInv
<1> PICK spoilt \in SUBSET NextBlock, mark \in {Erased, Torn} :
      flash' = [flash EXCEPT ![Dest] =
                  [k \in Chunk |-> IF k \in spoilt THEN mark ELSE flash[Dest][k]]]
  BY DEF StreamFails
<1> DEFINE left == [k \in Chunk |-> IF k \in spoilt THEN mark ELSE flash[Dest][k]]
<1>1. left \in Contents
  BY DestIsOther DEF Contents, TypeOK
<1>2. /\ flash' \in [Partition -> Contents]
      /\ flash'[running] = flash[running] /\ flash'[Dest] = left /\ Dest' = Dest
  BY <1>1, RunningKept DEF StreamFails
<1>3. stage = "stream" /\ stage' = under /\ under \in {"idle", "confirm", "restart"}
  BY DEF StreamFails, TypeOK
<1>4. TypeOK'
  BY <1>2, <1>3 DEF StreamFails, TypeOK
<1>5. RunningBoots' /\ Filling' /\ Picked' /\ Overlapping'
  BY <1>2, <1>3 DEF StreamFails, RunningBoots, Filling, Picked, Overlapping
<1>6. SwitchTakes'
  BY <1>2, <1>3 DEF StreamFails, SwitchTakes, Overlapping
<1>7. TargetFits' /\ Unswitched'
  BY <1>2, <1>3 DEF StreamFails, TargetFits, Unswitched
<1> QED
  BY <1>4, <1>5, <1>6, <1>7

LEMMA StreamEndsStep ==
  ASSUME IndInv, StreamEnds
  PROVE  IndInv'
<1> USE DEF IndInv
<1>1. /\ UNCHANGED <<flash, otadata, running, under, unfinished, image>>
      /\ stage = "stream" /\ under \in {"idle", "confirm", "restart"}
      /\ \/ stage' = under
         \/ stage' = "switch" /\ Valid(image)
  BY DEF StreamEnds, TypeOK, Filling
<1>2. TypeOK'
  BY <1>1 DEF StreamEnds, TypeOK
<1>3. Holds(flash[Dest], image)
  BY ImageFacts, BoundsAssumption DEF StreamEnds, Filling, Holds, Chunk, TypeOK
<1>4. Filling'
  BY <1>1, <1>3 DEF Filling, Dest, Valid, Holds
<1>5. RunningBoots' /\ Picked' /\ TargetFits' /\ Unswitched'
  BY <1>1 DEF RunningBoots, Picked, TargetFits, Unswitched
<1>6. SwitchTakes' /\ Overlapping'
  BY <1>1 DEF SwitchTakes, Overlapping, Dest
<1> QED
  BY <1>2, <1>4, <1>5, <1>6

LEMMA PickedSlot ==
  ASSUME TypeOK
  PROVE  [slot |-> Spare(otadata), seq |-> NextSeq(ActiveSeq(otadata), Dest)]
           \in [slot : 0..1, seq : Nat \ {0}]
BY ActiveSeqNat, NextSeqFacts, DestIsOther DEF TypeOK, Partition

LEMMA EraseEntryStep ==
  ASSUME IndInv, EraseEntry
  PROVE  IndInv'
<1> USE DEF IndInv
<1>1. Blank \in Entry /\ ~Usable(Blank)
  BY DEF Blank, Entry, Usable
<1>2. /\ pick' = [slot |-> Spare(otadata), seq |-> NextSeq(ActiveSeq(otadata), Dest)]
      /\ otadata' = [otadata EXCEPT ![Spare(otadata)] = Blank]
      /\ stage = "switch" /\ stage' = "writeEntry"
      /\ UNCHANGED <<flash, running, card, under, how, image, pos, erased, unfinished>>
  BY DEF EraseEntry
<1>3. /\ otadata' \in [0..1 -> Entry]
      /\ Target(otadata') = Target(otadata) /\ Spare(otadata') = Spare(otadata)
      /\ ActiveSeq(otadata') = ActiveSeq(otadata) /\ ~Usable(otadata'[Spare(otadata)])
  BY <1>1, <1>2, SpareIsFree DEF TypeOK
<1>4. TypeOK'
  BY <1>2, <1>3, PickedSlot DEF TypeOK
<1>5. Dest' = Dest
  BY <1>2 DEF Dest
<1>6. RunningBoots' /\ TargetFits' /\ Unswitched' /\ SwitchTakes'
  BY <1>2, <1>3 DEF RunningBoots, TargetFits, Unswitched, SwitchTakes
<1>7. Filling' /\ Overlapping'
  BY <1>2, <1>3, <1>5 DEF Filling, Overlapping
<1>8. Picked'
  BY <1>2, <1>3, <1>5 DEF Picked
<1> QED
  BY <1>4, <1>6, <1>7, <1>8

LEMMA WriteEntryStep ==
  ASSUME IndInv, WriteEntry
  PROVE  IndInv'
<1> USE DEF IndInv
<1> DEFINE fresh == [seq |-> pick.seq, sound |-> TRUE, refused |-> FALSE]
<1>1. /\ pick.slot = Spare(otadata) /\ pick.seq = NextSeq(ActiveSeq(otadata), Dest)
      /\ pick.seq \in Nat \ {0}
  BY DEF WriteEntry, Picked, TypeOK
<1>2. fresh \in Entry /\ Usable(fresh) /\ fresh.seq = NextSeq(ActiveSeq(otadata), Dest)
  BY <1>1 DEF Entry, Usable
<1>3. Dest \in 0..1 /\ Dest' = Dest
  BY DestIsOther DEF WriteEntry, Dest, Partition
<1>4. otadata' = [otadata EXCEPT ![Spare(otadata)] = fresh]
  BY <1>1 DEF WriteEntry
<1>5. otadata' \in [0..1 -> Entry] /\ Target(otadata') = Dest
  <2> HIDE DEF fresh
  <2> QED
    BY <1>2, <1>3, <1>4, WriteTakes DEF TypeOK
<1>6. Valid(image) /\ Holds(flash[Dest], image) /\ image \in Image
  BY DEF WriteEntry, Filling, TypeOK
<1>7. /\ UNCHANGED <<flash, running, card, under, how, image, pos, erased, pick>>
      /\ stage' = "restart" /\ unfinished' = FALSE
  BY DEF WriteEntry
<1>8. TypeOK'
  BY <1>5, <1>7 DEF TypeOK
<1>9. SwitchTakes' /\ TargetFits'
  BY <1>3, <1>5, <1>6, <1>7 DEF SwitchTakes, TargetFits, FitToRun, Valid, Holds
<1>10. RunningBoots' /\ Unswitched' /\ Filling' /\ Picked' /\ Overlapping'
  BY <1>7 DEF RunningBoots, Unswitched, Filling, Picked, Overlapping
<1> QED
  BY <1>8, <1>9, <1>10

LEMMA SwitchFailsStep ==
  ASSUME IndInv, SwitchFails
  PROVE  IndInv'
<1> USE DEF IndInv
<1> DEFINE cut == [seq |-> pick.seq, sound |-> FALSE, refused |-> FALSE]
<1>1. Blank \in Entry /\ ~Usable(Blank) /\ cut \in Entry /\ ~Usable(cut)
  <2>1. pick.seq \in Nat \ {0}
    BY DEF TypeOK
  <2> QED
    BY <2>1 DEF Blank, Entry, Usable
<1>2. /\ UNCHANGED <<flash, running, card, under, how, image, pos, erased, pick, unfinished>>
      /\ stage \in {"switch", "writeEntry"} /\ stage' = under
      /\ under \in {"idle", "confirm", "restart"}
  BY DEF SwitchFails, TypeOK
<1>3. otadata' \in [0..1 -> Entry] /\ Target(otadata') = Target(otadata)
  <2>1. CASE UNCHANGED otadata
    BY <2>1 DEF TypeOK
  <2>2. CASE otadata' = [otadata EXCEPT ![Spare(otadata)] = Blank]
    BY <1>1, <2>2, SpareIsFree DEF TypeOK
  <2>3. CASE stage = "writeEntry" /\ otadata' = [otadata EXCEPT ![pick.slot] = cut]
    <3>1. pick.slot = Spare(otadata)
      BY <2>3 DEF Picked
    <3>2. otadata' = [otadata EXCEPT ![Spare(otadata)] = cut]
      BY <2>3, <3>1
    <3> HIDE DEF cut
    <3> QED
      BY <1>1, <3>2, SpareIsFree DEF TypeOK
  <2> QED
    BY <2>1, <2>2, <2>3 DEF SwitchFails
<1>4. TypeOK'
  BY <1>2, <1>3 DEF TypeOK
<1>5. Dest' = Dest
  BY <1>2 DEF Dest
<1>6. RunningBoots' /\ TargetFits' /\ Unswitched'
  BY <1>2, <1>3 DEF RunningBoots, TargetFits, Unswitched
<1>7. SwitchTakes'
  BY <1>2, <1>3, <1>5 DEF SwitchTakes, Overlapping
<1>8. Filling' /\ Picked' /\ Overlapping'
  BY <1>2 DEF Filling, Picked, Overlapping
<1> QED
  BY <1>4, <1>6, <1>7, <1>8

(* The bootloader finds the named partition whole, or else the one that    *)
(* ran before.                                                             *)
LEMMA BootsStep ==
  ASSUME IndInv, Boots
  PROVE  IndInv'
<1> USE DEF IndInv
<1>1. /\ UNCHANGED <<flash, otadata, card, unfinished>>
      /\ stage' = "idle" /\ under' = "idle" /\ how' = "sd" /\ image' = card
      /\ pos' = 0 /\ erased' = 0 /\ pick' = [slot |-> 0, seq |-> 1]
      /\ running' = IF Bootable(flash[Target(otadata)]) THEN Target(otadata) ELSE 1 - Target(otadata)
  BY DEF Boots
<1>2. Target(otadata) \in Partition
  BY ActiveSeqNat DEF TypeOK
<1>3. TypeOK'
  <2>1. pick' \in [slot : 0..1, seq : Nat \ {0}]
    BY <1>1
  <2>2. running' \in Partition
    BY <1>1, <1>2 DEF Partition
  <2> QED
    BY <1>1, <2>1, <2>2 DEF TypeOK
<1>4. RunningBoots'
  BY <1>1, <1>2 DEF RunningBoots, TypeOK, Partition
<1>5. ~unfinished => running' = Target(otadata) /\ FitToRun(flash[running'])
  BY <1>1, FitBoots DEF TargetFits
<1>6. TargetFits' /\ Unswitched'
  BY <1>1, <1>5 DEF TargetFits, Unswitched
<1>7. SwitchTakes' /\ Filling' /\ Picked' /\ Overlapping'
  BY <1>1 DEF SwitchTakes, Filling, Picked, Overlapping
<1> QED
  BY <1>3, <1>4, <1>6, <1>7

LEMMA FirmwareStep == IndInv /\ [Next]_vars => IndInv'
<1> SUFFICES ASSUME IndInv, [Next]_vars PROVE IndInv'
  OBVIOUS
<1>1. CASE ChangeFile \/ PickFile \/ Decline \/ FileRefused
  BY <1>1, ScreenSteps
<1>2. CASE FlashFile \/ DevFlash
  BY <1>2, BeginSteps
<1>3. ASSUME NEW i \in Image, Download(i) PROVE IndInv'
  BY <1>3, DownloadStep
<1>4. CASE EraseBlock
  BY <1>4, EraseBlockStep
<1>5. CASE WriteChunk
  BY <1>5, WriteChunkStep
<1>6. CASE StreamFails
  BY <1>6, StreamFailsStep
<1>7. CASE StreamEnds
  BY <1>7, StreamEndsStep
<1>8. CASE EraseEntry
  BY <1>8, EraseEntryStep
<1>9. CASE WriteEntry
  BY <1>9, WriteEntryStep
<1>10. CASE SwitchFails
  BY <1>10, SwitchFailsStep
<1>11. CASE Restart \/ PowerCut
  BY <1>11, BootsStep DEF Restart, PowerCut
<1>12. CASE UNCHANGED vars
  <2>1. TypeOK'
    BY <1>12 DEF vars, install, TypeOK, IndInv
  <2>2. RunningBoots' /\ TargetFits' /\ Unswitched' /\ SwitchTakes'
    BY <1>12 DEF vars, install, IndInv, RunningBoots, TargetFits, Unswitched, SwitchTakes, Dest
  <2>3. Filling' /\ Picked' /\ Overlapping'
    BY <1>12 DEF vars, install, IndInv, Filling, Picked, Overlapping, Dest
  <2> QED
    BY <2>1, <2>2, <2>3 DEF IndInv
<1> QED
  BY <1>1, <1>2, <1>3, <1>4, <1>5, <1>6, <1>7, <1>8, <1>9, <1>10, <1>11, <1>12 DEF Next

(* All of it holds of every behaviour. *)
LEMMA FirmwareInvariant == Spec => []IndInv
<1> QED
  BY FirmwareInit, FirmwareStep, PTL DEF Spec

(* The types of the install, of otadata and of the two partitions.         *)
THEOREM FirmwareTypes == Spec => []TypeOK
<1>1. IndInv => TypeOK
  BY DEF IndInv
<1> QED
  BY <1>1, FirmwareInvariant, PTL

(* A power cut at any moment, of any of the three installers, leaves the   *)
(* bootloader the image it ran from, and a fit one in the partition it     *)
(* tries first unless a developer flash over an update is unfinished.      *)
THEOREM CutAnywhere == Spec => []TargetIsFit
<1>1. IndInv => TargetIsFit
  BY DEF IndInv, RunningBoots, TargetFits, TargetIsFit
<1> QED
  BY <1>1, FirmwareInvariant, PTL

(* An install that reports success is what starts next, whatever the two   *)
(* entries of otadata held.                                                *)
THEOREM SuccessIsStarted == Spec => []SwitchTakes
<1>1. IndInv => SwitchTakes
  BY DEF IndInv
<1> QED
  BY <1>1, FirmwareInvariant, PTL

(* The bootloader always has the image that is running to fall back on,    *)
(* with a developer flash over an unstarted update cut short too.          *)
THEOREM AlwaysAnImage == Spec => []RunningBoots
<1>1. IndInv => RunningBoots
  BY DEF IndInv
<1> QED
  BY <1>1, FirmwareInvariant, PTL
=============================================================================
