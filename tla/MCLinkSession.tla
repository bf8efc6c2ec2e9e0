--------------------------- MODULE MCLinkSession ---------------------------
(***************************************************************************)
(* LinkSession for TLC.                                                    *)
(***************************************************************************)
EXTENDS LinkSessionInduction

(* A packet that never arrives is as good as a lost one, and the safety    *)
(* properties do not look at air: Lose adds no state they can see, and     *)
(* leaving it out makes the instance much smaller.                         *)
MCNext == \/ \E d \in Device : UserStep(d) \/ GameStep(d) \/ ClockStep(d)
          \/ \E p \in air : Receive(p.to, p)

MCSpec == Init /\ [][MCNext]_vars

(* The match of two devices as the abstract specification sees it.  A      *)
(* device that vanishes takes its half of the match with it, which the     *)
(* abstract match has no name for: nobody vanishes here.                   *)
StayNext == \/ \E d \in Device : \/ Begin(d) \/ Leave(d) \/ GameStep(d) \/ ClockStep(d)
            \/ \E p \in air : Receive(p.to, p)

StaySpec == Init /\ [][StayNext]_vars

InMatch == {d \in Device : sess[d].peer # NoDevice}

MatchFirst ==
  IF InMatch = {} THEN NoDevice
  ELSE LET d == CHOOSE e \in InMatch : TRUE
       IN IF sess[d].isHost THEN d ELSE sess[d].peer

Match == INSTANCE AlternatingMatch
           WITH Player <- Device, Nobody <- NoDevice, first <- MatchFirst,
                moves <- [d \in Device |-> sess[d].sequence]

(* The session implements the abstract match. *)
ImplementsMatch == Match!Spec
=============================================================================
