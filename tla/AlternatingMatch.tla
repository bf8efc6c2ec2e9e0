-------------------------- MODULE AlternatingMatch --------------------------
(***************************************************************************)
(* What a link-play match promises two players: one of them is picked to   *)
(* move first, from then on they move in strict alternation, and a player  *)
(* who falls one move behind catches up to exactly the move that was made. *)
(* It knows nothing of radios.  (The design notes at the head of           *)
(* src/apps_local/link/LinkSession.h; LinkSession.tla implements it.)      *)
(***************************************************************************)
EXTENDS Naturals

CONSTANTS Player, Nobody

VARIABLES first,  \* who moves first, once somebody has been picked
          moves   \* moves[p]: how many moves of the match player p knows

match == <<first, moves>>

Other(p) == CHOOSE q \in Player : q # p

Mover(n) == IF n % 2 = 0 THEN first ELSE Other(first)

Init == first = Nobody /\ moves = [p \in Player |-> 0]

Pick == /\ first = Nobody
        /\ first' \in Player
        /\ UNCHANGED moves

(* Only the player whose turn it is, and who has seen every move, moves.   *)
Move(p) == /\ first # Nobody
           /\ p = Mover(moves[p])
           /\ moves[p] >= moves[Other(p)]
           /\ moves' = [moves EXCEPT ![p] = @ + 1]
           /\ UNCHANGED first

CatchUp(p) == /\ moves[p] + 1 = moves[Other(p)]
              /\ moves' = [moves EXCEPT ![p] = @ + 1]
              /\ UNCHANGED first

Next == Pick \/ \E p \in Player : Move(p) \/ CatchUp(p)

Spec == Init /\ [][Next]_match
=============================================================================
