------------------------------ MODULE Shootout ------------------------------
(***************************************************************************)
(* What a multi-table tournament promises (MultiTableTournament): round by *)
(* round, one winner of every table goes on, until one table is left and   *)
(* its winner is the champion.  Nothing is said of when tables end.        *)
(***************************************************************************)
EXTENDS Seating

CONSTANT Entrants
VARIABLES alive, round, champion

shootout == <<alive, round, champion>>
Idle == alive = <<>> /\ round = 0 /\ champion = Nobody

Begin ==
  /\ alive' \in Seq(Entrants) /\ alive' # <<>>
  /\ \A i, j \in 1..Len(alive') : alive'[i] = alive'[j] => i = j
  /\ round' = 1 /\ champion' = Nobody
Advance ==
  /\ champion = Nobody /\ alive # <<>>
  /\ alive' \in [Tables(alive) -> Entrants]
  /\ \A t \in Tables(alive) : alive'[t] \in SeatedAt(alive, t)
  /\ IF Tables(alive) = {1} THEN champion' = alive'[1] /\ round' = round
                            ELSE champion' = Nobody /\ round' = round + 1
End == alive' = <<>> /\ round' = 0 /\ champion' = Nobody

Next == (alive = <<>> /\ Begin) \/ Advance \/ End
Spec == Idle /\ [][Next]_shootout
=============================================================================
