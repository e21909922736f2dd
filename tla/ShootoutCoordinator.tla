------------------------ MODULE ShootoutCoordinator -------------------------
(***************************************************************************)
(* MultiTableCoordinator: the tables of a round report their winners one   *)
(* by one, in any order; the last report moves the bracket on.             *)
(***************************************************************************)
EXTENDS Seating

VARIABLES
  alive,       \* the players of the current round, in seating order
  round, champion,
  winners      \* per table of the round: who was reported, or Nobody yet

bracket == <<alive, round, champion, winners>>
Pending(players) == [t \in Tables(players) |-> Nobody]
pendingTables == {t \in DOMAIN winners : winners[t] = Nobody}
BracketInit == alive = <<>> /\ round = 0 /\ champion = Nobody /\ winners = <<>>

OpenBracket(players) ==
  /\ alive' = players /\ round' = 1 /\ champion' = Nobody /\ winners' = Pending(players)
CloseBracket ==
  alive' = <<>> /\ round' = 0 /\ champion' = Nobody /\ winners' = <<>>

AnyReported(reported) == TRUE                          \* mutant of AllReported
AllReported(reported) == \A t \in DOMAIN reported : reported[t] # Nobody
reportTableWinner(t, w) ==
  LET reported == [winners EXCEPT ![t] = w] IN
  /\ champion = Nobody /\ t \in DOMAIN winners
  /\ w \in SeatedAt(alive, t) /\ winners[t] = Nobody
  /\ \/ ~AllReported(reported) /\ winners' = reported /\ UNCHANGED <<alive, round, champion>>
     \/ /\ AllReported(reported) /\ alive' = reported
        /\ IF DOMAIN winners = {1}
           THEN champion' = w /\ winners' = <<>> /\ UNCHANGED round
           ELSE round' = round + 1 /\ winners' = Pending(reported) /\ UNCHANGED champion
=============================================================================
