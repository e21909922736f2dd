------------------------- MODULE MCTournamentTable --------------------------
(* A tournament table with a few players and a few chips.  The players are *)
(* interchangeable: they all start with the same stack.                    *)
EXTENDS TournamentTable, TLC
CONSTANT StartChips
EqualStart == [u \in Users |-> StartChips]
Interchangeable == Permutations(Users)
=============================================================================
