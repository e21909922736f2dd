------------------------------ MODULE PotAward ------------------------------
(***************************************************************************)
(* buildSidePots and the award over every vector of contributions, folds   *)
(* and strengths up to a bound, also those no betting can produce: the     *)
(* function is exported and takes any of them.                             *)
(***************************************************************************)
EXTENDS SidePots

CONSTANTS MaxChips,     \* bound on a single contribution
          MaxRank       \* how many strengths of hands are told apart
ASSUME BoundsAssumption == MaxChips \in Nat /\ MaxRank \in Nat

VARIABLES contributions, foldedIds, strengths, paidOut
awardVars == <<contributions, foldedIds, strengths, paidOut>>

Unpaid == [s \in Seats |-> 0]
AwardInit ==
  /\ contributions \in [Seats -> 0..MaxChips] /\ foldedIds \in SUBSET Seats
  /\ strengths \in [Seats -> 1..MaxRank] /\ paidOut = Unpaid
Award ==
  /\ paidOut = Unpaid
  /\ paidOut' = Payouts(contributions, foldedIds, strengths)
  /\ UNCHANGED <<contributions, foldedIds, strengths>>
AwardSpec == AwardInit /\ [][Award]_awardVars

-----------------------------------------------------------------------------
Awarded == paidOut # Unpaid
AwardedPots == Pots(contributions, foldedIds)

(* Only an orphaned pot keeps chips back, and an award never creates any.  *)
PaidOrOrphaned ==
  Awarded => Total(paidOut) + Orphaned(contributions, foldedIds) = Total(contributions)

(* Reference: deal the chips out one by one.  The k-th chip of everybody   *)
(* who put in at least k, when at least two did, goes to the pot of those  *)
(* of them who are still live; the pots hold exactly these chips.          *)
Payers(k) == {s \in Seats : contributions[s] >= k}
ChipsFor(E) ==
  MapThenSumSet(LAMBDA k : IF Payers(k) \ foldedIds = E /\ Cardinality(Payers(k)) >= 2
                           THEN Cardinality(Payers(k)) ELSE 0, 1..MaxChips)
ChipByChip ==
  \A E \in SUBSET Seats : ChipsFor(E) = TotalPot({pot \in AwardedPots : pot.eligible = E})

(* Of two live players with equal hands the one who put in more is paid at *)
(* least as much, up to one odd chip per pot; with equal contributions the *)
(* odd chips are all that differs, and they favour the earlier seat        *)
(* (hand.ts:18).                                                           *)
EqualHandsSplit ==
  Awarded => \A p, q \in Seats \ foldedIds :
    strengths[p] = strengths[q] =>
      /\ contributions[p] > contributions[q] => paidOut[p] + Cardinality(AwardedPots) >= paidOut[q]
      /\ contributions[p] = contributions[q] /\ p < q =>
           paidOut[p] \in paidOut[q] .. paidOut[q] + Cardinality(AwardedPots)
=============================================================================
