------------------------------ MODULE SidePots ------------------------------
(***************************************************************************)
(* Side-pot construction and the award of each pot                         *)
(* (src/backend/src/poker/side-pots.ts and the showdown of hand.ts).       *)
(*                                                                         *)
(* Seats are numbered 1..N in table order (SB, BB, UTG, ...).  A vector    *)
(* of contributions is a function from seats to chips; the cards are       *)
(* abstracted to one number per seat, the strength of its best five of     *)
(* seven, which is all the award looks at.                                 *)
(***************************************************************************)
EXTENDS Integers, FiniteSets, FiniteSetsExt

CONSTANT N        \* players dealt into the hand
ASSUME NAssumption == N \in Nat /\ N >= 2

Seats == 1..N
Lesser(a, b) == IF a <= b THEN a ELSE b

(***************************************************************************)
(* Uncalled bets.  A unique largest contribution is cut down to the second *)
(* largest one and the excess is refunded; a tie at the top refunds        *)
(* nothing, because then the second largest is the largest.                *)
(***************************************************************************)
NothingUncalled(c) == Max({c[s] : s \in Seats})           \* mutant of SecondLargest
SecondLargest(c) ==
  Max({Lesser(c[p[1]], c[p[2]]) : p \in {q \in Seats \X Seats : q[1] # q[2]}})
Called(c) == LET second == SecondLargest(c) IN [s \in Seats |-> Lesser(c[s], second)]
Refunds(c) == LET called == Called(c) IN [s \in Seats |-> c[s] - called[s]]

(***************************************************************************)
(* One layer of chips per distinct positive amount; a layer is paid by     *)
(* everyone who put in that much and may be won by those of them who did   *)
(* not fold.  Layers with the same eligible players form one pot.          *)
(* Eligible sets shrink as the level grows, so equal ones are adjacent.    *)
(***************************************************************************)
LayerLevels(e) == {e[s] : s \in Seats} \ {0}
GroundLevel(e, l) == 0                                    \* mutant of LevelBelow
LevelBelow(e, l) == Max({0} \cup {k \in LayerLevels(e) : k < l})
Contributors(e, l) == {s \in Seats : e[s] >= l}
LayerAmount(e, l) == (l - LevelBelow(e, l)) * Cardinality(Contributors(e, l))
FoldedStayEligible(e, folded, l) == Contributors(e, l)    \* mutant of Eligible
Eligible(e, folded, l) == Contributors(e, l) \ folded
PotFor(e, folded, E) ==
  [eligible |-> E,
   amount   |-> MapThenSumSet(LAMBDA l : LayerAmount(e, l),
                              {l \in LayerLevels(e) : Eligible(e, folded, l) = E})]
Pots(c, folded) ==
  LET e == Called(c) IN {PotFor(e, folded, Eligible(e, folded, l)) : l \in LayerLevels(e)}

(***************************************************************************)
(* The best eligible strength wins a pot; equal ones share it and the odd  *)
(* chips go one each to the earliest winning seats.  A pot nobody is       *)
(* eligible for has no winner and is paid to no one.                       *)
(***************************************************************************)
Everybody(E, strength) == E                               \* mutant of Winners
Winners(E, strength) == {s \in E : \A t \in E : strength[t] <= strength[s]}
OneOddChip(n, k) == IF n % k = 0 THEN 0 ELSE 1            \* mutant of OddChips
OddChips(n, k) == n % k
LaterWinners(W, s) == {t \in W : t > s}                   \* mutant of AheadOf
AheadOf(W, s) == {t \in W : t < s}
Share(pot, strength, s) ==
  LET W == Winners(pot.eligible, strength)
      k == Cardinality(W)
  IN IF s \notin W THEN 0
     ELSE pot.amount \div k
          + (IF Cardinality(AheadOf(W, s)) < OddChips(pot.amount, k) THEN 1 ELSE 0)
Payouts(c, folded, strength) ==
  LET refunds == Refunds(c)
      pots    == Pots(c, folded)
  IN [s \in Seats |-> refunds[s] + MapThenSumSet(LAMBDA pot : Share(pot, strength, s), pots)]

TotalPot(pots) == MapThenSumSet(LAMBDA pot : pot.amount, pots)
Total(v) == MapThenSumSet(LAMBDA s : v[s], Seats)
(* Chips in pots that no live player contributed to: they reach nobody.   *)
Orphaned(c, folded) == TotalPot({pot \in Pots(c, folded) : pot.eligible = {}})
=============================================================================
