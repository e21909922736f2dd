----------------------------- MODULE PrizeTable -----------------------------
(***************************************************************************)
(* Entry fees, the prize table and the share of the prize each plan gives  *)
(* right to: tournament/subscription.ts, poker/prize-table.ts and the      *)
(* arithmetic of TournamentService.settle().  Money is whole cents;        *)
(* occupancy is compared in tenths, without dividing.                      *)
(***************************************************************************)
EXTENDS Integers

SUBSCRIPTIONS == {"NONE", "MONTHLY", "QUARTERLY", "SEMIANNUAL", "ANNUAL"}
Levels == 1..7

BRL(none, monthly, quarterly, semiannual, annual) ==
  [NONE |-> none, MONTHLY |-> monthly, QUARTERLY |-> quarterly,
   SEMIANNUAL |-> semiannual, ANNUAL |-> annual]
ENTRY_FEE_BRL == [level \in Levels |->
  CASE level = 1 -> BRL(20, 17, 15, 12, 10)
    [] level = 2 -> BRL(40, 34, 30, 24, 20)
    [] level = 3 -> BRL(100, 85, 75, 55, 50)
    [] level = 4 -> BRL(200, 170, 150, 120, 100)
    [] level = 5 -> BRL(1000, 850, 750, 600, 500)
    [] level = 6 -> BRL(2000, 1700, 1500, 1200, 1000)
    [] level = 7 -> BRL(10000, 8500, 7500, 6000, 5000)]
PRIZE_SHARE_PCT == BRL(25, 30, 50, 75, 100)
entryFeeCents(level, plan) == ENTRY_FEE_BRL[level][plan] * 100

(* The highest of the tiers 0%, 10%, ... 100% the occupancy n of `seats'   *)
(* reaches; each is worth 20 entries more than the one below.              *)
Reaches(n, seats, tier) == tier * seats <= 10 * n
TierOf(n, seats) ==
  CHOOSE tier \in 0..10 : Reaches(n, seats, tier) /\ (tier < 10 => ~Reaches(n, seats, tier + 1))
multiplierFor(n, seats) == 20 * TierOf(n, seats)
minPlayersThatWinSomething(seats) ==
  IF \E n \in 1..seats : multiplierFor(n, seats) > 0
  THEN CHOOSE n \in 1..seats : /\ multiplierFor(n, seats) > 0
                               /\ \A m \in 1..n - 1 : multiplierFor(m, seats) = 0
  ELSE seats

(* What settle() pays: the table's multiple of the full fee, capped at the *)
(* payable part of what was collected, and of that the share of the plan.  *)
prizePoolCents(level, collected, n, seats, sharePct) ==
  LET raw     == entryFeeCents(level, "NONE") * multiplierFor(n, seats)
      payable == (collected * sharePct) \div 100
  IN IF raw < payable THEN raw ELSE payable
prizeShareCents(pool, plan) == (pool * PRIZE_SHARE_PCT[plan]) \div 100
=============================================================================
