-------------------------- MODULE PokerHand_proofs --------------------------
(***************************************************************************)
(* Proofs about a hand of any number of players, any blinds and any stacks.*)
(*                                                                         *)
(* Every action ends in Resolve, and the constructor in Settle or a turn,  *)
(* so the lemmas say what these two preserve from what they are given: the *)
(* chips behind, in front, the folds and the flags after a player's move.  *)
(* Then the pots: sums over their layers and shares, for any vector of     *)
(* contributions.  Then the turns and who holds the bet (TurnInv), from    *)
(* which some live player covers every pot when the hand ends, and with    *)
(* it the contract the tables are modelled with.                           *)
(***************************************************************************)
EXTENDS PokerHandRefinement, PotAward, MoneyTheorems, TLAPS

(* The state a move leaves behind before the street is resolved.           *)
Moved(st, com, fold, ai, ac, bet, min) ==
  /\ st \in [Seats -> Nat] /\ com \in [Seats -> Nat]
  /\ fold \subseteq Seats /\ ai \subseteq Seats /\ ac \subseteq Seats
  /\ bet \in Nat /\ min \in Nat

(* A settled street leaves every variable in its range.                    *)
LEMMA SettleType ==
  ASSUME TypeOK, NEW st \in [Seats -> Nat], NEW com \in [Seats -> Nat],
         NEW fold \in SUBSET Seats, Settle(st, com, fold)
  PROVE  /\ contrib' = [s \in Seats |-> contrib[s] + com[s]] /\ committed' = Nobody
         /\ contrib' \in [Seats -> Nat] /\ committed' \in [Seats -> Nat]
         /\ acted' = {} /\ inRound' \subseteq Seats /\ currentBet' = 0
         /\ toAct' \in Seats /\ minRaise' \in Nat
         /\ street' \in {"flop", "turn", "river", "complete"}
         /\ strength' \in [Seats -> 0..N]
<1>1. contrib' = [s \in Seats |-> contrib[s] + com[s]] /\ committed' = Nobody
  BY DEF Settle, Gathered
<1>2. contrib' \in [Seats -> Nat] /\ committed' \in [Seats -> Nat]
  BY <1>1 DEF TypeOK, Nobody
<1>3. CASE Finish(fold)
  BY <1>1, <1>2, <1>3 DEF Finish, Showdowns, TypeOK
<1>4. CASE OpenRound(Bettors(st, fold))
  <2>1. Bettors(st, fold) \subseteq Seats
    BY DEF Bettors
  <2>2. toAct' \in Bettors(st, fold) /\ inRound' = Bettors(st, fold)
    BY <1>4 DEF OpenRound, FirstFrom
  <2>3. street' \in {"flop", "turn", "river"}
    BY <1>4 DEF OpenRound, NextStreet
  <2>4. QED
    BY <1>1, <1>2, <1>4, <2>1, <2>2, <2>3, BlindsAssumption DEF OpenRound, TypeOK
<1>5. QED
  BY <1>3, <1>4 DEF Settle

LEMMA ResolveType ==
  ASSUME TypeOK,
         NEW st, NEW com, NEW fold, NEW ai, NEW ac, NEW bet, NEW min,
         Moved(st, com, fold, ai, ac, bet, min),
         Resolve(st, com, fold, ai, ac, bet, min)
  PROVE  TypeOK'
<1>1. /\ initial' \in [Seats -> Stacks] /\ stack' \in [Seats -> Nat]
      /\ folded' \subseteq Seats /\ allIn' \subseteq Seats
  BY DEF Resolve, Moved, TypeOK
<1>2. CASE Settle(st, com, fold)
  <2>1. st \in [Seats -> Nat] /\ com \in [Seats -> Nat] /\ fold \in SUBSET Seats
    BY DEF Moved
  <2>2. QED
    BY <1>1, <1>2, <2>1, SettleType DEF TypeOK
<1>3. CASE ~RoundComplete(inRound, fold, ai, ac, com, bet)
  <2>1. toAct' \in inRound
    BY <1>3 DEF Resolve, FirstFrom
  <2>2. QED
    BY <1>1, <1>3, <2>1 DEF Resolve, Moved, TypeOK
<1>4. QED
  BY <1>2, <1>3 DEF Resolve

-----------------------------------------------------------------------------
(* What a player's move does to the chips: they only go from behind to in  *)
(* front, never above the bet, and the flags say who has none left.        *)
Fair(st, com, fold, ai, bet) ==
  /\ \A s \in Seats : st[s] + com[s] = stack[s] + committed[s] /\ com[s] <= bet
  /\ \A s \in Seats : st[s] <= stack[s]
  /\ folded \subseteq fold /\ ai = {s \in Seats : st[s] = 0}

(* When a street closes over players who can still bet, all of them have   *)
(* matched the bet, so nobody has put in more than they have.              *)
LEMMA ClosedStreet ==
  ASSUME HandInv, Live,
         NEW st, NEW com, NEW fold, NEW ai, NEW ac, NEW bet, NEW min,
         Moved(st, com, fold, ai, ac, bet, min), Fair(st, com, fold, ai, bet),
         RoundComplete(inRound, fold, ai, ac, com, bet),
         ~AtMostOne(Bettors(st, fold))
  PROVE  \A p \in Bettors(st, fold), q \in Seats : contrib[q] + com[q] <= contrib[p] + com[p]
<1>1. Bettors(st, fold) \subseteq inRound \ fold
  BY DEF Bettors, Moved, Fair, HandInv, BetsCovered, TypeOK
<1>2. ~AtMostOne(inRound \ fold)
  BY <1>1 DEF AtMostOne
<1>3. \A p \in Bettors(st, fold) : com[p] = bet
  BY <1>1, <1>2 DEF RoundComplete, Bettors, Moved, Fair
<1>4. \A p \in Bettors(st, fold), q \in Seats : contrib[q] <= contrib[p]
  BY <1>1 DEF HandInv, BetsCovered
<1>5. SUFFICES ASSUME NEW p \in Bettors(st, fold), NEW q \in Seats
               PROVE  contrib[q] + com[q] <= contrib[p] + com[p]
  OBVIOUS
<1>6. p \in Seats /\ com[q] <= bet /\ com[p] = bet /\ contrib[q] <= contrib[p]
  BY <1>3, <1>4 DEF Bettors, Fair
<1>7. com[q] \in Nat /\ contrib[q] \in Nat /\ contrib[p] \in Nat /\ bet \in Nat
  BY <1>6 DEF Moved, HandInv, TypeOK
<1>8. QED
  BY <1>6, <1>7

(* Settling a street keeps the invariant, whether the hand ends there or   *)
(* the next street opens.                                                  *)
LEMMA SettleInv ==
  ASSUME HandInv, TypeOK',
         NEW st \in [Seats -> Nat], NEW com \in [Seats -> Nat], NEW fold \in SUBSET Seats,
         Settle(st, com, fold), UNCHANGED initial,
         stack' = st, folded' = fold, allIn' = {s \in Seats : st[s] = 0},
         \A s \in Seats : st[s] + com[s] = stack[s] + committed[s],
         ~AtMostOne(Bettors(st, fold)) =>
            \A p \in Bettors(st, fold), q \in Seats : contrib[q] + com[q] <= contrib[p] + com[p]
  PROVE  HandInv'
<1> DEFINE B == Bettors(st, fold)
<1>1. /\ contrib' = [s \in Seats |-> contrib[s] + com[s]] /\ committed' = Nobody
      /\ currentBet' = 0 /\ acted' = {}
      /\ street' \in {"flop", "turn", "river", "complete"}
  BY SettleType DEF HandInv
<1>2. ChipsAccounted'
  BY <1>1 DEF HandInv, ChipsAccounted, TypeOK, Nobody
<1>3. AllInMeansBroke' /\ Untouched'
  BY <1>1 DEF AllInMeansBroke, Untouched
<1>4. \A s \in Seats : committed'[s] <= currentBet'
  BY <1>1 DEF Nobody
<1>5. CASE Finish(fold)
  BY <1>2, <1>3, <1>4, <1>5
     DEF HandInv, Finish, BetsCovered, NeverStalls, ActorHasChips, Live
<1>6. CASE OpenRound(B) /\ ~AtMostOne(B)
  <2>1. inRound' = B /\ toAct' \in B /\ acted' = {}
    BY <1>6 DEF OpenRound, FirstFrom
  <2>2. B = {s \in Seats \ folded' : stack'[s] > 0} /\ B \cap allIn' = {}
    BY DEF Bettors
  <2>3. \A p \in B, q \in Seats : contrib'[q] <= contrib'[p]
    BY <1>1, <1>6 DEF Bettors
  <2>4. BetsCovered'
    BY <1>4, <2>1, <2>2, <2>3 DEF BetsCovered
  <2>5. NeverStalls'
    BY <1>6, <2>1, <2>2 DEF NeverStalls, RoundComplete, AtMostOne
  <2>6. ActorHasChips'
    BY <2>1, <2>2 DEF ActorHasChips
  <2>7. QED
    BY <1>2, <1>3, <2>4, <2>5, <2>6 DEF HandInv
<1>7. QED
  BY <1>5, <1>6 DEF Settle

(* Every move that is fair to the chips keeps the invariant.               *)
LEMMA ResolveInv ==
  ASSUME HandInv, Live,
         NEW st, NEW com, NEW fold, NEW ai, NEW ac, NEW bet, NEW min,
         Moved(st, com, fold, ai, ac, bet, min), Fair(st, com, fold, ai, bet),
         Resolve(st, com, fold, ai, ac, bet, min)
  PROVE  HandInv'
<1>1. TypeOK'
  BY ResolveType DEF HandInv
<1>2. stack' = st /\ folded' = fold /\ allIn' = {s \in Seats : st[s] = 0} /\ UNCHANGED initial
  BY DEF Resolve, Fair
<1>3. CASE RoundComplete(inRound, fold, ai, ac, com, bet)
  <2>1. Settle(st, com, fold)
    BY <1>3 DEF Resolve
  <2>2. st \in [Seats -> Nat] /\ com \in [Seats -> Nat] /\ fold \in SUBSET Seats
    BY DEF Moved
  <2>3. \A s \in Seats : st[s] + com[s] = stack[s] + committed[s]
    BY DEF Fair
  <2>4. ~AtMostOne(Bettors(st, fold)) =>
          \A p \in Bettors(st, fold), q \in Seats : contrib[q] + com[q] <= contrib[p] + com[p]
    BY <1>3, ClosedStreet
  <2>5. QED
    BY <1>1, <1>2, <2>1, <2>2, <2>3, <2>4, SettleInv
<1>4. CASE ~RoundComplete(inRound, fold, ai, ac, com, bet)
  <2>1. /\ committed' = com /\ acted' = ac /\ currentBet' = bet
        /\ toAct' \in inRound \ (fold \cup ai)
        /\ UNCHANGED <<contrib, inRound, street>>
    BY <1>4 DEF Resolve, FirstFrom
  <2>2. Untouched' /\ AllInMeansBroke'
    BY <1>2, <2>1 DEF Untouched, AllInMeansBroke, Live
  <2>3. ChipsAccounted'
    BY <1>2, <2>1 DEF HandInv, ChipsAccounted, Fair, Moved, TypeOK
  <2>4. BetsCovered'
    <3>1. \A s \in Seats \ fold : st[s] > 0 => s \in inRound
      BY DEF HandInv, BetsCovered, Fair, Moved, TypeOK
    <3>2. QED
      BY <1>2, <2>1, <3>1 DEF HandInv, BetsCovered, Fair, Live
  <2>5. NeverStalls'
    BY <1>2, <1>4, <2>1 DEF NeverStalls, RoundComplete, Fair
  <2>6. ActorHasChips'
    BY <1>2, <2>1 DEF ActorHasChips, Fair
  <2>7. QED
    BY <1>1, <2>2, <2>3, <2>4, <2>5, <2>6 DEF HandInv
<1>5. QED
  BY <1>3, <1>4
-----------------------------------------------------------------------------
(* Each action of act(), as a move that is fair to the chips.              *)

(* Whoever has the turn is a seat of the round with at most the bet in     *)
(* front of it.                                                            *)
LEMMA TurnFacts ==
  ASSUME HandInv, NEW p, Turn(p)
  PROVE  /\ Live /\ p \in Seats
         /\ committed[p] \in Nat /\ stack[p] \in Nat /\ committed[p] <= currentBet
         /\ currentBet \in Nat /\ minRaise \in Nat
         /\ Moved(stack, committed, folded, allIn, acted, currentBet, minRaise)
         /\ allIn = {s \in Seats : stack[s] = 0}
         /\ \A s \in Seats : committed[s] <= currentBet
BY DEF HandInv, Turn, TypeOK, BetsCovered, Moved, AllInMeansBroke, Live

(* Putting chips in: what is behind falls by what is in front, the flag is *)
(* set exactly when nothing is left, and the bet covers the payment.       *)
LEMMA PayFair ==
  ASSUME HandInv, NEW p, Turn(p), NEW pay \in Nat, NEW ac \in SUBSET Seats,
         NEW bet \in Nat, NEW min \in Nat,
         pay <= stack[p], currentBet <= bet, committed[p] + pay <= bet
  PROVE  /\ Moved([stack EXCEPT ![p] = @ - pay], [committed EXCEPT ![p] = @ + pay],
                  folded, FlagAllIn(p, pay), ac, bet, min)
         /\ Fair([stack EXCEPT ![p] = @ - pay], [committed EXCEPT ![p] = @ + pay],
                 folded, FlagAllIn(p, pay), bet)
<1> DEFINE st == [stack EXCEPT ![p] = @ - pay]
           com == [committed EXCEPT ![p] = @ + pay]
<1>1. /\ Live /\ p \in Seats /\ committed[p] \in Nat /\ stack[p] \in Nat
      /\ currentBet \in Nat /\ allIn = {s \in Seats : stack[s] = 0}
      /\ \A s \in Seats : committed[s] <= currentBet
  BY TurnFacts
<1>2. /\ stack \in [Seats -> Nat] /\ committed \in [Seats -> Nat]
      /\ folded \subseteq Seats /\ allIn \subseteq Seats
  BY DEF HandInv, TypeOK
<1>3. FlagAllIn(p, pay) = {s \in Seats : st[s] = 0}
  BY <1>1, <1>2 DEF FlagAllIn
<1>4. Moved(st, com, folded, FlagAllIn(p, pay), ac, bet, min)
  BY <1>1, <1>2, <1>3 DEF Moved
<1>5. Fair(st, com, folded, FlagAllIn(p, pay), bet)
  <2>1. ASSUME NEW s \in Seats
        PROVE  st[s] + com[s] = stack[s] + committed[s] /\ com[s] <= bet /\ st[s] <= stack[s]
    <3>1. CASE s = p
      BY <1>1, <1>2, <3>1
    <3>2. CASE s # p
      <4>1. /\ st[s] = stack[s] /\ com[s] = committed[s] /\ committed[s] <= currentBet
            /\ stack[s] \in Nat /\ committed[s] \in Nat
        BY <1>1, <1>2, <3>2
      <4>2. QED
        BY <1>1, <4>1
    <3>3. QED
      BY <3>1, <3>2
  <2>2. QED
    BY <1>3, <2>1 DEF Fair
<1>6. QED
  BY <1>4, <1>5

LEMMA PayInv ==
  ASSUME HandInv, NEW p, Turn(p), NEW pay \in Nat, NEW ac \in SUBSET Seats,
         NEW bet \in Nat, NEW min \in Nat,
         pay <= stack[p], currentBet <= bet, committed[p] + pay <= bet,
         Pay(p, pay, ac, bet, min)
  PROVE  HandInv'
<1>1. Resolve([stack EXCEPT ![p] = @ - pay], [committed EXCEPT ![p] = @ + pay],
              folded, FlagAllIn(p, pay), ac, bet, min)
  BY DEF Pay
<1>2. Live
  BY TurnFacts
<1>3. QED
  BY <1>1, <1>2, PayFair, ResolveInv

(* A move without chips only folds.                                        *)
LEMMA IdleInv ==
  ASSUME HandInv, NEW p, Turn(p), NEW fold \in SUBSET Seats, folded \subseteq fold,
         Resolve(stack, committed, fold, allIn, acted \cup {p}, currentBet, minRaise)
  PROVE  HandInv'
<1>1. /\ Live /\ p \in Seats /\ allIn = {s \in Seats : stack[s] = 0}
      /\ Moved(stack, committed, folded, allIn, acted, currentBet, minRaise)
      /\ \A s \in Seats : committed[s] <= currentBet
  BY TurnFacts
<1>2. Moved(stack, committed, fold, allIn, acted \cup {p}, currentBet, minRaise)
  BY <1>1 DEF Moved
<1>3. Fair(stack, committed, fold, allIn, currentBet)
  BY <1>1 DEF Fair, Moved
<1>4. QED
  BY <1>1, <1>2, <1>3, ResolveInv

LEMMA ActInv ==
  ASSUME HandInv, NEW p \in Seats, Act(p)
  PROVE  HandInv'
<1>1. folded \subseteq Seats /\ acted \subseteq Seats
  BY DEF HandInv, TypeOK
<1>2. Reopened(p, acted) \in SUBSET Seats /\ acted \cup {p} \in SUBSET Seats
  BY <1>1 DEF Reopened
<1>3. CASE Fold(p)
  BY <1>1, <1>3, IdleInv DEF Fold
<1>4. CASE Check(p)
  BY <1>1, <1>4, IdleInv DEF Check
<1>5. CASE Call(p)
  <2>1. Turn(p) /\ CanCall(p) /\ Pay(p, CallAmount(p), acted \cup {p}, currentBet, minRaise)
    BY <1>5 DEF Call
  <2>2. /\ committed[p] \in Nat /\ stack[p] \in Nat
        /\ currentBet \in Nat /\ minRaise \in Nat
    BY <2>1, TurnFacts
  <2>3. /\ CallAmount(p) \in Nat /\ CallAmount(p) <= stack[p]
        /\ committed[p] + CallAmount(p) <= currentBet
    BY <2>1, <2>2 DEF CanCall, CallAmount, ToCall, Lesser
  <2>4. QED
    BY <1>2, <2>1, <2>2, <2>3, PayInv
<1>6. ASSUME NEW amount \in 1..stack[p], Bet(p, amount)
      PROVE  HandInv'
  <2>1. Turn(p) /\ BetOf(p, amount) /\ Pay(p, amount, Reopened(p, acted), amount, amount)
    BY <1>6 DEF Bet
  <2>2. /\ committed[p] \in Nat /\ stack[p] \in Nat /\ committed[p] <= currentBet
        /\ currentBet = 0
    BY <2>1, TurnFacts DEF BetOf
  <2>3. /\ amount \in Nat /\ amount <= stack[p] /\ currentBet <= amount
        /\ committed[p] + amount <= amount
    BY <2>2
  <2>4. QED
    BY <1>2, <2>1, <2>3, PayInv
<1>7. ASSUME NEW cost \in 1..stack[p], Raise(p, committed[p] + cost)
      PROVE  HandInv'
  <2> DEFINE total == committed[p] + cost
             full  == total - currentBet >= minRaise
             ac    == IF full THEN Reopened(p, acted) ELSE acted \cup {p}
             min   == IF full THEN total - currentBet ELSE minRaise
  <2>1. Turn(p) /\ RaiseTo(p, total) /\ Pay(p, total - committed[p], ac, total, min)
    BY <1>7 DEF Raise
  <2>2. /\ committed[p] \in Nat /\ stack[p] \in Nat
        /\ currentBet \in Nat /\ minRaise \in Nat
    BY <2>1, TurnFacts
  <2>3. total - committed[p] = cost /\ total \in Nat /\ currentBet < total /\ cost <= stack[p]
    BY <2>1, <2>2 DEF RaiseTo
  <2>4. min \in Nat
    BY <2>2, <2>3
  <2>5. ac \in SUBSET Seats
    BY <1>2
  <2>6. cost \in Nat /\ currentBet <= total /\ committed[p] + cost <= total
    BY <2>2, <2>3
  <2>7. QED
    <3> HIDE DEF total, full, ac, min
    <3>1. Pay(p, cost, ac, total, min)
      BY <2>1, <2>3
    <3>2. committed[p] + cost <= total
      BY <2>6
    <3>3. QED
      BY <2>1, <2>3, <2>4, <2>5, <2>6, <3>1, <3>2, PayInv
<1>8. QED
  BY <1>3, <1>4, <1>5, <1>6, <1>7 DEF Act

-----------------------------------------------------------------------------
(* The constructor: nobody has acted, so the street can only be over when  *)
(* no player has a chip behind, and then no betting round opens.           *)
LEMMA DealInv ==
  ASSUME HandInv, Deal
  PROVE  HandInv'
<1> DEFINE posted == [s \in Seats |-> Lesser(Blind(s), stack[s])]
           behind == [s \in Seats |-> stack[s] - posted[s]]
           broke  == {s \in Seats : behind[s] = 0}
<1>1. /\ stack = initial /\ contrib = Nobody /\ committed = Nobody
      /\ folded = {} /\ acted = {} /\ inRound = {}
  BY DEF Deal, HandInv, Untouched
<1>2. /\ stack \in [Seats -> Nat] /\ \A s \in Seats : stack[s] > 0
      /\ initial \in [Seats -> Stacks] /\ strength \in [Seats -> 0..N]
  BY <1>1, StacksAssumption DEF HandInv, TypeOK
<1>3. N \in Nat /\ N >= 2 /\ 1 \in Seats /\ 2 \in Seats /\ 1 # 2
  BY NAssumption DEF Seats
<1>4. \A s \in Seats : Blind(s) \in Nat /\ Blind(s) <= BigBlind
  BY BlindsAssumption DEF Blind
<1>5. ASSUME NEW s \in Seats
      PROVE  /\ posted[s] \in Nat /\ behind[s] \in Nat /\ posted[s] <= BigBlind
             /\ behind[s] + posted[s] = stack[s]
  BY <1>2, <1>4, BlindsAssumption DEF Lesser
<1>6. posted \in [Seats -> Nat] /\ behind \in [Seats -> Nat]
  BY <1>5
<1>7. /\ stack' = behind /\ allIn' = broke /\ UNCHANGED initial /\ folded' = {}
  BY <1>1 DEF Deal
<1>8. CASE RoundComplete(Seats, {}, broke, {}, posted, BigBlind)
  <2>1. Seats \ broke = {}
    BY <1>3, <1>8 DEF RoundComplete, AtMostOne
  <2>2. Bettors(behind, {}) = {}
    BY <1>5, <2>1 DEF Bettors
  <2>3. Settle(behind, posted, {})
    BY <1>8 DEF Deal
  <2>4. {} \in SUBSET Seats /\ TypeOK
    BY DEF HandInv
  <2>5. TypeOK'
    <3> HIDE DEF posted, behind, broke
    <3>1. /\ contrib' \in [Seats -> Nat] /\ committed' \in [Seats -> Nat]
          /\ acted' = {} /\ inRound' \subseteq Seats /\ currentBet' = 0
          /\ toAct' \in Seats /\ minRaise' \in Nat
          /\ street' \in {"flop", "turn", "river", "complete"}
          /\ strength' \in [Seats -> 0..N]
      BY <1>6, <2>3, <2>4, SettleType
    <3>2. broke \subseteq Seats
      BY DEF broke
    <3>3. QED
      BY <1>2, <1>6, <1>7, <3>1, <3>2 DEF TypeOK
  <2>6. \A s \in Seats : behind[s] + posted[s] = stack[s] + committed[s]
    BY <1>1, <1>2, <1>5 DEF Nobody
  <2>7. AtMostOne(Bettors(behind, {}))
    BY <2>2 DEF AtMostOne
  <2>8. QED
    <3>1. allIn' = {s \in Seats : behind[s] = 0}
      BY <1>7
    <3> HIDE DEF posted, behind, broke
    <3>2. QED
      BY <1>6, <1>7, <2>3, <2>4, <2>5, <2>6, <2>7, <3>1, SettleInv
<1>9. CASE ~RoundComplete(Seats, {}, broke, {}, posted, BigBlind)
  <2>1. /\ street' = "preflop" /\ committed' = posted /\ inRound' = Seats
        /\ toAct' = PreflopFirst /\ currentBet' = BigBlind /\ minRaise' = BigBlind
        /\ contrib' = Nobody /\ acted' = {} /\ strength' = strength
    BY <1>1, <1>9 DEF Deal
  <2>2. PreflopFirst \in Seats
    BY <1>3 DEF PreflopFirst, Seats
  <2>3. TypeOK'
    <3>1. broke \subseteq Seats /\ Nobody \in [Seats -> Nat]
      BY DEF Nobody
    <3> HIDE DEF posted, behind, broke
    <3>2. QED
      BY <1>2, <1>6, <1>7, <2>1, <2>2, <3>1, BlindsAssumption DEF TypeOK
  <2>4. Untouched' /\ AllInMeansBroke'
    BY <1>7, <2>1 DEF Untouched, AllInMeansBroke
  <2>5. ChipsAccounted'
    <3>1. \A s \in Seats : behind[s] + posted[s] + Nobody[s] = stack[s]
      BY <1>2, <1>5 DEF Nobody
    <3> HIDE DEF posted, behind, broke
    <3>2. QED
      BY <1>1, <1>7, <2>1, <3>1 DEF ChipsAccounted
  <2>6. BetsCovered'
    BY <1>5, <2>1 DEF BetsCovered, Nobody
  <2>7. NeverStalls'
    <3> HIDE DEF posted, behind, broke
    <3>1. QED
      BY <1>7, <1>9, <2>1 DEF NeverStalls
  <2>8. ActorHasChips'
    <3>1. ASSUME N >= 3
          PROVE  PreflopFirst = 3 /\ 3 \in Seats /\ 3 \notin broke
      <4>1. PreflopFirst = 3 /\ 3 \in Seats
        BY <1>3, <3>1 DEF PreflopFirst, Seats
      <4>2. posted[3] = 0
        BY <1>2, <4>1 DEF Blind, Lesser
      <4>3. QED
        BY <1>2, <4>1, <4>2
    <3> HIDE DEF posted, behind, broke
    <3>2. QED
      BY <1>7, <2>1, <3>1 DEF ActorHasChips
  <2>9. QED
    BY <2>3, <2>4, <2>5, <2>6, <2>7, <2>8 DEF HandInv
<1>10. QED
  BY <1>8, <1>9

(* A hand nobody has dealt yet satisfies the invariant.                    *)
LEMMA InitInv ==
  ASSUME Init
  PROVE  HandInv
<1>1. TypeOK
  <2>1. 1 \in Seats /\ 0 \in 0..N
    BY NAssumption DEF Seats
  <2>2. Nobody \in [Seats -> Nat] /\ Nobody \in [Seats -> 0..N]
    BY <2>1 DEF Nobody
  <2>3. initial \in [Seats -> Stacks] /\ initial \in [Seats -> Nat]
    BY StacksAssumption DEF Init
  <2>4. QED
    BY <2>1, <2>2, <2>3, BlindsAssumption DEF Init, TypeOK
<1>2. Untouched /\ ChipsAccounted
  BY <1>1, StacksAssumption DEF Init, Untouched, ChipsAccounted, Nobody, TypeOK
<1>3. AllInMeansBroke /\ BetsCovered /\ NeverStalls /\ ActorHasChips
  BY DEF Init, AllInMeansBroke, BetsCovered, NeverStalls, ActorHasChips, Live, Nobody
<1>4. QED
  BY <1>1, <1>2, <1>3 DEF HandInv

(* Every step of a hand, and every stutter, keeps the invariant.           *)
LEMMA NextInv ==
  ASSUME HandInv, [Next]_vars
  PROVE  HandInv'
<1>1. CASE Deal
  BY <1>1, DealInv
<1>2. CASE \E p \in Seats : Act(p)
  BY <1>2, ActInv
<1>3. CASE UNCHANGED vars
  BY <1>3 DEF vars, betting, HandInv, TypeOK, Untouched, ChipsAccounted, AllInMeansBroke,
     BetsCovered, NeverStalls, ActorHasChips, Live, RoundComplete
<1>4. QED
  BY <1>1, <1>2, <1>3 DEF Next, Done

(* The invariant of a hand, whatever the blinds, the stacks and the number *)
(* of players: every conjunct is an invariant of the hand's specification. *)
THEOREM HandIsSound == Spec => []HandInv
<1>1. Init => HandInv
  BY InitInv
<1>2. HandInv /\ [Next]_vars => HandInv'
  BY NextInv
<1>3. QED
  BY <1>1, <1>2, PTL DEF Spec

-----------------------------------------------------------------------------
(* legalActions() against act(), in any state of the invariant: an amount  *)
(* act() takes exists exactly when the action is offered, because going    *)
(* all-in is always a legal size.                                          *)
LEMMA OffersExact ==
  ASSUME HandInv
  PROVE  LegalActionsExact
<1> DEFINE p == toAct
<1>1. SUFFICES ASSUME Live
               PROVE  LegalActionsExact
  BY DEF LegalActionsExact
<1>2. /\ p \in Seats /\ stack[p] \in Nat /\ committed[p] \in Nat
      /\ currentBet \in Nat /\ minRaise \in Nat /\ committed[p] <= currentBet
  BY DEF HandInv, TypeOK, BetsCovered
<1> HIDE DEF p
<1>3. (ToCall(p) <= 0 <=> CanCheck(p)) /\ (ToCall(p) > 0 <=> CanCall(p)) /\ ToCall(p) \in Int
  BY <1>2 DEF ToCall, CanCheck, CanCall
<1>4. ToCall(p) > 0 <=> ~(ToCall(p) <= 0)
  BY <1>3
<1>5. (currentBet = 0 /\ stack[p] > 0) <=> \E x \in 1..stack[p] : BetOf(p, x)
  <2>1. ASSUME currentBet = 0, stack[p] > 0
        PROVE  stack[p] \in 1..stack[p] /\ BetOf(p, stack[p])
    BY <1>2, <2>1 DEF BetOf
  <2>2. ASSUME NEW x \in 1..stack[p], BetOf(p, x)
        PROVE  currentBet = 0 /\ stack[p] > 0
    BY <1>2, <2>2 DEF BetOf
  <2>3. QED
    BY <2>1, <2>2
<1>6. (currentBet > 0 /\ stack[p] > ToCall(p))
        <=> \E x \in 1..stack[p] : RaiseTo(p, committed[p] + x)
  <2>1. ASSUME currentBet > 0, stack[p] > ToCall(p)
        PROVE  stack[p] \in 1..stack[p] /\ RaiseTo(p, committed[p] + stack[p])
    BY <1>2, <2>1 DEF RaiseTo, ToCall
  <2>2. ASSUME NEW x \in 1..stack[p], RaiseTo(p, committed[p] + x)
        PROVE  currentBet > 0 /\ stack[p] > ToCall(p)
    BY <1>2, <2>2 DEF RaiseTo, ToCall
  <2>3. QED
    BY <2>1, <2>2
<1>7. LegalActions(p) = {"fold"}
        \cup {a \in {"check"} : CanCheck(p)} \cup {a \in {"call"} : CanCall(p)}
        \cup {a \in {"bet"} : \E x \in 1..stack[p] : BetOf(p, x)}
        \cup {a \in {"raise"} : \E x \in 1..stack[p] : RaiseTo(p, committed[p] + x)}
  <2> DEFINE canBet == \E x \in 1..stack[p] : BetOf(p, x)
             canRaise == \E x \in 1..stack[p] : RaiseTo(p, committed[p] + x)
  <2>1. /\ canBet <=> (currentBet = 0 /\ stack[p] > 0)
        /\ canRaise <=> (currentBet > 0 /\ stack[p] > ToCall(p))
    BY <1>5, <1>6
  <2> HIDE DEF canBet, canRaise
  <2>2. LegalActions(p) = {"fold"}
          \cup {a \in {"check"} : CanCheck(p)} \cup {a \in {"call"} : CanCall(p)}
          \cup {a \in {"bet"} : canBet} \cup {a \in {"raise"} : canRaise}
    BY <1>3, <1>4, <2>1 DEF LegalActions
  <2>3. QED
    BY <2>2 DEF canBet, canRaise
<1>8. QED
  BY <1>7 DEF LegalActionsExact, p

(* Clients and robots are offered exactly what act() accepts, in every     *)
(* hand.                                                                   *)
THEOREM OffersAreExact == Spec => []LegalActionsExact
<1>1. HandInv => LegalActionsExact
  BY OffersExact
<1>2. QED
  BY <1>1, HandIsSound, PTL

(* Nobody sees the next card cheaper, the hand never stalls on a finished  *)
(* street, and no betting action creates or destroys chips.                *)
THEOREM HandFacts == Spec => [](ChipsAccounted /\ NeverStalls /\ BetsCovered /\ ActorHasChips)
<1>1. HandInv => ChipsAccounted /\ NeverStalls /\ BetsCovered /\ ActorHasChips
  BY DEF HandInv
<1>2. QED
  BY <1>1, HandIsSound, PTL

(* A move ends the street only over players who have all acted on it.      *)
LEMMA ResolveActed ==
  ASSUME NEW st, NEW com, NEW fold, NEW ai, NEW ac, NEW bet, NEW min,
         ac \subseteq acted \cup {toAct}, street' # street,
         Resolve(st, com, fold, ai, ac, bet, min)
  PROVE  AtMostOne(inRound \ folded') \/ (inRound \ folded') \ allIn' \subseteq acted \cup {toAct}
<1>1. RoundComplete(inRound, fold, ai, ac, com, bet) /\ folded' = fold /\ allIn' = ai
  BY DEF Resolve
<1>2. QED
  BY <1>1 DEF RoundComplete

(* Nobody's turn is skipped: no street closes over a player with chips who *)
(* has not acted on it.                                                    *)
THEOREM EveryoneGetsToAct == Spec => EveryoneActs
<1> DEFINE A == Live /\ street' # street =>
                  LET left == inRound \ folded'
                  IN AtMostOne(left) \/ left \ allIn' \subseteq acted \cup {toAct}
<1>1. ASSUME [Next]_vars
      PROVE  [A]_vars
  <2>1. SUFFICES ASSUME Live, street' # street
                 PROVE  AtMostOne(inRound \ folded')
                        \/ (inRound \ folded') \ allIn' \subseteq acted \cup {toAct}
    OBVIOUS
  <2>2. PICK p \in Seats : Act(p)
    BY <1>1, <2>1 DEF Next, Done, Deal, Live, vars
  <2>3. p = toAct /\ acted \cup {p} \subseteq acted \cup {toAct}
        /\ Reopened(p, acted) \subseteq acted \cup {toAct}
    BY <2>2 DEF Act, Fold, Check, Call, Bet, Raise, Turn, Reopened
  <2>4. CASE Fold(p)
    BY <2>1, <2>3, <2>4, ResolveActed DEF Fold
  <2>5. CASE Check(p)
    BY <2>1, <2>3, <2>5, ResolveActed DEF Check
  <2>6. CASE Call(p)
    BY <2>1, <2>3, <2>6, ResolveActed DEF Call, Pay
  <2>7. ASSUME NEW amount \in 1..stack[p], Bet(p, amount)
        PROVE  AtMostOne(inRound \ folded')
               \/ (inRound \ folded') \ allIn' \subseteq acted \cup {toAct}
    BY <2>1, <2>3, <2>7, ResolveActed DEF Bet, Pay
  <2>8. ASSUME NEW cost \in 1..stack[p], Raise(p, committed[p] + cost)
        PROVE  AtMostOne(inRound \ folded')
               \/ (inRound \ folded') \ allIn' \subseteq acted \cup {toAct}
    BY <2>1, <2>3, <2>8, ResolveActed DEF Raise, Pay
  <2>9. QED
    BY <2>2, <2>4, <2>5, <2>6, <2>7, <2>8 DEF Act
<1>2. QED
  BY <1>1, PTL DEF Spec, EveryoneActs

-----------------------------------------------------------------------------
(* The pots: how many chips they hold and who is paid them *)

USE NAssumption

LEMMA SeatsAreFinite == IsFiniteSet(Seats) /\ Cardinality(Seats) = N /\ Seats \subseteq Nat
<1>1. IsFiniteSet(1..N) /\ Cardinality(1..N) = N BY FS_Interval
<1> QED BY <1>1 DEF Seats

LEMMA ImageIsFinite ==
  ASSUME NEW S, IsFiniteSet(S), NEW f
  PROVE  IsFiniteSet({f[x] : x \in S})
<1> DEFINE g == [x \in S |-> f[x]]
           T == {f[x] : x \in S}
<1>1. g \in Surjection(S, T) BY DEF Surjection
<1> HIDE DEF g, T
<1>2. IsFiniteSet(T) BY <1>1, FS_Surjection
<1> QED BY <1>2 DEF T

LEMMA LesserIs ==
  ASSUME NEW a \in Nat, NEW b \in Nat
  PROVE  /\ Lesser(a, b) \in Nat /\ Lesser(a, b) <= a /\ Lesser(a, b) <= b
         /\ a <= b => Lesser(a, b) = a
         /\ b <= a => Lesser(a, b) = b
  BY DEF Lesser

-----------------------------------------------------------------------------
(* Uncalled bets *)

LEMMA SecondIs ==
  ASSUME NEW c \in [Seats -> Nat]
  PROVE  /\ SecondLargest(c) \in Nat
         /\ \A p, q \in Seats : p # q => c[p] <= SecondLargest(c) \/ c[q] <= SecondLargest(c)
         /\ \E p, q \in Seats : p # q /\ c[p] >= SecondLargest(c) /\ c[q] >= SecondLargest(c)
<1> DEFINE pairs == {q \in Seats \X Seats : q[1] # q[2]}
           low == [p \in pairs |-> Lesser(c[p[1]], c[p[2]])]
           lows == {low[p] : p \in pairs}
<1>1. IsFiniteSet(pairs)
  <2>1. IsFiniteSet(Seats \X Seats) BY SeatsAreFinite, FS_Product
  <2> QED BY <2>1, FS_Subset
<1>2. \A p \in pairs : low[p] \in Nat BY DEF Lesser
<1>3. <<1, 2>> \in pairs BY DEF Seats
<1>4. SecondLargest(c) = Max(lows)
  <2>1. lows = {Lesser(c[p[1]], c[p[2]]) : p \in pairs} OBVIOUS
  <2> QED BY <2>1 DEF SecondLargest
<1>5. \A p, q \in Seats : p # q => <<p, q>> \in pairs /\ low[<<p, q>>] = Lesser(c[p], c[q])
  OBVIOUS
<1>6. \A r \in pairs : \E p, q \in Seats : p # q /\ low[r] = Lesser(c[p], c[q])
  OBVIOUS
<1> HIDE DEF low, pairs
<1>7. lows \subseteq Int /\ IsFiniteSet(lows) /\ lows # {} BY <1>1, <1>2, <1>3, ImageIsFinite
<1>8. Max(lows) \in lows /\ \A x \in lows : x <= Max(lows) BY <1>7, MaxExists
<1>9. SecondLargest(c) \in Nat BY <1>2, <1>4, <1>8
<1>10. ASSUME NEW p \in Seats, NEW q \in Seats, p # q
       PROVE  c[p] <= SecondLargest(c) \/ c[q] <= SecondLargest(c)
  <2>1. Lesser(c[p], c[q]) <= SecondLargest(c) BY <1>4, <1>5, <1>8, <1>10
  <2> QED BY <2>1 DEF Lesser
<1>11. \E p, q \in Seats : p # q /\ c[p] >= SecondLargest(c) /\ c[q] >= SecondLargest(c)
  <2>1. PICK r \in pairs : SecondLargest(c) = low[r] BY <1>4, <1>8
  <2>2. PICK p, q \in Seats : p # q /\ low[r] = Lesser(c[p], c[q]) BY <1>6
  <2>3. c[p] \in Nat /\ c[q] \in Nat OBVIOUS
  <2>4. c[p] >= Lesser(c[p], c[q]) /\ c[q] >= Lesser(c[p], c[q]) BY <2>3, LesserIs
  <2> QED BY <2>1, <2>2, <2>4
<1> QED BY <1>9, <1>10, <1>11

LEMMA CalledIs ==
  ASSUME NEW c \in [Seats -> Nat]
  PROVE  /\ Called(c) \in [Seats -> Nat] /\ Refunds(c) \in [Seats -> Nat]
         /\ \A s \in Seats : /\ Called(c)[s] = Lesser(c[s], SecondLargest(c))
                             /\ Refunds(c)[s] = c[s] - Called(c)[s]
<1>1. Called(c) \in [Seats -> Nat] /\ \A s \in Seats : Called(c)[s] = Lesser(c[s], SecondLargest(c))
  BY SecondIs, LesserIs DEF Called
<1>2. \A s \in Seats : c[s] - Called(c)[s] \in Nat
  BY <1>1, SecondIs, LesserIs
<1> QED BY <1>1, <1>2 DEF Refunds

(* What everybody else has put in to match p.                              *)
Matching(v, k) == [s \in Seats |-> Lesser(v[s], k)]

LEMMA MatchingType ==
  ASSUME NEW v \in [Seats -> Nat], NEW k \in Nat
  PROVE  /\ Matching(v, k) \in [Seats -> Nat]
         /\ SumFunctionOnSet(Matching(v, k), Seats) \in Nat
<1>1. Matching(v, k) \in [Seats -> Nat] BY LesserIs DEF Matching
<1> QED BY <1>1, SeatsAreFinite, SumNat

(* What a player can win is what is called of it and the refund.           *)
LEMMA RefundCompletes ==
  ASSUME NEW c \in [Seats -> Nat], NEW p \in Seats
  PROVE  SumFunctionOnSet(Matching(c, c[p]), Seats) =
           Refunds(c)[p] + SumFunctionOnSet(Matching(Called(c), Called(c)[p]), Seats)
<1> DEFINE second == SecondLargest(c)
           e == Called(c)
           f == Matching(c, c[p])
           g == Matching(e, e[p])
<1>1. /\ e \in [Seats -> Nat] /\ c[p] \in Nat /\ e[p] \in Nat /\ second \in Nat
      /\ \A s \in Seats : e[s] = Lesser(c[s], second) /\ Refunds(c)[s] = c[s] - e[s]
  BY CalledIs, SecondIs
<1>2. f \in [Seats -> Nat] /\ g \in [Seats -> Nat]
      /\ SumFunctionOnSet(f, Seats) \in Nat /\ SumFunctionOnSet(g, Seats) \in Nat
  BY <1>1, MatchingType
<1>3. \A s \in Seats : f[s] = Lesser(c[s], c[p]) /\ g[s] = Lesser(e[s], e[p])
  BY DEF Matching
<1>4. \A q \in Seats : q # p => c[p] <= second \/ c[q] <= second BY SecondIs
<1> HIDE DEF second, e, f, g
<1>5. SumFunctionOnSet(f, Seats) = Refunds(c)[p] + SumFunctionOnSet(g, Seats)
  <2>1. CASE c[p] <= second
    <3>1. Refunds(c)[p] = 0 BY <1>1, <2>1 DEF Lesser
    <3>2. \A s \in Seats : f[s] \in Int /\ f[s] = g[s]
      <4> TAKE s \in Seats
      <4>1. c[s] \in Nat OBVIOUS
      <4> QED BY <1>1, <1>3, <2>1, <4>1 DEF Lesser
    <3>3. SumFunctionOnSet(f, Seats) = SumFunctionOnSet(g, Seats)
      BY <3>2, SeatsAreFinite, SumSame
    <3> QED BY <1>2, <3>1, <3>3
  <2>2. CASE c[p] > second
    <3>1. \A s \in Seats : f[s] \in Int /\ g[s] \in Int /\ (s # p => f[s] = g[s])
      <4> TAKE s \in Seats
      <4>1. c[s] \in Nat OBVIOUS
      <4>2. s # p => c[s] <= second BY <1>4, <1>1, <2>2
      <4> QED BY <1>1, <1>3, <2>2, <4>1, <4>2 DEF Lesser
    <3>2. SumFunctionOnSet(g, Seats) = SumFunctionOnSet(f, Seats) - f[p] + g[p]
      <4>1. IsFiniteSet(Seats) BY SeatsAreFinite
      <4> QED BY <3>1, <4>1, SumChange
    <3>3. f[p] = c[p] /\ g[p] = e[p] BY <1>1, <1>3 DEF Lesser
    <3> QED BY <1>1, <1>2, <3>2, <3>3
  <2> QED BY <1>1, <2>1, <2>2
<1> QED BY <1>5 DEF e, f, g

-----------------------------------------------------------------------------
(* Layers *)

LEMMA LevelsAre ==
  ASSUME NEW e \in [Seats -> Nat]
  PROVE  /\ LayerLevels(e) \subseteq Nat \ {0} /\ IsFiniteSet(LayerLevels(e))
         /\ \A s \in Seats : e[s] \in LayerLevels(e) \cup {0}
<1>1. IsFiniteSet({e[s] : s \in Seats}) BY SeatsAreFinite, ImageIsFinite
<1>2. IsFiniteSet(LayerLevels(e)) BY <1>1, FS_Difference DEF LayerLevels
<1> QED BY <1>2 DEF LayerLevels

LEMMA BelowIs ==
  ASSUME NEW e \in [Seats -> Nat], NEW l \in LayerLevels(e)
  PROVE  /\ LevelBelow(e, l) \in {0} \cup LayerLevels(e) /\ LevelBelow(e, l) \in Nat
         /\ LevelBelow(e, l) < l
         /\ \A k \in LayerLevels(e) : k < l => k <= LevelBelow(e, l)
<1> DEFINE below == {k \in LayerLevels(e) : k < l}
           ks == {0} \cup below
<1>1. IsFiniteSet(ks)
  <2>1. IsFiniteSet(below) /\ IsFiniteSet({0}) BY LevelsAre, FS_Subset, FS_Singleton
  <2> QED BY <2>1, FS_Union
<1>2. ks \in SUBSET Int /\ ks # {} /\ \A k \in ks : k < l /\ k \in Nat BY LevelsAre
<1>3. Max(ks) \in ks /\ \A x \in ks : x <= Max(ks)
  <2> HIDE DEF ks
  <2> QED BY <1>1, <1>2, MaxExists
<1>4. LevelBelow(e, l) = Max(ks) BY DEF LevelBelow
<1> HIDE DEF ks
<1>5. LevelBelow(e, l) \in ks BY <1>3, <1>4
<1> QED BY <1>2, <1>3, <1>4, <1>5 DEF ks

Layers(e) == [l \in LayerLevels(e) |-> LayerAmount(e, l)]

LEMMA LayersType ==
  ASSUME NEW e \in [Seats -> Nat], NEW l \in LayerLevels(e)
  PROVE  /\ Layers(e)[l] = (l - LevelBelow(e, l)) * Cardinality(Contributors(e, l))
         /\ Layers(e)[l] \in Nat /\ Layers(e)[l] >= Cardinality(Contributors(e, l))
         /\ Cardinality(Contributors(e, l)) \in Nat
         /\ IsFiniteSet(Contributors(e, l)) /\ Contributors(e, l) # {}
<1>1. Contributors(e, l) \in SUBSET Seats /\ Contributors(e, l) # {}
  <2>1. PICK s \in Seats : l = e[s] BY DEF LayerLevels
  <2>2. e[s] \in Nat OBVIOUS
  <2>3. s \in Contributors(e, l) BY <2>1, <2>2 DEF Contributors
  <2> QED BY <2>3 DEF Contributors
<1>2. IsFiniteSet(Contributors(e, l)) /\ Cardinality(Contributors(e, l)) \in Nat
  BY <1>1, SeatsAreFinite, FS_Subset, FS_CardinalityType
<1>3. l - LevelBelow(e, l) \in Nat /\ l - LevelBelow(e, l) >= 1 BY BelowIs, LevelsAre
<1>4. \A a, b \in Nat : a >= 1 => a * b \in Nat /\ a * b >= b
  OBVIOUS
<1>5. Layers(e)[l] = (l - LevelBelow(e, l)) * Cardinality(Contributors(e, l))
  BY DEF Layers, LayerAmount
<1> QED BY <1>1, <1>2, <1>3, <1>4, <1>5

(* The layers up to a level hold what everybody put in up to it.           *)
LEMMA LayersReach ==
  ASSUME NEW e \in [Seats -> Nat], NEW k \in LayerLevels(e) \cup {0}
  PROVE  SumFunctionOnSet(Layers(e), {l \in LayerLevels(e) : l <= k}) =
           SumFunctionOnSet(Matching(e, k), Seats)
<1> DEFINE upTo(j) == {l \in LayerLevels(e) : l <= j}
           Reached(j) == SumFunctionOnSet(Layers(e), upTo(j)) = SumFunctionOnSet(Matching(e, j), Seats)
           Good == {s \in SUBSET LayerLevels(e) :
                      \A j \in LayerLevels(e) \cup {0} : s = upTo(j) => Reached(j)}
<1>0. LayerLevels(e) \subseteq Nat \ {0} /\ IsFiniteSet(LayerLevels(e)) BY LevelsAre
<1>1. ASSUME NEW s \in SUBSET LayerLevels(e), \A t \in SUBSET s : t # s => t \in Good
      PROVE  s \in Good
  <2> SUFFICES ASSUME NEW j \in LayerLevels(e) \cup {0}, s = upTo(j) PROVE Reached(j)
    OBVIOUS
  <2>1. CASE j = 0
    <3>1. upTo(0) = {} BY <1>0
    <3> DEFINE nothing == Matching(e, 0)
    <3>2. \A p \in Seats : nothing[p] = 0 BY DEF Matching, Lesser
    <3>3. SumFunctionOnSet(nothing, Seats) = 0 * Cardinality(Seats)
      <4> HIDE DEF nothing
      <4>1. IsFiniteSet(Seats) /\ 0 \in Int BY SeatsAreFinite
      <4> QED BY <3>2, <4>1, SumConstant
    <3> QED BY <2>1, <3>1, <3>3, SeatsAreFinite, SumEmpty
  <2>2. CASE j \in LayerLevels(e)
    <3> DEFINE b == LevelBelow(e, j)
               payers == Contributors(e, j)
               more == [p \in Seats |-> IF p \in payers THEN j - b ELSE 0]
    <3>1. /\ b \in {0} \cup LayerLevels(e) /\ b \in Nat /\ b < j /\ j \in Nat
          /\ \A l \in LayerLevels(e) : l < j => l <= b
      BY <1>0, <2>2, BelowIs
    <3>2. upTo(j) \ {j} = upTo(b) /\ j \in upTo(j) BY <1>0, <2>2, <3>1
    <3>3. Reached(b) BY <1>1, <3>1, <3>2
    <3>4. /\ Layers(e)[j] = (j - b) * Cardinality(payers) /\ payers \in SUBSET Seats
          /\ IsFiniteSet(payers) /\ Cardinality(payers) \in Nat /\ (j - b) \in Nat
      BY <2>2, <3>1, LayersType DEF Contributors
    <3>5. SumFunctionOnSet(Layers(e), upTo(j)) = Layers(e)[j] + SumFunctionOnSet(Layers(e), upTo(b))
      <4>1. IsFiniteSet(upTo(j)) BY <1>0, FS_Subset
      <4>2. \A l \in upTo(j) : Layers(e)[l] \in Int BY LayersType
      <4> HIDE DEF b, upTo
      <4>3. SumFunctionOnSet(Layers(e), upTo(j)) =
              Layers(e)[j] + SumFunctionOnSet(Layers(e), upTo(j) \ {j})
        BY <3>2, <4>1, <4>2, SumOut
      <4> QED BY <3>2, <4>3
    <3>6. SumFunctionOnSet(more, Seats) = (j - b) * Cardinality(payers)
      <4>1. \A p \in Seats : more[p] \in Int BY <3>1, <3>4
      <4>2. \A p \in payers : more[p] = j - b BY <3>4
      <4>3. \A p \in Seats \ payers : more[p] = 0 OBVIOUS
      <4> HIDE DEF more, payers, b
      <4>4. SumFunctionOnSet(more, Seats) =
              SumFunctionOnSet(more, payers) + SumFunctionOnSet(more, Seats \ payers)
        BY <3>4, <4>1, SeatsAreFinite, SumSplit
      <4>5. SumFunctionOnSet(more, payers) = (j - b) * Cardinality(payers)
        BY <3>4, <4>2, SumConstant
      <4>6. SumFunctionOnSet(more, Seats \ payers) = 0 * Cardinality(Seats \ payers)
            /\ Cardinality(Seats \ payers) \in Nat
        <5>1. IsFiniteSet(Seats \ payers) BY SeatsAreFinite, FS_Difference
        <5> QED BY <4>3, <5>1, SumConstant, FS_CardinalityType
      <4>7. (j - b) * Cardinality(payers) \in Int BY <3>4
      <4> QED BY <4>4, <4>5, <4>6, <4>7
    <3>7. SumFunctionOnSet(Matching(e, j), Seats) =
            SumFunctionOnSet(Matching(e, b), Seats) + SumFunctionOnSet(more, Seats)
      <4>1. \A p \in Seats : /\ Matching(e, b)[p] \in Int /\ more[p] \in Int
                             /\ Matching(e, j)[p] = Matching(e, b)[p] + more[p]
        <5> TAKE p \in Seats
        <5>1. e[p] \in Nat /\ e[p] \in LayerLevels(e) \cup {0} BY LevelsAre
        <5>2. e[p] < j => e[p] <= b BY <3>1, <5>1
        <5>3. p \in payers <=> e[p] >= j BY DEF Contributors
        <5>4. Matching(e, b)[p] = Lesser(e[p], b) /\ Matching(e, j)[p] = Lesser(e[p], j)
          BY DEF Matching
        <5> HIDE DEF payers, b
        <5> QED BY <3>1, <5>1, <5>2, <5>3, <5>4 DEF Lesser
      <4> HIDE DEF more
      <4> QED BY <4>1, SeatsAreFinite, SumAdd
    <3>8. SumFunctionOnSet(Matching(e, b), Seats) \in Nat BY <3>1, MatchingType
    <3>9. (j - b) * Cardinality(payers) \in Nat BY <3>4
    <3> HIDE DEF b, payers, more, upTo
    <3> QED BY <3>3, <3>4, <3>5, <3>6, <3>7, <3>8, <3>9
  <2> QED BY <2>1, <2>2
<1>2. \A s \in SUBSET LayerLevels(e) : s \in Good
  <2> HIDE DEF Good
  <2> QED BY <1>0, <1>1, SubsetInduction
<1>3. upTo(k) \in SUBSET LayerLevels(e) OBVIOUS
<1> HIDE DEF upTo
<1>4. Reached(k) BY <1>2, <1>3
<1> QED BY <1>4 DEF upTo

-----------------------------------------------------------------------------
(* Pots *)

KeyOf(c, fold) ==
  [l \in LayerLevels(Called(c)) |-> PotFor(Called(c), fold, Eligible(Called(c), fold, l))]

LEMMA PotHolds ==
  ASSUME NEW e \in [Seats -> Nat], NEW fold, NEW E
  PROVE  /\ PotFor(e, fold, E).eligible = E
         /\ PotFor(e, fold, E).amount =
              SumFunctionOnSet(Layers(e), {l \in LayerLevels(e) : Eligible(e, fold, l) = E})
<1> DEFINE ls == {l \in LayerLevels(e) : Eligible(e, fold, l) = E}
           f == [l \in ls |-> LayerAmount(e, l)]
           total == MapThenSumSet(LAMBDA l : LayerAmount(e, l), ls)
<1>1. PotFor(e, fold, E) = [eligible |-> E, amount |-> total] BY DEF PotFor
<1>2. total = SumFunctionOnSet(f, ls)
  <2> HIDE DEF ls
  <2> QED BY ZenonT(40) DEF MapThenSumSet, SumFunctionOnSet, FoldFunctionOnSet, MapThenFoldSet
<1>3. IsFiniteSet(ls) BY LevelsAre, FS_Subset
<1>4. \A l \in ls : Layers(e)[l] \in Int /\ Layers(e)[l] = f[l]
  BY LayersType DEF Layers
<1>5. \A l \in ls : f[l] \in Int /\ f[l] = Layers(e)[l] BY <1>4
<1> HIDE DEF f, total, ls
<1>6. SumFunctionOnSet(f, ls) = SumFunctionOnSet(Layers(e), ls) BY <1>3, <1>5, SumSame
<1>7. PotFor(e, fold, E).eligible = E /\ PotFor(e, fold, E).amount = total BY <1>1
<1> QED BY <1>2, <1>6, <1>7 DEF ls

LEMMA PotsAre ==
  ASSUME NEW c \in [Seats -> Nat], NEW fold
  PROVE  /\ IsFiniteSet(Pots(c, fold))
         /\ Pots(c, fold) = {KeyOf(c, fold)[l] : l \in LayerLevels(Called(c))}
         /\ \A l \in LayerLevels(Called(c)) :
              KeyOf(c, fold)[l].eligible = Eligible(Called(c), fold, l)
         /\ \A pot \in Pots(c, fold) :
              /\ pot = PotFor(Called(c), fold, pot.eligible)
              /\ pot.eligible \subseteq Seats \ fold /\ pot.amount \in Nat
              /\ \A l \in LayerLevels(Called(c)) :
                   KeyOf(c, fold)[l] = pot <=> Eligible(Called(c), fold, l) = pot.eligible
<1> DEFINE e == Called(c)
           key == KeyOf(c, fold)
<1>1. e \in [Seats -> Nat] BY CalledIs
<1>2. \A l \in LayerLevels(e) : key[l] = PotFor(e, fold, Eligible(e, fold, l)) BY DEF KeyOf
<1>3. Pots(c, fold) = {key[l] : l \in LayerLevels(e)} BY <1>2 DEF Pots
<1>4. \A E : PotFor(e, fold, E).eligible = E BY DEF PotFor
<1>5. ASSUME NEW pot \in Pots(c, fold)
      PROVE  /\ pot = PotFor(e, fold, pot.eligible)
             /\ pot.eligible \subseteq Seats \ fold /\ pot.amount \in Nat
  <2>1. PICK l \in LayerLevels(e) : pot = PotFor(e, fold, Eligible(e, fold, l)) BY <1>2, <1>3
  <2>2. pot.eligible = Eligible(e, fold, l) BY <1>4, <2>1
  <2>3. IsFiniteSet({k \in LayerLevels(e) : Eligible(e, fold, k) = pot.eligible})
    BY <1>1, LevelsAre, FS_Subset
  <2>4. \A k \in {k \in LayerLevels(e) : Eligible(e, fold, k) = pot.eligible} : Layers(e)[k] \in Nat
    BY <1>1, LayersType
  <2>5. PotFor(e, fold, pot.eligible).amount \in Nat BY <1>1, <2>3, <2>4, PotHolds, SumNat
  <2> QED BY <2>1, <2>2, <2>5 DEF Eligible, Contributors
<1>6. IsFiniteSet({key[l] : l \in LayerLevels(e)})
  <2> HIDE DEF key
  <2> QED BY <1>1, LevelsAre, ImageIsFinite
<1> HIDE DEF e, key
<1>7. \A pot \in Pots(c, fold), l \in LayerLevels(e) :
        key[l] = pot <=> Eligible(e, fold, l) = pot.eligible
  BY <1>2, <1>4, <1>5
<1> QED BY <1>2, <1>3, <1>4, <1>5, <1>6, <1>7 DEF e, key

(* Some of the pots hold the layers that are in them.                      *)
LEMMA PotsAdd ==
  ASSUME NEW c \in [Seats -> Nat], NEW fold, NEW P \in SUBSET Pots(c, fold),
         NEW f, \A pot \in P : f[pot] = pot.amount
  PROVE  SumFunctionOnSet(f, P) =
           SumFunctionOnSet(Layers(Called(c)),
                            Keyed(LayerLevels(Called(c)), KeyOf(c, fold), P))
<1> DEFINE e == Called(c)
           L == Layers(e)
           ls == LayerLevels(e)
           key == KeyOf(c, fold)
<1>1. e \in [Seats -> Nat] BY CalledIs
<1>2. IsFiniteSet(ls) /\ \A l \in ls : L[l] \in Int BY <1>1, LevelsAre, LayersType
<1>3. IsFiniteSet(P) BY PotsAre, FS_Subset
<1>4. ASSUME NEW pot \in P PROVE f[pot] = SumFunctionOnSet(L, WithKey(ls, key, pot))
  <2>1. pot.amount = SumFunctionOnSet(L, {l \in ls : Eligible(e, fold, l) = pot.eligible})
    BY <1>1, PotsAre, PotHolds
  <2>2. {l \in ls : Eligible(e, fold, l) = pot.eligible} = WithKey(ls, key, pot)
    BY PotsAre DEF WithKey
  <2> QED BY <2>1, <2>2
<1> HIDE DEF e, L, ls, key
<1>5. SumFunctionOnSet(f, P) = SumFunctionOnSet(L, Keyed(ls, key, P))
  <2>1. IsFiniteSet(ls) /\ IsFiniteSet(P) BY <1>2, <1>3
  <2>2. \A l \in ls : L[l] \in Int BY <1>2
  <2>3. \A pot \in P : f[pot] = SumFunctionOnSet(L, WithKey(ls, key, pot)) BY <1>4
  <2> QED BY <2>1, <2>2, <2>3, SumByKey
<1> QED BY <1>5 DEF e, L, ls, key

(* The pots a live player is in hold what it can win of the others.        *)
PotsOf(c, fold, p) == {pot \in Pots(c, fold) : p \in pot.eligible}
LEMMA PotsReach ==
  ASSUME NEW c \in [Seats -> Nat], NEW fold, NEW p \in Seats, p \notin fold,
         NEW f, \A pot \in PotsOf(c, fold, p) : f[pot] = pot.amount
  PROVE  SumFunctionOnSet(f, PotsOf(c, fold, p)) + Refunds(c)[p] =
           SumFunctionOnSet(Matching(c, c[p]), Seats)
<1> DEFINE e == Called(c)
           P == PotsOf(c, fold, p)
           ls == LayerLevels(e)
           key == KeyOf(c, fold)
<1>1. e \in [Seats -> Nat] /\ Refunds(c)[p] \in Nat BY CalledIs
<1>2. \A l \in ls : key[l] \in P <=> l <= e[p]
  <2> TAKE l \in ls
  <2>1. key[l] \in P <=> p \in Eligible(e, fold, l) BY PotsAre DEF PotsOf
  <2>2. e[p] \in Nat /\ l \in Nat BY <1>1, LevelsAre
  <2> HIDE DEF P, ls, key
  <2> QED BY <2>1, <2>2 DEF Eligible, Contributors
<1>3. Keyed(ls, key, P) = {l \in ls : l <= e[p]} BY <1>2 DEF Keyed
<1>4. SumFunctionOnSet(f, P) = SumFunctionOnSet(Layers(e), Keyed(ls, key, P))
  <2>1. P \in SUBSET Pots(c, fold) BY DEF PotsOf
  <2> QED BY <2>1, PotsAdd
<1>5. e[p] \in ls \cup {0} BY <1>1, LevelsAre
<1>6. SumFunctionOnSet(Layers(e), {l \in ls : l <= e[p]}) = SumFunctionOnSet(Matching(e, e[p]), Seats)
  BY <1>1, <1>5, LayersReach
<1>7. SumFunctionOnSet(Matching(c, c[p]), Seats) =
        Refunds(c)[p] + SumFunctionOnSet(Matching(e, e[p]), Seats)
  BY RefundCompletes
<1>8. e[p] \in Nat BY <1>1
<1> DEFINE mine == SumFunctionOnSet(Matching(e, e[p]), Seats)
<1>9. mine \in Nat BY <1>1, <1>8, MatchingType
<1>10. SumFunctionOnSet(f, P) = mine BY <1>3, <1>4, <1>6
<1>11. SumFunctionOnSet(Matching(c, c[p]), Seats) = Refunds(c)[p] + mine BY <1>7
<1> HIDE DEF mine, P
<1>12. SumFunctionOnSet(f, P) + Refunds(c)[p] = SumFunctionOnSet(Matching(c, c[p]), Seats)
  BY <1>1, <1>9, <1>10, <1>11
<1> QED BY <1>12 DEF P

-----------------------------------------------------------------------------
(* Shares *)

LEMMA DivisionIs ==
  ASSUME NEW a \in Nat, NEW k \in Nat, k >= 1
  PROVE  a \div k \in Nat /\ a % k \in 0..k - 1 /\ a = k * (a \div k) + (a % k)
<1>1. a % k \in 0..k - 1 OBVIOUS
<1>2. a \div k \in Int /\ a = k * (a \div k) + (a % k) OBVIOUS
<1>3. a \div k >= 0
  <2> SUFFICES ASSUME a \div k <= -1 PROVE FALSE
    BY <1>2
  <2>1. k * (a \div k) <= -k BY <1>2
  <2> QED BY <1>1, <1>2, <2>1
<1> QED BY <1>1, <1>2, <1>3

(* A share of a pot: none for who cannot win it, at most all of it, and all*)
(* of it for the one best hand.                                            *)
PotOK(pot) == pot.eligible \subseteq Seats /\ pot.amount \in Nat
Ahead(E, rank, s) == s \in E /\ \A t \in E \ {s} : rank[t] < rank[s]
LEMMA SharesAre ==
  ASSUME NEW pot, PotOK(pot), NEW rank \in [Seats -> Nat], NEW s \in Seats
  PROVE  /\ Share(pot, rank, s) \in Nat /\ Share(pot, rank, s) <= pot.amount
         /\ s \notin pot.eligible => Share(pot, rank, s) = 0
         /\ Ahead(pot.eligible, rank, s) => Share(pot, rank, s) = pot.amount
<1> DEFINE W == Winners(pot.eligible, rank)
           k == Cardinality(W)
           a == pot.amount
           ahead == Cardinality(AheadOf(W, s))
<1>1. W \subseteq pot.eligible /\ W \in SUBSET Seats BY DEF Winners, PotOK
<1>2. IsFiniteSet(W) /\ k \in Nat BY <1>1, SeatsAreFinite, FS_Subset, FS_CardinalityType
<1>3. a \in Nat BY DEF PotOK
<1>4. CASE s \notin W
  <2>1. Share(pot, rank, s) = 0 BY <1>4 DEF Share
  <2>2. ~Ahead(pot.eligible, rank, s)
    <3>1. SUFFICES ASSUME Ahead(pot.eligible, rank, s) PROVE s \in W
      BY <1>4
    <3>2. \A t \in pot.eligible : rank[t] <= rank[s]
      <4> TAKE t \in pot.eligible
      <4>1. rank[t] \in Nat /\ rank[s] \in Nat BY DEF PotOK
      <4>2. t = s \/ rank[t] < rank[s] BY <3>1 DEF Ahead
      <4> QED BY <4>1, <4>2
    <3> QED BY <3>1, <3>2 DEF Ahead, Winners
  <2> QED BY <1>3, <2>1, <2>2
<1>5. CASE s \in W
  <2>1. k >= 1 BY <1>2, <1>5, FS_EmptySet
  <2>2. Share(pot, rank, s) = a \div k + (IF ahead < a % k THEN 1 ELSE 0)
    BY <1>5 DEF Share, OddChips
  <2>3. ahead \in Nat
    <3>1. AheadOf(W, s) \in SUBSET W BY DEF AheadOf
    <3> QED BY <1>2, <3>1, FS_Subset, FS_CardinalityType
  <2>4. s \in pot.eligible BY <1>1, <1>5
  <2>5. a \div k \in Nat /\ a % k \in 0..k - 1 /\ a = k * (a \div k) + (a % k)
    BY <1>2, <1>3, <2>1, DivisionIs
  <2>6. k * (a \div k) >= a \div k
    <3> DEFINE d == a \div k
    <3>1. d \in Nat /\ k \in Nat /\ k - 1 \in Nat BY <1>2, <2>1, <2>5
    <3> HIDE DEF d, k
    <3>2. (k - 1) * d \in Nat BY <3>1
    <3>3. k * d = (k - 1) * d + d BY <3>1
    <3> QED BY <3>1, <3>2, <3>3 DEF d
  <2>7. Ahead(pot.eligible, rank, s) => k = 1
    <3> SUFFICES ASSUME Ahead(pot.eligible, rank, s) PROVE k = 1
      OBVIOUS
    <3>1. W = {s}
      <4> SUFFICES ASSUME NEW t \in W, t # s PROVE FALSE
        BY <1>5
      <4>1. rank[t] \in Nat /\ rank[s] \in Nat BY <1>1
      <4>2. rank[t] < rank[s] BY <1>1 DEF Ahead
      <4>3. rank[s] <= rank[t] BY <1>1, <1>5 DEF Winners
      <4> QED BY <4>1, <4>2, <4>3
    <3> QED BY <3>1, FS_Singleton
  <2>8. k = 1 => a \div k = a /\ a % k = 0 BY <1>3
  <2> HIDE DEF W, k, a, ahead
  <2>9. Share(pot, rank, s) \in Nat /\ Share(pot, rank, s) <= a
        /\ (k = 1 => Share(pot, rank, s) = a)
    BY <1>2, <1>3, <2>1, <2>2, <2>3, <2>5, <2>6, <2>8
  <2> QED BY <2>4, <2>7, <2>9 DEF a
<1> QED BY <1>4, <1>5

SharesIn(pots, rank, s) == [pot \in pots |-> Share(pot, rank, s)]
LEMMA PayoutsAre ==
  ASSUME NEW c \in [Seats -> Nat], NEW fold, NEW rank, NEW s \in Seats
  PROVE  Payouts(c, fold, rank)[s] =
           Refunds(c)[s] + SumFunctionOnSet(SharesIn(Pots(c, fold), rank, s), Pots(c, fold))
<1> DEFINE pots == Pots(c, fold)
           f == [pot \in pots |-> Share(pot, rank, s)]
           shares == MapThenSumSet(LAMBDA pot : Share(pot, rank, s), pots)
<1>1. Payouts(c, fold, rank)[s] = Refunds(c)[s] + shares BY DEF Payouts
<1>2. shares = SumFunctionOnSet(f, pots)
  <2> HIDE DEF pots
  <2> QED BY ZenonT(40) DEF MapThenSumSet, SumFunctionOnSet, FoldFunctionOnSet, MapThenFoldSet
<1>3. f = SharesIn(pots, rank, s) BY DEF SharesIn
<1> HIDE DEF f, shares, pots
<1>4. Payouts(c, fold, rank)[s] = Refunds(c)[s] + SumFunctionOnSet(SharesIn(pots, rank, s), pots)
  BY <1>1, <1>2, <1>3
<1> QED BY <1>4 DEF pots

-----------------------------------------------------------------------------
(* A pot with a live player in it is paid out to the last chip. *)

(* Of the winners, exactly r have fewer than r winners ahead of them.      *)
Earliest(W, r) == {s \in W : Cardinality(AheadOf(W, s)) < r}
LEMMA EarliestAre ==
  ASSUME NEW W \in SUBSET Seats, NEW r \in Nat, r <= Cardinality(W)
  PROVE  Cardinality(Earliest(W, r)) = r
<1> DEFINE Good == {V \in SUBSET Seats :
             \A j \in Nat : j <= Cardinality(V) => Cardinality(Earliest(V, j)) = j}
<1>0. \A V \in SUBSET Seats : IsFiniteSet(V) /\ Cardinality(V) \in Nat
  BY SeatsAreFinite, FS_Subset, FS_CardinalityType
<1>1. ASSUME NEW V \in SUBSET Seats, \A U \in SUBSET V : U # V => U \in Good
      PROVE  V \in Good
  <2> SUFFICES ASSUME NEW j \in Nat, j <= Cardinality(V) PROVE Cardinality(Earliest(V, j)) = j
    OBVIOUS
  <2> DEFINE k == Cardinality(V)
  <2>1. CASE j = k
    <3>1. \A s \in V : Cardinality(AheadOf(V, s)) < k
      <4> TAKE s \in V
      <4>1. AheadOf(V, s) \in SUBSET (V \ {s}) BY SeatsAreFinite DEF AheadOf
      <4>2. IsFiniteSet(V \ {s}) /\ Cardinality(V \ {s}) = k - 1 BY <1>0, FS_RemoveElement
      <4>3. Cardinality(AheadOf(V, s)) <= k - 1 BY <4>1, <4>2, FS_Subset
      <4>4. AheadOf(V, s) \in SUBSET Seats BY <4>1
      <4> QED BY <1>0, <4>3, <4>4
    <3>2. Earliest(V, j) = V BY <2>1, <3>1 DEF Earliest
    <3> QED BY <2>1, <3>2
  <2>2. CASE j # k
    <3>1. V # {} /\ j < k
      <4>1. k \in Nat BY <1>0
      <4>2. V = {} => k = 0 BY FS_EmptySet
      <4> QED BY <2>2, <4>1, <4>2
    <3> DEFINE m == Max(V)
               U == V \ {m}
    <3>2. m \in V /\ \A s \in V : s <= m
      <4>1. V \in SUBSET Int /\ IsFiniteSet(V) BY <1>0, SeatsAreFinite
      <4> QED BY <3>1, <4>1, MaxExists
    <3>3. Cardinality(U) = k - 1 /\ k \in Nat BY <1>0, <3>2, FS_RemoveElement
    <3>4. Cardinality(Earliest(U, j)) = j
      <4>1. U \in Good BY <1>1, <3>2
      <4> QED BY <3>1, <3>3, <4>1
    <3>5. AheadOf(V, m) = U /\ \A s \in U : AheadOf(V, s) = AheadOf(U, s)
      <4>0. \A s \in V : s \in Nat BY SeatsAreFinite
      <4> HIDE DEF m
      <4>1. \A s \in U : s < m BY <3>2, <4>0
      <4> QED BY <3>2, <4>0, <4>1 DEF AheadOf
    <3>6. Earliest(V, j) = Earliest(U, j)
      <4>1. ~(Cardinality(AheadOf(V, m)) < j) BY <3>1, <3>3, <3>5
      <4> HIDE DEF m
      <4> QED BY <3>2, <3>5, <4>1 DEF Earliest
    <3> QED BY <3>4, <3>6
  <2> QED BY <2>1, <2>2
<1>2. \A V \in SUBSET Seats : V \in Good
  <2> HIDE DEF Good
  <2> QED BY <1>1, SeatsAreFinite, SubsetInduction
<1> QED BY <1>2

LEMMA WinnersExist ==
  ASSUME NEW E \in SUBSET Seats, E # {}, NEW rank \in [Seats -> Nat]
  PROVE  /\ Winners(E, rank) # {} /\ Winners(E, rank) \in SUBSET E
         /\ IsFiniteSet(Winners(E, rank)) /\ Cardinality(Winners(E, rank)) \in Nat
         /\ Cardinality(Winners(E, rank)) >= 1
<1> DEFINE values == {rank[s] : s \in E}
<1>1. IsFiniteSet(E) BY SeatsAreFinite, FS_Subset
<1>2. IsFiniteSet(values) BY <1>1, ImageIsFinite
<1>3. values \in SUBSET Int /\ values # {} OBVIOUS
<1>4. Max(values) \in values /\ \A x \in values : x <= Max(values)
  <2> HIDE DEF values
  <2> QED BY <1>2, <1>3, MaxExists
<1>5. PICK s \in E : rank[s] = Max(values) BY <1>4
<1>6. s \in Winners(E, rank) BY <1>4, <1>5 DEF Winners
<1>7. Winners(E, rank) \in SUBSET E BY DEF Winners
<1>8. IsFiniteSet(Winners(E, rank)) /\ Cardinality(Winners(E, rank)) \in Nat
  BY <1>1, <1>7, FS_Subset, FS_CardinalityType
<1>9. Cardinality(Winners(E, rank)) # 0 BY <1>6, <1>8, FS_EmptySet
<1> QED BY <1>6, <1>7, <1>8, <1>9

SharesOf(pot, rank) == [s \in Seats |-> Share(pot, rank, s)]
LEMMA PotIsPaid ==
  ASSUME NEW pot, PotOK(pot), NEW rank \in [Seats -> Nat]
  PROVE  SumFunctionOnSet(SharesOf(pot, rank), Seats) =
           IF pot.eligible = {} THEN 0 ELSE pot.amount
<1> DEFINE W == Winners(pot.eligible, rank)
           k == Cardinality(W)
           a == pot.amount
           f == SharesOf(pot, rank)
           odd == [s \in Seats |-> IF s \in Earliest(W, a % k) THEN 1 ELSE 0]
           even == [s \in Seats |-> a \div k]
<1>1. IsFiniteSet(Seats) /\ a \in Nat /\ pot.eligible \in SUBSET Seats BY SeatsAreFinite DEF PotOK
<1>2. \A s \in Seats : f[s] \in Int /\ f[s] = Share(pot, rank, s)
  BY SharesAre DEF SharesOf
<1>3. CASE pot.eligible = {}
  <2>1. \A s \in Seats : f[s] = 0 BY <1>2, <1>3 DEF Share, Winners
  <2> HIDE DEF f
  <2>2. SumFunctionOnSet(f, Seats) = 0 * Cardinality(Seats) BY <1>1, <2>1, SumConstant
  <2> QED BY <1>3, <2>2, SeatsAreFinite DEF f
<1>4. CASE pot.eligible # {}
  <2>1. /\ W \in SUBSET Seats /\ IsFiniteSet(W) /\ k \in Nat /\ k >= 1
    BY <1>1, <1>4, WinnersExist
  <2> DEFINE r == a % k
             first == Earliest(W, r)
  <2>2. a \div k \in Nat /\ r \in 0..k - 1 /\ a = k * (a \div k) + r
    BY <1>1, <2>1, DivisionIs
  <2>3. Cardinality(first) = r /\ first \in SUBSET W
    <3>1. r \in Nat /\ r <= k BY <2>1, <2>2
    <3> HIDE DEF r
    <3> QED BY <2>1, <3>1, EarliestAre DEF Earliest
  <2>4. ASSUME NEW s \in W PROVE f[s] = even[s] + odd[s] /\ even[s] \in Int /\ odd[s] \in Int
    <3>1. s \in Seats BY <2>1
    <3>2. f[s] = a \div k + (IF Cardinality(AheadOf(W, s)) < r THEN 1 ELSE 0)
      BY <1>2, <3>1 DEF Share, OddChips
    <3>3. s \in first <=> Cardinality(AheadOf(W, s)) < r BY DEF Earliest
    <3>4. even[s] = a \div k /\ odd[s] = IF s \in first THEN 1 ELSE 0 BY <3>1
    <3> DEFINE q == a \div k
    <3>5. q \in Nat /\ even[s] = q /\ f[s] = q + (IF s \in first THEN 1 ELSE 0)
      BY <2>2, <3>2, <3>3, <3>4
    <3> HIDE DEF f, first, even, odd, q
    <3> QED BY <3>4, <3>5
  <2>5. \A s \in Seats \ W : f[s] = 0 BY <1>2 DEF Share
  <2>6. \A s \in first : odd[s] = 1
    BY <2>1, <2>3
  <2>7. \A s \in W \ first : odd[s] = 0
    BY <2>1
  <2>8. \A s \in W : even[s] = a \div k BY <2>1
  <2>9. \A s \in W : f[s] = even[s] + odd[s] /\ even[s] \in Int /\ odd[s] \in Int BY <2>4
  <2> HIDE DEF f, odd, even, first, W, r, k, a
  <2>10. SumFunctionOnSet(f, Seats) = SumFunctionOnSet(f, W) + SumFunctionOnSet(f, Seats \ W)
    BY <1>1, <1>2, <2>1, SumSplit
  <2>11. SumFunctionOnSet(f, Seats \ W) = 0
    <3>1. IsFiniteSet(Seats \ W) /\ Cardinality(Seats \ W) \in Nat
      BY <1>1, FS_Difference, FS_CardinalityType
    <3>2. SumFunctionOnSet(f, Seats \ W) = 0 * Cardinality(Seats \ W) BY <2>5, <3>1, SumConstant
    <3> QED BY <3>1, <3>2
  <2>12. SumFunctionOnSet(f, W) = SumFunctionOnSet(even, W) + SumFunctionOnSet(odd, W)
    BY <2>1, <2>9, SumAdd
  <2>13. SumFunctionOnSet(even, W) = (a \div k) * k
    <3>1. a \div k \in Int BY <2>2
    <3>2. SumFunctionOnSet(even, W) = (a \div k) * Cardinality(W)
      BY <2>1, <2>8, <3>1, SumConstant
    <3> QED BY <3>2 DEF k
  <2>14. SumFunctionOnSet(odd, W) = SumFunctionOnSet(odd, first) + SumFunctionOnSet(odd, W \ first)
    BY <2>1, <2>3, <2>9, SumSplit
  <2>15. SumFunctionOnSet(odd, first) = r
    <3>1. IsFiniteSet(first) /\ Cardinality(first) \in Nat BY <2>1, <2>3, FS_Subset, FS_CardinalityType
    <3>2. SumFunctionOnSet(odd, first) = 1 * Cardinality(first) BY <2>6, <3>1, SumConstant
    <3> QED BY <2>3, <3>1, <3>2
  <2>16. SumFunctionOnSet(odd, W \ first) = 0
    <3>1. IsFiniteSet(W \ first) /\ Cardinality(W \ first) \in Nat
      BY <2>1, FS_Difference, FS_CardinalityType
    <3>2. SumFunctionOnSet(odd, W \ first) = 0 * Cardinality(W \ first) BY <2>7, <3>1, SumConstant
    <3> QED BY <3>1, <3>2
  <2>17. SumFunctionOnSet(f, Seats) = a
    <3>1. (a \div k) * k = k * (a \div k) /\ k * (a \div k) \in Nat BY <2>1, <2>2
    <3> QED BY <2>2, <2>10, <2>11, <2>12, <2>13, <2>14, <2>15, <2>16, <3>1
  <2> QED BY <1>4, <2>17 DEF f, a
<1> QED BY <1>3, <1>4

-----------------------------------------------------------------------------
(* Where the chips go *)

LEMMA TotalIs == \A v : Total(v) = SumFunctionOnSet([s \in Seats |-> v[s]], Seats)
  BY DEF Total, MapThenSumSet, SumFunctionOnSet, FoldFunctionOnSet, MapThenFoldSet

LEMMA TotalAdds ==
  ASSUME NEW v \in [Seats -> Int]
  PROVE  Total(v) = SumFunctionOnSet(v, Seats)
<1>1. v = [s \in Seats |-> v[s]] OBVIOUS
<1> QED BY <1>1, TotalIs

LEMMA TotalPotIs == \A pots : TotalPot(pots) = SumFunctionOnSet([pot \in pots |-> pot.amount], pots)
  BY DEF TotalPot, MapThenSumSet, SumFunctionOnSet, FoldFunctionOnSet, MapThenFoldSet

(* The pots hold all that was called.                                      *)
LEMMA PotsHoldAll ==
  ASSUME NEW c \in [Seats -> Nat], NEW fold,
         NEW f, \A pot \in Pots(c, fold) : f[pot] = pot.amount
  PROVE  SumFunctionOnSet(f, Pots(c, fold)) = SumFunctionOnSet(Called(c), Seats)
<1> DEFINE e == Called(c)
           ls == LayerLevels(e)
           key == KeyOf(c, fold)
           P == Pots(c, fold)
           top == Max({0} \cup ls)
<1>1. e \in [Seats -> Nat] BY CalledIs
<1>2. ls \subseteq Nat \ {0} /\ IsFiniteSet(ls) /\ \A s \in Seats : e[s] \in ls \cup {0}
  BY <1>1, LevelsAre
<1>3. top \in {0} \cup ls /\ \A l \in {0} \cup ls : l <= top
  <2>1. IsFiniteSet({0} \cup ls) BY <1>2, FS_AddElement
  <2>2. {0} \cup ls \in SUBSET Int /\ {0} \cup ls # {} BY <1>2
  <2> HIDE DEF ls
  <2> QED BY <2>1, <2>2, MaxExists
<1>4. Keyed(ls, key, P) = {l \in ls : l <= top}
  <2>1. \A l \in ls : key[l] \in P BY PotsAre
  <2> HIDE DEF top, ls, key, P
  <2> QED BY <1>3, <2>1 DEF Keyed
<1>5. SumFunctionOnSet(f, P) = SumFunctionOnSet(Layers(e), Keyed(ls, key, P)) BY PotsAdd
<1>6. SumFunctionOnSet(Layers(e), {l \in ls : l <= top}) = SumFunctionOnSet(Matching(e, top), Seats)
  BY <1>1, <1>3, LayersReach
<1>7. Matching(e, top) = e
  <2>1. \A s \in Seats : Lesser(e[s], top) = e[s]
    <3> TAKE s \in Seats
    <3>1. e[s] <= top /\ e[s] \in Nat BY <1>1, <1>2, <1>3
    <3> QED BY <3>1 DEF Lesser
  <2> HIDE DEF top, e
  <2> QED BY <1>1, <2>1 DEF Matching
<1> QED BY <1>4, <1>5, <1>6, <1>7

(* An award pays every chip out, except those of pots nobody is live in.   *)
LEMMA AwardAddsUp ==
  ASSUME NEW c \in [Seats -> Nat], NEW fold, NEW rank \in [Seats -> Nat]
  PROVE  /\ Payouts(c, fold, rank) \in [Seats -> Nat]
         /\ Orphaned(c, fold) \in Nat
         /\ Total(Payouts(c, fold, rank)) + Orphaned(c, fold) = Total(c)
<1> DEFINE pots == Pots(c, fold)
           orphans == {pot \in pots : pot.eligible = {}}
           paid == Payouts(c, fold, rank)
           refunds == Refunds(c)
           e == Called(c)
           share == [s \in Seats |-> SharesIn(pots, rank, s)]
           shares == [pot \in pots |-> SharesOf(pot, rank)]
           mine == [s \in Seats |-> SumFunctionOnSet(share[s], pots)]
           given == [pot \in pots |-> IF pot.eligible = {} THEN 0 ELSE pot.amount]
           lost == [pot \in pots |-> IF pot.eligible = {} THEN pot.amount ELSE 0]
           amounts == [pot \in pots |-> pot.amount]
<1>1. IsFiniteSet(pots) /\ IsFiniteSet(Seats) /\ \A pot \in pots : PotOK(pot)
  BY PotsAre, SeatsAreFinite DEF PotOK
<1>2. e \in [Seats -> Nat] /\ refunds \in [Seats -> Nat] /\ \A s \in Seats : refunds[s] = c[s] - e[s]
  BY CalledIs
<1>3. \A s \in Seats, pot \in pots :
        share[s][pot] \in Nat /\ share[s][pot] \in Int /\ shares[pot][s] = share[s][pot]
  BY <1>1, SharesAre DEF SharesIn, SharesOf
<1>4. \A s \in Seats : mine[s] \in Nat /\ mine[s] = SumFunctionOnSet(share[s], pots)
  <2> TAKE s \in Seats
  <2> DEFINE f == share[s]
  <2>1. \A pot \in pots : f[pot] \in Nat BY <1>3
  <2>2. SumFunctionOnSet(f, pots) \in Nat
    <3> HIDE DEF f, pots
    <3> QED BY <1>1, <2>1, SumNat
  <2> QED BY <2>2
<1>5. \A pot \in pots : given[pot] = SumFunctionOnSet(shares[pot], Seats) BY <1>1, PotIsPaid
<1>6. \A s \in Seats : paid[s] = refunds[s] + mine[s] BY PayoutsAre
<1>7. DOMAIN paid = Seats /\ paid = [s \in Seats |-> paid[s]] BY DEF Payouts
<1>8. \A pot \in pots : /\ given[pot] \in Int /\ lost[pot] \in Int /\ lost[pot] \in Nat
                        /\ amounts[pot] = given[pot] + lost[pot] /\ amounts[pot] = pot.amount
  BY <1>1 DEF PotOK
<1>9. \A pot \in orphans : lost[pot] = pot.amount /\ lost[pot] \in Int BY <1>8
<1>10. \A pot \in pots \ orphans : lost[pot] = 0 OBVIOUS
<1>11. orphans \in SUBSET pots /\ Orphaned(c, fold) = TotalPot(orphans) BY DEF Orphaned
<1> HIDE DEF pots, orphans, paid, refunds, e, share, shares, mine, given, lost, amounts
<1>12. SumFunctionOnSet(mine, Seats) = SumFunctionOnSet(given, pots)
  <2>1. IsFiniteSet(Seats) /\ IsFiniteSet(pots) BY <1>1
  <2>2. \A s \in Seats, pot \in pots : share[s][pot] \in Int /\ shares[pot][s] = share[s][pot] BY <1>3
  <2>3. \A s \in Seats : mine[s] = SumFunctionOnSet(share[s], pots) BY <1>4
  <2>4. \A pot \in pots : given[pot] = SumFunctionOnSet(shares[pot], Seats) BY <1>5
  <2>5. Transposed(share, shares, Seats, pots) BY <2>2 DEF Transposed
  <2>6. SumsOf(mine, share, Seats, pots) /\ SumsOf(given, shares, pots, Seats) BY <2>3, <2>4 DEF SumsOf
  <2> QED BY <2>1, <2>5, <2>6, SumSwap
<1>13. SumFunctionOnSet(amounts, pots) = SumFunctionOnSet(given, pots) + SumFunctionOnSet(lost, pots)
  BY <1>1, <1>8, SumAdd
<1>14. SumFunctionOnSet(amounts, pots) = SumFunctionOnSet(e, Seats)
  BY <1>8, PotsHoldAll DEF pots, e
<1>15. SumFunctionOnSet(lost, pots) = Orphaned(c, fold) /\ Orphaned(c, fold) \in Nat
  <2>1. SumFunctionOnSet(lost, pots) = SumFunctionOnSet(lost, orphans) + SumFunctionOnSet(lost, pots \ orphans)
    BY <1>1, <1>8, <1>11, SumSplit
  <2>2. SumFunctionOnSet(lost, pots \ orphans) = 0
    <3>1. IsFiniteSet(pots \ orphans) /\ Cardinality(pots \ orphans) \in Nat
      BY <1>1, FS_Difference, FS_CardinalityType
    <3>2. SumFunctionOnSet(lost, pots \ orphans) = 0 * Cardinality(pots \ orphans)
      BY <1>10, <3>1, SumConstant
    <3> QED BY <3>1, <3>2
  <2> DEFINE f == [pot \in orphans |-> pot.amount]
  <2>3. TotalPot(orphans) = SumFunctionOnSet(f, orphans) BY TotalPotIs
  <2>4. \A pot \in orphans : lost[pot] \in Int /\ lost[pot] = f[pot] BY <1>9
  <2>5. IsFiniteSet(orphans) BY <1>1, <1>11, FS_Subset
  <2> HIDE DEF f
  <2>6. SumFunctionOnSet(lost, orphans) = SumFunctionOnSet(f, orphans) BY <2>4, <2>5, SumSame
  <2>7. SumFunctionOnSet(lost, pots) \in Nat BY <1>1, <1>8, SumNat
  <2>8. SumFunctionOnSet(lost, orphans) \in Int BY <2>4, <2>5, SumType
  <2> QED BY <1>11, <2>1, <2>2, <2>3, <2>6, <2>7, <2>8
<1>16. paid \in [Seats -> Nat] BY <1>2, <1>4, <1>6, <1>7
<1>17. SumFunctionOnSet(paid, Seats) = SumFunctionOnSet(refunds, Seats) + SumFunctionOnSet(mine, Seats)
  <2>1. \A s \in Seats : refunds[s] \in Int /\ mine[s] \in Int /\ paid[s] = refunds[s] + mine[s]
    BY <1>2, <1>4, <1>6
  <2> QED BY <1>1, <2>1, SumAdd
<1>18. SumFunctionOnSet(c, Seats) = SumFunctionOnSet(refunds, Seats) + SumFunctionOnSet(e, Seats)
  <2>1. \A s \in Seats : refunds[s] \in Int /\ e[s] \in Int /\ c[s] = refunds[s] + e[s]
    <3> TAKE s \in Seats
    <3>1. c[s] \in Nat /\ e[s] \in Nat /\ refunds[s] \in Nat /\ refunds[s] = c[s] - e[s] BY <1>2
    <3> QED BY <3>1
  <2> QED BY <1>1, <2>1, SumAdd
<1>19. Total(paid) = SumFunctionOnSet(paid, Seats) /\ Total(c) = SumFunctionOnSet(c, Seats)
  <2>1. paid \in [Seats -> Int] /\ c \in [Seats -> Int] BY <1>16
  <2> QED BY <2>1, TotalAdds
<1>20. SumFunctionOnSet(refunds, Seats) \in Nat /\ SumFunctionOnSet(given, pots) \in Int
  <2>1. SumFunctionOnSet(refunds, Seats) \in Nat BY <1>1, <1>2, SumNat
  <2>2. SumFunctionOnSet(given, pots) \in Int BY <1>1, <1>8, SumType
  <2> QED BY <2>1, <2>2
<1>21. Total(paid) + Orphaned(c, fold) = Total(c)
  BY <1>12, <1>13, <1>14, <1>15, <1>17, <1>18, <1>19, <1>20
<1> QED BY <1>15, <1>16, <1>21 DEF paid

HIDE NAssumption

(* What p can win at most: what everybody put in, up to what p did.        *)
Winnable(c, p) == SumFunctionOnSet(Matching(c, c[p]), Seats)

LEMMA WinnableIs ==
  ASSUME NEW c \in [Seats -> Nat], NEW p \in Seats
  PROVE  Winnable(c, p) \in Nat /\ Winnable(c, p) >= c[p]
<1> DEFINE f == Matching(c, c[p])
<1>1. c[p] \in Nat OBVIOUS
<1>2. f \in [Seats -> Nat] /\ SumFunctionOnSet(f, Seats) \in Nat BY <1>1, MatchingType
<1>3. f[p] = c[p] BY <1>1, LesserIs DEF Matching
<1>4. Winnable(c, p) = SumFunctionOnSet(f, Seats) BY DEF Winnable
<1> DEFINE g == [s \in Seats |-> IF s = p THEN c[p] ELSE 0]
<1>5. \A s \in Seats : g[s] \in Int /\ f[s] \in Int /\ g[s] <= f[s]
  <2> TAKE s \in Seats
  <2>1. f[s] \in Nat BY <1>2
  <2> HIDE DEF f
  <2> QED BY <1>1, <1>3, <2>1
<1>6. SumFunctionOnSet(g, Seats) = c[p]
  <2>1. IsFiniteSet(Seats) /\ IsFiniteSet(Seats \ {p}) /\ Cardinality(Seats \ {p}) \in Nat
    BY SeatsAreFinite, FS_RemoveElement, FS_CardinalityType
  <2>2. \A s \in Seats \ {p} : g[s] = 0 OBVIOUS
  <2>3. g[p] = c[p] /\ \A s \in Seats : g[s] \in Int BY <1>5
  <2> HIDE DEF g
  <2>4. SumFunctionOnSet(g, Seats) = g[p] + SumFunctionOnSet(g, Seats \ {p}) BY <2>1, <2>3, SumOut
  <2>5. SumFunctionOnSet(g, Seats \ {p}) = 0 * Cardinality(Seats \ {p}) BY <2>1, <2>2, SumConstant
  <2> QED BY <1>1, <2>1, <2>3, <2>4, <2>5
<1>7. SumFunctionOnSet(g, Seats) <= SumFunctionOnSet(f, Seats)
  <2> HIDE DEF f, g
  <2> QED BY <1>5, SeatsAreFinite, SumMonotonic
<1> QED BY <1>2, <1>4, <1>6, <1>7

(* Its shares come from the pots it is in.                                 *)
LEMMA SharesComeFrom ==
  ASSUME NEW c \in [Seats -> Nat], NEW fold, NEW rank \in [Seats -> Nat], NEW p \in Seats
  PROVE  /\ \A pot \in Pots(c, fold) : PotOK(pot)
         /\ SumFunctionOnSet(SharesIn(Pots(c, fold), rank, p), Pots(c, fold)) =
              SumFunctionOnSet(SharesIn(Pots(c, fold), rank, p), PotsOf(c, fold, p))
         /\ IsFiniteSet(PotsOf(c, fold, p)) /\ PotsOf(c, fold, p) \in SUBSET Pots(c, fold)
         /\ \A pot \in Pots(c, fold) :
               /\ SharesIn(Pots(c, fold), rank, p)[pot] \in Nat
               /\ SharesIn(Pots(c, fold), rank, p)[pot] = Share(pot, rank, p)
<1> DEFINE P == Pots(c, fold)
           M == PotsOf(c, fold, p)
           f == SharesIn(P, rank, p)
<1>1. IsFiniteSet(P) /\ \A pot \in P : PotOK(pot) BY PotsAre DEF PotOK
<1>2. M \in SUBSET P /\ IsFiniteSet(M) /\ IsFiniteSet(P \ M)
  <2>1. M \in SUBSET P BY DEF PotsOf
  <2> QED BY <1>1, <2>1, FS_Subset, FS_Difference
<1>3. \A pot \in P : f[pot] \in Nat /\ f[pot] = Share(pot, rank, p)
  BY <1>1, SharesAre DEF SharesIn
<1>4. \A pot \in P \ M : f[pot] = 0 BY <1>1, <1>3, SharesAre DEF PotsOf
<1> HIDE DEF P, M, f
<1>5. SumFunctionOnSet(f, P) = SumFunctionOnSet(f, M) + SumFunctionOnSet(f, P \ M)
  <2>1. \A pot \in P : f[pot] \in Int BY <1>3
  <2> QED BY <1>1, <1>2, <2>1, SumSplit
<1>6. SumFunctionOnSet(f, P \ M) = 0 * Cardinality(P \ M) BY <1>2, <1>4, SumConstant
<1>7. Cardinality(P \ M) \in Nat BY <1>2, FS_CardinalityType
<1>8. SumFunctionOnSet(f, M) \in Int
  <2>1. \A pot \in M : f[pot] \in Int BY <1>2, <1>3
  <2> QED BY <1>2, <2>1, SumType
<1>9. SumFunctionOnSet(f, P) = SumFunctionOnSet(f, M) BY <1>5, <1>6, <1>7, <1>8
<1> QED BY <1>1, <1>2, <1>3, <1>9 DEF P, M, f

(* A fold player gets its refund, a live one at most what it can win,    *)
(* and the best of the live ones all of that.                              *)
Best(fold, rank, p) == \A q \in Seats \ (fold \cup {p}) : rank[q] < rank[p]
LEMMA PayoutsWithin ==
  ASSUME NEW c \in [Seats -> Nat], NEW fold, NEW rank \in [Seats -> Nat], NEW p \in Seats
  PROVE  /\ Payouts(c, fold, rank)[p] \in Nat
         /\ Payouts(c, fold, rank)[p] <= Winnable(c, p)
         /\ Payouts(c, fold, rank)[p] >= Refunds(c)[p]
         /\ p \in fold => Payouts(c, fold, rank)[p] = Refunds(c)[p]
         /\ p \notin fold /\ Best(fold, rank, p) =>
              Payouts(c, fold, rank)[p] = Winnable(c, p)
<1> DEFINE P == Pots(c, fold)
           M == PotsOf(c, fold, p)
           f == SharesIn(P, rank, p)
           a == [pot \in M |-> pot.amount]
           paid == Payouts(c, fold, rank)[p]
           r == Refunds(c)[p]
<1>1. /\ IsFiniteSet(M) /\ M \in SUBSET P
      /\ SumFunctionOnSet(f, P) = SumFunctionOnSet(f, M)
      /\ \A pot \in M : f[pot] \in Nat /\ f[pot] = Share(pot, rank, p) /\ PotOK(pot)
  BY SharesComeFrom
<1>2. paid = r + SumFunctionOnSet(f, M) BY <1>1, PayoutsAre
<1>3. r \in Nat /\ r <= c[p]
  <2>1. c[p] \in Nat /\ Called(c)[p] \in Nat /\ Refunds(c) \in [Seats -> Nat] /\ Refunds(c)[p] = c[p] - Called(c)[p]
    BY CalledIs
  <2> QED BY <2>1
<1>4. SumFunctionOnSet(f, M) \in Nat
  <2> HIDE DEF f, M
  <2> QED BY <1>1, SumNat
<1>5. Winnable(c, p) \in Nat /\ Winnable(c, p) >= c[p] BY WinnableIs
<1>6. c[p] \in Nat OBVIOUS
<1>7. CASE p \in fold
  <2>1. M = {} BY <1>7, PotsAre DEF PotsOf
  <2>2. SumFunctionOnSet(f, M) = 0 BY <2>1, SumEmpty
  <2> HIDE DEF f, M, r
  <2>3. paid \in Nat /\ paid <= Winnable(c, p) /\ paid = r BY <1>2, <1>3, <1>5, <1>6, <2>2
  <2> QED BY <1>3, <1>7, <2>3 DEF r
<1>8. CASE p \notin fold
  <2>1. SumFunctionOnSet(a, M) + r = Winnable(c, p)
    <3>1. \A pot \in M : a[pot] = pot.amount OBVIOUS
    <3> HIDE DEF a, r
    <3> QED BY <1>8, <3>1, PotsReach DEF Winnable, r
  <2>2. \A pot \in M : a[pot] \in Nat /\ f[pot] <= a[pot] BY <1>1, SharesAre DEF PotOK
  <2>3. SumFunctionOnSet(a, M) \in Nat
    <3> HIDE DEF a, M
    <3> QED BY <1>1, <2>2, SumNat
  <2>4. SumFunctionOnSet(f, M) <= SumFunctionOnSet(a, M)
    <3>1. \A pot \in M : f[pot] \in Int /\ a[pot] \in Int /\ f[pot] <= a[pot] BY <1>1, <2>2
    <3> HIDE DEF f, a, M
    <3> QED BY <1>1, <3>1, SumMonotonic
  <2>5. ASSUME Best(fold, rank, p) PROVE SumFunctionOnSet(f, M) = SumFunctionOnSet(a, M)
    <3>1. \A pot \in M : f[pot] \in Int /\ f[pot] = a[pot]
      <4> TAKE pot \in M
      <4>1. p \in pot.eligible /\ pot.eligible \subseteq Seats \ fold BY <1>1, PotsAre DEF PotsOf
      <4>2. Ahead(pot.eligible, rank, p) BY <4>1, <2>5 DEF Ahead, Best
      <4> QED BY <1>1, <4>2, SharesAre
    <3> HIDE DEF f, a, M
    <3> QED BY <1>1, <3>1, SumSame
  <2> HIDE DEF f, M, r, a
  <2>6. paid \in Nat /\ paid <= Winnable(c, p) /\ paid >= r
        /\ (Best(fold, rank, p) => paid = Winnable(c, p))
    BY <1>2, <1>3, <1>4, <2>1, <2>3, <2>4, <2>5
  <2> QED BY <1>8, <2>6 DEF r
<1> QED BY <1>7, <1>8

(* Only the largest contribution is refunded, down to any other one.       *)
LEMMA RefundsAre ==
  ASSUME NEW c \in [Seats -> Nat], NEW p \in Seats, Refunds(c)[p] # 0
  PROVE  \A q \in Seats \ {p} : Refunds(c)[p] + c[q] <= c[p]
<1>1. /\ c[p] \in Nat /\ SecondLargest(c) \in Nat /\ Refunds(c)[p] = c[p] - Called(c)[p]
      /\ Called(c)[p] = Lesser(c[p], SecondLargest(c))
  BY CalledIs, SecondIs
<1>2. c[p] > SecondLargest(c) /\ Refunds(c)[p] = c[p] - SecondLargest(c) BY <1>1 DEF Lesser
<1>3. ASSUME NEW q \in Seats \ {p} PROVE Refunds(c)[p] + c[q] <= c[p]
  <2>1. c[q] <= SecondLargest(c) /\ c[q] \in Nat BY <1>1, <1>2, SecondIs
  <2> QED BY <1>1, <1>2, <2>1
<1> QED BY <1>3

LEMMA MatchedIs == \A p \in Seats : Matched(p) = Winnable(contrib, p)
<1> TAKE p \in Seats
<1> DEFINE f == [q \in Seats |-> Lesser(contrib[q], contrib[p])]
<1>1. Matched(p) = SumFunctionOnSet(f, Seats)
  BY DEF Matched, MapThenSumSet, SumFunctionOnSet, FoldFunctionOnSet, MapThenFoldSet
<1> QED BY <1>1 DEF Winnable, Matching

(* What a hand pays out is an award of what was put in.                    *)
LEMMA CompleteAward ==
  ASSUME TypeOK, Complete
  PROVE  /\ payouts = Payouts(contrib, folded, strength)
         /\ contrib \in [Seats -> Nat] /\ strength \in [Seats -> Nat] /\ folded \subseteq Seats
<1>1. strength \in [Seats -> Nat]
  <2>1. 0..N \subseteq Nat OBVIOUS
  <2> QED BY <2>1 DEF TypeOK
<1> QED BY <1>1 DEF TypeOK, payouts

LEMMA StakesHeld ==
  ASSUME TypeOK
  PROVE  TableStakes /\ BestHandTakesAll
<1>1. SUFFICES ASSUME Complete PROVE TableStakes /\ BestHandTakesAll
  BY DEF TableStakes, BestHandTakesAll
<1>2. /\ payouts = Payouts(contrib, folded, strength)
      /\ contrib \in [Seats -> Nat] /\ strength \in [Seats -> Nat] /\ folded \subseteq Seats
  BY <1>1, CompleteAward
<1>3. TableStakes
  <2>1. \A p \in Seats : payouts[p] <= Matched(p) BY <1>2, PayoutsWithin, MatchedIs
  <2>2. \A p \in Seats : p \in folded => \A q \in Seats \ {p} :
          payouts[p] = 0 \/ payouts[p] + contrib[q] <= contrib[p]
    BY <1>2, PayoutsWithin, RefundsAre
  <2> QED BY <2>1, <2>2 DEF TableStakes
<1>4. BestHandTakesAll
  BY <1>2, PayoutsWithin, MatchedIs DEF BestHandTakesAll, Best
<1> QED BY <1>3, <1>4

-----------------------------------------------------------------------------
(* The order of the turns *)

(* Going round from p + 1, the first of a set is the first of them all but *)
(* p, and p itself comes last.                                             *)
LEMMA TurnGoesOn ==
  ASSUME NEW p \in Seats, NEW A \in SUBSET Seats, NEW n \in FirstFrom(p + 1, A),
         NEW u \in A, NEW s \in A, u # p, s = p \/ StepsTo(p, u) < StepsTo(p, s)
  PROVE  StepsTo(n, u) < StepsTo(n, s)
<1>1. p \in Nat /\ p >= 1 /\ p <= N /\ u \in Nat /\ u >= 1 /\ u <= N /\ s \in Nat /\ s >= 1 /\ s <= N
      /\ n \in Nat /\ n >= 1 /\ n <= N /\ N \in Nat
  BY NAssumption DEF Seats, FirstFrom
<1>2. StepsTo(p + 1, n) <= StepsTo(p + 1, u) /\ StepsTo(p + 1, n) <= StepsTo(p + 1, s)
  BY DEF FirstFrom
<1> QED BY <1>1, <1>2 DEF StepsTo

(* Of a set that lies beyond p going round from f, it is the nearest to f. *)
LEMMA TurnIsNext ==
  ASSUME NEW f \in Seats, NEW p \in Seats, NEW A \in SUBSET Seats, NEW n \in FirstFrom(p + 1, A),
         \A x \in A : StepsTo(f, p) < StepsTo(f, x), NEW s \in A
  PROVE  StepsTo(f, n) <= StepsTo(f, s)
<1>1. p \in Nat /\ p >= 1 /\ p <= N /\ f \in Nat /\ f >= 1 /\ f <= N /\ s \in Nat /\ s >= 1 /\ s <= N
      /\ n \in Nat /\ n >= 1 /\ n <= N /\ N \in Nat
  BY NAssumption DEF Seats, FirstFrom
<1>2. StepsTo(p + 1, n) <= StepsTo(p + 1, s) /\ StepsTo(f, p) < StepsTo(f, n) /\ StepsTo(f, p) < StepsTo(f, s)
  BY DEF FirstFrom
<1> QED BY <1>1, <1>2 DEF StepsTo

LEMMA StepsAre ==
  ASSUME NEW f \in Seats, NEW s \in Seats, NEW t \in Seats
  PROVE  /\ StepsTo(f, s) \in Nat /\ StepsTo(f, f) = 0
         /\ StepsTo(f, s) = StepsTo(f, t) => s = t
<1>1. f \in Nat /\ f >= 1 /\ f <= N /\ s \in Nat /\ s >= 1 /\ s <= N /\ t \in Nat /\ t >= 1 /\ t <= N /\ N \in Nat
  BY NAssumption DEF Seats
<1> QED BY <1>1 DEF StepsTo

-----------------------------------------------------------------------------
(* Who covers the pots: a live player of the round has matched the bet, or *)
(* the blinds are not raised yet and those who passed folded or are all-in.*)
HeldWith(com, fold, ac, bet) == \E h \in inRound \ fold : com[h] = bet /\ (h \in ac \/ bet = 0)
Held == HeldWith(committed, folded, acted, currentBet)
Passed(s) == StepsTo(PreflopFirst, s) < StepsTo(PreflopFirst, toAct)
Unraised ==
  /\ street = "preflop" /\ currentBet = BigBlind /\ inRound = Seats /\ contrib = Nobody
  /\ \A s \in Seats : IF Passed(s) THEN s \in folded \cup allIn ELSE s \notin folded /\ s \notin acted
  /\ \A s \in Seats : s \notin allIn \/ s \in folded => committed[s] = Blind(s)
(* When the hand is over some live player covers all the pots, or else one *)
(* is all-in for less than the small blind.                                *)
Covers(h) == contrib[h] >= SecondLargest(contrib) \/ (h \in allIn /\ initial[h] < SmallBlind)
Kept == \E h \in Seats \ folded : Covers(h)

TurnInv ==
  /\ HandInv /\ TurnsInOrder
  /\ Seats \ folded # {}
  /\ Complete => committed = Nobody
  /\ N >= 3 /\ Live => Held \/ Unraised
  /\ Complete => Kept

(* What a move by p comes to.                                              *)
Move(p, com, fold, ai, ac, bet) ==
  /\ \A x \in Seats \ {p} : com[x] = committed[x]
  /\ allIn \subseteq ai /\ ai \subseteq allIn \cup {p}
  /\ \/ fold = folded
     \/ fold = folded \cup {p} /\ com[p] = committed[p] /\ ai = allIn /\ bet = currentBet
  /\ p \in ac /\ ac \subseteq acted \cup {p}
  /\ bet >= currentBet /\ (bet = currentBet => ac = acted \cup {p})
  /\ p \in fold \/ com[p] = bet \/ (p \in ai /\ bet = currentBet)

Plays(p, st, com, fold, ai, ac, bet, min) ==
  /\ Moved(st, com, fold, ai, ac, bet, min) /\ Fair(st, com, fold, ai, bet)
  /\ Move(p, com, fold, ai, ac, bet) /\ Resolve(st, com, fold, ai, ac, bet, min)

LEMMA IdlePlays ==
  ASSUME HandInv, NEW p, Turn(p), NEW fold, fold = folded \/ fold = folded \cup {p},
         p \in fold \/ committed[p] = currentBet,
         Resolve(stack, committed, fold, allIn, acted \cup {p}, currentBet, minRaise)
  PROVE  \E st, com, f, ai, ac, bet, min : Plays(p, st, com, f, ai, ac, bet, min)
<1>1. /\ p \in Seats /\ allIn = {s \in Seats : stack[s] = 0} /\ currentBet \in Nat
      /\ Moved(stack, committed, folded, allIn, acted, currentBet, minRaise)
      /\ \A s \in Seats : committed[s] <= currentBet
  BY TurnFacts
<1>2. Moved(stack, committed, fold, allIn, acted \cup {p}, currentBet, minRaise) BY <1>1 DEF Moved
<1>3. Fair(stack, committed, fold, allIn, currentBet) BY <1>1 DEF Fair, Moved
<1>4. Move(p, committed, fold, allIn, acted \cup {p}, currentBet) BY <1>1 DEF Move
<1>5. Plays(p, stack, committed, fold, allIn, acted \cup {p}, currentBet, minRaise)
  BY <1>2, <1>3, <1>4 DEF Plays
<1> QED BY <1>5

LEMMA PayPlays ==
  ASSUME HandInv, NEW p, Turn(p), NEW pay \in Nat, NEW ac \in SUBSET Seats,
         NEW bet \in Nat, NEW min \in Nat,
         pay <= stack[p], currentBet <= bet, committed[p] + pay <= bet,
         Pay(p, pay, ac, bet, min), p \in ac, ac \subseteq acted \cup {p},
         bet = currentBet => ac = acted \cup {p},
         committed[p] + pay = bet \/ (pay = stack[p] /\ bet = currentBet)
  PROVE  \E st, com, f, ai, a, b, m : Plays(p, st, com, f, ai, a, b, m)
<1> DEFINE st == [stack EXCEPT ![p] = @ - pay]
           com == [committed EXCEPT ![p] = @ + pay]
           ai == FlagAllIn(p, pay)
<1>1. Moved(st, com, folded, ai, ac, bet, min) /\ Fair(st, com, folded, ai, bet) BY PayFair
<1>2. Resolve(st, com, folded, ai, ac, bet, min) BY DEF Pay
<1>3. p \in Seats /\ committed \in [Seats -> Nat] BY DEF Turn, HandInv, TypeOK
<1>4. com[p] = committed[p] + pay /\ \A x \in Seats \ {p} : com[x] = committed[x] BY <1>3
<1>5. allIn \subseteq ai /\ ai \subseteq allIn \cup {p} /\ (pay = stack[p] => p \in ai) BY DEF FlagAllIn
<1> HIDE DEF st, com, ai
<1>6. Move(p, com, folded, ai, ac, bet) BY <1>4, <1>5 DEF Move
<1>7. Plays(p, st, com, folded, ai, ac, bet, min) BY <1>1, <1>2, <1>6 DEF Plays
<1> QED BY <1>7

(* Every action of act() is a move.                                        *)
LEMMA ActPlays ==
  ASSUME HandInv, NEW p \in Seats, Act(p)
  PROVE  /\ Turn(p)
         /\ \E st, com, fold, ai, ac, bet, min : Plays(p, st, com, fold, ai, ac, bet, min)
<1>1. folded \subseteq Seats /\ acted \subseteq Seats
  BY DEF HandInv, TypeOK
<1>2. /\ Reopened(p, acted) \in SUBSET Seats /\ acted \cup {p} \in SUBSET Seats
      /\ p \in Reopened(p, acted) /\ Reopened(p, acted) \subseteq acted \cup {p}
  BY <1>1 DEF Reopened
<1>3. CASE Fold(p)
  BY <1>3, IdlePlays DEF Fold
<1>4. CASE Check(p)
  BY <1>4, IdlePlays DEF Check, CanCheck
<1>5. CASE Call(p)
  <2>1. Turn(p) /\ CanCall(p) /\ Pay(p, CallAmount(p), acted \cup {p}, currentBet, minRaise)
    BY <1>5 DEF Call
  <2>2. /\ committed[p] \in Nat /\ stack[p] \in Nat
        /\ currentBet \in Nat /\ minRaise \in Nat
    BY <2>1, TurnFacts
  <2>3. /\ CallAmount(p) \in Nat /\ CallAmount(p) <= stack[p]
        /\ committed[p] + CallAmount(p) <= currentBet
        /\ committed[p] + CallAmount(p) = currentBet \/ CallAmount(p) = stack[p]
    BY <2>1, <2>2 DEF CanCall, CallAmount, ToCall, Lesser
  <2> DEFINE ac == acted \cup {p}
             pay == CallAmount(p)
  <2>4. ac \in SUBSET Seats /\ p \in ac /\ ac \subseteq acted \cup {p} /\ ac = acted \cup {p}
    BY <1>2
  <2>5. /\ pay \in Nat /\ pay <= stack[p] /\ committed[p] + pay <= currentBet
        /\ committed[p] + pay = currentBet \/ pay = stack[p]
        /\ Pay(p, pay, ac, currentBet, minRaise) /\ currentBet <= currentBet
    BY <2>1, <2>2, <2>3
  <2> HIDE DEF ac, pay
  <2>6. QED
    BY <2>1, <2>2, <2>4, <2>5, PayPlays
<1>6. ASSUME NEW amount \in 1..stack[p], Bet(p, amount)
      PROVE  /\ Turn(p)
             /\ \E st, com, fold, ai, ac, bet, min : Plays(p, st, com, fold, ai, ac, bet, min)
  <2>1. Turn(p) /\ BetOf(p, amount) /\ Pay(p, amount, Reopened(p, acted), amount, amount)
    BY <1>6 DEF Bet
  <2>2. /\ committed[p] \in Nat /\ stack[p] \in Nat /\ committed[p] <= currentBet
        /\ currentBet = 0
    BY <2>1, TurnFacts DEF BetOf
  <2>3. /\ amount \in Nat /\ amount <= stack[p] /\ currentBet <= amount /\ amount # currentBet
        /\ committed[p] + amount <= amount /\ committed[p] + amount = amount
    BY <2>2
  <2>4. QED
    BY <1>2, <2>1, <2>3, PayPlays
<1>7. ASSUME NEW cost \in 1..stack[p], Raise(p, committed[p] + cost)
      PROVE  /\ Turn(p)
             /\ \E st, com, fold, ai, ac, bet, min : Plays(p, st, com, fold, ai, ac, bet, min)
  <2> DEFINE total == committed[p] + cost
             full  == total - currentBet >= minRaise
             ac    == IF full THEN Reopened(p, acted) ELSE acted \cup {p}
             min   == IF full THEN total - currentBet ELSE minRaise
  <2>1. Turn(p) /\ RaiseTo(p, total) /\ Pay(p, total - committed[p], ac, total, min)
    BY <1>7 DEF Raise
  <2>2. /\ committed[p] \in Nat /\ stack[p] \in Nat
        /\ currentBet \in Nat /\ minRaise \in Nat
    BY <2>1, TurnFacts
  <2>3. total - committed[p] = cost /\ total \in Nat /\ currentBet < total /\ cost <= stack[p]
    BY <2>1, <2>2 DEF RaiseTo
  <2>4. min \in Nat
    BY <2>2, <2>3
  <2>5. ac \in SUBSET Seats /\ p \in ac /\ ac \subseteq acted \cup {p}
    BY <1>2
  <2>6. cost \in Nat /\ currentBet <= total /\ committed[p] + cost <= total
        /\ committed[p] + cost = total /\ total # currentBet
    BY <2>2, <2>3
  <2>7. QED
    <3> HIDE DEF total, full, ac, min
    <3>1. Pay(p, cost, ac, total, min)
      BY <2>1, <2>3
    <3>3. QED
      BY <2>1, <2>3, <2>4, <2>5, <2>6, <3>1, PayPlays
<1>8. QED
  BY <1>3, <1>4, <1>5, <1>6, <1>7 DEF Act

-----------------------------------------------------------------------------
(* The chips of the last live player cover the pots.                       *)

LEMMA KeptByMost ==
  ASSUME NEW c \in [Seats -> Nat], NEW h \in Seats, \A q \in Seats : c[q] <= c[h]
  PROVE  c[h] >= SecondLargest(c)
<1>1. PICK q \in Seats : c[q] >= SecondLargest(c) BY SecondIs
<1>2. c[q] \in Nat /\ c[h] \in Nat /\ SecondLargest(c) \in Nat /\ c[q] <= c[h] BY SecondIs
<1> QED BY <1>1, <1>2

LEMMA LargestOf ==
  ASSUME NEW c \in [Seats -> Nat], NEW S \in SUBSET Seats, S # {}
  PROVE  \E h \in S : \A q \in S : c[q] <= c[h]
<1> DEFINE values == {c[s] : s \in S}
<1>1. IsFiniteSet(S) BY SeatsAreFinite, FS_Subset
<1>2. IsFiniteSet(values) BY <1>1, ImageIsFinite
<1>3. values \in SUBSET Int /\ values # {} OBVIOUS
<1>4. Max(values) \in values /\ \A x \in values : x <= Max(values)
  <2> HIDE DEF values
  <2> QED BY <1>2, <1>3, MaxExists
<1>5. PICK h \in S : c[h] = Max(values) BY <1>4
<1> QED BY <1>4, <1>5

(* Heads-up both players cover the smaller contribution.                   *)
LEMMA HeadsUpCovers ==
  ASSUME NEW c \in [Seats -> Nat], N = 2, NEW h \in Seats
  PROVE  c[h] >= SecondLargest(c)
<1>1. PICK p, q \in Seats : p # q /\ c[p] >= SecondLargest(c) /\ c[q] >= SecondLargest(c) BY SecondIs
<1>2. h = p \/ h = q BY <1>1 DEF Seats
<1> QED BY <1>1, <1>2

(* A finished street with a player who holds the bet ends the hand with it *)
(* covering the pots, or starts the next street even.                      *)
Ready ==
  /\ Complete => committed = Nobody
  /\ N >= 3 /\ Live => Held \/ Unraised
  /\ Complete => Kept
LEMMA SettleHolds ==
  ASSUME HandInv, HandInv', Live,
         NEW st \in [Seats -> Nat], NEW com \in [Seats -> Nat], NEW fold \in SUBSET Seats,
         Settle(st, com, fold), folded' = fold, Seats \ fold # {},
         N = 2 \/ ~AtMostOne(Bettors(st, fold))
           \/ \E h \in Seats \ fold : \/ contrib[h] + com[h] >= SecondLargest(Gathered(com))
                                      \/ (h \in allIn' /\ initial[h] < SmallBlind),
         ~AtMostOne(Bettors(st, fold)) => \E h \in inRound \ fold : \A q \in Seats : com[q] <= com[h],
         UNCHANGED initial
  PROVE  Ready' /\ TurnsInOrder'
<1>1. contrib' = Gathered(com) /\ committed' = Nobody /\ acted' = {} /\ currentBet' = 0
  BY SettleType DEF HandInv, Gathered
<1>2. TurnsInOrder' BY <1>1 DEF TurnsInOrder, Settled
<1>3. contrib' \in [Seats -> Nat] /\ contrib \in [Seats -> Nat] BY DEF HandInv, TypeOK
<1>4. CASE Finish(fold)
  <2>1. Complete' BY <1>4 DEF Finish, Complete
  <2>2. \E h \in Seats \ fold : contrib'[h] >= SecondLargest(contrib') \/ (h \in allIn' /\ initial[h] < SmallBlind)
    <3>1. CASE N = 2 BY <1>3, <3>1, HeadsUpCovers
    <3>2. CASE ~AtMostOne(Bettors(st, fold))
      <4>1. PICK h \in inRound \ fold : \A q \in Seats : com[q] <= com[h] BY <3>2
      <4>2. h \in Seats /\ \A q \in Seats : contrib[q] <= contrib[h] BY DEF HandInv, BetsCovered, TypeOK
      <4>3. ASSUME NEW q \in Seats PROVE contrib'[q] <= contrib'[h]
        <5>1. /\ contrib[q] <= contrib[h] /\ com[q] <= com[h]
              /\ contrib'[q] = contrib[q] + com[q] /\ contrib'[h] = contrib[h] + com[h]
          BY <1>1, <4>1, <4>2 DEF Gathered
        <5>2. contrib[q] \in Nat /\ contrib[h] \in Nat /\ com[q] \in Nat /\ com[h] \in Nat
          BY <1>3, <4>2
        <5> QED BY <5>1, <5>2
      <4> QED BY <1>3, <4>2, <4>3, KeptByMost
    <3>3. CASE \E h \in Seats \ fold : \/ contrib[h] + com[h] >= SecondLargest(Gathered(com))
                                     \/ (h \in allIn' /\ initial[h] < SmallBlind)
      BY <1>1, <3>3 DEF Gathered
    <3> QED BY <3>1, <3>2, <3>3
  <2> QED BY <1>1, <1>2, <2>1, <2>2 DEF Ready, Kept, Covers, Live, Complete
<1>5. CASE OpenRound(Bettors(st, fold)) /\ ~AtMostOne(Bettors(st, fold))
  <2>1. inRound' = Bettors(st, fold) /\ street' \in {"flop", "turn", "river"}
    BY <1>5 DEF OpenRound, NextStreet
  <2>2. PICK h \in Bettors(st, fold) : TRUE BY <1>5 DEF AtMostOne
  <2>3. h \in inRound' \ folded' /\ committed'[h] = currentBet' /\ currentBet' = 0
    BY <1>1, <2>1, <2>2 DEF Bettors, Nobody
  <2>4. Held' BY <2>3 DEF Held, HeldWith
  <2> QED BY <1>2, <2>1, <2>4 DEF Ready, Complete
<1> QED BY <1>4, <1>5 DEF Settle

(* Where an unraised street stands when p has passed without holding it.   *)
Unheld(p, com, fold, ai, ac, bet) ==
  /\ street = "preflop" /\ bet = BigBlind /\ inRound = Seats /\ contrib = Nobody
  /\ \A s \in Seats : IF StepsTo(PreflopFirst, s) <= StepsTo(PreflopFirst, p)
                      THEN s \in fold \cup ai ELSE s \notin fold /\ s \notin ac
  /\ \A s \in Seats : s \notin ai \/ s \in fold => com[s] = Blind(s)

(* If the street ends there, the largest of the live contributions covers  *)
(* the pots, or is below the small blind.                                  *)
LEMMA UnraisedEnds ==
  ASSUME N >= 3, NEW p \in Seats, NEW st \in [Seats -> Nat], NEW com \in [Seats -> Nat],
         NEW fold \in SUBSET Seats, NEW ai, NEW ac, NEW bet,
         Unheld(p, com, fold, ai, ac, bet), ~HeldWith(com, fold, ac, bet),
         RoundComplete(inRound, fold, ai, ac, com, bet), Seats \ fold # {},
         \A s \in ai : st[s] = 0, \A s \in Seats : st[s] + com[s] = initial[s],
         \A s \in Seats : com[s] <= bet
  PROVE  \E h \in Seats \ fold : \/ contrib[h] + com[h] >= SecondLargest(Gathered(com))
                                 \/ (h \in ai /\ initial[h] < SmallBlind)
<1>1. Gathered(com) = com /\ \A h \in Seats : contrib[h] + com[h] = com[h]
  <2>1. \A s \in Seats : contrib[s] + com[s] = com[s] BY DEF Unheld, Nobody
  <2>2. com = [s \in Seats |-> com[s]] OBVIOUS
  <2> QED BY <2>1, <2>2 DEF Gathered
<1>2. /\ N \in Nat /\ 1 \in Seats /\ 2 \in Seats /\ 1 # 2 /\ PreflopFirst = 3 /\ 3 \in Seats
      /\ Blind(1) = SmallBlind /\ Blind(2) = BigBlind /\ \A s \in Seats : s # 1 /\ s # 2 => Blind(s) = 0
  BY NAssumption DEF Seats, PreflopFirst, Blind
<1>3. SmallBlind \in Nat /\ BigBlind \in Nat BY BlindsAssumption
<1>4. SecondLargest(com) \in Nat BY SecondIs
<1>5. CASE \E h \in Seats \ fold : h \notin ai
  <2>1. PICK h \in Seats \ fold : h \notin ai BY <1>5
  <2>2. com[h] = Blind(h) /\ inRound = Seats /\ bet = BigBlind BY <2>1 DEF Unheld
  <2>3. AtMostOne(inRound \ fold)
    BY <2>1, <2>2 DEF RoundComplete, HeldWith
  <2>4. StepsTo(PreflopFirst, h) > StepsTo(PreflopFirst, p)
    <3>1. StepsTo(PreflopFirst, h) \in Nat /\ StepsTo(PreflopFirst, p) \in Nat BY <1>2, StepsAre
    <3> QED BY <2>1, <3>1 DEF Unheld
  <2>5. h = 2
    <3>1. SUFFICES ASSUME h # 2 PROVE FALSE
      OBVIOUS
    <3>2. StepsTo(PreflopFirst, 2) > StepsTo(PreflopFirst, p)
      <4>1. h \in Nat /\ h >= 1 /\ h <= N /\ p \in Nat /\ p >= 1 /\ p <= N BY NAssumption DEF Seats
      <4> QED BY <1>2, <2>4, <3>1, <4>1 DEF StepsTo
    <3>3. 2 \notin fold
      <4>1. StepsTo(PreflopFirst, 2) \in Nat /\ StepsTo(PreflopFirst, p) \in Nat BY <1>2, StepsAre
      <4>2. ~(StepsTo(PreflopFirst, 2) <= StepsTo(PreflopFirst, p)) BY <3>2, <4>1
      <4> QED BY <1>2, <4>2 DEF Unheld
    <3> QED BY <1>2, <2>1, <2>2, <2>3, <3>1, <3>3 DEF AtMostOne
  <2>6. \A q \in Seats : com[q] <= com[h] BY <1>2, <2>2, <2>5
  <2> QED BY <1>1, <2>1, <2>6, KeptByMost
<1>6. CASE \A h \in Seats \ fold : h \in ai
  <2>1. PICK h \in Seats \ fold : \A q \in Seats \ fold : com[q] <= com[h] BY LargestOf
  <2>2. CASE com[h] >= SecondLargest(com) BY <1>1, <2>1, <2>2
  <2>3. CASE com[h] < SecondLargest(com)
    <3>1. PICK a, b \in Seats : a # b /\ com[a] >= SecondLargest(com) /\ com[b] >= SecondLargest(com)
      BY SecondIs
    <3>2. \A q \in Seats : com[q] \in Nat OBVIOUS
    <3>3. com[a] > com[h] /\ com[b] > com[h] BY <1>4, <2>3, <3>1, <3>2
    <3>4. a \in fold /\ b \in fold BY <2>1, <3>2, <3>3
    <3>5. com[a] = Blind(a) /\ com[b] = Blind(b) BY <3>4 DEF Unheld
    <3>6. Blind(a) > 0 /\ Blind(b) > 0 BY <3>2, <3>3, <3>5
    <3>7. a = 1 \/ b = 1 BY <1>2, <3>1, <3>6
    <3>8. com[h] < SmallBlind BY <1>2, <3>3, <3>5, <3>7
    <3>9. h \in ai /\ initial[h] = com[h]
      <4>1. h \in ai /\ st[h] = 0 /\ st[h] + com[h] = initial[h] BY <1>6, <2>1
      <4> QED BY <3>2, <4>1
    <3> QED BY <2>1, <3>8, <3>9
  <2>4. com[h] >= SecondLargest(com) \/ com[h] < SecondLargest(com)
    <3>1. com[h] \in Nat OBVIOUS
    <3> QED BY <1>4, <3>1
  <2> QED BY <2>2, <2>3, <2>4
<1> QED BY <1>5, <1>6

-----------------------------------------------------------------------------
(* A move keeps the invariant. *)
LEMMA PlaysInv ==
  ASSUME TurnInv, NEW p, Turn(p), NEW st, NEW com, NEW fold, NEW ai, NEW ac, NEW bet, NEW min,
         Plays(p, st, com, fold, ai, ac, bet, min)
  PROVE  TurnInv'
<1>1. /\ Moved(st, com, fold, ai, ac, bet, min) /\ Fair(st, com, fold, ai, bet)
      /\ Move(p, com, fold, ai, ac, bet) /\ Resolve(st, com, fold, ai, ac, bet, min)
  BY DEF Plays
<1>2. HandInv /\ Live /\ p = toAct /\ p \in Seats
  BY TurnFacts DEF TurnInv, Turn
<1>3. HandInv' BY <1>1, <1>2, ResolveInv
<1>4. stack' = st /\ folded' = fold /\ allIn' = ai /\ UNCHANGED initial BY <1>1 DEF Resolve
<1>5. /\ st \in [Seats -> Nat] /\ com \in [Seats -> Nat] /\ fold \in SUBSET Seats
      /\ ai = {s \in Seats : st[s] = 0} /\ bet \in Nat /\ currentBet \in Nat
      /\ inRound \in SUBSET Seats /\ \A s \in Seats : com[s] <= bet
      /\ committed \in [Seats -> Nat] /\ contrib \in [Seats -> Nat] /\ stack \in [Seats -> Nat]
      /\ \A s \in Seats : committed[s] <= currentBet
      /\ allIn \in SUBSET Seats /\ folded \in SUBSET Seats
  BY <1>1, <1>2 DEF Moved, Fair, HandInv, TypeOK, BetsCovered
<1>6. /\ ~AtMostOne(inRound \ folded)
      /\ \E u \in (inRound \ folded) \ allIn : ~Settled(u)
  BY DEF Turn, RoundComplete, Settled
<1>7. PICK r \in inRound \ folded : r # p BY <1>6 DEF AtMostOne
<1>8. r \in inRound \ fold /\ Seats \ fold # {}
  <2>1. fold \subseteq folded \cup {p} BY <1>1 DEF Move
  <2> QED BY <1>5, <1>7, <2>1
<1>9. N >= 3 => p \in inRound \ (folded \cup allIn) BY <1>2 DEF HandInv, ActorHasChips
<1>10. com[p] >= committed[p] /\ com[p] \in Nat /\ committed[p] \in Nat
  <2>1. st[p] + com[p] = stack[p] + committed[p] /\ st[p] <= stack[p] BY <1>1, <1>2 DEF Fair
  <2>2. st[p] \in Nat /\ com[p] \in Nat /\ stack[p] \in Nat /\ committed[p] \in Nat BY <1>2, <1>5
  <2> QED BY <2>1, <2>2
<1>11. ASSUME N >= 3
       PROVE  HeldWith(com, fold, ac, bet) \/ Unheld(p, com, fold, ai, ac, bet)
  <2>1. CASE bet # currentBet
    <3>1. p \notin fold /\ com[p] = bet /\ p \in ac BY <1>1, <1>9, <1>11, <2>1 DEF Move
    <3> QED BY <1>9, <1>11, <3>1 DEF HeldWith
  <2>2. CASE bet = currentBet /\ Held
    <3>1. PICK h \in inRound \ folded : committed[h] = currentBet /\ (h \in acted \/ currentBet = 0)
      BY <2>2 DEF Held, HeldWith
    <3>2. ac = acted \cup {p} BY <1>1, <2>2 DEF Move
    <3>3. CASE h # p
      <4>1. h \in inRound \ fold /\ com[h] = bet
        BY <1>1, <1>5, <2>2, <3>1, <3>3 DEF Move
      <4> QED BY <2>2, <3>1, <3>2, <4>1 DEF HeldWith
    <3>4. CASE h = p /\ p \notin fold
      <4>1. com[p] = bet
        <5>1. com[p] <= bet /\ com[p] >= currentBet BY <1>2, <1>5, <1>10, <3>1, <3>4
        <5> QED BY <1>5, <1>10, <2>2, <5>1
      <4> QED BY <3>1, <3>2, <3>4, <4>1 DEF HeldWith
    <3>5. CASE h = p /\ p \in fold /\ currentBet = 0
      <4>1. com[r] = bet
        <5>1. com[r] <= 0 /\ com[r] \in Nat BY <1>5, <1>7, <2>2, <3>5
        <5> QED BY <2>2, <3>5, <5>1
      <4> QED BY <1>8, <2>2, <3>5, <4>1 DEF HeldWith
    <3>6. CASE h = p /\ p \in fold /\ currentBet # 0
      <4>1. Settled(p) BY <3>1, <3>6 DEF Settled
      <4>2. PICK u \in (inRound \ folded) \ allIn : ~Settled(u) BY <1>6
      <4>3. StepsTo(toAct, u) < StepsTo(toAct, p)
        BY <1>9, <1>11, <4>1, <4>2 DEF TurnInv, TurnsInOrder
      <4>4. StepsTo(toAct, u) \in Nat /\ StepsTo(toAct, p) = 0 BY <1>2, <1>5, <4>2, StepsAre
      <4> QED BY <4>3, <4>4
    <3> QED BY <3>3, <3>4, <3>5, <3>6
  <2>3. CASE bet = currentBet /\ Unraised
    <3>1. ac = acted \cup {p} BY <1>1, <2>3 DEF Move
    <3>2. CASE p \notin fold /\ com[p] = bet
      BY <1>9, <1>11, <3>1, <3>2 DEF HeldWith
    <3>3. CASE p \in fold \cup ai
      <4>1. /\ fold = folded \/ (fold = folded \cup {p} /\ com[p] = committed[p])
            /\ allIn \subseteq ai /\ ai \subseteq allIn \cup {p}
            /\ \A x \in Seats \ {p} : com[x] = committed[x]
        BY <1>1 DEF Move
      <4> DEFINE f == PreflopFirst
      <4>2. f \in Seats BY <1>11, NAssumption DEF PreflopFirst, Seats
      <4>3. ASSUME NEW s \in Seats
            PROVE  IF StepsTo(f, s) <= StepsTo(f, p)
                   THEN s \in fold \cup ai ELSE s \notin fold /\ s \notin ac
        <5> HIDE DEF f
        <5>1. /\ StepsTo(f, s) \in Nat /\ StepsTo(f, p) \in Nat
              /\ StepsTo(f, s) = StepsTo(f, p) => s = p
          BY <1>2, <4>2, StepsAre
        <5>2. IF StepsTo(f, s) < StepsTo(f, p) THEN s \in folded \cup allIn
              ELSE s \notin folded /\ s \notin acted
          BY <1>2, <2>3 DEF Unraised, Passed, f
        <5>3. CASE StepsTo(f, s) < StepsTo(f, p) BY <4>1, <5>1, <5>2, <5>3
        <5>4. CASE s = p BY <3>3, <5>1, <5>4
        <5>5. CASE StepsTo(f, s) > StepsTo(f, p)
          <6>1. s # p BY <5>1, <5>5
          <6>2. s \notin folded /\ s \notin acted BY <5>1, <5>2, <5>5
          <6> QED BY <3>1, <4>1, <5>1, <5>5, <6>1, <6>2
        <5> QED BY <5>1, <5>3, <5>4, <5>5
      <4>4. ASSUME NEW s \in Seats, s \notin ai \/ s \in fold PROVE com[s] = Blind(s)
        <5>1. CASE s # p BY <2>3, <4>1, <4>4, <5>1 DEF Unraised
        <5>2. CASE s = p
          <6>1. p \notin folded /\ p \notin allIn BY <1>9, <1>11
          <6>2. committed[p] = Blind(p) BY <1>2, <2>3, <6>1 DEF Unraised
          <6>3. p \in fold BY <3>3, <4>4, <5>2
          <6> QED BY <4>1, <5>2, <6>1, <6>2, <6>3
        <5> QED BY <5>1, <5>2
      <4> QED BY <2>3, <4>3, <4>4 DEF Unheld, Unraised
    <3>4. p \in fold \/ com[p] = bet \/ p \in ai BY <1>1 DEF Move
    <3> QED BY <3>2, <3>3, <3>4
  <2> QED BY <1>2, <1>11, <2>1, <2>2, <2>3 DEF TurnInv
<1>12. CASE RoundComplete(inRound, fold, ai, ac, com, bet)
  <2>1. Settle(st, com, fold) BY <1>1, <1>12 DEF Resolve
  <2>2. ~AtMostOne(Bettors(st, fold)) => \E h \in inRound \ fold : \A q \in Seats : com[q] <= com[h]
    <3>1. SUFFICES ASSUME ~AtMostOne(Bettors(st, fold))
                   PROVE  \E h \in inRound \ fold : \A q \in Seats : com[q] <= com[h]
      OBVIOUS
    <3>2. Bettors(st, fold) \subseteq inRound \ fold
      BY <1>1, <1>2, <1>5 DEF Bettors, Moved, Fair, HandInv, BetsCovered, TypeOK
    <3>3. PICK h \in Bettors(st, fold) : TRUE BY <3>1 DEF AtMostOne
    <3>4. ~AtMostOne(inRound \ fold) BY <3>1, <3>2 DEF AtMostOne
    <3>5. com[h] = bet BY <1>5, <1>12, <3>2, <3>4 DEF RoundComplete, Bettors
    <3> QED BY <1>5, <3>2, <3>5
  <2>3. N = 2 \/ \E h \in Seats \ fold : \/ contrib[h] + com[h] >= SecondLargest(Gathered(com))
                                         \/ (h \in allIn' /\ initial[h] < SmallBlind)
    <3>1. SUFFICES ASSUME N >= 3
                   PROVE  \E h \in Seats \ fold : \/ contrib[h] + com[h] >= SecondLargest(Gathered(com))
                                                  \/ (h \in ai /\ initial[h] < SmallBlind)
      BY <1>4, NAssumption
    <3>2. CASE HeldWith(com, fold, ac, bet)
      <4>1. PICK h \in inRound \ fold : com[h] = bet BY <3>2 DEF HeldWith
      <4>2. h \in Seats /\ \A q \in Seats : contrib[q] <= contrib[h]
        BY <1>2, <1>5, <4>1 DEF HandInv, BetsCovered
      <4> DEFINE c == Gathered(com)
      <4>3. c \in [Seats -> Nat] /\ \A q \in Seats : c[q] = contrib[q] + com[q] BY <1>5 DEF Gathered
      <4>4. ASSUME NEW q \in Seats PROVE c[q] <= c[h]
        <5>1. contrib[q] <= contrib[h] /\ com[q] <= com[h] BY <1>5, <4>1, <4>2
        <5>2. contrib[q] \in Nat /\ contrib[h] \in Nat /\ com[q] \in Nat /\ com[h] \in Nat BY <1>5, <4>2
        <5> HIDE DEF c
        <5> QED BY <4>2, <4>3, <5>1, <5>2
      <4> HIDE DEF c
      <4>5. c[h] >= SecondLargest(c) BY <4>2, <4>3, <4>4, KeptByMost
      <4> QED BY <4>1, <4>2, <4>3, <4>5 DEF c
    <3>3. CASE ~HeldWith(com, fold, ac, bet)
      <4>1. Unheld(p, com, fold, ai, ac, bet) BY <1>11, <3>1, <3>3
      <4>2. \A s \in ai : st[s] = 0 BY <1>5
      <4>3. \A s \in Seats : st[s] + com[s] = initial[s]
        <5> TAKE s \in Seats
        <5>1. st[s] + com[s] = stack[s] + committed[s] BY <1>1 DEF Fair
        <5>2. stack[s] + committed[s] + contrib[s] = initial[s] BY <1>2 DEF HandInv, ChipsAccounted
        <5>3. contrib[s] = 0 BY <4>1 DEF Unheld, Nobody
        <5>4. stack[s] \in Nat /\ committed[s] \in Nat BY <1>5
        <5> QED BY <5>1, <5>2, <5>3, <5>4
      <4> QED BY <1>2, <1>5, <1>8, <1>12, <3>1, <3>3, <4>1, <4>2, <4>3, UnraisedEnds
    <3> QED BY <3>2, <3>3
  <2>4. Ready' /\ TurnsInOrder' BY <1>2, <1>3, <1>4, <1>5, <1>8, <2>1, <2>2, <2>3, SettleHolds
  <2> QED BY <1>3, <1>4, <1>8, <2>4 DEF TurnInv, Ready
<1>13. CASE ~RoundComplete(inRound, fold, ai, ac, com, bet)
  <2> DEFINE A == inRound \ (fold \cup ai)
             n == toAct'
  <2>1. /\ committed' = com /\ acted' = ac /\ currentBet' = bet
        /\ n \in FirstFrom(p + 1, A) /\ UNCHANGED <<contrib, inRound, street>>
    BY <1>1, <1>2, <1>13 DEF Resolve
  <2>2. A \in SUBSET Seats /\ A \subseteq inRound \ (folded \cup allIn)
    BY <1>1, <1>5 DEF Fair, Move
  <2>3. TurnsInOrder'
    <3>1. SUFFICES ASSUME NEW u \in A, NEW s \in A, ~(u \in ac /\ com[u] = bet), s \in ac, com[s] = bet
                   PROVE  StepsTo(n, u) < StepsTo(n, s)
      BY <1>4, <2>1 DEF TurnsInOrder, Settled
    <3>2. u # p
      <4>1. p \notin A \/ (p \in ac /\ com[p] = bet) BY <1>1 DEF Move
      <4> QED BY <3>1, <4>1
    <3>3. s = p \/ StepsTo(p, u) < StepsTo(p, s)
      <4>1. SUFFICES ASSUME s # p PROVE StepsTo(p, u) < StepsTo(p, s)
        OBVIOUS
      <4>2. com[s] = committed[s] /\ com[u] = committed[u] /\ s \in acted
        BY <1>1, <2>2, <3>1, <3>2, <4>1 DEF Move
      <4>3. bet = currentBet
        <5>1. bet <= currentBet /\ bet >= currentBet BY <1>1, <1>5, <2>2, <3>1, <4>2 DEF Move
        <5> QED BY <1>5, <5>1
      <4>4. ac = acted \cup {p} BY <1>1, <4>3 DEF Move
      <4>5. Settled(s) /\ ~Settled(u) BY <3>1, <3>2, <4>2, <4>3, <4>4 DEF Settled
      <4> QED BY <1>2, <2>2, <4>5 DEF TurnInv, TurnsInOrder
    <3> HIDE DEF A, n
    <3> QED BY <1>2, <2>1, <2>2, <3>2, <3>3, TurnGoesOn
  <2>4. Live' /\ ~Complete' BY <1>2, <2>1 DEF Live, Complete
  <2>5. ASSUME N >= 3 PROVE Held' \/ Unraised'
    <3>1. CASE HeldWith(com, fold, ac, bet)
      BY <1>4, <2>1, <3>1 DEF Held, HeldWith
    <3>2. CASE Unheld(p, com, fold, ai, ac, bet)
      <4> DEFINE f == PreflopFirst
      <4>1. f \in Seats BY <2>5, NAssumption DEF PreflopFirst, Seats
      <4>2. n \in A BY <2>1 DEF FirstFrom
      <4>3. \A x \in A : StepsTo(f, p) < StepsTo(f, x)
        <5> TAKE x \in A
        <5>1. StepsTo(f, x) \in Nat /\ StepsTo(f, p) \in Nat BY <1>2, <2>2, <4>1, StepsAre
        <5>2. ~(StepsTo(f, x) <= StepsTo(f, p)) BY <2>2, <3>2 DEF Unheld
        <5> HIDE DEF f
        <5> QED BY <5>1, <5>2
      <4>4. ASSUME NEW s \in Seats
            PROVE  IF StepsTo(f, s) < StepsTo(f, n) THEN s \in fold \cup ai
                   ELSE s \notin fold /\ s \notin ac
        <5>1. StepsTo(f, s) \in Nat /\ StepsTo(f, n) \in Nat /\ StepsTo(f, p) \in Nat
          BY <1>2, <2>2, <4>1, <4>2, StepsAre
        <5>2. CASE StepsTo(f, s) < StepsTo(f, n)
          <6>1. s \notin A
            <7>1. SUFFICES ASSUME s \in A PROVE FALSE
              OBVIOUS
            <7>2. StepsTo(f, n) <= StepsTo(f, s)
              <8> HIDE DEF f, A, n
              <8> QED BY <1>2, <2>1, <2>2, <4>1, <4>3, <7>1, TurnIsNext
            <7> HIDE DEF f, n
            <7> QED BY <5>1, <5>2, <7>2
          <6>2. inRound = Seats BY <3>2 DEF Unheld
          <6> QED BY <5>2, <6>1, <6>2
        <5>3. CASE ~(StepsTo(f, s) < StepsTo(f, n))
          <6>1. ~(StepsTo(f, s) <= StepsTo(f, p))
            <7>1. StepsTo(f, p) < StepsTo(f, n) BY <4>2, <4>3
            <7> HIDE DEF f, n
            <7> QED BY <5>1, <5>3, <7>1
          <6> QED BY <3>2, <5>3, <6>1 DEF Unheld
        <5> QED BY <5>2, <5>3
      <4>5. \A s \in Seats : s \notin ai \/ s \in fold => com[s] = Blind(s) BY <3>2 DEF Unheld
      <4> QED BY <1>4, <2>1, <3>2, <4>4, <4>5 DEF Unheld, Unraised, Passed
    <3> QED BY <1>11, <2>5, <3>1, <3>2
  <2> QED BY <1>3, <1>4, <1>8, <2>3, <2>4, <2>5 DEF TurnInv
<1> QED BY <1>12, <1>13

LEMMA DealHolds ==
  ASSUME TurnInv, Deal
  PROVE  TurnInv'
<1> DEFINE posted == [s \in Seats |-> Lesser(Blind(s), stack[s])]
           behind == [s \in Seats |-> stack[s] - posted[s]]
           broke  == {s \in Seats : behind[s] = 0}
<1>1. HandInv /\ HandInv' BY DealInv DEF TurnInv
<1>2. /\ stack = initial /\ contrib = Nobody /\ folded = {} /\ acted = {} /\ inRound = {}
      /\ street = "undealt"
  BY <1>1 DEF Deal, HandInv, Untouched
<1>3. stack' = behind /\ allIn' = broke /\ folded' = {} /\ UNCHANGED initial
  BY <1>2 DEF Deal
<1>4. N \in Nat /\ N >= 2 /\ 1 \in Seats /\ 2 \in Seats /\ 1 # 2
  BY NAssumption DEF Seats
<1>5. /\ \A s \in Seats : Blind(s) \in Nat
      /\ \A s \in Seats : stack[s] \in Nat /\ stack[s] > 0
  BY <1>1, <1>2, BlindsAssumption, StacksAssumption DEF Blind, HandInv, TypeOK
<1>6. \A s \in Seats : /\ posted[s] \in Nat /\ behind[s] \in Nat
                       /\ behind[s] # 0 => posted[s] = Blind(s)
  BY <1>5 DEF Lesser
<1>7. Seats \ folded' # {} BY <1>3, <1>4
<1>8. CASE RoundComplete(Seats, {}, broke, {}, posted, BigBlind)
  <2>1. Seats \ broke = {} BY <1>4, <1>8 DEF RoundComplete, AtMostOne
  <2>2. Bettors(behind, {}) = {} BY <1>6, <2>1 DEF Bettors
  <2>3. Settle(behind, posted, {}) BY <1>8 DEF Deal
  <2>4. AtMostOne(Bettors(behind, {})) BY <2>2 DEF AtMostOne
  <2>5. Finish({}) /\ committed' = Nobody BY <2>3, <2>4 DEF Settle
  <2>6. Complete' /\ inRound' = {} BY <2>5 DEF Finish, Complete
  <2>7. contrib' \in [Seats -> Nat] BY <1>1 DEF HandInv, TypeOK
  <2>8. \E h \in Seats : contrib'[h] >= SecondLargest(contrib') BY <2>7, SecondIs
  <2>9. Kept' BY <1>3, <2>8 DEF Kept, Covers
  <2> QED BY <1>1, <1>7, <2>5, <2>6, <2>9 DEF TurnInv, TurnsInOrder, Live, Complete
<1>9. CASE ~RoundComplete(Seats, {}, broke, {}, posted, BigBlind)
  <2>1. /\ street' = "preflop" /\ committed' = posted /\ inRound' = Seats
        /\ toAct' = PreflopFirst /\ currentBet' = BigBlind
        /\ contrib' = Nobody /\ acted' = {}
    BY <1>2, <1>9 DEF Deal
  <2>2. TurnsInOrder' BY <2>1 DEF TurnsInOrder, Settled
  <2>3. \A s \in Seats : s \notin broke => posted[s] = Blind(s) BY <1>6
  <2>4. PreflopFirst \in Seats BY <1>4 DEF PreflopFirst, Seats
  <2>5. \A s \in Seats : ~(StepsTo(PreflopFirst, s) < StepsTo(PreflopFirst, PreflopFirst))
    <3> TAKE s \in Seats
    <3>1. StepsTo(PreflopFirst, s) \in Nat /\ StepsTo(PreflopFirst, PreflopFirst) = 0 BY <2>4, StepsAre
    <3> QED BY <3>1
  <2> HIDE DEF posted, behind, broke
  <2>6. Unraised' BY <1>3, <2>1, <2>3, <2>5 DEF Unraised, Passed
  <2>7. ~Complete' BY <2>1 DEF Complete
  <2> QED BY <1>1, <1>7, <2>2, <2>6, <2>7 DEF TurnInv
<1> QED BY <1>8, <1>9

LEMMA InitHolds == Init => TurnInv
<1>1. SUFFICES ASSUME Init PROVE TurnInv
  OBVIOUS
<1>2. 1 \in Seats BY NAssumption DEF Seats
<1>3. HandInv BY <1>1, InitInv
<1>4. TurnsInOrder BY <1>1 DEF Init, TurnsInOrder
<1>5. ~Live /\ ~Complete /\ Seats \ folded # {} BY <1>1, <1>2 DEF Init, Live, Complete
<1> QED BY <1>3, <1>4, <1>5 DEF TurnInv

LEMMA NextHolds ==
  ASSUME TurnInv, [Next]_vars
  PROVE  TurnInv'
<1>1. CASE Deal BY <1>1, DealHolds
<1>2. CASE \E p \in Seats : Act(p)
  <2>1. PICK p \in Seats : Act(p) BY <1>2
  <2>2. /\ Turn(p)
        /\ \E st, com, fold, ai, ac, bet, min : Plays(p, st, com, fold, ai, ac, bet, min)
    BY <2>1, ActPlays DEF TurnInv
  <2> QED BY <2>2, PlaysInv
<1>3. CASE UNCHANGED vars
  <2>1. HandInv' BY <1>3, NextInv DEF TurnInv
  <2> QED BY <1>3, <2>1 DEF vars, betting, TurnInv, TurnsInOrder, Settled, Live, Complete, Held, HeldWith,
        Unraised, Passed, Kept, Covers
<1> QED BY <1>1, <1>2, <1>3 DEF Next, Done

(* The turn goes round in order, and whoever holds the bet stays in: when  *)
(* the hand is over a live player covers the pots.                         *)
THEOREM TurnsAreInOrder == Spec => []TurnInv
<1>1. TurnInv /\ [Next]_vars => TurnInv' BY NextHolds
<1> QED BY <1>1, InitHolds, PTL DEF Spec

(* The turn reaches everybody who owes an action before anybody who has    *)
(* matched the bet.                                                        *)
THEOREM TurnsStayInOrder == Spec => []TurnsInOrder
<1>1. TurnInv => TurnsInOrder BY DEF TurnInv
<1> QED BY <1>1, TurnsAreInOrder, PTL

-----------------------------------------------------------------------------
(* A live player that covers the pots is in all of them.                   *)
LEMMA NoOrphans ==
  ASSUME NEW c \in [Seats -> Nat], NEW fold, NEW h \in Seats, h \notin fold, c[h] >= SecondLargest(c)
  PROVE  Orphaned(c, fold) = 0
<1> DEFINE orphans == {pot \in Pots(c, fold) : pot.eligible = {}}
<1>1. orphans = {}
  <2>1. SUFFICES ASSUME NEW pot \in Pots(c, fold), pot.eligible = {} PROVE FALSE
    OBVIOUS
  <2>2. PICK l \in LayerLevels(Called(c)) : pot = KeyOf(c, fold)[l] BY PotsAre
  <2>3. Eligible(Called(c), fold, l) = {} BY <2>1, <2>2, PotsAre
  <2>4. PICK s \in Seats : l = Called(c)[s] BY DEF LayerLevels
  <2>5. /\ Called(c)[s] = Lesser(c[s], SecondLargest(c)) /\ Called(c)[h] = Lesser(c[h], SecondLargest(c))
        /\ c[s] \in Nat /\ c[h] \in Nat /\ SecondLargest(c) \in Nat
    BY CalledIs, SecondIs
  <2>6. Called(c)[h] >= l BY <2>4, <2>5 DEF Lesser
  <2> QED BY <2>3, <2>6 DEF Eligible, Contributors
<1>2. Orphaned(c, fold) = TotalPot({}) BY <1>1 DEF Orphaned
<1>3. TotalPot({}) = 0 BY TotalPotIs, SumEmpty
<1> QED BY <1>2, <1>3

LEMMA HeadsUpIsZeroSum ==
  ASSUME TurnInv
  PROVE  HeadsUpZeroSum
<1>1. SUFFICES ASSUME Complete, N = 2 PROVE Total(payouts) = Total(contrib)
  BY DEF HeadsUpZeroSum
<1>2. /\ payouts = Payouts(contrib, folded, strength)
      /\ contrib \in [Seats -> Nat] /\ strength \in [Seats -> Nat] /\ folded \subseteq Seats
  BY <1>1, CompleteAward DEF TurnInv, HandInv
<1>3. PICK h \in Seats : h \notin folded BY DEF TurnInv
<1>4. Orphaned(contrib, folded) = 0 BY <1>1, <1>2, <1>3, HeadsUpCovers, NoOrphans
<1>5. /\ payouts \in [Seats -> Nat]
      /\ Total(payouts) + Orphaned(contrib, folded) = Total(contrib)
  BY <1>2, AwardAddsUp
<1>6. Total(payouts) \in Nat
  <2>1. payouts \in [Seats -> Int] BY <1>5
  <2>2. Total(payouts) = SumFunctionOnSet(payouts, Seats) BY <2>1, TotalAdds
  <2>3. SumFunctionOnSet(payouts, Seats) \in Nat BY <1>5, SeatsAreFinite, SumNat
  <2> QED BY <2>2, <2>3
<1> QED BY <1>4, <1>5, <1>6

(* Nobody is paid more of what another put in than it put in itself, and a *)
(* folded player at most its own uncalled chips.                           *)
THEOREM TableStakesHold == Spec => []TableStakes
<1>1. HandInv => TableStakes BY StakesHeld DEF HandInv
<1> QED BY <1>1, HandIsSound, PTL

(* Whoever alone holds the best hand takes all it can win.                 *)
THEOREM BestHandWins == Spec => []BestHandTakesAll
<1>1. HandInv => BestHandTakesAll BY StakesHeld DEF HandInv
<1> QED BY <1>1, HandIsSound, PTL

(* Heads-up, every chip put in is paid out.                                *)
THEOREM HeadsUpAddsUp == Spec => []HeadsUpZeroSum
<1>1. TurnInv => HeadsUpZeroSum BY HeadsUpIsZeroSum
<1> QED BY <1>1, TurnsAreInOrder, PTL

LEMMA SameCardinality == \A S : Promise!Cardinality(S) = Cardinality(S)
  BY DEF Cardinality, Promise!Cardinality

(* The state as a caller sees it.                                          *)
LEMMA SeenIs ==
  /\ street = "undealt" => HandSeen = [over |-> TRUE, dealt |-> {}]
  /\ Complete => HandSeen = [over |-> TRUE, dealt |-> Seats, brought |-> initial,
                             out |-> folded, allIn |-> allIn]
  /\ Live => HandSeen = [over |-> FALSE, dealt |-> Seats, brought |-> initial,
                         out |-> folded, allIn |-> allIn, actor |-> toAct]
  /\ ~Live /\ ~Complete => street = "undealt"
  BY DEF HandSeen, Live, Complete

(* An open hand: two live players at least, one of them with chips.        *)
LEMMA OpenHand ==
  ASSUME NEW round \in SUBSET Seats, NEW fold, NEW ai, NEW ac, NEW com, NEW bet,
         ~RoundComplete(round, fold, ai, ac, com, bet)
  PROVE  Cardinality(Seats \ fold) >= 2 /\ ~(Seats \subseteq ai)
<1>1. ~AtMostOne(round \ fold) /\ round \ fold \subseteq Seats \ fold
  BY DEF RoundComplete
<1>2. PICK a, b \in Seats \ fold : a # b BY <1>1 DEF AtMostOne
<1> DEFINE L == Seats \ fold
<1>3. Cardinality(L) >= 2
  <2>1. IsFiniteSet(L) /\ Cardinality(L) \in Nat /\ a \in L /\ b \in L \ {a}
    BY <1>2, SeatsAreFinite, FS_Difference, FS_CardinalityType
  <2> HIDE DEF L
  <2>2. IsFiniteSet(L \ {a}) /\ Cardinality(L \ {a}) = Cardinality(L) - 1 BY <2>1, FS_RemoveElement
  <2>3. Cardinality(L \ {a}) # 0 BY <2>1, <2>2, FS_EmptySet
  <2>4. Cardinality(L \ {a}) \in Nat BY <2>2, FS_CardinalityType
  <2> QED BY <2>1, <2>2, <2>3, <2>4
<1>4. ~(Seats \subseteq ai)
  BY <1>1 DEF RoundComplete
<1> QED BY <1>3, <1>4

LEMMA DealtIs ==
  ASSUME TurnInv, Deal
  PROVE  Promise!Dealt(HandSeen, HandSeen')
<1>1. TurnInv' /\ HandInv' /\ HandInv BY DealHolds DEF TurnInv
<1>2. street = "undealt" /\ street' # "undealt" /\ folded' = {}
  BY <1>1 DEF Deal, HandInv, Untouched, Settle, Finish, OpenRound, NextStreet
<1>3. HandSeen = Promise!NoHand BY <1>2, SeenIs DEF Promise!NoHand
<1>4. DOMAIN initial' = Seats BY <1>1 DEF HandInv, TypeOK
<1> DEFINE posted == [s \in Seats |-> Lesser(Blind(s), stack[s])]
           behind == [s \in Seats |-> stack[s] - posted[s]]
           broke  == {s \in Seats : behind[s] = 0}
<1>5. CASE Complete'
  <2>1. allIn' = Seats
    <3>1. RoundComplete(Seats, {}, broke, {}, posted, BigBlind) /\ allIn' = broke
      BY <1>5 DEF Deal, Complete
    <3>2. 1 \in Seats /\ 2 \in Seats /\ 1 # 2 BY NAssumption DEF Seats
    <3>3. Seats \ broke = {} BY <3>1, <3>2 DEF RoundComplete, AtMostOne
    <3> QED BY <3>1, <3>3
  <2>2. HandSeen' = [over |-> TRUE, dealt |-> Seats, brought |-> initial',
                     out |-> {}, allIn |-> Seats]
    BY <1>2, <1>5, <2>1 DEF HandSeen, Complete
  <2> QED BY <1>3, <1>4, <2>2 DEF Promise!Dealt, Promise!Ended
<1>6. CASE ~Complete'
  <2>1. Live' BY <1>2, <1>6 DEF Live, Complete
  <2>2. Cardinality(Seats \ folded') >= 2 /\ ~(Seats \subseteq allIn') /\ toAct' \in Seats
    <3>1. /\ ~RoundComplete(inRound', folded', allIn', acted', committed', currentBet')
          /\ inRound' \in SUBSET Seats /\ toAct' \in Seats
      BY <1>1, <2>1 DEF HandInv, NeverStalls, TypeOK
    <3> QED BY <3>1, OpenHand
  <2>3. HandSeen' = [over |-> FALSE, dealt |-> Seats, brought |-> initial',
                     out |-> {}, allIn |-> allIn', actor |-> toAct']
    BY <1>2, <2>1 DEF HandSeen, Complete, Live
  <2>4. Cardinality(Seats) # 2 => toAct' \in Seats \ allIn'
    <3>1. Cardinality(Seats) = N /\ N \in Nat /\ N >= 2 BY SeatsAreFinite, NAssumption
    <3>2. N >= 3 => toAct' \notin allIn' BY <1>1, <2>1 DEF HandInv, ActorHasChips
    <3> QED BY <2>2, <3>1, <3>2
  <2>5. HandSeen' \in Promise!Opened(initial', allIn')
    <3> DEFINE actors == IF Cardinality(Seats) = 2 THEN Seats ELSE Seats \ allIn'
    <3>1. toAct' \in actors BY <2>2, <2>4
    <3>2. Cardinality(Seats \ {}) >= 2 BY <1>2, <2>2
    <3> HIDE DEF actors
    <3>3. HandSeen' \in Promise!Ongoing(initial', {}, allIn', actors)
      BY <1>4, <2>2, <2>3, <3>1, <3>2, SameCardinality DEF Promise!Ongoing
    <3> QED BY <1>4, <3>3, SameCardinality DEF Promise!Opened, actors
  <2>6. HandSeen'.over = FALSE /\ HandSeen'.brought = initial' /\ HandSeen'.allIn = allIn' BY <2>3
  <2> QED BY <1>3, <2>5, <2>6 DEF Promise!Dealt
<1> QED BY <1>5, <1>6

LEMMA ActedIs ==
  ASSUME TurnInv, NEW p \in Seats, Act(p)
  PROVE  Promise!Acted(HandSeen, HandSeen')
<1>1. HandInv /\ HandInv' BY ActInv DEF TurnInv
<1>2. Turn(p) BY ActPlays, <1>1
<1>3. PICK st, com, fold, ai, ac, bet, min : Plays(p, st, com, fold, ai, ac, bet, min)
  BY ActPlays, <1>1
<1>4. /\ Live /\ p = toAct BY <1>2 DEF Turn
<1>5. HandSeen = [over |-> FALSE, dealt |-> Seats, brought |-> initial,
                  out |-> folded, allIn |-> allIn, actor |-> toAct]
  BY <1>4, SeenIs
<1>6. /\ folded' = fold /\ allIn' = ai /\ initial' = initial /\ DOMAIN initial = Seats
      /\ street' # "undealt"
  BY <1>1, <1>3, <1>4 DEF Plays, Resolve, HandInv, TypeOK, Live, Settle, Finish, OpenRound, NextStreet
<1>7. PICK after \in Promise!AfterFold(HandSeen) \cup Promise!AfterStay(HandSeen) :
        after.out = fold /\ after.allIn = ai
  <2> SUFFICES \E after \in Promise!AfterFold(HandSeen) \cup Promise!AfterStay(HandSeen) :
                 after.out = fold /\ after.allIn = ai
    OBVIOUS
  <2>1. (fold = folded \cup {p} /\ ai = allIn) \/ (fold = folded /\ (ai = allIn \/ ai = allIn \cup {p}))
    BY <1>3 DEF Plays, Move
  <2> QED BY <1>4, <1>5, <2>1 DEF Promise!AfterFold, Promise!AfterStay
<1>8. CASE Complete'
  <2>1. HandSeen' = [over |-> TRUE, dealt |-> Seats, brought |-> initial,
                     out |-> fold, allIn |-> ai]
    BY <1>6, <1>8 DEF HandSeen, Complete
  <2>2. HandSeen'.over = TRUE /\ HandSeen' = Promise!Ended(HandSeen.brought, after.out, after.allIn)
    BY <1>5, <1>6, <1>7, <2>1 DEF Promise!Ended
  <2> QED BY <1>5, <1>7, <2>2 DEF Promise!Acted
<1>9. CASE ~Complete'
  <2>1. Live' BY <1>6, <1>9 DEF Live, Complete
  <2>2. Cardinality(Seats \ fold) >= 2 /\ ~(Seats \subseteq ai) /\ toAct' \in Seats
    <3>1. /\ ~RoundComplete(inRound', fold, ai, acted', committed', currentBet')
          /\ inRound' \in SUBSET Seats /\ toAct' \in Seats
      BY <1>1, <1>6, <2>1 DEF HandInv, NeverStalls, TypeOK
    <3> QED BY <3>1, OpenHand
  <2>3. HandSeen' = [over |-> FALSE, dealt |-> Seats, brought |-> initial,
                     out |-> fold, allIn |-> ai, actor |-> toAct']
    BY <1>6, <2>1 DEF HandSeen, Complete, Live
  <2>4. toAct' \notin fold \cup ai
    BY <1>3, <1>6, <2>1, <1>1 DEF Plays, Resolve, FirstFrom, Settle, Finish, OpenRound, HandInv,
       ActorHasChips, NextStreet, Live
  <2>5. HandSeen' \in Promise!GoesOn(HandSeen, fold, ai)
    <3> DEFINE actors == Seats \ (fold \cup ai)
    <3>1. toAct' \in actors BY <2>2, <2>4
    <3> HIDE DEF actors
    <3>2. HandSeen' \in Promise!Ongoing(initial, fold, ai, actors)
      BY <1>6, <2>2, <2>3, <3>1, SameCardinality DEF Promise!Ongoing
    <3> QED BY <1>5, <3>2 DEF Promise!GoesOn, actors
  <2>6. HandSeen'.over = FALSE BY <2>3
  <2> QED BY <1>5, <1>7, <2>5, <2>6 DEF Promise!Acted
<1> QED BY <1>8, <1>9

LEMMA PartOfSum ==
  ASSUME NEW S, IsFiniteSet(S), NEW f, \A x \in S : f[x] \in Nat, NEW x \in S
  PROVE  f[x] <= SumFunctionOnSet(f, S) /\ SumFunctionOnSet(f, S) \in Nat
<1>1. SumFunctionOnSet(f, S) = f[x] + SumFunctionOnSet(f, S \ {x}) BY SumOut
<1>2. IsFiniteSet(S \ {x}) BY FS_RemoveElement
<1>3. SumFunctionOnSet(f, S \ {x}) \in Nat BY <1>2, SumNat
<1>4. f[x] \in Nat OBVIOUS
<1> QED BY <1>1, <1>3, <1>4

(* Of the live players one with the best hand is paid something, if it put *)
(* anything in.                                                            *)
LEMMA BestIsPaid ==
  ASSUME NEW c \in [Seats -> Nat], NEW fold, NEW rank \in [Seats -> Nat], NEW p \in Seats,
         p \notin fold, \A q \in Seats \ fold : rank[q] <= rank[p], c[p] > 0
  PROVE  Payouts(c, fold, rank)[p] > 0
<1> DEFINE e == Called(c)
           l == e[p]
           pot == KeyOf(c, fold)[l]
           P == Pots(c, fold)
           f == SharesIn(P, rank, p)
           r == Refunds(c)[p]
           W == Winners(pot.eligible, rank)
           k == Cardinality(W)
<1>1. e \in [Seats -> Nat] /\ l \in Nat /\ r \in Nat /\ r = c[p] - l /\ c[p] \in Nat
  BY CalledIs
<1>2. Payouts(c, fold, rank)[p] = r + SumFunctionOnSet(f, P) BY PayoutsAre
<1>3. IsFiniteSet(P) /\ \A x \in P : f[x] \in Nat /\ f[x] = Share(x, rank, p)
  BY PotsAre, SharesComeFrom
<1>4. SumFunctionOnSet(f, P) \in Nat
  <2> HIDE DEF f, P
  <2> QED BY <1>3, SumNat
<1>5. CASE l = 0
  <2> HIDE DEF f, P, e
  <2> QED BY <1>1, <1>2, <1>4, <1>5
<1>6. CASE l # 0
  <2>1. l \in LayerLevels(e) BY <1>1, <1>6, LevelsAre
  <2>2. pot \in P /\ pot.eligible = Eligible(e, fold, l) /\ pot = PotFor(e, fold, pot.eligible)
        /\ pot.eligible \subseteq Seats \ fold /\ pot.amount \in Nat
    BY <2>1, PotsAre
  <2>3. p \in W
    <3>1. p \in pot.eligible BY <1>1, <2>2 DEF Eligible, Contributors
    <3> QED BY <2>2, <3>1 DEF Winners
  <2>4. W \in SUBSET Contributors(e, l) BY <2>2 DEF Winners, Eligible
  <2>5. /\ IsFiniteSet(W) /\ k \in Nat /\ k >= 1 /\ k <= Cardinality(Contributors(e, l))
        /\ Cardinality(Contributors(e, l)) \in Nat
    <3>1. IsFiniteSet(Contributors(e, l)) /\ Cardinality(Contributors(e, l)) \in Nat
      BY <1>1, <2>1, LayersType
    <3>2. IsFiniteSet(W) /\ k \in Nat /\ k <= Cardinality(Contributors(e, l))
      BY <2>4, <3>1, FS_Subset, FS_CardinalityType
    <3>3. k # 0 BY <2>3, <3>2, FS_EmptySet
    <3> QED BY <3>1, <3>2, <3>3
  <2>6. pot.amount >= Cardinality(Contributors(e, l))
    <3> DEFINE ls == {j \in LayerLevels(e) : Eligible(e, fold, j) = pot.eligible}
               L == Layers(e)
               E == pot.eligible
    <3>1. PotFor(e, fold, E).amount = SumFunctionOnSet(L, ls)
      BY <1>1, PotHolds
    <3>2. IsFiniteSet(ls) /\ l \in ls /\ \A j \in ls : L[j] \in Nat
      BY <1>1, <2>1, <2>2, LevelsAre, FS_Subset, LayersType
    <3>3. L[l] >= Cardinality(Contributors(e, l)) /\ L[l] \in Nat BY <1>1, <2>1, LayersType
    <3>4. pot.amount = PotFor(e, fold, E).amount BY <2>2
    <3> HIDE DEF L, ls, e, pot, E
    <3>5. L[l] <= SumFunctionOnSet(L, ls) /\ SumFunctionOnSet(L, ls) \in Nat
      BY <3>2, PartOfSum
    <3> QED BY <2>5, <3>1, <3>3, <3>4, <3>5
  <2> DEFINE a == pot.amount
  <2>7. a \div k \in Nat /\ a = k * (a \div k) + (a % k) /\ a % k \in 0..k - 1
    BY <2>2, <2>5, DivisionIs
  <2>8. a >= k BY <2>2, <2>5, <2>6
  <2>9. a \div k >= 1
    <3> DEFINE q == a \div k
               m == a % k
    <3>1. q \in Nat /\ a = k * q + m /\ m \in 0..k - 1 /\ a >= k /\ k \in Nat BY <2>5, <2>7, <2>8
    <3> HIDE DEF q, m, a, k
    <3>2. SUFFICES ASSUME q = 0 PROVE FALSE
      BY <3>1 DEF q
    <3>3. k * q = 0 BY <3>1, <3>2
    <3> QED BY <3>1, <3>3
  <2>10. f[pot] >= 1
    <3>1. Share(pot, rank, p) = a \div k + (IF Cardinality(AheadOf(W, p)) < OddChips(a, k) THEN 1 ELSE 0)
      BY <2>3 DEF Share
    <3>2. f[pot] = Share(pot, rank, p) BY <1>3, <2>2
    <3> HIDE DEF f, a, k, W, pot
    <3> QED BY <2>7, <2>9, <3>1, <3>2
  <2>11. f[pot] <= SumFunctionOnSet(f, P) /\ f[pot] \in Nat
    <3>1. pot \in P /\ f[pot] \in Nat /\ \A x \in P : f[x] \in Nat BY <1>3, <2>2
    <3> HIDE DEF f, P, pot
    <3> QED BY <1>3, <3>1, PartOfSum
  <2> HIDE DEF f, P, pot, e
  <2> QED BY <1>1, <1>2, <1>4, <2>10, <2>11
<1> QED BY <1>5, <1>6

-----------------------------------------------------------------------------
(* The stacks a hand ends with. *)

LEMMA ChipsAre == \A c : Promise!Chips(c) = SumFunctionOnSet([p \in DOMAIN c |-> c[p]], DOMAIN c)
  BY DEF Promise!Chips, Promise!MapThenSumSet, Promise!MapThenFoldSet,
         SumFunctionOnSet, FoldFunctionOnSet, MapThenFoldSet

LEMMA CoveredIs ==
  \A c, p : Promise!Covered(c, p) =
    SumFunctionOnSet([q \in DOMAIN c |-> IF c[q] <= c[p] THEN c[q] ELSE c[p]], DOMAIN c)
  BY ZenonT(60) DEF Promise!Covered, Promise!MapThenSumSet, Promise!MapThenFoldSet,
         SumFunctionOnSet, FoldFunctionOnSet, MapThenFoldSet

LEMMA ChipsAdd ==
  ASSUME NEW c \in [Seats -> Nat]
  PROVE  Promise!Chips(c) = SumFunctionOnSet(c, Seats)
<1>1. DOMAIN c = Seats /\ c = [p \in DOMAIN c |-> c[p]] OBVIOUS
<1> QED BY <1>1, ChipsAre

(* What a player kept and what it can win is within what it could cover.   *)
LEMMA WinnableIsCovered ==
  ASSUME NEW c \in [Seats -> Nat], NEW brought \in [Seats -> Nat], NEW behind \in [Seats -> Nat],
         \A s \in Seats : behind[s] + c[s] = brought[s], NEW p \in Seats
  PROVE  behind[p] + Winnable(c, p) <= Promise!Covered(brought, p)
<1> DEFINE m == Matching(c, c[p])
           n == [s \in Seats |-> IF s = p THEN brought[p] ELSE m[s]]
           g == [q \in Seats |-> IF brought[q] <= brought[p] THEN brought[q] ELSE brought[p]]
<1>1. m \in [Seats -> Nat] /\ SumFunctionOnSet(m, Seats) \in Nat
  <2>1. c[p] \in Nat OBVIOUS
  <2> QED BY <2>1, MatchingType
<1>2. \A s \in Seats : m[s] = Lesser(c[s], c[p]) BY DEF Matching
<1>3. behind[p] \in Nat /\ c[p] \in Nat /\ brought[p] \in Nat /\ behind[p] + c[p] = brought[p] OBVIOUS
<1>4. m[p] = c[p] BY <1>2, <1>3 DEF Lesser
<1>5. n[p] = brought[p] /\ \A s \in Seats : m[s] \in Int /\ n[s] \in Int /\ (s # p => m[s] = n[s])
  BY <1>1, <1>3
<1>6. \A s \in Seats : n[s] \in Int /\ g[s] \in Int /\ n[s] <= g[s]
  <2> TAKE s \in Seats
  <2>1. c[s] \in Nat /\ brought[s] \in Nat /\ behind[s] \in Nat /\ behind[s] + c[s] = brought[s] OBVIOUS
  <2>2. g[s] = IF brought[s] <= brought[p] THEN brought[s] ELSE brought[p] OBVIOUS
  <2>3. n[s] = IF s = p THEN brought[p] ELSE Lesser(c[s], c[p]) BY <1>2
  <2> HIDE DEF m, n, g
  <2> QED BY <1>3, <2>1, <2>2, <2>3 DEF Lesser
<1>7. Promise!Covered(brought, p) = SumFunctionOnSet(g, Seats)
  <2>1. DOMAIN brought = Seats OBVIOUS
  <2> QED BY <2>1, CoveredIs
<1>8. Winnable(c, p) = SumFunctionOnSet(m, Seats) BY DEF Winnable
<1>9. IsFiniteSet(Seats) BY SeatsAreFinite
<1> HIDE DEF m, n, g
<1>10. SumFunctionOnSet(n, Seats) = SumFunctionOnSet(m, Seats) - m[p] + n[p]
  <2>1. \A s \in Seats : m[s] \in Int /\ n[s] \in Int /\ (s # p => m[s] = n[s]) BY <1>5
  <2>2. IsFiniteSet(Seats) BY <1>9
  <2> QED BY ONLY <2>1, <2>2, p \in Seats, SumChange
<1>11. SumFunctionOnSet(n, Seats) <= SumFunctionOnSet(g, Seats) BY <1>6, <1>9, SumMonotonic
<1>12. SumFunctionOnSet(g, Seats) \in Int
  <2>1. \A s \in Seats : g[s] \in Int BY <1>6
  <2> QED BY <1>9, <2>1, SumType
<1> QED BY <1>1, <1>3, <1>4, <1>5, <1>7, <1>8, <1>10, <1>11, <1>12

LEMMA HandPaysOut ==
  ASSUME TurnInv, Complete
  PROVE  FinalStacks \in Promise!Finals(initial, folded, allIn)
<1> DEFINE c == contrib
           pay == payouts
           f == FinalStacks
           total == Promise!Chips(initial)
           live == Seats \ folded
           orphaned == Orphaned(contrib, folded)
<1>1. HandInv /\ TypeOK BY DEF TurnInv, HandInv
<1>2. /\ pay = Payouts(c, folded, strength)
      /\ c \in [Seats -> Nat] /\ strength \in [Seats -> Nat] /\ folded \subseteq Seats
  BY <1>1, CompleteAward
<1>3. pay \in [Seats -> Nat] /\ orphaned \in Nat /\ Total(pay) + orphaned = Total(c)
  BY <1>2, AwardAddsUp
<1>4. stack \in [Seats -> Nat] /\ initial \in [Seats -> Nat] /\ \A s \in Seats : initial[s] > 0
  <2>1. initial \in [Seats -> Stacks] /\ stack \in [Seats -> Nat] BY <1>1 DEF TypeOK
  <2>2. \A s \in Seats : initial[s] \in Nat /\ initial[s] # 0 BY <2>1, StacksAssumption
  <2> QED BY <2>1, <2>2
<1>5. \A s \in Seats : stack[s] + c[s] = initial[s]
  <2> TAKE s \in Seats
  <2>1. committed[s] = 0 BY DEF TurnInv, Nobody
  <2>2. stack[s] + committed[s] + contrib[s] = initial[s] BY <1>1 DEF HandInv, ChipsAccounted
  <2>3. stack[s] \in Nat /\ contrib[s] \in Nat BY <1>2, <1>4
  <2> QED BY <2>1, <2>2, <2>3
<1>6. f \in [Seats -> Nat] /\ \A s \in Seats : f[s] = stack[s] + pay[s] BY <1>3, <1>4 DEF FinalStacks
<1>7. allIn = {s \in Seats : stack[s] = 0}
  BY <1>1 DEF HandInv, AllInMeansBroke, Complete
<1>8. /\ \A p \in Seats : pay[p] <= Winnable(c, p) /\ Winnable(c, p) \in Nat /\ Winnable(c, p) >= c[p]
      /\ \A p \in Seats : p \in folded => pay[p] = Refunds(c)[p]
      /\ \A p \in live : Best(folded, strength, p) => pay[p] = Winnable(c, p)
  BY <1>2, PayoutsWithin, WinnableIs
<1>9. \A p \in Seats : Refunds(c)[p] <= c[p]
  <2> TAKE p \in Seats
  <2>1. c[p] \in Nat /\ Called(c)[p] \in Nat /\ Refunds(c)[p] = c[p] - Called(c)[p] BY <1>2, CalledIs
  <2> QED BY <2>1
<1>10. total = SumFunctionOnSet(initial, Seats) /\ Promise!Chips(f) = SumFunctionOnSet(f, Seats)
  <2> HIDE DEF f
  <2> QED BY <1>4, <1>6, ChipsAdd
<1>11. SumFunctionOnSet(f, Seats) + orphaned = total
  <2>1. IsFiniteSet(Seats) BY SeatsAreFinite
  <2>2. \A s \in Seats : stack[s] \in Int /\ pay[s] \in Int /\ f[s] = stack[s] + pay[s] BY <1>3, <1>4, <1>6
  <2>3. \A s \in Seats : stack[s] \in Int /\ c[s] \in Int /\ initial[s] = stack[s] + c[s] BY <1>2, <1>4, <1>5
  <2>4. Total(pay) = SumFunctionOnSet(pay, Seats) /\ Total(c) = SumFunctionOnSet(c, Seats)
    <3>1. pay \in [Seats -> Int] /\ c \in [Seats -> Int] BY <1>2, <1>3
    <3> HIDE DEF pay, c
    <3> QED BY <3>1, TotalAdds
  <2>5. \A s \in Seats : stack[s] \in Int /\ pay[s] \in Int /\ c[s] \in Int BY <2>2, <2>3
  <2> HIDE DEF f, pay, c, orphaned, total
  <2>6. SumFunctionOnSet(f, Seats) = SumFunctionOnSet(stack, Seats) + SumFunctionOnSet(pay, Seats)
    BY <2>1, <2>2, SumAdd
  <2>7. SumFunctionOnSet(initial, Seats) = SumFunctionOnSet(stack, Seats) + SumFunctionOnSet(c, Seats)
    BY <2>1, <2>3, SumAdd
  <2>8. SumFunctionOnSet(stack, Seats) \in Int /\ SumFunctionOnSet(pay, Seats) \in Int
        /\ SumFunctionOnSet(c, Seats) \in Int
    BY <2>1, <2>5, SumType
  <2> QED BY <1>3, <1>10, <2>4, <2>6, <2>7, <2>8
<1>12. \A p \in Seats : f[p] <= SumFunctionOnSet(f, Seats) /\ SumFunctionOnSet(f, Seats) \in Nat
  <2> TAKE p \in Seats
  <2>1. IsFiniteSet(Seats) /\ \A s \in Seats : f[s] \in Nat BY <1>6, SeatsAreFinite
  <2> HIDE DEF f
  <2> QED BY <2>1, PartOfSum
<1>13. f \in [Seats -> 0..total]
  <2>1. \A p \in Seats : f[p] \in Nat /\ total \in Nat /\ f[p] <= total
    <3> TAKE p \in Seats
    <3>1. f[p] \in Nat BY <1>6
    <3> HIDE DEF f, total, orphaned
    <3> QED BY <1>3, <1>11, <1>12, <3>1
  <2>2. DOMAIN f = Seats /\ f = [s \in Seats |-> f[s]] BY <1>6
  <2> HIDE DEF f, total
  <2>3. \A p \in Seats : f[p] \in 0..total BY <2>1
  <2> QED BY <2>2, <2>3
<1>14. ASSUME NEW p \in Seats
       PROVE  f[p] <= IF p \in folded THEN initial[p] ELSE Promise!Covered(initial, p)
  <2>1. /\ f[p] = stack[p] + pay[p] /\ stack[p] + c[p] = initial[p] /\ stack[p] \in Nat
        /\ pay[p] \in Nat /\ c[p] \in Nat
    BY <1>2, <1>3, <1>4, <1>5, <1>6
  <2>2. CASE p \in folded
    <3>1. pay[p] <= c[p] BY <1>8, <1>9, <2>2
    <3> HIDE DEF f, pay, c
    <3>2. f[p] <= initial[p] BY <2>1, <3>1
    <3> QED BY <2>2, <3>2
  <2>3. CASE p \notin folded
    <3> DEFINE covered == Promise!Covered(initial, p)
    <3>1. stack[p] + Winnable(c, p) <= covered BY <1>2, <1>4, <1>5, WinnableIsCovered
    <3>2. covered \in Int
      <4> DEFINE g == [q \in Seats |-> IF initial[q] <= initial[p] THEN initial[q] ELSE initial[p]]
      <4>1. covered = SumFunctionOnSet(g, Seats)
        <5>1. DOMAIN initial = Seats BY <1>4
        <5> QED BY <5>1, CoveredIs
      <4>2. IsFiniteSet(Seats) /\ \A q \in Seats : g[q] \in Int BY <1>4, SeatsAreFinite
      <4> HIDE DEF g, covered
      <4> QED BY <4>1, <4>2, SumType
    <3>3. pay[p] <= Winnable(c, p) /\ Winnable(c, p) \in Nat BY <1>8
    <3> HIDE DEF f, pay, c, covered
    <3>4. f[p] <= covered BY <2>1, <3>1, <3>2, <3>3
    <3> QED BY <2>3, <3>4 DEF covered
  <2> QED BY <2>2, <2>3
<1>15. ASSUME NEW p \in Seats
       PROVE  (IF live = {p} THEN initial[p] ELSE IF p \in allIn THEN 0 ELSE 1) <= f[p]
  <2>1. /\ f[p] = stack[p] + pay[p] /\ stack[p] + c[p] = initial[p] /\ stack[p] \in Nat
        /\ pay[p] \in Nat /\ c[p] \in Nat
    BY <1>2, <1>3, <1>4, <1>5, <1>6
  <2>2. CASE live = {p}
    <3>1. Best(folded, strength, p) BY <2>2 DEF Best
    <3>2. pay[p] >= c[p] BY <1>8, <2>2, <3>1
    <3> HIDE DEF f, pay, c, live
    <3> QED BY <2>1, <2>2, <3>2
  <2>3. CASE live # {p}
    <3>1. p \notin allIn => stack[p] # 0 BY <1>7
    <3> HIDE DEF f, pay, c, live
    <3> QED BY <2>1, <2>3, <3>1
  <2> QED BY <2>2, <2>3
<1>16. \E p \in live : f[p] > 0
  <2>1. PICK p \in live : \A q \in live : strength[q] <= strength[p]
    <3>1. live \in SUBSET Seats /\ live # {} BY DEF TurnInv
    <3> HIDE DEF live
    <3> QED BY <1>2, <3>1, LargestOf
  <2>2. /\ f[p] = stack[p] + pay[p] /\ stack[p] + c[p] = initial[p] /\ stack[p] \in Nat
        /\ pay[p] \in Nat /\ c[p] \in Nat /\ initial[p] > 0
    BY <1>2, <1>3, <1>4, <1>5, <1>6
  <2>3. c[p] > 0 => pay[p] > 0 BY <1>2, <2>1, BestIsPaid
  <2>4. f[p] > 0
    <3> HIDE DEF f, pay, c
    <3> QED BY <2>2, <2>3
  <2> QED BY <2>4
<1>17. orphaned = 0 \/ \E p \in live \cap allIn : initial[p] < SmallBlind
  <2>1. PICK h \in live : Covers(h) BY DEF TurnInv, Kept
  <2>2. CASE c[h] >= SecondLargest(c) BY <1>2, <2>1, <2>2, NoOrphans
  <2> QED BY <2>1, <2>2 DEF Covers
<1>18. LET paid == Promise!Chips(f)
       IN paid = total \/ ((\E p \in live \cap allIn : initial[p] < SmallBlind) /\ paid < total)
  <2> DEFINE lossy == \E p \in live \cap allIn : initial[p] < SmallBlind
             paid == Promise!Chips(f)
  <2>1. SumFunctionOnSet(f, Seats) \in Nat
    <3>1. 1 \in Seats BY NAssumption DEF Seats
    <3> QED BY <1>12, <3>1
  <2>2. paid = SumFunctionOnSet(f, Seats) BY <1>10
  <2>3. orphaned = 0 \/ lossy BY <1>17
  <2> HIDE DEF lossy, f, total, orphaned, paid
  <2>4. paid = total \/ (lossy /\ paid < total) BY <1>3, <1>11, <2>1, <2>2, <2>3
  <2> QED BY <2>4 DEF lossy, paid
<1>19. DOMAIN initial = Seats BY <1>4
<1> HIDE DEF f, total
<1>20. f \in Promise!Finals(initial, folded, allIn)
  BY <1>13, <1>14, <1>15, <1>16, <1>18, <1>19 DEF Promise!Finals, Promise!Most, total
<1> QED BY <1>20 DEF f

-----------------------------------------------------------------------------
(* The engine implements the contract its callers rely on.                 *)
THEOREM KeepsPromise == Spec => HandKeepsPromise
<1>1. Init => HandSeen = Promise!NoHand
  BY SeenIs DEF Init, Promise!NoHand
<1>2. ASSUME TurnInv, [Next]_vars
      PROVE  [Promise!Dealt(HandSeen, HandSeen') \/ Promise!Acted(HandSeen, HandSeen')]_HandSeen
  <2>1. CASE Deal BY <1>2, <2>1, DealtIs
  <2>2. CASE \E p \in Seats : Act(p) BY <1>2, <2>2, ActedIs
  <2>3. CASE UNCHANGED vars
    <3>1. HandSeen' = HandSeen BY <2>3 DEF vars, betting, HandSeen, Complete
    <3> QED BY <3>1
  <2> QED BY <1>2, <2>1, <2>2, <2>3 DEF Next, Done
<1>3. ASSUME TurnInv
      PROVE  Promise!PaidOut
  <2>1. CASE Complete
    <3>1. HandSeen.brought = initial /\ HandSeen.out = folded /\ HandSeen.allIn = allIn
      BY <2>1, SeenIs
    <3> QED BY <1>3, <2>1, <3>1, HandPaysOut DEF Promise!PaidOut
  <2>2. CASE Live
    <3>1. ~HandSeen.over BY <2>2, SeenIs
    <3> QED BY <3>1 DEF Promise!PaidOut
  <2>3. CASE ~Live /\ ~Complete
    <3>1. HandSeen = Promise!NoHand BY <2>3, SeenIs DEF Promise!NoHand
    <3> QED BY <3>1 DEF Promise!PaidOut
  <2> QED BY <2>1, <2>2, <2>3
<1> QED BY <1>1, <1>2, <1>3, TurnsAreInOrder, PTL DEF Spec, HandKeepsPromise, Promise!HandSpec

-----------------------------------------------------------------------------
(* An award of any contributions, folds and strengths. *)

AwardInv ==
  /\ contributions \in [Seats -> 0..MaxChips] /\ foldedIds \subseteq Seats
  /\ strengths \in [Seats -> 1..MaxRank]
  /\ Awarded => paidOut = Payouts(contributions, foldedIds, strengths)

LEMMA AwardInvHolds == AwardSpec => []AwardInv
<1>1. AwardInit => AwardInv BY DEF AwardInit, AwardInv, Awarded
<1>2. AwardInv /\ [Award]_awardVars => AwardInv'
  <2>1. CASE Award BY <2>1 DEF Award, AwardInv, Awarded
  <2>2. CASE UNCHANGED awardVars BY <2>2 DEF awardVars, AwardInv, Awarded, Unpaid
  <2> QED BY <2>1, <2>2
<1> QED BY <1>1, <1>2, PTL DEF AwardSpec

LEMMA AwardIsOf ==
  ASSUME AwardInv
  PROVE  contributions \in [Seats -> Nat] /\ strengths \in [Seats -> Nat]
<1>1. 0..MaxChips \subseteq Nat /\ 1..MaxRank \subseteq Nat BY BoundsAssumption
<1> QED BY <1>1 DEF AwardInv

(* An award creates no chips, and keeps back only those nobody is live for.*)
THEOREM AwardPaysOut == AwardSpec => []PaidOrOrphaned
<1>1. AwardInv => PaidOrOrphaned
  <2>1. SUFFICES ASSUME AwardInv, Awarded
                 PROVE  Total(paidOut) + Orphaned(contributions, foldedIds) = Total(contributions)
    BY DEF PaidOrOrphaned
  <2>2. paidOut = Payouts(contributions, foldedIds, strengths) BY <2>1 DEF AwardInv
  <2> QED BY <2>1, <2>2, AwardIsOf, AwardAddsUp
<1> QED BY <1>1, AwardInvHolds, PTL

-----------------------------------------------------------------------------
(* Equal hands. *)

(* Whoever is in every pot the other is in, with as good a hand, is paid   *)
(* as much of it, but for an odd chip.                                     *)
LEMMA SharesOfEquals ==
  ASSUME NEW pot, PotOK(pot), NEW rank \in [Seats -> Nat], NEW p \in Seats, NEW q \in Seats,
         q \in pot.eligible => p \in pot.eligible, rank[p] = rank[q]
  PROVE  /\ Share(pot, rank, q) <= Share(pot, rank, p) + 1
         /\ p < q => Share(pot, rank, q) <= Share(pot, rank, p)
         /\ p < q /\ (p \in pot.eligible => q \in pot.eligible) =>
              Share(pot, rank, p) <= Share(pot, rank, q) + 1
<1> DEFINE W == Winners(pot.eligible, rank)
           k == Cardinality(W)
           a == pot.amount
           odd(s) == IF Cardinality(AheadOf(W, s)) < a % k THEN 1 ELSE 0
<1>1. \A s \in Seats : Share(pot, rank, s) \in Nat BY SharesAre
<1>2. /\ \A s \in Seats : s \notin W => Share(pot, rank, s) = 0
      /\ \A s \in W : Share(pot, rank, s) = a \div k + odd(s)
  BY DEF Share, OddChips
<1>3. q \in W => p \in W
  <2>1. \A s \in pot.eligible : rank[s] \in Nat BY DEF PotOK
  <2> QED BY <2>1 DEF Winners
<1>4. (p \in pot.eligible => q \in pot.eligible) => (p \in W => q \in W)
  <2>1. \A s \in pot.eligible : rank[s] \in Nat BY DEF PotOK
  <2> QED BY <2>1 DEF Winners
<1>5. W \subseteq Seats /\ IsFiniteSet(W) /\ k \in Nat /\ a \in Nat
  <2>1. W \in SUBSET Seats BY DEF Winners, PotOK
  <2> QED BY <2>1, SeatsAreFinite, FS_Subset, FS_CardinalityType DEF PotOK
<1>6. CASE q \notin W
  <2>1. Share(pot, rank, q) = 0 BY <1>2, <1>6
  <2>2. (p \in pot.eligible => q \in pot.eligible) => Share(pot, rank, p) = 0 BY <1>2, <1>4, <1>6
  <2> QED BY <1>1, <2>1, <2>2
<1>7. CASE q \in W
  <2>1. p \in W BY <1>3, <1>7
  <2>2. k >= 1
    <3>1. k # 0 BY <1>5, <1>7, FS_EmptySet
    <3> QED BY <1>5, <3>1
  <2>3. a \div k \in Nat /\ a % k \in 0..k - 1 BY <1>5, <2>2, DivisionIs
  <2>4. p < q => Cardinality(AheadOf(W, p)) <= Cardinality(AheadOf(W, q))
    <3>1. p \in Nat /\ q \in Nat /\ \A t \in W : t \in Nat BY <1>5, SeatsAreFinite
    <3>2. p < q => AheadOf(W, p) \in SUBSET AheadOf(W, q) BY <3>1 DEF AheadOf
    <3>3. IsFiniteSet(AheadOf(W, q))
      <4>1. AheadOf(W, q) \in SUBSET W BY DEF AheadOf
      <4> QED BY <1>5, <4>1, FS_Subset
    <3> QED BY <3>2, <3>3, FS_Subset
  <2>5. Cardinality(AheadOf(W, p)) \in Nat /\ Cardinality(AheadOf(W, q)) \in Nat
    <3>1. AheadOf(W, p) \in SUBSET W /\ AheadOf(W, q) \in SUBSET W BY DEF AheadOf
    <3> QED BY <1>5, <3>1, FS_Subset, FS_CardinalityType
  <2>6. Share(pot, rank, p) = a \div k + odd(p) /\ Share(pot, rank, q) = a \div k + odd(q)
    BY <1>2, <1>7, <2>1
  <2>7. odd(p) \in 0..1 /\ odd(q) \in 0..1 /\ (p < q => odd(q) <= odd(p))
    BY <2>3, <2>4, <2>5
  <2> HIDE DEF odd, k, a
  <2> QED BY <2>3, <2>6, <2>7
<1> QED BY <1>6, <1>7

(* A sum whose terms are at most one more each.                            *)
LEMMA SumOneMore ==
  ASSUME NEW S, IsFiniteSet(S), NEW f, NEW g,
         \A x \in S : f[x] \in Nat /\ g[x] \in Nat /\ f[x] <= g[x] + 1
  PROVE  SumFunctionOnSet(f, S) <= SumFunctionOnSet(g, S) + Cardinality(S)
<1> DEFINE one == [x \in S |-> 1]
           more == [x \in S |-> g[x] + 1]
<1>1. SumFunctionOnSet(one, S) = 1 * Cardinality(S)
  <2>1. \A x \in S : one[x] = 1 OBVIOUS
  <2> HIDE DEF one
  <2> QED BY <2>1, SumConstant
<1>2. SumFunctionOnSet(more, S) = SumFunctionOnSet(g, S) + SumFunctionOnSet(one, S)
  <2>1. \A x \in S : g[x] \in Int /\ one[x] \in Int /\ more[x] = g[x] + one[x] OBVIOUS
  <2> HIDE DEF one, more
  <2> QED BY <2>1, SumAdd
<1>3. SumFunctionOnSet(f, S) <= SumFunctionOnSet(more, S)
  <2>1. \A x \in S : f[x] \in Int /\ more[x] \in Int /\ f[x] <= more[x] OBVIOUS
  <2> HIDE DEF more
  <2> QED BY <2>1, SumMonotonic
<1>4. Cardinality(S) \in Nat BY FS_CardinalityType
<1>5. 1 * Cardinality(S) = Cardinality(S) BY <1>4
<1> QED BY <1>1, <1>2, <1>3, <1>5

(* Of two live players the one with more called is in every pot of the     *)
(* other.                                                                  *)
LEMMA EligibleByCall ==
  ASSUME NEW c \in [Seats -> Nat], NEW fold, NEW p \in Seats \ fold, NEW q \in Seats \ fold,
         Called(c)[p] >= Called(c)[q], NEW pot \in Pots(c, fold), q \in pot.eligible
  PROVE  p \in pot.eligible
<1>1. PICK l \in LayerLevels(Called(c)) : pot = KeyOf(c, fold)[l] BY PotsAre
<1>2. pot.eligible = Eligible(Called(c), fold, l) BY <1>1, PotsAre
<1>3. Called(c)[p] \in Nat /\ Called(c)[q] \in Nat /\ l \in Nat BY CalledIs, LevelsAre
<1> QED BY <1>2, <1>3 DEF Eligible, Contributors

LEMMA PayoutsOfEquals ==
  ASSUME NEW c \in [Seats -> Nat], NEW fold, NEW rank \in [Seats -> Nat],
         NEW p \in Seats \ fold, NEW q \in Seats \ fold, rank[p] = rank[q]
  PROVE  LET paid == Payouts(c, fold, rank)
             n    == Cardinality(Pots(c, fold))
         IN /\ n \in Nat /\ paid[p] \in Nat /\ paid[q] \in Nat
            /\ c[p] > c[q] => paid[p] + n >= paid[q]
            /\ c[p] = c[q] /\ p < q => paid[p] >= paid[q] /\ paid[p] <= paid[q] + n
<1> DEFINE P == Pots(c, fold)
           paid == Payouts(c, fold, rank)
           fp == SharesIn(P, rank, p)
           fq == SharesIn(P, rank, q)
           e == Called(c)
           rp == Refunds(c)[p]
           rq == Refunds(c)[q]
<1>1. IsFiniteSet(P) /\ Cardinality(P) \in Nat BY PotsAre, FS_CardinalityType
<1>2. \A pot \in P : /\ PotOK(pot) /\ fp[pot] \in Nat /\ fq[pot] \in Nat
                     /\ fp[pot] = Share(pot, rank, p) /\ fq[pot] = Share(pot, rank, q)
  BY SharesComeFrom
<1>3. paid[p] = rp + SumFunctionOnSet(fp, P) /\ paid[q] = rq + SumFunctionOnSet(fq, P)
  BY PayoutsAre
<1>4. c[p] \in Nat /\ c[q] \in Nat /\ e[p] \in Nat /\ e[q] \in Nat /\ rp \in Nat /\ rq \in Nat
  BY CalledIs
<1>5. c[p] >= c[q] /\ p # q => rq = 0 /\ e[p] >= e[q]
  <2>1. SUFFICES ASSUME c[p] >= c[q], p # q PROVE rq = 0 /\ e[p] >= e[q]
    OBVIOUS
  <2>2. SecondLargest(c) \in Nat /\ (c[p] <= SecondLargest(c) \/ c[q] <= SecondLargest(c))
    BY <2>1, SecondIs
  <2>3. /\ e[p] = Lesser(c[p], SecondLargest(c)) /\ e[q] = Lesser(c[q], SecondLargest(c))
        /\ rq = c[q] - e[q]
    BY CalledIs
  <2> HIDE DEF e, rq
  <2> QED BY <1>4, <2>1, <2>2, <2>3 DEF Lesser
<1>6. c[p] = c[q] => rp = rq /\ e[p] = e[q] BY CalledIs
<1>7. ASSUME e[p] >= e[q], NEW pot \in P PROVE q \in pot.eligible => p \in pot.eligible
  BY <1>4, <1>7, EligibleByCall
<1>8. ASSUME e[p] <= e[q], NEW pot \in P PROVE p \in pot.eligible => q \in pot.eligible
  BY <1>4, <1>8, EligibleByCall
<1>9. SumFunctionOnSet(fp, P) \in Nat /\ SumFunctionOnSet(fq, P) \in Nat
  <2> HIDE DEF P, fp, fq
  <2> QED BY <1>1, <1>2, SumNat
<1>10. c[p] >= c[q] /\ p # q => SumFunctionOnSet(fq, P) <= SumFunctionOnSet(fp, P) + Cardinality(P)
  <2>1. SUFFICES ASSUME c[p] >= c[q], p # q
                 PROVE  SumFunctionOnSet(fq, P) <= SumFunctionOnSet(fp, P) + Cardinality(P)
    OBVIOUS
  <2>2. \A pot \in P : fq[pot] \in Nat /\ fp[pot] \in Nat /\ fq[pot] <= fp[pot] + 1
    BY <1>2, <1>5, <1>7, <2>1, SharesOfEquals
  <2> HIDE DEF P, fp, fq
  <2> QED BY <1>1, <2>2, SumOneMore
<1>11. c[p] = c[q] /\ p < q => /\ SumFunctionOnSet(fq, P) <= SumFunctionOnSet(fp, P)
                               /\ SumFunctionOnSet(fp, P) <= SumFunctionOnSet(fq, P) + Cardinality(P)
  <2>1. SUFFICES ASSUME c[p] = c[q], p < q
                 PROVE  /\ SumFunctionOnSet(fq, P) <= SumFunctionOnSet(fp, P)
                        /\ SumFunctionOnSet(fp, P) <= SumFunctionOnSet(fq, P) + Cardinality(P)
    OBVIOUS
  <2>2. e[p] >= e[q] /\ e[p] <= e[q] BY <1>4, <1>6, <2>1
  <2>3. \A pot \in P : /\ fq[pot] \in Nat /\ fp[pot] \in Nat /\ fq[pot] \in Int /\ fp[pot] \in Int
                       /\ fq[pot] <= fp[pot] /\ fp[pot] <= fq[pot] + 1
    BY <1>2, <1>7, <1>8, <2>1, <2>2, SharesOfEquals
  <2> HIDE DEF P, fp, fq
  <2>4. SumFunctionOnSet(fq, P) <= SumFunctionOnSet(fp, P) BY <1>1, <2>3, SumMonotonic
  <2>5. SumFunctionOnSet(fp, P) <= SumFunctionOnSet(fq, P) + Cardinality(P) BY <1>1, <2>3, SumOneMore
  <2> QED BY <2>4, <2>5
<1>12. p \in Nat /\ q \in Nat BY SeatsAreFinite
<1> DEFINE sp == SumFunctionOnSet(fp, P)
           sq == SumFunctionOnSet(fq, P)
           n == Cardinality(P)
<1>13. p < q => p # q BY <1>12
<1>14. c[p] > c[q] => p # q BY <1>4
<1> SUFFICES /\ n \in Nat /\ paid[p] \in Nat /\ paid[q] \in Nat
             /\ c[p] > c[q] => paid[p] + n >= paid[q]
             /\ c[p] = c[q] /\ p < q => paid[p] >= paid[q] /\ paid[p] <= paid[q] + n
  OBVIOUS
<1>15. /\ paid[p] = rp + sp /\ paid[q] = rq + sq /\ sp \in Nat /\ sq \in Nat /\ n \in Nat
       /\ c[p] >= c[q] /\ p # q => sq <= sp + n
       /\ c[p] = c[q] /\ p < q => sq <= sp /\ sp <= sq + n
  BY <1>1, <1>3, <1>9, <1>10, <1>11
<1> HIDE DEF sp, sq, n, paid, rp, rq
<1> QED BY <1>4, <1>5, <1>6, <1>14, <1>15

(* Live players with equal hands are paid alike but for the odd chips.     *)
THEOREM EqualHandsShare == AwardSpec => []EqualHandsSplit
<1>1. AwardInv => EqualHandsSplit
  <2>1. SUFFICES ASSUME AwardInv, Awarded, NEW p \in Seats \ foldedIds, NEW q \in Seats \ foldedIds,
                        strengths[p] = strengths[q]
                 PROVE  /\ contributions[p] > contributions[q] =>
                             paidOut[p] + Cardinality(AwardedPots) >= paidOut[q]
                        /\ contributions[p] = contributions[q] /\ p < q =>
                             paidOut[p] \in paidOut[q] .. paidOut[q] + Cardinality(AwardedPots)
    BY DEF EqualHandsSplit
  <2>2. paidOut = Payouts(contributions, foldedIds, strengths) BY <2>1 DEF AwardInv
  <2>3. contributions \in [Seats -> Nat] /\ strengths \in [Seats -> Nat] BY <2>1, AwardIsOf
  <2> DEFINE n == Cardinality(AwardedPots)
  <2>4. /\ n \in Nat /\ paidOut[p] \in Nat /\ paidOut[q] \in Nat
        /\ contributions[p] > contributions[q] => paidOut[p] + n >= paidOut[q]
        /\ contributions[p] = contributions[q] /\ p < q =>
             paidOut[p] >= paidOut[q] /\ paidOut[p] <= paidOut[q] + n
    BY <2>1, <2>2, <2>3, PayoutsOfEquals DEF AwardedPots
  <2> HIDE DEF n
  <2>5. contributions[p] = contributions[q] /\ p < q => paidOut[p] \in paidOut[q] .. paidOut[q] + n
    BY <2>4
  <2> QED BY <2>4, <2>5 DEF n
<1> QED BY <1>1, AwardInvHolds, PTL

-----------------------------------------------------------------------------
(* Chip by chip: chip k of everybody who put in as many is in the layer    *)
(* that k falls in. *)

(* Two have put in a k-th chip exactly when it is called.                  *)
LEMMA TwoPayers ==
  ASSUME NEW c \in [Seats -> Nat], NEW k \in Nat
  PROVE  Cardinality(Contributors(c, k)) >= 2 <=> k <= SecondLargest(c)
<1> DEFINE payers == Contributors(c, k)
<1>1. payers \in SUBSET Seats /\ IsFiniteSet(payers) /\ Cardinality(payers) \in Nat
  <2>1. payers \in SUBSET Seats BY DEF Contributors
  <2> QED BY <2>1, SeatsAreFinite, FS_Subset, FS_CardinalityType
<1>2. SecondLargest(c) \in Nat /\ \A s \in Seats : c[s] \in Nat BY SecondIs
<1>3. ASSUME k <= SecondLargest(c) PROVE Cardinality(payers) >= 2
  <2>1. PICK p \in Seats, q \in Seats : p # q /\ c[p] >= SecondLargest(c) /\ c[q] >= SecondLargest(c)
    BY SecondIs
  <2>2. p \in payers /\ q \in payers BY <1>2, <1>3, <2>1 DEF Contributors
  <2>3. IsFiniteSet({p, q}) /\ Cardinality({p, q}) = 2
    <3>1. IsFiniteSet({p}) /\ Cardinality({p}) = 1 BY FS_Singleton
    <3>2. IsFiniteSet({p} \cup {q}) /\ Cardinality({p} \cup {q}) = Cardinality({p}) + 1
      BY <2>1, <3>1, FS_AddElement
    <3>3. {p, q} = {p} \cup {q} OBVIOUS
    <3> QED BY <3>1, <3>2, <3>3
  <2>4. {p, q} \in SUBSET payers BY <2>2
  <2>5. Cardinality({p, q}) <= Cardinality(payers) BY <1>1, <2>4, FS_Subset
  <2> QED BY <1>1, <2>3, <2>5
<1>4. ASSUME Cardinality(payers) >= 2 PROVE k <= SecondLargest(c)
  <2>1. payers # {} BY <1>4, FS_EmptySet
  <2>2. PICK p \in payers : TRUE BY <2>1
  <2>3. Cardinality(payers \ {p}) = Cardinality(payers) - 1 BY <1>1, FS_RemoveElement
  <2>4. payers \ {p} # {} BY <1>1, <1>4, <2>3, FS_EmptySet
  <2>5. PICK q \in payers \ {p} : TRUE BY <2>4
  <2>6. p \in Seats /\ q \in Seats /\ p # q /\ c[p] >= k /\ c[q] >= k BY <2>5 DEF Contributors
  <2>7. c[p] <= SecondLargest(c) \/ c[q] <= SecondLargest(c) BY <2>6, SecondIs
  <2> QED BY <1>2, <2>6, <2>7
<1> QED BY <1>3, <1>4

(* Cutting the largest contribution down to the second largest takes away  *)
(* no called chip, and the second largest is the top level.                *)
LEMMA CalledChips ==
  ASSUME NEW c \in [Seats -> Nat], NEW k \in Nat, k <= SecondLargest(c), k > 0
  PROVE  /\ Contributors(Called(c), k) = Contributors(c, k)
         /\ SecondLargest(c) \in LayerLevels(Called(c))
<1>1. /\ SecondLargest(c) \in Nat /\ \A s \in Seats : c[s] \in Nat /\ Called(c)[s] \in Nat
      /\ \A s \in Seats : Called(c)[s] = Lesser(c[s], SecondLargest(c))
  BY SecondIs, CalledIs
<1>2. \A s \in Seats : Called(c)[s] >= k <=> c[s] >= k BY <1>1 DEF Lesser
<1>3. PICK p \in Seats : c[p] >= SecondLargest(c) BY SecondIs
<1>4. Called(c)[p] = SecondLargest(c) BY <1>1, <1>3 DEF Lesser
<1>5. SecondLargest(c) # 0 BY <1>1
<1> QED BY <1>2, <1>4, <1>5 DEF Contributors, LayerLevels

(* The chips of a level are those above the level below it.                *)
InLayer(e, l, k) == LevelBelow(e, l) < k /\ k <= l

LEMMA SomeLayer ==
  ASSUME NEW e \in [Seats -> Nat], NEW k \in Nat, k > 0, NEW top \in LayerLevels(e), k <= top
  PROVE  \E l \in LayerLevels(e) : InLayer(e, l, k)
<1> DEFINE ls == LayerLevels(e)
           over == {l \in ls : k <= l}
           minus == [l \in over |-> 0 - l]
           low == {minus[l] : l \in over}
<1>1. ls \subseteq Nat \ {0} /\ IsFiniteSet(ls) BY LevelsAre
<1>2. IsFiniteSet(over) /\ top \in over BY <1>1, FS_Subset
<1>3. low \in SUBSET Int /\ IsFiniteSet(low) /\ low # {}
  <2>1. low \in SUBSET Int BY <1>1
  <2>2. low # {} BY <1>2
  <2>3. IsFiniteSet(low)
    <3> HIDE DEF over, minus
    <3> QED BY <1>2, ImageIsFinite
  <2> QED BY <2>1, <2>2, <2>3
<1>4. Max(low) \in low /\ \A x \in low : x <= Max(low)
  <2> HIDE DEF low
  <2> QED BY <1>3, MaxExists
<1>5. PICK m \in over : Max(low) = 0 - m BY <1>4
<1>6. \A l \in over : m <= l
  <2> TAKE l \in over
  <2>1. 0 - l \in low OBVIOUS
  <2>2. 0 - l <= 0 - m BY <1>4, <1>5, <2>1
  <2>3. l \in Nat /\ m \in Nat BY <1>1
  <2> QED BY <2>2, <2>3
<1>7. /\ LevelBelow(e, m) \in {0} \cup ls /\ LevelBelow(e, m) \in Nat /\ LevelBelow(e, m) < m
      /\ m \in ls /\ k <= m /\ m \in Nat
  <2>1. m \in ls /\ k <= m /\ m \in Nat BY <1>1
  <2> QED BY <2>1, BelowIs
<1>8. LevelBelow(e, m) < k
  <2>1. SUFFICES ASSUME LevelBelow(e, m) >= k PROVE FALSE BY <1>7
  <2>2. LevelBelow(e, m) \in over BY <1>7, <2>1
  <2> QED BY <1>6, <1>7, <2>2
<1> QED BY <1>7, <1>8 DEF InLayer

LEMMA OneLayer ==
  ASSUME NEW e \in [Seats -> Nat], NEW k \in Nat,
         NEW l \in LayerLevels(e), InLayer(e, l, k), NEW m \in LayerLevels(e), InLayer(e, m, k)
  PROVE  l = m
<1>1. l \in Nat /\ m \in Nat /\ LevelBelow(e, l) \in Nat /\ LevelBelow(e, m) \in Nat
  BY LevelsAre, BelowIs
<1>2. (l < m => l <= LevelBelow(e, m)) /\ (m < l => m <= LevelBelow(e, l)) BY BelowIs
<1> QED BY <1>1, <1>2 DEF InLayer

LEMMA LayerPayers ==
  ASSUME NEW e \in [Seats -> Nat], NEW k \in Nat, NEW l \in LayerLevels(e), InLayer(e, l, k)
  PROVE  Contributors(e, k) = Contributors(e, l)
<1>1. l \in Nat /\ l > 0 /\ LevelBelow(e, l) \in Nat BY LevelsAre, BelowIs
<1>2. ASSUME NEW s \in Seats, e[s] >= k PROVE e[s] >= l
  <2>1. SUFFICES ASSUME e[s] < l PROVE FALSE
    <3>1. e[s] \in Nat OBVIOUS
    <3> QED BY <1>1, <3>1
  <2>2. e[s] \in Nat /\ e[s] \in LayerLevels(e) \cup {0} BY LevelsAre
  <2>3. e[s] # 0 BY <1>1, <1>2, <2>2 DEF InLayer
  <2>4. e[s] <= LevelBelow(e, l) BY <2>1, <2>2, <2>3, BelowIs
  <2> QED BY <1>1, <1>2, <2>2, <2>4 DEF InLayer
<1>3. ASSUME NEW s \in Seats, e[s] >= l PROVE e[s] >= k
  <2>1. e[s] \in Nat OBVIOUS
  <2> QED BY <1>1, <1>3, <2>1 DEF InLayer
<1> QED BY <1>2, <1>3 DEF Contributors

(* The chips of level l: one of each contributor for every k in it.        *)
LEMMA LayerChips ==
  ASSUME NEW e \in [Seats -> Nat], NEW l \in LayerLevels(e), NEW n \in Nat, l <= n,
         NEW x \in Nat, NEW f, \A k \in 1..n : InLayer(e, l, k) => f[k] = x
  PROVE  SumFunctionOnSet(f, {k \in 1..n : InLayer(e, l, k)}) = (l - LevelBelow(e, l)) * x
<1> DEFINE b == LevelBelow(e, l)
           K == {k \in 1..n : InLayer(e, l, k)}
<1>1. l \in Nat /\ b \in Nat /\ b < l BY LevelsAre, BelowIs
<1>2. K = (b + 1)..l
  <2> HIDE DEF b
  <2> QED BY <1>1 DEF InLayer, b
<1>3. IsFiniteSet((b + 1)..l) /\ Cardinality((b + 1)..l) = l - b
  <2>1. b + 1 \in Int /\ l \in Int /\ b + 1 <= l BY <1>1
  <2>2. /\ IsFiniteSet((b + 1)..l)
        /\ Cardinality((b + 1)..l) = IF b + 1 > l THEN 0 ELSE l - (b + 1) + 1
    BY <2>1, FS_Interval
  <2> HIDE DEF b
  <2> QED BY <1>1, <2>1, <2>2
<1>4. \A k \in K : f[k] = x OBVIOUS
<1>5. SumFunctionOnSet(f, K) = x * Cardinality(K)
  <2>1. IsFiniteSet(K) BY <1>2, <1>3
  <2> HIDE DEF K
  <2> QED BY <1>4, <2>1, SumConstant
<1>6. SumFunctionOnSet(f, K) = x * (l - b) BY <1>2, <1>3, <1>5
<1>7. x * (l - b) = (l - b) * x
  <2> DEFINE d == l - b
  <2>1. d \in Nat BY <1>1
  <2> HIDE DEF d
  <2>2. x * d = d * x BY <2>1
  <2> QED BY <2>2 DEF d
<1> QED BY <1>6, <1>7

(* What a level pays into the pot of E.                                    *)
PaidInto(e, fold, E) ==
  [l \in LayerLevels(e) |-> IF Eligible(e, fold, l) = E THEN Layers(e)[l] ELSE 0]

LEMMA PotByLayers ==
  ASSUME NEW c \in [Seats -> Nat], NEW fold, NEW E
  PROVE  /\ TotalPot({pot \in Pots(c, fold) : pot.eligible = E}) =
              SumFunctionOnSet(PaidInto(Called(c), fold, E), LayerLevels(Called(c)))
<1> DEFINE e == Called(c)
           ls == LayerLevels(e)
           P == {pot \in Pots(c, fold) : pot.eligible = E}
           f == [pot \in P |-> pot.amount]
           T == {l \in ls : Eligible(e, fold, l) = E}
           g == PaidInto(e, fold, E)
<1>1. e \in [Seats -> Nat] BY CalledIs
<1>2. IsFiniteSet(ls) /\ T \in SUBSET ls BY <1>1, LevelsAre
<1>3. TotalPot(P) = SumFunctionOnSet(f, P) BY TotalPotIs
<1>4. SumFunctionOnSet(f, P) = SumFunctionOnSet(Layers(e), Keyed(ls, KeyOf(c, fold), P))
  <2>1. P \in SUBSET Pots(c, fold) /\ \A pot \in P : f[pot] = pot.amount OBVIOUS
  <2> HIDE DEF P, f
  <2> QED BY <2>1, PotsAdd
<1>5. Keyed(ls, KeyOf(c, fold), P) = T
  <2>1. \A l \in ls : /\ KeyOf(c, fold)[l].eligible = Eligible(e, fold, l)
                      /\ KeyOf(c, fold)[l] \in Pots(c, fold)
    BY PotsAre
  <2> HIDE DEF ls, e
  <2> QED BY <2>1 DEF Keyed
<1>6. \A l \in ls : /\ Layers(e)[l] \in Nat
                    /\ g[l] = IF Eligible(e, fold, l) = E THEN Layers(e)[l] ELSE 0
  BY <1>1, LayersType DEF PaidInto
<1>7. \A l \in T : Layers(e)[l] \in Int /\ Layers(e)[l] = g[l] BY <1>6
<1>8. (\A l \in ls \ T : g[l] = 0) /\ \A l \in ls : g[l] \in Int BY <1>6
<1> HIDE DEF ls, T, g
<1>9. SumFunctionOnSet(g, ls) = SumFunctionOnSet(g, T) + SumFunctionOnSet(g, ls \ T)
  BY <1>2, <1>8, SumSplit
<1>10. SumFunctionOnSet(g, ls \ T) = 0
  <2>1. IsFiniteSet(ls \ T) /\ Cardinality(ls \ T) \in Nat BY <1>2, FS_Difference, FS_CardinalityType
  <2>2. SumFunctionOnSet(g, ls \ T) = 0 * Cardinality(ls \ T) BY <1>8, <2>1, SumConstant
  <2> QED BY <2>1, <2>2
<1>11. IsFiniteSet(T) BY <1>2, FS_Subset
<1>12. SumFunctionOnSet(Layers(e), T) = SumFunctionOnSet(g, T) BY <1>7, <1>11, SumSame
<1>13. SumFunctionOnSet(g, T) \in Int
  <2>1. \A l \in T : g[l] \in Int BY <1>2, <1>8
  <2> QED BY <1>11, <2>1, SumType
<1>14. SumFunctionOnSet(g, ls) = SumFunctionOnSet(g, T) BY <1>9, <1>10, <1>13
<1> QED BY <1>3, <1>4, <1>5, <1>12, <1>14 DEF ls, g

(* What the k-th chips pay into the pot of E.                              *)
ChipsInto(c, fold, E, n) ==
  [k \in 1..n |-> IF Contributors(c, k) \ fold = E /\ Cardinality(Contributors(c, k)) >= 2
                  THEN Cardinality(Contributors(c, k)) ELSE 0]

LEMMA ChipsByLayers ==
  ASSUME NEW c \in [Seats -> Nat], NEW fold, NEW E, NEW n \in Nat, \A s \in Seats : c[s] <= n
  PROVE  SumFunctionOnSet(ChipsInto(c, fold, E, n), 1..n) =
           SumFunctionOnSet(PaidInto(Called(c), fold, E), LayerLevels(Called(c)))
<1> DEFINE e == Called(c)
           ls == LayerLevels(e)
           second == SecondLargest(c)
           K == 1..n
           f == ChipsInto(c, fold, E, n)
           g == PaidInto(e, fold, E)
           key == [k \in K |-> IF k <= second THEN CHOOSE l \in ls : InLayer(e, l, k) ELSE 0]
<1>1. e \in [Seats -> Nat] /\ second \in Nat BY CalledIs, SecondIs
<1>2. second <= n
  <2>1. PICK p \in Seats : c[p] >= second BY SecondIs
  <2>2. c[p] \in Nat /\ c[p] <= n OBVIOUS
  <2> HIDE DEF second
  <2> QED BY <1>1, <2>1, <2>2
<1>3. IsFiniteSet(K) /\ \A k \in K : k \in Nat /\ k > 0 BY FS_Interval
<1>4. ls \subseteq Nat \ {0} /\ IsFiniteSet(ls) /\ \A l \in ls : l <= second
  <2>1. ls \subseteq Nat \ {0} /\ IsFiniteSet(ls) BY <1>1, LevelsAre
  <2>2. \A s \in Seats : e[s] <= second BY CalledIs, <1>1 DEF Lesser
  <2>3. \A l \in ls : \E s \in Seats : l = e[s] BY DEF LayerLevels
  <2> HIDE DEF ls, e, second
  <2> QED BY <2>1, <2>2, <2>3
<1>5. \A k \in K : IF k <= second THEN key[k] \in ls /\ InLayer(e, key[k], k) ELSE key[k] \notin ls
  <2> TAKE k \in K
  <2>1. CASE k <= second
    <3>1. second \in ls BY <1>3, <2>1, CalledChips
    <3>2. \E l \in ls : InLayer(e, l, k) BY <1>1, <1>3, <2>1, <3>1, SomeLayer
    <3>3. key[k] = CHOOSE l \in ls : InLayer(e, l, k) BY <2>1
    <3> HIDE DEF ls, key
    <3> QED BY <2>1, <3>2, <3>3
  <2>2. CASE ~(k <= second)
    <3>1. key[k] = 0 BY <2>2
    <3> HIDE DEF key, ls, second
    <3> QED BY <1>4, <2>2, <3>1
  <2> QED BY <2>1, <2>2
<1>6. \A k \in K : f[k] = IF Contributors(c, k) \ fold = E /\ k <= second
                          THEN Cardinality(Contributors(c, k)) ELSE 0
  <2> TAKE k \in K
  <2>1. k \in Nat BY <1>3
  <2>2. Cardinality(Contributors(c, k)) >= 2 <=> k <= second BY <2>1, TwoPayers
  <2>3. f[k] = IF Contributors(c, k) \ fold = E /\ Cardinality(Contributors(c, k)) >= 2
               THEN Cardinality(Contributors(c, k)) ELSE 0
    BY DEF ChipsInto
  <2> HIDE DEF f, second
  <2> QED BY <2>2, <2>3
<1>7. \A k \in K : f[k] \in Int
  <2> TAKE k \in K
  <2>1. Contributors(c, k) \in SUBSET Seats BY DEF Contributors
  <2>2. Cardinality(Contributors(c, k)) \in Nat BY <2>1, SeatsAreFinite, FS_Subset, FS_CardinalityType
  <2> HIDE DEF f
  <2> QED BY <1>6, <2>2
<1>8. \A l \in ls : g[l] = SumFunctionOnSet(f, WithKey(K, key, l))
  <2> TAKE l \in ls
  <2> DEFINE x == IF Eligible(e, fold, l) = E THEN Cardinality(Contributors(e, l)) ELSE 0
             mine == {k \in K : InLayer(e, l, k)}
  <2>1. l \in Nat /\ l <= second /\ l <= n BY <1>1, <1>2, <1>4
  <2>2. WithKey(K, key, l) = mine
    <3>1. \A k \in K : key[k] = l <=> InLayer(e, l, k)
      <4> TAKE k \in K
      <4>1. ASSUME key[k] = l PROVE InLayer(e, l, k) BY <1>5, <4>1
      <4>2. ASSUME InLayer(e, l, k) PROVE key[k] = l
        <5>1. k <= second /\ k \in Nat BY <1>1, <1>3, <2>1, <4>2 DEF InLayer
        <5>2. key[k] \in ls /\ InLayer(e, key[k], k) BY <1>5, <5>1
        <5> HIDE DEF key
        <5> QED BY <1>1, <4>2, <5>1, <5>2, OneLayer
      <4> QED BY <4>1, <4>2
    <3> HIDE DEF key
    <3> QED BY <3>1 DEF WithKey
  <2>3. Cardinality(Contributors(e, l)) \in Nat BY <1>1, LayersType
  <2>4. \A k \in 1..n : InLayer(e, l, k) => f[k] = x
    <3>1. SUFFICES ASSUME NEW k \in K, InLayer(e, l, k) PROVE f[k] = x
      OBVIOUS
    <3>2. k \in Nat /\ k > 0 /\ k <= second BY <1>1, <1>3, <2>1, <3>1 DEF InLayer
    <3>3. Contributors(e, k) = Contributors(c, k) BY <3>2, CalledChips
    <3>4. Contributors(e, k) = Contributors(e, l) BY <1>1, <3>1, <3>2, LayerPayers
    <3>5. Contributors(c, k) \ fold = Eligible(e, fold, l) BY <3>3, <3>4 DEF Eligible
    <3> HIDE DEF f, e, second
    <3> QED BY <1>6, <3>2, <3>3, <3>4, <3>5
  <2>5. x \in Nat BY <2>3
  <2> HIDE DEF f
  <2>6. SumFunctionOnSet(f, mine) = (l - LevelBelow(e, l)) * x
    <3> HIDE DEF x
    <3> QED BY <1>1, <2>1, <2>4, <2>5, LayerChips
  <2>7. g[l] = (l - LevelBelow(e, l)) * x
    <3>1. Layers(e)[l] = (l - LevelBelow(e, l)) * Cardinality(Contributors(e, l))
      BY <1>1, LayersType
    <3>2. LevelBelow(e, l) \in Nat BY <1>1, BelowIs
    <3>3. g[l] = IF Eligible(e, fold, l) = E THEN Layers(e)[l] ELSE 0 BY DEF PaidInto
    <3>4. (l - LevelBelow(e, l)) * 0 = 0 BY <2>1, <3>2
    <3> HIDE DEF g
    <3> QED BY <3>1, <3>3, <3>4
  <2> QED BY <2>2, <2>6, <2>7
<1>9. \A k \in K \ Keyed(K, key, ls) : f[k] = 0
  <2>1. \A k \in K \ Keyed(K, key, ls) : ~(k <= second)
    <3> HIDE DEF key, second, ls
    <3> QED BY <1>5 DEF Keyed
  <2> HIDE DEF f, key, second, ls
  <2> QED BY <1>6, <2>1
<1> HIDE DEF f, g, key, ls, K
<1>10. SumFunctionOnSet(g, ls) = SumFunctionOnSet(f, Keyed(K, key, ls))
  <2>1. IsFiniteSet(K) BY <1>3
  <2>2. IsFiniteSet(ls) BY <1>4
  <2> QED BY <1>7, <1>8, <2>1, <2>2, SumByKey
<1>11. Keyed(K, key, ls) \in SUBSET K BY DEF Keyed
<1> DEFINE R == Keyed(K, key, ls)
<1>12. SumFunctionOnSet(f, K) = SumFunctionOnSet(f, R) + SumFunctionOnSet(f, K \ R)
  BY <1>3, <1>7, <1>11, SumSplit
<1>13. SumFunctionOnSet(f, K \ R) = 0
  <2>1. IsFiniteSet(K \ R) /\ Cardinality(K \ R) \in Nat BY <1>3, FS_Difference, FS_CardinalityType
  <2>2. SumFunctionOnSet(f, K \ R) = 0 * Cardinality(K \ R) BY <1>9, <2>1, SumConstant
  <2> QED BY <2>1, <2>2
<1>14. SumFunctionOnSet(f, R) \in Int
  <2>1. IsFiniteSet(R) BY <1>3, <1>11, FS_Subset
  <2>2. \A k \in R : f[k] \in Int BY <1>7, <1>11
  <2> QED BY <2>1, <2>2, SumType
<1>15. SumFunctionOnSet(f, K) = SumFunctionOnSet(f, R) BY <1>12, <1>13, <1>14
<1> QED BY <1>10, <1>15 DEF f, g, K, ls

(* The pots hold exactly the chips that go into them one by one.           *)
THEOREM PotsChipByChip == AwardSpec => []ChipByChip
<1>1. AwardInv => ChipByChip
  <2>1. SUFFICES ASSUME AwardInv, NEW E \in SUBSET Seats
                 PROVE  ChipsFor(E) = TotalPot({pot \in AwardedPots : pot.eligible = E})
    BY DEF ChipByChip
  <2> DEFINE f == ChipsInto(contributions, foldedIds, E, MaxChips)
  <2>2. contributions \in [Seats -> Nat] /\ \A s \in Seats : contributions[s] <= MaxChips
    BY <2>1, AwardIsOf, BoundsAssumption DEF AwardInv
  <2>3. ChipsFor(E) = SumFunctionOnSet(f, 1..MaxChips)
    <3>1. f = [k \in 1..MaxChips |-> IF Payers(k) \ foldedIds = E /\ Cardinality(Payers(k)) >= 2
                                     THEN Cardinality(Payers(k)) ELSE 0]
      BY DEF ChipsInto, Payers, Contributors
    <3> DEFINE x(k) == IF Payers(k) \ foldedIds = E /\ Cardinality(Payers(k)) >= 2
                       THEN Cardinality(Payers(k)) ELSE 0
               K == 1..MaxChips
    <3>2. MapThenSumSet(x, K) = SumFunctionOnSet([k \in K |-> x(k)], K)
      <4> HIDE DEF x, K
      <4> QED BY ZenonT(40) DEF MapThenSumSet, SumFunctionOnSet, FoldFunctionOnSet, MapThenFoldSet
    <3>3. ChipsFor(E) = MapThenSumSet(x, K) BY DEF ChipsFor
    <3> HIDE DEF f
    <3> QED BY <3>1, <3>2, <3>3
  <2>4. SumFunctionOnSet(f, 1..MaxChips) = TotalPot({pot \in AwardedPots : pot.eligible = E})
    BY <2>2, BoundsAssumption, ChipsByLayers, PotByLayers DEF AwardedPots
  <2> QED BY <2>3, <2>4
<1> QED BY <1>1, AwardInvHolds, PTL
=============================================================================
