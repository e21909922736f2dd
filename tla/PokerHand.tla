------------------------------ MODULE PokerHand -----------------------------
(***************************************************************************)
(* One Texas Hold'em hand: PokerHand (src/backend/src/poker/hand.ts)       *)
(* driving one BettingRound per street (betting-round.ts).                 *)
(*                                                                         *)
(* act() runs to completion synchronously, so every player action is one   *)
(* step that also settles the street, opens the next one or pays the hand  *)
(* out, exactly as the call does.  The round's own copies of the stacks    *)
(* and folds are kept in one variable each with the hand's: `chips`        *)
(* (hand.ts:138) shows that union.  Cards appear only as the strength each *)
(* seat turns out to hold, drawn when the hand is paid out.                *)
(***************************************************************************)
EXTENDS SidePots

CONSTANTS
  SmallBlind, BigBlind,
  Stacks            \* the stacks a player may bring to the hand
ASSUME BlindsAssumption ==
  /\ SmallBlind \in Nat /\ BigBlind \in Nat
  /\ 0 < SmallBlind /\ SmallBlind <= BigBlind
ASSUME StacksAssumption == Stacks \subseteq Nat \ {0}

VARIABLES
  initial,     \* initialStacks
  stack,       \* chips behind
  committed,   \* chips put in this street
  contrib,     \* totalContrib: chips put in on earlier streets
  folded,      \* seats out of the hand
  allIn,       \* seats with no chips behind, as the rounds flag it
  acted,       \* hasActed: acted since the last full raise
  inRound,     \* seats of the current BettingRound
  toAct,       \* the seat whose turn it is
  currentBet,
  minRaise,    \* minRaiseSize
  street,
  strength     \* what the cards are worth, 0 until the hand is over

betting == <<committed, allIn, acted, inRound, toAct, currentBet, minRaise>>
vars == <<initial, stack, contrib, folded, street, strength, betting>>

Nobody == [s \in Seats |-> 0]
AtMostOne(S) == \A p, q \in S : p = q

(***************************************************************************)
(* The seat of S reached first going clockwise from a position: a set of   *)
(* one seat when S is not empty.                                           *)
(***************************************************************************)
StepsTo(pos, s) == IF s >= pos THEN s - pos ELSE s + N - pos
LastFrom(pos, S) == {s \in S : \A t \in S : StepsTo(pos, s) >= StepsTo(pos, t)}   \* mutant of FirstFrom
FirstFrom(pos, S) == {s \in S : \A t \in S : StepsTo(pos, s) <= StepsTo(pos, t)}

-----------------------------------------------------------------------------
(* BettingRound *)

(***************************************************************************)
(* isComplete(): at most one player of the round has not folded, or each   *)
(* of them who still has chips has acted and matched the bet.              *)
(***************************************************************************)
MatchOnly(round, fold, ai, ac, com, bet) ==            \* mutant of RoundComplete
  LET live == round \ fold
  IN AtMostOne(live) \/ \A p \in live \ ai : com[p] = bet
RoundComplete(round, fold, ai, ac, com, bet) ==
  LET live == round \ fold
  IN AtMostOne(live) \/ \A p \in live \ ai : p \in ac /\ com[p] = bet

(* Whom a full raise by p makes act again: everyone left but p.            *)
Reopened(p, ac) == (ac \cap (folded \cup allIn)) \cup {p}

(* The seat that opens a street: preflop the third one (the small blind    *)
(* heads-up), later the first one after the dealer that has chips.         *)
SmallBlindFirst == 1                                   \* mutant of PreflopFirst
PreflopFirst == IF N = 2 THEN 1 ELSE 3
PostflopFrom == IF N = 2 THEN 2 ELSE 1

ToCall(p) == currentBet - committed[p]

(* The turn: a round is open and not complete, and it is p's move.         *)
Live == street \notin {"undealt", "complete"}
Turn(p) ==
  /\ Live
  /\ ~RoundComplete(inRound, folded, allIn, acted, committed, currentBet)
  /\ p = toAct

(* What act() accepts for the player to act.                               *)
CanCheck(p) == committed[p] = currentBet
CanCall(p)  == ToCall(p) > 0
BetOf(p, amount) ==
  /\ currentBet = 0
  /\ amount > 0 /\ amount <= stack[p]
  /\ amount >= BigBlind \/ amount = stack[p]
RaiseTo(p, total) ==
  LET cost == total - committed[p] IN
  /\ currentBet > 0 /\ total > currentBet
  /\ cost <= stack[p]
  /\ total - currentBet >= minRaise \/ cost = stack[p]

(* What legalActions() offers the player to act.                           *)
OfferRaiseToAnyone(p) ==                               \* mutant of LegalActions
  {"fold"}
  \cup (IF ToCall(p) <= 0 THEN {"check"} ELSE {"call"})
  \cup (IF stack[p] > 0 THEN {IF currentBet = 0 THEN "bet" ELSE "raise"} ELSE {})
LegalActions(p) ==
  {"fold"}
  \cup (IF ToCall(p) <= 0 THEN {"check"} ELSE {"call"})
  \cup (IF currentBet = 0 /\ stack[p] > 0 THEN {"bet"} ELSE {})
  \cup (IF currentBet > 0 /\ stack[p] > ToCall(p) THEN {"raise"} ELSE {})

-----------------------------------------------------------------------------
(* PokerHand *)

RiverNeverComes(s) == IF s = "preflop" THEN "flop" ELSE "turn"   \* mutant of NextStreet
NextStreet(s) == CASE s = "preflop" -> "flop" [] s = "flop" -> "turn" [] OTHER -> "river"

(***************************************************************************)
(* finish(): the cards are shown and every pot and refund is paid; what    *)
(* each seat gets is `payouts` below, and its final stack the chips behind *)
(* plus that.  Only                                                        *)
(* the order of the live players' hands matters, so their strengths are    *)
(* 1, 2, ... without gaps; the cards of folded players are never looked at.*)
(***************************************************************************)
Showdowns(fold) ==
  {h \in [Seats -> 0..N] :
     \A s \in Seats : IF s \in fold THEN h[s] = 0
                      ELSE h[s] = 1 \/ (h[s] > 1 /\ \E t \in Seats : h[t] = h[s] - 1)}
Finish(fold) ==
  /\ street' = "complete"
  /\ strength' \in Showdowns(fold)
  /\ inRound' = {} /\ acted' = {} /\ currentBet' = 0
  /\ UNCHANGED <<toAct, minRaise>>

(* openPostflopRound(): the live players with chips, first after dealer.   *)
OpenRound(bettors) ==
  /\ street' = NextStreet(street)
  /\ inRound' = bettors /\ acted' = {}
  /\ toAct' \in FirstFrom(PostflopFrom, bettors)
  /\ currentBet' = 0 /\ minRaise' = BigBlind
  /\ UNCHANGED strength

(***************************************************************************)
(* settleRound() and proceed(): the street's chips join the pot, and the   *)
(* next betting round opens unless one player is left, the river is over   *)
(* or fewer than two players can still bet, which runs the board out.      *)
(***************************************************************************)
AnyoneLeft(st, fold) == Seats \ fold                   \* mutant of Bettors
Bettors(st, fold) == {s \in Seats \ fold : st[s] > 0}
LastStreetOnly(com) == com                             \* mutant of Gathered
Gathered(com) == [s \in Seats |-> contrib[s] + com[s]]
Settle(st, com, fold) ==
  LET over == AtMostOne(Seats \ fold) \/ street = "river" \/ AtMostOne(Bettors(st, fold))
  IN /\ contrib' = Gathered(com) /\ committed' = Nobody
     /\ IF over THEN Finish(fold) ELSE OpenRound(Bettors(st, fold))

(***************************************************************************)
(* The end of act(): either the street is complete and settles, or the     *)
(* turn passes to the next player who neither folded nor is all-in.        *)
(***************************************************************************)
Resolve(st, com, fold, ai, ac, bet, min) ==
  /\ stack' = st /\ folded' = fold /\ allIn' = ai
  /\ IF RoundComplete(inRound, fold, ai, ac, com, bet)
     THEN Settle(st, com, fold)
     ELSE /\ committed' = com /\ acted' = ac /\ currentBet' = bet /\ minRaise' = min
          /\ toAct' \in FirstFrom(toAct + 1, inRound \ (fold \cup ai))
          /\ UNCHANGED <<contrib, inRound, street, strength>>
  /\ UNCHANGED initial

(* p puts `pay` more chips in; the flag is set when none are left behind.  *)
FlagAllIn(p, pay) == IF pay = stack[p] THEN allIn \cup {p} ELSE allIn
Pay(p, pay, ac, bet, min) ==
  Resolve([stack EXCEPT ![p] = @ - pay],
          [committed EXCEPT ![p] = @ + pay],
          folded,
          FlagAllIn(p, pay),
          ac, bet, min)

Fold(p) ==
  /\ Turn(p)
  /\ Resolve(stack, committed, folded \cup {p}, allIn, acted \cup {p}, currentBet, minRaise)
Check(p) ==
  /\ Turn(p) /\ CanCheck(p)
  /\ Resolve(stack, committed, folded, allIn, acted \cup {p}, currentBet, minRaise)
CallAmount(p) == Lesser(ToCall(p), stack[p])
Call(p) ==
  /\ Turn(p) /\ CanCall(p)
  /\ Pay(p, CallAmount(p), acted \cup {p}, currentBet, minRaise)
Bet(p, amount) ==
  /\ Turn(p) /\ BetOf(p, amount)
  /\ Pay(p, amount, Reopened(p, acted), amount, amount)
Raise(p, total) ==
  LET full == total - currentBet >= minRaise IN
  /\ Turn(p) /\ RaiseTo(p, total)
  /\ Pay(p, total - committed[p],
         IF full THEN Reopened(p, acted) ELSE acted \cup {p},
         total,
         IF full THEN total - currentBet ELSE minRaise)

(***************************************************************************)
(* The constructor: post the blinds and give the turn to the player after  *)
(* the big blind.  Blinds that put everyone all-in settle at once.         *)
(***************************************************************************)
Blind(s) == CASE s = 1 -> SmallBlind [] s = 2 -> BigBlind [] OTHER -> 0
Deal ==
  LET posted == [s \in Seats |-> Lesser(Blind(s), stack[s])]
      behind == [s \in Seats |-> stack[s] - posted[s]]
      broke  == {s \in Seats : behind[s] = 0}
      bet    == BigBlind
  IN /\ street = "undealt"
     /\ stack' = behind /\ allIn' = broke
     /\ IF RoundComplete(Seats, {}, broke, {}, posted, bet)
        THEN Settle(behind, posted, {})
        ELSE /\ street' = "preflop" /\ committed' = posted
             /\ inRound' = Seats /\ toAct' = PreflopFirst
             /\ currentBet' = bet /\ minRaise' = bet
             /\ UNCHANGED <<contrib, acted, strength>>
     /\ UNCHANGED <<initial, folded>>

Init ==
  /\ initial \in [Seats -> Stacks] /\ stack = initial
  /\ committed = Nobody /\ contrib = Nobody
  /\ folded = {} /\ allIn = {} /\ acted = {} /\ inRound = {}
  /\ toAct = 1 /\ currentBet = 0 /\ minRaise = BigBlind
  /\ street = "undealt" /\ strength = Nobody

Act(p) ==
  \/ Fold(p) \/ Check(p) \/ Call(p)
  \/ \E amount \in 1..stack[p] : Bet(p, amount)
  \/ \E cost \in 1..stack[p] : Raise(p, committed[p] + cost)

Done == street = "complete" /\ UNCHANGED vars
Next == Deal \/ (\E p \in Seats : Act(p)) \/ Done
Spec == Init /\ [][Next]_vars

(***************************************************************************)
(* The turn clock of the gateway plays for a player who does not: check    *)
(* when it is offered, otherwise fold.                                     *)
(***************************************************************************)
TurnClock ==
  \E p \in Seats : IF "check" \in LegalActions(p) THEN Check(p) ELSE Fold(p)
FairSpec == Spec /\ WF_vars(Deal) /\ WF_vars(TurnClock)

-----------------------------------------------------------------------------
(* Properties *)

Complete == street = "complete"
(* payouts of finish(): a function of what was put in, folded and shown.   *)
payouts == IF Complete THEN Payouts(contrib, folded, strength) ELSE Nobody
Matched(p) == MapThenSumSet(LAMBDA q : Lesser(contrib[q], contrib[p]), Seats)

(* Every variable stays in its range, through every street.                *)
TypeOK ==
  /\ initial \in [Seats -> Stacks]
  /\ stack \in [Seats -> Nat] /\ committed \in [Seats -> Nat] /\ contrib \in [Seats -> Nat]
  /\ folded \subseteq Seats /\ allIn \subseteq Seats
  /\ acted \subseteq Seats /\ inRound \subseteq Seats
  /\ toAct \in Seats /\ currentBet \in Nat /\ minRaise \in Nat
  /\ street \in {"undealt", "preflop", "flop", "turn", "river", "complete"}
  /\ strength \in [Seats -> 0..N]

(* No betting action creates or destroys a player's chips: what is behind, *)
(* in front and in the pot always adds up to what the player brought.      *)
ChipsAccounted == \A s \in Seats : stack[s] + committed[s] + contrib[s] = initial[s]

(* The all-in flag (set in five places of betting-round.ts) means exactly  *)
(* "no chips behind" once the hand is dealt.                               *)
AllInMeansBroke == street # "undealt" => allIn = {s \in Seats : stack[s] = 0}

(* The hand never sits in a street that is already complete: act() and the *)
(* constructor settle and move on (hand.ts:87, :181), so there is always   *)
(* someone whose action can advance it.                                    *)
NeverStalls == Live => ~RoundComplete(inRound, folded, allIn, acted, committed, currentBet)

(* legalActions() (what clients and robots are offered) is exactly what    *)
(* act() will accept for some amount: the two are written separately.      *)
LegalActionsExact ==
  Live => LegalActions(toAct) =
            {"fold"}
            \cup {a \in {"check"} : CanCheck(toAct)}
            \cup {a \in {"call"} : CanCall(toAct)}
            \cup {a \in {"bet"} : \E x \in 1..stack[toAct] : BetOf(toAct, x)}
            \cup {a \in {"raise"} : \E x \in 1..stack[toAct] : RaiseTo(toAct, committed[toAct] + x)}

(* Nobody has more in front of them than the bet to match; whoever can     *)
(* still bet is in the round; and on every street those in the round have  *)
(* put in as much before it as any other player, folded or all-in: nobody  *)
(* sees the next card cheaper.                                             *)
BetsCovered ==
  /\ \A s \in Seats : committed[s] <= currentBet
  /\ Live => \A s \in Seats \ folded : stack[s] > 0 => s \in inRound
  /\ Live => \A p \in inRound, q \in Seats : contrib[q] <= contrib[p]

(* A street only ends over a player who can still bet if that player has   *)
(* acted on it: the big blind keeps the option when everyone limps.        *)
EveryoneActs ==
  [][Live /\ street' # street =>
       LET left == inRound \ folded'
       IN AtMostOne(left) \/ left \ allIn' \subseteq acted \cup {toAct}]_vars

(* Heads-up a folded player's opponent wins the whole pot, whatever the    *)
(* blinds and the stacks: the hand is always zero-sum.                     *)
HeadsUpZeroSum == Complete /\ N = 2 => Total(payouts) = Total(contrib)

(* Table stakes: a player never gets more from an opponent than it put in  *)
(* itself, and a folded one gets at most its own uncalled chips back.      *)
TableStakes ==
  Complete => \A p \in Seats :
    /\ payouts[p] <= Matched(p)
    /\ p \in folded => \A q \in Seats \ {p} : payouts[p] = 0 \/ payouts[p] + contrib[q] <= contrib[p]

(* The single best live hand collects everything it covers.                *)
BestHandTakesAll ==
  Complete => \A p \in Seats \ folded :
    (\A q \in Seats \ (folded \cup {p}) : strength[q] < strength[p]) => payouts[p] = Matched(p)

(* With three or more players the turn is only ever given to a player who  *)
(* can act; heads-up that holds from the flop on.                          *)
ActorHasChips ==
  Live /\ (N >= 3 \/ street # "preflop") => toAct \in inRound \ (folded \cup allIn)

(* The turn goes round the table to those who still owe an action: nobody  *)
(* who acted and matched the bet is asked again before everyone who did    *)
(* not, so the bettor never gets to fold its own uncalled bet.             *)
Settled(s) == s \in acted /\ committed[s] = currentBet
TurnsInOrder ==
  \A owing, settled \in inRound \ (folded \cup allIn) :
    ~Settled(owing) /\ Settled(settled) => StepsTo(toAct, owing) < StepsTo(toAct, settled)

(* What has to hold together for the invariants above to be inductive:     *)
(* they need each other, and a hand that has not begun has nothing in it.  *)
Untouched ==
  street = "undealt" =>
    /\ stack = initial /\ contrib = Nobody /\ committed = Nobody
    /\ folded = {} /\ acted = {} /\ inRound = {} /\ currentBet = 0
HandInv ==
  /\ TypeOK /\ Untouched /\ ChipsAccounted /\ AllInMeansBroke
  /\ BetsCovered /\ NeverStalls /\ ActorHasChips

(* A turn clock alone is enough to finish every hand.                      *)
HandEnds == <>Complete
=============================================================================
