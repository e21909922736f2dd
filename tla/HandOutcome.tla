----------------------------- MODULE HandOutcome ----------------------------
(***************************************************************************)
(* What a table may rely on about a hand of poker, whatever the cards, the *)
(* bets and the blinds: who still has the turn, and which stacks a hand    *)
(* can leave behind.  PokerHand implements it (PokerHandRefinement), and   *)
(* the tournament tables are built on it.                                  *)
(***************************************************************************)
EXTENDS Integers, FiniteSets, FiniteSetsExt

CONSTANT Ante      \* a stack below it can be all-in from the blinds alone
ASSUME AnteAssumption == Ante \in Nat

NoHand == [over |-> TRUE, dealt |-> {}]

(* Chips: a stack for every player of the hand.                            *)
Chips(c) == MapThenSumSet(LAMBDA p : c[p], DOMAIN c)
Covered(c, p) == MapThenSumSet(LAMBDA q : IF c[q] <= c[p] THEN c[q] ELSE c[p], DOMAIN c)

(***************************************************************************)
(* The stacks a hand may end with.  Chips only change hands at the table;  *)
(* a folded player wins nothing, nobody wins more than it could cover, a   *)
(* player who kept chips behind keeps chips, and the last one standing     *)
(* loses none.  Only a live all-in below the ante can leave chips nobody   *)
(* is paid.                                                                *)
(***************************************************************************)
Most(brought, out) == [p \in DOMAIN brought |-> IF p \in out THEN brought[p] ELSE Covered(brought, p)]
Finals(brought, out, allIn) ==
  LET players == DOMAIN brought
      live    == players \ out
      total   == Chips(brought)
      most    == Most(brought, out)
      least   == [p \in players |-> IF live = {p} THEN brought[p]
                                    ELSE IF p \in allIn THEN 0 ELSE 1]
      lossy   == \E p \in live \cap allIn : brought[p] < Ante
  IN {f \in [players -> 0..total] :
        /\ \A p \in players : least[p] <= f[p] /\ f[p] <= most[p]
        /\ \E p \in live : f[p] > 0
        /\ LET paid == Chips(f) IN paid = total \/ (lossy /\ paid < total)}

(***************************************************************************)
(* A hand that goes on: at least two players are live, and the turn is     *)
(* with one of them who has chips to bet.  Heads-up, the first turn may    *)
(* fall on a player the blind has put all-in.                              *)
(***************************************************************************)
Ongoing(brought, out, allIn, actors) ==
  {[over |-> FALSE, dealt |-> DOMAIN brought, brought |-> brought,
    out |-> out, allIn |-> allIn, actor |-> a] :
     a \in {a \in actors : Cardinality(DOMAIN brought \ out) >= 2 /\ ~(DOMAIN brought \subseteq allIn)}}
Opened(brought, allIn) ==
  Ongoing(brought, {}, allIn,
          IF Cardinality(DOMAIN brought) = 2 THEN DOMAIN brought ELSE DOMAIN brought \ allIn)
GoesOn(h, out, allIn) == Ongoing(h.brought, out, allIn, h.dealt \ (out \cup allIn))
Ended(brought, out, allIn) ==
  [over |-> TRUE, dealt |-> DOMAIN brought, brought |-> brought, out |-> out, allIn |-> allIn]

(* What the turn can change: the actor folds, or stays and may be all-in.  *)
AfterFold(h) == {[out |-> h.out \cup {h.actor}, allIn |-> h.allIn]}
AfterStay(h) == {[out |-> h.out, allIn |-> h.allIn], [out |-> h.out, allIn |-> h.allIn \cup {h.actor}]}

=============================================================================
