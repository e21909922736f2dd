---------------------------- MODULE HandContract ----------------------------
(***************************************************************************)
(* HandOutcome as a specification of one hand, for the engine to implement *)
(* (PokerHandRefinement): what a caller of PokerHand sees of it, step by   *)
(* step, and the stacks its result reports.                                *)
(***************************************************************************)
EXTENDS HandOutcome

VARIABLES
  hand,            \* the hand being played or just over, or NoHand
  final            \* the stacks it left behind, once over

Dealt(h, h2) ==
  /\ h = NoHand
  /\ IF h2.over THEN h2 = Ended(h2.brought, {}, DOMAIN h2.brought)
                ELSE h2 \in Opened(h2.brought, h2.allIn)
Acted(h, h2) ==
  /\ ~h.over
  /\ \E after \in AfterFold(h) \cup AfterStay(h) :
       IF h2.over THEN h2 = Ended(h.brought, after.out, after.allIn)
                  ELSE h2 \in GoesOn(h, after.out, after.allIn)
PaidOut == hand.over /\ hand # NoHand => final \in Finals(hand.brought, hand.out, hand.allIn)
HandSpec ==
  /\ hand = NoHand
  /\ [][Dealt(hand, hand') \/ Acted(hand, hand')]_hand
  /\ []PaidOut
=============================================================================
