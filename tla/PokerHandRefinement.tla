------------------------ MODULE PokerHandRefinement -------------------------
(***************************************************************************)
(* The hand engine implements what the tables rely on.                     *)
(***************************************************************************)
EXTENDS PokerHand

(* The engine's state as a table sees it: actingPlayerId, isComplete() and *)
(* result().finalStacks, which adds the payouts to the chips behind.       *)
FinalStacks == [s \in Seats |-> stack[s] + payouts[s]]
HandSeen ==
  CASE street = "undealt" -> [over |-> TRUE, dealt |-> {}]
    [] Complete -> [over |-> TRUE, dealt |-> Seats, brought |-> initial,
                    out |-> folded, allIn |-> allIn]
    [] OTHER -> [over |-> FALSE, dealt |-> Seats, brought |-> initial,
                 out |-> folded, allIn |-> allIn, actor |-> toAct]

Promise == INSTANCE HandContract WITH Ante <- SmallBlind, hand <- HandSeen, final <- FinalStacks

(* Every hand of the engine is a hand as HandOutcome describes it: its     *)
(* turn order, when it may end, and the stacks it ends with.               *)
HandKeepsPromise == Promise!HandSpec
=============================================================================
