---------------------------- MODULE MCPokerHand -----------------------------
(* PokerHand and its refinement of HandContract on small instances: the    *)
(* stacks each .cfg gives are chosen so that some are below the small      *)
(* blind, some below the big blind, some cover one raise and some several. *)
EXTENDS PokerHandRefinement
=============================================================================
