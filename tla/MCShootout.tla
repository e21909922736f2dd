----------------------------- MODULE MCShootout -----------------------------
(* Three players start; a fourth may be taken along or come late.  One of  *)
(* them cannot pay, two can pay twice.                                     *)
EXTENDS ShootoutManager, TLC

CONSTANTS ann, bob, cat, dan
Wallets == (ann :> 4000) @@ (bob :> 2000) @@ (cat :> 2000) @@ (dan :> 0)
InOneOrder(us) == {CHOOSE s \in Seatings(us) : TRUE}    \* the bracket treats players alike
Plans == [u \in Players |-> "NONE"]
=============================================================================
