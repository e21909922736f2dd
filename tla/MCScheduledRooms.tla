-------------------------- MODULE MCScheduledRooms --------------------------
(* Three players who can pay for two entries, with one request at a time   *)
(* each, and one who can pay for none.                                     *)
EXTENDS ScheduledRooms, TLC

CONSTANTS ann, bob, cid, dan, ann1, bob1, cid1, dan1, close1

Owners == (ann1 :> ann) @@ (bob1 :> bob) @@ (cid1 :> cid) @@ (dan1 :> dan)
Plans == [u \in Players |-> IF u = bob THEN "ANNUAL" ELSE "NONE"]
Wallets == [u \in Players |-> IF u = dan THEN 0 ELSE 2 * Fee[u]]
=============================================================================
