----------------------------- MODULE MCLobbyRoom ----------------------------
(* Wallets that pay for two entries each; one player has a plan.           *)
EXTENDS LobbyRoom, TLC

CONSTANTS ann, bob, a1, a2, b1

(* The first player joins from two connections.                            *)
Owners == (a1 :> ann) @@ (a2 :> ann) @@ (b1 :> bob)
Plans == (ann :> "NONE") @@ (bob :> "QUARTERLY")
Wallets == [u \in Players |-> 2 * Fee[u]]
Interchangeable == Permutations({a1, a2})
=============================================================================
