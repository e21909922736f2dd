------------------------------ MODULE MCCashier -----------------------------
(* One wallet, two withdrawals that do not fit in it together, a deposit.  *)
EXTENDS Cashier, TLC

CONSTANTS p, w1, w2, d, c1, c2

OneWallet == p :> 2
TheOwner == [r \in Requests |-> p]
Cents == (w1 :> 2) @@ (w2 :> 2) @@ (d :> 1)
Interchangeable == Permutations({w1, w2}) \cup Permutations(Calls)
=============================================================================
