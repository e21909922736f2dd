----------------------------- MODULE MCPayments -----------------------------
(* A deposit or a checkout, two requests, two plans, two handlers at once. *)
EXTENDS Payments, TLC

CONSTANTS d1, s1, MONTHLY, QUARTERLY
PlanDays == (MONTHLY :> 1) @@ (QUARTERLY :> 3)
=============================================================================
