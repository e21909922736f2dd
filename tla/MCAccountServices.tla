------------------------- MODULE MCAccountServices --------------------------
(* Five services that share no state: each behaviour is one of them at work *)
(* (two kinds for the limits).  Points, limits and deposits are not followed*)
(* further once a call wrote over what it had not seen, or a deposit was    *)
(* asked for on top of another: their properties then say nothing more.     *)
EXTENDS Points, PlayerLimits, OneTimeCode, PromoEvent, Referral, TLC

CONSTANTS c1, c2                                         \* two handlers at a time
VARIABLE focus
vars == <<focus, pointsVars, limitsVars, otpVars, promoVars, referralVars>>

OneWheel == {[free |-> 1, paid |-> 0]}
Reach == [w \in Windows |-> IF w = "daily" THEN 1 ELSE 2]
FirstDay == 1 :> [free |-> 0, paid |-> 1]

Init ==
  /\ focus \in {"points", "limits", "deposits", "codes", "promotion", "referrals"}
  /\ PointsInit /\ LimitsInit /\ OtpInit /\ PromoInit /\ ReferralInit
  /\ event.rehearsal => focus = "promotion"
Next ==
  /\ UNCHANGED focus
  /\ \/ /\ focus = "points" /\ ~crossed /\ PointsNext
        /\ UNCHANGED <<limitsVars, otpVars, promoVars, referralVars>>
     \/ /\ focus = "limits" /\ raced = {} /\ LimitsNext
        /\ UNCHANGED <<pointsVars, otpVars, promoVars, referralVars>>
     \/ /\ focus = "deposits" /\ ~stacked /\ DepositsNext
        /\ UNCHANGED <<pointsVars, otpVars, promoVars, referralVars>>
     \/ /\ focus = "codes" /\ OtpNext
        /\ UNCHANGED <<pointsVars, limitsVars, promoVars, referralVars>>
     \/ /\ focus = "promotion" /\ PromoNext
        /\ UNCHANGED <<pointsVars, limitsVars, otpVars, referralVars>>
     \/ /\ focus = "referrals" /\ ReferralNext
        /\ UNCHANGED <<pointsVars, limitsVars, otpVars, promoVars>>
Spec == Init /\ [][Next]_vars
=============================================================================
