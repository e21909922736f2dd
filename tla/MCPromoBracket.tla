-------------------------- MODULE MCPromoBracket ----------------------------
(* Up to four players: two tables of two and a final, or a table of three. *)
EXTENDS PromoBracket

CONSTANTS u1, u2, u3, u4, u5
AnyOrder(us) == {CHOOSE s \in Seatings(us) : TRUE}      \* they are alike until they are seated
=============================================================================
