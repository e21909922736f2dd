--------------------------- MODULE TournamentMoney --------------------------
(***************************************************************************)
(* TournamentService: the postings of one tournament room and the ledger   *)
(* references that make them idempotent.  A player's entry reference is a  *)
(* ticket: while it is in the ledger the player is not charged again.      *)
(* Renaming a reference when the room is done with it frees it, so here it *)
(* is taken out of refs.                                                   *)
(***************************************************************************)
EXTENDS Ledger, FiniteSetsExt, PrizeTable

CONSTANTS Level,         \* of the room
          Plan           \* the subscription of each player
ASSUME TournamentMoneyAssumption ==
  /\ Level \in Levels /\ Plan \in [Players -> SUBSCRIPTIONS]
  /\ {"pool", "rake"} \subseteq House /\ IsFiniteSet(Players)

Fee == [u \in Players |-> entryFeeCents(Level, Plan[u])]
EntryRef(u)  == <<"entry", u>>
RefundRef(u) == <<"refund", u>>
PayoutRef    == <<"payout">>

HasTicket(u) == EntryRef(u) \in refs
Tickets == {u \in Players : HasTicket(u)}
TrustsAnyone(u) == TRUE                                \* mutant of KnowsTicket
KnowsTicket(u) == HasTicket(u)
Collected(us) == MapThenSumSet(LAMBDA u : Fee[u], us)

Charge(u) == Post(EntryRef(u), Move(u, "pool", Fee[u]), {u})
GiveBack(u) == Post(RefundRef(u), Move("pool", u, Fee[u]), {})
(* settle(): the winner's share of the prize, and the rest to the house.   *)
PayOut(winner, us, seats, sharePct) ==
  LET collected == Collected(us)
      pool      == prizePoolCents(Level, collected, Cardinality(us), seats, sharePct)
      prize     == prizeShareCents(pool, Plan[winner])
  IN Post(PayoutRef, [a \in Accounts |->
       CASE a = "pool" -> -collected [] a = winner -> prize
         [] a = "rake" -> collected - prize [] OTHER -> 0], {})

(* releaseReferences(): one reference after the other, in this order.      *)
OnlyPayout(us) == {PayoutRef}                          \* mutants of Released
KeepsEntries(us) == {PayoutRef} \cup {RefundRef(u) : u \in us}
Released(us) == {PayoutRef} \cup {EntryRef(u) : u \in us} \cup {RefundRef(u) : u \in us}
Rank(ref) == CASE ref = PayoutRef -> 1 [] ref[1] = "entry" -> 2 [] OTHER -> 3
FirstOf(left) == {r \in left : \A other \in left : Rank(r) <= Rank(other)}
Release(ref) == refs' = refs \ {ref} /\ UNCHANGED <<ledger, cached>>
=============================================================================
