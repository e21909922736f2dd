--------------------------- MODULE Reconciliation ---------------------------
(***************************************************************************)
(* ReconciliationService.repairCachedBalances(): list the cached balances, *)
(* sum up the entries of one account after the other, and then write the   *)
(* sums that differed back to the accounts.  Postings go on between any    *)
(* two of these steps.                                                     *)
(***************************************************************************)
EXTENDS Ledger

CONSTANT MaxRepairs     \* bound: how often the repair is run
ASSUME RepairAssumption == MaxRepairs \in Nat

VARIABLES repair, repairs

Resting == [listed |-> [a \in {} |-> 0], unread |-> {}, found |-> [a \in {} |-> 0]]
Corrected == DOMAIN repair.found
Repairing == repair # Resting

ListAccounts ==
  /\ repairs < MaxRepairs /\ repairs' = repairs + 1
  /\ ~Repairing
  /\ repair' = [listed |-> cached, unread |-> Accounts, found |-> Resting.found]
  /\ UNCHANGED books
NextOf(accounts) == CHOOSE a \in accounts : TRUE        \* the order of the list
CheckAccount(a) ==
  /\ repair.unread # {} /\ a = NextOf(repair.unread)
  /\ repair' = [repair EXCEPT
       !.unread = @ \ {a},
       !.found = IF ledger[a] = repair.listed[a] THEN @
                 ELSE [b \in Corrected \cup {a} |-> IF b = a THEN ledger[a] ELSE @[b]]]
  /\ UNCHANGED <<ledger, cached, refs, repairs>>
WriteBack(a) ==
  /\ repair.unread = {} /\ Corrected # {} /\ a = NextOf(Corrected)
  /\ cached' = [cached EXCEPT ![a] = repair.found[a]]
  /\ repair' = [repair EXCEPT !.found = [b \in Corrected \ {a} |-> @[b]]]
  /\ UNCHANGED <<ledger, refs, repairs>>
RepairEnds ==
  /\ Repairing /\ repair.unread = {} /\ Corrected = {}
  /\ repair' = Resting
  /\ UNCHANGED <<books, repairs>>

Repair == ListAccounts \/ RepairEnds \/ \E a \in Accounts : CheckAccount(a) \/ WriteBack(a)
RepairInit == repair = Resting /\ repairs = 0
=============================================================================
