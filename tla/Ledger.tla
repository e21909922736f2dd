------------------------------- MODULE Ledger -------------------------------
(***************************************************************************)
(* LedgerService: balanced postings, applied once per reference, in        *)
(* serializable transactions.  A posting updates two things together, the  *)
(* entries (summed up as `ledger') and the balance column of each account  *)
(* (`cached'); the overdraft guard looks at the column.                    *)
(***************************************************************************)
EXTENDS Integers, FiniteSets

CONSTANTS
  Players, Opening,          \* the wallets, and what they start with
  House                      \* the system accounts in use
ASSUME LedgerAssumption ==
  /\ Opening \in [Players -> Nat]
  /\ House \subseteq {"external", "clearing", "pool", "rake"} /\ Players \cap House = {}

VARIABLES ledger, cached, refs

books == <<ledger, cached, refs>>
Accounts == Players \cup House

(* postings: cents into each account, negative out of it.                  *)
Move(from, to, cents) ==
  [a \in Accounts |-> IF a = from THEN -cents ELSE IF a = to THEN cents ELSE 0]
Apply(balance, postings) == [a \in Accounts |-> balance[a] + postings[a]]

NoGuard(after, guarded) == TRUE                        \* mutant of Covers
Covers(after, guarded) == \A a \in guarded : after[a] >= 0
AnyReference(ref) == TRUE                              \* mutant of Fresh
Fresh(ref) == ref \notin refs

(* post(): all or nothing.  A reference used before, or a guarded account  *)
(* left negative, rolls it back.                                           *)
Post(ref, postings, guarded) ==
  LET after == Apply(cached, postings) IN
  /\ Fresh(ref)
  /\ Covers(after, guarded)
  /\ ledger' = Apply(ledger, postings) /\ cached' = after
  /\ refs' = refs \cup {ref}

LedgerInit ==
  /\ ledger = [a \in Accounts |-> IF a \in Players THEN Opening[a] ELSE 0]
  /\ cached = ledger
  /\ refs = {}
=============================================================================
