------------------------------ MODULE Cashier -------------------------------
(***************************************************************************)
(* Money in and out of the wallets: WithdrawalService and DepositService.  *)
(* Every call reads the database, posts to the ledger and then writes the  *)
(* row of its request; calls interleave at each of these steps, and any    *)
(* call may end early by an error or a restart of the server.              *)
(***************************************************************************)
EXTENDS Reconciliation, FiniteSetsExt

CONSTANTS
  Withdrawals, Deposits,      \* the requests there may be
  Owner, Amount,              \* whose they are, and their cents
  Calls                       \* settlements the admins may have in flight
Requests == Withdrawals \cup Deposits
ASSUME CashierAssumption ==
  /\ Withdrawals \cap Deposits = {}
  /\ Owner \in [Requests -> Players] /\ Amount \in [Requests -> Nat \ {0}]
  /\ {"external", "clearing"} \subseteq House
  /\ IsFiniteSet(Withdrawals) /\ IsFiniteSet(Deposits)

VARIABLES
  row,            \* status of each request, "none" before it is written
  asking,         \* the player's call: "no", "checked", "reserved" or "over"
  call            \* per admin call: Idle, or what it settles and how far it is

vars == <<books, repair, repairs, row, asking, call>>

Idle == [op |-> "idle"]
Settle(op, r, step) == [op |-> op, request |-> r, step |-> step]
OpsFor(r) == IF r \in Withdrawals THEN {"approve", "reject"} ELSE {"confirm", "decline"}
Outcome(op) == CASE op = "approve" -> "PAID" [] op = "confirm" -> "CONFIRMED" [] OTHER -> "REJECTED"

(* The posting of each operation.  Declining a deposit moves no money.     *)
Legs(op, r) ==
  CASE op = "request" -> Move(Owner[r], "clearing", Amount[r])
    [] op = "approve" -> Move("clearing", "external", Amount[r])
    [] op = "reject"  -> Move("clearing", Owner[r], Amount[r])
    [] op = "confirm" -> Move("external", Owner[r], Amount[r])

-----------------------------------------------------------------------------
(* A player's calls *)

(* request(): check the balance, reserve the money, then write the row.    *)
CheckBalance(w) ==
  /\ asking[w] = "no" /\ ledger[Owner[w]] >= Amount[w]
  /\ asking' = [asking EXCEPT ![w] = "checked"]
  /\ UNCHANGED <<books, row>>
Reserve(w) ==
  /\ asking[w] = "checked"
  /\ Post(<<"request", w>>, Legs("request", w), {Owner[w]})
  /\ asking' = [asking EXCEPT ![w] = "reserved"]
  /\ UNCHANGED row
RowBeforeMoney(w) == asking[w] \in {"checked", "reserved"}   \* mutant of MayRecord
MayRecord(w) == asking[w] = "reserved"
Record(w) ==
  /\ MayRecord(w)
  /\ row' = [row EXCEPT ![w] = "REQUESTED"]
  /\ asking' = [asking EXCEPT ![w] = "over"]
  /\ UNCHANGED books
AskingFails(w) ==
  /\ asking[w] \in {"checked", "reserved"}
  /\ asking' = [asking EXCEPT ![w] = "over"]
  /\ UNCHANGED <<books, row>>
Declare(d) ==
  /\ row[d] = "none" /\ row' = [row EXCEPT ![d] = "REQUESTED"]
  /\ UNCHANGED <<books, asking>>

PlayerStep ==
  /\ \/ \E w \in Withdrawals : CheckBalance(w) \/ Reserve(w) \/ Record(w) \/ AskingFails(w)
     \/ \E d \in Deposits : Declare(d)
  /\ UNCHANGED <<repair, repairs, call>>

-----------------------------------------------------------------------------
(* An admin's calls *)

(* getRequested()                                                          *)
MaySettle(r) == row[r] = "REQUESTED"
Begin(c, op, r) ==
  /\ call[c] = Idle /\ MaySettle(r) /\ op \in OpsFor(r)
  /\ call' = [call EXCEPT ![c] = Settle(op, r, IF op = "decline" THEN "posted" ELSE "read")]
  /\ UNCHANGED <<books, row>>
PostIt(c) ==
  LET s == call[c] IN
  /\ s # Idle /\ s.step = "read"
  /\ Post(<<s.op, s.request>>, Legs(s.op, s.request), {})
  /\ call' = [call EXCEPT ![c] = Settle(s.op, s.request, "posted")]
  /\ UNCHANGED row
WriteRow(c) ==
  LET s == call[c] IN
  /\ s # Idle /\ s.step = "posted"
  /\ row' = [row EXCEPT ![s.request] = Outcome(s.op)]
  /\ call' = [call EXCEPT ![c] = Idle]
  /\ UNCHANGED books
CallFails(c) ==
  /\ call[c] # Idle /\ call' = [call EXCEPT ![c] = Idle]
  /\ UNCHANGED <<books, row>>

AdminStep ==
  /\ \E c \in Calls :
       \/ \E r \in Requests : \E op \in OpsFor(r) : Begin(c, op, r)
       \/ PostIt(c) \/ WriteRow(c) \/ CallFails(c)
  /\ UNCHANGED <<repair, repairs, asking>>

-----------------------------------------------------------------------------
Init ==
  /\ LedgerInit /\ RepairInit
  /\ row = [r \in Requests |-> "none"]
  /\ asking = [w \in Withdrawals |-> "no"]
  /\ call = [c \in Calls |-> Idle]
Next == PlayerStep \/ AdminStep \/ (Repair /\ UNCHANGED <<row, asking, call>>)
Spec == Init /\ [][Next]_vars

-----------------------------------------------------------------------------
(* Properties *)

(* Every variable stays in its range, every row in its kind's statuses.    *)
TypeOK ==
  /\ ledger \in [Accounts -> Int] /\ cached \in [Accounts -> Int]
  /\ row \in [Requests -> {"none", "REQUESTED", "PAID", "REJECTED", "CONFIRMED"}]
  /\ \A w \in Withdrawals : row[w] # "CONFIRMED"
  /\ \A x \in Deposits : row[x] # "PAID"
  /\ asking \in [Withdrawals -> {"no", "checked", "reserved", "over"}]
  /\ \A c \in Calls :
       \/ call[c] = Idle
       \/ \E r \in Requests : \E op \in OpsFor(r) : \E step \in {"read", "posted"} :
            call[c] = Settle(op, r, step) /\ (op = "decline" => step = "posted")

(* withdrawal.service.ts:70: the guard "runs inside the posting             *)
(* transaction, so the wallet can never go negative": no race of debits    *)
(* overdraws a wallet, as long as nobody has repaired the cached balances. *)
Solvent == \A p \in Players : ledger[p] >= 0
NeverOverdrawn == repairs = 0 => Solvent

(* Whatever fails between two steps, an admin never sees a withdrawal whose*)
(* money is not reserved, and a settled row never claims a payment that    *)
(* was not posted.                                                         *)
RowsAreBacked ==
  /\ \A w \in Withdrawals :
       /\ row[w] # "none" => <<"request", w>> \in refs
       /\ row[w] = "PAID" => <<"approve", w>> \in refs
       /\ row[w] = "REJECTED" => <<"reject", w>> \in refs
  /\ \A d \in Deposits : row[d] = "CONFIRMED" => <<"confirm", d>> \in refs

(* Retries and racing settlements of a request move its money once each    *)
(* way: the requests settled explain the outside world's balance.          *)
Total(op, rs) ==
  MapThenSumSet(LAMBDA r : IF <<op, r>> \in refs THEN Amount[r] ELSE 0, rs)
OutsideIsExplained ==
  ledger["external"] = Total("approve", Withdrawals) - Total("confirm", Deposits)
=============================================================================
