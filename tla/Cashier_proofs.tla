--------------------------- MODULE Cashier_proofs ---------------------------
(***************************************************************************)
(* For any wallets, requests, amounts and number of admins: rows are       *)
(* backed by postings, and until a repair is run no wallet is overdrawn.   *)
(***************************************************************************)
EXTENDS Cashier, MoneyTheorems, TLAPS

(* What is known of a call in flight: it settles a written request, and    *)
(* once it says so its posting is in the ledger.                           *)
CallSound(c) ==
  \/ call[c] = Idle
  \/ \E r \in Requests : \E op \in OpsFor(r) : \E step \in {"read", "posted"} :
       /\ call[c] = Settle(op, r, step) /\ row[r] # "none"
       /\ IF op = "decline" THEN step = "posted"
                            ELSE step = "posted" => <<op, r>> \in refs

Backed ==
  /\ row \in [Requests -> {"none", "REQUESTED", "PAID", "REJECTED", "CONFIRMED"}]
  /\ asking \in [Withdrawals -> {"no", "checked", "reserved", "over"}]
  /\ call = [c \in Calls |-> call[c]]
  /\ \A w \in Withdrawals : asking[w] = "reserved" => <<"request", w>> \in refs
  /\ \A c \in Calls : CallSound(c)
  /\ RowsAreBacked

Unrepaired ==
  /\ ledger \in [Accounts -> Int] /\ cached = ledger
  /\ repair = Resting /\ Solvent
Books == repairs \in Nat /\ (repairs = 0 => Unrepaired)

(* What the requests of rs settled by op add up to, as a sum over rs.      *)
Counted(op, rs) == [r \in rs |-> IF <<op, r>> \in refs THEN Amount[r] ELSE 0]
LEMMA TotalIsSum ==
  ASSUME NEW o, NEW rs
  PROVE  /\ Total(o, rs) = SumFunctionOnSet(Counted(o, rs), rs)
         /\ Total(o, rs)' = SumFunctionOnSet(Counted(o, rs)', rs)
<1>1. Total(o, rs) = SumFunctionOnSet(Counted(o, rs), rs)
  BY ZenonT(40) DEF Total, Counted, MapThenSumSet, SumFunctionOnSet, FoldFunctionOnSet, MapThenFoldSet
<1>2. Total(o, rs)' = SumFunctionOnSet(Counted(o, rs)', rs)
  BY ZenonT(40) DEF Total, Counted, MapThenSumSet, SumFunctionOnSet, FoldFunctionOnSet, MapThenFoldSet
<1> QED BY <1>1, <1>2

USE LedgerAssumption, RepairAssumption, CashierAssumption

-----------------------------------------------------------------------------
(* Rows and postings *)

(* A reference, once posted, stays.                                        *)
LEMMA PostKeepsRefs ==
  ASSUME NEW ref, NEW postings, NEW guarded, Post(ref, postings, guarded)
  PROVE  refs' = refs \cup {ref}
  BY DEF Post

(* What a call in flight settles can be read back from it.                 *)
LEMMA CallInFlight ==
  ASSUME NEW c \in Calls, CallSound(c), call[c] # Idle
  PROVE  /\ call[c] = Settle(call[c].op, call[c].request, call[c].step)
         /\ call[c].request \in Requests /\ call[c].op \in OpsFor(call[c].request)
         /\ row[call[c].request] # "none"
         /\ IF call[c].op = "decline" THEN call[c].step = "posted"
            ELSE call[c].step = "posted" => <<call[c].op, call[c].request>> \in refs
<1>1. PICK r \in Requests : \E op \in OpsFor(r) : \E step \in {"read", "posted"} :
        /\ call[c] = Settle(op, r, step) /\ row[r] # "none"
        /\ IF op = "decline" THEN step = "posted"
                               ELSE step = "posted" => <<op, r>> \in refs
  BY DEF CallSound
<1>2. PICK op \in OpsFor(r) : \E step \in {"read", "posted"} :
        /\ call[c] = Settle(op, r, step) /\ row[r] # "none"
        /\ IF op = "decline" THEN step = "posted"
                               ELSE step = "posted" => <<op, r>> \in refs
  BY <1>1
<1>3. PICK step \in {"read", "posted"} :
        /\ call[c] = Settle(op, r, step) /\ row[r] # "none"
        /\ IF op = "decline" THEN step = "posted"
                               ELSE step = "posted" => <<op, r>> \in refs
  BY <1>2
<1>4. call[c].op = op /\ call[c].request = r /\ call[c].step = step
  BY <1>3 DEF Settle
<1> QED BY <1>3, <1>4

(* A call stays sound while it is not changed itself.                      *)
LEMMA SoundKept ==
  ASSUME NEW c \in Calls, CallSound(c), call'[c] = call[c], refs \subseteq refs',
         \A q \in Requests : row[q] # "none" => row'[q] # "none"
  PROVE  CallSound(c)'
<1>1. CASE call[c] = Idle
  BY <1>1 DEF CallSound
<1>2. CASE call[c] # Idle
  <2>1. PICK r \in Requests : \E op \in OpsFor(r) : \E step \in {"read", "posted"} :
          /\ call[c] = Settle(op, r, step) /\ row[r] # "none"
          /\ IF op = "decline" THEN step = "posted"
                               ELSE step = "posted" => <<op, r>> \in refs
    BY <1>2 DEF CallSound
  <2>2. \E op \in OpsFor(r) : \E step \in {"read", "posted"} :
          /\ call'[c] = Settle(op, r, step) /\ row'[r] # "none"
          /\ IF op = "decline" THEN step = "posted"
                               ELSE step = "posted" => <<op, r>> \in refs'
    BY <2>1
  <2> QED BY <2>2 DEF CallSound
<1> QED BY <1>1, <1>2

LEMMA BackedInit == Init => Backed
  BY DEF Init, Backed, RowsAreBacked, CallSound, Requests

LEMMA BackedPlayer == Backed /\ PlayerStep => Backed'
<1> SUFFICES ASSUME Backed, PlayerStep PROVE Backed'
  OBVIOUS
<1>0. call' = call BY DEF PlayerStep
<1> USE DEF Backed
<1>1. ASSUME refs \subseteq refs', \A q \in Requests : row[q] # "none" => row'[q] # "none"
      PROVE  \A c \in Calls : CallSound(c)'
  BY <1>0, <1>1, SoundKept
<1>2. ASSUME NEW w \in Withdrawals, CheckBalance(w) \/ AskingFails(w) PROVE Backed'
  <2>1. UNCHANGED <<refs, row>> BY <1>2 DEF CheckBalance, AskingFails, books
  <2> QED BY <1>0, <1>1, <1>2, <2>1 DEF CheckBalance, AskingFails, RowsAreBacked
<1>3. ASSUME NEW w \in Withdrawals, Reserve(w) PROVE Backed'
  <2>1. refs' = refs \cup {<<"request", w>>} BY <1>3, PostKeepsRefs DEF Reserve
  <2> QED BY <1>0, <1>1, <1>3, <2>1 DEF Reserve, RowsAreBacked
<1>4. ASSUME NEW w \in Withdrawals, Record(w) PROVE Backed'
  <2>1. /\ refs' = refs /\ <<"request", w>> \in refs
        /\ row' = [row EXCEPT ![w] = "REQUESTED"] /\ asking' = [asking EXCEPT ![w] = "over"]
    BY <1>4 DEF Record, MayRecord, books
  <2>2. \A c \in Calls : CallSound(c)' BY <1>1, <2>1
  <2>3. RowsAreBacked' BY <2>1 DEF RowsAreBacked, Requests
  <2> QED BY <1>0, <2>1, <2>2, <2>3
<1>5. ASSUME NEW d \in Deposits, Declare(d) PROVE Backed'
  <2>1. /\ refs' = refs /\ asking' = asking
        /\ row' = [row EXCEPT ![d] = "REQUESTED"]
    BY <1>5 DEF Declare, books
  <2>2. \A c \in Calls : CallSound(c)' BY <1>1, <2>1
  <2>3. RowsAreBacked' BY <2>1 DEF RowsAreBacked, Requests
  <2> QED BY <1>0, <2>1, <2>2, <2>3
<1> QED BY <1>2, <1>3, <1>4, <1>5 DEF PlayerStep

LEMMA BackedAdmin == Backed /\ AdminStep => Backed'
<1> SUFFICES ASSUME Backed, NEW c \in Calls, UNCHANGED <<repair, repairs, asking>>,
                    \/ \E r \in Requests : \E op \in OpsFor(r) : Begin(c, op, r)
                    \/ PostIt(c) \/ WriteRow(c) \/ CallFails(c)
             PROVE  Backed'
  BY DEF AdminStep
<1> USE DEF Backed
<1>1. ASSUME NEW v, call' = [call EXCEPT ![c] = v], refs \subseteq refs',
             \A q \in Requests : row[q] # "none" => row'[q] # "none", CallSound(c)'
      PROVE  (\A k \in Calls : CallSound(k)') /\ call' = [k \in Calls |-> call'[k]]
  <2>1. \A k \in Calls \ {c} : call'[k] = call[k] BY <1>1
  <2>2. \A k \in Calls \ {c} : CallSound(k)' BY <1>1, <2>1, SoundKept
  <2> QED BY <1>1, <2>2
<1>2. ASSUME NEW r \in Requests, NEW op \in OpsFor(r), Begin(c, op, r) PROVE Backed'
  <2>1. UNCHANGED <<refs, row>> BY <1>2 DEF Begin, books
  <2>2. PICK step \in {"read", "posted"} :
          /\ call' = [call EXCEPT ![c] = Settle(op, r, step)]
          /\ step = (IF op = "decline" THEN "posted" ELSE "read")
    BY <1>2 DEF Begin
  <2>3. call'[c] = Settle(op, r, step) BY <2>2
  <2>4. row'[r] # "none" BY <1>2, <2>1 DEF Begin, MaySettle
  <2>5. CallSound(c)' BY <2>2, <2>3, <2>4 DEF CallSound
  <2> QED BY <1>1, <2>1, <2>2, <2>5 DEF RowsAreBacked
<1>3. CASE PostIt(c)
  <2> DEFINE op == call[c].op
             r  == call[c].request
  <2>1. call[c] # Idle BY <1>3 DEF PostIt
  <2>2. r \in Requests /\ op \in OpsFor(r) /\ row[r] # "none" BY <2>1, CallInFlight
  <2>3. refs' = refs \cup {<<op, r>>} BY <1>3, PostKeepsRefs DEF PostIt
  <2>4. call' = [call EXCEPT ![c] = Settle(op, r, "posted")] /\ row' = row
    BY <1>3 DEF PostIt
  <2>5. call'[c] = Settle(op, r, "posted") BY <2>4
  <2> HIDE DEF op, r
  <2>6. CallSound(c)' BY <2>2, <2>3, <2>4, <2>5 DEF CallSound
  <2> QED BY <1>1, <2>3, <2>4, <2>6 DEF RowsAreBacked
<1>4. CASE WriteRow(c)
  <2> DEFINE op == call[c].op
             r  == call[c].request
  <2>1. call[c] # Idle /\ call[c].step = "posted" BY <1>4 DEF WriteRow
  <2>2. /\ r \in Requests /\ op \in OpsFor(r) /\ row[r] # "none"
        /\ op # "decline" => <<op, r>> \in refs
    BY <2>1, CallInFlight
  <2>3. /\ row' = [row EXCEPT ![r] = Outcome(op)]
        /\ call' = [call EXCEPT ![c] = Idle] /\ refs' = refs
    BY <1>4 DEF WriteRow, books
  <2> HIDE DEF op, r
  <2>4. Outcome(op) \in {"PAID", "CONFIRMED", "REJECTED"} BY DEF Outcome
  <2>5. CallSound(c)' BY <2>3 DEF CallSound
  <2>6. \A q \in Requests : row[q] # "none" => row'[q] # "none" BY <2>3, <2>4
  <2>7. RowsAreBacked'
    <3>1. CASE r \in Withdrawals
      <4>1. /\ op \in {"approve", "reject"}
            /\ Outcome(op) = "PAID" => op = "approve"
            /\ Outcome(op) = "REJECTED" => op = "reject"
        BY <2>2, <3>1 DEF OpsFor, Outcome
      <4>2. <<op, r>> \in refs /\ <<"request", r>> \in refs BY <2>2, <3>1, <4>1 DEF RowsAreBacked
      <4> QED BY <2>3, <3>1, <4>1, <4>2 DEF RowsAreBacked, Requests
    <3>2. CASE r \in Deposits
      <4>1. Outcome(op) = "CONFIRMED" => op = "confirm"
        BY <2>2, <3>2 DEF OpsFor, Outcome
      <4> QED BY <2>2, <2>3, <3>2, <4>1 DEF RowsAreBacked, Requests
    <3> QED BY <2>2, <3>1, <3>2 DEF Requests
  <2>8. row' \in [Requests -> {"none", "REQUESTED", "PAID", "REJECTED", "CONFIRMED"}]
    BY <2>3, <2>4
  <2> QED BY <1>1, <2>3, <2>5, <2>6, <2>7, <2>8
<1>5. CASE CallFails(c)
  <2>1. UNCHANGED <<refs, row>> /\ call' = [call EXCEPT ![c] = Idle] BY <1>5 DEF CallFails, books
  <2>2. CallSound(c)' BY <2>1 DEF CallSound
  <2> QED BY <1>1, <2>1, <2>2 DEF RowsAreBacked
<1> QED BY <1>2, <1>3, <1>4, <1>5

LEMMA BackedStutters ==
  Backed /\ UNCHANGED <<refs, row, asking, call>> => Backed'
<1> SUFFICES ASSUME Backed, UNCHANGED <<refs, row, asking, call>> PROVE Backed'
  OBVIOUS
<1>1. ASSUME NEW c \in Calls PROVE CallSound(c)' BY DEF Backed, CallSound
<1>2. RowsAreBacked' BY DEF Backed, RowsAreBacked
<1> QED BY <1>1, <1>2 DEF Backed

LEMMA BackedNext == Backed /\ [Next]_vars => Backed'
<1>1. Repair => refs' = refs
  BY DEF Repair, ListAccounts, CheckAccount, WriteBack, RepairEnds, books
<1> QED BY <1>1, BackedPlayer, BackedAdmin, BackedStutters DEF Next, vars, books

(* Whatever fails or races, every row is backed by its postings.           *)
THEOREM RowsStayBacked == Spec => []RowsAreBacked
<1>1. Init => Backed BY BackedInit
<1>2. Backed /\ [Next]_vars => Backed' BY BackedNext
<1>3. Backed => RowsAreBacked BY DEF Backed
<1> QED BY <1>1, <1>2, <1>3, PTL DEF Spec

-----------------------------------------------------------------------------
(* Wallets *)

(* A posting that passes its guards keeps the two balances together, and a *)
(* wallet it does not charge, or charges under guard, non-negative.        *)
LEMMA PostKeepsBooks ==
  ASSUME ledger \in [Accounts -> Int], cached = ledger, Solvent,
         NEW ref, NEW postings \in [Accounts -> Int], NEW guarded,
         Post(ref, postings, guarded),
         \A p \in Players \ guarded : postings[p] >= 0
  PROVE  /\ ledger' \in [Accounts -> Int] /\ cached' = ledger' /\ Solvent'
<1>1. ledger' = [a \in Accounts |-> ledger[a] + postings[a]] /\ cached' = ledger'
  BY DEF Post, Apply
<1>2. \A p \in guarded : ledger'[p] >= 0 BY <1>1 DEF Post, Covers, Apply
<1>3. ASSUME NEW p \in Players PROVE ledger'[p] >= 0
  <2>1. p \in Accounts BY DEF Accounts
  <2>2. CASE p \in guarded BY <1>2, <2>2
  <2>3. CASE p \notin guarded
    <3>1. ledger[p] \in Int /\ postings[p] \in Int BY <2>1
    <3> QED BY <1>1, <2>1, <2>3, <3>1 DEF Solvent
  <2> QED BY <2>2, <2>3
<1> QED BY <1>1, <1>3 DEF Solvent

(* Each operation moves whole cents and charges no wallet but a requester's*)
LEMMA LegsCharge ==
  ASSUME NEW r \in Requests, NEW op \in OpsFor(r) \cup {"request"}, op # "decline"
  PROVE  /\ Legs(op, r) \in [Accounts -> Int]
         /\ \A p \in Players : op # "request" \/ p # Owner[r] => Legs(op, r)[p] >= 0
<1>1. Amount[r] \in Nat /\ Owner[r] \in Players BY DEF Requests
<1>2. op \in {"request", "approve", "reject", "confirm"} BY DEF OpsFor
<1>3. \A p \in Players : p \in Accounts /\ p \notin {"external", "clearing"}
  BY DEF Accounts
<1>4. CASE op = "request" BY <1>1, <1>3, <1>4 DEF Legs, Move
<1>5. CASE op = "approve" BY <1>1, <1>3, <1>5 DEF Legs, Move
<1>6. CASE op = "reject" BY <1>1, <1>3, <1>6 DEF Legs, Move
<1>7. CASE op = "confirm" BY <1>1, <1>3, <1>7 DEF Legs, Move
<1> QED BY <1>2, <1>4, <1>5, <1>6, <1>7

(* No wallet is overdrawn, whatever races, until a repair is run.          *)
THEOREM WalletsStaySolvent == Spec => []NeverOverdrawn
<1>1. Init => Books
  <2> SUFFICES ASSUME Init PROVE Books
    OBVIOUS
  <2>1. ledger \in [Accounts -> Int] BY DEF Init, LedgerInit, Accounts
  <2>2. Solvent BY DEF Init, LedgerInit, Solvent, Accounts
  <2> QED BY <2>1, <2>2 DEF Init, LedgerInit, RepairInit, Books, Unrepaired
<1>2. Backed /\ Books /\ [Next]_vars => Books'
  <2> SUFFICES ASSUME Backed, Books, [Next]_vars PROVE Books'
    OBVIOUS
  <2>1. CASE UNCHANGED vars BY <2>1 DEF vars, books, Books, Unrepaired, Solvent
  <2>2. CASE PlayerStep
    <3>1. repairs' = repairs /\ repair' = repair BY <2>2 DEF PlayerStep
    <3>2. ASSUME UNCHANGED books PROVE Books'
      BY <3>1, <3>2 DEF books, Books, Unrepaired, Solvent
    <3>3. ASSUME NEW w \in Withdrawals, Reserve(w), repairs = 0 PROVE Unrepaired'
      <4>1. /\ Legs("request", w) \in [Accounts -> Int]
            /\ \A p \in Players \ {Owner[w]} : Legs("request", w)[p] >= 0
        BY LegsCharge DEF Requests
      <4>2. Post(<<"request", w>>, Legs("request", w), {Owner[w]}) BY <3>3 DEF Reserve
      <4> QED BY <3>1, <3>3, <4>1, <4>2, PostKeepsBooks DEF Books, Unrepaired
    <3> QED BY <2>2, <3>1, <3>2, <3>3
         DEF PlayerStep, CheckBalance, Record, AskingFails, Declare, Books
  <2>3. CASE AdminStep
    <3>1. repairs' = repairs /\ repair' = repair BY <2>3 DEF AdminStep
    <3>2. ASSUME UNCHANGED books PROVE Books'
      BY <3>1, <3>2 DEF books, Books, Unrepaired, Solvent
    <3>3. ASSUME NEW c \in Calls, PostIt(c), repairs = 0 PROVE Unrepaired'
      <4> DEFINE op == call[c].op
                 r  == call[c].request
      <4>1. call[c] # Idle /\ call[c].step = "read" BY <3>3 DEF PostIt
      <4>2. r \in Requests /\ op \in OpsFor(r) BY <4>1, CallInFlight DEF Backed
      <4>3. Post(<<op, r>>, Legs(op, r), {}) BY <3>3 DEF PostIt
      <4>4. op # "decline" BY <4>1, CallInFlight DEF Backed
      <4> HIDE DEF op, r
      <4>5. op # "request" BY <4>2 DEF OpsFor
      <4>6. /\ Legs(op, r) \in [Accounts -> Int]
            /\ \A p \in Players \ {} : Legs(op, r)[p] >= 0
        BY <4>2, <4>4, <4>5, LegsCharge
      <4> QED BY <3>1, <3>3, <4>3, <4>6, PostKeepsBooks DEF Books, Unrepaired
    <3> QED BY <2>3, <3>1, <3>2, <3>3 DEF AdminStep, Begin, WriteRow, CallFails, Books
  <2>4. CASE Repair
    <3>1. CASE ListAccounts BY <3>1 DEF ListAccounts, Books
    <3>2. CASE ~ListAccounts
      <4>1. repairs' = repairs
        BY <2>4, <3>2 DEF Repair, CheckAccount, WriteBack, RepairEnds, books
      <4>2. CASE repair.unread # {} BY <4>1, <4>2 DEF Books, Unrepaired, Resting
      <4>3. CASE DOMAIN repair.found # {} BY <4>1, <4>3 DEF Books, Unrepaired, Resting
      <4>4. CASE repair # Resting BY <4>1, <4>4 DEF Books, Unrepaired
      <4> QED BY <2>4, <3>2, <4>2, <4>3, <4>4
           DEF Repair, CheckAccount, WriteBack, RepairEnds, Repairing, Corrected
    <3> QED BY <3>1, <3>2
  <2> QED BY <2>1, <2>2, <2>3, <2>4 DEF Next
<1>3. Books => NeverOverdrawn BY DEF Books, Unrepaired, NeverOverdrawn
<1>4. Spec => []Backed
  <2>1. Init => Backed BY BackedInit
  <2>2. Backed /\ [Next]_vars => Backed' BY BackedNext
  <2> QED BY <2>1, <2>2, PTL DEF Spec
<1> QED BY <1>1, <1>2, <1>3, <1>4, PTL DEF Spec

-----------------------------------------------------------------------------
(* The outside world *)

Explained ==
  /\ ledger \in [Accounts -> Int]
  /\ OutsideIsExplained

(* A posting adds its amount to the total it belongs to, and to no other.  *)
LEMMA TotalAfterPost ==
  ASSUME NEW rs \in {Withdrawals, Deposits}, NEW op, NEW done, NEW r \in Requests,
         <<done, r>> \notin refs, refs' = refs \cup {<<done, r>>}
  PROVE  Total(op, rs)' = Total(op, rs) + (IF op = done /\ r \in rs THEN Amount[r] ELSE 0)
<1>1. IsFiniteSet(rs) /\ rs \subseteq Requests BY DEF Requests
<1>2. \A q \in rs : Counted(op, rs)[q] \in Int /\ Counted(op, rs)'[q] \in Int
  BY <1>1 DEF Counted
<1>3. \A q \in rs : q # r \/ op # done => Counted(op, rs)[q] = Counted(op, rs)'[q]
  BY DEF Counted
<1>4. CASE op = done /\ r \in rs
  <2>1. Counted(op, rs)[r] = 0 /\ Counted(op, rs)'[r] = Amount[r] BY <1>4 DEF Counted
  <2>2. SumFunctionOnSet(Counted(op, rs)', rs)
          = SumFunctionOnSet(Counted(op, rs), rs) - Counted(op, rs)[r] + Counted(op, rs)'[r]
    <3> DEFINE f == Counted(op, rs)
               g == Counted(op, rs)'
    <3>1. \A y \in rs : f[y] \in Int /\ g[y] \in Int /\ (y # r => f[y] = g[y])
      BY <1>2, <1>3
    <3> HIDE DEF f, g
    <3>2. SumFunctionOnSet(g, rs) = SumFunctionOnSet(f, rs) - f[r] + g[r]
      BY <1>1, <1>4, <3>1, SumChange
    <3> QED BY <3>2 DEF f, g
  <2>3. SumFunctionOnSet(Counted(op, rs), rs) \in Int BY <1>1, <1>2, SumType
  <2>4. Amount[r] \in Int OBVIOUS
  <2> QED BY <1>4, <2>1, <2>2, <2>3, <2>4, TotalIsSum
<1>5. CASE ~(op = done /\ r \in rs)
  <2>1. SumFunctionOnSet(Counted(op, rs)', rs) = SumFunctionOnSet(Counted(op, rs), rs)
    BY <1>1, <1>2, <1>3, <1>5, SumSame
  <2>2. SumFunctionOnSet(Counted(op, rs), rs) \in Int BY <1>1, <1>2, SumType
  <2> QED BY <1>5, <2>1, <2>2, TotalIsSum
<1> QED BY <1>4, <1>5

LEMMA ExplainedAfterPost ==
  ASSUME Explained, NEW r \in Requests, NEW op \in OpsFor(r) \cup {"request"}, op # "decline",
         op = "request" => r \in Withdrawals,
         NEW guarded, Post(<<op, r>>, Legs(op, r), guarded)
  PROVE  Explained'
<1>1. /\ refs' = refs \cup {<<op, r>>} /\ <<op, r>> \notin refs
      /\ ledger' = [a \in Accounts |-> ledger[a] + Legs(op, r)[a]]
  BY DEF Post, Apply, Fresh
<1>2. Legs(op, r) \in [Accounts -> Int] BY LegsCharge
<1>3. ledger' \in [Accounts -> Int] BY <1>1, <1>2 DEF Explained
<1>4. "external" \in Accounts /\ Owner[r] # "external" BY DEF Accounts, Requests
<1>5. Legs(op, r)["external"] = IF op = "approve" THEN Amount[r]
                                ELSE IF op = "confirm" THEN -Amount[r] ELSE 0
  <2>1. op \in {"request", "approve", "reject", "confirm"} BY DEF OpsFor
  <2> QED BY <1>4, <2>1 DEF Legs, Move
<1>6. (op = "approve" <=> op = "approve" /\ r \in Withdrawals)
      /\ (op = "confirm" <=> op = "confirm" /\ r \in Deposits)
  BY DEF OpsFor, Requests
<1>7. /\ Total("approve", Withdrawals)' =
           Total("approve", Withdrawals) + (IF op = "approve" THEN Amount[r] ELSE 0)
      /\ Total("confirm", Deposits)' =
           Total("confirm", Deposits) + (IF op = "confirm" THEN Amount[r] ELSE 0)
  BY <1>1, <1>6, TotalAfterPost
<1>8. Total("approve", Withdrawals) \in Int /\ Total("confirm", Deposits) \in Int
  <2>1. ASSUME NEW o, NEW rs \in {Withdrawals, Deposits} PROVE Total(o, rs) \in Int
    <3>1. IsFiniteSet(rs) /\ \A q \in rs : Counted(o, rs)[q] \in Int BY DEF Counted, Requests
    <3> QED BY <3>1, SumType, TotalIsSum
  <2> QED BY <2>1
<1>9. OutsideIsExplained'
  <2>1. ledger'["external"] = ledger["external"] + Legs(op, r)["external"] BY <1>1, <1>4
  <2>2. Amount[r] \in Int /\ ledger["external"] \in Int BY <1>4 DEF Explained
  <2> QED BY <1>5, <1>7, <1>8, <2>1, <2>2 DEF Explained, OutsideIsExplained
<1> QED BY <1>3, <1>9 DEF Explained

LEMMA ExplainedStutters == Explained /\ UNCHANGED <<ledger, refs>> => Explained'
<1> SUFFICES ASSUME Explained, UNCHANGED <<ledger, refs>> PROVE Explained'
  OBVIOUS
<1>1. \A op, rs : Counted(op, rs)' = Counted(op, rs) BY DEF Counted
<1>2. \A op, rs : Total(op, rs)' = Total(op, rs) BY <1>1, TotalIsSum
<1> QED BY <1>2 DEF Explained, OutsideIsExplained

(* However often settlements are repeated and whatever races, the money    *)
(* that left and entered is that of the requests settled, each once.       *)
THEOREM OutsideStaysExplained == Spec => []OutsideIsExplained
<1>1. Init => Explained
  <2> SUFFICES ASSUME Init PROVE Explained
    OBVIOUS
  <2>1. ledger \in [Accounts -> Int] /\ ledger["external"] = 0 /\ refs = {}
    BY DEF Init, LedgerInit, Accounts
  <2>2. ASSUME NEW op, NEW rs \in {Withdrawals, Deposits} PROVE Total(op, rs) = 0
    <3> DEFINE zero == [r \in rs |-> 0]
    <3>1. IsFiniteSet(rs) /\ Counted(op, rs) = zero BY <2>1 DEF Counted
    <3>2. SumFunctionOnSet(zero, rs) = 0 BY <3>1, SumZero
    <3> QED BY <3>1, <3>2, TotalIsSum
  <2> QED BY <2>1, <2>2 DEF Explained, OutsideIsExplained
<1>2. Backed /\ Explained /\ [Next]_vars => Explained'
  <2> SUFFICES ASSUME Backed, Explained, [Next]_vars PROVE Explained'
    OBVIOUS
  <2>1. CASE UNCHANGED <<ledger, refs>> BY <2>1, ExplainedStutters
  <2>2. ASSUME NEW w \in Withdrawals, Reserve(w) PROVE Explained'
    BY <2>2, ExplainedAfterPost DEF Reserve, Requests
  <2>3. ASSUME NEW c \in Calls, PostIt(c) PROVE Explained'
    <3> DEFINE op == call[c].op
               r  == call[c].request
    <3>1. call[c] # Idle /\ call[c].step = "read" /\ Post(<<op, r>>, Legs(op, r), {})
      BY <2>3 DEF PostIt
    <3>2. r \in Requests /\ op \in OpsFor(r) /\ op # "decline"
      BY <3>1, CallInFlight DEF Backed
    <3>3. op # "request" BY <3>2 DEF OpsFor
    <3> HIDE DEF op, r
    <3> QED BY <3>1, <3>2, <3>3, ExplainedAfterPost
  <2>4. Repair => UNCHANGED <<ledger, refs>>
    BY DEF Repair, ListAccounts, CheckAccount, WriteBack, RepairEnds, books
  <2> QED BY <2>1, <2>2, <2>3, <2>4
       DEF Next, vars, books, PlayerStep, CheckBalance, Record, AskingFails, Declare,
           AdminStep, Begin, WriteRow, CallFails
<1>3. Explained => OutsideIsExplained BY DEF Explained
<1>4. Spec => []Backed
  <2>1. Init => Backed BY BackedInit
  <2>2. Backed /\ [Next]_vars => Backed' BY BackedNext
  <2> QED BY <2>1, <2>2, PTL DEF Spec
<1> QED BY <1>1, <1>2, <1>3, <1>4, PTL DEF Spec
=============================================================================
