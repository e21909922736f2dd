----------------------- MODULE ShootoutManager_proofs -----------------------
(***************************************************************************)
(* The two that are played by the bracket of ShootoutCoordinator.          *)
(*                                                                         *)
(* Live multi-table tournaments are shootouts, whatever the order in which *)
(* players register and tables report, and whatever fails; and the seating *)
(* at least halves the field each round; and the pool holds the entries.   *)
(* BracketOK is what the first proof needs of a state: the winners reported*)
(* so far sit at their tables, and there is a bracket only while start()   *)
(* runs.  Pooled says what is in the pool between payout and renaming.     *)
(*                                                                         *)
(* A promotion's places are a ranking.  RankInv adds to that who sits at   *)
(* the tables of the round, that a table's winner is all that is left of   *)
(* it, and that every place given comes after those still standing.        *)
(***************************************************************************)
EXTENDS ShootoutManager, PromoBracket, MoneyTheorems, TLAPS

LEMMA EnoughTables ==
  ASSUME NEW n \in Nat, n >= 1
  PROVE  NumTables(n) \in Nat /\ NumTables(n) >= 1
<1>1. ByEight(n) \in Nat /\ ByEight(n) >= 1
  BY SeatingAssumption DEF ByEight
<1> QED BY <1>1, SeatingAssumption DEF NumTables, AtMost

(* multi-table.ts:30 and :43: every table of a round has two players or    *)
(* more, so the field at least halves; and the winners of a field of up to *)
(* TEN_TABLE_FIELD fit one final table.                                    *)
THEOREM FieldHalves ==
  ASSUME NEW n \in Nat, n >= 2
  PROVE  /\ 2 * NumTables(n) <= n
         /\ n <= TEN_TABLE_FIELD => NumTables(n) <= FINAL_TABLE_SEATS
<1>1. CASE n <= FINAL_TABLE_SEATS
  BY <1>1, SeatingAssumption DEF NumTables
<1>2. CASE n > FINAL_TABLE_SEATS
  <2> DEFINE S == SEATS_PER_TABLE
             k == ByEight(n)
  <2>1. k \in Nat /\ S * (k - 1) < n
    <3>1. n + S - 1 \in Nat /\ S \in Nat \ {0}
      BY SeatingAssumption
    <3>2. k \in Nat /\ S * k <= n + S - 1
      BY <3>1 DEF ByEight
    <3>3. S * (k - 1) = S * k - S
      BY <3>1, <3>2
    <3> QED BY <3>1, <3>2, <3>3
  <2>2. 3 * (k - 1) <= S * (k - 1) \/ k = 0
    BY <2>1, SeatingAssumption
  <2>3. 2 * k <= n
    BY <1>2, <2>1, <2>2, SeatingAssumption
  <2>4. NumTables(n) <= k /\ (n <= TEN_TABLE_FIELD => NumTables(n) <= MIN_TABLES_TO_START)
        /\ NumTables(n) \in Nat
    BY <1>2, <2>1, SeatingAssumption DEF NumTables, AtMost
  <2> QED BY <2>1, <2>3, <2>4, SeatingAssumption
<1> QED BY <1>1, <1>2, SeatingAssumption

-----------------------------------------------------------------------------
Playing ==
  /\ champion = Nobody /\ alive # <<>>
  /\ winners \in [Tables(alive) -> Players \cup {Nobody}]
  /\ \A t \in Tables(alive) : winners[t] # Nobody => winners[t] \in SeatedAt(alive, t)
BracketOK ==
  /\ alive \in Seq(Players) /\ roster \subseteq Players /\ IsFiniteSet(roster)
  /\ \/ BracketInit
     \/ phase # "forming" /\ Playing
     \/ phase # "forming" /\ champion # Nobody /\ winners = <<>>

LEMMA SeatedPlayers ==
  ASSUME NEW s \in Seq(Players), NEW t
  PROVE  SeatedAt(s, t) \subseteq Players
BY DEF SeatedAt

(* The abstract bracket seats its tables as the concrete one.              *)
LEMMA SameSeating ==
  /\ Promise!Nobody = Nobody
  /\ \A s : Promise!Tables(s) = Tables(s)
  /\ \A s, t : Promise!SeatedAt(s, t) = SeatedAt(s, t)
BY DEF Promise!Nobody, Nobody, Promise!Tables, Tables, Promise!SeatedAt, SeatedAt,
       Promise!NumTables, NumTables, Promise!AtMost, AtMost, Promise!ByEight, ByEight,
       Promise!TEN_TABLE_FIELD, TEN_TABLE_FIELD

(* A new bracket, for a roster in the order it arrived in.                 *)
LEMMA Opened ==
  ASSUME roster' \subseteq Players, IsFiniteSet(roster'), Cardinality(roster') >= StartSize,
         NEW s \in Arrivals(roster'), OpenBracket(s), phase' # "forming"
  PROVE  BracketOK' /\ Promise!Begin
<1>1. Cardinality(roster') \in Nat /\ Cardinality(roster') >= 2
  BY FS_CardinalityType, ManagerAssumption
<1>2. s \in [1..Cardinality(roster') -> roster'] /\ \A i, j \in DOMAIN s : s[i] = s[j] => i = j
  BY ManagerAssumption DEF Seatings
<1>3. s \in Seq(Players) /\ Len(s) = Cardinality(roster') /\ s # <<>> /\ DOMAIN s = 1..Len(s)
  BY <1>1, <1>2
<1>4. Playing'
  BY <1>3 DEF OpenBracket, Playing, Pending
<1>5. Promise!Begin
  <2>1. alive' = s /\ round' = 1 /\ champion' = Nobody
    BY DEF OpenBracket
  <2>2. \A i, j \in 1..Len(alive') : alive'[i] = alive'[j] => i = j
    BY <1>2, <1>3, <2>1
  <2> QED BY <1>3, <2>1, <2>2, SameSeating DEF Promise!Begin
<1> QED BY <1>3, <1>4, <1>5 DEF BracketOK, OpenBracket

Stutter == UNCHANGED <<alive, round, champion>>
Follows == Stutter \/ Promise!Next

(* The handlers of `tournament:register': the roster changes, and the last *)
(* step of one may open the bracket.                                       *)
LEMMA Handlers ==
  ASSUME BracketOK, NEW u \in Players, Register(u) \/ Handle(u)
  PROVE  BracketOK' /\ Follows
<1>1. roster' \subseteq Players /\ IsFiniteSet(roster')
  BY FS_AddElement, FS_RemoveElement
     DEF BracketOK, Register, Handle, TakeSlot, HasSlot, Escrowed, Refused, WithoutSlot, Stray
<1>2. CASE UNCHANGED <<bracket, phase>>
  BY <1>1, <1>2 DEF BracketOK, bracket, BracketInit, Playing, Follows, Stutter
<1>3. CASE ~UNCHANGED <<bracket, phase>>
  <2>1. ~Started /\ Cardinality(roster') >= StartSize /\ phase' = "playing"
        /\ \E s \in Arrivals(roster') : OpenBracket(s)
    BY <1>3 DEF Register, Handle, TakeSlot, HasSlot, Escrowed, Refused, Stray, CountAndStart, start
  <2>2. PICK s \in Arrivals(roster') : OpenBracket(s)
    BY <2>1
  <2>3. BracketOK' /\ Promise!Begin
    BY <1>1, <2>1, <2>2, Opened
  <2>4. alive = <<>>
    BY <2>1 DEF BracketOK, BracketInit, Started
  <2> QED BY <2>3, <2>4 DEF Follows, Promise!Next
<1> QED BY <1>2, <1>3

(* A table reports: the round goes on, or all its winners move on.         *)
LEMMA Reports ==
  ASSUME BracketOK, NEW t \in DOMAIN winners, NEW w \in SeatedAt(alive, t), TableWon(t, w)
  PROVE  BracketOK' /\ Follows
<1> DEFINE reported == [winners EXCEPT ![t] = w]
<1>1. Playing /\ phase = "playing" /\ UNCHANGED roster
  BY DEF TableWon, BracketOK, BracketInit, calls
<1>2. DOMAIN winners = Tables(alive) /\ w \in Players /\ alive \in Seq(Players)
  BY <1>1, SeatedPlayers DEF Playing, BracketOK
<1>3. /\ reported \in [Tables(alive) -> Players \cup {Nobody}]
      /\ \A r \in Tables(alive) : reported[r] # Nobody => reported[r] \in SeatedAt(alive, r)
  BY <1>1, <1>2 DEF Playing
<1>4. CASE ~AllReported(reported)
  <2>1. winners' = reported /\ UNCHANGED <<alive, round, champion>>
    BY <1>4 DEF TableWon, reportTableWinner
  <2>2. phase' = "playing"
    BY <1>1, <2>1 DEF TableWon, Playing
  <2> QED BY <1>1, <1>3, <2>1, <2>2 DEF BracketOK, Playing, Follows, Stutter
<1>5. CASE AllReported(reported)
  <2>1. /\ alive' = reported /\ champion = Nobody
        /\ IF Tables(alive) = {1} THEN champion' = w /\ winners' = <<>> /\ UNCHANGED round
           ELSE round' = round + 1 /\ winners' = Pending(reported) /\ UNCHANGED champion
    BY <1>2, <1>5 DEF TableWon, reportTableWinner
  <2>2. Len(alive) \in Nat /\ Len(alive) >= 1
    BY <1>1, <1>2 DEF Playing
  <2>3. NumTables(Len(alive)) \in Nat /\ NumTables(Len(alive)) >= 1
    BY <2>2, EnoughTables
  <2>4. /\ reported \in [Tables(alive) -> Players]
        /\ \A r \in Tables(alive) : reported[r] \in SeatedAt(alive, r)
    BY <1>3, <1>5 DEF AllReported
  <2>5. reported \in Seq(Players) /\ reported # <<>>
    <3> DEFINE n == NumTables(Len(alive))
    <3>1. n \in Nat /\ n >= 1 /\ reported \in [1..n -> Players]
      BY <2>3, <2>4 DEF Tables
    <3> HIDE DEF n, reported
    <3>2. reported \in Seq(Players) /\ Len(reported) = n
      BY <3>1
    <3> QED BY <3>1, <3>2
  <2>6. Tables(alive) = {1} => t = 1 /\ reported[1] = w
    BY <1>1, <1>2 DEF Playing
  <2>7. Promise!Advance
    <3>1. alive' \in [Tables(alive) -> Players] /\ \A r \in Tables(alive) : alive'[r] \in SeatedAt(alive, r)
      BY <2>1, <2>4
    <3>2. IF Tables(alive) = {1} THEN champion' = alive'[1] /\ round' = round
                                 ELSE champion' = Nobody /\ round' = round + 1
      BY <2>1, <2>6
    <3> QED BY <1>1, <2>1, <3>1, <3>2, SameSeating DEF Promise!Advance, Playing
  <2>8. BracketOK'
    <3>1. CASE Tables(alive) = {1}
      <4>1. champion' # Nobody /\ winners' = <<>> /\ phase' = "paying"
        BY <1>2, <2>1, <3>1, ManagerAssumption DEF TableWon
      <4> QED BY <1>1, <2>1, <2>5, <4>1 DEF BracketOK
    <3>2. CASE Tables(alive) # {1}
      <4>1. champion' = Nobody /\ winners' = Pending(alive') /\ phase' = "playing"
        BY <1>1, <2>1, <3>2 DEF TableWon
      <4> QED BY <1>1, <2>1, <2>5, <4>1 DEF BracketOK, Playing, Pending
    <3> QED BY <3>1, <3>2
  <2> QED BY <2>7, <2>8 DEF Follows, Promise!Next
<1> QED BY <1>4, <1>5

(* Settling touches the bracket only to close it; so do errors and restarts. *)
LEMMA Settling ==
  ASSUME BracketOK, Settle \/ SettlementFails \/ Restart
  PROVE  BracketOK' /\ Follows
<1>1. CASE Pay \/ ReleaseAll
  BY <1>1 DEF Pay, ReleaseAll, BracketOK, BracketInit, Playing, bracket, calls, Follows, Stutter
<1>2. CASE Finish \/ PayoutRefused \/ SettlementFails \/ Restart
  <2>1. CloseBracket /\ roster' \in {roster, {}}
    BY <1>2 DEF Finish, PayoutRefused, SettlementFails, Restart, calls
  <2>2. BracketInit' /\ alive' \in Seq(Players) /\ Promise!End
    BY <2>1, SameSeating DEF CloseBracket, BracketInit, Promise!End
  <2>3. roster' \subseteq Players /\ IsFiniteSet(roster')
    BY <2>1, FS_EmptySet DEF BracketOK
  <2> QED BY <2>2, <2>3 DEF BracketOK, Follows, Promise!Next
<1> QED BY <1>1, <1>2 DEF Settle

-----------------------------------------------------------------------------
LEMMA InitBracket == Init => BracketOK /\ Promise!Idle
BY FS_EmptySet, SameSeating DEF Init, BracketOK, BracketInit, Promise!Idle

LEMMA NextBracket == BracketOK /\ [Next]_vars => BracketOK' /\ Follows
<1> SUFFICES ASSUME BracketOK, [Next]_vars PROVE BracketOK' /\ Follows
  OBVIOUS
<1>1. CASE UNCHANGED vars
  BY <1>1 DEF vars, bracket, calls, start, BracketOK, BracketInit, Playing, Follows, Stutter
<1>2. CASE Works
  BY <1>2, Handlers, Reports, Settling DEF Works, Play
<1>3. CASE Mishap
  BY <1>3, Settling DEF Mishap
<1> QED BY <1>1, <1>2, <1>3 DEF Next

(* multi-table-coordinator.ts: the live tournament is a shootout: one      *)
(* winner of every table goes on, and nothing else moves the bracket.      *)
THEOREM LiveTournamentIsAShootout == Spec => RoundByRound
<1>1. Init => BracketOK /\ Promise!Idle
  BY InitBracket
<1>2. BracketOK /\ [Next]_vars => BracketOK'
  BY NextBracket
<1>3. BracketOK /\ [Next]_vars => [Promise!Next]_(Promise!shootout)
  BY NextBracket DEF Follows, Stutter, Promise!shootout
<1> QED BY <1>1, <1>2, <1>3, PTL DEF Spec, RoundByRound, Promise!Spec

-----------------------------------------------------------------------------
(* The pool *)

BooksTyped == ledger \in [Accounts -> Int] /\ cached = ledger

(* Entries whose tournament has not been paid out: between the payout and  *)
(* the renaming of the references the tickets of its players are spent.    *)
Outstanding == IF phase = "releasing" THEN Tickets \ participants ELSE Tickets
Pooled ==
  /\ BooksTyped
  /\ ~interrupted =>
       /\ ledger["pool"] = Collected(Outstanding)
       /\ phase = "releasing" => participants \subseteq Tickets
       /\ phase # "done" => \A u \in roster : HasTicket(u) \/ At(u, "escrow")

LEMMA FeesUnfold ==
  ASSUME NEW us
  PROVE  Collected(us) = SumFunctionOnSet([u \in us |-> Fee[u]], us)
  BY DEF Collected, MapThenSumSet, SumFunctionOnSet, FoldFunctionOnSet, MapThenFoldSet

LEMMA FeesAddUp ==
  ASSUME NEW us \in SUBSET Players
  PROVE  /\ Collected(us) \in Nat
         /\ \A part \in SUBSET us : Collected(us \ part) = Collected(us) - Collected(part)
         /\ \A u \in Players \ us : Collected(us \cup {u}) = Collected(us) + Fee[u]
<1>1. \A s \in SUBSET Players :
        /\ IsFiniteSet(s) /\ \A u \in s : Fee[u] \in Int /\ Fee[u] \in Nat
        /\ Collected(s) = SumFunctionOnSet(Fee, s) /\ Collected(s) \in Nat
  <2> TAKE s \in SUBSET Players
  <2>1. IsFiniteSet(s) /\ \A u \in s : Fee[u] \in Int /\ Fee[u] \in Nat
    BY FeesAreMoney, FS_Subset, TournamentMoneyAssumption DEF Fee
  <2> DEFINE f == [u \in s |-> Fee[u]]
  <2>2. \A u \in s : f[u] \in Int /\ f[u] = Fee[u] BY <2>1
  <2>3. Collected(s) = SumFunctionOnSet(f, s) BY FeesUnfold
  <2> HIDE DEF f
  <2>4. Collected(s) = SumFunctionOnSet(Fee, s) BY <2>1, <2>2, <2>3, SumSame
  <2>5. SumFunctionOnSet(Fee, s) \in Nat BY <2>1, SumNat
  <2> QED BY <2>1, <2>4, <2>5
<1>2. ASSUME NEW part \in SUBSET us
      PROVE  Collected(us \ part) = Collected(us) - Collected(part)
  <2>1. part \in SUBSET Players /\ us \ part \in SUBSET Players OBVIOUS
  <2>2. SumFunctionOnSet(Fee, us) = SumFunctionOnSet(Fee, part) + SumFunctionOnSet(Fee, us \ part)
    BY <1>1, SumSplit
  <2> QED BY <1>1, <2>1, <2>2
<1>3. ASSUME NEW u \in Players \ us
      PROVE  Collected(us \cup {u}) = Collected(us) + Fee[u]
  <2>1. us \cup {u} \in SUBSET Players OBVIOUS
  <2>2. SumFunctionOnSet(Fee, us \cup {u}) = Fee[u] + SumFunctionOnSet(Fee, us)
    <3>1. IsFiniteSet(us) /\ \A v \in us \cup {u} : Fee[v] \in Int BY <1>1, <2>1
    <3> QED BY <3>1, SumIn
  <2>3. Fee[u] \in Nat BY <1>1, <2>1
  <2> QED BY <1>1, <2>1, <2>2, <2>3
<1> QED BY <1>1, <1>2, <1>3

(* An escrow adds a ticket and its fee.                                    *)
LEMMA ChargeIsPooled ==
  ASSUME BooksTyped, NEW u \in Players, Charge(u)
  PROVE  /\ BooksTyped' /\ u \notin Tickets /\ Tickets' = Tickets \cup {u}
         /\ ledger'["pool"] = ledger["pool"] + Fee[u]
<1> DEFINE postings == Move(u, "pool", Fee[u])
<1>1. /\ Fee[u] \in Nat /\ "pool" \in Accounts /\ u # "pool"
  BY FeesAreMoney, LedgerAssumption, TournamentMoneyAssumption DEF Fee, Accounts
<1>2. postings \in [Accounts -> Int] /\ postings["pool"] = Fee[u] BY <1>1 DEF Move
<1>3. Post(EntryRef(u), postings, {u}) BY DEF Charge
<1> HIDE DEF postings
<1>4. /\ ledger' = Apply(ledger, postings) /\ cached' = Apply(cached, postings)
      /\ EntryRef(u) \notin refs /\ refs' = refs \cup {EntryRef(u)}
  BY <1>3 DEF Post, Fresh
<1>5. Tickets' = Tickets \cup {u} /\ u \notin Tickets
  BY <1>4 DEF Tickets, HasTicket, EntryRef
<1> QED BY <1>1, <1>2, <1>4, <1>5 DEF BooksTyped, Apply

(* The payout takes out of the pool what was collected.                    *)
LEMMA PayOutIsPooled ==
  ASSUME BooksTyped, NEW us \in SUBSET Players, NEW winner \in Players,
         PayOut(winner, us, MAX_PLAYERS, 100)
  PROVE  BooksTyped' /\ Tickets' = Tickets /\ ledger'["pool"] = ledger["pool"] - Collected(us)
<1> DEFINE collected == Collected(us)
           pool  == prizePoolCents(Level, collected, Cardinality(us), MAX_PLAYERS, 100)
           prize == prizeShareCents(pool, Plan[winner])
           postings == [a \in Accounts |-> CASE a = "pool" -> -collected [] a = winner -> prize
                                              [] a = "rake" -> collected - prize [] OTHER -> 0]
<1>1. collected \in Nat BY FeesAddUp
<1>2. prize \in Nat
  <2>1. Cardinality(us) \in Nat BY FS_Subset, FS_CardinalityType, TournamentMoneyAssumption
  <2>2. Level \in Levels /\ Plan[winner] \in SUBSCRIPTIONS BY TournamentMoneyAssumption
  <2>3. MAX_PLAYERS \in Nat \ {0} /\ 100 \in 0..100
    BY SeatingAssumption, ManagerAssumption DEF MAX_PLAYERS
  <2>4. pool \in 0..collected /\ prize \in 0..pool
    BY <1>1, <2>1, <2>2, <2>3, HouseNeverOverpays
  <2> HIDE DEF pool, prize, collected
  <2> QED BY <1>1, <2>4
<1>3. Post(PayoutRef, postings, {}) BY DEF PayOut
<1> HIDE DEF collected, prize
<1>4. "pool" \in Accounts /\ winner \notin {"pool", "rake"}
  BY LedgerAssumption, TournamentMoneyAssumption DEF Accounts
<1>5. postings \in [Accounts -> Int] /\ postings["pool"] = -collected
  BY <1>1, <1>2, <1>4
<1> HIDE DEF postings
<1>6. /\ ledger' = Apply(ledger, postings) /\ cached' = Apply(cached, postings)
      /\ refs' = refs \cup {PayoutRef}
  BY <1>3 DEF Post
<1>7. Tickets' = Tickets BY <1>6 DEF Tickets, HasTicket, EntryRef, PayoutRef
<1>8. BooksTyped' BY <1>5, <1>6 DEF BooksTyped, Apply
<1>9. ledger'["pool"] = ledger["pool"] - collected
  <2>1. ledger["pool"] \in Int BY <1>4 DEF BooksTyped
  <2> QED BY <1>1, <1>4, <1>5, <1>6, <2>1 DEF Apply
<1> QED BY <1>7, <1>8, <1>9 DEF collected

(* A step that leaves the phase as it was, or starts the tournament, keeps *)
(* the pool if what it adds to the pool is the fee of a new ticket, and    *)
(* the entrants if each slot it leaves is an entry or being escrowed.      *)
LEMMA EntriesStayPooled ==
  ASSUME Pooled, interrupted' = interrupted, BooksTyped',
         \/ phase' = phase /\ participants' = participants
         \/ phase = "forming" /\ phase' = "playing",
         \/ UNCHANGED books
         \/ \E u \in Players : /\ u \notin Tickets /\ Tickets' = Tickets \cup {u}
                               /\ ledger'["pool"] = ledger["pool"] + Fee[u],
         roster' \subseteq Players,
         \A u \in roster' : \/ HasTicket(u)' \/ At(u, "escrow")'
                            \/ u \in roster /\ ~At(u, "escrow")
                            \/ u \in roster /\ registering'[u] = registering[u]
  PROVE  Pooled'
<1> SUFFICES ASSUME ~interrupted
             PROVE  /\ ledger'["pool"] = Collected(Outstanding)'
                    /\ phase' = "releasing" => (participants \subseteq Tickets)'
                    /\ phase' # "done" => \A u \in roster' : (HasTicket(u) \/ At(u, "escrow"))'
  BY DEF Pooled
<1>2. Collected(Outstanding)' = Collected(Outstanding') OBVIOUS
<1>3. Tickets \subseteq Tickets' /\ \A u \in Players : HasTicket(u) => HasTicket(u)'
  BY DEF Tickets, HasTicket, books
<1>4. ledger'["pool"] = Collected(Outstanding')
  <2>1. Outstanding \in SUBSET Players BY DEF Outstanding, Tickets
  <2>2. CASE UNCHANGED books
    <3>1. Outstanding' = Outstanding BY <2>2 DEF Outstanding, Tickets, HasTicket, books
    <3> QED BY <2>2, <3>1 DEF Pooled, books
  <2>3. ASSUME NEW u \in Players, u \notin Tickets, Tickets' = Tickets \cup {u},
               ledger'["pool"] = ledger["pool"] + Fee[u]
        PROVE  ledger'["pool"] = Collected(Outstanding')
    <3>1. Outstanding' = Outstanding \cup {u} /\ u \notin Outstanding
      BY <2>3 DEF Outstanding, Pooled
    <3>2. Collected(Outstanding \cup {u}) = Collected(Outstanding) + Fee[u]
      BY <2>1, <3>1, FeesAddUp
    <3> QED BY <2>3, <3>1, <3>2 DEF Pooled
  <2> QED BY <2>2, <2>3
<1>5. phase' = "releasing" => (participants \subseteq Tickets)' BY <1>3 DEF Pooled
<1>6. phase' # "done" => \A u \in roster' : (HasTicket(u) \/ At(u, "escrow"))'
  <2> SUFFICES ASSUME phase' # "done", NEW u \in roster', u \in roster, u \in Players,
                      ~At(u, "escrow") \/ registering'[u] = registering[u]
               PROVE  HasTicket(u)' \/ At(u, "escrow")'
    OBVIOUS
  <2>1. HasTicket(u) \/ At(u, "escrow") BY DEF Pooled
  <2>2. HasTicket(u) => HasTicket(u)' BY <1>3
  <2> QED BY <2>1, <2>2 DEF At
<1> QED BY <1>2, <1>4, <1>5, <1>6

(* The handlers: who gets a slot is being escrowed, has a ticket or is     *)
(* taken off the roster again.                                             *)
LEMMA HandlersPool ==
  ASSUME BracketOK, TypeOK, Pooled, NEW u \in Players, Register(u) \/ Handle(u)
  PROVE  TypeOK' /\ Pooled'
<1>1. roster' \subseteq Players BY Handlers DEF BracketOK
<1>2. /\ UNCHANGED start /\ UNCHANGED bracket
      \/ /\ phase = "forming" /\ phase' = "playing" /\ participants' = roster'
         /\ round' = 1 /\ champion' = Nobody
  BY DEF Register, Handle, TakeSlot, HasSlot, Escrowed, Refused, Stray, CountAndStart, OpenBracket,
         Started
<1>3. /\ interrupted' = interrupted
      /\ \E pc \in {"no", "reading", "escrow"} : Handler(u, pc)
  BY DEF Register, Handle, TakeSlot, HasSlot, Escrowed, Refused, Stray
<1>4. \A v \in Players \ {u} : registering'[v] = registering[v] BY <1>3 DEF Handler, TypeOK
<1>5. TypeOK'
  <2>1. registering' \in [Players -> {"no", "reading", "escrow", "stray"}]
    BY <1>3 DEF Handler, TypeOK
  <2> QED BY <1>1, <1>2, <2>1 DEF TypeOK, start, bracket
<1>6. BooksTyped BY DEF Pooled
<1>7. ASSUME UNCHANGED books PROVE BooksTyped'
  BY <1>6, <1>7 DEF BooksTyped, books
<1>8. \A v \in roster' : \/ HasTicket(v)' \/ At(v, "escrow")'
                         \/ v \in roster /\ ~At(v, "escrow")
                         \/ v \in roster /\ registering'[v] = registering[v]
  <2> SUFFICES ASSUME u \in roster'
               PROVE  HasTicket(u)' \/ At(u, "escrow")' \/ (u \in roster /\ ~At(u, "escrow"))
    <3>1. \A v \in roster' \ {u} : v \in roster
      BY DEF Register, Handle, TakeSlot, HasSlot, Escrowed, Refused, WithoutSlot, Stray
    <3> QED BY <1>1, <1>4, <3>1
  <2>1. CASE Register(u) \/ HasSlot(u) \/ Stray(u)
    BY <2>1 DEF Register, HasSlot, Stray, At
  <2>2. CASE TakeSlot(u) BY <2>2 DEF TakeSlot, Handler, At, TypeOK
  <2>3. CASE Escrowed(u)
    <3>1. (KnowsTicket(u) /\ UNCHANGED books) \/ Charge(u) BY <2>3 DEF Escrowed
    <3> QED BY <3>1 DEF KnowsTicket, HasTicket, books, Charge, Post
  <2>4. CASE Refused(u) BY <2>4 DEF Refused, WithoutSlot
  <2> QED BY <2>1, <2>2, <2>3, <2>4 DEF Handle
<1>9. \/ phase' = phase /\ participants' = participants
      \/ phase = "forming" /\ phase' = "playing"
  BY <1>2 DEF start
<1>10. interrupted' = interrupted BY <1>3
<1>11. CASE UNCHANGED books
  <2>1. BooksTyped' BY <1>7, <1>11
  <2> QED BY <1>1, <1>5, <1>8, <1>9, <1>10, <1>11, <2>1, EntriesStayPooled
<1>12. CASE Charge(u)
  <2>1. /\ BooksTyped' /\ u \notin Tickets /\ Tickets' = Tickets \cup {u}
        /\ ledger'["pool"] = ledger["pool"] + Fee[u]
    BY <1>6, <1>12, ChargeIsPooled
  <2> QED BY <1>1, <1>5, <1>8, <1>9, <1>10, <2>1, EntriesStayPooled
<1>13. UNCHANGED books \/ Charge(u)
  BY DEF Register, Handle, TakeSlot, HasSlot, Escrowed, Refused, Stray
<1> QED BY <1>5, <1>11, <1>12, <1>13

(* A table's report, the settlement, its errors and restarts.              *)
LEMMA ReportsPool ==
  ASSUME BracketOK, TypeOK, Pooled, NEW t \in DOMAIN winners, NEW w \in SeatedAt(alive, t),
         TableWon(t, w)
  PROVE  TypeOK' /\ Pooled'
<1>1. phase = "playing" /\ UNCHANGED <<books, calls, participants, interrupted>>
      /\ phase' = IF champion' = Nobody THEN phase ELSE "paying"
  BY DEF TableWon
<1>2. w \in Players BY SeatedPlayers DEF BracketOK
<1>3. round' \in Nat /\ champion' \in Players \cup {Nobody}
  BY <1>2 DEF TableWon, reportTableWinner, TypeOK
<1>4. TypeOK' BY <1>1, <1>3 DEF TypeOK, calls
<1>5. Pooled'
  <2>1. Outstanding' = Outstanding BY <1>1 DEF Outstanding, Tickets, HasTicket, books
  <2> QED BY <1>1, <2>1 DEF Pooled, BooksTyped, books, calls, HasTicket, At
<1> QED BY <1>4, <1>5

LEMMA PayPools ==
  ASSUME TypeOK, Pooled, Pay
  PROVE  TypeOK' /\ Pooled'
<1>1. /\ phase = "paying" /\ phase' = "releasing" /\ champion \in Players
      /\ PayOut(champion, participants, MAX_PLAYERS, 100)
      /\ interrupted' = (interrupted \/ ~participants \subseteq Tickets)
      /\ UNCHANGED <<bracket, calls, participants>>
  BY DEF Pay, TypeOK
<1>2. participants \in SUBSET Players /\ BooksTyped BY DEF TypeOK, Pooled
<1>3. BooksTyped' /\ Tickets' = Tickets /\ ledger'["pool"] = ledger["pool"] - Collected(participants)
  BY <1>1, <1>2, PayOutIsPooled
<1>4. TypeOK' BY <1>1 DEF TypeOK, bracket, calls
<1>5. ASSUME ~interrupted'
      PROVE  /\ ledger'["pool"] = Collected(Outstanding)'
             /\ (participants \subseteq Tickets)'
             /\ \A u \in roster' : (HasTicket(u) \/ At(u, "escrow"))'
  <2>1. ~interrupted /\ participants \subseteq Tickets BY <1>1, <1>5
  <2>2. Outstanding = Tickets /\ Outstanding' = Tickets \ participants
    BY <1>1, <1>3 DEF Outstanding
  <2>3. Collected(Tickets \ participants) = Collected(Tickets) - Collected(participants)
    <3>1. Tickets \in SUBSET Players BY DEF Tickets
    <3> QED BY <2>1, <3>1, FeesAddUp
  <2>4. ledger'["pool"] = Collected(Outstanding') BY <1>3, <2>1, <2>2, <2>3 DEF Pooled
  <2>5. \A u \in roster' : (HasTicket(u) \/ At(u, "escrow"))'
    <3>1. \A u \in roster : u \in Players /\ (u \in Tickets \/ At(u, "escrow"))
      BY <1>1, <2>1 DEF Pooled, TypeOK, Tickets
    <3>2. \A u \in Players : u \in Tickets' => HasTicket(u)' BY DEF Tickets
    <3> QED BY <1>1, <1>3, <3>1, <3>2 DEF calls, At
  <2> QED BY <1>1, <1>3, <2>1, <2>4, <2>5
<1> QED BY <1>1, <1>3, <1>4, <1>5 DEF Pooled

LEMMA ClosingPools ==
  ASSUME BracketOK, TypeOK, Pooled,
         ReleaseAll \/ Finish \/ PayoutRefused \/ SettlementFails \/ Restart
  PROVE  TypeOK' /\ Pooled'
<1>1. CASE ReleaseAll
  <2>1. /\ phase = "releasing" /\ phase' = "done" /\ refs' = refs \ Released(participants)
        /\ UNCHANGED <<ledger, cached, participants, interrupted>>
        /\ UNCHANGED <<bracket, calls>>
    BY <1>1 DEF ReleaseAll
  <2>2. TypeOK' BY <2>1 DEF TypeOK, bracket, calls
  <2>3. Outstanding' = Outstanding
    <3>1. \A u \in Players : EntryRef(u) \in Released(participants) <=> u \in participants
      BY DEF Released, EntryRef, RefundRef, PayoutRef
    <3>2. Tickets' = Tickets \ participants BY <2>1, <3>1 DEF Tickets, HasTicket
    <3> QED BY <2>1, <3>2 DEF Outstanding
  <2> QED BY <2>1, <2>2, <2>3 DEF Pooled, BooksTyped
<1>2. CASE Finish
  <2>1. /\ phase = "done" /\ phase' = "forming" /\ participants' = {} /\ roster' = {}
        /\ registering' = Orphaned /\ CloseBracket /\ UNCHANGED <<books, interrupted>>
    BY <1>2 DEF Finish
  <2>2. TypeOK' BY <2>1 DEF TypeOK, CloseBracket, Orphaned
  <2>3. Outstanding' = Outstanding BY <2>1 DEF Outstanding, Tickets, HasTicket, books
  <2> QED BY <2>1, <2>2, <2>3 DEF Pooled, BooksTyped, books
<1>3. CASE PayoutRefused \/ SettlementFails
  <2>1. /\ phase' = "forming" /\ participants' = {} /\ interrupted' = TRUE
        /\ CloseBracket /\ UNCHANGED <<books, calls>>
    BY <1>3 DEF PayoutRefused, SettlementFails, AfterError
  <2>2. TypeOK' BY <2>1 DEF TypeOK, CloseBracket, calls
  <2> QED BY <2>1, <2>2 DEF Pooled, BooksTyped, books
<1>4. CASE Restart
  <2>1. /\ roster' = {} /\ registering' = [u \in Players |-> "no"] /\ phase' = "forming"
        /\ participants' = {} /\ CloseBracket /\ UNCHANGED books
        /\ interrupted' = (interrupted \/ phase = "releasing")
    BY <1>4 DEF Restart
  <2>2. TypeOK' BY <2>1 DEF TypeOK, CloseBracket
  <2>3. phase # "releasing" => Outstanding' = Outstanding
    BY <2>1 DEF Outstanding, Tickets, HasTicket, books
  <2> QED BY <2>1, <2>2, <2>3 DEF Pooled, BooksTyped, books
<1> QED BY <1>1, <1>2, <1>3, <1>4

LEMMA PooledInit == Init => TypeOK /\ Pooled
<1> SUFFICES ASSUME Init PROVE TypeOK /\ Pooled
  OBVIOUS
<1>1. TypeOK BY DEF Init, BracketInit, TypeOK
<1>2. BooksTyped /\ refs = {} /\ ledger["pool"] = 0
  BY LedgerAssumption, TournamentMoneyAssumption DEF Init, LedgerInit, BooksTyped, Accounts
<1>3. Outstanding = {} BY <1>2 DEF Init, Outstanding, Tickets, HasTicket
<1>4. Collected({}) = 0
  <2>1. Collected({}) = Collected({} \ {}) /\ Collected({} \ {}) = Collected({}) - Collected({})
    BY FeesAddUp
  <2>2. Collected({}) \in Nat BY FeesAddUp
  <2> QED BY <2>1, <2>2
<1> QED BY <1>1, <1>2, <1>3, <1>4 DEF Pooled, Init

(* multi-table-manager.ts:41: until a settlement is cut short or pays out  *)
(* an entry it never had, the pool of a live tournament holds exactly the  *)
(* entries that tickets are for, and a slot is an entry escrowed or being  *)
(* escrowed: for any fees, players, sizes and number of tournaments.       *)
THEOREM PoolHoldsTheEntries == Spec => []EntriesArePooled
<1>1. BracketOK /\ TypeOK /\ Pooled /\ [Next]_vars => TypeOK' /\ Pooled'
  <2> SUFFICES ASSUME BracketOK, TypeOK, Pooled, [Next]_vars PROVE TypeOK' /\ Pooled'
    OBVIOUS
  <2>1. CASE UNCHANGED vars
    <3>1. TypeOK' BY <2>1 DEF vars, calls, start, bracket, TypeOK
    <3>2. Outstanding' = Outstanding
      BY <2>1 DEF vars, start, Outstanding, Tickets, HasTicket, books
    <3> QED BY <2>1, <3>1, <3>2
          DEF vars, calls, start, books, Pooled, BooksTyped, Tickets, HasTicket, At
  <2>2. CASE Works
    <3>1. CASE Play BY <3>1, ReportsPool DEF Play
    <3>2. CASE Settle BY <3>2, PayPools, ClosingPools DEF Settle
    <3> QED BY <2>2, <3>1, <3>2, HandlersPool DEF Works
  <2>3. CASE Mishap BY <2>3, ClosingPools DEF Mishap
  <2> QED BY <2>1, <2>2, <2>3 DEF Next
<1>2. TypeOK /\ Pooled => EntriesArePooled
  BY DEF Pooled, EntriesArePooled, Outstanding
<1>3. Init => BracketOK BY InitBracket
<1>4. BracketOK /\ [Next]_vars => BracketOK' BY NextBracket
<1> QED BY PooledInit, <1>1, <1>2, <1>3, <1>4, PTL DEF Spec

-----------------------------------------------------------------------------
(* Places.  Whoever is still standing has place 0, better than any given.  *)

Better(st, pl, u) == {v \in Users : (v \in st \/ pl[v] # 0) /\ pl[v] < pl[u]}
Ranking(st, pl) ==
  /\ st \subseteq Users /\ pl \in [Users -> Nat]
  /\ \A u \in Users : pl[u] # 0 => pl[u] = 1 + Cardinality(Better(st, pl, u))
OpenPlaces(st, pl) ==
  \A u \in Users : /\ u \in st => pl[u] = 0
                   /\ pl[u] # 0 => pl[u] > Cardinality(st)
Ranked(st, pl) == Ranking(st, pl) /\ OpenPlaces(st, pl)

LEMMA UsersAreFinite ==
  ASSUME NEW S \in SUBSET Users
  PROVE  IsFiniteSet(S) /\ Cardinality(S) \in Nat /\ Cardinality(S) <= Cardinality(Users)
         /\ Cardinality(Users) \in Nat
BY BracketAssumption, FS_Subset, FS_CardinalityType

(* Of two who go out together the one with more chips has fewer ahead.     *)
Richer(us, chips, u) == {v \in us : chips[v] > chips[u]}
LEMMA RicherIs ==
  ASSUME NEW us \in SUBSET Users, NEW chips \in [us -> Nat], NEW u \in us, NEW v \in us
  PROVE  /\ Cardinality(Richer(us, chips, u)) \in Nat
         /\ Cardinality(Richer(us, chips, u)) < Cardinality(us)
         /\ Cardinality(Richer(us, chips, v)) < Cardinality(Richer(us, chips, u))
              <=> chips[v] > chips[u]
<1> DEFINE R(x) == Richer(us, chips, x)
<1>1. \A x \in us : chips[x] \in Nat OBVIOUS
<1>2. \A x \in us : R(x) \in SUBSET us /\ R(x) \in SUBSET Users /\ x \notin R(x)
  BY <1>1 DEF Richer
<1>3. \A x \in us : IsFiniteSet(R(x)) /\ Cardinality(R(x)) \in Nat BY <1>2, UsersAreFinite
<1>4. Cardinality(R(u)) < Cardinality(us)
  <2>1. IsFiniteSet(us) /\ Cardinality(us) \in Nat BY UsersAreFinite
  <2>2. Cardinality(R(u)) <= Cardinality(us) /\ Cardinality(R(u)) # Cardinality(us)
    BY <1>2, <2>1, FS_Subset
  <2> QED BY <1>3, <2>1, <2>2
<1>5. ASSUME chips[v] > chips[u] PROVE Cardinality(R(v)) < Cardinality(R(u))
  <2>1. R(v) \in SUBSET R(u) /\ v \in R(u) /\ v \notin R(v) BY <1>1, <1>2, <1>5 DEF Richer
  <2>2. Cardinality(R(v)) <= Cardinality(R(u)) /\ Cardinality(R(v)) # Cardinality(R(u))
    BY <1>3, <2>1, FS_Subset
  <2> QED BY <1>3, <2>2
<1>6. ASSUME ~(chips[v] > chips[u]) PROVE ~(Cardinality(R(v)) < Cardinality(R(u)))
  <2>1. R(u) \in SUBSET R(v) BY <1>1, <1>6 DEF Richer
  <2>2. Cardinality(R(u)) <= Cardinality(R(v)) BY <1>3, <2>1, FS_Subset
  <2> QED BY <1>3, <2>2
<1> QED BY <1>3, <1>4, <1>5, <1>6

(* Whoever goes out is given the places after those still standing, and    *)
(* everybody who was out before keeps as many ahead.                       *)
LEMMA OutIsRanked ==
  ASSUME NEW b, Ranked(b.standing, b.place),
         NEW us \in SUBSET b.standing, NEW chips \in [us -> Nat]
  PROVE  LET k == knockOut(us, chips, b)
         IN k.standing = b.standing \ us /\ Ranked(k.standing, k.place)
<1> DEFINE st == b.standing
           pl == b.place
           k == knockOut(us, chips, b)
           st2 == st \ us
           pl2 == k.place
           n == Cardinality(st2)
<1>1. /\ st \in SUBSET Users /\ pl \in [Users -> Nat] /\ us \in SUBSET Users /\ st2 \in SUBSET Users
      /\ \A u \in Users : pl[u] # 0 => pl[u] = 1 + Cardinality(Better(st, pl, u))
      /\ \A u \in Users : u \in st => pl[u] = 0
      /\ \A u \in Users : pl[u] # 0 => pl[u] > Cardinality(st)
  BY DEF Ranked, Ranking, OpenPlaces
<1>2. /\ IsFiniteSet(st) /\ IsFiniteSet(us) /\ IsFiniteSet(st2)
      /\ Cardinality(st) \in Nat /\ Cardinality(us) \in Nat /\ n \in Nat
      /\ Cardinality(st) = n + Cardinality(us)
  <2>1. /\ IsFiniteSet(st) /\ IsFiniteSet(us) /\ IsFiniteSet(st2)
        /\ Cardinality(st) \in Nat /\ Cardinality(us) \in Nat /\ n \in Nat
    BY <1>1, UsersAreFinite
  <2>2. st = us \cup st2 /\ us \cap st2 = {} OBVIOUS
  <2>3. Cardinality(us \cup st2) = Cardinality(us) + Cardinality(st2) - Cardinality(us \cap st2)
    BY <2>1, FS_Union
  <2>4. Cardinality(us \cap st2) = 0 BY <2>2, FS_EmptySet
  <2> HIDE DEF st, st2, n
  <2> QED BY <2>1, <2>2, <2>3, <2>4 DEF n
<1>3. k.standing = st2 BY DEF knockOut
<1>4. /\ \A u \in us : pl2[u] = n + 1 + Cardinality(Richer(us, chips, u))
      /\ \A u \in Users \ us : pl2[u] = pl[u]
      /\ pl2 = [u \in Users |-> pl2[u]]
  BY <1>1 DEF knockOut, PlacesOf, Richer
<1>5. \A u \in us : /\ pl2[u] \in Nat /\ pl2[u] > n /\ pl2[u] <= Cardinality(st)
                    /\ Cardinality(Richer(us, chips, u)) \in Nat
  <2> TAKE u \in us
  <2>1. /\ Cardinality(Richer(us, chips, u)) \in Nat
        /\ Cardinality(Richer(us, chips, u)) < Cardinality(us)
    BY <1>1, RicherIs
  <2>2. pl2[u] = n + 1 + Cardinality(Richer(us, chips, u)) BY <1>4
  <2> HIDE DEF st, pl2, n
  <2> QED BY <1>2, <2>1, <2>2
<1> HIDE DEF st, pl, k, st2, pl2, n
<1>6. pl2 \in [Users -> Nat]
  <2>1. \A u \in Users : pl2[u] \in Nat BY <1>1, <1>4, <1>5
  <2> QED BY <1>4, <2>1
<1>7. OpenPlaces(st2, pl2)
  <2>1. \A u \in st2 : u \in st /\ u \notin us BY DEF st2
  <2>2. ASSUME NEW u \in Users, u \in st2 PROVE pl2[u] = 0 BY <1>1, <1>4, <2>1, <2>2
  <2>3. ASSUME NEW u \in Users, pl2[u] # 0 PROVE pl2[u] > Cardinality(st2)
    <3>1. CASE u \in us BY <1>5, <3>1 DEF n
    <3>2. CASE u \notin us
      <4>1. pl[u] > Cardinality(st) /\ pl2[u] = pl[u] /\ pl[u] \in Nat BY <1>1, <1>4, <2>3, <3>2
      <4>2. Cardinality(st2) = n BY DEF n
      <4> QED BY <1>2, <4>1, <4>2
    <3> QED BY <3>1, <3>2
  <2> QED BY <2>2, <2>3 DEF OpenPlaces
<1>8. ASSUME NEW u \in Users, pl2[u] # 0 PROVE pl2[u] = 1 + Cardinality(Better(st2, pl2, u))
  <2>1. CASE u \notin us
    <3>1. pl2[u] = pl[u] /\ pl[u] # 0 /\ pl[u] > Cardinality(st) /\ pl[u] \in Nat
      BY <1>1, <1>4, <1>8, <2>1
    <3>2. \A v \in Users : (v \in st2 \/ pl2[v] # 0) /\ pl2[v] < pl2[u]
                             <=> (v \in st \/ pl[v] # 0) /\ pl[v] < pl[u]
      <4> TAKE v \in Users
      <4>1. CASE v \in us
        <5>1. pl2[v] > n /\ pl2[v] <= Cardinality(st) /\ pl2[v] \in Nat BY <1>5, <4>1
        <5>2. pl2[v] # 0 /\ pl2[v] < pl2[u] BY <1>2, <3>1, <5>1
        <5>3. v \in st /\ pl[v] = 0 BY <1>1, <4>1 DEF st
        <5>4. pl[v] < pl[u] BY <3>1, <5>3
        <5> QED BY <5>2, <5>3, <5>4
      <4>2. CASE v \notin us
        <5>1. pl2[v] = pl[v] BY <1>4, <4>2
        <5>2. v \in st2 <=> v \in st BY <4>2 DEF st2
        <5> QED BY <3>1, <5>1, <5>2
      <4> QED BY <4>1, <4>2
    <3>3. Better(st2, pl2, u) = Better(st, pl, u) BY <3>2 DEF Better
    <3> QED BY <1>1, <3>1, <3>3
  <2>2. CASE u \in us
    <3> DEFINE rich == Richer(us, chips, u)
    <3>1. \A v \in Users : (v \in st2 \/ pl2[v] # 0) /\ pl2[v] < pl2[u] <=> v \in st2 \/ v \in rich
      <4> TAKE v \in Users
      <4>1. pl2[u] \in Nat /\ pl2[u] > n /\ pl2[u] <= Cardinality(st) BY <1>5, <2>2
      <4>2. CASE v \in st2
        <5>1. pl2[v] = 0 BY <1>7, <4>2 DEF OpenPlaces
        <5> QED BY <1>2, <4>1, <4>2, <5>1
      <4>3. CASE v \in us
        <5>1. /\ pl2[v] = n + 1 + Cardinality(Richer(us, chips, v))
              /\ pl2[u] = n + 1 + Cardinality(Richer(us, chips, u))
              /\ Cardinality(Richer(us, chips, v)) \in Nat /\ Cardinality(Richer(us, chips, u)) \in Nat
          BY <1>4, <1>5, <2>2, <4>3
        <5>2. Cardinality(Richer(us, chips, v)) < Cardinality(Richer(us, chips, u))
                <=> chips[v] > chips[u]
          BY <1>1, <2>2, <4>3, RicherIs
        <5>3. pl2[v] < pl2[u] <=> chips[v] > chips[u] BY <1>2, <5>1, <5>2
        <5>4. v \in rich <=> chips[v] > chips[u] BY <4>3 DEF Richer
        <5>5. pl2[v] # 0 BY <1>2, <5>1
        <5>6. v \notin st2 BY <4>3 DEF st2
        <5> QED BY <5>3, <5>4, <5>5, <5>6
      <4>4. CASE v \notin st2 /\ v \notin us
        <5>1. v \notin rich BY <4>4 DEF Richer
        <5>2. pl2[v] = pl[v] BY <1>4, <4>4
        <5>3. pl[v] # 0 => pl[v] > Cardinality(st) /\ pl[v] \in Nat BY <1>1
        <5>4. pl2[v] # 0 => ~(pl2[v] < pl2[u]) BY <1>2, <4>1, <5>2, <5>3
        <5> QED BY <4>4, <5>1, <5>4
      <4> QED BY <4>2, <4>3, <4>4
    <3>2. rich \in SUBSET us /\ rich \in SUBSET Users /\ rich \cap st2 = {} BY <1>1 DEF Richer, st2
    <3>3. Better(st2, pl2, u) = st2 \cup rich BY <1>1, <3>1, <3>2 DEF Better
    <3>4. IsFiniteSet(rich) /\ Cardinality(rich) \in Nat BY <3>2, UsersAreFinite
    <3> HIDE DEF rich
    <3>5. Cardinality(st2 \cup rich) = Cardinality(st2) + Cardinality(rich) - Cardinality(st2 \cap rich)
      BY <1>2, <3>4, FS_Union
    <3>6. Cardinality(st2 \cap rich) = 0
      <4>1. st2 \cap rich = {} BY <3>2
      <4> QED BY <4>1, FS_EmptySet
    <3>7. pl2[u] = n + 1 + Cardinality(rich) BY <1>4, <2>2 DEF rich
    <3> QED BY <1>2, <3>3, <3>4, <3>5, <3>6, <3>7 DEF n
  <2> QED BY <2>1, <2>2
<1> QED BY <1>1, <1>3, <1>6, <1>7, <1>8 DEF Ranked, Ranking, k, st, pl, st2, pl2

(* The last one standing takes the first place.                            *)
LEMMA LastIsFirst ==
  ASSUME NEW w \in Users, NEW pl, Ranked({w}, pl)
  PROVE  Ranking({w}, [pl EXCEPT ![w] = 1])
<1> DEFINE pl2 == [pl EXCEPT ![w] = 1]
<1>1. /\ pl \in [Users -> Nat] /\ pl[w] = 0
      /\ \A u \in Users : pl[u] # 0 => pl[u] > Cardinality({w}) /\ pl[u] = 1 + Cardinality(Better({w}, pl, u))
  BY DEF Ranked, Ranking, OpenPlaces
<1>2. Cardinality({w}) = 1 BY FS_Singleton
<1>3. pl2 \in [Users -> Nat] /\ pl2[w] = 1 /\ \A u \in Users \ {w} : pl2[u] = pl[u] BY <1>1
<1> HIDE DEF pl2
<1>4. Better({w}, pl2, w) = {}
  <2>1. \A v \in Users : (v = w \/ pl2[v] # 0) => ~(pl2[v] < pl2[w])
    <3> TAKE v \in Users
    <3>1. pl2[v] \in Nat /\ pl2[w] = 1 BY <1>3
    <3> QED BY <3>1
  <2> QED BY <2>1 DEF Better
<1>5. ASSUME NEW u \in Users, pl2[u] # 0 PROVE pl2[u] = 1 + Cardinality(Better({w}, pl2, u))
  <2>1. CASE u = w
    <3>1. Cardinality(Better({w}, pl2, u)) = 0 BY <1>4, <2>1, FS_EmptySet
    <3> QED BY <1>3, <2>1, <3>1
  <2>2. CASE u # w
    <3>1. pl2[u] = pl[u] /\ pl[u] # 0 /\ pl[u] > 1 /\ pl[u] \in Nat BY <1>1, <1>2, <1>3, <1>5, <2>2
    <3>2. \A v \in Users : (v \in {w} \/ pl2[v] # 0) /\ pl2[v] < pl2[u]
                             <=> (v \in {w} \/ pl[v] # 0) /\ pl[v] < pl[u]
      <4> TAKE v \in Users
      <4>1. CASE v = w BY <1>1, <1>3, <3>1, <4>1
      <4>2. CASE v # w
        <5>1. pl2[v] = pl[v] BY <1>3, <4>2
        <5> QED BY <3>1, <4>2, <5>1
      <4> QED BY <4>1, <4>2
    <3>3. Better({w}, pl2, u) = Better({w}, pl, u) BY <3>2 DEF Better
    <3> QED BY <1>1, <3>1, <3>3
  <2> QED BY <2>1, <2>2
<1> QED BY <1>3, <1>5 DEF Ranking, pl2

-----------------------------------------------------------------------------
(* Seats.  The tables of a round split the players between them.           *)

Seated(s) == s \in Seq(Users) /\ Len(s) >= 1 /\ \A i, j \in 1..Len(s) : s[i] = s[j] => i = j
In(s) == {s[i] : i \in 1..Len(s)}

LEMMA TablesAre ==
  ASSUME NEW s, Seated(s)
  PROVE  /\ NumTables(Len(s)) \in Nat /\ NumTables(Len(s)) >= 1 /\ Len(s) \in Nat
         /\ Tables(s) = 1..NumTables(Len(s)) /\ 1 \in Tables(s)
         /\ In(s) \in SUBSET Users
<1>1. Len(s) \in Nat /\ Len(s) >= 1 /\ \A i \in 1..Len(s) : s[i] \in Users BY DEF Seated
<1>2. NumTables(Len(s)) \in Nat /\ NumTables(Len(s)) >= 1 BY <1>1, EnoughTables
<1> QED BY <1>1, <1>2 DEF Tables, In

LEMMA TablesSplit ==
  ASSUME NEW s, Seated(s)
  PROVE  /\ \A t \in Tables(s) : SeatedAt(s, t) \subseteq Users
         /\ \A t, r \in Tables(s) : t # r => SeatedAt(s, t) \cap SeatedAt(s, r) = {}
         /\ In(s) = UNION {SeatedAt(s, t) : t \in Tables(s)}
<1> DEFINE n == NumTables(Len(s))
           seats(t) == {j \in 1..Len(s) : (j - 1) % n = t - 1}
<1>1. n \in Nat /\ n >= 1 /\ Tables(s) = 1..n BY TablesAre
<1>2. \A t : SeatedAt(s, t) = {s[i] : i \in seats(t)} BY DEF SeatedAt
<1>3. Len(s) \in Nat /\ \A i \in 1..Len(s) : s[i] \in Users BY DEF Seated
<1>4. \A i, j \in 1..Len(s) : s[i] = s[j] => i = j BY DEF Seated
<1>5. \A j \in 1..Len(s) : (j - 1) % n \in 0..n - 1
  <2> TAKE j \in 1..Len(s)
  <2>1. j - 1 \in Nat BY <1>3
  <2> HIDE DEF n
  <2> QED BY <1>1, <2>1
<1> HIDE DEF n
<1>6. ASSUME NEW t \in Tables(s), NEW r \in Tables(s), t # r
      PROVE  SeatedAt(s, t) \cap SeatedAt(s, r) = {}
  <2>1. SUFFICES ASSUME NEW i \in seats(t), NEW j \in seats(r), s[i] = s[j] PROVE FALSE
    BY <1>2
  <2>2. i = j BY <1>4, <2>1
  <2>3. (i - 1) % n = t - 1 /\ (i - 1) % n = r - 1 BY <2>1, <2>2
  <2>4. t \in Int /\ r \in Int BY <1>1
  <2> QED BY <1>6, <2>3, <2>4
<1>7. In(s) = UNION {SeatedAt(s, t) : t \in Tables(s)}
  <2>1. ASSUME NEW i \in 1..Len(s) PROVE \E t \in Tables(s) : i \in seats(t)
    <3> DEFINE t == ((i - 1) % n) + 1
    <3>1. (i - 1) % n \in 0..n - 1 BY <1>5
    <3>2. t \in 1..n /\ (i - 1) % n = t - 1 BY <1>1, <3>1
    <3> QED BY <1>1, <3>2
  <2>2. \A t \in Tables(s) : seats(t) \subseteq 1..Len(s) OBVIOUS
  <2> HIDE DEF seats
  <2> QED BY <1>2, <2>1, <2>2 DEF In
<1>8. \A t \in Tables(s) : SeatedAt(s, t) \subseteq Users BY <1>2, <1>3
<1> QED BY <1>6, <1>7, <1>8

(* The winners of a round's tables are the players of the next.            *)
LEMMA WinnersAreSeated ==
  ASSUME NEW s, Seated(s), NEW w \in [Tables(s) -> Users], \A t \in Tables(s) : w[t] \in SeatedAt(s, t)
  PROVE  Seated(w) /\ In(w) = {w[t] : t \in Tables(s)}
<1> DEFINE n == NumTables(Len(s))
<1>1. n \in Nat /\ n >= 1 /\ Tables(s) = 1..n BY TablesAre
<1>2. \A t, r \in Tables(s) : w[t] = w[r] => t = r BY TablesSplit
<1> HIDE DEF n
<1>3. w \in Seq(Users) /\ Len(w) = n BY <1>1
<1> QED BY <1>1, <1>2, <1>3 DEF Seated, In

(* A field in any order of its players.                                    *)
LEMMA FieldIsSeated ==
  ASSUME NEW us \in SUBSET Users, Cardinality(us) >= 1, NEW s \in Seatings(us)
  PROVE  Seated(s) /\ In(s) = us
<1> DEFINE n == Cardinality(us)
<1>1. IsFiniteSet(us) /\ n \in Nat BY UsersAreFinite
<1>2. s \in [1..n -> us] /\ \A i, j \in 1..n : s[i] = s[j] => i = j BY DEF Seatings
<1> HIDE DEF n
<1>3. s \in Seq(Users) /\ Len(s) = n /\ n >= 1 BY <1>1, <1>2 DEF n
<1>4. \A u \in us : \E i \in 1..n : s[i] = u
  <2>1. s \in Injection(1..n, us) BY <1>2 DEF Injection, IsInjective
  <2>2. Cardinality(1..n) = n BY <1>1, FS_Interval
  <2>3. s \in Surjection(1..n, us) BY <1>1, <2>1, <2>2, FS_Injection DEF n
  <2> QED BY <2>3 DEF Surjection
<1> QED BY <1>2, <1>3, <1>4 DEF Seated, In

-----------------------------------------------------------------------------
(* The bracket and its tables.  Between rounds everybody in it stands; in  *)
(* a round those at the tables do, a decided table holding its winner.     *)

Pause ==
  playing = <<>> /\ dealt = <<>> /\ winners = Pending(alive) /\ standing = In(alive)
AtTables ==
  /\ playing \in [Tables(alive) -> SUBSET Users] /\ DOMAIN dealt = Tables(alive)
  /\ winners \in [Tables(alive) -> Users \cup {Nobody}]
  /\ \A t \in Tables(alive) : /\ playing[t] \subseteq SeatedAt(alive, t)
                              /\ winners[t] # Nobody => playing[t] = {winners[t]}
  /\ standing = UNION {playing[t] : t \in Tables(alive)}
NoPlay == playing = <<>> /\ dealt = <<>>

PlayInv ==
  /\ round \in Nat /\ Ranking(standing, place)
  /\ round = 0 => /\ NoPlay /\ alive = <<>> /\ champion = Nobody /\ standing = {}
                  /\ \A u \in Users : place[u] = 0
  /\ round > 0 /\ champion = Nobody =>
       OpenPlaces(standing, place) /\ Seated(alive) /\ (Pause \/ AtTables)
  /\ round > 0 /\ champion # Nobody => NoPlay /\ champion \in Users /\ place[champion] = 1
ConnInv ==
  /\ entrant \in [Users -> {"no", "live", "away"}] /\ asking \subseteq Users
  /\ clock \in {"before", "time", "anyway"} /\ starting \in {"no", "event", "plans"}
  /\ standing \subseteq Held /\ due \subseteq {u \in standing : entrant[u] = "away"}
RankInv == PlayInv /\ ConnInv

LEMMA RankInvImplies == RankInv => RankingIsComplete
<1> SUFFICES ASSUME RankInv PROVE RankingIsComplete
  OBVIOUS
<1>1. Ranking(standing, place) /\ round \in Nat BY DEF RankInv, PlayInv
<1>2. ASSUME NEW u \in Users, place[u] # 0
      PROVE  /\ place[u] = 1 + Cardinality({v \in Starters : place[v] < place[u]})
             /\ place[u] \in 0..Cardinality(Users)
  <2>1. Better(standing, place, u) = {v \in Starters : place[v] < place[u]} BY DEF Better, Starters
  <2>2. place[u] = 1 + Cardinality(Better(standing, place, u)) BY <1>1, <1>2 DEF Ranking
  <2>3. place[u] \in Nat BY <1>1 DEF Ranking
  <2>4. Better(standing, place, u) \in SUBSET Users /\ u \notin Better(standing, place, u)
    BY <2>3 DEF Better
  <2>5. IsFiniteSet(Users) /\ Cardinality(Users) \in Nat BY UsersAreFinite
  <2>6. /\ Cardinality(Better(standing, place, u)) \in Nat
        /\ Cardinality(Better(standing, place, u)) <= Cardinality(Users)
        /\ Cardinality(Better(standing, place, u)) # Cardinality(Users)
    BY <2>4, <2>5, FS_Subset, UsersAreFinite
  <2> QED BY <2>1, <2>2, <2>3, <2>5, <2>6
<1>3. place \in [Users -> 0..Cardinality(Users)]
  <2>1. place \in [Users -> Nat] /\ Cardinality(Users) \in Nat BY <1>1, UsersAreFinite DEF Ranking
  <2>2. \A u \in Users : place[u] = 0 => place[u] \in 0..Cardinality(Users) BY <2>1
  <2> QED BY <1>2, <2>1, <2>2
<1>4. DOMAIN playing = DOMAIN dealt
  BY <1>1 DEF RankInv, PlayInv, NoPlay, Pause, AtTables
<1>5. PromoTypeOK BY <1>3, <1>4 DEF RankInv, ConnInv, PromoTypeOK
<1>6. ASSUME champion = Nobody PROVE standing = StillIn
  <2>1. CASE round = 0 BY <1>6, <2>1 DEF RankInv, PlayInv, NoPlay, StillIn
  <2>2. CASE round > 0 /\ Pause
    <3>1. Seated(alive) BY <1>6, <2>2 DEF RankInv, PlayInv
    <3>2. DOMAIN alive = 1..Len(alive) BY <3>1 DEF Seated
    <3> QED BY <2>2, <3>2 DEF Pause, StillIn, In
  <2>3. CASE round > 0 /\ AtTables
    <3>1. Seated(alive) BY <1>6, <2>3 DEF RankInv, PlayInv
    <3>2. DOMAIN playing = Tables(alive) /\ 1 \in Tables(alive) BY <2>3, <3>1, TablesAre DEF AtTables
    <3>3. playing # <<>> BY <3>2
    <3> QED BY <2>3, <3>2, <3>3 DEF AtTables, StillIn
  <2> QED BY <1>1, <1>6, <2>1, <2>2, <2>3 DEF RankInv, PlayInv
<1>7. champion # Nobody => place[champion] = 1 BY <1>1 DEF RankInv, PlayInv
<1>8. \A u \in Starters : place[u] # 0 =>
        place[u] = 1 + Cardinality({v \in Starters : place[v] < place[u]})
  BY <1>2 DEF Starters
<1> QED BY <1>5, <1>6, <1>7, <1>8 DEF RankingIsComplete

LEMMA SamePlay ==
  ASSUME PlayInv, UNCHANGED <<bracket, standing, place, playing, dealt>>
  PROVE  PlayInv'
BY DEF PlayInv, bracket, Pause, AtTables, NoPlay

(* The table t plays in the round, and is not decided.                     *)
LEMMA TableOf ==
  ASSUME PlayInv, NEW t \in DOMAIN playing
  PROVE  /\ round > 0 /\ round \in Nat /\ champion = Nobody /\ Seated(alive) /\ AtTables
         /\ t \in Tables(alive) /\ Ranked(standing, place) /\ playing[t] \subseteq standing
<1>1. playing # <<>> BY SMT
<1>2. round \in Nat /\ round > 0 /\ champion = Nobody BY <1>1 DEF PlayInv, NoPlay
<1>3. AtTables /\ Seated(alive) BY <1>1, <1>2 DEF PlayInv, Pause
<1>4. t \in Tables(alive) /\ playing[t] \subseteq standing BY <1>3 DEF AtTables
<1> QED BY <1>2, <1>3, <1>4 DEF PlayInv, Ranked

-----------------------------------------------------------------------------
(* A table is down to some of its players. *)

(* Those who are left, at this table and the others, still stand.          *)
LEMMA OthersStand ==
  ASSUME AtTables, Seated(alive), NEW t \in Tables(alive), NEW out \in SUBSET playing[t]
  PROVE  LET now == [playing EXCEPT ![t] = playing[t] \ out]
         IN /\ now \in [Tables(alive) -> SUBSET Users]
            /\ \A r \in Tables(alive) : now[r] \subseteq SeatedAt(alive, r)
            /\ \A r \in Tables(alive) : r # t => now[r] = playing[r]
            /\ now[t] = playing[t] \ out
            /\ standing \ out = UNION {now[r] : r \in Tables(alive)}
<1> DEFINE now == [playing EXCEPT ![t] = playing[t] \ out]
<1>1. /\ playing \in [Tables(alive) -> SUBSET Users]
      /\ \A r \in Tables(alive) : playing[r] \subseteq SeatedAt(alive, r)
      /\ standing = UNION {playing[r] : r \in Tables(alive)}
  BY DEF AtTables
<1>2. \A r \in Tables(alive) : r # t => playing[r] \cap out = {} BY <1>1, TablesSplit
<1>3. /\ now \in [Tables(alive) -> SUBSET Users] /\ now[t] = playing[t] \ out
      /\ \A r \in Tables(alive) : r # t => now[r] = playing[r]
  BY <1>1
<1> HIDE DEF now
<1>4. \A r \in Tables(alive) : now[r] = playing[r] \ out BY <1>2, <1>3
<1>5. standing \ out = UNION {now[r] : r \in Tables(alive)} BY <1>1, <1>4
<1>6. \A r \in Tables(alive) : now[r] \subseteq SeatedAt(alive, r) BY <1>1, <1>4
<1> QED BY <1>3, <1>5, <1>6 DEF now

(* Whatever the tables report, a round that goes on agrees with them.      *)
StaysAtTables(t, left, b) ==
  /\ winners' \in [Tables(alive) -> Users \cup {Nobody}] /\ UNCHANGED <<alive, round, champion>>
  /\ \A r \in Tables(alive) : winners'[r] = winners[r] \/ (r = t /\ left = {winners'[r]})
  /\ standing' = b.standing /\ place' = b.place
  /\ playing' = [playing EXCEPT ![t] = left] /\ DOMAIN dealt' = Tables(alive)

LEMMA RoundGoesOn ==
  ASSUME PlayInv, NEW t \in DOMAIN playing, winners[t] = Nobody,
         NEW out \in SUBSET playing[t],
         NEW b, Ranked(b.standing, b.place), b.standing = standing \ out,
         StaysAtTables(t, playing[t] \ out, b)
  PROVE  PlayInv'
<1> DEFINE left == playing[t] \ out
           now == [playing EXCEPT ![t] = left]
<1>1. /\ round > 0 /\ round \in Nat /\ champion = Nobody /\ Seated(alive) /\ AtTables
      /\ t \in Tables(alive)
  BY TableOf
<1>2. /\ now \in [Tables(alive) -> SUBSET Users]
      /\ \A r \in Tables(alive) : now[r] \subseteq SeatedAt(alive, r)
      /\ \A r \in Tables(alive) : r # t => now[r] = playing[r]
      /\ now[t] = left
      /\ standing \ out = UNION {now[r] : r \in Tables(alive)}
  BY <1>1, OthersStand
<1>3. /\ playing' = now /\ standing' = standing \ out /\ place' = b.place
      /\ UNCHANGED <<alive, round, champion>> /\ DOMAIN dealt' = Tables(alive)
      /\ winners' \in [Tables(alive) -> Users \cup {Nobody}]
      /\ \A r \in Tables(alive) : winners'[r] = winners[r] \/ (r = t /\ left = {winners'[r]})
  BY DEF StaysAtTables
<1> HIDE DEF now, left
<1>4. \A r \in Tables(alive) : winners'[r] # Nobody => playing'[r] = {winners'[r]}
  BY <1>1, <1>2, <1>3 DEF AtTables
<1>5. AtTables' BY <1>2, <1>3, <1>4 DEF AtTables
<1>6. Ranked(standing', place') BY <1>3
<1> QED BY <1>1, <1>3, <1>5, <1>6 DEF PlayInv, Ranked

(* Every table is decided: its winners are who still stands.               *)
LEMMA AllDecided ==
  ASSUME PlayInv, NEW t \in DOMAIN playing, winners[t] = Nobody,
         NEW out \in SUBSET playing[t], NEW w, playing[t] \ out = {w},
         w \in SeatedAt(alive, t), AllReported([winners EXCEPT ![t] = w])
  PROVE  LET reported == [winners EXCEPT ![t] = w]
         IN Seated(reported) /\ In(reported) = standing \ out /\ w \in Users /\ reported[t] = w
<1> DEFINE reported == [winners EXCEPT ![t] = w]
           now == [playing EXCEPT ![t] = playing[t] \ out]
<1>1. Seated(alive) /\ AtTables /\ t \in Tables(alive) BY TableOf
<1>2. /\ \A r \in Tables(alive) : now[r] \subseteq SeatedAt(alive, r)
      /\ \A r \in Tables(alive) : r # t => now[r] = playing[r]
      /\ now[t] = playing[t] \ out
      /\ standing \ out = UNION {now[r] : r \in Tables(alive)}
  BY <1>1, OthersStand
<1>3. /\ winners \in [Tables(alive) -> Users \cup {Nobody}]
      /\ \A r \in Tables(alive) : winners[r] # Nobody => playing[r] = {winners[r]}
  BY <1>1 DEF AtTables
<1>4. w \in Users BY <1>1, TablesSplit
<1>5. /\ reported \in [Tables(alive) -> Users \cup {Nobody}] /\ reported[t] = w
      /\ \A r \in Tables(alive) : r # t => reported[r] = winners[r]
  BY <1>1, <1>3, <1>4
<1>6. \A r \in Tables(alive) : reported[r] # Nobody
  <2>1. AllReported(reported) OBVIOUS
  <2> HIDE DEF reported
  <2> QED BY <1>5, <2>1 DEF AllReported
<1> HIDE DEF reported, now
<1>7. \A r \in Tables(alive) : now[r] = {reported[r]} BY <1>2, <1>3, <1>5, <1>6
<1>8. reported \in [Tables(alive) -> Users] BY <1>5, <1>6
<1>9. \A r \in Tables(alive) : reported[r] \in SeatedAt(alive, r) BY <1>2, <1>7
<1>10. Seated(reported) /\ In(reported) = {reported[r] : r \in Tables(alive)}
  BY <1>1, <1>8, <1>9, WinnersAreSeated
<1>11. {reported[r] : r \in Tables(alive)} = standing \ out BY <1>2, <1>7
<1> QED BY <1>4, <1>5, <1>10, <1>11 DEF reported

LEMMA TableLeftHolds ==
  ASSUME PlayInv, NEW t \in DOMAIN playing, winners[t] = Nobody,
         NEW out \in SUBSET playing[t],
         NEW b, Ranked(b.standing, b.place), b.standing = standing \ out,
         TableLeft(t, playing[t] \ out, b)
  PROVE  PlayInv'
<1> DEFINE left == playing[t] \ out
<1>1. /\ round > 0 /\ round \in Nat /\ champion = Nobody /\ Seated(alive) /\ AtTables
      /\ t \in Tables(alive)
  BY TableOf
<1>2. /\ winners \in [Tables(alive) -> Users \cup {Nobody}] /\ DOMAIN winners = Tables(alive)
      /\ DOMAIN dealt = Tables(alive)
  BY <1>1 DEF AtTables
<1>3. Nobody \notin Users BY BracketAssumption
<1>4. /\ standing' = b.standing
      /\ IF champion' # Nobody \/ round' # round
         THEN playing' = <<>> /\ dealt' = <<>>
         ELSE playing' = [playing EXCEPT ![t] = left] /\ dealt' = [dealt EXCEPT ![t] = {}]
  BY DEF TableLeft
<1>5. CASE Cardinality(left) # 1
  <2>1. place' = b.place /\ UNCHANGED bracket BY <1>5 DEF TableLeft
  <2>2. StaysAtTables(t, left, b)
    BY <1>1, <1>2, <1>4, <2>1 DEF StaysAtTables, bracket
  <2> QED BY <2>2, RoundGoesOn
<1>6. CASE Cardinality(left) = 1
  <2>1. PICK w \in left : /\ reportTableWinner(t, w)
                          /\ place' = IF champion' # Nobody THEN [b.place EXCEPT ![w] = 1] ELSE b.place
    BY <1>6 DEF TableLeft
  <2>2. left = {w}
    <3>1. left \in SUBSET Users BY <1>1 DEF AtTables
    <3>2. IsFiniteSet(left) BY <3>1, UsersAreFinite
    <3>3. PICK x : left = {x} BY <1>6, <3>2, FS_Singleton
    <3> QED BY <3>3
  <2> DEFINE reported == [winners EXCEPT ![t] = w]
  <2>3. /\ w \in SeatedAt(alive, t)
        /\ \/ ~AllReported(reported) /\ winners' = reported /\ UNCHANGED <<alive, round, champion>>
           \/ /\ AllReported(reported) /\ alive' = reported
              /\ IF DOMAIN winners = {1}
                 THEN champion' = w /\ winners' = <<>> /\ UNCHANGED round
                 ELSE round' = round + 1 /\ winners' = Pending(reported) /\ UNCHANGED champion
    BY <2>1 DEF reportTableWinner
  <2>4. w \in Users BY <1>1, <2>3, TablesSplit
  <2>5. CASE ~AllReported(reported)
    <3>1. winners' = reported /\ UNCHANGED <<alive, round, champion>> BY <2>3, <2>5
    <3>2. place' = b.place BY <1>1, <2>1, <3>1
    <3>3. /\ reported \in [Tables(alive) -> Users \cup {Nobody}] /\ reported[t] = w
          /\ \A r \in Tables(alive) : r # t => reported[r] = winners[r]
      BY <1>1, <1>2, <2>4
    <3> HIDE DEF reported
    <3>4. StaysAtTables(t, left, b)
      BY <1>1, <1>2, <1>4, <2>2, <3>1, <3>2, <3>3 DEF StaysAtTables
    <3> QED BY <3>4, RoundGoesOn
  <2>6. CASE AllReported(reported)
    <3>1. Seated(reported) /\ In(reported) = standing \ out /\ reported[t] = w
      BY <2>2, <2>3, <2>6, AllDecided
    <3>2. alive' = reported BY <2>3, <2>6
    <3> HIDE DEF reported
    <3>3. CASE DOMAIN winners = {1}
      <4>1. champion' = w /\ round' = round /\ playing' = <<>> /\ dealt' = <<>>
        BY <1>3, <1>4, <2>3, <2>4, <2>6, <3>3
      <4>2. place' = [b.place EXCEPT ![w] = 1] BY <1>3, <2>1, <2>4, <4>1
      <4>3. standing' = {w}
        <5>1. t = 1 /\ Tables(alive) = {1} BY <1>1, <1>2, <3>3
        <5>2. standing = playing[t] BY <1>1, <5>1 DEF AtTables
        <5> QED BY <1>4, <2>2, <5>2
      <4>4. Ranking(standing', place')
        <5>1. Ranked({w}, b.place) BY <1>4, <4>3
        <5> QED BY <2>4, <4>2, <4>3, <5>1, LastIsFirst
      <4>5. place'[w] = 1
        <5>1. b.place \in [Users -> Nat] BY DEF Ranked, Ranking
        <5> QED BY <2>4, <4>2, <5>1
      <4> QED BY <1>1, <1>3, <2>4, <4>1, <4>4, <4>5 DEF PlayInv, NoPlay
    <3>4. CASE DOMAIN winners # {1}
      <4>1. /\ round' = round + 1 /\ champion' = Nobody /\ winners' = Pending(reported)
            /\ playing' = <<>> /\ dealt' = <<>>
        BY <1>1, <1>4, <2>3, <2>6, <3>4
      <4>2. place' = b.place BY <2>1, <4>1
      <4>3. Pause' BY <1>4, <3>1, <3>2, <4>1 DEF Pause, Pending
      <4>4. Ranked(standing', place') BY <1>4, <4>2
      <4>5. Seated(alive') BY <3>1, <3>2
      <4> QED BY <1>1, <4>1, <4>3, <4>4, <4>5 DEF PlayInv, Ranked
    <3> QED BY <3>3, <3>4
  <2> QED BY <2>5, <2>6
<1> QED BY <1>5, <1>6

(* A timer belongs to a player who still stands and is away.               *)
LEMMA TableLeftTimers ==
  ASSUME PlayInv, ConnInv, NEW t \in DOMAIN playing, NEW out \in SUBSET playing[t],
         NEW b, b.standing = standing \ out, TableLeft(t, playing[t] \ out, b), UNCHANGED lobby
  PROVE  ConnInv'
<1> DEFINE left == playing[t] \ out
<1>1. /\ standing' = standing \ out
      /\ \/ due' = {}
         \/ due' = due \ (playing[t] \ {u \in left : Cardinality(left) > 1})
  BY DEF TableLeft
<1>2. due' \subseteq due \ out BY <1>1
<1>3. UNCHANGED <<entrant, asking, clock, starting>> BY DEF lobby
<1> QED BY <1>1, <1>2, <1>3 DEF ConnInv, Held

LEMMA HandOverHolds ==
  ASSUME PlayInv, ConnInv, NEW t \in DOMAIN playing, winners[t] = Nobody,
         NEW gone \in SUBSET playing[t],
         NEW b, Ranked(b.standing, b.place), b.standing = standing \ gone,
         HandOver(t, playing[t] \ gone, b), UNCHANGED lobby
  PROVE  RankInv'
<1>0. PICK busted \in SUBSET (playing[t] \ gone) : \E chips \in [busted -> 1..2] :
        TableLeft(t, (playing[t] \ gone) \ busted, knockOut(busted, chips, b))
  BY DEF HandOver
<1>1. PICK chips \in [busted -> 1..2] :
        TableLeft(t, (playing[t] \ gone) \ busted, knockOut(busted, chips, b))
  BY <1>0
<1> DEFINE k == knockOut(busted, chips, b)
           out == gone \cup busted
<1>2. playing[t] \subseteq standing BY TableOf
<1>3. busted \in SUBSET b.standing /\ chips \in [busted -> Nat] BY <1>2
<1>4. k.standing = b.standing \ busted /\ Ranked(k.standing, k.place) BY <1>3, OutIsRanked
<1>5. /\ out \in SUBSET playing[t] /\ k.standing = standing \ out
      /\ (playing[t] \ gone) \ busted = playing[t] \ out
  BY <1>4
<1>6. TableLeft(t, playing[t] \ out, k) BY <1>1, <1>5
<1> HIDE DEF k, out
<1> QED BY <1>4, <1>5, <1>6, TableLeftHolds, TableLeftTimers DEF RankInv

Now == [standing |-> standing, place |-> place]
LEMMA WithdrawnIs ==
  ASSUME PlayInv, NEW t \in DOMAIN playing, NEW u \in playing[t]
  PROVE  /\ Withdrawn(u).standing = standing \ {u}
         /\ Ranked(Withdrawn(u).standing, Withdrawn(u).place)
<1> DEFINE chips == [v \in {u} |-> 0]
<1>1. Ranked(standing, place) /\ u \in standing BY TableOf
<1>2. Now.standing = standing /\ Now.place = place BY DEF Now
<1>3. Withdrawn(u) = knockOut({u}, chips, Now) BY DEF Withdrawn, Now
<1>4. {u} \in SUBSET Now.standing /\ chips \in [{u} -> Nat] BY <1>1, <1>2
<1> HIDE DEF chips
<1>5. /\ knockOut({u}, chips, Now).standing = Now.standing \ {u}
      /\ Ranked(knockOut({u}, chips, Now).standing, knockOut({u}, chips, Now).place)
  BY <1>1, <1>2, <1>4, OutIsRanked
<1> QED BY <1>2, <1>3, <1>5

LEMMA WithdrawHolds ==
  ASSUME PlayInv, ConnInv, NEW t \in DOMAIN playing, winners[t] = Nobody, NEW u \in playing[t],
         Withdraw(t, u), UNCHANGED lobby
  PROVE  RankInv'
<1> DEFINE b == Withdrawn(u)
           left == playing[t] \ {u}
<1>1. b.standing = standing \ {u} /\ Ranked(b.standing, b.place) BY WithdrawnIs
<1>2. {u} \in SUBSET playing[t] OBVIOUS
<1> HIDE DEF b
<1>3. CASE /\ standing' = b.standing /\ place' = b.place
           /\ playing' = [playing EXCEPT ![t] = left] /\ due' = due \ {u}
           /\ UNCHANGED <<dealt, bracket>>
  <2>1. AtTables BY TableOf
  <2>2. StaysAtTables(t, left, b) BY <1>3, <2>1 DEF StaysAtTables, AtTables, bracket
  <2>3. PlayInv' BY <1>1, <1>2, <2>2, RoundGoesOn
  <2>4. UNCHANGED <<entrant, asking, clock, starting>> BY DEF lobby
  <2>5. ConnInv' BY <1>1, <1>3, <2>4 DEF ConnInv, Held
  <2> QED BY <2>3, <2>5 DEF RankInv
<1>4. CASE HandOver(t, left, b) BY <1>1, <1>2, <1>4, HandOverHolds
<1>5. CASE TableLeft(t, left, b)
  BY <1>1, <1>2, <1>5, TableLeftHolds, TableLeftTimers DEF RankInv
<1> QED BY <1>3, <1>4, <1>5 DEF Withdraw, LastOneWins, b

LEMMA HandEndsHolds ==
  ASSUME RankInv, NEW t \in DOMAIN playing, HandEnds(t)
  PROVE  RankInv'
<1>1. Ranked(standing, place) BY TableOf DEF RankInv
<1>2. winners[t] = Nobody /\ HandOver(t, playing[t], Now) /\ UNCHANGED lobby
  BY DEF HandEnds, Undecided, Now
<1>3. {} \in SUBSET playing[t] /\ playing[t] \ {} = playing[t] OBVIOUS
<1>4. Now.standing = standing /\ Now.place = place /\ standing = standing \ {} BY DEF Now
<1>5. HandOver(t, playing[t] \ {}, Now) BY <1>2, <1>3
<1>6. Ranked(Now.standing, Now.place) /\ Now.standing = standing \ {} BY <1>1, <1>4
<1> QED BY <1>2, <1>3, <1>5, <1>6, HandOverHolds DEF RankInv

-----------------------------------------------------------------------------
(* Rounds. *)

LEMMA OpenRoundHolds ==
  ASSUME NEW s, Seated(s), OpenRound(s), alive' = s, round' \in Nat, round' > 0,
         champion' = Nobody, winners' = Pending(s), standing' = In(s), Ranked(standing', place')
  PROVE  PlayInv' /\ due' \subseteq {u \in standing' : entrant[u] = "away"}
<1>1. /\ \A t \in Tables(s) : SeatedAt(s, t) \subseteq Users
      /\ In(s) = UNION {SeatedAt(s, t) : t \in Tables(s)}
  BY TablesSplit
<1>2. /\ playing' = [t \in Tables(s) |-> SeatedAt(s, t)] /\ dealt' = playing'
      /\ due' = {u \in {s[i] : i \in DOMAIN s} : entrant[u] = "away"}
  BY DEF OpenRound
<1>3. DOMAIN s = 1..Len(s) BY DEF Seated
<1>4. /\ winners' \in [Tables(s) -> Users \cup {Nobody}]
      /\ \A t \in Tables(s) : winners'[t] = Nobody
  BY DEF Pending
<1>5. AtTables' BY <1>1, <1>2, <1>4 DEF AtTables
<1>6. due' \subseteq {u \in standing' : entrant[u] = "away"} BY <1>2, <1>3 DEF In
<1> QED BY <1>5, <1>6 DEF PlayInv, Ranked

LEMMA NextRoundHolds ==
  ASSUME RankInv, NextRound
  PROVE  RankInv'
<1>1. /\ round > 0 /\ champion = Nobody /\ playing = <<>> /\ OpenRound(alive)
      /\ UNCHANGED <<lobby, bracket, standing, place>>
  BY DEF NextRound, HasStarted
<1>2. round \in Nat /\ Seated(alive) /\ Ranked(standing, place)
  BY <1>1 DEF RankInv, PlayInv, Ranked
<1>3. Pause
  <2>1. ~AtTables
    <3>1. SUFFICES ASSUME AtTables PROVE FALSE OBVIOUS
    <3>2. 1 \in DOMAIN playing BY <1>2, <3>1, TablesAre DEF AtTables
    <3> QED BY <1>1, <3>2
  <2> QED BY <1>1, <2>1 DEF RankInv, PlayInv
<1>4. /\ alive' = alive /\ round' = round /\ champion' = Nobody /\ winners' = Pending(alive)
      /\ standing' = In(alive) /\ place' = place
  BY <1>1, <1>3 DEF bracket, Pause
<1>5. Ranked(standing', place') BY <1>1, <1>2
<1>6. PlayInv' /\ due' \subseteq {u \in standing' : entrant[u] = "away"}
  BY <1>1, <1>2, <1>4, <1>5, OpenRoundHolds
<1> QED BY <1>1, <1>6 DEF RankInv, ConnInv, lobby, Held

(* Nobody stands and no place is given before the start.                   *)
LEMMA BeforeTheStart ==
  ASSUME RankInv, ~HasStarted
  PROVE  /\ round = 0 /\ playing = <<>> /\ standing = {} /\ due = {}
         /\ place \in [Users -> Nat] /\ \A u \in Users : place[u] = 0
BY DEF RankInv, PlayInv, ConnInv, HasStarted, NoPlay, Ranking

LEMMA StartHolds ==
  ASSUME RankInv, StartOrNot
  PROVE  RankInv'
<1>1. UNCHANGED <<entrant, asking, clock, place>> /\ starting' = "no" BY DEF StartOrNot
<1>2. CASE ~Ready(Held)
  <2>1. UNCHANGED <<bracket, standing, playing, dealt, due>> BY <1>2 DEF StartOrNot
  <2>2. PlayInv' BY <1>1, <2>1, SamePlay DEF RankInv
  <2> QED BY <1>1, <2>1, <2>2 DEF RankInv, ConnInv, Held
<1>3. CASE Ready(Held)
  <2>1. PICK s \in Shuffles(Held) : OpenBracket(s) /\ OpenRound(s) BY <1>3 DEF StartOrNot
  <2>2. standing' = Held /\ Held \in SUBSET Users BY <1>3 DEF StartOrNot, Held
  <2>3. ~HasStarted /\ Cardinality(Held) >= 1
    <3>1. Cardinality(Held) \in Nat BY <2>2, UsersAreFinite
    <3> QED BY <1>3, <3>1 DEF Ready
  <2>4. s \in Seatings(Held) BY <2>2, BracketAssumption
  <2>5. Seated(s) /\ In(s) = Held BY <2>2, <2>3, <2>4, FieldIsSeated
  <2>6. /\ alive' = s /\ round' \in Nat /\ round' > 0 /\ champion' = Nobody
        /\ winners' = Pending(s) /\ standing' = In(s)
    BY <2>1, <2>2, <2>5 DEF OpenBracket
  <2>7. Ranked(standing', place')
    <3>1. place' \in [Users -> Nat] /\ \A u \in Users : place'[u] = 0
      BY <1>1, <2>3, BeforeTheStart
    <3> QED BY <2>2, <3>1 DEF Ranked, Ranking, OpenPlaces
  <2>8. PlayInv' /\ due' \subseteq {u \in standing' : entrant[u] = "away"}
    BY <2>1, <2>5, <2>6, <2>7, OpenRoundHolds
  <2> QED BY <1>1, <2>2, <2>8 DEF RankInv, ConnInv, Held
<1> QED BY <1>2, <1>3

LEMMA ContinueHolds ==
  ASSUME RankInv, NEW t \in DOMAIN playing, ContinueTournament(t)
  PROVE  RankInv'
<1>1. /\ round > 0 /\ round \in Nat /\ champion = Nobody /\ Seated(alive) /\ AtTables
      /\ Ranked(standing, place)
  BY TableOf DEF RankInv
<1>2. /\ dealt' = [dealt EXCEPT ![t] = playing[t]]
      /\ UNCHANGED <<lobby, bracket, standing, place, playing, due>>
  BY DEF ContinueTournament
<1>3. AtTables' BY <1>1, <1>2 DEF AtTables, bracket
<1>4. PlayInv' BY <1>1, <1>2, <1>3 DEF PlayInv, Ranked, bracket
<1> QED BY <1>2, <1>4 DEF RankInv, ConnInv, lobby, Held

-----------------------------------------------------------------------------
(* Players and the clock. *)

LEMMA MovesHold ==
  ASSUME RankInv, NEW u \in Users, Moves(u)
  PROVE  RankInv'
<1>1. CASE joinPromo(u)
  <2>1. PlayInv' BY <1>1, SamePlay DEF RankInv, joinPromo, play
  <2> QED BY <1>1, <2>1 DEF RankInv, ConnInv, joinPromo, play, Held
<1>2. CASE register(u)
  <2>1. UNCHANGED <<clock, bracket, play>> /\ asking' = asking \ {u} BY <1>2 DEF register
  <2>2. PlayInv' BY <2>1, SamePlay DEF RankInv, play
  <2>3. CASE UNCHANGED <<entrant, checks, starting>>
    BY <2>1, <2>2, <2>3 DEF RankInv, ConnInv, play, Held
  <2>4. CASE ~UNCHANGED <<entrant, checks, starting>>
    <3>1. /\ ~HasStarted /\ entrant' = [entrant EXCEPT ![u] = "live"]
          /\ starting' \in {"event", starting}
      BY <1>2, <2>4 DEF register, StartIfReady
    <3>2. standing' = {} /\ due' = {} BY <2>1, <3>1, BeforeTheStart DEF play
    <3> QED BY <2>1, <2>2, <3>1, <3>2 DEF RankInv, ConnInv
  <2> QED BY <2>3, <2>4
<1>3. CASE Leave(u)
  <2>1. CASE /\ ~HasStarted /\ entrant[u] # "no"
             /\ entrant' = [entrant EXCEPT ![u] = "no"]
             /\ UNCHANGED <<asking, scheduled, clock, checks, starting, bracket, play>>
    <3>1. PlayInv' BY <2>1, SamePlay DEF RankInv, play
    <3>2. standing' = {} /\ due' = {} BY <2>1, BeforeTheStart DEF play
    <3> QED BY <2>1, <3>1, <3>2 DEF RankInv, ConnInv
  <2>2. CASE /\ \E t \in DOMAIN playing : Undecided(t) /\ u \in playing[t] /\ Withdraw(t, u)
             /\ UNCHANGED lobby
    BY <2>2, WithdrawHolds DEF RankInv, Undecided
  <2> QED BY <1>3, <2>1, <2>2 DEF Leave
<1>4. CASE dropSocket(u)
  <2>1. /\ entrant[u] = "live" /\ entrant' = [entrant EXCEPT ![u] = IF HasStarted THEN "away" ELSE "no"]
        /\ due' = due \cup {v \in {u} : \E t \in DOMAIN playing : Undecided(t) /\ v \in playing[t]}
        /\ UNCHANGED <<asking, clock, starting, bracket, standing, place, playing, dealt>>
    BY <1>4 DEF dropSocket
  <2>2. PlayInv' BY <2>1, SamePlay DEF RankInv
  <2>3. entrant' \in [Users -> {"no", "live", "away"}] BY <2>1 DEF RankInv, ConnInv
  <2>4. CASE ~HasStarted
    <3>1. standing' = {} /\ due = {} /\ DOMAIN playing = {} BY <2>1, <2>4, BeforeTheStart
    <3>2. due' = {} BY <2>1, <3>1
    <3> QED BY <2>1, <2>2, <2>3, <3>1, <3>2 DEF RankInv, ConnInv
  <2>5. CASE HasStarted
    <3>1. entrant'[u] = "away" /\ \A v \in Users \ {u} : entrant'[v] = entrant[v]
      BY <2>1, <2>5 DEF RankInv, ConnInv
    <3>2. \A t \in DOMAIN playing : playing[t] \subseteq standing BY TableOf DEF RankInv
    <3>3. due' \subseteq due \cup {u} /\ (u \in due' => u \in due \/ u \in standing) BY <2>1, <3>2
    <3>4. standing \subseteq Users /\ standing \subseteq Held
          /\ due \subseteq {v \in standing : entrant[v] = "away"}
      BY DEF RankInv, ConnInv, Held
    <3>5. due' \subseteq {v \in standing' : entrant'[v] = "away"} BY <2>1, <3>1, <3>3, <3>4
    <3>6. standing' \subseteq Held' BY <2>1, <3>1, <3>4 DEF Held
    <3> QED BY <2>1, <2>2, <2>3, <3>5, <3>6 DEF RankInv, ConnInv
  <2> QED BY <2>4, <2>5
<1>5. CASE rejoinBracket(u)
  <2>1. /\ entrant' = [entrant EXCEPT ![u] = "live"] /\ due' = due \ {u}
        /\ UNCHANGED <<asking, clock, starting, bracket, standing, place, playing, dealt>>
    BY <1>5 DEF rejoinBracket
  <2>2. PlayInv' BY <2>1, SamePlay DEF RankInv
  <2> QED BY <2>1, <2>2 DEF RankInv, ConnInv, Held
<1> QED BY <1>1, <1>2, <1>3, <1>4, <1>5 DEF Moves, AwayTooLong

LEMMA ClockHolds ==
  ASSUME RankInv, Tick \/ (\E at \in checks : ClockCheck(at)) \/ ReadEvent \/ Cancelled
  PROVE  RankInv'
<1>1. /\ UNCHANGED <<entrant, asking, bracket, play>>
      /\ clock' \in {clock, "time", "anyway"} /\ starting' \in {starting, "event", "plans", "no"}
  BY DEF Tick, ClockCheck, StartIfReady, ReadEvent, Cancelled
<1>2. PlayInv' BY <1>1, SamePlay DEF RankInv, play
<1> QED BY <1>1, <1>2 DEF RankInv, ConnInv, play, Held

LEMMA RankInvInit == PromoInit => RankInv
<1> SUFFICES ASSUME PromoInit PROVE RankInv
  OBVIOUS
<1>1. Ranking(standing, place) BY DEF PromoInit, Ranking
<1>2. PlayInv BY <1>1 DEF PromoInit, BracketInit, PlayInv, NoPlay
<1> QED BY <1>2 DEF PromoInit, RankInv, ConnInv, Held

LEMMA RankInvNext == RankInv /\ [PromoNext]_promoVars => RankInv'
<1> SUFFICES ASSUME RankInv, [PromoNext]_promoVars PROVE RankInv'
  OBVIOUS
<1>1. CASE \E u \in Users : Moves(u) BY <1>1, MovesHold
<1>2. CASE Tick \/ (\E at \in checks : ClockCheck(at)) \/ ReadEvent \/ Cancelled BY <1>2, ClockHolds
<1>3. CASE StartOrNot BY <1>3, StartHolds
<1>4. CASE NextRound BY <1>4, NextRoundHolds
<1>5. CASE \E t \in DOMAIN playing : HandEnds(t) BY <1>5, HandEndsHolds
<1>6. CASE \E t \in DOMAIN playing : ContinueTournament(t) BY <1>6, ContinueHolds
<1>7. CASE UNCHANGED promoVars
  <2>1. PlayInv' BY <1>7, SamePlay DEF RankInv, promoVars, play
  <2> QED BY <1>7, <2>1 DEF RankInv, ConnInv, promoVars, lobby, play, Held
<1> QED BY <1>1, <1>2, <1>3, <1>4, <1>5, <1>6, <1>7 DEF PromoNext

(* promo-bracket.ts, knockOut(): in whatever order tables end and players  *)
(* withdraw, everybody out has as many ahead as the place says.            *)
THEOREM PlacesMakeARanking == PromoSpec => []RankingIsComplete
<1>1. RankInv => RankingIsComplete BY RankInvImplies
<1> QED BY <1>1, RankInvInit, RankInvNext, PTL DEF PromoSpec
=============================================================================
