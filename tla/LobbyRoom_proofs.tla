-------------------------- MODULE LobbyRoom_proofs --------------------------
(***************************************************************************)
(* For any players, fees, plans, connections, restarts and failures of a   *)
(* lobby room: nobody is charged twice, entrants hold tickets, and until   *)
(* something fails the pool covers the tickets and the next prize.         *)
(***************************************************************************)
EXTENDS LobbyRoom, MoneyTheorems, TLAPS

Steps == {"no", "asked", "unpaid", "checked", "paid"}
ClosingSound ==
  \/ closing = Open
  \/ /\ closing.step = "pay"
     /\ closing.winner \in closing.players /\ closing.players \subseteq Players
     /\ closing.left = Released(closing.players)
  \/ closing \in [step : {"release", "clear"}, left : SUBSET Released(Players)]

Typed ==
  /\ ledger \in [Accounts -> Int] /\ cached = ledger
  /\ table \in [entries : SUBSET Players, settled : BOOLEAN, exists : BOOLEAN]
  /\ joining \in [Sockets -> [step : Steps, here : BOOLEAN]]
  /\ table.exists \/ table = NoTable
  /\ \A s \in Sockets : At(s, "no") \/ ~joining[s].here \/ table.exists
  /\ ClosingSound
  /\ restarts \in Nat /\ failures \in Nat

(* Until a settlement fails, whoever is entered or about to be has a ticket*)
(* except while the tickets of this instance are being released.           *)
InstanceHeld ==
  failures = 0 /\ closing.step \in {"open", "pay"} =>
    /\ \A s \in Sockets : At(s, "paid") /\ joining[s].here => HasTicket(UserOf[s])
    /\ closing = Open /\ ~table.settled => table.entries \subseteq Tickets
    /\ closing.step = "pay" => closing.players \subseteq Tickets

(* The tickets that will still be there when the room is done: those not   *)
(* about to be released by a settlement that has paid them out.            *)
Lasting == {u \in Tickets : closing.step = "release" => EntryRef(u) \notin closing.left}
PoolCoversLasting == Undisturbed => ledger["pool"] >= Collected(Lasting)
PayoutIsFree ==
  Undisturbed /\ PayoutRef \in refs => closing.step = "release" /\ PayoutRef \in closing.left

(* What the tickets of us cost, as a sum.                                  *)
LEMMA CollectedUnfolds ==
  ASSUME NEW us
  PROVE  Collected(us) = SumFunctionOnSet([u \in us |-> Fee[u]], us)
  BY DEF Collected, MapThenSumSet, SumFunctionOnSet, FoldFunctionOnSet, MapThenFoldSet

IInv == Typed /\ InstanceHeld /\ PoolCoversLasting /\ PayoutIsFree

USE LedgerAssumption, TournamentMoneyAssumption, LobbyAssumption

-----------------------------------------------------------------------------
(* Fees and tickets *)

LEMMA FeeIsMoney == Fee \in [Players -> Nat \ {0}]
  BY FeesAreMoney DEF Fee

LEMMA CollectedIsSum ==
  ASSUME NEW us \in SUBSET Players
  PROVE  /\ IsFiniteSet(us) /\ \A u \in us : Fee[u] \in Int /\ Fee[u] \in Nat
         /\ Collected(us) = SumFunctionOnSet(Fee, us)
<1>1. IsFiniteSet(us) BY FS_Subset
<1>2. \A u \in us : Fee[u] \in Nat BY FeeIsMoney
<1> DEFINE f == [u \in us |-> Fee[u]]
<1>3. \A u \in us : f[u] \in Int /\ f[u] = Fee[u] BY <1>2
<1>4. Collected(us) = SumFunctionOnSet(f, us) BY CollectedUnfolds
<1> HIDE DEF f
<1>5. SumFunctionOnSet(f, us) = SumFunctionOnSet(Fee, us) BY <1>1, <1>3, SumSame
<1> QED BY <1>1, <1>2, <1>4, <1>5

LEMMA CollectedType ==
  ASSUME NEW us \in SUBSET Players
  PROVE  Collected(us) \in Nat
  BY CollectedIsSum, SumNat

LEMMA CollectedPart ==
  ASSUME NEW us \in SUBSET Players, NEW part \in SUBSET us
  PROVE  /\ Collected(part) <= Collected(us)
         /\ Collected(us) = Collected(part) + Collected(us \ part)
<1>1. part \in SUBSET Players /\ us \ part \in SUBSET Players OBVIOUS
<1>2. Collected(us) = Collected(part) + Collected(us \ part)
  BY <1>1, CollectedIsSum, SumSplit
<1>3. Collected(part) \in Nat /\ Collected(us \ part) \in Nat BY <1>1, CollectedType
<1> QED BY <1>2, <1>3

LEMMA CollectedOneMore ==
  ASSUME NEW us \in SUBSET Players, NEW u \in Players
  PROVE  Collected(us \cup {u}) <= Collected(us) + Fee[u]
<1>1. CASE u \in us
  <2>1. Collected(us \cup {u}) = Collected(us)
    <3>1. us \cup {u} = us BY <1>1
    <3> QED BY <3>1, Zenon
  <2>2. Collected(us) \in Nat /\ Fee[u] \in Nat BY CollectedType, FeeIsMoney
  <2> QED BY <2>1, <2>2
<1>2. CASE u \notin us
  <2>1. us \cup {u} \in SUBSET Players OBVIOUS
  <2>2. SumFunctionOnSet(Fee, us \cup {u}) = Fee[u] + SumFunctionOnSet(Fee, us)
    <3>1. IsFiniteSet(us) /\ \A v \in us \cup {u} : Fee[v] \in Int BY <2>1, CollectedIsSum
    <3> QED BY <1>2, <3>1, SumIn
  <2>3. Collected(us) \in Nat /\ Fee[u] \in Nat BY CollectedType, FeeIsMoney
  <2> QED BY <2>1, <2>2, <2>3, CollectedIsSum
<1> QED BY <1>1, <1>2

LEMMA RefsDiffer ==
  /\ \A u, v : EntryRef(u) = EntryRef(v) => u = v
  /\ \A u : EntryRef(u) # PayoutRef /\ RefundRef(u) # PayoutRef
  /\ \A u, v : EntryRef(u) # RefundRef(v)
  BY DEF EntryRef, RefundRef, PayoutRef

-----------------------------------------------------------------------------
(* Postings *)

BooksTyped == ledger \in [Accounts -> Int] /\ cached = ledger

LEMMA PostAddsUp ==
  ASSUME BooksTyped, NEW postings \in [Accounts -> Int], NEW ref, NEW guarded,
         Post(ref, postings, guarded)
  PROVE  /\ BooksTyped' /\ ref \notin refs /\ refs' = refs \cup {ref}
         /\ \A a \in Accounts : ledger'[a] = ledger[a] + postings[a]
  BY DEF BooksTyped, Post, Fresh, Apply

LEMMA ChargeAddsUp ==
  ASSUME BooksTyped, NEW u \in Players, Charge(u)
  PROVE  /\ BooksTyped' /\ EntryRef(u) \notin refs /\ refs' = refs \cup {EntryRef(u)}
         /\ ledger'["pool"] = ledger["pool"] + Fee[u]
         /\ \A v \in Players : v # u => ledger'[v] = ledger[v]
<1> DEFINE postings == Move(u, "pool", Fee[u])
<1>1. Fee[u] \in Nat /\ "pool" \in Accounts /\ "pool" \notin Players /\ Players \subseteq Accounts
  BY FeeIsMoney DEF Accounts
<1>2. /\ postings \in [Accounts -> Int] /\ postings["pool"] = Fee[u]
      /\ \A v \in Players : v # u => postings[v] = 0
  BY <1>1 DEF Move
<1>3. Post(EntryRef(u), postings, {u}) BY DEF Charge
<1> HIDE DEF postings
<1>4. /\ BooksTyped' /\ EntryRef(u) \notin refs /\ refs' = refs \cup {EntryRef(u)}
      /\ \A a \in Accounts : ledger'[a] = ledger[a] + postings[a]
  BY <1>2, <1>3, PostAddsUp
<1>5. \A v \in Players : ledger[v] \in Int BY <1>1 DEF BooksTyped
<1> QED BY <1>1, <1>2, <1>4, <1>5

(* The winner is paid a part of what was collected, and nobody is charged. *)
LEMMA PayOutAddsUp ==
  ASSUME BooksTyped, NEW us \in SUBSET Players, NEW winner \in us,
         NEW seats \in Nat \ {0}, NEW sharePct \in 0..100, PayOut(winner, us, seats, sharePct)
  PROVE  /\ BooksTyped' /\ PayoutRef \notin refs /\ refs' = refs \cup {PayoutRef}
         /\ ledger'["pool"] = ledger["pool"] - Collected(us)
         /\ \A v \in Players : ledger'[v] >= ledger[v]
<1> DEFINE collected == Collected(us)
           pool  == prizePoolCents(Level, collected, Cardinality(us), seats, sharePct)
           prize == prizeShareCents(pool, Plan[winner])
           postings == [a \in Accounts |-> CASE a = "pool" -> -collected [] a = winner -> prize
                                              [] a = "rake" -> collected - prize [] OTHER -> 0]
<1>1. collected \in Nat BY CollectedType
<1>2. prize \in Nat
  <2>1. Cardinality(us) \in Nat BY FS_Subset, FS_CardinalityType
  <2>2. Level \in Levels /\ Plan[winner] \in SUBSCRIPTIONS OBVIOUS
  <2>3. pool \in 0..collected /\ prize \in 0..pool
    BY <1>1, <2>1, <2>2, HouseNeverOverpays
  <2> HIDE DEF pool, prize, collected
  <2> QED BY <1>1, <2>3
<1>3. Post(PayoutRef, postings, {}) BY DEF PayOut
<1> HIDE DEF collected, prize
<1>4. /\ "pool" \in Accounts /\ "pool" \notin Players /\ "rake" \notin Players
      /\ Players \subseteq Accounts
  BY DEF Accounts
<1>5. /\ postings \in [Accounts -> Int] /\ postings["pool"] = -collected
      /\ \A v \in Players : postings[v] >= 0
  BY <1>1, <1>2, <1>4
<1> HIDE DEF postings
<1>6. /\ BooksTyped' /\ PayoutRef \notin refs /\ refs' = refs \cup {PayoutRef}
      /\ \A a \in Accounts : ledger'[a] = ledger[a] + postings[a]
  BY <1>3, <1>5, PostAddsUp
<1>7. ledger'["pool"] = ledger["pool"] - collected
  <2>1. ledger["pool"] \in Int BY <1>4 DEF BooksTyped
  <2> QED BY <1>1, <1>4, <1>5, <1>6, <2>1
<1>8. \A v \in Players : ledger'[v] >= ledger[v]
  <2> TAKE v \in Players
  <2>1. ledger[v] \in Int /\ postings[v] \in Int BY <1>4, <1>5 DEF BooksTyped
  <2> QED BY <1>4, <1>5, <1>6, <2>1
<1> QED BY <1>6, <1>7, <1>8 DEF collected

-----------------------------------------------------------------------------
(* Types *)

LEMMA TypedInit == Init => Typed
<1> SUFFICES ASSUME Init PROVE Typed
  OBVIOUS
<1>1. ledger \in [Accounts -> Int] /\ cached = ledger BY DEF Init, LedgerInit, Accounts
<1> QED BY <1>1 DEF Init, Typed, ClosingSound, NoTable, Out, Steps, At

LEMMA JoinTyped ==
  ASSUME Typed, NEW s \in Sockets, Join(s), UNCHANGED bounds
  PROVE  Typed'
<1> DEFINE J == [Sockets -> [step : Steps, here : BOOLEAN]]
<1>1. UserOf[s] \in Players /\ joining \in J BY DEF Typed
<1>2. ASSUME NEW step \in Steps, Goes(s, step) PROVE joining' \in J
  BY <1>1, <1>2 DEF Goes
<1>3. Leaves(s) => joining' \in J BY <1>1 DEF Leaves, Out, Steps
<1>4. joining' \in J
  <2>1. {"asked", "unpaid", "checked", "paid"} \subseteq Steps BY DEF Steps
  <2> HIDE DEF J
  <2> QED BY <1>2, <1>3, <2>1
       DEF Join, Ask, AlreadyIn, FindTicket, CheckBalance, Escrow, RecordEntry, JoinFails
<1>5. BooksTyped' 
  <2>1. CASE UNCHANGED books BY <2>1 DEF Typed, books, BooksTyped
  <2>2. CASE Escrow(s) BY <1>1, <2>2, ChargeAddsUp DEF Typed, BooksTyped, Escrow
  <2> QED BY <2>1, <2>2 DEF Join, Ask, AlreadyIn, FindTicket, CheckBalance, RecordEntry, JoinFails
<1>6. /\ table' \in [entries : SUBSET Players, settled : BOOLEAN, exists : BOOLEAN]
      /\ (table.exists \/ table = NoTable)'
  <2>1. CASE UNCHANGED table BY <2>1 DEF Typed
  <2>2. CASE Ask(s) BY <2>2 DEF Typed, Ask, EmptyTable
  <2>3. CASE RecordEntry(s) /\ joining[s].here
    <3>1. table' = [table EXCEPT !.entries = @ \cup {UserOf[s]}] BY <2>3 DEF RecordEntry
    <3>2. table.exists BY <2>3 DEF RecordEntry, Typed, At
    <3> QED BY <1>1, <3>1, <3>2 DEF Typed
  <2> QED BY <2>1, <2>2, <2>3
       DEF Join, AlreadyIn, FindTicket, CheckBalance, Escrow, RecordEntry, JoinFails
<1>7. closing' = closing
  BY DEF Join, Ask, AlreadyIn, FindTicket, CheckBalance, Escrow, RecordEntry, JoinFails
<1>8. \A r \in Sockets : (At(r, "no") \/ ~joining[r].here \/ table.exists)'
  <2>1. table.exists => table'.exists
    BY DEF Join, Ask, AlreadyIn, FindTicket, CheckBalance, Escrow, RecordEntry, JoinFails, Typed
  <2>2. \A r \in Sockets \ {s} : joining'[r] = joining[r]
    BY <1>1 DEF Join, Ask, AlreadyIn, FindTicket, CheckBalance, Escrow, RecordEntry, JoinFails,
                Goes, Leaves
  <2>3. CASE Ask(s) BY <2>2, <2>3, <2>1 DEF Ask, EmptyTable, Typed, At
  <2>4. CASE Leaves(s) BY <1>1, <2>1, <2>2, <2>4 DEF Leaves, Out, Typed, At
  <2>5. CASE ~Leaves(s) /\ ~Ask(s)
    <3>1. joining'[s].here = joining[s].here /\ ~At(s, "no")
      BY <1>1, <2>5 DEF Join, AlreadyIn, FindTicket, CheckBalance, Escrow, RecordEntry, JoinFails,
                        Goes, At
    <3> QED BY <2>1, <2>2, <3>1 DEF Typed, At
  <2> QED BY <2>3, <2>4, <2>5
<1> QED BY <1>4, <1>5, <1>6, <1>7, <1>8 DEF Typed, BooksTyped, ClosingSound, bounds

(* Released references are those of players.                               *)
LEMMA ReleasedOf ==
  ASSUME NEW us \in SUBSET Players
  PROVE  Released(us) \subseteq Released(Players) /\ PayoutRef \in Released(us)
         /\ \A u \in us : EntryRef(u) \in Released(us)
  BY DEF Released

LEMMA ClosingTyped ==
  ASSUME Typed, UNCHANGED bounds,
         (\E u \in Players : Won(u)) \/ Pay \/ ReleaseNext \/ Freed \/ Abandoned
  PROVE  Typed'
<1>1. ASSUME NEW u \in Players, Won(u) PROVE Typed'
  <2>1. table.entries \subseteq Players /\ u \in table.entries BY <1>1 DEF Won, Typed
  <2>2. ClosingSound' BY <1>1, <2>1 DEF Won, ClosingSound
  <2>3. table.exists BY <2>1 DEF Typed, NoTable
  <2>4. table' = [table EXCEPT !.settled = TRUE] /\ UNCHANGED <<books, joining>>
    BY <1>1 DEF Won
  <2> QED BY <2>2, <2>3, <2>4 DEF Typed, books, bounds, At
<1>2. CASE Pay
  <2>1. closing.winner \in closing.players /\ closing.players \subseteq Players
        /\ closing.left = Released(closing.players)
    <3>1. closing.step = "pay" /\ closing # Open BY <1>2 DEF Pay, Open
    <3> QED BY <3>1 DEF Typed, ClosingSound
  <2>2. BooksTyped'
    <3>1. PayOut(closing.winner, closing.players, 8, 100)
      BY <1>2 DEF Pay, PHASE1_ROOM_CAPACITY
    <3>2. closing.players \in SUBSET Players /\ 8 \in Nat \ {0} /\ 100 \in 0..100 BY <2>1
    <3>3. BooksTyped BY DEF Typed, BooksTyped
    <3> QED BY <2>1, <3>1, <3>2, <3>3, PayOutAddsUp
  <2>3. ClosingSound' BY <1>2, <2>1, ReleasedOf DEF Pay, ClosingSound
  <2> QED BY <1>2, <2>2, <2>3 DEF Pay, Typed, BooksTyped, bounds, At
<1>3. CASE ReleaseNext
  <2>1. ClosingSound' BY <1>3 DEF ReleaseNext, Typed, ClosingSound, Open
  <2>2. UNCHANGED <<ledger, cached, table, joining>> BY <1>3 DEF ReleaseNext, Release
  <2> QED BY <2>1, <2>2 DEF Typed, bounds, At
<1>4. CASE Freed
  <2>1. UNCHANGED books /\ closing' = Open /\ DeleteTable BY <1>4 DEF Freed
  <2>2. joining' \in [Sockets -> [step : Steps, here : BOOLEAN]]
    <3> SUFFICES ASSUME NEW s \in Sockets
                 PROVE  joining'[s] \in [step : Steps, here : BOOLEAN]
      <4>1. joining' = [s \in Sockets |-> joining'[s]] BY <2>1 DEF DeleteTable
      <4> QED BY <4>1
    <3>1. joining'[s] = Out \/ joining'[s] = [joining[s] EXCEPT !.here = FALSE]
      BY <2>1 DEF DeleteTable
    <3>2. joining[s] \in [step : Steps, here : BOOLEAN] BY DEF Typed
    <3>3. Out \in [step : Steps, here : BOOLEAN] BY DEF Out, Steps
    <3>4. [joining[s] EXCEPT !.here = FALSE] \in [step : Steps, here : BOOLEAN] BY <3>2
    <3> QED BY <3>1, <3>3, <3>4
  <2>3. \A s \in Sockets : (At(s, "no") \/ ~joining[s].here)'
    BY <2>1 DEF DeleteTable, Typed, Out, At
  <2> QED BY <2>1, <2>2, <2>3 DEF DeleteTable, Typed, ClosingSound, NoTable, books, bounds
<1>5. CASE Abandoned
  <2>1. table.entries \subseteq Players BY DEF Typed
  <2>2. ClosingSound' BY <1>5, <2>1, ReleasedOf DEF Abandoned, ClosingSound
  <2> QED BY <1>5, <2>2 DEF Abandoned, Typed, books, bounds, At
<1> QED BY <1>1, <1>2, <1>3, <1>4, <1>5

LEMMA TypedNext == Typed /\ [Next]_vars => Typed'
<1> SUFFICES ASSUME Typed, [Next]_vars PROVE Typed'
  OBVIOUS
<1>1. CASE UNCHANGED vars BY <1>1 DEF vars, books, bounds, Typed, ClosingSound, At
<1>2. CASE ClosingFails BY <1>2 DEF ClosingFails, books, Typed, ClosingSound, At
<1>3. CASE Restart BY <1>3 DEF Restart, books, Typed, ClosingSound, At, NoTable, Out, Steps
<1> QED BY <1>1, <1>2, <1>3, JoinTyped, ClosingTyped DEF Next

-----------------------------------------------------------------------------
(* Tickets *)

LEMMA HeldInit == Init => InstanceHeld
  BY DEF Init, InstanceHeld, NoTable, Out, Open, At

LEMMA HeldJoin ==
  ASSUME Typed, InstanceHeld, NEW s \in Sockets, Join(s), UNCHANGED bounds
  PROVE  InstanceHeld'
<1> SUFFICES ASSUME failures = 0, closing.step \in {"open", "pay"} PROVE InstanceHeld'
  BY DEF InstanceHeld, bounds, Join, Ask, AlreadyIn, FindTicket, CheckBalance, Escrow, RecordEntry,
         JoinFails
<1>1. UserOf[s] \in Players /\ joining \in [Sockets -> [step : Steps, here : BOOLEAN]]
  BY DEF Typed
<1>2. refs \subseteq refs'
  <2>1. CASE Escrow(s) BY <2>1 DEF Escrow, Charge, Post
  <2> QED BY <2>1 DEF Join, Ask, AlreadyIn, FindTicket, CheckBalance, RecordEntry, JoinFails, books
<1>3. closing' = closing
  BY DEF Join, Ask, AlreadyIn, FindTicket, CheckBalance, Escrow, RecordEntry, JoinFails
<1>4. \A r \in Sockets \ {s} : joining'[r] = joining[r]
  BY <1>1 DEF Join, Ask, AlreadyIn, FindTicket, CheckBalance, Escrow, RecordEntry, JoinFails,
              Goes, Leaves
<1>5. joining'[s].step = "paid" => HasTicket(UserOf[s])' \/ (At(s, "paid") /\ ~joining[s].here)
  <2>1. CASE Escrow(s) BY <2>1 DEF Escrow, Charge, Post, HasTicket
  <2>2. CASE FindTicket(s)
    BY <1>1, <1>2, <2>2 DEF FindTicket, Goes, KnowsTicket, HasTicket
  <2>3. CASE Leaves(s) BY <1>1, <2>3 DEF Leaves, Out
  <2>4. CASE Ask(s) \/ CheckBalance(s) BY <1>1, <2>4 DEF Ask, CheckBalance, Goes
  <2> QED BY <2>1, <2>2, <2>3, <2>4 DEF Join, AlreadyIn, RecordEntry, JoinFails
<1>6. \A r \in Sockets : (At(r, "paid") /\ joining[r].here => HasTicket(UserOf[r]))'
  <2>1. ~At(s, "paid") \/ joining[s].here \/ Leaves(s)
    BY <1>1 DEF Join, Ask, AlreadyIn, FindTicket, CheckBalance, Escrow, RecordEntry, JoinFails, At
  <2>2. Leaves(s) => joining'[s].step # "paid" BY <1>1 DEF Leaves, Out
  <2> QED BY <1>2, <1>4, <1>5, <2>1, <2>2 DEF InstanceHeld, At, HasTicket
<1>7. (closing = Open /\ ~table.settled => table.entries \subseteq Tickets)'
  <2>1. Tickets \subseteq Tickets' BY <1>2 DEF Tickets, HasTicket
  <2>2. CASE UNCHANGED table BY <1>3, <2>1, <2>2 DEF InstanceHeld
  <2>3. CASE Ask(s) BY <1>3, <2>1, <2>3 DEF InstanceHeld, Ask, EmptyTable
  <2>4. CASE RecordEntry(s) /\ joining[s].here
    <3>1. HasTicket(UserOf[s]) BY <2>4 DEF RecordEntry, InstanceHeld
    <3>2. UserOf[s] \in Tickets BY <1>1, <3>1 DEF Tickets
    <3>3. table' = [table EXCEPT !.entries = @ \cup {UserOf[s]}] BY <2>4 DEF RecordEntry
    <3> QED BY <1>3, <2>1, <3>2, <3>3 DEF InstanceHeld, Typed
  <2> QED BY <2>2, <2>3, <2>4
       DEF Join, AlreadyIn, FindTicket, CheckBalance, Escrow, RecordEntry, JoinFails
<1>8. (closing.step = "pay" => closing.players \subseteq Tickets)'
  BY <1>2, <1>3 DEF InstanceHeld, Tickets, HasTicket
<1> QED BY <1>6, <1>7, <1>8 DEF InstanceHeld

LEMMA HeldNext == Typed /\ InstanceHeld /\ [Next]_vars => InstanceHeld'
<1> SUFFICES ASSUME Typed, InstanceHeld, [Next]_vars PROVE InstanceHeld'
  OBVIOUS
<1>1. CASE UNCHANGED vars
  BY <1>1 DEF vars, books, bounds, InstanceHeld, Tickets, HasTicket, At
<1>2. CASE ClosingFails BY <1>2 DEF ClosingFails, InstanceHeld, Typed
<1>3. CASE Restart
  <2>1. closing' = Open /\ table' = NoTable /\ \A s \in Sockets : joining'[s] = Out
    BY <1>3 DEF Restart
  <2> QED BY <2>1 DEF InstanceHeld, NoTable, Out, Open, At
<1>4. ASSUME NEW u \in Players, Won(u), UNCHANGED bounds PROVE InstanceHeld'
  <2>1. UNCHANGED <<refs, joining>> /\ closing'.players = table.entries BY <1>4 DEF Won, books
  <2>2. closing = Open /\ ~table.settled /\ closing'.step = "pay" BY <1>4 DEF Won
  <2>3. Tickets' = Tickets /\ failures' = failures
    BY <1>4, <2>1 DEF Tickets, HasTicket, bounds
  <2>4. closing.step = "open" BY <2>2 DEF Open
  <2>5. failures = 0 =>
          /\ \A s \in Sockets : (At(s, "paid") /\ joining[s].here => HasTicket(UserOf[s]))'
          /\ table.entries \subseteq Tickets
    BY <2>1, <2>2, <2>4 DEF InstanceHeld, HasTicket, At
  <2>6. closing' # Open BY <2>2 DEF Open
  <2>7. failures' = 0 => closing'.players \subseteq Tickets' BY <2>1, <2>3, <2>5
  <2> HIDE DEF Tickets
  <2> QED BY <2>3, <2>5, <2>6, <2>7 DEF InstanceHeld
<1>5. ASSUME Pay \/ ReleaseNext \/ Abandoned, UNCHANGED bounds PROVE InstanceHeld'
  <2>1. closing'.step \in {"release", "clear"}
    BY <1>5 DEF Pay, ReleaseNext, Abandoned, Typed, ClosingSound, Open
  <2> QED BY <2>1 DEF InstanceHeld
<1>6. ASSUME Freed PROVE InstanceHeld'
  <2>1. closing' = Open /\ table' = NoTable
        /\ \A s \in Sockets : (At(s, "no") \/ ~joining[s].here)'
    BY <1>6 DEF Freed, DeleteTable, Typed, Out, At
  <2> QED BY <2>1 DEF InstanceHeld, NoTable, Open, At
<1> QED BY <1>1, <1>2, <1>3, <1>4, <1>5, <1>6, HeldJoin DEF Next

(* Whoever is entered has a ticket, whatever joins were under way when the *)
(* last instance was settled or cleared away, and across restarts.         *)
THEOREM EntrantsKeepTickets == Spec => []EntrantsHoldTickets
<1>1. Typed /\ InstanceHeld => EntrantsHoldTickets
  BY DEF InstanceHeld, EntrantsHoldTickets, Open
<1> QED BY <1>1, TypedInit, TypedNext, HeldInit, HeldNext, PTL DEF Spec

(* A player with a ticket is never charged for another one, by a second    *)
(* connection, after a restart or after a failed settlement.               *)
THEOREM NoSecondCharge == Spec => OneTicketOneCharge
<1> DEFINE Uncharged == \A u \in Players : ledger'[u] < ledger[u] => ~HasTicket(u)
<1>1. ASSUME Typed, [Next]_vars PROVE Uncharged
  <2>0. \A u \in Players : ledger[u] \in Int BY <1>1 DEF Typed, Accounts
  <2>1. CASE UNCHANGED books BY <2>0, <2>1 DEF books
  <2>2. ASSUME NEW s \in Sockets, Escrow(s) PROVE Uncharged
    <3>1. UserOf[s] \in Players /\ BooksTyped /\ Charge(UserOf[s])
      BY <1>1, <2>2 DEF Escrow, Typed, BooksTyped
    <3>2. EntryRef(UserOf[s]) \notin refs
          /\ \A v \in Players : v # UserOf[s] => ledger'[v] = ledger[v]
      BY <3>1, ChargeAddsUp
    <3> QED BY <2>0, <3>2 DEF HasTicket
  <2>3. CASE Pay
    <3>1. closing.step = "pay" /\ closing # Open BY <2>3 DEF Pay, Open
    <3> DEFINE us == closing.players
    <3>2. closing.winner \in us /\ us \in SUBSET Players
      BY <1>1, <3>1 DEF Typed, ClosingSound
    <3>3. PayOut(closing.winner, us, 8, 100) BY <2>3 DEF Pay, PHASE1_ROOM_CAPACITY
    <3>4. BooksTyped /\ 8 \in Nat \ {0} /\ 100 \in 0..100 BY <1>1 DEF Typed, BooksTyped
    <3> HIDE DEF us
    <3>5. BooksTyped' /\ \A v \in Players : ledger'[v] >= ledger[v]
      BY <3>2, <3>3, <3>4, PayOutAddsUp
    <3>6. \A u \in Players : ledger'[u] \in Int BY <3>5 DEF BooksTyped, Accounts
    <3> QED BY <2>0, <3>5, <3>6
  <2>4. CASE ReleaseNext BY <2>0, <2>4 DEF ReleaseNext, Release
  <2>5. UNCHANGED books \/ (\E s \in Sockets : Escrow(s)) \/ Pay \/ ReleaseNext
    BY <1>1 DEF Next, vars, Join, Ask, AlreadyIn, FindTicket, CheckBalance, RecordEntry, JoinFails,
                Won, Freed, Abandoned, ClosingFails, Restart
  <2> QED BY <2>1, <2>2, <2>3, <2>4, <2>5
<1>2. Typed /\ [Next]_vars => [Uncharged]_vars BY <1>1
<1> QED BY <1>2, TypedInit, TypedNext, PTL DEF Spec, OneTicketOneCharge

-----------------------------------------------------------------------------
(* The pool *)

LEMMA CoversInit == Init => PoolCoversLasting /\ PayoutIsFree
<1> SUFFICES ASSUME Init PROVE PoolCoversLasting /\ PayoutIsFree
  OBVIOUS
<1>1. refs = {} /\ ledger["pool"] = 0 BY DEF Init, LedgerInit, Accounts
<1>2. Lasting = {} BY <1>1 DEF Lasting, Tickets, HasTicket
<1>3. Collected({}) = 0
  <2>1. {} \in SUBSET Players OBVIOUS
  <2> QED BY <2>1, CollectedIsSum, SumEmpty
<1> QED BY <1>1, <1>2, <1>3 DEF PoolCoversLasting, PayoutIsFree

(* What a step of a join does to the pool.                                 *)
LEMMA CoversJoin ==
  ASSUME Typed, PoolCoversLasting, PayoutIsFree, NEW s \in Sockets, Join(s), UNCHANGED bounds
  PROVE  PoolCoversLasting' /\ PayoutIsFree'
<1>1. closing' = closing
  BY DEF Join, Ask, AlreadyIn, FindTicket, CheckBalance, Escrow, RecordEntry, JoinFails
<1>2. CASE UNCHANGED books
  <2>1. Lasting' = Lasting BY <1>1, <1>2 DEF Lasting, Tickets, HasTicket, books
  <2> QED BY <1>1, <1>2, <2>1 DEF PoolCoversLasting, PayoutIsFree, Undisturbed, bounds, books
<1>3. CASE Escrow(s)
  <2> DEFINE u == UserOf[s]
  <2>1. u \in Players /\ BooksTyped /\ Charge(u) BY <1>3 DEF Escrow, Typed, BooksTyped
  <2> HIDE DEF u
  <2>2. /\ refs' = refs \cup {EntryRef(u)} /\ BooksTyped'
        /\ ledger'["pool"] = ledger["pool"] + Fee[u]
    BY <2>1, ChargeAddsUp
  <2>3. PayoutIsFree' BY <1>1, <2>2, RefsDiffer DEF PayoutIsFree, Undisturbed, bounds
  <2>4. Lasting \in SUBSET Players /\ Lasting' \in SUBSET (Lasting \cup {u})
    BY <1>1, <2>2, RefsDiffer DEF Lasting, Tickets, HasTicket
  <2>5. Collected(Lasting') <= Collected(Lasting) + Fee[u]
    <3>1. Lasting \cup {u} \in SUBSET Players /\ Lasting' \in SUBSET Players BY <2>1, <2>4
    <3>2. Collected(Lasting') <= Collected(Lasting \cup {u}) BY <2>4, <3>1, CollectedPart
    <3>3. Collected(Lasting \cup {u}) <= Collected(Lasting) + Fee[u]
      BY <2>1, <2>4, CollectedOneMore
    <3>4. Collected(Lasting') \in Nat /\ Collected(Lasting \cup {u}) \in Nat
          /\ Collected(Lasting) \in Nat /\ Fee[u] \in Nat
      BY <2>1, <2>4, <3>1, CollectedType, FeeIsMoney
    <3> QED BY <3>2, <3>3, <3>4
  <2>6. Undisturbed' => ledger'["pool"] >= Collected(Lasting')
    <3>1. Collected(Lasting') \in Nat /\ Collected(Lasting) \in Nat /\ Fee[u] \in Nat
      BY <2>1, <2>4, CollectedType, FeeIsMoney
    <3>2. ledger["pool"] \in Int BY <2>1 DEF BooksTyped, Accounts
    <3>3. Undisturbed' => ledger["pool"] >= Collected(Lasting)
      BY DEF PoolCoversLasting, Undisturbed, bounds
    <3> QED BY <2>2, <2>5, <3>1, <3>2, <3>3
  <2> QED BY <2>3, <2>6 DEF PoolCoversLasting
<1> QED BY <1>2, <1>3 DEF Join, Ask, AlreadyIn, FindTicket, CheckBalance, RecordEntry, JoinFails

LEMMA CoversPay ==
  ASSUME Typed, InstanceHeld, PoolCoversLasting, PayoutIsFree, Pay, UNCHANGED bounds
  PROVE  PoolCoversLasting' /\ PayoutIsFree'
<1> DEFINE us == closing.players
<1>1. closing.step = "pay" /\ closing # Open BY DEF Pay, Open
<1>2. closing.winner \in us /\ us \in SUBSET Players /\ closing.left = Released(us)
  BY <1>1 DEF Typed, ClosingSound
<1>3. closing'.step = "release" /\ closing'.left = Released(us) BY <1>2 DEF Pay
<1>4. /\ BooksTyped /\ BooksTyped' /\ refs' = refs \cup {PayoutRef}
      /\ ledger'["pool"] = ledger["pool"] - Collected(us)
  <2>1. PayOut(closing.winner, us, 8, 100) BY DEF Pay, PHASE1_ROOM_CAPACITY
  <2>2. BooksTyped /\ 8 \in Nat \ {0} /\ 100 \in 0..100 BY DEF Typed, BooksTyped
  <2> QED BY <1>2, <2>1, <2>2, PayOutAddsUp, ZenonT(40)
<1>5. PayoutIsFree' BY <1>2, <1>3, ReleasedOf DEF PayoutIsFree
<1>6. ASSUME Undisturbed PROVE ledger'["pool"] >= Collected(Lasting')
  <2>1. us \subseteq Tickets BY <1>1, <1>6 DEF InstanceHeld, Undisturbed
  <2>2. Lasting = Tickets BY <1>1 DEF Lasting
  <2>3. Lasting' \in SUBSET (Tickets \ us)
    BY <1>2, <1>3, <1>4, RefsDiffer, ReleasedOf DEF Lasting, Tickets, HasTicket
  <2>4. Tickets \in SUBSET Players /\ Tickets \ us \in SUBSET Players BY DEF Tickets
  <2>5. Collected(Tickets) = Collected(us) + Collected(Tickets \ us)
    BY <2>1, <2>4, CollectedPart
  <2>6. Collected(Lasting') <= Collected(Tickets \ us) BY <2>3, <2>4, CollectedPart
  <2>7. /\ Collected(Tickets) \in Nat /\ Collected(us) \in Nat
        /\ Collected(Tickets \ us) \in Nat /\ Collected(Lasting') \in Nat
    <3>1. Lasting' \in SUBSET Players BY <2>3, <2>4
    <3> QED BY <1>2, <2>4, <3>1, CollectedType
  <2>8. ledger["pool"] \in Int BY <1>4 DEF BooksTyped, Accounts
  <2>9. ledger["pool"] >= Collected(Tickets) BY <1>6, <2>2 DEF PoolCoversLasting
  <2> QED BY <1>4, <2>5, <2>6, <2>7, <2>8, <2>9
<1> QED BY <1>5, <1>6 DEF PoolCoversLasting, Undisturbed, bounds

(* Fewer tickets, or tickets that are about to go anyway, cost no more.    *)
LEMMA CoversRest ==
  ASSUME Typed, PoolCoversLasting, PayoutIsFree, UNCHANGED bounds,
         (\E u \in Players : Won(u)) \/ ReleaseNext \/ Freed \/ Abandoned
  PROVE  PoolCoversLasting' /\ PayoutIsFree'
<1>1. ledger' = ledger BY DEF Won, ReleaseNext, Freed, Abandoned, books, Release
<1>2. Undisturbed' = Undisturbed BY DEF Undisturbed, bounds
<1>3. Lasting' \subseteq Lasting /\ PayoutIsFree'
  <2>1. ASSUME refs' = refs, closing.step # "release", closing'.step # "release"
        PROVE  Lasting' \subseteq Lasting /\ PayoutIsFree'
    BY <1>2, <2>1 DEF Lasting, Tickets, HasTicket, PayoutIsFree
  <2>2. ASSUME NEW u \in Players, Won(u) PROVE Lasting' \subseteq Lasting /\ PayoutIsFree'
    BY <2>1, <2>2 DEF Won, books, Open
  <2>3. CASE Abandoned BY <2>1, <2>3 DEF Abandoned, books, Open
  <2>4. CASE ReleaseNext
    <3>1. PICK ref \in closing.left :
            refs' = refs \ {ref} /\ closing' = [closing EXCEPT !.left = @ \ {ref}]
      BY <2>4 DEF ReleaseNext, Release, FirstOf
    <3>2. closing # Open BY <2>4 DEF ReleaseNext, Open
    <3>3. closing'.step = closing.step /\ closing'.left = closing.left \ {ref}
      BY <2>4, <3>1, <3>2 DEF Typed, ClosingSound, ReleaseNext
    <3>4. Lasting' \subseteq Lasting BY <3>1, <3>3 DEF Lasting, Tickets, HasTicket
    <3>5. PayoutIsFree' BY <1>2, <3>1, <3>3 DEF PayoutIsFree
    <3> QED BY <3>4, <3>5
  <2>5. CASE Freed
    <3>1. refs' = refs /\ closing.left = {} /\ closing' = Open BY <2>5 DEF Freed, books
    <3>2. Lasting' \subseteq Lasting BY <3>1 DEF Lasting, Tickets, HasTicket
    <3>3. PayoutIsFree' BY <1>2, <3>1 DEF PayoutIsFree
    <3> QED BY <3>2, <3>3
  <2> QED BY <2>2, <2>3, <2>4, <2>5
<1>4. Lasting \in SUBSET Players /\ Lasting' \in SUBSET Lasting
  <2>1. Lasting \subseteq Players BY DEF Lasting, Tickets
  <2> QED BY <1>3, <2>1
<1>5. Collected(Lasting') <= Collected(Lasting) BY <1>4, CollectedPart
<1>6. Collected(Lasting') \in Nat /\ Collected(Lasting) \in Nat BY <1>4, CollectedType
<1>7. ledger["pool"] \in Int BY DEF Typed, Accounts
<1> QED BY <1>1, <1>2, <1>3, <1>5, <1>6, <1>7 DEF PoolCoversLasting

LEMMA CoversNext ==
  IInv /\ [Next]_vars => PoolCoversLasting' /\ PayoutIsFree'
<1> SUFFICES ASSUME IInv, [Next]_vars PROVE PoolCoversLasting' /\ PayoutIsFree'
  OBVIOUS
<1>1. CASE UNCHANGED vars
  <2>1. Lasting' = Lasting BY <1>1 DEF Lasting, Tickets, HasTicket, vars, books
  <2> QED BY <1>1, <2>1
       DEF IInv, PoolCoversLasting, PayoutIsFree, Undisturbed, vars, books, bounds
<1>2. CASE ClosingFails \/ Restart
  <2>1. ~Undisturbed' BY <1>2 DEF ClosingFails, Restart, Undisturbed, IInv, Typed
  <2> QED BY <2>1 DEF PoolCoversLasting, PayoutIsFree
<1> QED BY <1>1, <1>2, CoversJoin, CoversPay, CoversRest DEF Next, IInv

(* Until a restart or a failure interrupts a settlement, the pool holds an *)
(* entry for every ticket that can be used, and the next prize can be      *)
(* posted.                                                                 *)
THEOREM RoomIsSound == Spec => []RoomInv
<1>1. IInv => RoomInv
  <2> SUFFICES ASSUME IInv PROVE RoomInv
    OBVIOUS
  <2>1. TypeOK
    <3>1. closing.step \in {"open", "pay", "release", "clear"} /\ closing.left \subseteq Released(Players)
      BY ReleasedOf DEF IInv, Typed, ClosingSound, Open
    <3> QED BY <3>1 DEF IInv, Typed, TypeOK, Steps
  <2>2. PoolCoversTickets
    <3>1. closing.step # "release" => Lasting = Tickets BY DEF Lasting
    <3> QED BY <3>1 DEF IInv, PoolCoversLasting, PoolCoversTickets, TicketsCovered
  <2>3. PayoutNeverCollides BY DEF IInv, PayoutIsFree, PayoutNeverCollides
  <2> QED BY <2>1, <2>2, <2>3 DEF RoomInv
<1>2. Init => IInv BY TypedInit, HeldInit, CoversInit DEF IInv
<1>3. IInv /\ [Next]_vars => IInv' BY TypedNext, HeldNext, CoversNext DEF IInv
<1> QED BY <1>1, <1>2, <1>3, PTL DEF Spec
=============================================================================
