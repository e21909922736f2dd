------------------------ MODULE ScheduledRooms_proofs -----------------------
(***************************************************************************)
(* For any players, fees, plans, sizes and failures of a scheduled room:   *)
(* tickets are seats, the pool is what the tickets cost, every window that *)
(* is played has a prize, nobody is handed over or refunded twice.         *)
(***************************************************************************)
EXTENDS ScheduledRooms, MoneyTheorems, TLAPS

(* A player makes one request at a time, and closeWindow() is not called   *)
(* while it runs.                                                          *)
OneAtATime ==
  /\ \A c, d \in Calls : CallerOf[c] = CallerOf[d] => c = d
  /\ \A k, l \in Closers : k = l

Registering == {"entering", "unpaid", "checked", "paid"}
RefundSteps == {"refund", "charged", "owed"}
CallSteps == {"idle", "release"} \cup Registering \cup RefundSteps
CloserSteps == {"idle", "claim", "play", "release"} \cup RefundSteps
Kinds == {"none", "CANCELLED", "REFUNDED"}
JobRecords ==
  [step : CallSteps \cup CloserSteps, users : SUBSET Players, todo : SUBSET Players,
   left : SUBSET Released(Players), after : Kinds]
(* Whom a job is about.                                                    *)
About(j) == IF job[j].step \in Registering THEN {CallerOf[j]} ELSE job[j].users

Sound(j, its) ==
  /\ its.todo \subseteq its.users /\ its.left \subseteq Released(its.users)
  /\ its.step \in {"charged", "owed"} => its.todo # {}
  /\ its.step \in RefundSteps => its.after # "none"
  /\ its.step \in {"claim", "play"} => Enough(its.users) /\ its.after = "none"
  /\ its.step \in Registering \cup {"idle"} => its.users = {} /\ its.after = "none"
  /\ j \in Calls => /\ its.step \in CallSteps
                    /\ its.step \in RefundSteps \cup {"release"} =>
                         its.after = "CANCELLED" /\ its.users = {CallerOf[j]}
  /\ j \in Closers => its.step \in CloserSteps /\ its.after # "CANCELLED"

Statuses == {"none", "REGISTERED", "CANCELLED", "STARTED", "REFUNDED"}
Typed ==
  /\ ledger \in [Accounts -> Int] /\ cached = ledger
  /\ row \in [Players -> Statuses] /\ played \in [Players -> Nat]
  /\ ticked \in BOOLEAN /\ crossed \in BOOLEAN /\ failures \in Nat
  /\ job \in [Jobs -> JobRecords] /\ \A j \in Jobs : Sound(j, job[j])
  /\ ~ticked => ~crossed /\ \A k \in Closers : At(k, "idle")
  /\ ticked /\ ~crossed => \A c \in Calls : At(c, "idle")

(* Who registers has no seat, and who was handed over takes none again.    *)
Rosters ==
  /\ \A c \in Calls : job[c].step \in Registering => row[CallerOf[c]] # "REGISTERED"
  /\ \A u \in Players : played[u] \in {0, 1}
  /\ \A u \in Players : played[u] = 1 =>
       /\ row[u] # "REGISTERED" /\ ticked
       /\ \A c \in Calls : CallerOf[c] = u => job[c].step \notin Registering
  /\ \A k \in Closers : At(k, "claim") => \A u \in job[k].users :
       /\ played[u] = 0
       /\ \A c \in Calls : CallerOf[c] = u => job[c].step \notin Registering

(* A player with a ticket that was not given back has paid for it; a       *)
(* refund under way is of such a ticket, unless it was given back, and     *)
(* tickets are released before what says that they were given back.        *)
Charged(u) ==
  /\ ledger[u] <= Opening[u]
  /\ HasTicket(u) /\ RefundRef(u) \notin refs => ledger[u] + Fee[u] <= Opening[u]
Refundable(j) ==
  /\ job[j].step \in {"charged", "owed"} => HasTicket(Turn(j))
  /\ At(j, "release") => \A u \in job[j].users : EntryRef(u) \in job[j].left \/ ~HasTicket(u)
  /\ At(j, "play") => \A u \in job[j].users : played[u] = 1
Accounted ==
  ~crossed => (\A u \in Players : played[u] = 0 => Charged(u)) /\ \A j \in Jobs : Refundable(j)

(* Until something fails or races the tick: who no job is about has a      *)
(* ticket if and only if registered, and for the others it is known how    *)
(* far the job is.                                                         *)
Free(u) == (HasTicket(u) <=> row[u] = "REGISTERED") /\ RefundRef(u) \notin refs
Step(j, u) ==
  LET its == job[j]
      back == RefundRef(u) \in refs
      seated == row[u] = "REGISTERED"
  IN
  /\ its.step \in {"entering", "unpaid", "checked"} => ~HasTicket(u) /\ ~back /\ ~seated
  /\ its.step = "paid" => HasTicket(u) /\ ~back /\ ~seated
  /\ its.step \in RefundSteps => seated /\ HasTicket(u) /\ (back <=> u \notin its.todo)
  /\ its.step = "claim" => HasTicket(u) /\ ~back /\ seated
  /\ its.step = "play" => HasTicket(u) /\ ~back /\ ~seated
  /\ its.step = "release" =>
       /\ HasTicket(u) <=> EntryRef(u) \in its.left
       /\ IF its.after = "none" THEN ~back /\ ~seated
          ELSE seated /\ (back <=> RefundRef(u) \in its.left) /\ (HasTicket(u) => back)
Seats ==
  Orderly => \A u \in Players :
    /\ \A j \in Jobs : u \in About(j) => Step(j, u)
    /\ (\A j \in Jobs : u \notin About(j)) => Free(u)

(* The tickets the pool still holds the entry of.                          *)
PaidOut(u) == \E k \in Closers : At(k, "release") /\ job[k].after = "none" /\ u \in job[k].users
InForce == {u \in Players : HasTicket(u) /\ RefundRef(u) \notin refs /\ ~PaidOut(u)}
Pooled ==
  Orderly => /\ ledger["pool"] = Collected(InForce)
             /\ PayoutRef \in refs => \E k \in Closers : At(k, "release") /\ PayoutRef \in job[k].left

IInv == Typed /\ Rosters /\ Accounted /\ Seats /\ Pooled

(* What the tickets of us cost, as a sum.                                  *)
LEMMA CollectedUnfolds ==
  ASSUME NEW us
  PROVE  Collected(us) = SumFunctionOnSet([u \in us |-> Fee[u]], us)
  BY DEF Collected, MapThenSumSet, SumFunctionOnSet, FoldFunctionOnSet, MapThenFoldSet

USE LedgerAssumption, TournamentMoneyAssumption, RoomsAssumption

-----------------------------------------------------------------------------
(* Fees and tickets *)

LEMMA FeeIsMoney == Fee \in [Players -> Nat \ {0}]
  BY FeesAreMoney DEF Fee

LEMMA CollectedIsSum ==
  ASSUME NEW us \in SUBSET Players
  PROVE  /\ IsFiniteSet(us) /\ \A u \in us : Fee[u] \in Int /\ Fee[u] \in Nat
         /\ Collected(us) = SumFunctionOnSet(Fee, us)
<1>1. IsFiniteSet(us) BY FS_Subset
<1>2. \A u \in us : Fee[u] \in Nat BY FeeIsMoney
<1> DEFINE f == [u \in us |-> Fee[u]]
<1>3. \A u \in us : f[u] \in Int /\ f[u] = Fee[u] BY <1>2
<1>4. Collected(us) = SumFunctionOnSet(f, us) BY CollectedUnfolds
<1> HIDE DEF f
<1>5. SumFunctionOnSet(f, us) = SumFunctionOnSet(Fee, us) BY <1>1, <1>3, SumSame
<1> QED BY <1>1, <1>2, <1>4, <1>5

LEMMA CollectedType ==
  ASSUME NEW us \in SUBSET Players
  PROVE  Collected(us) \in Nat
  BY CollectedIsSum, SumNat

LEMMA CollectedPart ==
  ASSUME NEW us \in SUBSET Players, NEW part \in SUBSET us
  PROVE  /\ Collected(part) <= Collected(us)
         /\ Collected(us) = Collected(part) + Collected(us \ part)
<1>1. part \in SUBSET Players /\ us \ part \in SUBSET Players OBVIOUS
<1>2. Collected(us) = Collected(part) + Collected(us \ part)
  BY <1>1, CollectedIsSum, SumSplit
<1>3. Collected(part) \in Nat /\ Collected(us \ part) \in Nat BY <1>1, CollectedType
<1> QED BY <1>2, <1>3

LEMMA CollectedOneMore ==
  ASSUME NEW us \in SUBSET Players, NEW u \in Players, u \notin us
  PROVE  Collected(us \cup {u}) = Collected(us) + Fee[u]
<1>1. us \cup {u} \in SUBSET Players OBVIOUS
<1>2. SumFunctionOnSet(Fee, us \cup {u}) = Fee[u] + SumFunctionOnSet(Fee, us)
  <2>1. IsFiniteSet(us) /\ \A v \in us \cup {u} : Fee[v] \in Int BY <1>1, CollectedIsSum
  <2> QED BY <2>1, SumIn
<1>3. Collected(us) \in Nat /\ Fee[u] \in Nat BY CollectedType, FeeIsMoney
<1> QED BY <1>1, <1>2, <1>3, CollectedIsSum

LEMMA RefsDiffer ==
  /\ \A u, v : EntryRef(u) = EntryRef(v) => u = v
  /\ \A u : EntryRef(u) # PayoutRef /\ RefundRef(u) # PayoutRef
  /\ \A u, v : EntryRef(u) # RefundRef(v)
  BY DEF EntryRef, RefundRef, PayoutRef

-----------------------------------------------------------------------------
(* Postings *)

BooksTyped == ledger \in [Accounts -> Int] /\ cached = ledger

LEMMA PostAddsUp ==
  ASSUME BooksTyped, NEW postings \in [Accounts -> Int], NEW ref, NEW guarded,
         Post(ref, postings, guarded)
  PROVE  /\ BooksTyped' /\ ref \notin refs /\ refs' = refs \cup {ref}
         /\ \A a \in Accounts : ledger'[a] = ledger[a] + postings[a]
  BY DEF BooksTyped, Post, Fresh, Apply

LEMMA ChargeAddsUp ==
  ASSUME BooksTyped, NEW u \in Players, Charge(u)
  PROVE  /\ BooksTyped' /\ EntryRef(u) \notin refs /\ refs' = refs \cup {EntryRef(u)}
         /\ ledger'["pool"] = ledger["pool"] + Fee[u] /\ ledger'[u] = ledger[u] - Fee[u]
         /\ \A v \in Players : v # u => ledger'[v] = ledger[v]
<1> DEFINE postings == Move(u, "pool", Fee[u])
<1>1. Fee[u] \in Nat /\ "pool" \in Accounts /\ "pool" \notin Players /\ Players \subseteq Accounts
  BY FeeIsMoney DEF Accounts
<1>2. /\ postings \in [Accounts -> Int] /\ postings["pool"] = Fee[u] /\ postings[u] = -Fee[u]
      /\ \A v \in Players : v # u => postings[v] = 0
  BY <1>1 DEF Move
<1>3. Post(EntryRef(u), postings, {u}) BY DEF Charge
<1> HIDE DEF postings
<1>4. /\ BooksTyped' /\ EntryRef(u) \notin refs /\ refs' = refs \cup {EntryRef(u)}
      /\ \A a \in Accounts : ledger'[a] = ledger[a] + postings[a]
  BY <1>2, <1>3, PostAddsUp
<1>5. \A v \in Players : ledger[v] \in Int BY <1>1 DEF BooksTyped
<1> QED BY <1>1, <1>2, <1>4, <1>5

LEMMA GiveBackAddsUp ==
  ASSUME BooksTyped, NEW u \in Players, GiveBack(u)
  PROVE  /\ BooksTyped' /\ RefundRef(u) \notin refs /\ refs' = refs \cup {RefundRef(u)}
         /\ ledger'["pool"] = ledger["pool"] - Fee[u] /\ ledger'[u] = ledger[u] + Fee[u]
         /\ \A v \in Players : v # u => ledger'[v] = ledger[v]
<1> DEFINE postings == Move("pool", u, Fee[u])
<1>1. Fee[u] \in Nat /\ "pool" \in Accounts /\ "pool" \notin Players /\ Players \subseteq Accounts
  BY FeeIsMoney DEF Accounts
<1>2. /\ postings \in [Accounts -> Int] /\ postings["pool"] = -Fee[u] /\ postings[u] = Fee[u]
      /\ \A v \in Players : v # u => postings[v] = 0
  BY <1>1 DEF Move
<1>3. Post(RefundRef(u), postings, {}) BY DEF GiveBack
<1> HIDE DEF postings
<1>4. /\ BooksTyped' /\ RefundRef(u) \notin refs /\ refs' = refs \cup {RefundRef(u)}
      /\ \A a \in Accounts : ledger'[a] = ledger[a] + postings[a]
  BY <1>2, <1>3, PostAddsUp
<1>5. ledger["pool"] \in Int /\ \A v \in Players : ledger[v] \in Int BY <1>1 DEF BooksTyped
<1> QED BY <1>1, <1>2, <1>4, <1>5

-----------------------------------------------------------------------------
(* What each step does to its job, and to nothing else.                    *)

OnlyJob(j) == job' \in [Jobs -> JobRecords] /\ \A l \in Jobs : l # j => job'[l] = job[l]
To(j, step, users, todo, left, after) ==
  OnlyJob(j) /\ job'[j] = [step |-> step, users |-> users, todo |-> todo, left |-> left,
                           after |-> after]
Advances(j, step) == To(j, step, job[j].users, job[j].todo, job[j].left, job[j].after)
PassesTurn(j) ==
  To(j, "refund", job[j].users, job[j].todo \ {Turn(j)}, job[j].left, job[j].after)
Finishes(j) == To(j, "idle", {}, {}, {}, "none")

LEMMA StepChanges ==
  ASSUME NEW r \in JobRecords, NEW s
  PROVE  [r EXCEPT !.step = s] = [step |-> s, users |-> r.users, todo |-> r.todo,
                                  left |-> r.left, after |-> r.after]
  BY DEF JobRecords

LEMMA LeftChanges ==
  ASSUME NEW r \in JobRecords, NEW t
  PROVE  [r EXCEPT !.left = t] = [step |-> r.step, users |-> r.users, todo |-> r.todo,
                                  left |-> t, after |-> r.after]
  BY DEF JobRecords

LEMMA StepNames ==
  {"entering", "unpaid", "checked", "paid", "idle", "refund", "charged", "owed", "release",
   "claim", "play"} = CallSteps \cup CloserSteps
  BY DEF CallSteps, CloserSteps, Registering, RefundSteps

LEMMA JobParts ==
  ASSUME Typed, NEW j \in Jobs
  PROVE  /\ job[j] \in JobRecords /\ Sound(j, job[j])
         /\ job[j].step \in CallSteps \cup CloserSteps
         /\ job[j].users \in SUBSET Players /\ job[j].todo \in SUBSET job[j].users
         /\ job[j].left \in SUBSET Released(Players) /\ job[j].after \in Kinds
<1>1. job[j] \in JobRecords /\ Sound(j, job[j]) BY DEF Typed
<1>2. job[j].todo \in SUBSET job[j].users BY <1>1 DEF Sound
<1> QED BY <1>1, <1>2 DEF JobRecords

LEMMA NewRecord ==
  ASSUME NEW step \in CallSteps \cup CloserSteps, NEW users \in SUBSET Players,
         NEW todo \in SUBSET Players, NEW left \in SUBSET Released(Players), NEW after \in Kinds
  PROVE  [step |-> step, users |-> users, todo |-> todo, left |-> left, after |-> after]
           \in JobRecords
  BY DEF JobRecords

LEMMA JobMoves ==
  ASSUME Typed, NEW j \in Jobs
  PROVE  /\ \A new \in JobRecords : Becomes(j, new) => OnlyJob(j) /\ job'[j] = new
         /\ \A step \in CallSteps \cup CloserSteps : Goes(j, step) => Advances(j, step)
         /\ Ends(j) => Finishes(j)
<1>1. job \in [Jobs -> JobRecords] /\ job[j] \in JobRecords BY DEF Typed
<1>2. \A new \in JobRecords : Becomes(j, new) => OnlyJob(j) /\ job'[j] = new
  BY <1>1 DEF Becomes, OnlyJob
<1>3. Idle \in JobRecords
  <2>1. Released(Players) = Released(Players) /\ "none" \in Kinds BY DEF Kinds
  <2> QED BY <2>1, StepNames, NewRecord DEF Idle
<1>4. ASSUME NEW step \in CallSteps \cup CloserSteps, Goes(j, step) PROVE Advances(j, step)
  <2> DEFINE new == [step |-> step, users |-> job[j].users, todo |-> job[j].todo,
                     left |-> job[j].left, after |-> job[j].after]
  <2>1. [job[j] EXCEPT !.step = step] = new BY <1>1, StepChanges
  <2>2. new \in JobRecords
    <3>1. job[j].todo \in SUBSET Players BY JobParts
    <3> QED BY <3>1, JobParts, NewRecord
  <2>3. Becomes(j, [job[j] EXCEPT !.step = step]) BY <1>4 DEF Goes, Becomes
  <2>4. Becomes(j, new) BY <2>1, <2>3
  <2>5. OnlyJob(j) /\ job'[j] = new BY <1>2, <2>2, <2>4
  <2> QED BY <2>5 DEF Advances, To
<1>5. Ends(j) => Finishes(j)
  BY <1>2, <1>3 DEF Ends, Finishes, To, Idle
<1> QED BY <1>2, <1>4, <1>5

LEMMA TurnIsNext == ASSUME NEW j, job[j].todo # {} PROVE Turn(j) \in job[j].todo
  BY DEF Turn

(* Whoever a job is about; a job that does nothing is about nobody.        *)
LEMMA AboutWhom ==
  ASSUME Typed, NEW j \in Jobs
  PROVE  /\ About(j) \in SUBSET Players
         /\ At(j, "idle") => About(j) = {}
         /\ j \in Calls => About(j) \in SUBSET {CallerOf[j]}
         /\ job[j].step \notin Registering => About(j) = job[j].users
<1>1. job[j].step \notin Registering => About(j) = job[j].users BY DEF About
<1>2. About(j) \in SUBSET Players
  <2>1. j \in Closers => job[j].step \notin Registering
    BY JobParts DEF Sound, CloserSteps, RefundSteps, Registering
  <2> QED BY <1>1, <2>1, JobParts DEF About, Jobs
<1>3. At(j, "idle") => About(j) = {} BY JobParts DEF Sound, About, At, Registering
<1>4. j \in Calls => About(j) \in SUBSET {CallerOf[j]}
  <2>1. j \in Calls => job[j].step \in {"idle"} \cup Registering \cup RefundSteps \cup {"release"}
    BY JobParts DEF Sound, CallSteps
  <2>2. j \in Calls /\ job[j].step \in RefundSteps \cup {"release"} =>
          job[j].users = {CallerOf[j]}
    BY JobParts DEF Sound
  <2>3. job[j].step \in Registering => About(j) = {CallerOf[j]} BY DEF About
  <2>4. job[j].step \in RefundSteps \cup {"release"} => job[j].step \notin Registering
    BY DEF RefundSteps, Registering
  <2> QED BY <1>1, <1>3, <2>1, <2>2, <2>3, <2>4 DEF At
<1> QED BY <1>1, <1>2, <1>3, <1>4

(* Unless a request raced the tick, no two jobs are about one player.      *)
LEMMA Alone ==
  ASSUME Typed, OneAtATime, ~crossed, NEW j \in Jobs, NEW l \in Jobs
  PROVE  /\ \A u \in About(j) : u \in About(l) => j = l
         /\ j \in Calls /\ ~ticked => (CallerOf[j] \notin About(l) \/ l = j)
         /\ j \in Closers /\ ticked => (About(l) = {} \/ l = j)
<1>1. ~ticked /\ l \in Closers => About(l) = {} BY AboutWhom DEF Typed
<1>2. ticked /\ l \in Calls => About(l) = {} BY AboutWhom DEF Typed
<1>3. ~ticked /\ j \in Closers => About(j) = {} BY AboutWhom DEF Typed
<1>4. ticked /\ j \in Calls => About(j) = {} BY AboutWhom DEF Typed
<1>5. \A c \in Calls : c \in Jobs /\ About(c) \in SUBSET {CallerOf[c]} BY AboutWhom DEF Jobs
<1> QED BY <1>1, <1>2, <1>3, <1>4, <1>5 DEF OneAtATime, Jobs


(* The new records of a job that is at its next turn, or releases.         *)
LEMMA NextTurnIs ==
  ASSUME NEW j, job[j] \in JobRecords
  PROVE  NextTurn(j) = [step |-> "refund", users |-> job[j].users, todo |-> job[j].todo \ {Turn(j)},
                        left |-> job[j].left, after |-> job[j].after]
<1> DEFINE t == job[j].todo \ {Turn(j)}
           r1 == [step |-> "refund", users |-> job[j].users, todo |-> job[j].todo,
                  left |-> job[j].left, after |-> job[j].after]
<1> HIDE DEF t
<1>1. [job[j] EXCEPT !.step = "refund"] = r1 BY StepChanges
<1>2. [r1 EXCEPT !.todo = t] = [step |-> "refund", users |-> job[j].users, todo |-> t,
                                left |-> job[j].left, after |-> job[j].after]
  OBVIOUS
<1>3. NextTurn(j) = [job[j] EXCEPT !.step = "refund", !.todo = t] BY DEF NextTurn, t
<1> HIDE DEF r1
<1>4. NextTurn(j) = [r1 EXCEPT !.todo = t] BY <1>1, <1>3
<1> QED BY <1>2, <1>4 DEF t

LEMMA ReleasingIs ==
  ASSUME NEW j, job[j] \in JobRecords
  PROVE  Releasing(j) = [step |-> "release", users |-> job[j].users, todo |-> job[j].todo,
                         left |-> Released(job[j].users), after |-> job[j].after]
<1> DEFINE t == Released(job[j].users)
           r1 == [step |-> "release", users |-> job[j].users, todo |-> job[j].todo,
                  left |-> job[j].left, after |-> job[j].after]
<1>1. [job[j] EXCEPT !.step = "release"] = r1 BY StepChanges
<1>2. [r1 EXCEPT !.left = t] = [step |-> "release", users |-> job[j].users, todo |-> job[j].todo,
                                left |-> t, after |-> job[j].after]
  OBVIOUS
<1>3. Releasing(j) = [job[j] EXCEPT !.step = "release", !.left = t] BY DEF Releasing
<1> HIDE DEF r1, t
<1>4. Releasing(j) = [r1 EXCEPT !.left = t] BY <1>1, <1>3
<1> QED BY <1>2, <1>4 DEF t

LEMMA IdleIsARecord == Idle \in JobRecords
<1>1. {} \in SUBSET Players /\ {} \in SUBSET Released(Players) /\ "none" \in Kinds BY DEF Kinds
<1> QED BY <1>1, StepNames, NewRecord DEF Idle

LEMMA ClaimingIs ==
  [Idle EXCEPT !.step = "claim", !.users = Registered] =
    [step |-> "claim", users |-> Registered, todo |-> {}, left |-> {}, after |-> "none"]
<1> DEFINE r1 == [step |-> "claim", users |-> Idle.users, todo |-> Idle.todo, left |-> Idle.left,
                  after |-> Idle.after]
<1>1. [Idle EXCEPT !.step = "claim"] = r1 BY IdleIsARecord, StepChanges
<1>2. [r1 EXCEPT !.users = Registered] =
        [step |-> "claim", users |-> Registered, todo |-> Idle.todo, left |-> Idle.left,
         after |-> Idle.after]
  OBVIOUS
<1> HIDE DEF r1
<1>3. [Idle EXCEPT !.step = "claim", !.users = Registered] =
        [step |-> "claim", users |-> Registered, todo |-> Idle.todo, left |-> Idle.left,
         after |-> Idle.after]
  BY <1>1, <1>2
<1>4. Idle.todo = {} /\ Idle.left = {} /\ Idle.after = "none" BY DEF Idle
<1> QED BY <1>3, <1>4

LEMMA CallMoves ==
  ASSUME Typed, NEW c \in Calls
  PROVE  /\ Register(c) => To(c, "entering", {}, job[c].todo, job[c].left, "none")
         /\ FindTicket(c) => Advances(c, IF HasTicket(CallerOf[c]) THEN "paid" ELSE "unpaid")
         /\ CheckBalance(c) => Advances(c, "checked")
         /\ Escrow(c) => Advances(c, "paid")
         /\ Upsert(c) => Finishes(c)
         /\ Cancel(c) => To(c, "refund", {CallerOf[c]}, {CallerOf[c]}, {}, "CANCELLED")
<1>1. c \in Jobs /\ CallerOf[c] \in Players BY DEF Jobs
<1>2. Register(c) => To(c, "entering", {}, job[c].todo, job[c].left, "none")
  <2>1. At(c, "idle") => job[c].users = {} /\ job[c].after = "none"
    BY <1>1, JobParts DEF Sound, At
  <2>2. Goes(c, "entering") => Advances(c, "entering") BY <1>1, JobMoves, StepNames
  <2> QED BY <2>1, <2>2 DEF Register, Asks, Advances
<1>3. FindTicket(c) => Advances(c, IF HasTicket(CallerOf[c]) THEN "paid" ELSE "unpaid")
  BY <1>1, JobMoves, StepNames DEF FindTicket, KnowsTicket
<1>4. CheckBalance(c) => Advances(c, "checked") BY <1>1, JobMoves, StepNames DEF CheckBalance
<1>5. Escrow(c) => Advances(c, "paid") BY <1>1, JobMoves, StepNames DEF Escrow
<1>6. Upsert(c) => Finishes(c) BY <1>1, JobMoves DEF Upsert
<1>7. Cancel(c) => To(c, "refund", {CallerOf[c]}, {CallerOf[c]}, {}, "CANCELLED")
  <2> DEFINE new == Refunding({CallerOf[c]}, "CANCELLED")
  <2>1. {CallerOf[c]} \in SUBSET Players /\ {} \in SUBSET Released(Players) /\ "CANCELLED" \in Kinds
    BY <1>1 DEF Kinds
  <2>2. new \in JobRecords BY <2>1, StepNames, NewRecord DEF Refunding
  <2>3. Becomes(c, new) => OnlyJob(c) /\ job'[c] = new BY <1>1, <2>2, JobMoves
  <2> QED BY <2>3 DEF Cancel, To, Refunding
<1> QED BY <1>2, <1>3, <1>4, <1>5, <1>6, <1>7

LEMMA RefundMoves ==
  ASSUME Typed, NEW j \in Jobs
  PROVE  /\ FindEntry(j) => /\ Turn(j) \in job[j].todo
                            /\ IF HasTicket(Turn(j)) THEN Advances(j, "charged") ELSE PassesTurn(j)
         /\ FindRefund(j) => /\ Turn(j) \in job[j].todo
                             /\ IF RefundRef(Turn(j)) \in refs THEN PassesTurn(j)
                                                               ELSE Advances(j, "owed")
         /\ Refund(j) => Turn(j) \in job[j].todo /\ PassesTurn(j)
         /\ AllRefunded(j) =>
              To(j, "release", job[j].users, job[j].todo, Released(job[j].users), job[j].after)
         /\ ReleaseNext(j) => \E ref \in FirstOf(job[j].left) :
              /\ Release(ref)
              /\ To(j, "release", job[j].users, job[j].todo, job[j].left \ {ref}, job[j].after)
         /\ Concluded(j) \/ Refused(j) \/ Fails(j) => Finishes(j)
<1> DEFINE its == job[j]
<1>1. /\ its \in JobRecords /\ Sound(j, its) /\ its.users \in SUBSET Players
      /\ its.todo \in SUBSET Players /\ its.left \in SUBSET Released(Players) /\ its.after \in Kinds
      /\ Released(its.users) \in SUBSET Released(Players)
  <2>1. Released(its.users) \in SUBSET Released(Players) BY JobParts DEF Released
  <2>2. its.todo \in SUBSET Players BY JobParts
  <2> QED BY <2>1, <2>2, JobParts
<1>2. Becomes(j, NextTurn(j)) => PassesTurn(j)
  <2> DEFINE turned == [step |-> "refund", users |-> its.users, todo |-> its.todo \ {Turn(j)},
                        left |-> its.left, after |-> its.after]
  <2>1. NextTurn(j) = turned BY <1>1, NextTurnIs
  <2>2. its.todo \ {Turn(j)} \in SUBSET Players BY <1>1
  <2>3. turned \in JobRecords BY <1>1, <2>2, StepNames, NewRecord
  <2> QED BY <2>1, <2>3, JobMoves DEF PassesTurn, To
<1>3. At(j, "charged") \/ At(j, "owed") => Turn(j) \in its.todo
  BY <1>1, TurnIsNext DEF Sound, At
<1>4. \A step \in {"charged", "owed"} : Goes(j, step) => Advances(j, step)
  BY JobMoves, StepNames
<1>5. FindEntry(j) => /\ Turn(j) \in its.todo
                      /\ IF HasTicket(Turn(j)) THEN Advances(j, "charged") ELSE PassesTurn(j)
  BY <1>2, <1>4, TurnIsNext DEF FindEntry
<1>6. FindRefund(j) => /\ Turn(j) \in its.todo
                       /\ IF RefundRef(Turn(j)) \in refs THEN PassesTurn(j)
                                                         ELSE Advances(j, "owed")
  BY <1>2, <1>3, <1>4 DEF FindRefund
<1>7. Refund(j) => Turn(j) \in its.todo /\ PassesTurn(j) BY <1>2, <1>3 DEF Refund
<1>8. AllRefunded(j) => To(j, "release", its.users, its.todo, Released(its.users), its.after)
  <2> DEFINE new == [step |-> "release", users |-> its.users, todo |-> its.todo,
                     left |-> Released(its.users), after |-> its.after]
  <2>1. Releasing(j) = new BY <1>1, ReleasingIs
  <2>2. new \in JobRecords BY <1>1, StepNames, NewRecord
  <2> QED BY <2>1, <2>2, JobMoves DEF AllRefunded, To
<1>9. ASSUME ReleaseNext(j)
      PROVE  \E ref \in FirstOf(its.left) :
               /\ Release(ref)
               /\ To(j, "release", its.users, its.todo, its.left \ {ref}, its.after)
  <2>1. PICK ref \in FirstOf(its.left) :
          Release(ref) /\ Becomes(j, [its EXCEPT !.left = its.left \ {ref}])
    BY <1>9 DEF ReleaseNext
  <2> DEFINE new == [step |-> "release", users |-> its.users, todo |-> its.todo,
                     left |-> its.left \ {ref}, after |-> its.after]
  <2>2. its.step = "release" BY <1>9 DEF ReleaseNext, At
  <2>3. [its EXCEPT !.left = its.left \ {ref}] = [step |-> its.step, users |-> its.users,
          todo |-> its.todo, left |-> its.left \ {ref}, after |-> its.after]
    BY <1>1, LeftChanges
  <2>4. [its EXCEPT !.left = its.left \ {ref}] = new BY <2>2, <2>3
  <2>5. its.left \ {ref} \in SUBSET Released(Players) BY <1>1
  <2>6. new \in JobRecords BY <1>1, <2>5, StepNames, NewRecord
  <2>7. OnlyJob(j) /\ job'[j] = new BY <2>1, <2>4, <2>6, JobMoves
  <2> QED BY <2>1, <2>7 DEF To
<1>10. Concluded(j) \/ Refused(j) \/ Fails(j) => Finishes(j)
  BY JobMoves DEF Concluded, Refused, Fails
<1> QED BY <1>5, <1>6, <1>7, <1>8, <1>9, <1>10

LEMMA CloseMoves ==
  ASSUME Typed, NEW k \in Closers
  PROVE  /\ ReadRoster(k) =>
              IF Enough(Registered) THEN To(k, "claim", Registered, {}, {}, "none")
                                    ELSE To(k, "refund", Registered, Registered, {}, "REFUNDED")
         /\ HandOver(k) => Advances(k, "play")
         /\ Settle(k) => To(k, "release", job[k].users, job[k].todo, Released(job[k].users), "none")
<1> DEFINE its == job[k]
<1>1. k \in Jobs BY DEF Jobs
<1>2. /\ its \in JobRecords /\ Sound(k, its) /\ its.users \in SUBSET Players
      /\ its.todo \in SUBSET Players /\ Released(its.users) \in SUBSET Released(Players)
      /\ its.after \in Kinds
  <2>1. Released(its.users) \in SUBSET Released(Players) BY <1>1, JobParts DEF Released
  <2>2. its.todo \in SUBSET Players BY <1>1, JobParts
  <2> QED BY <1>1, <2>1, <2>2, JobParts
<1>3. Registered \in SUBSET Players BY DEF Registered
<1>4. Idle \in JobRecords /\ {} \in SUBSET Released(Players) /\ {} \in SUBSET Players
      /\ {"none", "REFUNDED"} \subseteq Kinds
  <2>1. {"none", "REFUNDED"} \subseteq Kinds BY DEF Kinds
  <2> QED BY <2>1, StepNames, NewRecord DEF Idle
<1>5. ASSUME ReadRoster(k)
      PROVE  IF Enough(Registered) THEN To(k, "claim", Registered, {}, {}, "none")
                                   ELSE To(k, "refund", Registered, Registered, {}, "REFUNDED")
  <2> DEFINE claim == [step |-> "claim", users |-> Registered, todo |-> {}, left |-> {},
                       after |-> "none"]
             back  == [step |-> "refund", users |-> Registered, todo |-> Registered, left |-> {},
                       after |-> "REFUNDED"]
  <2>1. claim \in JobRecords /\ back \in JobRecords BY <1>3, <1>4, StepNames, NewRecord
  <2>3. [Idle EXCEPT !.step = "claim", !.users = Registered] = claim BY ClaimingIs
  <2>4. Refunding(Registered, "REFUNDED") = back BY DEF Refunding
  <2>5. IF Enough(Registered) THEN Becomes(k, claim) ELSE Becomes(k, back)
    BY <1>5, <2>3, <2>4 DEF ReadRoster
  <2>6. IF Enough(Registered) THEN OnlyJob(k) /\ job'[k] = claim
                              ELSE OnlyJob(k) /\ job'[k] = back
    BY <1>1, <2>1, <2>5, JobMoves
  <2> QED BY <2>6 DEF To
<1>6. HandOver(k) => Advances(k, "play") BY <1>1, JobMoves, StepNames DEF HandOver
<1>7. Settle(k) => To(k, "release", its.users, its.todo, Released(its.users), "none")
  <2> DEFINE new == [step |-> "release", users |-> its.users, todo |-> its.todo,
                     left |-> Released(its.users), after |-> its.after]
  <2>1. Releasing(k) = new BY <1>2, ReleasingIs
  <2>2. new \in JobRecords BY <1>2, StepNames, NewRecord
  <2>3. At(k, "play") => its.after = "none" BY <1>2 DEF Sound, At
  <2> QED BY <1>1, <2>1, <2>2, <2>3, JobMoves DEF Settle, To
<1> QED BY <1>5, <1>6, <1>7


-----------------------------------------------------------------------------
(* Types *)

Keeps(j) ==
  /\ OnlyJob(j) /\ Sound(j, job'[j]) /\ UNCHANGED clock
  /\ \/ j \in Calls /\ ~ticked
     \/ j \in Closers /\ ticked
     \/ ~At(j, "idle") \/ At(j, "idle")'

LEMMA KeepsTyped ==
  ASSUME Typed, NEW j \in Jobs, Keeps(j), BooksTyped', row' \in [Players -> Statuses],
         played' \in [Players -> Nat], failures' \in Nat
  PROVE  Typed'
<1>1. job' \in [Jobs -> JobRecords] /\ \A l \in Jobs : Sound(l, job'[l])
  BY DEF Keeps, OnlyJob, Typed
<1>2. (~ticked => ~crossed /\ \A k \in Closers : At(k, "idle"))'
  <2>1. ~ticked => ~crossed /\ \A k \in Closers : At(k, "idle") BY DEF Typed
  <2>2. ASSUME NEW k \in Closers, ~ticked PROVE At(k, "idle")'
    <3>1. k \in Jobs /\ k \notin Calls BY DEF Jobs
    <3> QED BY <2>1, <2>2, <3>1 DEF Keeps, OnlyJob, At
  <2> QED BY <2>1, <2>2 DEF Keeps, clock
<1>3. (ticked /\ ~crossed => \A c \in Calls : At(c, "idle"))'
  <2>1. ticked /\ ~crossed => \A c \in Calls : At(c, "idle") BY DEF Typed
  <2>2. ASSUME NEW c \in Calls, ticked, ~crossed PROVE At(c, "idle")'
    <3>1. c \in Jobs /\ c \notin Closers BY DEF Jobs
    <3> QED BY <2>1, <2>2, <3>1 DEF Keeps, OnlyJob, At
  <2> QED BY <2>1, <2>2 DEF Keeps, clock
<1> QED BY <1>1, <1>2, <1>3 DEF Typed, BooksTyped, Keeps, clock

LEMMA CallsKeep ==
  ASSUME Typed, NEW c \in Calls, UNCHANGED clock,
         Register(c) \/ FindTicket(c) \/ CheckBalance(c) \/ Escrow(c) \/ Upsert(c) \/ Cancel(c)
  PROVE  Keeps(c)
<1>1. c \in Jobs /\ Sound(c, job[c]) BY JobParts DEF Jobs
<1>2. c \notin Closers OBVIOUS
<1> DEFINE its == job[c]
<1>3. ASSUME NEW step \in Registering, To(c, step, {}, its.todo, its.left, "none"),
             its.step \in Registering \cup {"idle"}
      PROVE  Sound(c, job'[c])
  <2>1. its.users = {} /\ its.todo = {} /\ its.left \subseteq Released({})
    BY <1>1, <1>3 DEF Sound
  <2>2. /\ step \in CallSteps /\ step \notin {"idle", "charged", "owed", "claim", "play", "release"}
        /\ step \notin RefundSteps
    BY <1>3 DEF Registering, RefundSteps, CallSteps
  <2>3. job'[c] = [step |-> step, users |-> {}, todo |-> {}, left |-> its.left, after |-> "none"]
    BY <1>3, <2>1 DEF To
  <2> QED BY <1>2, <2>1, <2>2, <2>3 DEF Sound
<1>4. ASSUME NEW step \in Registering, Advances(c, step), its.step \in Registering
      PROVE  Sound(c, job'[c])
  <2>1. its.users = {} /\ its.after = "none" BY <1>1, <1>4 DEF Sound
  <2> QED BY <1>3, <1>4, <2>1 DEF Advances
<1>5. CASE Register(c)
  <2>1. To(c, "entering", {}, its.todo, its.left, "none") /\ At(c, "idle") /\ ~ticked
    BY <1>5, CallMoves DEF Register, Asks
  <2>2. Sound(c, job'[c]) BY <1>3, <2>1 DEF At, Registering
  <2> QED BY <2>1, <2>2 DEF To, Keeps
<1>6. CASE FindTicket(c) \/ CheckBalance(c) \/ Escrow(c)
  <2>1. PICK step \in Registering : Advances(c, step)
    BY <1>6, CallMoves DEF Registering
  <2>2. its.step \in Registering /\ ~At(c, "idle")
    BY <1>6 DEF FindTicket, CheckBalance, Escrow, At, Registering
  <2>3. Sound(c, job'[c]) BY <1>4, <2>1, <2>2
  <2> QED BY <2>1, <2>2, <2>3 DEF Advances, To, Keeps
<1>7. CASE Upsert(c)
  <2>1. Finishes(c) BY <1>7, CallMoves
  <2>2. Sound(c, job'[c]) BY <1>2, <2>1 DEF Finishes, To, Sound, RefundSteps, CallSteps
  <2> QED BY <2>1, <2>2 DEF Finishes, To, Keeps, At
<1>8. CASE Cancel(c)
  <2>1. To(c, "refund", {CallerOf[c]}, {CallerOf[c]}, {}, "CANCELLED") /\ ~ticked
    BY <1>8, CallMoves DEF Cancel, Asks
  <2>2. Sound(c, job'[c])
    BY <1>2, <2>1 DEF To, Sound, Registering, RefundSteps, CallSteps
  <2> QED BY <2>1, <2>2 DEF To, Keeps
<1> QED BY <1>5, <1>6, <1>7, <1>8

LEMMA FinishesKeeps ==
  ASSUME NEW j \in Jobs, Finishes(j), UNCHANGED clock
  PROVE  Keeps(j)
<1>1. Sound(j, job'[j])
  BY DEF Finishes, To, Sound, Registering, RefundSteps, CallSteps, CloserSteps
<1> QED BY <1>1 DEF Finishes, To, Keeps, At

LEMMA RefundsKeep ==
  ASSUME Typed, NEW j \in Jobs, UNCHANGED clock, Refunds(j)
  PROVE  Keeps(j)
<1> DEFINE its == job[j]
<1>1. Sound(j, its) BY JobParts
<1>2. ASSUME FindEntry(j) \/ FindRefund(j) \/ Refund(j)
      PROVE  its.step \in RefundSteps /\ Turn(j) \in its.todo
             /\ \/ PassesTurn(j)
                \/ \E step \in {"charged", "owed"} : Advances(j, step)
  BY <1>2, RefundMoves DEF FindEntry, FindRefund, Refund, At, RefundSteps
<1>3. ASSUME its.step \in RefundSteps, PassesTurn(j) PROVE Sound(j, job'[j])
  BY <1>1, <1>3 DEF PassesTurn, To, Sound, Registering, RefundSteps, CallSteps, CloserSteps
<1>4. ASSUME its.step \in RefundSteps, Turn(j) \in its.todo, NEW step \in {"charged", "owed"},
             Advances(j, step)
      PROVE  Sound(j, job'[j])
  BY <1>1, <1>4 DEF Advances, To, Sound, Registering, RefundSteps, CallSteps, CloserSteps
<1>5. CASE FindEntry(j) \/ FindRefund(j) \/ Refund(j)
  <2>1. OnlyJob(j) /\ Sound(j, job'[j])
    BY <1>2, <1>3, <1>4, <1>5 DEF PassesTurn, Advances, To
  <2>2. ~At(j, "idle") BY <1>2, <1>5 DEF At, RefundSteps
  <2> QED BY <2>1, <2>2 DEF Keeps
<1>6. ASSUME NEW left \in SUBSET Released(its.users), its.step \in RefundSteps \cup {"release"},
             To(j, "release", its.users, its.todo, left, its.after)
      PROVE  Keeps(j)
  <2>1. Sound(j, job'[j])
    BY <1>1, <1>6 DEF To, Sound, Registering, RefundSteps, CallSteps, CloserSteps
  <2>2. ~At(j, "idle") BY <1>6 DEF At, RefundSteps
  <2> QED BY <1>6, <2>1, <2>2 DEF To, Keeps
<1>7. CASE AllRefunded(j)
  BY <1>6, <1>7, RefundMoves DEF AllRefunded, At, RefundSteps
<1>8. CASE ReleaseNext(j)
  <2>1. PICK ref : To(j, "release", its.users, its.todo, its.left \ {ref}, its.after)
    BY <1>8, RefundMoves
  <2>2. its.left \ {ref} \in SUBSET Released(its.users) BY <1>1 DEF Sound
  <2>3. its.step = "release" BY <1>8 DEF ReleaseNext, At
  <2> QED BY <1>6, <2>1, <2>2, <2>3
<1>9. CASE Concluded(j)
  BY <1>9, RefundMoves, FinishesKeeps
<1> QED BY <1>5, <1>7, <1>8, <1>9 DEF Refunds

LEMMA ClosesKeep ==
  ASSUME Typed, NEW k \in Closers, UNCHANGED clock, Close(k)
  PROVE  Keeps(k)
<1> DEFINE its == job[k]
<1>1. k \in Jobs /\ k \notin Calls /\ Sound(k, its) BY JobParts DEF Jobs
<1>2. CASE ReadRoster(k)
  <2>1. ticked BY <1>2 DEF ReadRoster
  <2>2. CASE To(k, "claim", Registered, {}, {}, "none") /\ Enough(Registered)
    <3>1. Sound(k, job'[k])
      BY <1>1, <2>2 DEF To, Sound, Registering, RefundSteps, CloserSteps
    <3> QED BY <2>1, <2>2, <3>1 DEF To, Keeps
  <2>3. CASE To(k, "refund", Registered, Registered, {}, "REFUNDED")
    <3>1. Sound(k, job'[k])
      BY <1>1, <2>3 DEF To, Sound, Registering, RefundSteps, CloserSteps
    <3> QED BY <2>1, <2>3, <3>1 DEF To, Keeps
  <2> QED BY <1>2, <2>2, <2>3, CloseMoves
<1>3. CASE HandOver(k)
  <2>1. Advances(k, "play") /\ its.step = "claim" BY <1>3, CloseMoves DEF HandOver, At
  <2>2. Sound(k, job'[k])
    BY <1>1, <2>1 DEF Advances, To, Sound, Registering, RefundSteps, CloserSteps
  <2> QED BY <2>1, <2>2 DEF Advances, To, Keeps, At
<1>4. CASE Settle(k)
  <2>1. /\ To(k, "release", its.users, its.todo, Released(its.users), "none")
        /\ its.step = "play"
    BY <1>4, CloseMoves DEF Settle, At
  <2>2. Sound(k, job'[k])
    BY <1>1, <2>1 DEF To, Sound, Registering, RefundSteps, CloserSteps
  <2> QED BY <2>1, <2>2 DEF To, Keeps, At
<1> QED BY <1>2, <1>3, <1>4 DEF Close

LEMMA ClaimTyped ==
  ASSUME row \in [Players -> Statuses], NEW us, NEW status \in Statuses
  PROVE  Claim(us, status) \in [Players -> Statuses]
  BY DEF Claim

(* A settlement pays the winner a part of what was collected, and charges  *)
(* nobody.                                                                 *)
LEMMA SettlePosts ==
  ASSUME Typed, NEW k \in Closers, Settle(k)
  PROVE  \E winner \in job[k].users :
           /\ BooksTyped' /\ refs' = refs \cup {PayoutRef}
           /\ ledger'["pool"] = ledger["pool"] - Collected(job[k].users)
           /\ \A v \in Players : v # winner => ledger'[v] = ledger[v]
<1> DEFINE us == job[k].users
<1>1. PICK winner \in us : PayOut(winner, us, ROOM_SEATS, prizePoolSharePct) BY DEF Settle
<1>2. us \in SUBSET Players /\ winner \in Players BY JobParts DEF Jobs
<1>3. BooksTyped BY DEF Typed, BooksTyped
<1> HIDE DEF us
<1> DEFINE collected == Collected(us)
           pool  == prizePoolCents(Level, collected, Cardinality(us), ROOM_SEATS, prizePoolSharePct)
           prize == prizeShareCents(pool, Plan[winner])
           postings == [a \in Accounts |-> CASE a = "pool" -> -collected [] a = winner -> prize
                                              [] a = "rake" -> collected - prize [] OTHER -> 0]
<1>4. collected \in Nat BY <1>2, CollectedType
<1>5. prize \in Nat
  <2>1. Cardinality(us) \in Nat BY <1>2, FS_Subset, FS_CardinalityType
  <2>2. Level \in Levels /\ Plan[winner] \in SUBSCRIPTIONS BY <1>2
  <2>3. ROOM_SEATS \in Nat \ {0} /\ prizePoolSharePct \in 0..100 OBVIOUS
  <2>4. pool \in 0..collected /\ prize \in 0..pool
    BY <1>4, <2>1, <2>2, <2>3, HouseNeverOverpays
  <2> HIDE DEF pool, prize, collected
  <2> QED BY <1>4, <2>4
<1>6. Post(PayoutRef, postings, {}) BY <1>1 DEF PayOut
<1> HIDE DEF collected, prize
<1>7. /\ "pool" \in Accounts /\ "pool" \notin Players /\ "rake" \notin Players
      /\ Players \subseteq Accounts
  BY DEF Accounts
<1>8. /\ postings \in [Accounts -> Int] /\ postings["pool"] = -collected
      /\ \A v \in Players : v # winner => postings[v] = 0
  BY <1>2, <1>4, <1>5, <1>7
<1> HIDE DEF postings
<1>9. /\ BooksTyped' /\ PayoutRef \notin refs /\ refs' = refs \cup {PayoutRef}
      /\ \A a \in Accounts : ledger'[a] = ledger[a] + postings[a]
  BY <1>3, <1>6, <1>8, PostAddsUp
<1>10. ledger'["pool"] = ledger["pool"] - collected
  <2>1. ledger["pool"] \in Int BY <1>3, <1>7 DEF BooksTyped
  <2> QED BY <1>4, <1>7, <1>8, <1>9, <2>1
<1>11. \A v \in Players : v # winner => ledger'[v] = ledger[v]
  <2> SUFFICES ASSUME NEW v \in Players, v # winner PROVE ledger'[v] = ledger[v]
    OBVIOUS
  <2>1. ledger[v] \in Int BY <1>3, <1>7 DEF BooksTyped
  <2> QED BY <1>7, <1>8, <1>9, <2>1
<1> QED BY <1>1, <1>9, <1>10, <1>11 DEF collected, us

LEMMA TypedNext == ASSUME Typed, [Next]_vars PROVE Typed'
<1>1. BooksTyped /\ row \in [Players -> Statuses] /\ played \in [Players -> Nat] /\ failures \in Nat
  BY DEF Typed, BooksTyped
<1>2. CASE UNCHANGED vars
  BY <1>2 DEF Typed, vars, clock, books, At
<1>3. ASSUME NEW c \in Calls, Request(c) \/ Registers(c), UNCHANGED <<clock, failures>>
      PROVE  Typed'
  <2>1. c \in Jobs /\ CallerOf[c] \in Players BY DEF Jobs
  <2>2. UNCHANGED clock BY <1>3
  <2>3. Keeps(c) BY <1>3, <2>2, CallsKeep DEF Request, Registers
  <2>4. BooksTyped'
    <3>1. CASE Escrow(c) BY <1>1, <2>1, <3>1, ChargeAddsUp DEF Escrow
    <3>2. CASE UNCHANGED books BY <1>1, <3>2 DEF books, BooksTyped
    <3> QED BY <1>3, <3>1, <3>2 DEF Request, Registers, Register, Cancel, FindTicket,
              CheckBalance, Upsert
  <2>5. row' \in [Players -> Statuses] /\ played' = played /\ failures' = failures
    <3>1. CASE Upsert(c) BY <1>1, <1>3, <3>1 DEF Upsert, Statuses
    <3>2. CASE UNCHANGED <<row, played>> BY <1>1, <1>3, <3>2
    <3> QED BY <1>3, <3>1, <3>2 DEF Request, Registers, Register, Cancel, FindTicket,
              CheckBalance, Escrow
  <2> QED BY <1>1, <2>1, <2>3, <2>4, <2>5, KeepsTyped
<1>4. ASSUME NEW j \in Jobs, Refunds(j), UNCHANGED <<clock, requests, failures>>
      PROVE  Typed'
  <2>1. Keeps(j) BY <1>4, RefundsKeep
  <2>2. BooksTyped'
    <3>1. CASE Refund(j)
      <4>1. Turn(j) \in Players /\ GiveBack(Turn(j)) BY <3>1, RefundMoves, JobParts DEF Refund
      <4> QED BY <1>1, <4>1, GiveBackAddsUp
    <3>2. CASE UNCHANGED <<ledger, cached>> BY <1>1, <3>2 DEF BooksTyped
    <3> QED BY <1>4, <3>1, <3>2 DEF Refunds, FindEntry, FindRefund, AllRefunded, ReleaseNext,
              Release, Concluded, books
  <2>3. row' \in [Players -> Statuses] /\ played' = played
    <3>1. CASE Concluded(j)
      BY <1>1, <3>1, ClaimTyped DEF Concluded, Statuses
    <3>2. CASE UNCHANGED <<row, played>> BY <1>1, <3>2
    <3> QED BY <1>4, <3>1, <3>2 DEF Refunds, FindEntry, FindRefund, Refund, AllRefunded, ReleaseNext
  <2> QED BY <1>1, <1>4, <2>1, <2>2, <2>3, KeepsTyped
<1>5. ASSUME NEW j \in Jobs, Refused(j) \/ Fails(j), UNCHANGED clock, failures' \in Nat
      PROVE  Typed'
  <2>1. Keeps(j) BY <1>5, RefundMoves, FinishesKeeps
  <2>2. UNCHANGED <<books, row, played>> BY <1>5 DEF Refused, Fails
  <2>3. BooksTyped' BY <1>1, <2>2 DEF books, BooksTyped
  <2> QED BY <1>1, <1>5, <2>1, <2>2, <2>3, KeepsTyped
<1>6. ASSUME NEW k \in Closers, Close(k), UNCHANGED <<clock, requests, failures>>
      PROVE  Typed'
  <2>1. k \in Jobs BY DEF Jobs
  <2>2. Keeps(k) BY <1>6, ClosesKeep
  <2>3. BooksTyped'
    <3>1. CASE Settle(k)
      BY <3>1, SettlePosts
    <3>2. CASE UNCHANGED books BY <1>1, <3>2 DEF books, BooksTyped
    <3> QED BY <1>6, <3>1, <3>2 DEF Close, ReadRoster, HandOver
  <2>4. row' \in [Players -> Statuses] /\ played' \in [Players -> Nat]
    <3>1. CASE HandOver(k)
      <4>1. row' \in [Players -> Statuses] BY <1>1, <3>1, ClaimTyped DEF HandOver, Statuses
      <4> QED BY <1>1, <3>1, <4>1 DEF HandOver
    <3>2. CASE UNCHANGED <<row, played>> BY <1>1, <3>2
    <3> QED BY <1>6, <3>1, <3>2 DEF Close, ReadRoster, Settle
  <2> QED BY <1>1, <1>6, <2>1, <2>2, <2>3, <2>4, KeepsTyped
<1>7. CASE Tick
  <2>1. UNCHANGED <<books, row, job, played, failures>> /\ ticked' = TRUE
        /\ crossed' = (\E c \in Calls : ~At(c, "idle"))
    BY <1>7 DEF Tick
  <2>2. crossed' \in BOOLEAN /\ (~crossed' => \A c \in Calls : At(c, "idle")) BY <2>1
  <2>3. \A c \in Calls : At(c, "idle")' = At(c, "idle") BY <2>1 DEF At
  <2> QED BY <2>1, <2>2, <2>3 DEF Typed, books
<1>8. \A j \in Jobs : Fails(j) => failures' \in Nat /\ UNCHANGED clock BY <1>1 DEF Fails
<1> QED BY <1>1, <1>2, <1>3, <1>4, <1>5, <1>6, <1>7, <1>8 DEF Next


-----------------------------------------------------------------------------
(* Rosters *)

(* What HandOver and Concluded do to a seat.                               *)
LEMMA SeatAfterClaim ==
  ASSUME row \in [Players -> Statuses], NEW us, NEW status \in Statuses, NEW u \in Players
  PROVE  /\ Claim(us, status)[u] = IF u \in us /\ row[u] = "REGISTERED" THEN status ELSE row[u]
         /\ status # "REGISTERED" /\ row[u] # "REGISTERED" =>
              Claim(us, status)[u] # "REGISTERED"
  BY DEF Claim

LEMMA SeatAfterConcluded ==
  ASSUME Typed, NEW j \in Jobs, Concluded(j), NEW u \in Players
  PROVE  /\ row[u] # "REGISTERED" => row'[u] # "REGISTERED"
         /\ u \notin job[j].users \/ job[j].after = "none" => row'[u] = row[u]
         /\ u \in job[j].users /\ job[j].after # "none" => row'[u] # "REGISTERED"
<1>1. row \in [Players -> Statuses] /\ {"CANCELLED", "REFUNDED"} \subseteq Statuses
      /\ job[j].after \in Kinds /\ Sound(j, job[j]) /\ job[j].step = "release"
  BY JobParts DEF Typed, Statuses, Concluded, At
<1>2. CASE job[j].after = "CANCELLED"
  <2>1. j \in Calls /\ job[j].users = {CallerOf[j]} BY <1>1, <1>2 DEF Sound, Jobs
  <2>2. row' = [row EXCEPT ![CallerOf[j]] = "CANCELLED"] BY <1>2 DEF Concluded
  <2> QED BY <1>1, <1>2, <2>1, <2>2
<1>3. CASE job[j].after = "REFUNDED"
  <2>1. row' = Claim(job[j].users, "REFUNDED") BY <1>3 DEF Concluded
  <2> QED BY <1>1, <1>3, <2>1, SeatAfterClaim
<1>4. CASE job[j].after = "none"
  <2>1. row' = row BY <1>4 DEF Concluded
  <2> QED BY <1>4, <2>1
<1> QED BY <1>1, <1>2, <1>3, <1>4 DEF Kinds

(* A step of a job that leaves the seats, or takes some away.              *)
LEMMA RostersKept ==
  ASSUME Typed, Rosters, NEW j \in Jobs, OnlyJob(j), UNCHANGED clock, played' = played,
         \A u \in Players : row[u] # "REGISTERED" => row'[u] # "REGISTERED",
         (job[j].step \in Registering)' => job[j].step \in Registering \/ ~ticked,
         (job[j].step \in Registering)' /\ At(j, "idle") => row[CallerOf[j]] # "REGISTERED",
         (job[j].step \in Registering)' => At(j, "idle") \/ job[j].step \in Registering,
         ~At(j, "claim")'
  PROVE  Rosters'
<1>1. ASSUME NEW c \in Calls, (job[c].step \in Registering)'
      PROVE  /\ job[c].step \in Registering \/ ~ticked
             /\ row[CallerOf[c]] # "REGISTERED"
  <2>1. c \in Jobs BY DEF Jobs
  <2> QED BY <1>1, <2>1 DEF OnlyJob, Rosters
<1>2. ASSUME NEW k \in Closers, At(k, "claim")'
      PROVE  At(k, "claim") /\ job'[k].users = job[k].users /\ ticked
  <2>1. k \in Jobs BY DEF Jobs
  <2>2. job'[k] = job[k] BY <1>2, <2>1 DEF OnlyJob
  <2> QED BY <1>2, <2>2 DEF At, Typed
<1>3. (\A c \in Calls : job[c].step \in Registering => row[CallerOf[c]] # "REGISTERED")'
  BY <1>1
<1>4. (\A u \in Players : played[u] = 1 =>
         /\ row[u] # "REGISTERED" /\ ticked
         /\ \A c \in Calls : CallerOf[c] = u => job[c].step \notin Registering)'
  BY <1>1 DEF Rosters, clock
<1>5. (\A k \in Closers : At(k, "claim") => \A u \in job[k].users :
         /\ played[u] = 0
         /\ \A c \in Calls : CallerOf[c] = u => job[c].step \notin Registering)'
  <2> SUFFICES ASSUME NEW k \in Closers, At(k, "claim")', NEW u \in job'[k].users
               PROVE  /\ played'[u] = 0
                      /\ \A c \in Calls : CallerOf[c] = u => (job[c].step \notin Registering)'
    OBVIOUS
  <2>1. At(k, "claim") /\ u \in job[k].users /\ ticked BY <1>2
  <2> QED BY <1>1, <2>1 DEF Rosters
<1>6. (\A u \in Players : played[u] \in {0, 1})' BY DEF Rosters
<1> QED BY <1>3, <1>4, <1>5, <1>6 DEF Rosters


LEMMA RostersNext == ASSUME OneAtATime, Typed, Rosters, [Next]_vars PROVE Rosters'
<1>1. row \in [Players -> Statuses] /\ \A c \in Calls : c \in Jobs /\ CallerOf[c] \in Players
  BY DEF Typed, Jobs
<1>2. CASE UNCHANGED vars
  BY <1>2 DEF Rosters, vars, clock, At
<1>3. ASSUME NEW c \in Calls, Request(c) \/ FindTicket(c) \/ CheckBalance(c) \/ Escrow(c),
             UNCHANGED clock
      PROVE  Rosters'
  <2>1. row' = row /\ played' = played
    BY <1>3 DEF Request, Register, Cancel, FindTicket, CheckBalance, Escrow
  <2>2. CASE Register(c)
    <3>1. /\ To(c, "entering", {}, job[c].todo, job[c].left, "none") /\ ~ticked
          /\ row[CallerOf[c]] # "REGISTERED" /\ At(c, "idle")
      BY <2>2, CallMoves DEF Register, Asks
    <3> QED BY <1>1, <1>3, <2>1, <3>1, RostersKept DEF To, At
  <2>3. CASE FindTicket(c) \/ CheckBalance(c) \/ Escrow(c)
    <3>1. PICK step \in Registering : Advances(c, step)
      BY <2>3, CallMoves DEF Registering
    <3>2. job[c].step \in Registering /\ ~At(c, "idle")
      BY <2>3 DEF FindTicket, CheckBalance, Escrow, At, Registering
    <3>3. step # "claim" BY DEF Registering
    <3> QED BY <1>1, <1>3, <2>1, <3>1, <3>2, <3>3, RostersKept DEF Advances, To, At
  <2>4. CASE Cancel(c)
    <3>1. To(c, "refund", {CallerOf[c]}, {CallerOf[c]}, {}, "CANCELLED")
      BY <2>4, CallMoves
    <3> QED BY <1>1, <1>3, <2>1, <3>1, RostersKept DEF To, At, Registering
  <2> QED BY <1>3, <2>2, <2>3, <2>4 DEF Request
<1>4. ASSUME NEW c \in Calls, Upsert(c), UNCHANGED clock PROVE Rosters'
  <2> DEFINE u == CallerOf[c]
  <2>1. /\ Finishes(c) /\ job[c].step \in Registering /\ played' = played
        /\ row' = [row EXCEPT ![u] = "REGISTERED"]
    BY <1>4, CallMoves DEF Upsert, At, Registering
  <2>2. OnlyJob(c) /\ job'[c].step = "idle" BY <2>1 DEF Finishes, To
  <2>3. "idle" \notin Registering BY DEF Registering
  <2>4. \A v \in Players : v # u => row'[v] = row[v] BY <1>1, <2>1
  <2>5. ASSUME NEW d \in Calls, (job[d].step \in Registering)'
        PROVE  job[d].step \in Registering /\ CallerOf[d] # u
    BY <1>1, <2>2, <2>3, <2>5 DEF OnlyJob, OneAtATime
  <2>6. played[u] # 1 BY <1>1, <2>1 DEF Rosters
  <2>7. ASSUME NEW k \in Closers, At(k, "claim")'
        PROVE  At(k, "claim") /\ job'[k] = job[k]
    <3>1. k \in Jobs /\ k # c BY DEF Jobs
    <3> QED BY <2>2, <2>7, <3>1 DEF OnlyJob, At
  <2>8. (\A d \in Calls : job[d].step \in Registering => row[CallerOf[d]] # "REGISTERED")'
    BY <1>1, <2>4, <2>5 DEF Rosters
  <2>9. (\A v \in Players : played[v] = 1 =>
           /\ row[v] # "REGISTERED" /\ ticked
           /\ \A d \in Calls : CallerOf[d] = v => job[d].step \notin Registering)'
    BY <1>4, <2>1, <2>4, <2>5, <2>6 DEF Rosters, clock
  <2>10. (\A k \in Closers : At(k, "claim") => \A v \in job[k].users :
            /\ played[v] = 0
            /\ \A d \in Calls : CallerOf[d] = v => job[d].step \notin Registering)'
    BY <2>1, <2>5, <2>7 DEF Rosters
  <2>11. (\A v \in Players : played[v] \in {0, 1})' BY <2>1 DEF Rosters
  <2> HIDE DEF u
  <2> QED BY <2>8, <2>9, <2>10, <2>11 DEF Rosters
<1>5. ASSUME NEW j \in Jobs, Refunds(j) \/ Refused(j) \/ Fails(j), UNCHANGED clock
      PROVE  Rosters'
  <2>1. /\ OnlyJob(j) /\ job'[j].step \in RefundSteps \cup {"release", "idle"}
    <3>1. CASE FindEntry(j) \/ FindRefund(j) \/ Refund(j)
      <4>1. PassesTurn(j) \/ Advances(j, "charged") \/ Advances(j, "owed")
        BY <3>1, RefundMoves
      <4> QED BY <4>1 DEF PassesTurn, Advances, To, RefundSteps
    <3>2. CASE AllRefunded(j) \/ ReleaseNext(j)
      <4>1. \E left : To(j, "release", job[j].users, job[j].todo, left, job[j].after)
        BY <3>2, RefundMoves
      <4> QED BY <4>1 DEF To
    <3>3. CASE Concluded(j) \/ Refused(j) \/ Fails(j)
      <4>1. Finishes(j) BY <3>3, RefundMoves
      <4> QED BY <4>1 DEF Finishes, To
    <3> QED BY <1>5, <3>1, <3>2, <3>3 DEF Refunds
  <2>2. job'[j].step \notin Registering /\ ~At(j, "claim")'
    BY <2>1 DEF RefundSteps, Registering, At
  <2>3. played' = played
    BY <1>5 DEF Refunds, Refused, Fails, FindEntry, FindRefund, Refund, AllRefunded, ReleaseNext,
             Concluded
  <2>4. CASE Concluded(j)
    BY <1>5, <2>1, <2>2, <2>3, <2>4, SeatAfterConcluded, RostersKept
  <2>5. CASE row' = row
    BY <1>5, <2>1, <2>2, <2>3, <2>5, RostersKept
  <2> QED BY <1>5, <2>4, <2>5 DEF Refunds, Refused, Fails, FindEntry, FindRefund, Refund,
               AllRefunded, ReleaseNext
<1>6. ASSUME NEW k \in Closers, Close(k), UNCHANGED clock PROVE Rosters'
  <2>1. k \in Jobs /\ k \notin Calls /\ \A l \in Closers : l = k BY DEF Jobs, OneAtATime
  <2>2. ASSUME OnlyJob(k) PROVE \A c \in Calls : job'[c] = job[c]
    BY <2>1, <2>2 DEF OnlyJob, Jobs
  <2>3. CASE ReadRoster(k)
    <3>1. row' = row /\ played' = played /\ ticked BY <2>3 DEF ReadRoster
    <3>2. CASE To(k, "claim", Registered, {}, {}, "none")
      <4>1. \A c \in Calls : job'[c] = job[c] BY <2>2, <3>2 DEF To
      <4>2. job'[k].users = Registered BY <3>2 DEF To
      <4>3. \A u \in Registered : /\ played[u] = 0
              /\ \A c \in Calls : CallerOf[c] = u => job[c].step \notin Registering
        BY <1>1 DEF Registered, Rosters
      <4>4. (\A l \in Closers : At(l, "claim") => \A u \in job[l].users :
               /\ played[u] = 0
               /\ \A c \in Calls : CallerOf[c] = u => job[c].step \notin Registering)'
        BY <2>1, <3>1, <4>1, <4>2, <4>3
      <4> QED BY <1>6, <3>1, <4>1, <4>4 DEF Rosters, clock
    <3>3. CASE To(k, "refund", Registered, Registered, {}, "REFUNDED")
      BY <1>6, <2>1, <3>1, <3>3, RostersKept DEF To, At, Registering
    <3> QED BY <2>3, <3>2, <3>3, CloseMoves
  <2>4. CASE HandOver(k)
    <3>1. /\ Advances(k, "play") /\ At(k, "claim") /\ row' = Claim(job[k].users, "STARTED")
          /\ played' = [u \in Players |-> IF u \in job[k].users THEN played[u] + 1 ELSE played[u]]
      BY <2>4, CloseMoves DEF HandOver
    <3>2. /\ \A c \in Calls : job'[c] = job[c]
          /\ \A l \in Closers : ~At(l, "claim")'
      BY <2>1, <2>2, <3>1 DEF Advances, To, At
    <3>3. ticked BY <2>1, <3>1 DEF Typed, At
    <3>4. \A u \in Players : row'[u] # "REGISTERED" \/ (row[u] = "REGISTERED" /\ u \notin job[k].users)
      BY <1>1, <3>1, SeatAfterClaim DEF Statuses
    <3>5. \A u \in Players :
            /\ u \in job[k].users => played[u] = 0 /\ played'[u] = 1
            /\ u \notin job[k].users => played'[u] = played[u]
      <4>1. \A u \in job[k].users : played[u] = 0 BY <3>1 DEF Rosters
      <4> QED BY <3>1, <4>1
    <3>6. (\A c \in Calls : job[c].step \in Registering => row[CallerOf[c]] # "REGISTERED")'
      BY <1>1, <3>2, <3>4 DEF Rosters
    <3>7. (\A u \in Players : played[u] \in {0, 1})' BY <3>5 DEF Rosters
    <3>8. ASSUME NEW u \in Players, played'[u] = 1
          PROVE  /\ row'[u] # "REGISTERED"
                 /\ \A c \in Calls : CallerOf[c] = u => (job[c].step \notin Registering)'
      <4>1. CASE u \in job[k].users
        BY <3>1, <3>2, <3>4, <4>1 DEF Rosters
      <4>2. CASE u \notin job[k].users
        BY <3>2, <3>4, <3>5, <3>8, <4>2 DEF Rosters
      <4> QED BY <4>1, <4>2
    <3> QED BY <1>6, <3>2, <3>3, <3>6, <3>7, <3>8 DEF Rosters, clock
  <2>5. CASE Settle(k)
    <3>1. /\ To(k, "release", job[k].users, job[k].todo, Released(job[k].users), "none")
          /\ row' = row /\ played' = played
      BY <2>5, CloseMoves DEF Settle
    <3> QED BY <1>6, <2>1, <3>1, RostersKept DEF To, At, Registering
  <2> QED BY <1>6, <2>3, <2>4, <2>5 DEF Close
<1>7. CASE Tick
  <2>1. UNCHANGED <<row, job, played>> /\ ticked' = TRUE BY <1>7 DEF Tick
  <2> QED BY <2>1 DEF Rosters, At
<1>8. \A j \in Jobs : Fails(j) => UNCHANGED clock BY DEF Fails
<1> QED BY <1>2, <1>3, <1>4, <1>5, <1>6, <1>7, <1>8 DEF Next, Registers


-----------------------------------------------------------------------------
(* Refunds *)

(* Rank says which reference goes first: entries before refunds.           *)
LEMMA EntriesFirst ==
  ASSUME NEW left, NEW us, left \subseteq Released(us), NEW ref \in FirstOf(left)
  PROVE  /\ ref \in left
         /\ \A u : ref = EntryRef(u) \/ ref = RefundRef(u) => u \in us
         /\ \A u : ref = RefundRef(u) => \A v : EntryRef(v) \notin left
<1>1. ref \in left /\ \A other \in left : Rank(ref) <= Rank(other) BY DEF FirstOf
<1>2. \A u : ref = EntryRef(u) \/ ref = RefundRef(u) => u \in us
  BY <1>1 DEF Released, EntryRef, RefundRef, PayoutRef
<1>3. \A u : Rank(RefundRef(u)) = 3 BY DEF Rank, RefundRef, PayoutRef
<1>4. \A v : Rank(EntryRef(v)) = 2 BY DEF Rank, EntryRef, PayoutRef
<1> QED BY <1>1, <1>2, <1>3, <1>4

(* A step of j that takes no ticket of another, and charges as it ought.   *)
LEMMA AccountedKept ==
  ASSUME Accounted, NEW j \in Jobs, OnlyJob(j), crossed' = crossed,
         ~crossed => Refundable(j)',
         ~crossed => \A l \in Jobs : l # j => \A u \in job[l].users :
           /\ (HasTicket(u)' <=> HasTicket(u))
           /\ played[u] = 1 => played'[u] = 1,
         ~crossed => \A u \in Players : Charged(u) => Charged(u)',
         \A u \in Players : played'[u] = 0 => played[u] = 0,
         Typed
  PROVE  Accounted'
<1> SUFFICES ASSUME ~crossed PROVE Accounted' BY DEF Accounted
<1>1. \A u \in Players : played'[u] = 0 => Charged(u)' BY DEF Accounted
<1>2. ASSUME NEW l \in Jobs, l # j PROVE Refundable(l)'
  <2>1. job'[l] = job[l] /\ Refundable(l) BY <1>2 DEF OnlyJob, Accounted
  <2>2. Turn(l)' = Turn(l) BY <2>1 DEF Turn
  <2>3. job[l].step \in {"charged", "owed"} => Turn(l) \in job[l].users
    BY JobParts, TurnIsNext DEF Sound
  <2> QED BY <1>2, <2>1, <2>2, <2>3 DEF Refundable, At
<1> QED BY <1>1, <1>2 DEF Accounted


LEMMA AccountedQuietly ==
  ASSUME Accounted, Typed, NEW j \in Jobs, OnlyJob(j), UNCHANGED <<ledger, refs, played, crossed>>,
         ~crossed => Refundable(j)'
  PROVE  Accounted'
<1>1. \A u \in Players : Charged(u) => Charged(u)' BY DEF Charged, HasTicket
<1>2. \A u : HasTicket(u)' <=> HasTicket(u) BY DEF HasTicket
<1> QED BY <1>1, <1>2, AccountedKept

LEMMA NothingToRefund ==
  ASSUME NEW j, job'[j].step \notin {"charged", "owed", "release", "play"}
  PROVE  Refundable(j)'
  BY DEF Refundable, At

LEMMA CallsAccounted ==
  ASSUME OneAtATime, Typed, Accounted, NEW c \in Calls, Request(c) \/ Registers(c), UNCHANGED clock
  PROVE  Accounted'
<1>1. c \in Jobs /\ CallerOf[c] \in Players /\ crossed' = crossed BY DEF Jobs, clock
<1>2. OnlyJob(c) /\ job'[c].step \in Registering \cup {"refund", "idle"}
  <2>1. CASE Register(c) \/ Cancel(c)
    <3>1. PICK step \in {"entering", "refund"} :
            \E us, todo, left, after : To(c, step, us, todo, left, after)
      BY <2>1, CallMoves
    <3> QED BY <3>1 DEF To, Registering
  <2>2. CASE FindTicket(c) \/ CheckBalance(c) \/ Escrow(c)
    <3>1. PICK step \in Registering : Advances(c, step) BY <2>2, CallMoves DEF Registering
    <3> QED BY <3>1 DEF Advances, To
  <2>3. CASE Upsert(c)
    <3>1. Finishes(c) BY <2>3, CallMoves
    <3> QED BY <3>1 DEF Finishes, To
  <2> QED BY <2>1, <2>2, <2>3 DEF Request, Registers
<1>3. Refundable(c)' BY <1>2, NothingToRefund DEF Registering
<1>4. CASE Escrow(c)
  <2> DEFINE u == CallerOf[c]
  <2>1. /\ EntryRef(u) \notin refs /\ refs' = refs \cup {EntryRef(u)} /\ played' = played
        /\ ledger'[u] = ledger[u] - Fee[u]
        /\ \A v \in Players : v # u => ledger'[v] = ledger[v]
    BY <1>1, <1>4, ChargeAddsUp DEF Escrow, Typed, BooksTyped
  <2>2. /\ \A v : RefundRef(v) \in refs' <=> RefundRef(v) \in refs
        /\ \A v : v # u => (HasTicket(v)' <=> HasTicket(v))
    BY <2>1, RefsDiffer DEF HasTicket
  <2>3. \A v \in Players : Charged(v) => Charged(v)'
    <3>1. /\ Fee[u] \in Nat /\ \A v \in Players : Opening[v] \in Nat
      BY <1>1, FeeIsMoney
    <3>2. ledger[u] \in Int BY <1>1 DEF Typed, Accounts
    <3>3. Charged(u) => Charged(u)'
      <4>1. ledger[u] <= Opening[u] => ledger'[u] <= Opening[u] /\ ledger'[u] + Fee[u] <= Opening[u]
        BY <1>1, <2>1, <3>1, <3>2
      <4> QED BY <4>1 DEF Charged
    <3>4. \A v \in Players : v # u /\ Charged(v) => Charged(v)'
      BY <2>1, <2>2 DEF Charged
    <3> HIDE DEF u
    <3> QED BY <3>3, <3>4
  <2>4. ASSUME ~crossed, NEW l \in Jobs, l # c, NEW v \in job[l].users
        PROVE  HasTicket(v)' <=> HasTicket(v)
    <3>1. u \in About(c) BY <1>4 DEF About, Escrow, At, Registering
    <3>2. u \notin About(l) BY <1>1, <2>4, <3>1, Alone
    <3>3. About(l) = job[l].users \/ job[l].users = {}
      BY AboutWhom, JobParts DEF Sound
    <3>4. v # u BY <2>4, <3>2, <3>3
    <3> QED BY <2>2, <3>4
  <2> HIDE DEF u
  <2> QED BY <1>1, <1>2, <1>3, <2>1, <2>3, <2>4, AccountedKept
<1>5. CASE UNCHANGED <<ledger, refs, played>>
  BY <1>1, <1>2, <1>3, <1>5, AccountedQuietly
<1> QED BY <1>4, <1>5 DEF Request, Registers, Register, Cancel, FindTicket, CheckBalance, Upsert, books


LEMMA RefundsAccounted ==
  ASSUME OneAtATime, Typed, Accounted, NEW j \in Jobs, Refunds(j) \/ Refused(j) \/ Fails(j),
         UNCHANGED clock
  PROVE  Accounted'
<1> DEFINE its == job[j]
<1>1. Sound(j, its) /\ its.users \in SUBSET Players /\ crossed' = crossed
  BY JobParts DEF clock
<1>2. ~crossed => Refundable(j) BY DEF Accounted
<1>3. CASE FindEntry(j) \/ FindRefund(j)
  <2>1. UNCHANGED <<ledger, refs, played>> BY <1>3 DEF FindEntry, FindRefund, books
  <2>2. \/ PassesTurn(j)
        \/ Advances(j, "charged") /\ HasTicket(Turn(j))
        \/ Advances(j, "owed") /\ its.step = "charged"
    BY <1>3, RefundMoves DEF FindRefund, At
  <2>3. OnlyJob(j) BY <2>2 DEF PassesTurn, Advances, To
  <2>4. CASE PassesTurn(j)
    <3>1. job'[j].step = "refund" BY <2>4 DEF PassesTurn, To
    <3>2. Refundable(j)' BY <3>1, NothingToRefund
    <3> QED BY <1>1, <2>1, <2>3, <3>2, AccountedQuietly
  <2>5. ASSUME NEW step \in {"charged", "owed"}, Advances(j, step), ~crossed => HasTicket(Turn(j))
        PROVE  Accounted'
    <3>1. job'[j].step = step /\ job'[j].todo = its.todo BY <2>5 DEF Advances, To
    <3>2. Turn(j)' = Turn(j) BY <3>1 DEF Turn
    <3>3. ~crossed => Refundable(j)' BY <2>1, <2>5, <3>1, <3>2 DEF Refundable, At, HasTicket
    <3> QED BY <1>1, <2>1, <2>3, <3>3, AccountedQuietly
  <2>6. its.step = "charged" /\ ~crossed => HasTicket(Turn(j)) BY <1>2 DEF Refundable
  <2> QED BY <2>2, <2>4, <2>5, <2>6
<1>4. CASE Refund(j)
  <2>1. PICK u \in Players : /\ u = Turn(j) /\ u \in its.todo /\ GiveBack(u)
                            /\ PassesTurn(j) /\ its.step = "owed" /\ played' = played
    <3>1. Turn(j) \in its.todo BY <1>4, RefundMoves
    <3>2. Turn(j) \in Players BY <1>1, <3>1 DEF Sound
    <3> QED BY <1>4, <3>1, <3>2, RefundMoves DEF Refund, At
  <2>2. u \in Players OBVIOUS
  <2>3. /\ RefundRef(u) \notin refs /\ refs' = refs \cup {RefundRef(u)}
        /\ ledger'[u] = ledger[u] + Fee[u]
        /\ \A v \in Players : v # u => ledger'[v] = ledger[v]
    BY <2>1, <2>2, GiveBackAddsUp DEF Typed, BooksTyped
  <2>4. /\ RefundRef(u) \in refs' /\ \A v : HasTicket(v)' <=> HasTicket(v)
        /\ \A v : RefundRef(v) \in refs => RefundRef(v) \in refs'
    BY <2>3, RefsDiffer DEF HasTicket
  <2>5. ~crossed => HasTicket(u) BY <1>2, <2>1 DEF Refundable
  <2>6. ~crossed => \A v \in Players : Charged(v) => Charged(v)'
    <3>1. Fee[u] \in Nat /\ Opening[u] \in Nat /\ ledger[u] \in Int
      BY <2>2, FeeIsMoney DEF Typed, Accounts
    <3>2. ~crossed /\ Charged(u) => Charged(u)'
      <4>1. ledger[u] + Fee[u] <= Opening[u] => ledger'[u] <= Opening[u]
        BY <2>3, <3>1
      <4>2. ~crossed /\ Charged(u) => ledger[u] + Fee[u] <= Opening[u]
        BY <2>3, <2>5 DEF Charged
      <4> QED BY <2>4, <4>1, <4>2 DEF Charged
    <3>3. \A v \in Players : v # u /\ Charged(v) => Charged(v)'
      BY <2>3, <2>4 DEF Charged
    <3> QED BY <3>2, <3>3
  <2>7. OnlyJob(j) /\ job'[j].step = "refund" BY <2>1 DEF PassesTurn, To
  <2>8. Refundable(j)' BY <2>7, NothingToRefund
  <2> QED BY <1>1, <2>1, <2>4, <2>6, <2>7, <2>8, AccountedKept
<1>5. CASE AllRefunded(j)
  <2>1. /\ To(j, "release", its.users, its.todo, Released(its.users), its.after)
        /\ UNCHANGED <<ledger, refs, played>>
    BY <1>5, RefundMoves DEF AllRefunded, books
  <2>2. OnlyJob(j) /\ job'[j].step = "release" /\ job'[j].users = its.users
        /\ job'[j].left = Released(its.users)
    BY <2>1 DEF To
  <2>3. \A u \in its.users : EntryRef(u) \in Released(its.users) BY DEF Released
  <2>4. Refundable(j)' BY <2>2, <2>3 DEF Refundable, At
  <2> QED BY <1>1, <2>1, <2>2, <2>4, AccountedQuietly
<1>6. CASE ReleaseNext(j)
  <2>1. PICK ref \in FirstOf(its.left) :
          Release(ref) /\ To(j, "release", its.users, its.todo, its.left \ {ref}, its.after)
    BY <1>6, RefundMoves
  <2>2. /\ refs' = refs \ {ref} /\ UNCHANGED <<ledger, played>> /\ its.step = "release"
        /\ OnlyJob(j) /\ job'[j].step = "release" /\ job'[j].users = its.users
        /\ job'[j].left = its.left \ {ref}
    BY <1>6, <2>1 DEF Release, ReleaseNext, At, To
  <2>3. /\ \A u : ref = EntryRef(u) \/ ref = RefundRef(u) => u \in its.users
        /\ \A u : ref = RefundRef(u) => \A v : EntryRef(v) \notin its.left
    BY <1>1, <2>1, EntriesFirst DEF Sound
  <2>4. ~crossed => \A u \in its.users : EntryRef(u) \in its.left \/ ~HasTicket(u)
    BY <1>2, <2>2 DEF Refundable, At
  <2>5. ~crossed => Refundable(j)'
    BY <2>2, <2>4 DEF Refundable, At, HasTicket
  <2>6. ~crossed => \A u \in Players : Charged(u) => Charged(u)'
    <3> SUFFICES ASSUME ~crossed, NEW u \in Players, Charged(u), HasTicket(u)', RefundRef(u) \notin refs'
                 PROVE  HasTicket(u) /\ RefundRef(u) \notin refs
      BY <2>2 DEF Charged
    <3>1. HasTicket(u) BY <2>2 DEF HasTicket
    <3>2. ref # RefundRef(u) BY <2>3, <2>4, <3>1
    <3> QED BY <2>2, <3>1, <3>2
  <2>7. ASSUME ~crossed, NEW l \in Jobs, l # j, NEW v \in job[l].users
        PROVE  HasTicket(v)' <=> HasTicket(v)
    <3>1. About(j) = its.users BY <2>2, AboutWhom DEF Registering
    <3>2. About(l) = job[l].users \/ job[l].users = {}
      BY AboutWhom, JobParts DEF Sound
    <3>3. v \notin its.users BY <2>7, <3>1, <3>2, Alone
    <3>4. ref # EntryRef(v) BY <2>3, <3>3
    <3> QED BY <2>2, <3>4 DEF HasTicket
  <2> QED BY <1>1, <2>2, <2>5, <2>6, <2>7, AccountedKept
<1>7. CASE Concluded(j) \/ Refused(j) \/ Fails(j)
  <2>1. Finishes(j) /\ UNCHANGED <<ledger, refs, played>>
    BY <1>7, RefundMoves DEF Concluded, Refused, Fails, books
  <2>2. OnlyJob(j) /\ job'[j].step = "idle" BY <2>1 DEF Finishes, To
  <2>3. Refundable(j)' BY <2>2, NothingToRefund
  <2> QED BY <1>1, <2>1, <2>2, <2>3, AccountedQuietly
<1> QED BY <1>3, <1>4, <1>5, <1>6, <1>7 DEF Refunds


LEMMA ClosesAccounted ==
  ASSUME OneAtATime, Typed, Rosters, Accounted, NEW k \in Closers, Close(k), UNCHANGED clock
  PROVE  Accounted'
<1> DEFINE its == job[k]
<1>1. /\ k \in Jobs /\ Sound(k, its) /\ its.users \in SUBSET Players /\ crossed' = crossed
      /\ \A l \in Jobs : At(l, "play") => l \in Closers
  BY JobParts DEF clock, Jobs, At, Sound, CallSteps, Registering, RefundSteps
<1>2. ~crossed => Refundable(k) BY <1>1 DEF Accounted
<1>3. CASE ReadRoster(k)
  <2>1. UNCHANGED <<ledger, refs, played>> BY <1>3 DEF ReadRoster, books
  <2>2. PICK step \in {"claim", "refund"} :
          \E us, todo, left, after : To(k, step, us, todo, left, after)
    BY <1>3, CloseMoves
  <2>3. OnlyJob(k) /\ job'[k].step = step BY <2>2 DEF To
  <2>4. Refundable(k)' BY <2>3, NothingToRefund
  <2> QED BY <1>1, <2>1, <2>3, <2>4, AccountedQuietly
<1>4. CASE HandOver(k)
  <2>1. /\ Advances(k, "play") /\ At(k, "claim") /\ UNCHANGED <<ledger, refs>>
        /\ played' = [u \in Players |-> IF u \in its.users THEN played[u] + 1 ELSE played[u]]
    BY <1>4, CloseMoves DEF HandOver, books
  <2>2. OnlyJob(k) /\ job'[k].step = "play" /\ job'[k].users = its.users
    BY <2>1 DEF Advances, To
  <2>3. \A u \in Players : /\ u \in its.users => played[u] = 0 /\ played'[u] = 1
                           /\ u \notin its.users => played'[u] = played[u]
    <3>1. \A u \in its.users : played[u] = 0 BY <2>1 DEF Rosters
    <3> QED BY <2>1, <3>1
  <2>4. Refundable(k)' BY <1>1, <2>2, <2>3 DEF Refundable, At
  <2>5. ASSUME NEW l \in Jobs, l # k, NEW u \in job[l].users
        PROVE  (HasTicket(u)' <=> HasTicket(u)) /\ (played[u] = 1 => played'[u] = 1)
    <3>1. u \in Players BY <2>5, JobParts
    <3> QED BY <2>1, <2>3, <3>1 DEF HasTicket
  <2>6. \A u \in Players : (Charged(u) => Charged(u)') /\ (played'[u] = 0 => played[u] = 0)
    BY <2>1, <2>3 DEF Charged, HasTicket
  <2> QED BY <1>1, <2>2, <2>4, <2>5, <2>6, AccountedKept
<1>5. CASE Settle(k)
  <2>1. PICK winner \in its.users :
          /\ refs' = refs \cup {PayoutRef}
          /\ \A v \in Players : v # winner => ledger'[v] = ledger[v]
    BY <1>5, SettlePosts
  <2>2. /\ To(k, "release", its.users, its.todo, Released(its.users), "none")
        /\ its.step = "play" /\ played' = played
    BY <1>5, CloseMoves DEF Settle, At
  <2>3. OnlyJob(k) /\ job'[k].step = "release" /\ job'[k].users = its.users
        /\ job'[k].left = Released(its.users)
    BY <2>2 DEF To
  <2>4. refs' = refs \cup {PayoutRef} /\ \A v \in Players : v # winner => ledger'[v] = ledger[v]
    BY <2>1
  <2>5. \A v : /\ HasTicket(v)' <=> HasTicket(v)
               /\ RefundRef(v) \in refs' <=> RefundRef(v) \in refs
    BY <2>4, RefsDiffer DEF HasTicket
  <2>6. Refundable(k)'
    <3>1. \A u \in its.users : EntryRef(u) \in Released(its.users) BY DEF Released
    <3> QED BY <2>3, <3>1 DEF Refundable, At
  <2>7. \A v \in Players : v # winner /\ Charged(v) => Charged(v)' BY <2>4, <2>5 DEF Charged
  <2>8. ~crossed => played[winner] = 1 BY <1>2, <2>2 DEF Refundable, At
  <2>9. ASSUME ~crossed PROVE Accounted'
    <3>1. \A v \in Players : played'[v] = 0 => Charged(v)'
      BY <2>2, <2>7, <2>8, <2>9 DEF Accounted
    <3>2. ASSUME NEW l \in Jobs, l # k PROVE Refundable(l)'
      <4>1. job'[l] = job[l] /\ Refundable(l) BY <2>3, <2>9, <3>2 DEF OnlyJob, Accounted
      <4>2. Turn(l)' = Turn(l) BY <4>1 DEF Turn
      <4> QED BY <2>2, <2>5, <4>1, <4>2 DEF Refundable, At
    <3> QED BY <2>6, <3>1, <3>2 DEF Accounted
  <2> QED BY <1>1, <2>9 DEF Accounted
<1> QED BY <1>3, <1>4, <1>5 DEF Close

LEMMA AccountedNext ==
  ASSUME OneAtATime, Typed, Rosters, Accounted, [Next]_vars
  PROVE  Accounted'
<1>1. ASSUME UNCHANGED <<books, job, played>>, ~crossed' => ~crossed PROVE Accounted'
  <2>1. \A u \in Players : Charged(u) => Charged(u)' BY <1>1 DEF Charged, HasTicket, books
  <2>2. ASSUME NEW j \in Jobs, Refundable(j) PROVE Refundable(j)'
    <3>1. Turn(j)' = Turn(j) BY <1>1 DEF Turn
    <3> QED BY <1>1, <2>2, <3>1 DEF Refundable, At, HasTicket, books
  <2> QED BY <1>1, <2>1, <2>2 DEF Accounted
<1>2. CASE UNCHANGED vars BY <1>1, <1>2 DEF vars, clock
<1>3. CASE Tick BY <1>1, <1>3 DEF Tick, Typed
<1>4. \A j \in Jobs : Fails(j) => UNCHANGED clock BY DEF Fails
<1> QED BY <1>2, <1>3, <1>4, CallsAccounted, RefundsAccounted, ClosesAccounted DEF Next


-----------------------------------------------------------------------------
(* Seats *)

Same(v) == /\ (row'[v] = "REGISTERED") = (row[v] = "REGISTERED")
           /\ (EntryRef(v) \in refs') = (EntryRef(v) \in refs)
           /\ (RefundRef(v) \in refs') = (RefundRef(v) \in refs)

(* Whatever a step of j does is to the players j is about.                 *)
SeatsMove(j) ==
  /\ OnlyJob(j)
  /\ \A v \in Players : v \in About(j) \/ v \in About(j)' \/ Same(v)
  /\ \A v \in Players : v \in About(j)' => Step(j, v)'
  /\ \A v \in Players : v \in About(j) /\ v \notin About(j)' => Free(v)'
  /\ \A v \in Players : v \in About(j)' /\ v \notin About(j) => \A l \in Jobs : v \notin About(l)

LEMMA SeatsKept ==
  ASSUME OneAtATime, Typed, Seats, Orderly, NEW j \in Jobs, SeatsMove(j)
  PROVE  Seats'
<1> SUFFICES ASSUME NEW u \in Players
             PROVE  /\ \A l \in Jobs : u \in About(l)' => Step(l, u)'
                    /\ (\A l \in Jobs : u \notin About(l)') => Free(u)'
  BY DEF Seats
<1>1. \A l \in Jobs : l # j => job'[l] = job[l] /\ About(l)' = About(l)
  BY DEF SeatsMove, OnlyJob, About
<1>2. ~crossed BY DEF Orderly
<1>3. ASSUME NEW l \in Jobs, u \in About(l)' PROVE Step(l, u)'
  <2>1. CASE l = j BY <1>3, <2>1 DEF SeatsMove
  <2>2. CASE l # j
    <3>1. u \in About(l) BY <1>1, <1>3, <2>2
    <3>2. u \notin About(j) BY <1>2, <2>2, <3>1, Alone
    <3>3. u \notin About(j)' BY <3>1, <3>2 DEF SeatsMove
    <3>4. Same(u) BY <3>2, <3>3 DEF SeatsMove
    <3>5. Step(l, u) BY <3>1 DEF Seats
    <3> QED BY <1>1, <2>2, <3>4, <3>5 DEF Step, Same, HasTicket
  <2> QED BY <2>1, <2>2
<1>4. ASSUME \A l \in Jobs : u \notin About(l)' PROVE Free(u)'
  <2>1. CASE u \in About(j) BY <1>4, <2>1 DEF SeatsMove
  <2>2. CASE u \notin About(j)
    <3>1. \A l \in Jobs : u \notin About(l) BY <1>1, <1>4, <2>2
    <3>2. Free(u) /\ Same(u) BY <1>4, <2>2, <3>1 DEF Seats, SeatsMove
    <3> QED BY <3>2 DEF Free, Same, HasTicket
  <2> QED BY <2>1, <2>2
<1> QED BY <1>3, <1>4

(* Whom a step leaves a job about.                                         *)
LEMMA AboutNext ==
  ASSUME NEW j, NEW step, NEW users, NEW todo, NEW left, NEW after,
         To(j, step, users, todo, left, after)
  PROVE  /\ OnlyJob(j)
         /\ About(j)' = IF step \in Registering THEN {CallerOf[j]} ELSE users
         /\ job'[j].step = step /\ job'[j].todo = todo /\ job'[j].left = left
         /\ job'[j].after = after
  BY DEF To, About

LEMMA CallsSeated ==
  ASSUME OneAtATime, Typed, Seats, Orderly, NEW c \in Calls, Request(c) \/ Registers(c)
  PROVE  SeatsMove(c)
<1> DEFINE u == CallerOf[c]
<1>1. c \in Jobs /\ u \in Players /\ About(c) \in SUBSET {u} BY AboutWhom DEF Jobs
<1>2. ~crossed BY DEF Orderly
<1>3. ASSUME At(c, "idle"), ~ticked PROVE (\A l \in Jobs : u \notin About(l)) /\ Free(u)
  <2>1. About(c) = {} BY <1>1, <1>3, AboutWhom
  <2>2. \A l \in Jobs : u \notin About(l) BY <1>1, <1>2, <1>3, <2>1, Alone
  <2> QED BY <1>1, <2>2 DEF Seats
<1>4. job[c].step \in Registering => About(c) = {u} /\ Step(c, u)
  BY <1>1 DEF Seats, About
<1>5. UNCHANGED <<row, refs>> => \A v : Same(v) BY DEF Same
<1>6. CASE Register(c)
  <2>1. /\ To(c, "entering", {}, job[c].todo, job[c].left, "none") /\ UNCHANGED <<row, refs>>
        /\ At(c, "idle") /\ ~ticked /\ row[u] # "REGISTERED"
    BY <1>6, CallMoves DEF Register, Asks, books
  <2>2. OnlyJob(c) /\ About(c)' = {u} /\ job'[c].step = "entering"
    BY <2>1, AboutNext DEF Registering
  <2>3. Step(c, u)' BY <1>3, <2>1, <2>2 DEF Step, Free, HasTicket, RefundSteps
  <2> QED BY <1>1, <1>3, <1>5, <2>1, <2>2, <2>3 DEF SeatsMove
<1>7. CASE FindTicket(c) \/ CheckBalance(c)
  <2>1. /\ UNCHANGED <<row, refs>> /\ job[c].step \in {"entering", "unpaid"}
    BY <1>7 DEF FindTicket, CheckBalance, At, books
  <2>2. job[c].step \in Registering BY <2>1 DEF Registering
  <2>3. ~HasTicket(u) BY <1>4, <2>1, <2>2 DEF Step
  <2>4. PICK step \in {"unpaid", "checked"} : Advances(c, step)
    BY <1>7, <2>3, CallMoves
  <2>5. OnlyJob(c) /\ About(c)' = {u} /\ job'[c].step = step
    BY <2>4, AboutNext DEF Advances, Registering
  <2>6. Step(c, u)' BY <1>4, <2>1, <2>2, <2>5 DEF Step, HasTicket, RefundSteps
  <2> QED BY <1>1, <1>4, <1>5, <2>1, <2>2, <2>5, <2>6 DEF SeatsMove
<1>8. CASE Escrow(c)
  <2>1. Advances(c, "paid") /\ job[c].step = "checked" /\ row' = row /\ Charge(u)
    BY <1>8, CallMoves DEF Escrow, At
  <2>2. refs' = refs \cup {EntryRef(u)} BY <2>1 DEF Charge, Post
  <2>3. job[c].step \in Registering BY <2>1 DEF Registering
  <2>4. OnlyJob(c) /\ About(c)' = {u} /\ job'[c].step = "paid"
    BY <2>1, AboutNext DEF Advances, Registering
  <2>5. \A v : v # u => Same(v) BY <2>1, <2>2, RefsDiffer DEF Same
  <2>6. Step(c, u)' BY <1>4, <2>1, <2>2, <2>3, <2>4, RefsDiffer DEF Step, HasTicket, RefundSteps
  <2> QED BY <1>1, <1>4, <2>3, <2>4, <2>5, <2>6 DEF SeatsMove
<1>9. CASE Upsert(c)
  <2>1. Finishes(c) /\ job[c].step = "paid" /\ refs' = refs /\ row' = [row EXCEPT ![u] = "REGISTERED"]
    BY <1>9, CallMoves DEF Upsert, At, books
  <2>2. job[c].step \in Registering BY <2>1 DEF Registering
  <2>3. OnlyJob(c) /\ About(c)' = {} BY <2>1, AboutNext DEF Finishes, Registering
  <2>4. row' = [v \in Players |-> IF v = u THEN "REGISTERED" ELSE row[v]]
    BY <2>1 DEF Typed
  <2>5. \A v \in Players : v # u => Same(v) BY <2>1, <2>4 DEF Same
  <2>6. Free(u)' BY <1>1, <1>4, <2>1, <2>2, <2>4 DEF Step, Free, HasTicket
  <2> QED BY <1>1, <1>4, <2>2, <2>3, <2>5, <2>6 DEF SeatsMove
<1>10. CASE Cancel(c)
  <2>1. /\ To(c, "refund", {u}, {u}, {}, "CANCELLED") /\ UNCHANGED <<row, refs>>
        /\ At(c, "idle") /\ ~ticked /\ row[u] = "REGISTERED"
    BY <1>10, CallMoves DEF Cancel, Asks, books
  <2>2. OnlyJob(c) /\ About(c)' = {u} /\ job'[c].step = "refund" /\ job'[c].todo = {u}
    BY <2>1, AboutNext DEF Registering
  <2>3. Step(c, u)' BY <1>3, <2>1, <2>2 DEF Step, Free, HasTicket
  <2> QED BY <1>1, <1>3, <1>5, <2>1, <2>2, <2>3 DEF SeatsMove
<1> QED BY <1>6, <1>7, <1>8, <1>9, <1>10 DEF Request, Registers


LEMMA RefundsSeated ==
  ASSUME OneAtATime, Typed, Seats, Pooled, Orderly, NEW j \in Jobs, Refunds(j) \/ Refused(j)
  PROVE  SeatsMove(j)
<1> DEFINE its == job[j]
           us  == its.users
<1>1. Sound(j, its) /\ us \in SUBSET Players /\ About(j) \in SUBSET Players
  BY JobParts, AboutWhom
<1>2. \A v \in About(j) : Step(j, v) BY <1>1 DEF Seats
<1>3. UNCHANGED <<row, refs>> => \A v : Same(v) BY DEF Same
<1>4. its.step \in RefundSteps \cup {"release"} => About(j) = us
  BY AboutWhom DEF RefundSteps, Registering
<1>5. CASE FindEntry(j) \/ FindRefund(j)
  <2>1. its.step \in {"refund", "charged"} /\ UNCHANGED <<row, refs>> /\ Turn(j) \in its.todo
    BY <1>5, RefundMoves DEF FindEntry, FindRefund, At, books
  <2>2. About(j) = us /\ Step(j, Turn(j)) /\ Turn(j) \in us
    BY <1>1, <1>2, <1>4, <2>1 DEF Sound, RefundSteps
  <2>3. HasTicket(Turn(j)) /\ RefundRef(Turn(j)) \notin refs
    BY <2>1, <2>2 DEF Step, RefundSteps
  <2>4. PICK step \in {"charged", "owed"} : Advances(j, step)
    BY <1>5, <2>3, RefundMoves
  <2>5. OnlyJob(j) /\ About(j)' = us /\ job'[j].step = step /\ job'[j].todo = its.todo
    BY <2>4, AboutNext DEF Advances, Registering
  <2>6. \A v \in us : Step(j, v)'
    <3> SUFFICES ASSUME NEW v \in us PROVE Step(j, v)' OBVIOUS
    <3>1. row[v] = "REGISTERED" /\ HasTicket(v) /\ (RefundRef(v) \in refs <=> v \notin its.todo)
      BY <1>2, <2>1, <2>2 DEF Step, RefundSteps
    <3>2. row'[v] = "REGISTERED" /\ HasTicket(v)' /\ (RefundRef(v) \in refs' <=> v \notin job'[j].todo)
      BY <2>1, <2>5, <3>1 DEF HasTicket
    <3> QED BY <2>5, <3>2 DEF Step, RefundSteps
  <2> QED BY <1>3, <2>1, <2>2, <2>5, <2>6 DEF SeatsMove
<1>6. CASE Refund(j)
  <2>1. PICK u \in Players : /\ u = Turn(j) /\ u \in its.todo /\ GiveBack(u)
                            /\ PassesTurn(j) /\ its.step = "owed" /\ row' = row
    <3>1. Turn(j) \in its.todo BY <1>6, RefundMoves
    <3>2. Turn(j) \in Players BY <1>1, <3>1 DEF Sound
    <3> QED BY <1>6, <3>1, <3>2, RefundMoves DEF Refund, At
  <2>2. refs' = refs \cup {RefundRef(u)} BY <2>1 DEF GiveBack, Post
  <2>3. About(j) = us /\ u \in us BY <1>1, <1>4, <2>1 DEF Sound, RefundSteps
  <2>4. OnlyJob(j) /\ About(j)' = us /\ job'[j].step = "refund" /\ job'[j].todo = its.todo \ {u}
    BY <2>1, AboutNext DEF PassesTurn, Registering
  <2>5. \A v : v # u => Same(v)
    BY <2>1, <2>2, RefsDiffer DEF Same, RefundRef
  <2>6. \A v \in us : Step(j, v)'
    <3> SUFFICES ASSUME NEW v \in us PROVE Step(j, v)' OBVIOUS
    <3>1. row[v] = "REGISTERED" /\ HasTicket(v) /\ (RefundRef(v) \in refs <=> v \notin its.todo)
      BY <1>2, <2>1, <2>3 DEF Step, RefundSteps
    <3>2. row'[v] = "REGISTERED" /\ HasTicket(v)' /\ (RefundRef(v) \in refs' <=> v \notin job'[j].todo)
      BY <2>1, <2>2, <2>4, <3>1, RefsDiffer DEF HasTicket, RefundRef
    <3> QED BY <2>4, <3>2 DEF Step, RefundSteps
  <2> QED BY <2>3, <2>4, <2>5, <2>6 DEF SeatsMove
<1>7. CASE AllRefunded(j)
  <2>1. /\ To(j, "release", us, its.todo, Released(us), its.after) /\ UNCHANGED <<row, refs>>
        /\ its.step = "refund" /\ its.todo = {}
    BY <1>7, RefundMoves DEF AllRefunded, At, books
  <2>2. About(j) = us /\ its.after # "none" BY <1>1, <1>4, <2>1 DEF Sound, RefundSteps
  <2>3. OnlyJob(j) /\ About(j)' = us /\ job'[j].step = "release" /\ job'[j].left = Released(us)
        /\ job'[j].after = its.after
    BY <2>1, AboutNext DEF Registering
  <2>4. \A v \in us : Step(j, v)'
    <3> SUFFICES ASSUME NEW v \in us PROVE Step(j, v)' OBVIOUS
    <3>1. row[v] = "REGISTERED" /\ HasTicket(v) /\ RefundRef(v) \in refs
      BY <1>2, <2>1, <2>2 DEF Step, RefundSteps
    <3>2. row'[v] = "REGISTERED" /\ HasTicket(v)' /\ RefundRef(v) \in refs'
      BY <2>1, <3>1 DEF HasTicket
    <3>3. EntryRef(v) \in Released(us) /\ RefundRef(v) \in Released(us) BY DEF Released
    <3> QED BY <2>2, <2>3, <3>2, <3>3 DEF Step, RefundSteps
  <2> QED BY <1>3, <2>1, <2>2, <2>3, <2>4 DEF SeatsMove
<1>8. CASE ReleaseNext(j)
  <2>1. PICK ref \in FirstOf(its.left) :
          Release(ref) /\ To(j, "release", us, its.todo, its.left \ {ref}, its.after)
    BY <1>8, RefundMoves
  <2>2. refs' = refs \ {ref} /\ row' = row /\ its.step = "release"
    BY <1>8, <2>1 DEF Release, ReleaseNext, At
  <2>3. OnlyJob(j) /\ About(j)' = us /\ job'[j].step = "release" /\ job'[j].left = its.left \ {ref}
        /\ job'[j].after = its.after
    BY <2>1, AboutNext DEF Registering
  <2>4. /\ \A u : ref = EntryRef(u) \/ ref = RefundRef(u) => u \in us
        /\ \A u : ref = RefundRef(u) => \A v : EntryRef(v) \notin its.left
    BY <1>1, <2>1, EntriesFirst DEF Sound
  <2>5. About(j) = us BY <1>4, <2>2
  <2>6. \A v \in Players : v \notin us => Same(v) BY <2>2, <2>4 DEF Same
  <2>7. \A v \in us : Step(j, v)'
    <3> SUFFICES ASSUME NEW v \in us PROVE Step(j, v)' OBVIOUS
    <3>1. /\ HasTicket(v) <=> EntryRef(v) \in its.left
          /\ IF its.after = "none" THEN RefundRef(v) \notin refs /\ row[v] # "REGISTERED"
             ELSE /\ row[v] = "REGISTERED" /\ (RefundRef(v) \in refs <=> RefundRef(v) \in its.left)
                  /\ (HasTicket(v) => RefundRef(v) \in refs)
      BY <1>2, <2>2, <2>5 DEF Step
    <3>2. HasTicket(v)' <=> EntryRef(v) \in job'[j].left BY <2>2, <2>3, <3>1 DEF HasTicket
    <3>3. CASE its.after = "none"
      <4>1. RefundRef(v) \notin refs' /\ row'[v] # "REGISTERED" BY <2>2, <3>1, <3>3
      <4> QED BY <2>3, <3>2, <3>3, <4>1 DEF Step, RefundSteps
    <3>4. CASE its.after # "none"
      <4>1. row'[v] = "REGISTERED" /\ (RefundRef(v) \in refs' <=> RefundRef(v) \in job'[j].left)
        BY <2>2, <2>3, <3>1, <3>4
      <4>2. HasTicket(v)' => RefundRef(v) \in refs'
        BY <2>2, <2>4, <3>1, <3>4 DEF HasTicket
      <4> QED BY <2>3, <3>2, <3>4, <4>1, <4>2 DEF Step, RefundSteps
    <3> QED BY <3>3, <3>4
  <2> QED BY <2>3, <2>5, <2>6, <2>7 DEF SeatsMove
<1>9. CASE Concluded(j)
  <2>1. Finishes(j) /\ its.step = "release" /\ its.left = {} /\ refs' = refs
    BY <1>9, RefundMoves DEF Concluded, At, books
  <2>2. OnlyJob(j) /\ About(j)' = {} BY <2>1, AboutNext DEF Finishes, Registering
  <2>3. About(j) = us BY <1>4, <2>1
  <2>4. \A v \in Players : v \notin us => Same(v)
    BY <1>9, <2>1, SeatAfterConcluded DEF Same
  <2>5. ASSUME NEW v \in us PROVE Free(v)'
    <3>1. /\ ~HasTicket(v) /\ RefundRef(v) \notin refs
          /\ its.after = "none" => row[v] # "REGISTERED"
      BY <1>2, <2>1, <2>3 DEF Step
    <3>2. v \in Players /\ row'[v] # "REGISTERED"
      BY <1>1, <1>9, <3>1, SeatAfterConcluded
    <3> QED BY <2>1, <3>1, <3>2 DEF Free, HasTicket
  <2> QED BY <2>2, <2>3, <2>4, <2>5 DEF SeatsMove
<1>10. CASE Refused(j)
  <2>1. Finishes(j) /\ UNCHANGED <<row, refs>> BY <1>10, RefundMoves DEF Refused, books
  <2>2. OnlyJob(j) /\ About(j)' = {} BY <2>1, AboutNext DEF Finishes, Registering
  <2>3. its.step # "owed" \/ RefundRef(Turn(j)) \notin refs
    <3>1. its.step = "owed" => Turn(j) \in its.todo /\ Turn(j) \in About(j)
      BY <1>1, <1>4, TurnIsNext DEF Sound, RefundSteps
    <3> QED BY <1>2, <3>1 DEF Step, RefundSteps
  <2>4. its.step # "play" \/ PayoutRef \notin refs
    <3>1. its.step = "play" => j \in Closers
      BY <1>1 DEF Sound, Jobs, CallSteps, Registering, RefundSteps
    <3> QED BY <3>1 DEF Pooled, OneAtATime, At
  <2>5. its.step \in {"unpaid", "checked"} BY <1>10, <2>3, <2>4 DEF Refused, At
  <2>6. \A v \in About(j) : Free(v)'
    <3> SUFFICES ASSUME NEW v \in About(j) PROVE Free(v)' OBVIOUS
    <3>1. ~HasTicket(v) /\ RefundRef(v) \notin refs /\ row[v] # "REGISTERED"
      BY <1>2, <2>5 DEF Step
    <3> QED BY <2>1, <3>1 DEF Free, HasTicket
  <2> QED BY <1>3, <2>1, <2>2, <2>6 DEF SeatsMove
<1> QED BY <1>5, <1>6, <1>7, <1>8, <1>9, <1>10 DEF Refunds


LEMMA ClosesSeated ==
  ASSUME OneAtATime, Typed, Seats, Orderly, NEW k \in Closers, Close(k)
  PROVE  SeatsMove(k)
<1> DEFINE its == job[k]
           us  == its.users
<1>1. k \in Jobs /\ Sound(k, its) /\ us \in SUBSET Players /\ row \in [Players -> Statuses]
  BY JobParts DEF Jobs, Typed
<1>2. \A v \in us : its.step \in {"claim", "play"} => Step(k, v)
  BY <1>1, AboutWhom DEF Seats, Registering
<1>3. UNCHANGED <<row, refs>> => \A v : Same(v) BY DEF Same
<1>4. its.step \in {"claim", "play"} => About(k) = us BY <1>1, AboutWhom DEF Registering
<1>5. CASE ReadRoster(k)
  <2>1. UNCHANGED <<row, refs>> /\ At(k, "idle") /\ ticked /\ ~crossed
    BY <1>5 DEF ReadRoster, books, Orderly
  <2>2. About(k) = {} BY <1>1, <2>1, AboutWhom
  <2>3. \A l \in Jobs : About(l) = {} BY <1>1, <2>1, <2>2, Alone
  <2>4. \A v \in Registered : v \in Players /\ HasTicket(v) /\ RefundRef(v) \notin refs
                              /\ row[v] = "REGISTERED"
    BY <2>3 DEF Registered, Seats, Free
  <2>5. \/ To(k, "claim", Registered, {}, {}, "none")
        \/ To(k, "refund", Registered, Registered, {}, "REFUNDED")
    BY <1>5, CloseMoves
  <2>6. OnlyJob(k) /\ About(k)' = Registered
        /\ \/ job'[k].step = "claim"
           \/ job'[k].step = "refund" /\ job'[k].todo = Registered
    BY <2>5, AboutNext DEF Registering
  <2>7. \A v \in Registered : HasTicket(v)' /\ RefundRef(v) \notin refs' /\ row'[v] = "REGISTERED"
    BY <2>1, <2>4 DEF HasTicket
  <2>8. \A v \in Registered : Step(k, v)' BY <2>6, <2>7 DEF Step, RefundSteps
  <2> QED BY <1>3, <2>1, <2>2, <2>3, <2>6, <2>8 DEF SeatsMove
<1>6. CASE HandOver(k)
  <2>1. /\ Advances(k, "play") /\ its.step = "claim" /\ refs' = refs
        /\ row' = Claim(us, "STARTED")
    BY <1>6, CloseMoves DEF HandOver, At, books
  <2>2. OnlyJob(k) /\ About(k)' = us /\ job'[k].step = "play"
    BY <2>1, AboutNext DEF Advances, Registering
  <2>3. \A v \in Players : row'[v] = IF v \in us /\ row[v] = "REGISTERED" THEN "STARTED" ELSE row[v]
    BY <2>1 DEF Claim
  <2>4. \A v \in Players : v \notin us => Same(v) BY <2>1, <2>3 DEF Same
  <2>5. \A v \in us : Step(k, v)'
    <3> SUFFICES ASSUME NEW v \in us PROVE Step(k, v)' OBVIOUS
    <3>1. HasTicket(v) /\ RefundRef(v) \notin refs /\ v \in Players
      BY <1>1, <1>2, <2>1 DEF Step
    <3>2. HasTicket(v)' /\ RefundRef(v) \notin refs' /\ row'[v] # "REGISTERED"
      BY <2>1, <2>3, <3>1 DEF HasTicket
    <3> QED BY <2>2, <3>2 DEF Step, RefundSteps
  <2> QED BY <1>4, <2>1, <2>2, <2>4, <2>5 DEF SeatsMove
<1>7. CASE Settle(k)
  <2>1. /\ To(k, "release", us, its.todo, Released(us), "none") /\ its.step = "play" /\ row' = row
    BY <1>7, CloseMoves DEF Settle, At
  <2>2. refs' = refs \cup {PayoutRef} BY <1>7 DEF Settle, PayOut, Post
  <2>3. OnlyJob(k) /\ About(k)' = us /\ job'[k].step = "release" /\ job'[k].left = Released(us)
        /\ job'[k].after = "none"
    BY <2>1, AboutNext DEF Registering
  <2>4. \A v : Same(v) BY <2>1, <2>2, RefsDiffer DEF Same
  <2>5. \A v \in us : Step(k, v)'
    <3> SUFFICES ASSUME NEW v \in us PROVE Step(k, v)' OBVIOUS
    <3>1. HasTicket(v) /\ RefundRef(v) \notin refs /\ row[v] # "REGISTERED"
      BY <1>2, <2>1 DEF Step
    <3>2. HasTicket(v)' /\ RefundRef(v) \notin refs' /\ row'[v] # "REGISTERED"
      BY <2>1, <2>4, <3>1 DEF HasTicket, Same
    <3>3. EntryRef(v) \in Released(us) BY DEF Released
    <3> QED BY <2>3, <3>2, <3>3 DEF Step, RefundSteps
  <2> QED BY <1>4, <2>1, <2>3, <2>4, <2>5 DEF SeatsMove
<1> QED BY <1>5, <1>6, <1>7 DEF Close

(* What failed or raced the tick stays so.                                 *)
LEMMA OrderlyBefore ==
  ASSUME Typed, [Next]_vars, Orderly'
  PROVE  Orderly /\ \A j \in Jobs : ~Fails(j)
<1>1. failures \in Nat /\ (~ticked => ~crossed) BY DEF Typed
<1>2. \A j \in Jobs : ~Fails(j) BY <1>1 DEF Fails, Orderly
<1>3. CASE Tick
  <2>1. ~ticked /\ failures' = failures BY <1>3 DEF Tick
  <2> QED BY <1>1, <1>2, <2>1 DEF Orderly
<1>4. CASE UNCHANGED <<clock, failures>>
  BY <1>2, <1>4 DEF Orderly, clock
<1>5. Tick \/ UNCHANGED <<clock, failures>>
  BY <1>2 DEF Next, vars
<1> QED BY <1>2, <1>3, <1>4, <1>5 DEF Orderly

LEMMA SeatsNext ==
  ASSUME OneAtATime, Typed, Seats, Pooled, [Next]_vars
  PROVE  Seats'
<1> SUFFICES ASSUME Orderly' PROVE Seats' BY DEF Seats
<1>1. Orderly /\ \A j \in Jobs : ~Fails(j) BY OrderlyBefore
<1>2. CASE UNCHANGED vars \/ Tick
  <2>1. UNCHANGED <<refs, row, job>> BY <1>2 DEF vars, Tick, books
  <2>2. \A j, u : (About(j)' = About(j)) /\ (Step(j, u) => Step(j, u)') /\ (Free(u) => Free(u)')
    BY <2>1 DEF About, Step, Free, HasTicket
  <2> QED BY <1>1, <2>2 DEF Seats
<1>3. CASE \E c \in Calls : Request(c) \/ Registers(c)
  BY <1>1, <1>3, CallsSeated, SeatsKept DEF Jobs
<1>4. CASE \E j \in Jobs : Refunds(j) \/ Refused(j)
  BY <1>1, <1>4, RefundsSeated, SeatsKept
<1>5. CASE \E k \in Closers : Close(k)
  BY <1>1, <1>5, ClosesSeated, SeatsKept DEF Jobs
<1> QED BY <1>1, <1>2, <1>3, <1>4, <1>5 DEF Next


-----------------------------------------------------------------------------
(* The pool *)

PaysOut(j) == j \in Closers /\ At(j, "release") /\ job[j].after = "none"

LEMMA PaidOutStays ==
  ASSUME NEW j \in Jobs, OnlyJob(j), NEW u,
         u \in job[j].users => ~PaysOut(j), u \in job'[j].users => ~PaysOut(j)'
  PROVE  PaidOut(u)' = PaidOut(u)
<1>1. \A k \in Closers : k \in Jobs BY DEF Jobs
<1>2. \A k \in Closers : k # j => job'[k] = job[k] BY <1>1 DEF OnlyJob
<1>3. PaidOut(u) => PaidOut(u)' BY <1>2 DEF PaidOut, PaysOut, At
<1>4. PaidOut(u)' => PaidOut(u) BY <1>2 DEF PaidOut, PaysOut, At
<1>5. PaidOut(u) \in BOOLEAN /\ PaidOut(u)' \in BOOLEAN BY DEF PaidOut
<1> QED BY <1>3, <1>4, <1>5

(* The payout stays explained by the closer that is releasing it.          *)
PayoutExplained ==
  PayoutRef \in refs => \E k \in Closers : At(k, "release") /\ PayoutRef \in job[k].left

LEMMA PayoutStays ==
  ASSUME PayoutExplained, NEW j \in Jobs, OnlyJob(j), PayoutRef \in refs' => PayoutRef \in refs,
         PayoutRef \in refs' /\ At(j, "release") /\ PayoutRef \in job[j].left =>
           At(j, "release")' /\ PayoutRef \in job'[j].left
  PROVE  PayoutExplained'
<1>1. \A k \in Closers : k \in Jobs BY DEF Jobs
<1>2. \A k \in Closers : k # j => job'[k] = job[k] BY <1>1 DEF OnlyJob
<1> QED BY <1>2 DEF PayoutExplained, At

LEMMA InForceStays ==
  ASSUME NEW j \in Jobs, OnlyJob(j), NEW us,
         \A u \in Players : u \notin us =>
           /\ (HasTicket(u)' <=> HasTicket(u)) /\ (RefundRef(u) \in refs' <=> RefundRef(u) \in refs)
           /\ u \in job[j].users => ~PaysOut(j)
           /\ u \in job'[j].users => ~PaysOut(j)'
  PROVE  \A u \in Players : u \notin us => (u \in InForce' <=> u \in InForce)
<1> SUFFICES ASSUME NEW u \in Players, u \notin us PROVE u \in InForce' <=> u \in InForce
  OBVIOUS
<1>1. PaidOut(u)' = PaidOut(u) BY PaidOutStays
<1> QED BY <1>1 DEF InForce

(* A step that posts nothing and releases nothing.                         *)
LEMMA PooledAside ==
  ASSUME Pooled, Orderly, NEW j \in Jobs, OnlyJob(j), UNCHANGED <<ledger, refs>>,
         ~At(j, "release"), ~PaysOut(j)'
  PROVE  Pooled'
<1>1. ~PaysOut(j) BY DEF PaysOut
<1>2. \A u : (HasTicket(u)' <=> HasTicket(u)) /\ (RefundRef(u) \in refs' <=> RefundRef(u) \in refs)
  BY DEF HasTicket
<1>3. \A u \in Players : u \notin {} => (u \in InForce' <=> u \in InForce)
  BY <1>1, <1>2, InForceStays
<1>4. InForce' = InForce
  <2>1. InForce \in SUBSET Players /\ InForce' \in SUBSET Players BY DEF InForce
  <2> QED BY <1>3, <2>1
<1>5. PayoutExplained BY DEF PayoutExplained, Pooled
<1>6. PayoutExplained' BY <1>5, PayoutStays
<1> QED BY <1>4, <1>6 DEF Pooled, PayoutExplained


LEMMA PooledAfter ==
  ASSUME ledger'["pool"] = Collected(InForce'), PayoutExplained'
  PROVE  Pooled'
<1>1. Collected(InForce)' = Collected(InForce') OBVIOUS
<1> QED BY <1>1 DEF Pooled, PayoutExplained

LEMMA ChargePooled ==
  ASSUME OneAtATime, Typed, Seats, Pooled, Orderly, NEW c \in Calls, Escrow(c)
  PROVE  Pooled'
<1> DEFINE u == CallerOf[c]
<1>1. c \in Jobs /\ u \in Players /\ c \notin Closers BY DEF Jobs
<1>2. /\ Advances(c, "paid") /\ job[c].step = "checked" /\ Charge(u)
  BY CallMoves DEF Escrow, At
<1>3. OnlyJob(c) BY <1>2 DEF Advances, To
<1>4. /\ EntryRef(u) \notin refs /\ refs' = refs \cup {EntryRef(u)}
      /\ ledger'["pool"] = ledger["pool"] + Fee[u]
  BY <1>1, <1>2, ChargeAddsUp DEF Typed, BooksTyped
<1>5. u \in About(c) /\ RefundRef(u) \notin refs
  <2>1. u \in About(c) BY <1>2 DEF About, Registering
  <2> QED BY <1>1, <1>2, <2>1 DEF Seats, Step
<1>6. ~PaysOut(c) /\ ~PaysOut(c)' BY <1>1 DEF PaysOut
<1>7. \A v : /\ v # u => (HasTicket(v)' <=> HasTicket(v))
             /\ RefundRef(v) \in refs' <=> RefundRef(v) \in refs
  BY <1>4, RefsDiffer DEF HasTicket
<1>8. \A v \in Players : v \notin {u} => (v \in InForce' <=> v \in InForce)
  BY <1>1, <1>3, <1>6, <1>7, InForceStays
<1>9. u \notin InForce BY <1>4 DEF InForce, HasTicket
<1>10. u \in InForce'
  <2>1. ~PaidOut(u)
    <3> SUFFICES ASSUME NEW k \in Closers, At(k, "release"), u \in job[k].users PROVE FALSE
      BY DEF PaidOut
    <3>1. k \in Jobs /\ About(k) = job[k].users BY AboutWhom DEF Jobs, At, Registering
    <3>2. k = c BY <1>1, <1>5, <3>1, Alone DEF Orderly
    <3> QED BY <1>1, <3>2
  <2>2. PaidOut(u)' = PaidOut(u) BY <1>1, <1>3, <1>6, PaidOutStays
  <2>3. HasTicket(u)' /\ RefundRef(u) \notin refs'
    BY <1>4, <1>5, <1>7 DEF HasTicket
  <2> QED BY <1>1, <2>1, <2>2, <2>3 DEF InForce
<1>11. InForce \in SUBSET Players /\ InForce' = InForce \cup {u}
  <2>1. InForce \in SUBSET Players /\ InForce' \in SUBSET Players BY DEF InForce
  <2> QED BY <1>1, <1>8, <1>9, <1>10, <2>1
<1>12. Collected(InForce') = Collected(InForce) + Fee[u]
  BY <1>1, <1>9, <1>11, CollectedOneMore
<1>13. PayoutExplained'
  <2>1. PayoutExplained BY DEF Pooled, PayoutExplained
  <2>2. PayoutRef \in refs' => PayoutRef \in refs BY <1>4, RefsDiffer
  <2> QED BY <1>1, <1>2, <1>3, <2>1, <2>2, PayoutStays DEF At
<1> QED BY <1>4, <1>12, <1>13, PooledAfter DEF Pooled

LEMMA RefundPooled ==
  ASSUME OneAtATime, Typed, Seats, Pooled, Orderly, NEW j \in Jobs, Refund(j)
  PROVE  Pooled'
<1>1. PICK u \in Players : /\ u \in job[j].todo /\ GiveBack(u) /\ PassesTurn(j)
                           /\ job[j].step = "owed"
  <2>1. Turn(j) \in job[j].todo BY RefundMoves
  <2>2. Turn(j) \in Players BY <2>1, JobParts
  <2> QED BY <2>1, <2>2, RefundMoves DEF Refund, At
<1>2. OnlyJob(j) /\ job'[j].step = "refund" BY <1>1 DEF PassesTurn, To
<1>3. /\ RefundRef(u) \notin refs /\ refs' = refs \cup {RefundRef(u)}
      /\ ledger'["pool"] = ledger["pool"] - Fee[u]
  BY <1>1, GiveBackAddsUp DEF Typed, BooksTyped
<1>4. u \in About(j) /\ HasTicket(u)
  <2>1. u \in About(j)
    <3>1. u \in job[j].users BY <1>1, JobParts
    <3>2. job[j].step \notin Registering BY <1>1 DEF Registering
    <3> QED BY <3>1, <3>2, AboutWhom
  <2> QED BY <1>1, <2>1 DEF Seats, Step, RefundSteps
<1>5. ~PaysOut(j) /\ ~PaysOut(j)' BY <1>1, <1>2 DEF PaysOut, At
<1>6. \A v : /\ HasTicket(v)' <=> HasTicket(v)
             /\ v # u => (RefundRef(v) \in refs' <=> RefundRef(v) \in refs)
  BY <1>3, RefsDiffer DEF HasTicket, RefundRef
<1>7. \A v \in Players : v \notin {u} => (v \in InForce' <=> v \in InForce)
  BY <1>2, <1>5, <1>6, InForceStays
<1>8. u \notin InForce' BY <1>3 DEF InForce
<1>9. u \in InForce
  <2>1. ~PaidOut(u)
    <3> SUFFICES ASSUME NEW k \in Closers, At(k, "release"), u \in job[k].users PROVE FALSE
      BY DEF PaidOut
    <3>1. k \in Jobs /\ About(k) = job[k].users BY AboutWhom DEF Jobs, At, Registering
    <3>2. k = j BY <1>4, <3>1, Alone DEF Orderly
    <3> QED BY <1>1, <3>2 DEF At
  <2> QED BY <1>3, <1>4, <2>1 DEF InForce
<1>10. /\ InForce' \in SUBSET Players /\ InForce = InForce' \cup {u}
  <2>1. InForce \in SUBSET Players /\ InForce' \in SUBSET Players BY DEF InForce
  <2> QED BY <1>7, <1>8, <1>9, <2>1
<1>11. Collected(InForce) = Collected(InForce') + Fee[u]
  BY <1>8, <1>10, CollectedOneMore
<1>12. Collected(InForce') \in Nat /\ Fee[u] \in Nat BY <1>10, CollectedType, FeeIsMoney
<1>13. PayoutExplained'
  <2>1. PayoutExplained BY DEF Pooled, PayoutExplained
  <2>2. PayoutRef \in refs' => PayoutRef \in refs BY <1>3, RefsDiffer
  <2> QED BY <1>1, <1>2, <2>1, <2>2, PayoutStays DEF At
<1>14. ledger["pool"] = Collected(InForce) BY DEF Pooled
<1>15. ledger'["pool"] = Collected(InForce') BY <1>3, <1>11, <1>12, <1>14
<1> QED BY <1>13, <1>15, PooledAfter

LEMMA SettlePooled ==
  ASSUME OneAtATime, Typed, Seats, Pooled, Orderly, NEW k \in Closers, Settle(k)
  PROVE  Pooled'
<1> DEFINE us == job[k].users
<1>1. k \in Jobs /\ us \in SUBSET Players BY JobParts DEF Jobs
<1>2. /\ To(k, "release", us, job[k].todo, Released(us), "none") /\ job[k].step = "play"
  BY CloseMoves DEF Settle, At
<1>3. /\ OnlyJob(k) /\ job'[k].step = "release" /\ job'[k].users = us
      /\ job'[k].left = Released(us) /\ job'[k].after = "none"
  BY <1>2 DEF To
<1>4. refs' = refs \cup {PayoutRef} /\ ledger'["pool"] = ledger["pool"] - Collected(us)
  BY SettlePosts
<1>5. \A v : /\ HasTicket(v)' <=> HasTicket(v)
             /\ RefundRef(v) \in refs' <=> RefundRef(v) \in refs
  BY <1>4, RefsDiffer DEF HasTicket
<1>6. \A v \in Players : v \notin us => (v \in InForce' <=> v \in InForce)
  BY <1>1, <1>3, <1>5, InForceStays
<1>7. \A v \in us : v \notin InForce'
  BY <1>3 DEF InForce, PaidOut, At
<1>8. us \subseteq InForce
  <2> SUFFICES ASSUME NEW u \in us PROVE u \in InForce OBVIOUS
  <2>1. About(k) = us BY <1>1, <1>2, AboutWhom DEF Registering
  <2>2. HasTicket(u) /\ RefundRef(u) \notin refs BY <1>1, <1>2, <2>1 DEF Seats, Step
  <2>3. ~PaidOut(u) BY <1>2 DEF PaidOut, OneAtATime, At
  <2> QED BY <1>1, <2>2, <2>3 DEF InForce
<1>9. InForce \in SUBSET Players /\ InForce' = InForce \ us
  <2>1. InForce \in SUBSET Players /\ InForce' \in SUBSET Players BY DEF InForce
  <2> HIDE DEF us
  <2> QED BY <1>6, <1>7, <2>1
<1>10. Collected(InForce) = Collected(us) + Collected(InForce') BY <1>8, <1>9, CollectedPart
<1>11. Collected(us) \in Nat /\ Collected(InForce') \in Nat BY <1>1, <1>9, CollectedType
<1>12. PayoutExplained'
  <2>1. PayoutRef \in Released(us) BY DEF Released
  <2> QED BY <1>3, <2>1 DEF PayoutExplained, At
<1>13. ledger["pool"] = Collected(InForce) BY DEF Pooled
<1>14. ledger'["pool"] = Collected(InForce')
  <2> HIDE DEF us
  <2> QED BY <1>4, <1>10, <1>11, <1>13
<1> QED BY <1>12, <1>14, PooledAfter


LEMMA ReleasePooled ==
  ASSUME OneAtATime, Typed, Seats, Pooled, Orderly, NEW j \in Jobs,
         ReleaseNext(j) \/ Concluded(j)
  PROVE  Pooled'
<1> DEFINE its == job[j]
           us  == its.users
<1>1. /\ us \in SUBSET Players /\ its.step = "release" /\ ledger' = ledger /\ Sound(j, its)
      /\ About(j) = us
  BY JobParts, AboutWhom DEF ReleaseNext, Concluded, Release, At, books, Registering
<1>2. SeatsMove(j) BY RefundsSeated DEF Refunds
<1>3. OnlyJob(j) BY <1>2 DEF SeatsMove
<1>4. \/ /\ job'[j].step = "release" /\ job'[j].users = us /\ job'[j].after = its.after
         /\ \E ref \in its.left : refs' = refs \ {ref} /\ job'[j].left = its.left \ {ref}
      \/ /\ job'[j].step = "idle" /\ job'[j].users = {} /\ refs' = refs /\ its.left = {}
  <2>1. CASE ReleaseNext(j)
    <3>1. PICK ref \in FirstOf(its.left) :
            Release(ref) /\ To(j, "release", us, its.todo, its.left \ {ref}, its.after)
      BY <2>1, RefundMoves
    <3>2. ref \in its.left BY DEF FirstOf
    <3> QED BY <3>1, <3>2 DEF Release, To
  <2>2. CASE Concluded(j)
    <3>1. Finishes(j) BY <2>2, RefundMoves
    <3> QED BY <2>2, <3>1 DEF Finishes, To, Concluded, books
  <2> QED BY <2>1, <2>2
<1>5. About(j)' = job'[j].users BY <1>4 DEF About, Registering
<1>6. j \in Closers => (its.after = "none" => PaysOut(j)) BY <1>1 DEF PaysOut, At
<1>7. j \in Calls => its.after = "CANCELLED" BY <1>1 DEF Sound
<1>8. \A v \in us : v \notin InForce
  <2> SUFFICES ASSUME NEW v \in us PROVE v \notin InForce OBVIOUS
  <2>1. Step(j, v) BY <1>1 DEF Seats
  <2>2. CASE its.after = "none"
    <3>1. PaidOut(v) BY <1>1, <1>7, <2>2 DEF PaidOut, Jobs, At
    <3> QED BY <3>1 DEF InForce
  <2>3. CASE its.after # "none"
    <3>1. HasTicket(v) => RefundRef(v) \in refs BY <1>1, <2>1, <2>3 DEF Step
    <3> QED BY <3>1 DEF InForce
  <2> QED BY <2>2, <2>3
<1>9. \A v \in us : v \notin InForce'
  <2> SUFFICES ASSUME NEW v \in us PROVE v \notin InForce' OBVIOUS
  <2>1. CASE job'[j].step = "release"
    <3>1. job'[j].users = us /\ job'[j].after = its.after BY <1>4, <2>1
    <3>2. Step(j, v)' BY <1>1, <1>2, <1>5, <3>1 DEF SeatsMove
    <3>3. CASE its.after = "none"
      <4>1. PaidOut(v)' BY <1>7, <2>1, <3>1, <3>3 DEF PaidOut, Jobs, At
      <4> QED BY <4>1 DEF InForce
    <3>4. CASE its.after # "none"
      <4>1. HasTicket(v)' => RefundRef(v) \in refs' BY <2>1, <3>1, <3>2, <3>4 DEF Step
      <4> QED BY <4>1 DEF InForce
    <3> QED BY <3>3, <3>4
  <2>2. CASE job'[j].step = "idle"
    <3>1. its.left = {} /\ refs' = refs BY <1>4, <2>2
    <3>2. Step(j, v) BY <1>1 DEF Seats
    <3>3. ~HasTicket(v) BY <1>1, <3>1, <3>2 DEF Step
    <3> QED BY <3>1, <3>3 DEF InForce, HasTicket
  <2> QED BY <1>4, <2>1, <2>2
<1>10. job'[j].users \subseteq us BY <1>4
<1>11. \A v \in Players : v \notin us =>
         /\ (HasTicket(v)' <=> HasTicket(v)) /\ (RefundRef(v) \in refs' <=> RefundRef(v) \in refs)
  BY <1>1, <1>2, <1>5, <1>10 DEF SeatsMove, Same, HasTicket
<1>12. \A v \in Players : v \notin us => (v \in InForce' <=> v \in InForce)
  BY <1>3, <1>10, <1>11, InForceStays
<1>13. InForce' = InForce
  <2>1. InForce \in SUBSET Players /\ InForce' \in SUBSET Players BY DEF InForce
  <2> HIDE DEF us
  <2> QED BY <1>8, <1>9, <1>12, <2>1
<1>14. PayoutExplained'
  <2>1. PayoutExplained BY DEF Pooled, PayoutExplained
  <2>2. PayoutRef \in refs' => PayoutRef \in refs BY <1>4
  <2>3. PayoutRef \in refs' /\ PayoutRef \in its.left =>
          At(j, "release")' /\ PayoutRef \in job'[j].left
    BY <1>4 DEF At
  <2> QED BY <1>3, <2>1, <2>2, <2>3, PayoutStays
<1>15. ledger'["pool"] = Collected(InForce') BY <1>1, <1>13 DEF Pooled
<1> QED BY <1>14, <1>15, PooledAfter

LEMMA PooledNext ==
  ASSUME OneAtATime, Typed, Seats, Pooled, [Next]_vars
  PROVE  Pooled'
<1> SUFFICES ASSUME Orderly' PROVE Pooled' BY DEF Pooled
<1>1. Orderly /\ \A j \in Jobs : ~Fails(j) BY OrderlyBefore
<1>2. CASE UNCHANGED vars \/ Tick
  <2>1. UNCHANGED <<ledger, refs, job>> BY <1>2 DEF vars, Tick, books
  <2>2. InForce' = InForce BY <2>1 DEF InForce, PaidOut, HasTicket, At
  <2>3. PayoutExplained' BY <1>1, <2>1 DEF Pooled, PayoutExplained, At
  <2> QED BY <1>1, <2>1, <2>2, <2>3, PooledAfter DEF Pooled
<1>3. ASSUME NEW c \in Calls, Request(c) \/ Registers(c) PROVE Pooled'
  <2>1. CASE Escrow(c) BY <1>1, <2>1, ChargePooled
  <2>2. CASE ~Escrow(c)
    <3>1. SeatsMove(c) BY <1>1, <1>3, CallsSeated
    <3>2. c \in Jobs /\ c \notin Closers /\ OnlyJob(c) BY <3>1 DEF Jobs, SeatsMove
    <3>3. UNCHANGED <<ledger, refs>> /\ ~At(c, "release")
      BY <1>3, <2>2 DEF Request, Registers, Register, Cancel, Asks, FindTicket, CheckBalance, Upsert,
                        At, books
    <3> QED BY <1>1, <3>2, <3>3, PooledAside DEF PaysOut
  <2> QED BY <2>1, <2>2
<1>4. ASSUME NEW j \in Jobs, Refunds(j) \/ Refused(j) PROVE Pooled'
  <2>1. CASE Refund(j) BY <1>1, <2>1, RefundPooled
  <2>2. CASE ReleaseNext(j) \/ Concluded(j) BY <1>1, <2>2, ReleasePooled
  <2>3. CASE FindEntry(j) \/ FindRefund(j) \/ AllRefunded(j) \/ Refused(j)
    <3>1. UNCHANGED <<ledger, refs>> /\ ~At(j, "release")
      BY <2>3 DEF FindEntry, FindRefund, AllRefunded, Refused, At, books
    <3>2. SeatsMove(j) BY <1>1, <2>3, RefundsSeated DEF Refunds
    <3>3. OnlyJob(j) BY <3>2 DEF SeatsMove
    <3>4. ~PaysOut(j)'
      <4>1. CASE AllRefunded(j)
        <5>1. job[j].after # "none"
          BY <4>1, JobParts DEF AllRefunded, At, Sound, RefundSteps
        <5>2. To(j, "release", job[j].users, job[j].todo, Released(job[j].users), job[j].after)
          BY <4>1, RefundMoves
        <5>3. job'[j].after = job[j].after BY <5>2 DEF To
        <5> QED BY <5>1, <5>3 DEF PaysOut
      <4>2. CASE FindEntry(j) \/ FindRefund(j)
        <5>1. PassesTurn(j) \/ Advances(j, "charged") \/ Advances(j, "owed")
          BY <4>2, RefundMoves
        <5> QED BY <5>1 DEF PassesTurn, Advances, To, PaysOut, At
      <4>3. CASE Refused(j)
        <5>1. Finishes(j) BY <4>3, RefundMoves
        <5> QED BY <5>1 DEF Finishes, To, PaysOut, At
      <4> QED BY <2>3, <4>1, <4>2, <4>3
    <3> QED BY <1>1, <3>1, <3>3, <3>4, PooledAside
  <2> QED BY <1>4, <2>1, <2>2, <2>3 DEF Refunds
<1>5. ASSUME NEW k \in Closers, Close(k) PROVE Pooled'
  <2>1. CASE Settle(k) BY <1>1, <2>1, SettlePooled
  <2>2. CASE ReadRoster(k) \/ HandOver(k)
    <3>1. k \in Jobs /\ UNCHANGED <<ledger, refs>> /\ ~At(k, "release")
      BY <2>2 DEF ReadRoster, HandOver, At, books, Jobs
    <3>2. PICK step \in {"claim", "refund", "play"} :
            \E us, todo, left, after : To(k, step, us, todo, left, after)
      BY <2>2, CloseMoves DEF Advances
    <3>3. OnlyJob(k) /\ job'[k].step # "release" BY <3>2 DEF To
    <3> QED BY <1>1, <3>1, <3>3, PooledAside DEF PaysOut, At
  <2> QED BY <1>5, <2>1, <2>2 DEF Close
<1> QED BY <1>1, <1>2, <1>3, <1>4, <1>5 DEF Next


-----------------------------------------------------------------------------
(* The window *)

LEMMA StartsSound == Init => IInv
<1> SUFFICES ASSUME Init PROVE IInv OBVIOUS
<1>1. /\ refs = {} /\ cached = ledger /\ row = [u \in Players |-> "none"] /\ ~ticked /\ ~crossed
      /\ job = [j \in Jobs |-> Idle] /\ played = [u \in Players |-> 0] /\ failures = 0
      /\ ledger = [a \in Accounts |-> IF a \in Players THEN Opening[a] ELSE 0]
  BY DEF Init, LedgerInit
<1>2. \A j \in Jobs : job[j] = Idle BY <1>1
<1>3. /\ Idle.step = "idle" /\ Idle.users = {} /\ Idle.todo = {} /\ Idle.left = {}
      /\ Idle.after = "none"
  BY DEF Idle
<1>4. /\ ledger \in [Accounts -> Int] /\ \A u \in Players : ledger[u] = Opening[u]
      /\ "pool" \in Accounts /\ "pool" \notin Players /\ ledger["pool"] = 0
  BY <1>1 DEF Accounts
<1>5. Typed
  <2>1. \A j \in Jobs : Sound(j, job[j])
    <3>1. "idle" \in CallSteps /\ "idle" \in CloserSteps /\ "idle" \notin RefundSteps
      BY DEF CallSteps, CloserSteps, RefundSteps
    <3> QED BY <1>2, <1>3, <3>1 DEF Sound
  <2>2. row \in [Players -> Statuses] /\ played \in [Players -> Nat] BY <1>1 DEF Statuses
  <2>3. job \in [Jobs -> JobRecords] BY <1>1, IdleIsARecord
  <2>4. ticked \in BOOLEAN /\ crossed \in BOOLEAN BY DEF Init
  <2>5. \A j \in Jobs : At(j, "idle") BY <1>2, <1>3 DEF At
  <2> QED BY <1>1, <1>4, <2>1, <2>2, <2>3, <2>4, <2>5 DEF Typed, Jobs
<1>6. \A j \in Jobs : job[j].step = "idle" /\ job[j].users = {} BY <1>2, <1>3
<1>7. Rosters BY <1>1, <1>6 DEF Rosters, At, Jobs, Registering
<1>8. \A u : ~HasTicket(u) BY <1>1 DEF HasTicket
<1>9. Accounted
  <2>1. \A u \in Players : Charged(u)
    <3>1. \A u \in Players : Opening[u] \in Nat OBVIOUS
    <3> QED BY <1>4, <1>8, <3>1 DEF Charged
  <2>2. \A j \in Jobs : Refundable(j) BY <1>6 DEF Refundable, At
  <2> QED BY <2>1, <2>2 DEF Accounted
<1>10. Seats
  <2>1. \A j \in Jobs : About(j) = {} BY <1>6 DEF About, Registering
  <2>2. \A u \in Players : Free(u) BY <1>1, <1>8 DEF Free
  <2> QED BY <2>1, <2>2 DEF Seats
<1>11. Pooled
  <2>1. InForce = {} BY <1>8 DEF InForce
  <2>2. Collected({}) = 0
    <3>1. Collected({}) = SumFunctionOnSet(Fee, {}) BY CollectedIsSum
    <3> QED BY <3>1, SumEmpty
  <2> QED BY <1>1, <1>4, <2>1, <2>2 DEF Pooled
<1> QED BY <1>5, <1>7, <1>9, <1>10, <1>11 DEF IInv

LEMMA StaysSound == OneAtATime /\ IInv /\ [Next]_vars => IInv'
  BY TypedNext, RostersNext, AccountedNext, SeatsNext, PooledNext DEF IInv

(* Whatever fails, and whenever the tick comes: nobody is handed over to   *)
(* be played twice, provided that a player makes one request at a time and *)
(* that closeWindow() is not called while it runs.                         *)
THEOREM NobodyPlaysTwice == ASSUME OneAtATime PROVE Spec => []HandedOverOnce
<1>1. IInv => HandedOverOnce BY DEF IInv, Rosters, HandedOverOnce
<1>2. Init => IInv BY StartsSound
<1>3. IInv /\ [Next]_vars => IInv' BY StaysSound
<1> QED BY <1>1, <1>2, <1>3, PTL DEF Spec

(* Whatever fails and is repeated, nobody who is not handed over has more  *)
(* than they came with, unless a request raced the tick.                   *)
THEOREM NobodyIsRefundedTwice == ASSUME OneAtATime PROVE Spec => []RefundedOnce
<1>1. IInv => RefundedOnce BY DEF IInv, Accounted, Charged, RefundedOnce
<1>2. Init => IInv BY StartsSound
<1>3. IInv /\ [Next]_vars => IInv' BY StaysSound
<1> QED BY <1>1, <1>2, <1>3, PTL DEF Spec

(* While no call is under way, whoever is about to play or to be played    *)
(* has not been paid back, and nobody else has a ticket.                   *)
LEMMA QuietSeats ==
  ASSUME IInv, Orderly, Quiet, NEW u \in Players
  PROVE  /\ u \in Playing => HasTicket(u) /\ row[u] # "REGISTERED"
         /\ u \notin Playing => (HasTicket(u) <=> row[u] = "REGISTERED")
         /\ RefundRef(u) \notin refs
<1>1. Typed /\ Seats BY DEF IInv
<1>2. ASSUME NEW j \in Jobs, u \in About(j)
      PROVE  u \in Playing /\ HasTicket(u) /\ row[u] # "REGISTERED" /\ RefundRef(u) \notin refs
  <2>1. job[j].step = "play" BY <1>1, <1>2, AboutWhom DEF Quiet, At
  <2>2. Step(j, u) BY <1>1, <1>2 DEF Seats
  <2>3. j \in Closers
    BY <1>1, <2>1, JobParts DEF Sound, Jobs, CallSteps, Registering, RefundSteps
  <2>4. u \in job[j].users BY <1>2, <2>1 DEF About, Registering
  <2> QED BY <2>1, <2>2, <2>3, <2>4 DEF Step, Playing, At
<1>3. ASSUME u \in Playing PROVE \E j \in Jobs : u \in About(j)
  <2>1. PICK k \in Closers : At(k, "play") /\ u \in job[k].users BY <1>3 DEF Playing
  <2> QED BY <2>1 DEF About, At, Registering, Jobs
<1>4. CASE \E j \in Jobs : u \in About(j) BY <1>2, <1>4
<1>5. CASE \A j \in Jobs : u \notin About(j)
  <2>1. Free(u) /\ u \notin Playing BY <1>1, <1>3, <1>5 DEF Seats
  <2> QED BY <2>1 DEF Free
<1> QED BY <1>4, <1>5

(* Until something fails or races the tick: while no call is under way,    *)
(* exactly the players with a seat in the window, or in the room being     *)
(* played, hold a ticket.                                                  *)
THEOREM SeatsAreTickets == ASSUME OneAtATime PROVE Spec => []TicketsAreSeats
<1>1. IInv => TicketsAreSeats
  <2> SUFFICES ASSUME IInv, Orderly, Quiet PROVE Tickets = Registered \cup Playing
    BY DEF TicketsAreSeats
  <2>1. Playing \in SUBSET Players
    <3>1. \A k \in Closers : job[k].users \in SUBSET Players BY JobParts DEF IInv, Jobs
    <3> QED BY <3>1 DEF Playing
  <2>2. \A u \in Players : HasTicket(u) <=> u \in Registered \/ u \in Playing
    BY QuietSeats DEF Registered
  <2> QED BY <2>1, <2>2 DEF Tickets, Registered
<1>2. Init => IInv BY StartsSound
<1>3. IInv /\ [Next]_vars => IInv' BY StaysSound
<1> QED BY <1>1, <1>2, <1>3, PTL DEF Spec

LEMMA EnoughIsEnough ==
  ASSUME NEW us \in SUBSET Players, Enough(us)
  PROVE  multiplierFor(Cardinality(us), ROOM_SEATS) > 0
<1> DEFINE least == minPlayersThatWinSomething(ROOM_SEATS)
<1>1. Cardinality(us) \in Nat BY FS_Subset, FS_CardinalityType
<1>2. ROOM_SEATS \in Nat \ {0} /\ ROOM_MIN_PLAYERS \in Int OBVIOUS
<1>3. /\ least \in 1..ROOM_SEATS
      /\ \A n \in Nat : n >= least => multiplierFor(n, ROOM_SEATS) > 0
  BY <1>2, EnoughPlayersForAPrize
<1>4. minPlayers = Max({ROOM_MIN_PLAYERS, least}) BY DEF minPlayers
<1> HIDE DEF least
<1>5. minPlayers \in Int /\ minPlayers >= least
  <2>1. \E x \in {ROOM_MIN_PLAYERS, least} : \A y \in {ROOM_MIN_PLAYERS, least} : x >= y
    BY <1>2, <1>3
  <2>2. /\ Max({ROOM_MIN_PLAYERS, least}) \in {ROOM_MIN_PLAYERS, least}
        /\ \A y \in {ROOM_MIN_PLAYERS, least} : Max({ROOM_MIN_PLAYERS, least}) >= y
    BY <2>1 DEF Max
  <2> QED BY <1>2, <1>3, <1>4, <2>2
<1>6. Cardinality(us) >= minPlayers BY DEF Enough
<1>7. Cardinality(us) >= least BY <1>1, <1>3, <1>5, <1>6
<1> QED BY <1>1, <1>3, <1>7

(* Every window that is played has a prize; and, until something fails or  *)
(* races the tick, while no call is under way the pool is exactly the      *)
(* entries of the players who hold a ticket.                               *)
THEOREM WindowIsSound == ASSUME OneAtATime PROVE Spec => []WindowInv
<1>1. IInv => WindowInv
  <2> SUFFICES ASSUME IInv PROVE WindowInv OBVIOUS
  <2>1. Typed /\ Pooled BY DEF IInv
  <2>2. TypeOK
    <3>1. \A j \in Jobs : /\ job[j].users \subseteq Players
                          /\ job[j].todo \subseteq job[j].users
                          /\ job[j].left \subseteq Released(job[j].users)
      BY <2>1, JobParts DEF Sound
    <3> QED BY <2>1, <3>1 DEF TypeOK, Typed, Statuses
  <2>3. PoolIsTheTickets
    <3> SUFFICES ASSUME Orderly, Quiet PROVE ledger["pool"] = Collected(Tickets)
      BY DEF PoolIsTheTickets
    <3>1. \A u \in Players : RefundRef(u) \notin refs BY QuietSeats
    <3>2. \A u : ~PaidOut(u) BY DEF Quiet, PaidOut, At, Jobs
    <3>3. InForce = Tickets BY <3>1, <3>2 DEF InForce, Tickets
    <3> QED BY <2>1, <3>3 DEF Pooled
  <2>4. PlayedForAPrize
    <3> SUFFICES ASSUME NEW k \in Closers, At(k, "play")
                 PROVE  multiplierFor(Cardinality(job[k].users), ROOM_SEATS) > 0
      BY DEF PlayedForAPrize
    <3>1. k \in Jobs BY DEF Jobs
    <3>2. Enough(job[k].users) /\ job[k].users \in SUBSET Players
      BY <2>1, <3>1, JobParts DEF Sound, At
    <3> QED BY <3>2, EnoughIsEnough
  <2> QED BY <2>2, <2>3, <2>4 DEF WindowInv
<1>2. Init => IInv BY StartsSound
<1>3. IInv /\ [Next]_vars => IInv' BY StaysSound
<1> QED BY <1>1, <1>2, <1>3, PTL DEF Spec
=============================================================================
