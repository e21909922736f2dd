--------------------------- MODULE ScheduledRooms ---------------------------
(***************************************************************************)
(* ScheduledRoomsService: one room of one window.  Players register, and   *)
(* pay, or cancel, and are paid back, while the window is ahead; at the    *)
(* tick closeWindow() hands the roster over to be played or gives every    *)
(* entry back.  Every call is a sequence of queries, and nothing but the   *)
(* references and the status of a row orders two calls.                    *)
(***************************************************************************)
EXTENDS TournamentMoney

CONSTANTS
  Calls, CallerOf,            \* requests in flight, and whose they are
  Closers,                    \* calls of closeWindow()
  ROOM_SEATS, prizePoolSharePct,
  ROOM_MIN_PLAYERS,           \* wanted, by configuration
  MaxRequests, MaxFailures    \* bounds
ASSUME RoomsAssumption ==
  /\ CallerOf \in [Calls -> Players] /\ Calls \cap Closers = {}
  /\ ROOM_SEATS \in Nat \ {0, 1} /\ ROOM_MIN_PLAYERS \in 2..ROOM_SEATS
  /\ prizePoolSharePct \in 1..100
  /\ MaxRequests \in Nat /\ MaxFailures \in Nat

VARIABLES
  row,           \* per player: the status of the registration, or "none"
  ticked,        \* the window has begun
  crossed,       \* ... while a request was under way
  job,           \* per call: what it does next, and for whom
  played,        \* per player: in how many rosters handed over
  requests, failures

clock == <<ticked, crossed>>
vars  == <<books, row, clock, job, played, requests, failures>>
Jobs == Calls \cup Closers
Idle == [step |-> "idle", users |-> {}, todo |-> {}, left |-> {}, after |-> "none"]

At(j, step) == job[j].step = step
Goes(j, step) == job' = [job EXCEPT ![j].step = step]
Becomes(j, new) == job' = [job EXCEPT ![j] = new]
Ends(j) == Becomes(j, Idle)
Refunding(us, after) ==
  [step |-> "refund", users |-> us, todo |-> us, left |-> {}, after |-> after]
Releasing(j) == [job[j] EXCEPT !.step = "release", !.left = Released(job[j].users)]

-----------------------------------------------------------------------------
(* register() *)

Asks(c) ==
  /\ At(c, "idle") /\ ~ticked
  /\ requests < MaxRequests /\ requests' = requests + 1
Register(c) ==
  /\ Asks(c) /\ row[CallerOf[c]] # "REGISTERED"
  /\ Goes(c, "entering") /\ UNCHANGED <<books, row, played>>
FindTicket(c) ==
  /\ At(c, "entering")
  /\ Goes(c, IF KnowsTicket(CallerOf[c]) THEN "paid" ELSE "unpaid")
  /\ UNCHANGED <<books, row, played>>
CheckBalance(c) ==
  /\ At(c, "unpaid") /\ ledger[CallerOf[c]] >= Fee[CallerOf[c]]
  /\ Goes(c, "checked") /\ UNCHANGED <<books, row, played>>
Escrow(c) ==
  /\ At(c, "checked") /\ Charge(CallerOf[c])
  /\ Goes(c, "paid") /\ UNCHANGED <<row, played>>
Upsert(c) ==
  /\ At(c, "paid") /\ row' = [row EXCEPT ![CallerOf[c]] = "REGISTERED"]
  /\ Ends(c) /\ UNCHANGED <<books, played>>

(* cancel() *)
Cancel(c) ==
  /\ Asks(c) /\ row[CallerOf[c]] = "REGISTERED"
  /\ Becomes(c, Refunding({CallerOf[c]}, "CANCELLED")) /\ UNCHANGED <<books, row, played>>

-----------------------------------------------------------------------------
(* refundEntries(): one player after the other, then the references.       *)

Turn(j) == CHOOSE u \in job[j].todo : TRUE
NextTurn(j) == [job[j] EXCEPT !.step = "refund", !.todo = @ \ {Turn(j)}]
FindEntry(j) ==
  /\ At(j, "refund") /\ job[j].todo # {}
  /\ IF HasTicket(Turn(j)) THEN Goes(j, "charged") ELSE Becomes(j, NextTurn(j))
  /\ UNCHANGED <<books, row, played>>
FindRefund(j) ==
  /\ At(j, "charged")
  /\ IF RefundRef(Turn(j)) \in refs THEN Becomes(j, NextTurn(j)) ELSE Goes(j, "owed")
  /\ UNCHANGED <<books, row, played>>
Refund(j) ==
  /\ At(j, "owed") /\ GiveBack(Turn(j))
  /\ Becomes(j, NextTurn(j)) /\ UNCHANGED <<row, played>>
AllRefunded(j) ==
  /\ At(j, "refund") /\ job[j].todo = {}
  /\ Becomes(j, Releasing(j))
  /\ UNCHANGED <<books, row, played>>
ReleaseNext(j) ==
  /\ At(j, "release")
  /\ \E ref \in FirstOf(job[j].left) :
       Release(ref) /\ Becomes(j, [job[j] EXCEPT !.left = @ \ {ref}])
  /\ UNCHANGED <<row, played>>

-----------------------------------------------------------------------------
(* closeWindow() *)

Registered == {u \in Players : row[u] = "REGISTERED"}

(* claim(): only rows that are still REGISTERED change.                    *)
ClaimNone(us, status) == row                           \* mutant of Claim
Claim(us, status) ==
  [u \in Players |-> IF u \in us /\ row[u] = "REGISTERED" THEN status ELSE row[u]]

(* No window is played for a prize of nothing.                             *)
minPlayers == Max({ROOM_MIN_PLAYERS, minPlayersThatWinSomething(ROOM_SEATS)})
Enough(us) == Cardinality(us) >= minPlayers
ReadRoster(k) ==
  /\ At(k, "idle") /\ ticked /\ Registered # {}
  /\ Becomes(k, IF Enough(Registered) THEN [Idle EXCEPT !.step = "claim", !.users = Registered]
                ELSE Refunding(Registered, "REFUNDED"))
  /\ UNCHANGED <<books, row, played>>
HandOver(k) ==
  /\ At(k, "claim") /\ Goes(k, "play")
  /\ row' = Claim(job[k].users, "STARTED")
  /\ played' = [u \in Players |-> IF u \in job[k].users THEN played[u] + 1 ELSE played[u]]
  /\ UNCHANGED books
(* What follows the release of the references, for each kind of call.      *)
Concluded(j) ==
  /\ At(j, "release") /\ job[j].left = {}
  /\ row' = CASE job[j].after = "CANCELLED" -> [row EXCEPT ![CallerOf[j]] = "CANCELLED"]
              [] job[j].after = "REFUNDED" -> Claim(job[j].users, "REFUNDED")
              [] OTHER -> row
  /\ Ends(j) /\ UNCHANGED <<books, played>>

(* settleRoom(): the bracket has a champion.                               *)
Settle(k) ==
  /\ At(k, "play")
  /\ \E winner \in job[k].users : PayOut(winner, job[k].users, ROOM_SEATS, prizePoolSharePct)
  /\ Becomes(k, Releasing(k)) /\ UNCHANGED <<row, played>>

-----------------------------------------------------------------------------
(* Calls end early when a check or a posting refuses them, or on an error. *)

Refused(j) ==
  /\ \/ At(j, "unpaid") /\ ledger[CallerOf[j]] < Fee[CallerOf[j]]
     \/ At(j, "checked") /\ (HasTicket(CallerOf[j]) \/ cached[CallerOf[j]] < Fee[CallerOf[j]])
     \/ At(j, "owed") /\ RefundRef(Turn(j)) \in refs
     \/ At(j, "play") /\ PayoutRef \in refs
  /\ Ends(j) /\ UNCHANGED <<books, row, played>>
Fails(j) ==
  /\ ~At(j, "idle") /\ ~At(j, "play")
  /\ failures < MaxFailures /\ failures' = failures + 1
  /\ Ends(j) /\ UNCHANGED <<books, row, played, clock, requests>>
Tick ==
  /\ ~ticked /\ ticked' = TRUE
  /\ crossed' = (\E c \in Calls : ~At(c, "idle"))
  /\ UNCHANGED <<books, row, job, played, requests, failures>>

Init ==
  /\ LedgerInit
  /\ row = [u \in Players |-> "none"] /\ ticked = FALSE /\ crossed = FALSE
  /\ job = [j \in Jobs |-> Idle]
  /\ played = [u \in Players |-> 0] /\ requests = 0 /\ failures = 0
Request(c) == Register(c) \/ Cancel(c)
Registers(c) == FindTicket(c) \/ CheckBalance(c) \/ Escrow(c) \/ Upsert(c)
Refunds(j) ==
  FindEntry(j) \/ FindRefund(j) \/ Refund(j) \/ AllRefunded(j) \/ ReleaseNext(j) \/ Concluded(j)
Close(k) == ReadRoster(k) \/ HandOver(k) \/ Settle(k)
Next ==
  \/ /\ \E c \in Calls : Request(c)
     /\ UNCHANGED <<clock, failures>>
  \/ /\ \/ \E c \in Calls : Registers(c)
        \/ \E j \in Jobs : Refunds(j) \/ Refused(j)
        \/ \E k \in Closers : Close(k)
     /\ UNCHANGED <<clock, requests, failures>>
  \/ Tick
  \/ \E j \in Jobs : Fails(j)
Spec == Init /\ [][Next]_vars

-----------------------------------------------------------------------------
(* Properties *)

(* Every variable stays in its range.                                      *)
TypeOK ==
  /\ ledger \in [Accounts -> Int] /\ cached = ledger
  /\ row \in [Players -> {"none", "REGISTERED", "CANCELLED", "STARTED", "REFUNDED"}]
  /\ \A j \in Jobs : /\ job[j].users \subseteq Players
                      /\ job[j].todo \subseteq job[j].users
                      /\ job[j].left \subseteq Released(job[j].users)

(* Nothing failed, and no request of a player raced the tick.              *)
Orderly == failures = 0 /\ ~crossed
Quiet == \A j \in Jobs : At(j, "idle") \/ At(j, "play")
Playing == UNION {job[k].users : k \in {c \in Closers : At(c, "play")}}

(* While no call is under way, the pool is exactly the entries of the      *)
(* players who hold a ticket: nothing was refunded twice, paid out twice   *)
(* or left behind by a cancellation and a later registration.              *)
PoolIsTheTickets == Orderly /\ Quiet => ledger["pool"] = Collected(Tickets)
(* scheduled-rooms.service.ts:84: "a tournament nobody can win is worse than*)
(* no tournament": a window that is played has a prize.                    *)
PlayedForAPrize ==
  \A k \in Closers : At(k, "play") => multiplierFor(Cardinality(job[k].users), ROOM_SEATS) > 0
WindowInv == TypeOK /\ PoolIsTheTickets /\ PlayedForAPrize

(* scheduled-rooms.service.ts:21, "the entry is real money held in escrow":*)
(* while no call is under way, exactly the players with a seat in the      *)
(* window or in the room being played hold a ticket.                       *)
TicketsAreSeats == Orderly /\ Quiet => Tickets = Registered \cup Playing

(* scheduled-rooms.service.ts:195, closeWindow() is "Safe to call more     *)
(* than once for the same window": nobody is handed over twice by calls    *)
(* that follow each other.                                                 *)
HandedOverOnce == \A u \in Players : played[u] <= 1

(* tournament.service.ts:192, a refund is "idempotent per (tournament,     *)
(* player)": whatever calls failed and were repeated, nobody who is not    *)
(* handed over to be played has more than they came with, unless a         *)
(* cancellation was under way at the tick.                                 *)
RefundedOnce ==
  ~crossed => \A u \in Players : played[u] = 0 => ledger[u] <= Opening[u]
=============================================================================
