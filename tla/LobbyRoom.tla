----------------------------- MODULE LobbyRoom ------------------------------
(***************************************************************************)
(* The money of a lobby room (poker-l1..l7): one tournament after another  *)
(* under one room id, entered through TableService.enterTournament() and   *)
(* settled or abandoned by TableService, with TournamentService between    *)
(* them and the ledger.  The registry of tables lives in memory and is     *)
(* lost by a restart; the ledger is not.  How a tournament is played is    *)
(* TournamentTable's; here it is won by an entrant, or everyone leaves it. *)
(***************************************************************************)
EXTENDS TournamentMoney

CONSTANTS
  Sockets, UserOf,            \* connections, and whose they are
  MaxRestarts, MaxFailures    \* bounds
ASSUME LobbyAssumption ==
  UserOf \in [Sockets -> Players] /\ MaxRestarts \in Nat /\ MaxFailures \in Nat

VARIABLES
  table,         \* the room's instance, or NoTable
  joining,       \* per socket: how far a join is, and whether for this instance
  closing,       \* the settlement or clearing in progress, or Open
  restarts, failures

bounds == <<restarts, failures>>
vars   == <<books, table, joining, closing, bounds>>

PHASE1_ROOM_CAPACITY == 8
NoTable == [entries |-> {}, settled |-> FALSE, exists |-> FALSE]
EmptyTable == [entries |-> {}, settled |-> FALSE, exists |-> TRUE]
Out     == [step |-> "no", here |-> TRUE]
Open    == [step |-> "open", left |-> {}]

-----------------------------------------------------------------------------
(* Joining: enableTournament(), enterTournament(), escrowEntry() *)

At(s, step) == joining[s].step = step
Goes(s, step) == joining' = [joining EXCEPT ![s].step = step]
Leaves(s) == joining' = [joining EXCEPT ![s] = Out]
IsIn(s) == joining[s].here /\ UserOf[s] \in table.entries

Ask(s) ==
  /\ At(s, "no")
  /\ table' = IF table.exists THEN table ELSE EmptyTable
  /\ Goes(s, "asked")
  /\ UNCHANGED <<books, closing>>
AlreadyIn(s) ==
  /\ At(s, "asked") /\ IsIn(s)
  /\ Leaves(s) /\ UNCHANGED <<books, table, closing>>
FindTicket(s) ==
  /\ At(s, "asked") /\ ~IsIn(s)
  /\ Goes(s, IF KnowsTicket(UserOf[s]) THEN "paid" ELSE "unpaid")
  /\ UNCHANGED <<books, table, closing>>
CheckBalance(s) ==
  /\ At(s, "unpaid") /\ ledger[UserOf[s]] >= Fee[UserOf[s]]
  /\ Goes(s, "checked") /\ UNCHANGED <<books, table, closing>>
Escrow(s) ==
  /\ At(s, "checked") /\ Charge(UserOf[s])
  /\ Goes(s, "paid") /\ UNCHANGED <<table, closing>>
RecordEntry(s) ==
  /\ At(s, "paid")
  /\ table' = IF joining[s].here THEN [table EXCEPT !.entries = @ \cup {UserOf[s]}] ELSE table
  /\ Leaves(s) /\ UNCHANGED <<books, closing>>
JoinFails(s) ==
  /\ ~At(s, "no") /\ Leaves(s)
  /\ UNCHANGED <<books, table, closing>>

(* Deleting the instance: a join that has not returned keeps the object.   *)
DeleteTable ==
  /\ table' = NoTable
  /\ joining' = [s \in Sockets |->
       IF At(s, "no") \/ (At(s, "asked") /\ IsIn(s)) THEN Out ELSE [joining[s] EXCEPT !.here = FALSE]]

-----------------------------------------------------------------------------
(* The end of a tournament *)

(* applyTournamentHandResult(): mark it settled, then TournamentService.   *)
Won(winner) ==
  /\ closing = Open /\ ~table.settled
  /\ winner \in table.entries /\ Cardinality(table.entries) >= 2
  /\ table' = [table EXCEPT !.settled = TRUE]
  /\ closing' = [step |-> "pay", winner |-> winner, players |-> table.entries,
                 left |-> Released(table.entries)]
  /\ UNCHANGED <<books, joining>>
Pay ==
  /\ closing.step = "pay"
  /\ PayOut(closing.winner, closing.players, PHASE1_ROOM_CAPACITY, 100)
  /\ closing' = [step |-> "release", left |-> closing.left]
  /\ UNCHANGED <<table, joining>>
ReleaseNext ==
  /\ closing.step \in {"release", "clear"}
  /\ \E ref \in FirstOf(closing.left) :
       Release(ref) /\ closing' = [closing EXCEPT !.left = @ \ {ref}]
  /\ UNCHANGED <<table, joining>>
(* afterHand(), resetSettled(); or the end of leave().                     *)
Freed ==
  /\ closing.step \in {"release", "clear"} /\ closing.left = {}
  /\ closing' = Open /\ DeleteTable
  /\ UNCHANGED books
(* leave(): nobody is left in a tournament that had started.               *)
Abandoned ==
  /\ closing = Open /\ ~table.settled /\ Cardinality(table.entries) >= 2
  /\ closing' = [step |-> "clear", left |-> Released(table.entries)]
  /\ UNCHANGED <<books, table, joining>>
(* An error of the database ends the settlement where it is.               *)
ClosingFails ==
  /\ closing # Open /\ failures < MaxFailures /\ failures' = failures + 1
  /\ closing' = Open
  /\ UNCHANGED <<books, table, joining, restarts>>

Restart ==
  /\ restarts < MaxRestarts /\ restarts' = restarts + 1
  /\ table' = NoTable /\ joining' = [s \in Sockets |-> Out] /\ closing' = Open
  /\ UNCHANGED <<books, failures>>

Init ==
  /\ LedgerInit
  /\ table = NoTable /\ joining = [s \in Sockets |-> Out] /\ closing = Open
  /\ restarts = 0 /\ failures = 0
Join(s) ==
  Ask(s) \/ AlreadyIn(s) \/ FindTicket(s) \/ CheckBalance(s) \/ Escrow(s) \/ RecordEntry(s)
    \/ JoinFails(s)
Next ==
  \/ /\ \/ \E s \in Sockets : Join(s)
        \/ \E u \in Players : Won(u)
        \/ Pay \/ ReleaseNext \/ Freed \/ Abandoned
     /\ UNCHANGED bounds
  \/ ClosingFails \/ Restart
Spec == Init /\ [][Next]_vars

-----------------------------------------------------------------------------
(* Properties *)

(* Every variable stays in its range.                                      *)
TypeOK ==
  /\ ledger \in [Accounts -> Int] /\ cached = ledger
  /\ table \in [entries : SUBSET Players, settled : BOOLEAN, exists : BOOLEAN]
  /\ joining \in [Sockets -> [step : {"no", "asked", "unpaid", "checked", "paid"}, here : BOOLEAN]]
  /\ table.exists \/ table = NoTable
  /\ closing.step \in {"open", "pay", "release", "clear"}
  /\ closing.left \subseteq Released(Players)

Undisturbed == restarts = 0 /\ failures = 0
TicketsCovered == closing.step # "release" => ledger["pool"] >= Collected(Tickets)

(* As long as no restart or failure interrupts a settlement, the pool      *)
(* holds an entry for every ticket that can be used, whatever joins were   *)
(* under way when the last tournament was settled or abandoned.            *)
PoolCoversTickets == Undisturbed => TicketsCovered
(* And the prize of the next tournament can be posted: no reference of the *)
(* last one is in its way.                                                 *)
PayoutNeverCollides == Undisturbed /\ closing.step = "pay" => PayoutRef \notin refs
RoomInv == TypeOK /\ PoolCoversTickets /\ PayoutNeverCollides

(* Whoever is entered has a ticket, whatever joins were under way when the *)
(* last instance was settled or cleared away, and across restarts.         *)
EntrantsHoldTickets ==
  failures = 0 /\ closing = Open /\ ~table.settled => table.entries \subseteq Tickets

(* A player with a ticket is never charged for another one, by a second    *)
(* connection, after a restart or after a failed settlement.               *)
OneTicketOneCharge ==
  [][\A u \in Players : ledger'[u] < ledger[u] => ~HasTicket(u)]_vars
=============================================================================
