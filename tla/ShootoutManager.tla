-------------------------- MODULE ShootoutManager ---------------------------
(***************************************************************************)
(* A live multi-table tournament under one id: the `tournament:register'   *)
(* handler and startTournament() of the gateway, MultiTableTournamentManager*)
(* (register, start) and the bracket it drives.  The roster and the bracket*)
(* live in memory and are lost by a restart; the ledger is not.  How a     *)
(* sub-table is played is TournamentTable's: here one of its players wins. *)
(***************************************************************************)
EXTENDS ShootoutCoordinator, TournamentMoney

CONSTANTS StartSize,                \* TOURNAMENT_START_SIZE
          Arrivals(_),              \* the orders in which a roster may have arrived
          MaxMishaps                \* bound: failed settlements and restarts
ASSUME ManagerAssumption ==
  /\ StartSize \in 2..MAX_PLAYERS /\ MaxMishaps \in Nat
  /\ Nobody \notin Players
  /\ \A us \in SUBSET Players : Arrivals(us) \subseteq Seatings(us)

VARIABLES
  roster,        \* who holds a slot, from before the escrow of the entry
  registering,   \* per player: how far the handler is
  phase,         \* how far start() is; anything but "forming" is mtStarted
  participants,  \* the roster when it started
  mishaps,
  interrupted    \* history: a settlement was cut short, or paid out
                 \* an entry it did not have

calls  == <<roster, registering>>
start  == <<phase, participants>>
vars   == <<books, bracket, calls, start, mishaps, interrupted>>

Handler(u, pc) == registering' = [registering EXCEPT ![u] = pc]
At(u, pc) == registering[u] = pc
Started == phase # "forming"

-----------------------------------------------------------------------------
(* Registering *)

(* The end of the handler: the roster is counted, and may start.  start()  *)
(* takes its snapshot at once, entries being escrowed included.            *)
CountAndStart ==
  IF ~Started /\ Cardinality(roster') >= StartSize
  THEN /\ phase' = "playing" /\ participants' = roster'
       /\ \E s \in Arrivals(roster') : OpenBracket(s)
  ELSE UNCHANGED <<start, bracket>>

Register(u) ==
  /\ At(u, "no") /\ ~Started
  /\ Handler(u, "reading")                             \* _subscriptionOf()
  /\ UNCHANGED <<books, bracket, roster, start, interrupted>>
(* The slot is taken before the await of the escrow, whatever started in   *)
(* the meantime.                                                           *)
TakeSlot(u) ==
  /\ At(u, "reading") /\ u \notin roster
  /\ roster' = roster \cup {u} /\ Handler(u, "escrow")
  /\ UNCHANGED <<books, bracket, start, interrupted>>
HasSlot(u) ==
  /\ At(u, "reading") /\ u \in roster
  /\ Handler(u, "no") /\ UNCHANGED roster /\ CountAndStart
  /\ UNCHANGED <<books, interrupted>>
Escrowed(u) ==
  /\ At(u, "escrow") /\ Handler(u, "no")
  /\ \/ KnowsTicket(u) /\ UNCHANGED books
     \/ ~KnowsTicket(u) /\ Charge(u)
  /\ UNCHANGED roster /\ CountAndStart
  /\ UNCHANGED interrupted
(* Out of funds.  If the tournament has started the player is in it.       *)
KeepsSlot(u) == roster                                 \* mutant of WithoutSlot
WithoutSlot(u) == roster \ {u}
Refused(u) ==
  /\ At(u, "escrow") /\ ~KnowsTicket(u) /\ cached[u] < Fee[u]
  /\ Handler(u, "no") /\ roster' = WithoutSlot(u)
  /\ UNCHANGED <<books, bracket, start, interrupted>>
(* A handler whose roster was deleted meanwhile: its entry is escrowed for *)
(* a roster nobody has, and starting finds no or too few registrations.    *)
Stray(u) ==
  /\ At(u, "stray") /\ Handler(u, "no")
  /\ \/ KnowsTicket(u) /\ UNCHANGED books
     \/ ~KnowsTicket(u) /\ Charge(u)
     \/ ~KnowsTicket(u) /\ cached[u] < Fee[u] /\ UNCHANGED books
  /\ UNCHANGED <<bracket, roster, start, interrupted>>

-----------------------------------------------------------------------------
(* start(): the bracket, then TournamentService.settle() *)

TableWon(t, w) ==
  /\ phase = "playing" /\ reportTableWinner(t, w)
  /\ phase' = IF champion' = Nobody THEN phase ELSE "paying"
  /\ UNCHANGED <<books, calls, participants, interrupted>>
Pay ==
  /\ phase = "paying" /\ PayOut(champion, participants, MAX_PLAYERS, 100)
  /\ phase' = "releasing"
  /\ interrupted' = (interrupted \/ ~participants \subseteq Tickets)
  /\ UNCHANGED <<bracket, calls, participants>>
(* The win is recorded, the references are renamed.                        *)
ReleaseAll ==
  /\ phase = "releasing" /\ phase' = "done"
  /\ refs' = refs \ Released(participants)
  /\ UNCHANGED <<ledger, cached, bracket, calls, participants, interrupted>>
(* The prize alert never fails; the roster is deleted, and the finally     *)
(* clause lets the id form again.                                          *)
Orphaned == [u \in Players |-> IF At(u, "escrow") THEN "stray" ELSE registering[u]]
Finish ==
  /\ phase = "done" /\ phase' = "forming" /\ participants' = {}
  /\ roster' = {} /\ registering' = Orphaned /\ CloseBracket
  /\ UNCHANGED <<books, interrupted>>
(* An error on the way: the finally clause runs, the roster stays.         *)
StaysStarted == "failed"                               \* mutant of AfterError
AfterError == "forming"
SettlementFails ==
  /\ phase \in {"paying", "releasing"}
  /\ phase' = AfterError /\ participants' = {} /\ CloseBracket
  /\ interrupted' = TRUE
  /\ UNCHANGED <<books, calls>>
(* ... as it does whenever the payout of an earlier one was never renamed. *)
PayoutRefused == PayoutRef \in refs /\ phase = "paying" /\ SettlementFails

Restart ==
  /\ roster' = {} /\ registering' = [u \in Players |-> "no"]
  /\ phase' = "forming" /\ participants' = {} /\ CloseBracket
  /\ interrupted' = (interrupted \/ phase = "releasing")
  /\ UNCHANGED books

-----------------------------------------------------------------------------
Init ==
  /\ LedgerInit /\ BracketInit
  /\ roster = {} /\ registering = [u \in Players |-> "no"]
  /\ phase = "forming" /\ participants = {}
  /\ mishaps = 0 /\ interrupted = FALSE

Handle(u) == TakeSlot(u) \/ HasSlot(u) \/ Escrowed(u) \/ Refused(u) \/ Stray(u)
Settle == Pay \/ ReleaseAll \/ Finish \/ PayoutRefused
Play == \E t \in DOMAIN winners : \E w \in SeatedAt(alive, t) : TableWon(t, w)
Works ==
  /\ (\E u \in Players : Register(u) \/ Handle(u)) \/ Play \/ Settle
  /\ UNCHANGED mishaps
Mishap ==
  /\ mishaps < MaxMishaps /\ mishaps' = mishaps + 1
  /\ SettlementFails \/ Restart
Next == Works \/ Mishap
Spec == Init /\ [][Next]_vars

(* Assumed of the tables: each is decided.  The event loop does the rest.  *)
FairSpec ==
  /\ Spec
  /\ WF_vars(Play /\ UNCHANGED mishaps) /\ WF_vars(Settle /\ UNCHANGED mishaps)
  /\ \A u \in Players : WF_vars(Handle(u) /\ UNCHANGED mishaps)

-----------------------------------------------------------------------------
(* Properties *)

TypeOK ==
  /\ roster \subseteq Players /\ participants \subseteq Players
  /\ registering \in [Players -> {"no", "reading", "escrow", "stray"}]
  /\ phase \in {"forming", "playing", "paying", "releasing", "done"}
  /\ round \in Nat /\ champion \in Players \cup {Nobody}
  /\ (champion # Nobody) = (phase \in {"paying", "releasing", "done"})

(* multi-table-manager.ts:41: a slot in the roster is an entry escrowed or *)
(* being escrowed, and the pool holds exactly the entries that tickets are *)
(* for, whoever registers late, is refused, or registers while the last    *)
(* tournament is being settled, and across restarts; unless a settlement   *)
(* was interrupted or had a player whose entry was never escrowed.         *)
EntriesArePooled ==
  /\ TypeOK
  /\ ~interrupted =>
       /\ phase # "releasing" => ledger["pool"] = Collected(Tickets)
       /\ phase # "done" => \A u \in roster : HasTicket(u) \/ At(u, "escrow")

(* multi-table-coordinator.ts: whatever order tables finish in, the bracket*)
(* moves round by round with one winner of each table, as a shootout.      *)
Promise == INSTANCE Shootout WITH Entrants <- Players
RoundByRound == Promise!Spec

(* A tournament that started ends, and its id can form another one.        *)
RoomReopens == (phase # "forming") ~> (phase = "forming")
=============================================================================
