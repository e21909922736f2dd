--------------------------- MODULE TournamentTable --------------------------
(***************************************************************************)
(* One tournament table: TableService (table.service.ts) with the gateway  *)
(* that drives it (game.gateway.ts).  A money room (~subTable) is joined   *)
(* by its players, who may leave, drop and come back; the table of a       *)
(* bracket (subTable) is seated by the server and played against the clock.*)
(*                                                                         *)
(* Handlers run to completion between awaits.  A join awaits the database  *)
(* twice (the player's status, then the escrow of the entry), so it is     *)
(* three steps; everything else is one.  A hand is a hand of HandOutcome.  *)
(* Whether the socket behind a seat is still connected is part of the      *)
(* seat, so a grace timer of an older socket, which finds another one at   *)
(* the seat and does nothing, is dropped.  The model ends when the table   *)
(* is decided.                                                             *)
(***************************************************************************)
EXTENDS HandOutcome

CONSTANTS
  Users,
  Start,          \* the stack each entrant starts with
  MaxSeats,
  MaxDrops,       \* bound: connections lost
  MaxAsks         \* bound: joins sent
ASSUME TableAssumption ==
  /\ Start \in [Users -> Nat \ {0}] /\ IsFiniteSet(Users)
  /\ MaxSeats \in Nat /\ MaxDrops \in Nat /\ MaxAsks \in Nat

None == "none"
ASSUME NoneAssumption == None \notin Users

VARIABLES
  subTable,       \* a bracket's table: no money, no joining, a turn clock
  hand,           \* the hand in progress, or NoHand
  entries, eliminated, stacks, started, settled,   \* TournamentCtx
  winner,         \* the winner reported when the table was decided
  closed,         \* an abandoned table, deleted from the registry
  seat,           \* "empty", or whose socket is "live" or "dead"
  online,         \* users with a connection
  asking,         \* a join in flight: "asked", "paying" or "no"
  lost,           \* joins in flight whose socket has dropped since
  timers,         \* deal: continueTournament is due; auto: driveRobots timers
  grace,          \* disconnect timers of the sockets now at the seats
  away,           \* withdrawal timers of players absent from the start
  drops, asks     \* what the bounds count

wires  == <<online, asking, lost, away, drops, asks>>
vars   == <<subTable, hand, entries, eliminated, stacks, started, settled, winner, closed,
            seat, timers, grace, wires>>

InHand == ~hand.over
Entrants(en, el, st) == {u \in en \ el : st[u] > 0}
Live == Entrants(entries, eliminated, stacks)
Seated == {u \in Users : seat[u] # "empty"}
Protected == started \/ InHand
Decided == settled \/ closed

-----------------------------------------------------------------------------
(* Hands *)

(***************************************************************************)
(* applyTournamentHandResult(): the stacks carry over and those without    *)
(* chips are out.  Two or more left play on.  A money room one player is   *)
(* left in is won only if all the others went broke; otherwise it waits    *)
(* for players again with fresh stacks.  A bracket table is always won.    *)
(***************************************************************************)
AnyoneGone(en, live, st) == TRUE                       \* mutant of WonByPlay
WonByPlay(en, live, st) == \A u \in en : u \in live \/ st[u] <= 0
Out(en, el, st) == el \cup {u \in en : st[u] <= 0}
NoNextHand(due) == due                                 \* mutant of NextHandTimer
NextHandTimer(due) == [due EXCEPT !.deal = TRUE]
Champion(en, el, live) ==
  IF live # {} THEN live ELSE IF en \ el # {} THEN en \ el ELSE {None}
FreshStacks(live, st) == [u \in Users |-> IF u \in live THEN Start[u] ELSE st[u]]
BookResult(f, en, el, st0, due) ==
  LET st   == [u \in Users |-> IF u \in DOMAIN f THEN f[u] ELSE st0[u]]
      el2  == Out(en, el, st)
      live == Entrants(en, el2, st)
  IN /\ hand' = NoHand /\ eliminated' = el2
     /\ CASE Cardinality(live) > 1 ->
               /\ stacks' = st /\ started' = TRUE
               /\ timers' = NextHandTimer(due)
               /\ UNCHANGED <<settled, winner>>
          [] Cardinality(live) <= 1 /\ ~subTable /\ ~WonByPlay(en, live, st) ->
               /\ stacks' = FreshStacks(live, st) /\ started' = FALSE
               /\ timers' = due
               /\ UNCHANGED <<settled, winner>>
          [] OTHER ->
               /\ stacks' = st /\ started' = TRUE /\ settled' = TRUE
               /\ winner' \in Champion(en, el2, live)
               /\ timers' = due

(***************************************************************************)
(* Where every change of the hand leads: a finished hand is booked at      *)
(* once, and a hand that waits for an empty seat gets a timer for it.      *)
(***************************************************************************)
NobodyAbsent(h) == {}                                  \* mutant of Absent
Absent(h) == {u \in {h.actor} : seat'[u] = "empty"}
Driven(h, due) == [due EXCEPT !.auto = @ \cup Absent(h)]
GoOn(h, el, st, due) ==
  /\ hand' = h /\ eliminated' = el /\ stacks' = st /\ started' = TRUE
  /\ timers' = Driven(h, due)
  /\ UNCHANGED <<settled, winner>>
After(change, el, due) ==
  \/ \E h \in GoesOn(hand, change.out, change.allIn) : GoOn(h, el, stacks, due)
  \/ \E f \in Finals(hand.brought, change.out, change.allIn) :
       BookResult(f, entries, el, stacks, due)
Folds(el, due) == \E change \in AfterFold(hand) : After(change, el, due)
Stays(due) == \E change \in AfterStay(hand) : After(change, eliminated, due)
Checks(due) == After([out |-> hand.out, allIn |-> hand.allIn], eliminated, due)

(* startTournamentHand() and what afterDeal() books of a hand over at once. *)
StartHand(en, el, st, due) ==
  LET live    == Entrants(en, el, st)
      brought == [u \in live |-> st[u]]
  IN \/ \E allIn \in SUBSET live : \E h \in Opened(brought, allIn) : GoOn(h, el, st, due)
     \/ \E f \in Finals(brought, {}, live) : BookResult(f, en, el, st, due)

(* continueTournament(), when its timer fires.                             *)
ContinueTournament ==
  LET due == [timers EXCEPT !.deal = FALSE] IN
  /\ timers.deal
  /\ UNCHANGED seat
  /\ IF ~InHand /\ Cardinality(Live) >= 2
     THEN StartHand(entries, eliminated, stacks, due)
     ELSE timers' = due /\ UNCHANGED <<hand, eliminated, stacks, started, settled, winner>>
  /\ UNCHANGED <<entries, closed, grace, wires>>

(* onAction(): a connected player's own move, from whichever socket.       *)
PlayerActs(u) ==
  /\ InHand /\ hand.actor = u /\ u \in online
  /\ UNCHANGED seat
  /\ Folds(eliminated, timers) \/ Stays(timers)
  /\ UNCHANGED <<entries, closed, grace, wires>>

(* driveRobots()'s timer: fold for the absent player it was armed for, if  *)
(* it is (still, or again) that player's turn.                             *)
AutoFold(u) ==
  LET due == [timers EXCEPT !.auto = @ \ {u}] IN
  /\ u \in timers.auto
  /\ UNCHANGED seat
  /\ IF InHand /\ hand.actor = u
     THEN Folds(eliminated, due)
     ELSE timers' = due /\ UNCHANGED <<hand, eliminated, stacks, started, settled, winner>>
  /\ UNCHANGED <<entries, closed, grace, wires>>

(* armTurnClock()'s timer, at a bracket table: check when free, else fold. *)
TurnClock ==
  /\ subTable /\ InHand
  /\ UNCHANGED seat
  /\ Checks(timers) \/ Folds(eliminated, timers)
  /\ UNCHANGED <<entries, closed, grace, wires>>

-----------------------------------------------------------------------------
(* Leaving *)

(***************************************************************************)
(* leave(): the seat is vacated.  In a running tournament the player is    *)
(* out for good and folded if it is their turn.  Between hands the last    *)
(* one left wins a bracket table, waits for new players in a money room,   *)
(* and a money room nobody is left in is closed.                           *)
(***************************************************************************)
Vacate(u) == seat' = [seat EXCEPT ![u] = "empty"] /\ grace' = grace \ {u}
BetweenHands(el) ==
  LET live == Entrants(entries, el, stacks) IN
  /\ eliminated' = el
  /\ CASE Cardinality(live) = 1 /\ subTable ->
            /\ settled' = TRUE /\ winner' \in live
            /\ UNCHANGED <<stacks, started, closed>>
       [] Cardinality(live) = 1 /\ ~subTable ->
            /\ stacks' = FreshStacks(live, stacks) /\ started' = FALSE
            /\ UNCHANGED <<settled, winner, closed>>
       [] live = {} /\ ~subTable ->
            closed' = TRUE /\ UNCHANGED <<stacks, started, settled, winner>>
       [] OTHER -> UNCHANGED <<stacks, started, settled, winner, closed>>
  /\ UNCHANGED <<hand, timers>>
OnlyVacates(u) == u \notin entries \/ u \in eliminated \/ ~started
Withdraw(u) ==
  /\ Vacate(u)
  /\ IF OnlyVacates(u)
     THEN /\ timers' = IF InHand THEN Driven(hand, timers) ELSE timers
          /\ UNCHANGED <<hand, eliminated, stacks, started, settled, winner, closed>>
     ELSE LET el == eliminated \cup {u} IN
          IF ~InHand THEN BetweenHands(el)
          ELSE /\ UNCHANGED closed
               /\ IF hand.actor = u THEN Folds(el, timers)
                                    ELSE GoOn(hand, el, stacks, timers)
  /\ UNCHANGED <<entries, online, asking, lost, drops, asks>>

(* onLeave(); a disconnected player's grace running out; a bracket player  *)
(* who was absent from the start and is still away.                        *)
Leave(u) ==
  /\ u \in online /\ (seat[u] = "live" \/ u \in Live)
  /\ Withdraw(u) /\ UNCHANGED away
GraceExpires(u) ==
  /\ u \in grace
  /\ Withdraw(u) /\ UNCHANGED away
AwayExpires(u) ==
  /\ u \in away /\ away' = away \ {u}
  /\ IF seat[u] = "live" \/ u \in eliminated
     THEN UNCHANGED <<hand, entries, eliminated, stacks, started, settled, winner, closed,
                      seat, timers, grace, online, asking, lost, drops, asks>>
     ELSE Withdraw(u)

-----------------------------------------------------------------------------
(* Connections *)

(* handleDisconnect(): a running game keeps the seat for the grace period. *)
GraceFor(u) == IF seat[u] = "live" /\ Protected THEN {u} ELSE {}
Disconnect(u) ==
  /\ drops < MaxDrops /\ drops' = drops + 1
  /\ u \in online /\ online' = online \ {u}
  /\ lost' = (IF asking[u] # "no" THEN lost \cup {u} ELSE lost)
  /\ seat' = (IF seat[u] # "live" THEN seat
              ELSE [seat EXCEPT ![u] = IF Protected THEN "dead" ELSE "empty"])
  /\ grace' = grace \cup GraceFor(u)
  /\ UNCHANGED <<hand, entries, eliminated, stacks, started, settled, winner, closed,
                 timers, asking, away, asks>>
Connect(u) ==
  /\ u \notin online /\ online' = online \cup {u}
  /\ UNCHANGED <<hand, entries, eliminated, stacks, started, settled, winner, closed,
                 seat, timers, grace, asking, lost, away, drops, asks>>

(* onRejoin() and, in a bracket, rejoinBracket(), which also seats a live  *)
(* player who never had a seat.                                            *)
Rejoin(u) ==
  /\ u \in online /\ (asking[u] = "no" \/ u \in lost)
  /\ \/ seat[u] = "dead"
     \/ seat[u] = "empty" /\ subTable /\ u \in entries \ eliminated
  /\ seat' = [seat EXCEPT ![u] = "live"] /\ grace' = grace \ {u}
  /\ UNCHANGED <<hand, entries, eliminated, stacks, started, settled, winner, closed,
                 timers, wires>>

-----------------------------------------------------------------------------
(* Joining a money room *)

AskToJoin(u) ==
  /\ ~subTable /\ asks < MaxAsks /\ asks' = asks + 1
  /\ u \in online /\ asking[u] = "no" /\ seat[u] # "live"
  /\ asking' = [asking EXCEPT ![u] = "asked"]
  /\ UNCHANGED <<hand, entries, eliminated, stacks, started, settled, winner, closed,
                 seat, timers, grace, online, lost, away, drops>>

Answered(u) == asking' = [asking EXCEPT ![u] = "no"] /\ lost' = lost \ {u}
Refuse(u) ==
  /\ Answered(u)
  /\ UNCHANGED <<hand, entries, eliminated, stacks, started, settled, winner, closed,
                 seat, timers, grace, online, away, drops, asks>>

(***************************************************************************)
(* The end of onJoin(), with the entry recorded (or reinstated): take or   *)
(* re-bind a seat with the socket that asked, and start the tournament     *)
(* once two entrants are in.  A full table refuses the seat, not the entry.*)
(***************************************************************************)
TakeSeat(u, en, el, st) ==
  /\ Answered(u) /\ entries' = en
  /\ LET refused == \/ seat[u] = "live" /\ u \notin lost
                    \/ seat[u] = "empty" /\ Cardinality(Seated) >= MaxSeats
     IN /\ IF refused
           THEN UNCHANGED <<seat, grace>>
           ELSE /\ seat' = [seat EXCEPT ![u] = IF u \in lost THEN "dead" ELSE "live"]
                /\ grace' = grace \ {u}
        /\ IF ~refused /\ ~started /\ ~InHand /\ Cardinality(Entrants(en, el, st)) >= 2
           THEN StartHand(en, el, st, timers)
           ELSE /\ eliminated' = el /\ stacks' = st
                /\ UNCHANGED <<hand, started, settled, winner, timers>>
  /\ UNCHANGED <<closed, online, away, drops, asks>>

(* enterTournament(), up to the escrow.                                    *)
ComeBackAnyTime(u) == FALSE                            \* mutant of WithdrewFromRunning
WithdrewFromRunning(u) == u \in eliminated /\ started
JoinEnter(u) ==
  /\ asking[u] = "asked"
  /\ \/ /\ u \in entries \ eliminated
        /\ TakeSeat(u, entries, eliminated, stacks)
     \/ /\ u \in entries /\ WithdrewFromRunning(u)
        /\ Refuse(u)
     \/ /\ u \in entries \cap eliminated /\ ~WithdrewFromRunning(u)
        /\ TakeSeat(u, entries, eliminated \ {u}, [stacks EXCEPT ![u] = Start[u]])
     \/ /\ u \notin entries
        /\ asking' = [asking EXCEPT ![u] = "paying"]
        /\ UNCHANGED <<hand, entries, eliminated, stacks, started, settled, winner, closed,
                       seat, timers, grace, online, lost, away, drops, asks>>
(* Asking again from the seat's own socket is an error, but only after     *)
(* enterTournament() has reinstated a player who was out.                  *)
JoinAgain(u) ==
  /\ ~subTable /\ asks < MaxAsks /\ asks' = asks + 1
  /\ u \in online /\ seat[u] = "live" /\ u \in entries \cap eliminated
  /\ ~WithdrewFromRunning(u)
  /\ eliminated' = eliminated \ {u} /\ stacks' = [stacks EXCEPT ![u] = Start[u]]
  /\ UNCHANGED <<hand, entries, started, settled, winner, closed, seat, timers, grace,
                 online, asking, lost, away, drops>>
JoinPaid(u) ==
  /\ asking[u] = "paying"
  /\ TakeSeat(u, entries \cup {u}, eliminated, [stacks EXCEPT ![u] = Start[u]])
JoinUnpaid(u) == asking[u] = "paying" /\ Refuse(u)

-----------------------------------------------------------------------------
(***************************************************************************)
(* A money room starts empty.  A bracket table is opened by the server     *)
(* (openBracketRound) with its players entered, those online seated, and   *)
(* a withdrawal timer for the others, and its first hand is dealt: no      *)
(* starting stack is all-in from the first blinds.                         *)
(***************************************************************************)
Init ==
  /\ subTable \in BOOLEAN
  /\ eliminated = {} /\ started = subTable /\ settled = FALSE
  /\ entries = (IF subTable THEN Users ELSE {})
  /\ stacks = (IF subTable THEN Start ELSE [u \in Users |-> 0])
  /\ winner = None /\ closed = FALSE
  /\ online \in (IF subTable THEN SUBSET Users ELSE {Users})
  /\ seat = [u \in Users |-> IF subTable /\ u \in online THEN "live" ELSE "empty"]
  /\ away = (IF subTable THEN Users \ online ELSE {})
  /\ asking = [u \in Users |-> "no"] /\ lost = {}
  /\ hand \in (IF subTable THEN Opened(Start, {}) ELSE {NoHand})
  /\ timers = [deal |-> FALSE,
               auto |-> IF subTable THEN {hand.actor} \ online ELSE {}]
  /\ grace = {} /\ drops = 0 /\ asks = 0

Moves(u) ==
  \/ PlayerActs(u) \/ AutoFold(u) \/ Leave(u) \/ GraceExpires(u) \/ AwayExpires(u)
  \/ Disconnect(u) \/ Connect(u) \/ Rejoin(u)
  \/ AskToJoin(u) \/ JoinAgain(u) \/ JoinEnter(u) \/ JoinPaid(u) \/ JoinUnpaid(u)
Next ==
  \/ ~Decided /\ UNCHANGED subTable /\ (ContinueTournament \/ TurnClock \/ \E u \in Users : Moves(u))
  \/ Decided /\ UNCHANGED vars
Spec == Init /\ [][Next]_vars

-----------------------------------------------------------------------------
(* Properties *)

(* Every variable stays in its range.                                      *)
TypeOK ==
  /\ entries \subseteq Users /\ eliminated \subseteq entries /\ stacks \in [Users -> Nat]
  /\ started \in BOOLEAN /\ settled \in BOOLEAN /\ closed \in BOOLEAN
  /\ winner \in Users \cup {None}
  /\ seat \in [Users -> {"empty", "live", "dead"}]
  /\ online \subseteq Users /\ lost \subseteq Users /\ away \subseteq Users
  /\ asking \in [Users -> {"no", "asked", "paying"}]
  /\ timers \in [deal : BOOLEAN, auto : SUBSET Users] /\ grace \subseteq Users
  /\ InHand => /\ hand.dealt \subseteq entries /\ hand.actor \in hand.dealt \ hand.out
               /\ \A u \in hand.dealt : hand.brought[u] = stacks[u]

(* A bracket's hand never waits for somebody who cannot be waited for:     *)
(* whoever has the turn is connected at the table, or a timer is running   *)
(* that will fold or withdraw them.                                        *)
ActorIsDriven ==
  InHand /\ subTable =>
    \/ seat[hand.actor] = "live"
    \/ seat[hand.actor] = "empty" /\ hand.actor \in timers.auto
    \/ seat[hand.actor] = "dead" /\ hand.actor \in grace

(* Between the hands of a running tournament the next one is always due,   *)
(* with players to deal it to, whatever leaves, drops and joins did in the *)
(* pause.                                                                  *)
NextHandIsDue ==
  started /\ ~InHand /\ ~Decided => timers.deal /\ Cardinality(Live) >= 2
TableInv == TypeOK /\ NextHandIsDue

(* Who is out of a running tournament, broke or withdrawn, stays out until *)
(* it stops: no reconnection or new join brings them back in.              *)
OutStaysOut == [][started /\ started' => eliminated \subseteq eliminated']_vars

(* A money room is only won by the player everyone else lost their chips   *)
(* to: no prize for outlasting opponents who withdrew.  A bracket table, if*)
(* it is won, is won by the only one still in it.                          *)
PrizeIsWonByPlay ==
  /\ settled /\ ~subTable => winner \in Live /\ \A u \in entries \ {winner} : stacks[u] = 0
  /\ settled /\ winner # None => Live = {winner}

-----------------------------------------------------------------------------
(* What comments of the code say and the code does not do *)

(* table.service.ts:72: "the last player left wins the table even when the *)
(* others withdrew — a bracket must never stall on someone who walked      *)
(* away": a decided bracket table has a winner to send on.                 *)
BracketHasWinner == settled /\ subTable => winner # None
=============================================================================
