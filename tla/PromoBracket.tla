---------------------------- MODULE PromoBracket ----------------------------
(***************************************************************************)
(* One promotion played as a bracket: PromoBracket (promo-bracket.ts) and  *)
(* the part of the gateway that drives it.  Places are held by whoever is  *)
(* connected, the clock or a join starts the bracket, tables play down to  *)
(* one winner, and everybody who goes out is given a place.  Hands are not *)
(* played here: one ends with some of its players broke.  `standing' is    *)
(* PromoBracket.alive; the coordinator's `alive' is who began the round.   *)
(* The prize is PromoEvent's, rehearsals with robots are left out.         *)
(***************************************************************************)
EXTENDS ShootoutCoordinator

CONSTANTS Users,
          MinPlayers, MaxPlayers,
          Shuffles(_)      \* the orders start() may seat the players in
ASSUME BracketAssumption ==
  /\ MinPlayers \in 2..MaxPlayers /\ MaxPlayers \in 2..MAX_PLAYERS
  /\ IsFiniteSet(Users) /\ Nobody \notin Users
  /\ \A us \in SUBSET Users : Shuffles(us) \subseteq Seatings(us) /\ Shuffles(us) # {}

VARIABLES
  entrant,         \* "no", or its connection: "live" or "away"
  asking,          \* joins between their checks and register()
  scheduled,       \* the event is, in the database
  clock,           \* "before", "time" from startsAt, "anyway" after the tolerance
  checks,          \* clock checks still armed; Unarmed before the first join
  starting,        \* promoStarting: "no", "event" or "plans", what it reads
  standing,        \* who is still in
  place,           \* recorded places; 0 is none
  playing,         \* per table of the round, who is not out of it; <<>> in the pause
  dealt,           \* per table, who was dealt the current hand; {} between hands
  due              \* withdrawal timers of players who are away

lobby == <<entrant, asking, scheduled, clock, checks, starting>>
play  == <<standing, place, playing, dealt, due>>
promoVars  == <<lobby, bracket, play>>

Unarmed == {"unarmed"}
Held == {u \in Users : entrant[u] # "no"}
Starters == {u \in Users : u \in standing \/ place[u] # 0}
HasStarted == round > 0
Undecided(t) == t \in DOMAIN playing /\ winners[t] = Nobody

-----------------------------------------------------------------------------
(* Out of the bracket *)

(* knockOut(): those who go out together share the places after the ones   *)
(* still standing: who had more chips before the hand first, equals alike. *)
ByOrderOut(us, chips, left) ==                         \* mutant of PlacesOf
  [u \in us |-> left + Cardinality(us)]
PlacesOf(us, chips, left) ==
  [u \in us |-> left + 1 + Cardinality({v \in us : chips[v] > chips[u]})]
knockOut(us, chips, b) ==
  LET new == PlacesOf(us, chips, Cardinality(b.standing \ us))
  IN [standing |-> b.standing \ us,
      place    |-> [u \in Users |-> IF u \in us THEN new[u] ELSE b.place[u]]]
Withdrawn(u) == knockOut({u}, [v \in {u} |-> 0], [standing |-> standing, place |-> place])

-----------------------------------------------------------------------------
(* Rounds *)

(* openBracketRound(): players who are away are dealt in, with a timer.    *)
OpenRound(players) ==
  /\ playing' = [t \in Tables(players) |-> SeatedAt(players, t)]
  /\ dealt' = playing'
  /\ due' = {u \in {players[i] : i \in DOMAIN players} : entrant[u] = "away"}
NextRound ==
  /\ HasStarted /\ champion = Nobody /\ playing = <<>>
  /\ OpenRound(alive)
  /\ UNCHANGED <<lobby, bracket, standing, place>>

(* A table is down to these players, and the bracket to these standings:   *)
(* it plays on, or sends its winner on, or, when everybody left during one *)
(* hand, has nobody to send.  The last table of a round ends it; the last  *)
(* one of all crowns the champion.  tableWon() finds nobody else there to  *)
(* knock out.                                                              *)
TableLeft(t, left, b) ==
  /\ standing' = b.standing
  /\ IF Cardinality(left) = 1
     THEN \E w \in left :
       /\ reportTableWinner(t, w)
       /\ place' = IF champion' # Nobody THEN [b.place EXCEPT ![w] = 1] ELSE b.place
     ELSE place' = b.place /\ UNCHANGED bracket
  /\ IF champion' # Nobody \/ round' # round
     THEN playing' = <<>> /\ dealt' = <<>> /\ due' = {}
     ELSE /\ playing' = [playing EXCEPT ![t] = left] /\ dealt' = [dealt EXCEPT ![t] = {}]
          /\ due' = due \ (playing[t] \ {u \in left : Cardinality(left) > 1})

(* afterBracketHand(): of those still in, some went broke; all of them only*)
(* to somebody who withdrew during the hand.                               *)
HandOver(t, in, b) ==
  \E busted \in SUBSET in : \E chips \in [busted -> 1..2] :
    /\ busted = in => in # dealt[t]
    /\ TableLeft(t, in \ busted, knockOut(busted, chips, b))
HandEnds(t) ==
  /\ Undecided(t) /\ dealt[t] # {}
  /\ HandOver(t, playing[t], [standing |-> standing, place |-> place])
  /\ UNCHANGED lobby
ContinueTournament(t) ==
  /\ Undecided(t) /\ dealt[t] = {} /\ Cardinality(playing[t]) >= 2
  /\ dealt' = [dealt EXCEPT ![t] = playing[t]]
  /\ UNCHANGED <<lobby, bracket, standing, place, playing, due>>

-----------------------------------------------------------------------------
(* Leaving a running bracket *)

NobodyWins(t, left, b) ==                              \* mutant of LastOneWins
  /\ standing' = b.standing /\ place' = b.place
  /\ playing' = [playing EXCEPT ![t] = left]
  /\ UNCHANGED <<dealt, due, bracket>>
LastOneWins(t, left, b) == TableLeft(t, left, b)
(* settleLeave(): the hand goes on without the leaver, or was waiting for  *)
(* them alone; between hands the last one left wins the table.             *)
Withdraw(t, u) ==
  LET left == playing[t] \ {u} IN
  \/ /\ dealt[t] # {}
     /\ standing' = Withdrawn(u).standing /\ place' = Withdrawn(u).place
     /\ playing' = [playing EXCEPT ![t] = left] /\ due' = due \ {u}
     /\ UNCHANGED <<dealt, bracket>>
  \/ dealt[t] # {} /\ HandOver(t, left, Withdrawn(u))
  \/ dealt[t] = {} /\ LastOneWins(t, left, Withdrawn(u))

(* onLeave(): whoever waits for the others, or for the next round, is sent *)
(* to a table that is settled or not yet open, and stays in.               *)
Leave(u) ==
  \/ /\ ~HasStarted /\ entrant[u] # "no"
     /\ entrant' = [entrant EXCEPT ![u] = "no"]
     /\ UNCHANGED <<asking, scheduled, clock, checks, starting, bracket, play>>
  \/ /\ \E t \in DOMAIN playing : Undecided(t) /\ u \in playing[t] /\ Withdraw(t, u)
     /\ UNCHANGED lobby
AwayTooLong(u) == u \in due /\ Leave(u)

-----------------------------------------------------------------------------
(* Connections *)

dropSocket(u) ==
  /\ entrant[u] = "live"
  /\ entrant' = [entrant EXCEPT ![u] = IF HasStarted THEN "away" ELSE "no"]
  /\ due' = due \cup {v \in {u} : \E t \in DOMAIN playing : Undecided(t) /\ v \in playing[t]}
  /\ UNCHANGED <<asking, scheduled, clock, checks, starting, bracket, standing, place,
                 playing, dealt>>
rejoinBracket(u) ==
  /\ HasStarted /\ champion = Nobody /\ u \in standing /\ entrant[u] = "away"
  /\ entrant' = [entrant EXCEPT ![u] = "live"] /\ due' = due \ {u}
  /\ UNCHANGED <<asking, scheduled, clock, checks, starting, bracket, standing, place,
                 playing, dealt>>

-----------------------------------------------------------------------------
(* Gathering and starting *)

Ready(held) ==
  /\ ~HasStarted /\ clock # "before" /\ Cardinality(held) >= 2
  /\ Cardinality(held) >= MinPlayers \/ clock = "anyway"
(* startPromoIfReady(), up to its first await.                             *)
StartIfReady(held) ==
  starting' = IF Ready(held) /\ starting = "no" THEN "event" ELSE starting

joinPromo(u) ==
  /\ ~HasStarted /\ scheduled /\ u \notin asking /\ entrant[u] = "no"
  /\ asking' = asking \cup {u}
  /\ UNCHANGED <<entrant, scheduled, clock, checks, starting, bracket, play>>
(* The checks of the clock are armed once, by the first who gets a place.  *)
OnlyTheStart == {"time"}                               \* mutant of StartChecks
StartChecks ==
  {at \in {"time", "anyway"} : clock = "before" \/ (clock = "time" /\ at = "anyway")}
register(u) ==
  /\ u \in asking /\ asking' = asking \ {u}
  /\ IF HasStarted \/ Cardinality(Held) >= MaxPlayers
     THEN UNCHANGED <<entrant, checks, starting>>
     ELSE /\ entrant' = [entrant EXCEPT ![u] = "live"]
          /\ checks' = IF checks = Unarmed THEN StartChecks ELSE checks
          /\ StartIfReady(Held \cup {u})
  /\ UNCHANGED <<scheduled, clock, bracket, play>>

Tick ==
  /\ clock # "anyway" /\ clock' = IF clock = "before" THEN "time" ELSE "anyway"
  /\ UNCHANGED <<entrant, asking, scheduled, checks, starting, bracket, play>>
ClockCheck(at) ==
  /\ at \in checks /\ clock \in {at, "anyway"}
  /\ checks' = checks \ {at} /\ StartIfReady(Held)
  /\ UNCHANGED <<entrant, asking, scheduled, clock, bracket, play>>

(* The rest of it: the event is read, then each plan, then it looks again  *)
(* whether it may start.                                                   *)
ReadEvent ==
  /\ starting = "event" /\ starting' = IF scheduled THEN "plans" ELSE "no"
  /\ UNCHANGED <<entrant, asking, scheduled, clock, checks, bracket, play>>
StartOrNot ==
  /\ starting = "plans" /\ starting' = "no"
  /\ IF Ready(Held)
     THEN /\ checks' = {}
          /\ \E s \in Shuffles(Held) : OpenBracket(s) /\ OpenRound(s)
          /\ standing' = Held
     ELSE UNCHANGED <<checks, bracket, standing, playing, dealt, due>>
  /\ UNCHANGED <<entrant, asking, scheduled, clock, place>>
Cancelled ==
  /\ scheduled /\ scheduled' = FALSE
  /\ UNCHANGED <<entrant, asking, clock, checks, starting, bracket, play>>

-----------------------------------------------------------------------------
PromoInit ==
  /\ BracketInit
  /\ entrant = [u \in Users |-> "no"] /\ asking = {} /\ scheduled = TRUE
  /\ clock = "before" /\ checks = Unarmed /\ starting = "no"
  /\ standing = {} /\ place = [u \in Users |-> 0]
  /\ playing = <<>> /\ dealt = <<>> /\ due = {}

Moves(u) ==
  joinPromo(u) \/ register(u) \/ Leave(u) \/ AwayTooLong(u) \/ dropSocket(u) \/ rejoinBracket(u)
PromoNext ==
  \/ \E u \in Users : Moves(u)
  \/ Tick \/ (\E at \in checks : ClockCheck(at)) \/ ReadEvent \/ StartOrNot \/ Cancelled
  \/ NextRound \/ \E t \in DOMAIN playing : HandEnds(t) \/ ContinueTournament(t)
PromoSpec == PromoInit /\ [][PromoNext]_promoVars

(* The event loop answers and fires its timers.  Assumed of the play: a    *)
(* table that keeps dealing knocks somebody out in the end.                *)
SomebodyOut == \E t \in DOMAIN playing : HandEnds(t) /\ standing' # standing
FairPromoSpec ==
  /\ PromoSpec
  /\ WF_promoVars(NextRound) /\ SF_promoVars(SomebodyOut)
  /\ WF_promoVars(\E t \in DOMAIN playing : ContinueTournament(t))
  /\ WF_promoVars(ReadEvent) /\ WF_promoVars(StartOrNot)
  /\ \A at \in {"time", "anyway"} : WF_promoVars(ClockCheck(at))
  /\ \A u \in Users : WF_promoVars(register(u))

-----------------------------------------------------------------------------
(* Properties *)

PromoTypeOK ==
  /\ entrant \in [Users -> {"no", "live", "away"}] /\ asking \subseteq Users
  /\ clock \in {"before", "time", "anyway"} /\ starting \in {"no", "event", "plans"}
  /\ standing \subseteq Held /\ place \in [Users -> 0..Cardinality(Users)]
  /\ DOMAIN playing = DOMAIN dealt
  /\ due \subseteq {u \in standing : entrant[u] = "away"}

(* promo-bracket.ts, knockOut(): the classification is a ranking whatever  *)
(* order tables end and players withdraw in: everybody out has as many     *)
(* better places, given or still open, ahead of them as their place says;  *)
(* the champion completes it.  And the bracket and its tables agree on who *)
(* is in: it is who plays on, and who won a table and waits.               *)
StillIn ==
  IF playing = <<>> THEN {alive[i] : i \in DOMAIN alive}
  ELSE UNION {playing[t] : t \in DOMAIN playing}
RankingIsComplete ==
  /\ PromoTypeOK
  /\ champion = Nobody => standing = StillIn
  /\ champion # Nobody => place[champion] = 1
  /\ \A u \in Starters : place[u] # 0 =>
       place[u] = 1 + Cardinality({v \in Starters : place[v] < place[u]})

(* A bracket that started has a champion in the end, wherever its players  *)
(* went; unless everybody at a table left during one hand.                 *)
Deserted == \E t \in DOMAIN playing : playing[t] = {}
BracketEnds == HasStarted ~> (champion # Nobody \/ Deserted)

(* Whoever gathers once the tolerance has passed is not kept waiting, by a *)
(* check that ran too early or found another one under way.                *)
StartsAnyway ==
  (clock = "anyway" /\ Cardinality(Held) >= 2) ~> (HasStarted \/ Cardinality(Held) < 2 \/ ~scheduled)
=============================================================================
