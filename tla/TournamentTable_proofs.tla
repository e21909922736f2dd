----------------------- MODULE TournamentTable_proofs -----------------------
(***************************************************************************)
(* For any number of players and any stacks, seats, drops and joins: a     *)
(* running tournament always has its next hand due, waits for nobody who   *)
(* cannot be waited for, takes nobody back and is won by play.             *)
(***************************************************************************)
EXTENDS TournamentTable, MoneyTheorems, TLAPS

(* The chips of a hand, as a sum.                                          *)
LEMMA ChipsUnfold ==
  ASSUME NEW c
  PROVE  Chips(c) = SumFunctionOnSet([p \in DOMAIN c |-> c[p]], DOMAIN c)
  BY DEF Chips, MapThenSumSet, SumFunctionOnSet, FoldFunctionOnSet, MapThenFoldSet

(* The hand in progress: its players are entered, with the stacks they     *)
(* brought to it, and it is the turn of one who has not folded.            *)
HandSound ==
  /\ hand.over \in BOOLEAN
  /\ InHand =>
       /\ started
       /\ hand.dealt \subseteq entries /\ hand.actor \in hand.dealt \ hand.out
       /\ hand.brought \in [hand.dealt -> Nat]
       /\ \A u \in hand.dealt : hand.brought[u] = stacks[u]
Game ==
  /\ entries \subseteq Users /\ eliminated \subseteq entries /\ stacks \in [Users -> Nat]
  /\ started \in BOOLEAN /\ settled \in BOOLEAN /\ closed \in BOOLEAN /\ subTable \in BOOLEAN
  /\ winner \in Users \cup {None}
  /\ timers \in [deal : BOOLEAN, auto : SUBSET Users]
  /\ HandSound /\ NextHandIsDue /\ PrizeIsWonByPlay

(* Connections: who is paying is not entered yet, and at a bracket table   *)
(* nobody joins and a seat without its socket has a grace timer.           *)
Presence ==
  /\ seat \in [Users -> {"empty", "live", "dead"}]
  /\ online \subseteq Users /\ lost \subseteq Users /\ away \subseteq Users
  /\ asking \in [Users -> {"no", "asked", "paying"}] /\ grace \subseteq Users
  /\ \A u \in entries : asking[u] # "paying"
  /\ subTable => \A u \in Users : asking[u] = "no" /\ (seat[u] = "dead" => u \in grace)

IInv == Game /\ Presence /\ ActorIsDriven

USE TableAssumption, NoneAssumption

-----------------------------------------------------------------------------
(* Hands *)

(* A hand leaves every player of it a stack, and chips to one of them.     *)
LEMMA FinalsAreStacks ==
  ASSUME NEW D, IsFiniteSet(D), NEW brought \in [D -> Nat], NEW out, NEW allIn,
         NEW f \in Finals(brought, out, allIn)
  PROVE  f \in [D -> Nat] /\ \E p \in D : f[p] > 0
<1>1. Chips(brought) \in Nat
  <2> DEFINE c == [p \in DOMAIN brought |-> brought[p]]
  <2>1. DOMAIN brought = D /\ \A p \in D : c[p] \in Nat OBVIOUS
  <2>2. Chips(brought) = SumFunctionOnSet(c, DOMAIN brought) BY ChipsUnfold
  <2> HIDE DEF c
  <2> QED BY <2>1, <2>2, SumNat
<1>2. f \in [D -> 0..Chips(brought)] /\ \E p \in D \ out : f[p] > 0
  BY DEF Finals
<1>3. \A p \in D : f[p] \in Nat BY <1>1, <1>2
<1> QED BY <1>2, <1>3

(* What a step that moves the game on leads to, if it puts those of el out.*)
Advanced(el) ==
  /\ Game' /\ el \subseteq eliminated'
  /\ InHand' /\ seat'[hand'.actor] = "empty" => hand'.actor \in timers'.auto

(* The tournament goes on with the entrants en, el of them out, and the    *)
(* stacks st; nothing is decided yet.                                      *)
Playable(en, el, st, due) ==
  /\ en \subseteq Users /\ el \subseteq en /\ st \in [Users -> Nat]
  /\ due \in [deal : BOOLEAN, auto : SUBSET Users]
  /\ entries' = en /\ subTable' = subTable /\ closed' = closed
  /\ subTable \in BOOLEAN /\ closed = FALSE /\ settled = FALSE /\ winner \in Users \cup {None}

LEMMA GoOnAdvances ==
  ASSUME NEW en, NEW el, NEW st, NEW due, Playable(en, el, st, due),
         NEW D \in SUBSET en, NEW brought \in [D -> Nat], \A u \in D : brought[u] = st[u],
         NEW out, NEW allIn, NEW actors \in SUBSET (D \ out),
         NEW h \in Ongoing(brought, out, allIn, actors), GoOn(h, el, st, due)
  PROVE  Advanced(el)
<1>1. /\ h.over = FALSE /\ h.dealt = D /\ h.brought = brought /\ h.out = out
      /\ h.actor \in D \ out
  BY DEF Ongoing
<1>2. /\ hand' = h /\ eliminated' = el /\ stacks' = st /\ started' = TRUE
      /\ settled' = settled /\ winner' = winner /\ timers' = Driven(h, due)
  BY DEF GoOn
<1>3. timers' \in [deal : BOOLEAN, auto : SUBSET Users]
      /\ (seat'[h.actor] = "empty" => h.actor \in timers'.auto)
  BY <1>1, <1>2 DEF Driven, Absent, Playable
<1>4. HandSound' BY <1>1, <1>2 DEF HandSound, Playable
<1>5. NextHandIsDue' /\ PrizeIsWonByPlay'
  BY <1>1, <1>2 DEF NextHandIsDue, InHand, PrizeIsWonByPlay, Playable
<1> QED BY <1>1, <1>2, <1>3, <1>4, <1>5 DEF Advanced, Game, Playable

LEMMA BookingAdvances ==
  ASSUME NEW en, NEW el, NEW st0, NEW due, Playable(en, el, st0, due),
         NEW D \in SUBSET en, NEW f \in [D -> Nat], \E p \in D : f[p] > 0,
         BookResult(f, en, el, st0, due)
  PROVE  Advanced(el)
<1> DEFINE st   == [u \in Users |-> IF u \in DOMAIN f THEN f[u] ELSE st0[u]]
           el2  == Out(en, el, st)
           live == Entrants(en, el2, st)
<1>1. st \in [Users -> Nat] /\ el \subseteq el2 /\ el2 \subseteq en /\ en \subseteq Users
  BY DEF Playable, Out
<1>2. IsFiniteSet(live) /\ live \subseteq en
  <2>1. live \subseteq en BY DEF Entrants
  <2> QED BY <1>1, <2>1, FS_Subset
<1>3. en \ el2 = live
  BY <1>1 DEF Entrants, Out
<1>4. \E p \in en : st[p] > 0
  BY <1>1
<1>5. hand' = NoHand /\ eliminated' = el2 /\ entries' = en
  BY DEF BookResult, Playable
<1>6. HandSound' BY <1>5 DEF HandSound, InHand, NoHand
<1>7. CASE Cardinality(live) > 1
  <2>1. stacks' = st /\ started' = TRUE /\ timers' = NextHandTimer(due)
        /\ settled' = settled /\ winner' = winner
    <3>1. Cardinality(live) \in Nat BY <1>2, FS_CardinalityType
    <3>2. ~(Cardinality(live) <= 1) BY <1>7, <3>1
    <3> QED BY <1>7, <3>2 DEF BookResult
  <2>2. timers' \in [deal : BOOLEAN, auto : SUBSET Users] /\ timers'.deal
    BY <2>1 DEF NextHandTimer, Playable
  <2>3. Live' = live BY <1>5, <2>1 DEF Live
  <2>4. NextHandIsDue'
    <3>1. Cardinality(live) \in Nat BY <1>2, FS_CardinalityType
    <3> QED BY <1>7, <2>2, <2>3, <3>1 DEF NextHandIsDue
  <2>5. PrizeIsWonByPlay' BY <2>1 DEF PrizeIsWonByPlay, Playable
  <2> HIDE DEF st, el2, live
  <2> QED BY <1>1, <1>5, <1>6, <2>1, <2>2, <2>4, <2>5 DEF Advanced, Game, Playable, InHand, NoHand
<1>8. CASE ~(Cardinality(live) > 1) /\ ~subTable /\ ~WonByPlay(en, live, st)
  <2>0. Cardinality(live) <= 1
    <3>1. Cardinality(live) \in Nat BY <1>2, FS_CardinalityType
    <3> QED BY <1>8, <3>1
  <2>1. stacks' = FreshStacks(live, st) /\ started' = FALSE /\ timers' = due
        /\ settled' = settled /\ winner' = winner
    BY <1>8, <2>0 DEF BookResult
  <2>2. stacks' \in [Users -> Nat] BY <1>1, <2>1 DEF FreshStacks
  <2>3. NextHandIsDue' /\ PrizeIsWonByPlay' BY <2>1 DEF NextHandIsDue, InHand, PrizeIsWonByPlay, Playable
  <2> HIDE DEF st, el2, live
  <2> QED BY <1>1, <1>5, <1>6, <2>1, <2>2, <2>3 DEF Advanced, Game, Playable, InHand, NoHand
<1>9. CASE ~(Cardinality(live) > 1) /\ (subTable \/ WonByPlay(en, live, st))
  <2>1. stacks' = st /\ started' = TRUE /\ settled' = TRUE /\ timers' = due
        /\ winner' \in Champion(en, el2, live)
    BY <1>9 DEF BookResult
  <2>2. Live' = live BY <1>5, <2>1 DEF Live
  <2>3. live = {} \/ \E w \in en : live = {w}
    <3>1. Cardinality(live) \in Nat BY <1>2, FS_CardinalityType
    <3>2. Cardinality(live) = 0 \/ Cardinality(live) = 1 BY <1>9, <3>1
    <3>3. \E w : live = {w} \/ live = {} BY <1>2, <3>2, FS_EmptySet, FS_Singleton
    <3> QED BY <1>2, <3>3
  <2>4. live = {} => winner' = None BY <1>3, <2>1 DEF Champion
  <2>5. live # {} => winner' \in live BY <2>1 DEF Champion
  <2>6. ~subTable => live # {} /\ \A u \in en : u \in live \/ st[u] = 0
    <3> SUFFICES ASSUME ~subTable PROVE live # {} /\ \A u \in en : u \in live \/ st[u] = 0
      OBVIOUS
    <3>1. \A u \in en : u \in live \/ st[u] <= 0 BY <1>9 DEF WonByPlay
    <3>2. \A u \in en : st[u] \in Nat BY <1>1
    <3> HIDE DEF st, live
    <3> QED BY <1>4, <3>1, <3>2
  <2> HIDE DEF st, el2, live
  <2>7. PrizeIsWonByPlay'
    BY <1>5, <2>1, <2>2, <2>3, <2>4, <2>5, <2>6 DEF PrizeIsWonByPlay, Playable
  <2>8. NextHandIsDue' BY <2>1 DEF NextHandIsDue, InHand, Decided
  <2>9. winner' \in Users \cup {None} BY <1>1, <1>2, <2>4, <2>5
  <2> QED BY <1>1, <1>5, <1>6, <2>1, <2>7, <2>8, <2>9 DEF Advanced, Game, Playable, InHand, NoHand
<1> QED BY <1>7, <1>8, <1>9

(* Where a change of the hand leads, whatever the hand becomes.            *)
LEMMA AfterAdvances ==
  ASSUME Game, InHand, ~Decided, NEW change, NEW el, NEW due, After(change, el, due),
         el \subseteq entries, hand.out \subseteq change.out,
         due \in [deal : BOOLEAN, auto : SUBSET Users],
         entries' = entries, subTable' = subTable, closed' = closed
  PROVE  Advanced(el)
<1> DEFINE D == hand.dealt
<1>1. /\ D \in SUBSET entries /\ hand.brought \in [D -> Nat]
      /\ \A u \in D : hand.brought[u] = stacks[u]
  BY DEF Game, HandSound
<1>2. Playable(entries, el, stacks, due) BY DEF Playable, Game, Decided
<1>3. ASSUME NEW h \in GoesOn(hand, change.out, change.allIn), GoOn(h, el, stacks, due)
      PROVE  Advanced(el)
  <2> DEFINE actors == D \ (change.out \cup change.allIn)
  <2>1. actors \in SUBSET (D \ change.out) OBVIOUS
  <2>2. h \in Ongoing(hand.brought, change.out, change.allIn, actors) BY <1>3 DEF GoesOn
  <2> HIDE DEF actors, D
  <2> QED BY <1>1, <1>2, <1>3, <2>1, <2>2, GoOnAdvances
<1>4. ASSUME NEW f \in Finals(hand.brought, change.out, change.allIn),
             BookResult(f, entries, el, stacks, due)
      PROVE  Advanced(el)
  <2>1. IsFiniteSet(D)
    <3>1. D \in SUBSET Users BY <1>1 DEF Game
    <3> QED BY <3>1, FS_Subset
  <2> HIDE DEF D
  <2>2. f \in [D -> Nat] /\ \E p \in D : f[p] > 0 BY <1>1, <1>4, <2>1, FinalsAreStacks
  <2> QED BY <1>1, <1>2, <1>4, <2>2, BookingAdvances
<1> QED BY <1>3, <1>4 DEF After

(* The actor folds, stays or checks: a step in a hand that goes on.        *)
LEMMA ActionAdvances ==
  ASSUME Game, InHand, ~Decided, NEW el, el \subseteq entries, NEW due,
         due \in [deal : BOOLEAN, auto : SUBSET Users],
         entries' = entries, subTable' = subTable, closed' = closed,
         Folds(el, due) \/ (el = eliminated /\ (Stays(due) \/ Checks(due)))
  PROVE  Advanced(el)
<1>1. CASE Folds(el, due) BY <1>1, AfterAdvances DEF Folds, AfterFold
<1>2. CASE el = eliminated /\ Stays(due) BY <1>2, AfterAdvances DEF Stays, AfterStay
<1>3. CASE el = eliminated /\ Checks(due) BY <1>3, AfterAdvances DEF Checks
<1> QED BY <1>1, <1>2, <1>3

LEMMA StartAdvances ==
  ASSUME NEW en, NEW el, NEW st, NEW due, Playable(en, el, st, due), StartHand(en, el, st, due)
  PROVE  Advanced(el)
<1> DEFINE live    == Entrants(en, el, st)
           brought == [u \in live |-> st[u]]
<1>1. live \in SUBSET en /\ brought \in [live -> Nat] /\ \A u \in live : brought[u] = st[u]
  BY DEF Entrants, Playable
<1>2. IsFiniteSet(live)
  <2>1. live \in SUBSET Users BY <1>1 DEF Playable
  <2> HIDE DEF live
  <2> QED BY <2>1, FS_Subset
<1>3. ASSUME NEW allIn \in SUBSET live, NEW h \in Opened(brought, allIn), GoOn(h, el, st, due)
      PROVE  Advanced(el)
  <2> DEFINE actors == IF Cardinality(DOMAIN brought) = 2 THEN DOMAIN brought
                       ELSE DOMAIN brought \ allIn
  <2>1. actors \in SUBSET (live \ {}) OBVIOUS
  <2>2. h \in Ongoing(brought, {}, allIn, actors) BY <1>3 DEF Opened
  <2> HIDE DEF actors, live, brought
  <2> QED BY <1>1, <1>3, <2>1, <2>2, GoOnAdvances
<1>4. ASSUME NEW f \in Finals(brought, {}, live), BookResult(f, en, el, st, due)
      PROVE  Advanced(el)
  <2> HIDE DEF live, brought
  <2>1. f \in [live -> Nat] /\ \E p \in live : f[p] > 0 BY <1>1, <1>2, <1>4, FinalsAreStacks
  <2> QED BY <1>1, <1>4, <2>1, BookingAdvances
<1> QED BY <1>3, <1>4 DEF StartHand

-----------------------------------------------------------------------------
(* Steps *)

Timers == [deal : BOOLEAN, auto : SUBSET Users]
NobodyReturns == started /\ started' => eliminated \subseteq eliminated'
Safe == IInv' /\ NobodyReturns

LEMMA FinitelyManyLive ==
  ASSUME Game
  PROVE  /\ Live \subseteq Users /\ IsFiniteSet(Live) /\ Cardinality(Live) \in Nat
         /\ \A S \in SUBSET Users : IsFiniteSet(S) /\ Cardinality(S) \in Nat
<1>1. Live \subseteq Users BY DEF Game, Live, Entrants
<1>2. \A S \in SUBSET Users : IsFiniteSet(S) /\ Cardinality(S) \in Nat
  BY FS_Subset, FS_CardinalityType
<1> QED BY <1>1, <1>2

(* A step that leaves the tournament alone, its fold timers excepted.      *)
LEMMA GameStays ==
  ASSUME Game, timers' \in Timers, timers'.deal = timers.deal,
         UNCHANGED <<subTable, hand, entries, eliminated, stacks, started, settled, winner, closed>>
  PROVE  Game' /\ NobodyReturns
<1>1. HandSound' BY DEF Game, HandSound, InHand
<1>2. NextHandIsDue' BY DEF Game, NextHandIsDue, InHand, Decided, Live, Entrants
<1>3. PrizeIsWonByPlay' BY DEF Game, PrizeIsWonByPlay, Live, Entrants
<1> QED BY <1>1, <1>2, <1>3 DEF Game, Timers, NobodyReturns

(* A step that moves the game on leaves nobody waited for in vain.         *)
LEMMA AdvancedIsSafe ==
  ASSUME NEW el, Advanced(el), Presence', started => eliminated \subseteq el
  PROVE  Safe
<1>1. InHand' => hand'.actor \in Users BY DEF Advanced, Game, HandSound
<1>2. ActorIsDriven' BY <1>1 DEF Advanced, ActorIsDriven, Presence
<1> QED BY <1>2 DEF Safe, IInv, Advanced, NobodyReturns

(* The deal timer deals the next hand, or finds one in progress.           *)
LEMMA ContinueIsSafe ==
  ASSUME IInv, ~Decided, UNCHANGED subTable, ContinueTournament
  PROVE  Safe
<1> DEFINE due == [timers EXCEPT !.deal = FALSE]
<1>1. due \in Timers /\ due.deal = FALSE /\ due.auto = timers.auto
  BY DEF IInv, Game, Timers
<1>2. /\ UNCHANGED <<seat, entries, closed, grace, wires>>
      /\ UNCHANGED <<online, asking, lost, away>>
  BY DEF ContinueTournament, wires
<1>3. Presence' BY <1>2 DEF IInv, Presence
<1>4. CASE ~InHand /\ Cardinality(Live) >= 2
  <2>1. StartHand(entries, eliminated, stacks, due) BY <1>4 DEF ContinueTournament
  <2>2. Playable(entries, eliminated, stacks, due)
    BY <1>1, <1>2 DEF Playable, Timers, IInv, Game, Decided
  <2> HIDE DEF due
  <2>3. Advanced(eliminated) BY <2>1, <2>2, StartAdvances
  <2> QED BY <1>3, <2>3, AdvancedIsSafe
<1>5. CASE ~(~InHand /\ Cardinality(Live) >= 2)
  <2>1. timers' = due /\ UNCHANGED <<hand, eliminated, stacks, started, settled, winner>>
    BY <1>5 DEF ContinueTournament
  <2>2. HandSound' BY <1>2, <2>1 DEF IInv, Game, HandSound, InHand
  <2>3. NextHandIsDue'
    <3>1. InHand \/ ~started BY <1>5 DEF IInv, Game, NextHandIsDue
    <3> QED BY <2>1, <3>1 DEF NextHandIsDue, InHand
  <2>4. PrizeIsWonByPlay' BY <1>2, <2>1 DEF IInv, Game, PrizeIsWonByPlay, Live, Entrants
  <2>5. Game' BY <1>1, <1>2, <2>1, <2>2, <2>3, <2>4 DEF IInv, Game, Timers
  <2>6. ActorIsDriven' BY <1>1, <1>2, <2>1 DEF IInv, ActorIsDriven, InHand
  <2> QED BY <1>3, <2>1, <2>5, <2>6 DEF Safe, IInv, NobodyReturns
<1> QED BY <1>4, <1>5

(* The player's own move, the fold for an absent one and the turn clock.   *)
LEMMA MoveIsSafe ==
  ASSUME IInv, ~Decided, UNCHANGED subTable,
         TurnClock \/ \E u \in Users : PlayerActs(u) \/ AutoFold(u)
  PROVE  Safe
<1>1. /\ UNCHANGED <<seat, entries, closed, grace>>
      /\ UNCHANGED <<online, asking, lost, away>>
  BY DEF TurnClock, PlayerActs, AutoFold, wires
<1>2. Presence' BY <1>1 DEF IInv, Presence
<1>3. ASSUME InHand, NEW due \in Timers,
             Folds(eliminated, due) \/ Stays(due) \/ Checks(due)
      PROVE  Safe
  <2>1. Game /\ eliminated \subseteq entries BY DEF IInv, Game
  <2>2. Advanced(eliminated) BY <1>1, <1>3, <2>1, ActionAdvances DEF Timers
  <2> QED BY <1>2, <2>2, AdvancedIsSafe
<1>4. timers \in Timers BY DEF IInv, Game, Timers
<1>5. CASE TurnClock BY <1>3, <1>4, <1>5 DEF TurnClock
<1>6. ASSUME NEW u \in Users, PlayerActs(u) PROVE Safe
  BY <1>3, <1>4, <1>6 DEF PlayerActs
<1>7. ASSUME NEW u \in Users, AutoFold(u) PROVE Safe
  <2> DEFINE due == [timers EXCEPT !.auto = @ \ {u}]
  <2>1. due \in Timers /\ due.deal = timers.deal /\ due.auto = timers.auto \ {u}
    BY <1>4 DEF Timers
  <2>2. CASE InHand /\ hand.actor = u
    <3>1. Folds(eliminated, due) BY <1>7, <2>2 DEF AutoFold
    <3> HIDE DEF due
    <3> QED BY <1>3, <2>1, <2>2, <3>1
  <2>3. CASE ~(InHand /\ hand.actor = u)
    <3>1. timers' = due /\ UNCHANGED <<hand, eliminated, stacks, started, settled, winner>>
      BY <1>7, <2>3 DEF AutoFold
    <3> HIDE DEF due
    <3>2. Game' /\ NobodyReturns BY <1>1, <2>1, <3>1, GameStays DEF IInv
    <3>3. ActorIsDriven'
      BY <1>1, <2>1, <2>3, <3>1 DEF IInv, ActorIsDriven, InHand
    <3> QED BY <1>2, <3>2, <3>3 DEF Safe, IInv
  <2> QED BY <2>2, <2>3
<1> QED BY <1>5, <1>6, <1>7

(* Who leaves between two hands leaves a next hand, a winner or a room     *)
(* that waits for players again.                                           *)
LEMMA BetweenHandsIsSound ==
  ASSUME Game, ~Decided, ~InHand, started, NEW u \in entries,
         BetweenHands(eliminated \cup {u}), UNCHANGED <<subTable, entries>>
  PROVE  Game' /\ NobodyReturns
<1> DEFINE el   == eliminated \cup {u}
           live == Entrants(entries, el, stacks)
<1>1. live = Live \ {u} BY DEF Live, Entrants
<1>2. timers.deal /\ Cardinality(Live) >= 2 BY DEF Game, NextHandIsDue
<1>3. live \subseteq Users /\ IsFiniteSet(live) /\ Cardinality(live) \in Nat
  BY <1>1, FinitelyManyLive
<1>4. Cardinality(live) >= 1
  <2>1. Cardinality(Live) \in Nat /\ IsFiniteSet(Live) BY FinitelyManyLive
  <2>2. Cardinality(live) = IF u \in Live THEN Cardinality(Live) - 1 ELSE Cardinality(Live)
    BY <1>1, <2>1, FS_RemoveElement
  <2> HIDE DEF live
  <2> QED BY <1>2, <2>1, <2>2
<1>5. live # {} BY <1>4, FS_EmptySet
<1>6. hand' = hand /\ timers' = timers /\ eliminated' = el BY DEF BetweenHands
<1>7. Live' = Entrants(entries, el, stacks') BY <1>6 DEF Live
<1>8. settled = FALSE /\ closed = FALSE BY DEF Game, Decided
<1>9. HandSound' BY <1>6 DEF Game, HandSound, InHand
<1>10. CASE Cardinality(live) = 1 /\ subTable
  <2>1. settled' = TRUE /\ winner' \in live /\ UNCHANGED <<stacks, started, closed>>
    BY <1>10 DEF BetweenHands
  <2>2. Live' = live BY <1>7, <2>1
  <2>3. live = {winner'}
    <3>1. PICK w : live = {w} BY <1>3, <1>10, FS_Singleton
    <3> QED BY <2>1, <3>1
  <2>4. NextHandIsDue' BY <2>1 DEF NextHandIsDue, Decided
  <2>5. PrizeIsWonByPlay' BY <1>10, <2>2, <2>3 DEF PrizeIsWonByPlay
  <2> HIDE DEF live
  <2> QED BY <1>3, <1>6, <1>9, <2>1, <2>4, <2>5 DEF Game, NobodyReturns
<1>11. CASE Cardinality(live) = 1 /\ ~subTable
  <2>1. /\ stacks' = FreshStacks(live, stacks) /\ started' = FALSE
        /\ UNCHANGED <<settled, winner, closed>>
    BY <1>5, <1>11 DEF BetweenHands
  <2>2. stacks' \in [Users -> Nat] BY <2>1 DEF FreshStacks, Game
  <2>3. NextHandIsDue' /\ PrizeIsWonByPlay'
    BY <1>8, <2>1 DEF NextHandIsDue, PrizeIsWonByPlay
  <2> HIDE DEF live
  <2> QED BY <1>6, <1>9, <2>1, <2>2, <2>3 DEF Game, NobodyReturns
<1>12. CASE Cardinality(live) # 1
  <2>1. UNCHANGED <<stacks, started, settled, winner, closed>>
    BY <1>5, <1>12 DEF BetweenHands
  <2>2. Live' = live BY <1>7, <2>1
  <2>3. NextHandIsDue'
    <3> HIDE DEF live
    <3> QED BY <1>2, <1>3, <1>4, <1>6, <1>12, <2>2 DEF NextHandIsDue
  <2>4. PrizeIsWonByPlay' BY <1>8, <2>1 DEF PrizeIsWonByPlay
  <2> QED BY <1>6, <1>9, <2>1, <2>3, <2>4 DEF Game, NobodyReturns
<1> QED BY <1>10, <1>11, <1>12

(* leave(), from whichever of its callers.                                 *)
LEMMA WithdrawIsSafe ==
  ASSUME IInv, ~Decided, UNCHANGED subTable, NEW u \in Users, Withdraw(u),
         away' \subseteq away
  PROVE  Safe
<1>1. /\ seat' = [seat EXCEPT ![u] = "empty"] /\ grace' = grace \ {u}
      /\ UNCHANGED <<entries, online, asking, lost>>
  BY DEF Withdraw, Vacate
<1>2. Presence' BY <1>1 DEF IInv, Presence
<1>3. timers \in Timers /\ Game BY DEF IInv, Game, Timers
<1>4. CASE OnlyVacates(u)
  <2>1. /\ timers' = IF InHand THEN Driven(hand, timers) ELSE timers
        /\ UNCHANGED <<hand, eliminated, stacks, started, settled, winner, closed>>
    BY <1>4 DEF Withdraw
  <2>2. timers' \in Timers /\ timers'.deal = timers.deal
        /\ (InHand => timers'.auto = timers.auto \cup Absent(hand))
    <3>1. InHand => hand.actor \in Users BY DEF IInv, Game, HandSound
    <3> QED BY <1>3, <2>1, <3>1 DEF Driven, Absent, Timers
  <2>3. Game' /\ NobodyReturns BY <1>1, <1>3, <2>1, <2>2, GameStays
  <2>4. ActorIsDriven'
    <3>1. InHand => hand.actor \in Users BY DEF IInv, Game, HandSound
    <3> QED BY <1>1, <2>1, <2>2, <3>1 DEF IInv, Presence, ActorIsDriven, InHand, Absent
  <2> QED BY <1>2, <2>3, <2>4 DEF Safe, IInv
<1>5. CASE ~OnlyVacates(u) /\ ~InHand
  <2>1. BetweenHands(eliminated \cup {u}) BY <1>5 DEF Withdraw
  <2>2. u \in entries /\ started BY <1>5 DEF OnlyVacates
  <2>3. Game' /\ NobodyReturns BY <1>1, <1>3, <1>5, <2>1, <2>2, BetweenHandsIsSound
  <2>4. ActorIsDriven' BY <1>5, <2>1 DEF ActorIsDriven, InHand, BetweenHands
  <2> QED BY <1>2, <2>3, <2>4 DEF Safe, IInv
<1>6. CASE ~OnlyVacates(u) /\ InHand
  <2> DEFINE el == eliminated \cup {u}
  <2>1. el \subseteq entries BY <1>6 DEF OnlyVacates, IInv, Game
  <2>2. UNCHANGED closed BY <1>6 DEF Withdraw
  <2>3. CASE hand.actor = u
    <3>1. Folds(el, timers) BY <1>6, <2>3 DEF Withdraw
    <3>2. Advanced(el) BY <1>1, <1>3, <1>6, <2>1, <2>2, <3>1, ActionAdvances DEF Timers
    <3> QED BY <1>2, <3>2, AdvancedIsSafe
  <2>4. CASE hand.actor # u
    <3>1. GoOn(hand, el, stacks, timers) BY <1>6, <2>4 DEF Withdraw
    <3>2. /\ hand' = hand /\ eliminated' = el /\ stacks' = stacks /\ started' = TRUE
          /\ timers' = Driven(hand, timers) /\ UNCHANGED <<settled, winner>>
      BY <3>1 DEF GoOn
    <3>3. hand.actor \in Users BY <1>6 DEF IInv, Game, HandSound
    <3>4. /\ timers' \in Timers
          /\ (seat'[hand.actor] = "empty" => hand.actor \in timers'.auto)
      BY <1>3, <3>2, <3>3 DEF Driven, Absent, Timers
    <3>5. HandSound' BY <1>1, <1>3, <1>6, <3>2 DEF Game, HandSound, InHand
    <3>6. NextHandIsDue' /\ PrizeIsWonByPlay'
      BY <1>3, <1>6, <2>2, <3>2 DEF NextHandIsDue, PrizeIsWonByPlay, InHand, Decided
    <3>7. Game' BY <1>1, <1>3, <2>1, <2>2, <3>2, <3>4, <3>5, <3>6 DEF Game, Timers
    <3>8. Advanced(el) BY <3>2, <3>4, <3>7 DEF Advanced
    <3> QED BY <1>2, <3>8, AdvancedIsSafe
  <2> QED BY <2>3, <2>4
<1> QED BY <1>4, <1>5, <1>6

LEMMA LeavingIsSafe ==
  ASSUME IInv, ~Decided, UNCHANGED subTable, NEW u \in Users,
         Leave(u) \/ GraceExpires(u) \/ AwayExpires(u)
  PROVE  Safe
<1>1. CASE Leave(u) \/ GraceExpires(u)
  BY <1>1, WithdrawIsSafe DEF Leave, GraceExpires
<1>2. CASE AwayExpires(u) /\ ~(seat[u] = "live" \/ u \in eliminated)
  BY <1>2, WithdrawIsSafe DEF AwayExpires
<1>3. CASE AwayExpires(u) /\ (seat[u] = "live" \/ u \in eliminated)
  <2>1. /\ UNCHANGED <<hand, entries, eliminated, stacks, started, settled, winner, closed>>
        /\ UNCHANGED <<seat, timers, grace, online, asking, lost>> /\ away' \subseteq away
    BY <1>3 DEF AwayExpires
  <2>2. Game' /\ NobodyReturns BY <2>1, GameStays DEF IInv, Game, Timers
  <2>3. Presence' /\ ActorIsDriven' BY <2>1 DEF IInv, Presence, ActorIsDriven, InHand
  <2> QED BY <2>2, <2>3 DEF Safe, IInv
<1> QED BY <1>1, <1>2, <1>3

(* A connection that drops, comes back or takes its seat again.            *)
LEMMA ConnectingIsSafe ==
  ASSUME IInv, ~Decided, UNCHANGED subTable, NEW u \in Users,
         Disconnect(u) \/ Connect(u) \/ Rejoin(u) \/ AskToJoin(u)
  PROVE  Safe
<1>1. UNCHANGED <<hand, entries, eliminated, stacks, started, settled, winner, closed, timers>>
  BY DEF Disconnect, Connect, Rejoin, AskToJoin
<1>2. Game' /\ NobodyReturns BY <1>1, GameStays DEF IInv, Game, Timers
<1>3. InHand => hand.actor \in Users /\ Protected BY DEF IInv, Game, HandSound, Protected
<1>4. CASE Disconnect(u)
  <2>1. /\ online' = online \ {u} /\ asking' = asking /\ away' = away
        /\ lost' \in {lost, lost \cup {u}} /\ grace' = grace \cup GraceFor(u)
        /\ seat' = (IF seat[u] # "live" THEN seat
                    ELSE [seat EXCEPT ![u] = IF Protected THEN "dead" ELSE "empty"])
    BY <1>4 DEF Disconnect
  <2>2. Presence' BY <1>1, <2>1 DEF IInv, Presence, GraceFor
  <2>3. ActorIsDriven'
    BY <1>1, <1>3, <2>1 DEF IInv, Presence, ActorIsDriven, InHand, GraceFor
  <2> QED BY <1>2, <2>2, <2>3 DEF Safe, IInv
<1>5. CASE Connect(u)
  <2>1. Presence' /\ ActorIsDriven'
    BY <1>1, <1>5 DEF Connect, IInv, Presence, ActorIsDriven, InHand
  <2> QED BY <1>2, <2>1 DEF Safe, IInv
<1>6. CASE Rejoin(u)
  <2>1. UNCHANGED <<online, asking, lost, away>> BY <1>6 DEF Rejoin, wires
  <2>2. seat' = [seat EXCEPT ![u] = "live"] /\ grace' = grace \ {u} BY <1>6 DEF Rejoin
  <2>3. Presence' BY <1>1, <2>1, <2>2 DEF IInv, Presence
  <2>4. ActorIsDriven'
    BY <1>1, <1>3, <2>2 DEF IInv, Presence, ActorIsDriven, InHand
  <2> QED BY <1>2, <2>3, <2>4 DEF Safe, IInv
<1>7. CASE AskToJoin(u)
  <2>1. Presence' /\ ActorIsDriven'
    BY <1>1, <1>7 DEF AskToJoin, IInv, Presence, ActorIsDriven, InHand
  <2> QED BY <1>2, <2>1 DEF Safe, IInv
<1> QED BY <1>4, <1>5, <1>6, <1>7

(* The end of a join: the entry keeps the stacks of those who play.        *)
LEMMA TakeSeatIsSafe ==
  ASSUME IInv, ~Decided, UNCHANGED subTable, ~subTable, NEW u \in Users,
         NEW el, NEW st \in [Users -> Nat], TakeSeat(u, entries \cup {u}, el, st),
         el \subseteq entries, started => eliminated = el,
         started => \A v \in entries : st[v] = stacks[v]
  PROVE  Safe
<1> DEFINE en == entries \cup {u}
           refused == \/ seat[u] = "live" /\ u \notin lost
                      \/ seat[u] = "empty" /\ Cardinality(Seated) >= MaxSeats
<1>1. /\ asking' = [asking EXCEPT ![u] = "no"] /\ lost' = lost \ {u}
      /\ entries' = en /\ UNCHANGED <<closed, online, away>>
  BY DEF TakeSeat, Answered
<1>2. seat' \in [Users -> {"empty", "live", "dead"}] /\ grace' \subseteq Users
  <2>1. CASE refused BY <2>1 DEF TakeSeat, IInv, Presence
  <2>2. CASE ~refused
    <3>1. /\ seat' = [seat EXCEPT ![u] = IF u \in lost THEN "dead" ELSE "live"]
          /\ grace' = grace \ {u}
      BY <2>2 DEF TakeSeat
    <3> QED BY <3>1 DEF IInv, Presence
  <2> QED BY <2>1, <2>2
<1>3. Presence'
  <2>1. /\ asking' \in [Users -> {"no", "asked", "paying"}]
        /\ \A v \in entries' : asking'[v] # "paying"
    BY <1>1 DEF IInv, Presence
  <2> QED BY <1>1, <1>2, <2>1 DEF IInv, Presence
<1>4. Game /\ timers \in Timers /\ settled = FALSE /\ closed = FALSE
  BY DEF IInv, Game, Timers, Decided
<1>5. CASE ~refused /\ ~started /\ ~InHand /\ Cardinality(Entrants(en, el, st)) >= 2
  <2>1. StartHand(en, el, st, timers) BY <1>5 DEF TakeSeat
  <2>2. Playable(en, el, st, timers) BY <1>1, <1>4 DEF Playable, Game, Timers
  <2> HIDE DEF en
  <2>3. Advanced(el) BY <2>1, <2>2, StartAdvances
  <2> QED BY <1>3, <1>5, <2>3, AdvancedIsSafe
<1>6. CASE ~(~refused /\ ~started /\ ~InHand /\ Cardinality(Entrants(en, el, st)) >= 2)
  <2>1. eliminated' = el /\ stacks' = st /\ UNCHANGED <<hand, started, settled, winner, timers>>
    BY <1>6 DEF TakeSeat
  <2>2. HandSound' BY <1>1, <1>4, <2>1 DEF Game, HandSound, InHand
  <2>3. NextHandIsDue'
    <3> SUFFICES ASSUME started, ~InHand PROVE timers.deal /\ Cardinality(Live') >= 2
      BY <2>1 DEF NextHandIsDue, InHand
    <3>1. timers.deal /\ Cardinality(Live) >= 2 BY <1>4 DEF Game, NextHandIsDue
    <3>2. Live \subseteq Live' /\ Live' \subseteq Users
      BY <1>1, <1>4, <2>1 DEF Live, Entrants, Game
    <3>3. Cardinality(Live) <= Cardinality(Live')
      BY <1>4, <3>2, FinitelyManyLive, FS_Subset
    <3>4. Cardinality(Live) \in Nat /\ Cardinality(Live') \in Nat
      BY <1>4, <3>2, FinitelyManyLive
    <3> QED BY <3>1, <3>3, <3>4
  <2>4. PrizeIsWonByPlay' BY <1>4, <2>1 DEF PrizeIsWonByPlay
  <2>5. Game' BY <1>1, <1>4, <2>1, <2>2, <2>3, <2>4 DEF Game, Timers
  <2>6. ActorIsDriven' BY DEF ActorIsDriven
  <2> QED BY <1>3, <2>1, <2>5, <2>6 DEF Safe, IInv, NobodyReturns
<1> QED BY <1>5, <1>6

(* A join at any of its awaits.                                            *)
LEMMA JoiningIsSafe ==
  ASSUME IInv, ~Decided, UNCHANGED subTable, NEW u \in Users,
         JoinAgain(u) \/ JoinEnter(u) \/ JoinPaid(u) \/ JoinUnpaid(u)
  PROVE  Safe
<1>1. ~subTable BY DEF IInv, Presence, JoinAgain, JoinEnter, JoinPaid, JoinUnpaid
<1>2. stacks \in [Users -> Nat] /\ Start[u] \in Nat /\ eliminated \subseteq entries
      /\ [stacks EXCEPT ![u] = Start[u]] \in [Users -> Nat]
  BY DEF IInv, Game
<1>3. ASSUME UNCHANGED <<hand, entries, eliminated, stacks, started, settled, winner, closed>>,
             UNCHANGED <<seat, timers, grace, online, away>>, lost' \subseteq lost,
             asking' \in [Users -> {"no", "asked", "paying"}],
             \A v \in entries : asking'[v] # "paying"
      PROVE  Safe
  <2>1. Game' /\ NobodyReturns BY <1>3, GameStays DEF IInv, Game, Timers
  <2>2. Presence' /\ ActorIsDriven' BY <1>1, <1>3 DEF IInv, Presence, ActorIsDriven
  <2> QED BY <2>1, <2>2 DEF Safe, IInv
<1>4. ASSUME Refuse(u) PROVE Safe
  BY <1>3, <1>4 DEF Refuse, Answered, IInv, Presence
<1>5. CASE JoinAgain(u)
  <2>1. /\ ~started /\ eliminated' = eliminated \ {u} /\ u \in entries
        /\ stacks' = [stacks EXCEPT ![u] = Start[u]]
        /\ UNCHANGED <<hand, entries, started, settled, winner, closed, seat, timers, grace>>
        /\ UNCHANGED <<online, asking, lost, away>>
    BY <1>5 DEF JoinAgain, WithdrewFromRunning
  <2>2. ~InHand /\ settled = FALSE BY <2>1 DEF IInv, Game, HandSound, Decided
  <2>3. HandSound' /\ NextHandIsDue' /\ PrizeIsWonByPlay'
    BY <2>1, <2>2 DEF IInv, Game, HandSound, InHand, NextHandIsDue, PrizeIsWonByPlay
  <2>4. Game' BY <1>2, <2>1, <2>3 DEF IInv, Game
  <2>5. Presence' /\ ActorIsDriven' BY <1>1, <2>1 DEF IInv, Presence, ActorIsDriven
  <2> QED BY <2>1, <2>4, <2>5 DEF Safe, IInv, NobodyReturns
<1>6. CASE JoinEnter(u)
  <2>1. CASE u \in entries \ eliminated /\ TakeSeat(u, entries, eliminated, stacks)
    <3>1. entries \cup {u} = entries BY <2>1
    <3> QED BY <1>1, <1>2, <2>1, <3>1, TakeSeatIsSafe
  <2>2. CASE Refuse(u) BY <1>4, <2>2
  <2>3. CASE /\ u \in entries \cap eliminated /\ ~WithdrewFromRunning(u)
             /\ TakeSeat(u, entries, eliminated \ {u}, [stacks EXCEPT ![u] = Start[u]])
    <3>1. entries \cup {u} = entries /\ ~started BY <2>3 DEF WithdrewFromRunning
    <3>2. eliminated \ {u} \subseteq entries BY <1>2
    <3> DEFINE el == eliminated \ {u}
               st == [stacks EXCEPT ![u] = Start[u]]
    <3>3. TakeSeat(u, entries \cup {u}, el, st) BY <2>3, <3>1
    <3>4. st \in [Users -> Nat] /\ el \subseteq entries BY <1>2, <3>2
    <3> HIDE DEF el, st
    <3> QED BY <1>1, <3>1, <3>3, <3>4, TakeSeatIsSafe
  <2>4. CASE /\ u \notin entries /\ asking' = [asking EXCEPT ![u] = "paying"]
             /\ UNCHANGED <<hand, entries, eliminated, stacks, started, settled, winner, closed,
                            seat, timers, grace, online, lost, away, drops, asks>>
    BY <1>3, <2>4 DEF IInv, Presence
  <2> QED BY <1>6, <2>1, <2>2, <2>3, <2>4 DEF JoinEnter
<1>7. CASE JoinPaid(u)
  <2>1. u \notin entries /\ TakeSeat(u, entries \cup {u}, eliminated, [stacks EXCEPT ![u] = Start[u]])
    BY <1>7 DEF JoinPaid, IInv, Presence
  <2>2. \A v \in entries : [stacks EXCEPT ![u] = Start[u]][v] = stacks[v]
    BY <1>2, <2>1 DEF IInv, Game
  <2> QED BY <1>1, <1>2, <2>1, <2>2, TakeSeatIsSafe
<1>8. CASE JoinUnpaid(u) BY <1>4, <1>8 DEF JoinUnpaid
<1> QED BY <1>5, <1>6, <1>7, <1>8

-----------------------------------------------------------------------------
(* The table *)

LEMMA OpenedIsSafe == Init => IInv
<1> SUFFICES ASSUME Init PROVE IInv OBVIOUS
<1>1. /\ entries \subseteq Users /\ eliminated = {} /\ stacks \in [Users -> Nat]
      /\ subTable \in BOOLEAN /\ started = subTable /\ settled = FALSE /\ closed = FALSE
      /\ winner = None /\ online \subseteq Users
  BY DEF Init
<1>2. Presence BY DEF Init, Presence
<1>3. CASE ~subTable
  <2>1. hand = NoHand BY <1>3 DEF Init
  <2>2. HandSound /\ ActorIsDriven BY <1>3, <2>1 DEF HandSound, InHand, NoHand, ActorIsDriven
  <2>3. timers = [deal |-> FALSE, auto |-> {}] BY <1>3 DEF Init
  <2>4. timers \in Timers BY <2>3 DEF Timers
  <2>5. NextHandIsDue /\ PrizeIsWonByPlay BY <1>1, <1>3 DEF NextHandIsDue, PrizeIsWonByPlay
  <2> QED BY <1>1, <1>2, <2>2, <2>4, <2>5 DEF IInv, Game, Timers
<1>4. CASE subTable
  <2>1. /\ entries = Users /\ stacks = Start /\ hand \in Opened(Start, {})
        /\ timers = [deal |-> FALSE, auto |-> {hand.actor} \ online]
        /\ seat = [v \in Users |-> IF v \in online THEN "live" ELSE "empty"]
    BY <1>4 DEF Init
  <2>2. DOMAIN Start = Users OBVIOUS
  <2>3. /\ hand.over = FALSE /\ hand.dealt = Users /\ hand.brought = Start
        /\ hand.out = {} /\ hand.actor \in Users
    BY <2>1, <2>2 DEF Opened, Ongoing
  <2>4. HandSound BY <1>1, <1>4, <2>1, <2>3 DEF HandSound
  <2>5. timers \in Timers BY <2>1, <2>3 DEF Timers
  <2>6. NextHandIsDue /\ PrizeIsWonByPlay
    BY <1>1, <2>3 DEF NextHandIsDue, PrizeIsWonByPlay, InHand
  <2>7. ActorIsDriven BY <2>1, <2>3 DEF ActorIsDriven
  <2> QED BY <1>1, <1>2, <2>4, <2>5, <2>6, <2>7 DEF IInv, Game, Timers
<1> QED BY <1>1, <1>3, <1>4

LEMMA EveryStepIsSafe ==
  ASSUME IInv, [Next]_vars
  PROVE  Safe
<1>1. CASE UNCHANGED vars
  <2>1. Game' /\ NobodyReturns BY <1>1, GameStays DEF vars, IInv, Game, Timers
  <2>2. Presence' /\ ActorIsDriven'
    BY <1>1 DEF vars, wires, IInv, Presence, ActorIsDriven, InHand
  <2> QED BY <2>1, <2>2 DEF Safe, IInv
<1>2. CASE ~Decided /\ UNCHANGED subTable /\ (ContinueTournament \/ TurnClock)
  BY <1>2, ContinueIsSafe, MoveIsSafe
<1>3. ASSUME ~Decided, UNCHANGED subTable, NEW u \in Users, Moves(u) PROVE Safe
  <2>1. CASE PlayerActs(u) \/ AutoFold(u) BY <1>3, <2>1, MoveIsSafe
  <2>2. CASE Leave(u) \/ GraceExpires(u) \/ AwayExpires(u) BY <1>3, <2>2, LeavingIsSafe
  <2>3. CASE Disconnect(u) \/ Connect(u) \/ Rejoin(u) \/ AskToJoin(u)
    BY <1>3, <2>3, ConnectingIsSafe
  <2>4. CASE JoinAgain(u) \/ JoinEnter(u) \/ JoinPaid(u) \/ JoinUnpaid(u)
    BY <1>3, <2>4, JoiningIsSafe
  <2> QED BY <1>3, <2>1, <2>2, <2>3, <2>4 DEF Moves
<1> QED BY <1>1, <1>2, <1>3 DEF Next

LEMMA TableIsSafe == Spec => []IInv
<1>1. IInv /\ [Next]_vars => IInv' BY EveryStepIsSafe DEF Safe
<1> QED BY OpenedIsSafe, <1>1, PTL DEF Spec

(* The next hand of a running tournament is always due, with players to    *)
(* deal it to, whatever leaves, drops and joins did between the hands.     *)
THEOREM TableKeepsGoing == Spec => []TableInv
<1>1. IInv => TableInv BY DEF IInv, Game, HandSound, Presence, TableInv, TypeOK
<1> QED BY TableIsSafe, <1>1, PTL

(* Whoever has the turn in a bracket's hand is connected at the table, or  *)
(* a timer that folds or withdraws them is running.                        *)
THEOREM NobodyIsWaitedForInVain == Spec => []ActorIsDriven
<1>1. IInv => ActorIsDriven BY DEF IInv
<1> QED BY TableIsSafe, <1>1, PTL

(* A decided table has paid whoever took the chips: in a money room the    *)
(* others are broke, in a bracket nobody else is left.                     *)
THEOREM TheWinnerWonByPlay == Spec => []PrizeIsWonByPlay
<1>1. IInv => PrizeIsWonByPlay BY DEF IInv, Game
<1> QED BY TableIsSafe, <1>1, PTL

(* No reconnection or new join brings a player who is out back into the    *)
(* tournament that runs.                                                   *)
THEOREM NobodyComesBack == Spec => OutStaysOut
<1>1. IInv /\ [Next]_vars => [started /\ started' => eliminated \subseteq eliminated']_vars
  BY EveryStepIsSafe DEF Safe, NobodyReturns
<1> QED BY TableIsSafe, <1>1, PTL DEF Spec, OutStaysOut
=============================================================================
