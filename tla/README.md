# Verification of the CAPA CONTEST poker backend

TLA+ models of the server of this repository (`src/backend`), model-checked with
TLC and, for the parts that matter most, proved with TLAPS. The server deals
Texas Hold'em for real money: it is authoritative for the cards, the chips and
the wallets, and its README promises that "money is never mutated in place".

File names below are relative to `src/backend/src`.

## The system

| Component | State it keeps | Operations | What makes it correct |
|---|---|---|---|
| Hand engine (`poker/hand.ts`, `betting-round.ts`, `side-pots.ts`) | stacks, bets, folds, all-ins, turn, street, pots | deal, fold, check, call, bet, raise | chips are conserved, every street ends, nobody is skipped, the pots go to the best hands |
| Live tables (`realtime/table.service.ts`, `game.gateway.ts`) | a registry in memory of tables: seats, hand, tournament context; timers; sockets | join, leave, disconnect, reconnect, act, turn clock, auto-fold, next hand | a hand never waits for somebody nothing will move, a tournament always goes on, who is out stays out |
| Tournament money (`tournament/tournament.service.ts`) | nothing of its own: ledger postings under references that identify an entry, a payout, a refund | escrow, settle, refund, release | one charge per ticket, one prize per tournament, the pool covers what is in play |
| Prize table (`poker/prize-table.ts`, `tournament/subscription.ts`) | none | fee, multiplier, share | the house never pays more than it may, and no room is played for nothing |
| Scheduled rooms (`tournament/scheduled-rooms.service.ts`) | registrations in the database | register, cancel, close the window, settle | tickets are seats, refunds and rosters happen once |
| Ledger (`wallet/ledger.service.ts`, `wallet.service.ts`) | immutable entries and a cached balance per account | post | a reference is applied once; a guarded wallet is never overdrawn |
| Cash desk (`wallet/withdrawal.service.ts`, `deposit.service.ts`) | a row per request | request, approve, reject, confirm | a row never claims more than was posted |
| Reconciliation (`wallet/reconciliation.service.ts`) | none | compare, repair | a repair never makes the books worse |
| Payments and plans (`payments/payment-orders.service.ts`, `subscription-request.service.ts`) | orders, subscription requests, the days of plan ahead | open an order, webhook, confirm, reject | a paid order is credited, once; renewals keep their days |
| Shootouts (`tournament/multi-table*.ts`, the `tournament:register` handler) | a roster and a bracket in memory | register, start, report a table, settle | the pool is the entries in force, rounds end in order, the id can be used again |
| Promotional brackets (`promo/promo-bracket.ts` and its half of the gateway) | entrants, rounds, places, timers in memory | join, drop, return, leave, start, advance | it starts, it ends, the classification is a ranking |
| Promotion events (`promo/promo.service.ts`) | a row per event, places, postings | start, award, top up, rehearse, reschedule, cancel | one winner, one prize, one rate |
| Points (`points/points.service.ts`) | an account and the records of every change | spin, convert, share a win, win alone | the account is what the records add up to |
| Player limits (`responsible/player-limit.service.ts`) | a row per player | set limits, take a break, check a deposit | a limit is never looser than asked for, nor sooner |
| Accounts (`auth/*`) | users, one-time codes | request and check a code, log in, block | guesses run out, blocks hold |
| Referrals (`referral/*`) | codes of agents and players | register, make a code, link | a code has one owner |

The rest (admin API and panel, mobile app, rankings, static pages) calls these or
shows what they hold. `PROJECT.json` lists every part with its status.

### How the parts interact

A socket message enters `GameGateway`, which calls `TableService`; that drives one
`PokerHand` per table and, in a money room, `TournamentService`; that posts
through `LedgerService`. HTTP controllers call the cash desk, the scheduled rooms
and the payments, which post to the same ledger. Between two `await`s a handler
runs alone (Node is single-threaded), but every `await` lets any other handler,
timer or request in. Rows of the database are read and written in separate
statements; only `LedgerService.post` is a (serializable) transaction. A restart
loses every table, timer and bracket, and no row.

### What is hard

Interleavings across `await`s (a join awaits twice, an admin's settlement three
times, a refund four times per player); reports of a payment page that are
repeated, delayed and out of order; timers that race the events that should
have cancelled them; failures between a posting and the row that records it;
restarts between a payout and the renaming of references; and the arithmetic of
betting with short stacks. `PROJECT.json` lists each hazard at its line.

## The modules

    SidePots            the pots of a hand, as an algorithm
      PotAward          their award, over any contributions
      PokerHand         a hand: betting, streets, award          PokerHand_proofs
                                                                 (and PotAward)
      HandContract      what a table relies on of a hand  <----- PokerHandRefinement
        HandOutcome     (its steps)
          TournamentTable    a table and the gateway that drives it
                                                                 TournamentTable_proofs
    PrizeTable          fees, multipliers, shares                MoneyTheorems
    Ledger              postings, references, cached balances
      Reconciliation    the check and repair of the caches
        Cashier         withdrawals and deposits                 Cashier_proofs
      TournamentMoney   entries, payouts, refunds and their references (and PrizeTable)
        LobbyRoom       the money of one lobby room across its tournaments
                                                                 LobbyRoom_proofs
        ScheduledRooms  the money of one window of a scheduled room
                        (and MoneyTheorems)                      ScheduledRooms_proofs
    Payments            orders, webhooks, plans
    Seating             how a field is split into tables
      Shootout          what a shootout is  <------------------- ShootoutManager
      ShootoutCoordinator    a bracket of rounds in memory
        ShootoutManager      registering, playing, settling (and TournamentMoney)
                                                                 ShootoutManager_proofs
                                                                 (and PromoBracket)
        PromoBracket         a promotion, from the gathering to its champion
    PromoEvent          the prize of a promotion in the database
    Points, PlayerLimits, OneTimeCode, Referral     services of an account
                             (and Payments, PromoEvent)          AccountServices_proofs

The `MC*` modules give the constants values for TLC.

**SidePots, PotAward, PokerHand.** `SidePots` is `buildSidePots()` and the award;
`PotAward` awards any vector of contributions, folds and strengths, also those no
betting produces. `act()` is synchronous, so an action of the model is a
player's whole call, up to and including the settlement of the street, the next
one or the award. The round's copies of stacks and folds are one variable each
with the hand's. Cards are left out: when a hand is paid out, every seat draws
the strength its cards turn out to have.

**HandContract, HandOutcome, TournamentTable.** A table needs four things of a
hand: whose turn it is, who folded, when it is over, and the stacks it leaves.
`HandContract` says what those may be, `PokerHandRefinement` shows that the engine
keeps to it, and `TournamentTable` plays its hands by the same operators. In
`TournamentTable` a handler is a step except `table:join`, which awaits twice and
is three. Socket identity is reduced to whether the socket behind a seat is
still connected. `subTable`, chosen at the start, says whether it is the table of a
bracket: seated by the server, played against the turn clock, and moving no money.

**PrizeTable.** Fees and shares of every level and plan, tiers and multipliers, and
the arithmetic of `settle()`, in whole cents. The code compares the occupancy, a
quotient of doubles, with the literals 0.0, 0.1 ... 1.0; division is correctly
rounded, so a quotient that equals a tenth is that literal, and comparing
`tier * seats <= 10 * n` is the same test.

**Ledger.** `Post` is `postWithRetry()`: it fails on a used reference or on a guarded
account that would become negative, and otherwise updates the entries and the
column together. The entries are kept as their sum. References that are renamed
leave `refs`, which is what renaming them is for.

**Cashier.** A request is one query after the other: read the balance, post the
reservation, insert the row; a settlement reads the status, posts, and updates
the row. Any call may fail after any step (`AskingFails`, `CallFails`), which is also
the retry of a call whose answer was lost. Admins' calls are the set `Calls`.

**LobbyRoom.** One room id and the tournaments played under it. Per connection, how
far a join is: a join that awaits keeps the table object it started with, so
`here` says whether that object is still the registered one. Seats and play are
`TournamentTable`'s; here a tournament is won by some entrant or abandoned, and a
settlement is a payout followed by the release of one reference at a time. One
settlement is in progress at a time: the handler that starts it marks the table
settled first.

**ScheduledRooms.** One room of one window. Every request and every `closeWindow()` is a
job with its own program counter; refunds walk the players, then release the
references one by one. The tick comes whatever is under way; `crossed` records
that a request was. A charge needs only this room's entries: other spending is
Cashier's.

**Payments.** One player, their orders and their requests for plans. Every handler
(a report of the payment page, the opening of an order, an admin's decision) is a
call with a program counter, one database statement a step; any number of reports
of one payment may be in progress, a failed attempt may be reported after or before
the payment, and a call may end anywhere. Amounts are left out, as a report with
another amount is dropped.

**Seating, Shootout, ShootoutCoordinator, ShootoutManager.** `Seating` is
`multi-table.ts`. `ShootoutCoordinator` is the bracket in memory, whose tables report
one by one; `ShootoutManager` adds the roster, the escrow of entries by handlers that
await, `start()`, the settlement, its failures and restarts. `Shootout` says what the
players are promised, a round at a time, and `RoundByRound` is the statement that
the live tournament implements it, under the refinement that maps the bracket's
variables to themselves.

**PromoBracket.** The same coordinator for a promotion: places held by connections, a
start decided by the clock or a join (a check, two awaits, a second check), rounds
opened by a timer after the last report, knockouts ranked as they happen,
withdrawals in the middle of a hand, drops with a timer to come back. A hand ends
with some of its players broke and others not; the hand itself is not played.

**PromoEvent.** The row of the event and the money. Each handler reads the row, posts
under a unique reference, and writes the row; a restart loses the bracket and the
handlers. Places are saved by calls nobody waits for.

**Points, PlayerLimits, OneTimeCode, Referral.** Each is one service with two
handlers at a time, each handler stopping where the code awaits. They share no
state, so one MC module runs them side by side, one per behaviour (`focus`). The
requests `OneTimeCode` counts toward the limit are those the process remembers
(`recent`), as the code keeps them in memory. What a window of `PlayerLimits` has
used is a sum over the deposits received in it, as the query's is.

## The runs

| Run | Question | Bounds |
|---|---|---|
| `side_pots` | Do the pots equal a chip-by-chip reference, does the award lose nothing else than orphaned pots, do equal hands share? | 4 seats, up to 3 chips each, two strengths: layers, ties, folds and merges at every level |
| `hand_three` | A hand of three: chips, turns and their order, offers, bets, award; that it ends; that it keeps the contract tables rely on | stacks below, at and above each blind and up to several raises |
| `hand_heads_up` | Heads-up, where positions differ: is every chip paid out? | 11 stacks around the blinds |
| `tournament_tables` | A bracket table with any of its players away, and a money room across joins that await, under leaves, a drop, reconnections and every timer | 3 players, stacks of one ante, 2 seats in the money room (a third player waits, enters and replaces), 4 joins, 1 drop |
| `cashier` | Concurrent withdrawals, deposits and settlements with failures and a repair of the caches | a wallet of 2, two withdrawals of 2, a deposit of 1, two admins: enough for every race of two |
| `lobby_room` | Tickets and the pool across tournaments, with a restart and a failed settlement | two players with two entries each and different plans, one of them with two connections |
| `rooms_window` | A window from registration to settlement | three players who can pay and one who cannot, 5 requests, one failure, one `closeWindow()` after another; 20 seats, so that two players are a tenth and win something |
| `payments` | Are deposits credited once and plans released in full, and does a payment arrive? | one order of either kind, two requests, two plans, two handlers, one failure |
| `shootout` | The pool and the roster across tournaments of one id; the refinement; that the id is usable again | two tables of three and a final, a start of three, four players who can pay two, one, one and no entries, one restart or failed settlement |
| `promo_bracket` | A promotion from the gathering to its champion | five players, four places, a minimum of three, two tables of two and a final or one of three |
| `account_services` | Points, limits and deposits, codes and blocks, the prize of a promotion, referral codes | two handlers each (one for deposits); a wheel of one prize, four days; three ceilings, two windows, three hours, two or three deposits of one or two; two codes, one restart; two champions, two restarts or failures; two players and three codes |

In `shootout` the three or four players of a tournament are less than a tenth of its
42 places, so the prize is zero and the entries go to the house: a prize that buys
further entries would only repeat the same tournaments with richer players. Prizes
above zero are in `lobby_room` and `rooms_window`, and every one is in
`MoneyTheorems`.

Some properties have an antecedent that the code makes necessary:

- `NeverOverdrawn` holds until a repair is run (`repairs = 0`): a repair that runs
  between postings writes a stale balance back, and the overdraft guard trusts it.
- `RoomInv` speaks of the pool and of the payout reference until a restart or a
  failure interrupts a settlement (`Undisturbed`); `EntriesArePooled` until one does
  (`interrupted`), or until a player takes part whose entry is refused afterwards.
- `EntrantsHoldTickets`, `WindowInv` and `TicketsAreSeats` hold until a call fails half-way
  (`failures = 0`): an entry charged and not registered stays in the pool with no
  seat. `WindowInv`, `TicketsAreSeats` and `RefundedOnce` hold for windows no request
  raced (`~crossed`): a cancellation in flight at the tick refunds a player whom the
  closing has on its roster.
- `CreditsMatchPayments` promises the credit of a claimed deposit unless some call
  failed; `DaysAreKept` the days of plans unless one did, or two calls settled
  requests at once: both extend the subscription from the expiry they read.
- `BracketEnds` excepts a table everybody left during one hand, which is what
  `bracket_stall` shows.
- `PointsAddUp` holds until a spin or a conversion writes balances over a change it
  had not seen; `ProtectionHolds` until two changes of one kind overlap, and, for
  deposits, until two are asked for before either arrives; `OneOwnerPerCode` until an
  agent's code is written between the check and the write of a player's, or the other
  way round; `GuessesRunOut` adds a guess or a session per further handler at one code;
  `OnePrizeOneRate` expects the row to follow the money unless a call failed or the
  panel changed the event once the award had read it.

TLC finds each of these violated without its antecedent (in `account_services`, which
stops following a behaviour of the points, limits or deposits once the antecedent
fails, when it goes on following it).

Deadlock is checked except where the system may stop: a room may wait for players
for ever, a window is over, everything is paid and settled.

One run ends in a violation: `bracket_stall`. When the last players of a bracket table
withdraw in one hand, the table is settled without a winner and the bracket waits
for one, against the comment at `realtime/table.service.ts:74`.

### Observations

Behaviours the models have that no run states, because they are outside the
antecedents above or no property here is about them:

- approval and rejection of one withdrawal at once both post
  (`withdrawal.service.ts:84`, against the comment at 125); a deposit confirmed and
  rejected at once is rejected and credited; an approval that posted and failed
  before its row can only be rejected afterwards;
- a restart between a payout and the release of references leaves tickets that were
  paid out (`tournament.service.ts:173`); with the payout reference left over, every
  later tournament of a shootout's id fails at its settlement, after it was played;
- two cancellations from two connections can refund one entry twice, since the first
  renames the reference that would stop the second (`tournament.service.ts:234`);
- both blinds fold to a shorter all-in: the rest of the pot is paid to nobody
  (`hand.ts:291`; `PaidOrOrphaned` allows exactly that);
- heads-up, a small blind that is the player's whole stack leaves an all-in player
  with the turn; a short all-in reopens the raise to players who have acted;
- a connection lost while its join is awaiting is seated afterwards, and in a money
  room no timer ever frees the seat; in a bracket it is marked connected for good;
- a settlement that throws leaves the room's table settled for good;
- a deposit whose order was closed by a failed attempt is paid and never credited
  (`payment-orders.service.ts:164`), nor is one whose claim was written before a failure;
- a promotion that was rescheduled starts afresh only after a restart of the server,
  since a bracket in memory is never replaced, and the places saved of the first
  bracket stay in the classification;
- a login past the check of a block undoes it (`otp.service.ts:118`,
  `auth.service.ts:110`);
- a cash hand is settled by a posting without an overdraft guard
  (`wallet/settlement.service.ts:66`), so a wallet emptied during the hand goes negative.

Every property of a passing run has a mutant in `PROJECT.json`, a plausible bug that
TLC must find; mutants are defined beside what they change and marked so.

### Fairness

Weak fairness of what the event loop and the timers do by themselves; players and
admins owe nothing.

- `PokerHand`: a dealt hand starts and the turn clock (`armTurnClock()`, a `setTimeout`
  that checks when it can and folds when it cannot) fires.
- `Payments`: a handler goes on, and the payment page repeats its report until it is
  answered: strong fairness, as a report may find every handler busy.
- `ShootoutManager`: handlers and the settlement go on; and each table is decided,
  which is an assumption about play, backed by `HandEnds`.
- `PromoBracket`: timers fire, handlers go on; and a table that keeps dealing knocks
  somebody out in the end (strong fairness of such a hand, as a withdrawal may come
  between): an assumption about play again.

Elsewhere the progress of tables is stated as safety: whoever is waited for is
connected or has a timer running (`ActorIsDriven`), and the next hand is due (`TableInv`).

## The proofs

Each theorem is about every value of the constants that the modules' `ASSUME`s allow.
The argument is the same each time: an invariant that says what every handler in
flight has already read, posted or may still write, which each step preserves, and
which implies the property. TLC checked each of these invariants on the run of
its module before it was proved.

`PokerHand_proofs`, for any number of players, any blinds and any stacks:

- `HandIsSound`: `HandInv` is inductive. It is the type invariant with, per player, stack +
  bets + earlier bets = initial stack; all-in flags equal to empty stacks; every
  bet covered; a live street that is not complete; and a turn with a live player
  who has not folded. Betting leans on all of it: that a street is never complete
  while it is live is what makes the search for the next actor find one.
- `HandFacts`, `OffersAreExact`, `EveryoneGetsToAct` follow: `legalActions()` offers what
  `act()` accepts, and no street closes over a player with chips who has not acted.
- `TurnsStayInOrder`: the turn reaches everybody who owes an action before anybody who has
  matched the bet. The invariant (`TurnInv`, `TurnsAreInOrder`) adds who has set the bet: somebody live holds it and
  has acted, or nobody has raised the blinds and all who were passed folded or are
  all-in. Without that, the case where everybody else folds to a bet nobody holds could
  not be excluded. When the hand is over it says that some live player covers every
  pot, or is all-in for less than the small blind; both blinds may fold to that one.
- `TableStakesHold` and `BestHandWins` need of the betting only what `HandInv` says, and
  the theory of the pots: a layer is the step between two levels of contribution, the
  layers up to a player's own add up to its contribution, those of every player to
  the chips called, and the shares of a pot, odd chips included, to the pot.
  `HeadsUpAddsUp` needs besides that somebody has not folded, from `TurnInv`.
- `KeepsPromise`: every step of the engine is a step of `HandContract` or a stutter. The
  turns and folds follow from `HandInv`; that the stacks at the end are ones the tables
  expect follows from the last part of `TurnInv` (`Kept`), as then no pot is orphaned.

The same theory proves the three properties of `PotAward`, for any number of seats, any
contributions, folds and strengths: `AwardPaysOut`, `PotsChipByChip` (chip k of everybody
who put in k goes to the pot of those of them who are live, by regrouping the chips
by who may win them), and `EqualHandsShare` (one odd chip a pot, to the earlier seat).

`TournamentTable_proofs`, for any players, stacks, places, drops and joins:

- `TableKeepsGoing`, `TheWinnerWonByPlay`, `NobodyIsWaitedForInVain`: the next hand of a
  running tournament is due with players to deal to, a decided table was won by play,
  and whoever has the turn is connected or has a timer. They need each other:
  `IInv` joins the game (`Game`: the hand's players are entrants with the stacks they
  brought) to the connections (`Presence`: at a bracket table a seat without its
  socket has a grace timer; who is paying is not entered), because a timer that
  withdraws somebody also folds, deals and decides.
- `NobodyComesBack`: an action property; no join or reconnection brings back into a
  running tournament a player who is out.

`Cashier_proofs`, for any players, requests and admins:

- `RowsStayBacked`: rows are backed by postings whatever fails or interleaves. The
  inductive invariant adds what a call in flight has already posted.
- `WalletsStaySolvent`: until a repair is run, no wallet is overdrawn. The invariant
  is that the cached balance is the balance; the guard does the rest.
- `OutsideStaysExplained`: what left and entered through the bank is what was settled,
  each request once, since a posting that moves such money carries the request's own
  reference.

`LobbyRoom_proofs`, for any players, plans, connections, restarts and failures:

- `EntrantsKeepTickets`: the invariant (`InstanceHeld`) is that a join about to record
  an entry on the table object that is still registered holds a ticket, and that
  nobody's ticket goes before the table object does.
- `NoSecondCharge`: an action property; a player with a ticket is never charged.
- `RoomIsSound`: the pool covers the tickets. That is not inductive while references
  are released one at a time; `PoolCoversLasting` says it of the tickets a settlement
  that has paid will not release.

`ScheduledRooms_proofs`, for any players, fees, sizes of rooms and failures, under
`OneAtATime`: a player makes one request at a time, and `closeWindow()` is not called
while it runs. Without it the four properties are false for some constants that
`RoomsAssumption` allows: of one player's two cancellations at a time, the first
renames the reference that would stop the second, and both refund; of two
registrations, the late one is seated again after the other was handed over; and two
closings read one roster. The run keeps to it, with one request a player and one
closer.

- `NobodyPlaysTwice`, whenever the tick comes and whatever fails: `Rosters` says that who
  is registering has no seat, and that who was handed over takes none again.
- `NobodyIsRefundedTwice`: `Accounted` says that a ticket not given back has been paid
  for. It leans on the order of a release: tickets go before the references that say
  they were given back, so that a refund interrupted and taken up again still finds
  those it has made.
- `SeatsAreTickets`: whom no job is about holds a ticket if and only if registered;
  for everybody else `Step` says how far the job has come (`Seats`).
- `WindowIsSound`: the pool is what the tickets in force cost, and the reference of the
  payout is there only while its closing releases it (`Pooled`); that there is a prize
  is `EnoughPlayersForAPrize`.

`ShootoutManager_proofs`, for any players and any sizes of tables:

- `LiveTournamentIsAShootout`: every step of the live tournament, restarts and failures
  included, is a step of `Shootout` or a stutter. The invariant (`BracketOK`) is that
  the winners reported so far sit at their tables and that a bracket exists only
  while `start()` runs.
- `PoolHoldsTheEntries`: the pool is exactly the entries in force. `Pooled` says what it
  holds between the payout and the renaming of the references.
- `FieldHalves`: a round of two players or more leaves at most half of them, and the
  winners of a field of up to `TEN_TABLE_FIELD` fit one final table.

- `PlacesMakeARanking`, of `PromoBracket`, for any players, sizes of tables and limits: the
  classification is a ranking. `RankInv` adds who sits at the tables of the round, that
  a decided table holds its winner alone, that between rounds everybody in the bracket
  stands, and that every place given comes after those still standing
  (`OpenPlaces`). `OutIsRanked` is the step: those who go out together take the places
  just after them, each with as many ahead as were richer.

`AccountServices_proofs`, for any number of handlers at a time, of orders, reports,
requests, players, codes, prizes, windows and days, and of failures:

- `DepositsAreCreditedOnce`: `CreditsMatchPayments` is itself inductive. Its core is that
  at most one call acts on an order that is PAID, the one that claimed it, and none
  once the deposit is in the wallet; the claim is what makes it so.
- `NoPaidDayIsLost`: the days ahead are those of the confirmed plans. `PlansInv` adds
  what a call that settles a request has read, and that it settles alone
  (`overlapped`); the days between its two writes are counted to it.
- `CodesHaveOneOwner`: a code checked and about to be written may have been taken
  since, by its own kind, which the unique column refuses, or by the other (`collided`).
- `GuessingStops`: misses and sessions are counted together with the handlers that
  have passed the check and not written yet; a window that slides by a minute sends
  no more codes than its share, because the requests remembered in one window are.
- `OnePrizeIsPaid`: whatever restarts, fails or is repeated, the references leave one
  winner and one rate, or the base rate and the difference.
- `RecordsAddUp`: what a call has read is what the account still is, or has grown by
  rewards that only increment; the daily cap is passed by at most one award per further
  handler, each of which is counted while it is under way.
- `PlayersAreProtected`: each call holds the row as it is, or has raced; every ceiling is
  what was asked or waits in the snapshot; all deposits but the newest have arrived,
  so what counts against the newest on its arrival counted when it was let in.

`MoneyTheorems`, for every level, plan, size of room and payable share:

- `HouseNeverOverpays`: the prize is part of the pool, the pool of the payable share,
  that of what was collected.
- `EnoughPlayersForAPrize`: `minPlayersThatWinSomething()` is a number of the room's seats,
  and every number of players from it on earns a multiplier above zero.

Pools, days, deposits and chips are sums over sets, which the community modules
define by a recursive function. `MoneyTheorems` proves that such a sum exists, is
unique, and splits, grows, changes, adds, is exchanged with another sum and is
grouped by a key as sums do, by well-founded induction over subsets stated for sets
(`SubsetInduction`).

The assumptions on the constants: a hand has two seats or more, stacks above zero and
a big blind no less than the small one, which is above zero; sizes, fees, rewards and
amounts are naturals (deposits and withdrawals are not zero), sets that are summed or counted over are finite
(players, requests, withdrawals, handlers that guess or earn), tables seat three
or more, `None`, `Nobody` and `NoCode` are not among what they stand beside, and some
handler of points exists.

Every safety property of the passing runs is stated by a theorem. Only model-checked is
liveness under fairness, which the provers do not reach: `HandEnds` of `PokerHand` and its
like in the other modules.

## Not modelled

The hand evaluator (a pure function of seven cards), the shuffle, robots at practice
tables, what is broadcast to whom, formats of phones and documents, reports and
commissions (read-only sums), the HTTP client of the payment page, and every user
interface. `web/main.dart.js` and the other files under `web/` and `panel/` are compiled
output of the mobile app and of the admin panel: most of the repository's lines, and
none of its logic. `computePrizePool()`, `distributePrize()` and
`MultiTableTournamentService` have no caller in the server. A player's plan does not change
between two entries under one room id (the fee of a ticket found is computed anew
from the plan of the day, `tournament.service.ts:66`).

## The plan

1. Cash tables: the settlement of a practice hand against the wallet, with the
   unguarded debit.
2. Changes of plan between entries, in `LobbyRoom`.
