------------------------------ MODULE Seating -------------------------------
(***************************************************************************)
(* multi-table.ts: how a field is split into the tables of a round.  Up to *)
(* FINAL_TABLE_SEATS players meet at one table; up to TEN_TABLE_FIELD they *)
(* play at most MIN_TABLES_TO_START tables, so that the winners fit the    *)
(* final table; a bigger field plays tables of SEATS_PER_TABLE.            *)
(***************************************************************************)
EXTENDS Integers, Sequences, FiniteSets

CONSTANTS SEATS_PER_TABLE, FINAL_TABLE_SEATS, MIN_TABLES_TO_START, MAX_TABLES
ASSUME SeatingAssumption ==
  /\ {SEATS_PER_TABLE, FINAL_TABLE_SEATS, MIN_TABLES_TO_START, MAX_TABLES} \subseteq Nat
  /\ 3 <= SEATS_PER_TABLE /\ SEATS_PER_TABLE <= FINAL_TABLE_SEATS
  /\ 2 <= MIN_TABLES_TO_START /\ MIN_TABLES_TO_START <= FINAL_TABLE_SEATS
  /\ MIN_TABLES_TO_START <= MAX_TABLES
TEN_TABLE_FIELD == MIN_TABLES_TO_START * FINAL_TABLE_SEATS
MAX_PLAYERS == MAX_TABLES * SEATS_PER_TABLE
Nobody == "nobody"

AtMost(bound, n) == IF n < bound THEN n ELSE bound
ByEight(n) == (n + SEATS_PER_TABLE - 1) \div SEATS_PER_TABLE
NumTables(n) ==
  IF n <= FINAL_TABLE_SEATS THEN 1
  ELSE AtMost(IF n <= TEN_TABLE_FIELD THEN MIN_TABLES_TO_START ELSE MAX_TABLES, ByEight(n))

(* The orders in which a field may be dealt.                               *)
Seatings(us) ==
  {s \in [1..Cardinality(us) -> us] : \A i, j \in DOMAIN s : s[i] = s[j] => i = j}

(* seatIntoTables(): the players are dealt round the tables 1, 2, ...      *)
Tables(players) == 1..NumTables(Len(players))
SeatedAt(players, t) ==
  {players[i] : i \in {j \in 1..Len(players) : (j - 1) % NumTables(Len(players)) = t - 1}}
=============================================================================
