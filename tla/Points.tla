------------------------------- MODULE Points -------------------------------
(***************************************************************************)
(* One player's points: PointsService.  A spin writes the balances from an *)
(* account it read before its transaction, a conversion from the one it    *)
(* read inside; the other rewards increment.  The transactions are read    *)
(* committed, so other calls may commit between the read and the write.    *)
(***************************************************************************)
EXTENDS Integers, FiniteSets

CONSTANTS PointsCalls,                        \* handlers at a time
          Rate,                               \* PAID_TO_FREE_RATE
          SoloAward, SoloCap, ShareAward,
          Wheel,                              \* the segments: records [free, paid]
          Milestones,                         \* per streak, such a record
          LastDay, MaxWins                    \* bounds
Rewards == [free : Nat, paid : Nat]
ASSUME PointsAssumption ==
  /\ Rate \in Nat \ {0} /\ {SoloAward, SoloCap, ShareAward, LastDay, MaxWins} \subseteq Nat
  /\ Wheel \subseteq Rewards /\ \A n \in DOMAIN Milestones : Milestones[n] \in Rewards
  /\ IsFiniteSet(PointsCalls) /\ PointsCalls # {}

VARIABLES
  account,      \* free and paid points, streakDays, lastSpinDay
  today, wheelDays, granted, shared, soloToday,   \* from the transactions recorded
  wins,         \* tournaments won
  pointsCall,   \* per handler, where it is and what it read
  worth,        \* history: what the recorded rewards are worth in free points
  crossed       \* history: a call wrote over a change it had not seen

pointsVars == <<account, today, wheelDays, granted, shared, soloToday, wins,
                pointsCall, worth, crossed>>
PointsIdle(c) == pointsCall[c].at = "idle"
Asks(c, call) == pointsCall' = [pointsCall EXCEPT ![c] = call]
Answers(c) == pointsCall' = [pointsCall EXCEPT ![c] = [at |-> "idle"]]
Worth(r) == r.free + Rate * r.paid
Overwrites(seen) == crossed' = (crossed \/ account # seen)

-----------------------------------------------------------------------------
(* spin() *)

AlwaysGrows(seen, day) == seen.streak + 1              \* mutant of Streak
Streak(seen, day) == IF seen.lastDay = day - 1 THEN seen.streak + 1 ELSE 1
Spin(c) ==
  /\ PointsIdle(c) /\ account.lastDay # today
  /\ Asks(c, [at |-> "spin", seen |-> account, day |-> today])
  /\ UNCHANGED <<account, today, wheelDays, granted, shared, soloToday, wins, worth, crossed>>
(* The reference of the day lets one spin through.  One milestone is       *)
(* granted once; on PostgreSQL the second attempt aborts the transaction   *)
(* it is caught in, and the spin with it.                                  *)
SpinDrawn(c) ==
  LET seen == pointsCall[c].seen
      day  == pointsCall[c].day
      now  == Streak(seen, day)
      none == [free |-> 0, paid |-> 0]
      bonus == IF now \in DOMAIN Milestones THEN Milestones[now] ELSE none
  IN /\ pointsCall[c].at = "spin" /\ Answers(c)
     /\ IF day \in wheelDays \/ (now \in DOMAIN Milestones /\ now \in granted)
        THEN UNCHANGED <<account, wheelDays, granted, worth, crossed>>
        ELSE /\ \E seg \in Wheel :
                  /\ account' = [free |-> seen.free + seg.free + bonus.free,
                                 paid |-> seen.paid + seg.paid + bonus.paid,
                                 streak |-> now, lastDay |-> day]
                  /\ worth' = worth + Worth(seg) + Worth(bonus)
             /\ wheelDays' = wheelDays \cup {day}
             /\ granted' = granted \cup ({now} \cap DOMAIN Milestones)
             /\ Overwrites(seen)
     /\ UNCHANGED <<today, shared, soloToday, wins>>

-----------------------------------------------------------------------------
(* convert(), shareWin(), soloWin() *)

Converted(acc, toFree) ==
  IF toFree THEN [acc EXCEPT !.free = @ + Rate, !.paid = @ - 1]
            ELSE [acc EXCEPT !.free = @ - Rate, !.paid = @ + 1]
Convert(c, toFree) ==
  LET new == Converted(account, toFree) IN
  /\ PointsIdle(c) /\ new.free >= 0 /\ new.paid >= 0
  /\ Asks(c, [at |-> "convert", seen |-> account, toFree |-> toFree])
  /\ UNCHANGED <<account, today, wheelDays, granted, shared, soloToday, wins, worth, crossed>>
ConvertWritten(c) ==
  LET seen == pointsCall[c].seen
      new  == Converted(seen, pointsCall[c].toFree)
  IN /\ pointsCall[c].at = "convert" /\ Answers(c)
     /\ account' = [account EXCEPT !.free = new.free, !.paid = new.paid]
     /\ Overwrites(seen)
     /\ UNCHANGED <<today, wheelDays, granted, shared, soloToday, wins, worth>>
ShareWin ==
  /\ wins > 0 /\ wins \notin shared /\ shared' = shared \cup {wins}
  /\ account' = [account EXCEPT !.free = @ + ShareAward] /\ worth' = worth + ShareAward
  /\ UNCHANGED <<today, wheelDays, granted, soloToday, wins, pointsCall, crossed>>
SoloWin(c) ==
  /\ PointsIdle(c) /\ soloToday < SoloCap
  /\ Asks(c, [at |-> "solo", already |-> soloToday])
  /\ UNCHANGED <<account, today, wheelDays, granted, shared, soloToday, wins, worth, crossed>>
SoloAwarded(c) ==
  LET already == pointsCall[c].already
      award == IF already + SoloAward > SoloCap THEN SoloCap - already ELSE SoloAward
  IN /\ pointsCall[c].at = "solo" /\ Answers(c)
     /\ soloToday' = soloToday + award /\ worth' = worth + award
     /\ account' = [account EXCEPT !.free = @ + award]
     /\ UNCHANGED <<today, wheelDays, granted, shared, wins, crossed>>

WinsATournament ==
  /\ wins < MaxWins /\ wins' = wins + 1
  /\ UNCHANGED <<account, today, wheelDays, granted, shared, soloToday, pointsCall, worth, crossed>>
NewDay ==
  /\ today < LastDay /\ today' = today + 1 /\ soloToday' = 0
  /\ UNCHANGED <<account, wheelDays, granted, shared, wins, pointsCall, worth, crossed>>

PointsInit ==
  /\ account = [free |-> 0, paid |-> 0, streak |-> 0, lastDay |-> 0]
  /\ today = 2 /\ wheelDays = {} /\ granted = {} /\ shared = {} /\ soloToday = 0 /\ wins = 0
  /\ pointsCall = [c \in PointsCalls |-> [at |-> "idle"]] /\ worth = 0 /\ crossed = FALSE
PointsNext ==
  \/ ShareWin \/ WinsATournament \/ NewDay
  \/ \E c \in PointsCalls :
       \/ Spin(c) \/ SpinDrawn(c) \/ ConvertWritten(c) \/ SoloWin(c) \/ SoloAwarded(c)
       \/ \E toFree \in BOOLEAN : Convert(c, toFree)

-----------------------------------------------------------------------------
(* points.service.ts: every change is recorded, and the account is what    *)
(* the records add up to, in points and in days of streak; unless a spin   *)
(* or a conversion wrote over a change made since it read.  Even then the  *)
(* daily cap of solo rewards is passed by one award per handler at most.   *)
PointsAddUp ==
  /\ ~crossed =>
       /\ account.free >= 0 /\ account.paid >= 0 /\ Worth(account) = worth
       /\ account.lastDay - account.streak \notin wheelDays
       /\ account.lastDay - account.streak + 1 .. account.lastDay \subseteq wheelDays
  /\ soloToday <= SoloCap + (Cardinality(PointsCalls) - 1) * SoloAward
=============================================================================
