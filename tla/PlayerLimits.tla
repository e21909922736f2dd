---------------------------- MODULE PlayerLimits ----------------------------
(***************************************************************************)
(* The limits one player sets on themselves: PlayerLimitService.  A call   *)
(* reads the row, promotes a raise that is due, and writes what it decided *)
(* from the row it read.  `Unlimited' is a ceiling of null.  A deposit is  *)
(* held against the ceilings when it is asked for, and arrives later.      *)
(***************************************************************************)
EXTENDS Integers, Sequences, Functions

CONSTANTS LimitCalls,          \* handlers at a time
          Windows,             \* daily, weekly, monthly
          Unlimited,           \* looser than any ceiling: they are 1, 2, ... below it
          CoolingOff,          \* COOLING_OFF_HOURS
          WindowHours,         \* WINDOW_MS: how far each window reaches back
          Breaks,              \* lengths of a self-exclusion
          Amounts,
          LastHour, MaxDeposits  \* bounds
ASSUME LimitsAssumption ==
  /\ WindowHours \in [Windows -> Nat] /\ Amounts \subseteq Nat \ {0} /\ MaxDeposits \in Nat
  /\ {Unlimited, CoolingOff, LastHour} \subseteq Nat \ {0} /\ Breaks \subseteq Nat \ {0}

VARIABLES
  hour,
  limits,      \* the row: ceiling, pending and effectiveAt, 0 for no pending raise
  excludedUntil,
  deposits,    \* the orders: cents, the hour received, 0 for not yet, and the ceilings
               \* they were let in under
  limitCall,
  asked, from, \* history: per window the last value asked for, and when it may apply
  longest,     \* history: the longest break asked for
  raced,       \* history: "limits" or "break", which one call wrote while another was
               \* about to
  stacked      \* history: a deposit was asked for while another was under way

depositVars == <<deposits, stacked>>
limitsVars == <<hour, limits, excludedUntil, limitCall, asked, from, longest, raced, depositVars>>
Ceilings == 1..Unlimited
isRaise(current, wanted) == wanted > current
LimitRequests == UNION {[ws -> Ceilings] : ws \in SUBSET Windows}
LimitIdle(c) == limitCall[c].at = "idle"
LimitGoes(c, call) == limitCall' = [limitCall EXCEPT ![c] = call]
LimitDone(c) == LimitGoes(c, [at |-> "idle"])
Races(c, what) ==
  raced' = raced \cup {what : d \in {d \in LimitCalls \ {c} :
                          ~LimitIdle(d) /\ (limitCall[d].at = "break") = (what = "break")}}

-----------------------------------------------------------------------------
(* get() and set(): promoteIfDue() first, then what the call is for.       *)
Due(row) == row.effectiveAt # 0 /\ row.effectiveAt <= hour
Reads(c, call) ==
  LimitGoes(c, IF Due(limits) THEN [at |-> "promote", then |-> call, row |-> limits] ELSE call)
AskLimits(c, next) ==
  /\ LimitIdle(c)
  /\ Reads(c, [at |-> "set", next |-> next, row |-> limits])
  /\ UNCHANGED <<hour, limits, excludedUntil, asked, from, longest, raced, depositVars>>
Promote(c) ==
  /\ limitCall[c].at = "promote"
  /\ limits' = [ceiling |-> limitCall[c].row.pending, pending |-> limitCall[c].row.pending,
                effectiveAt |-> 0]
  /\ LimitGoes(c, [limitCall[c].then EXCEPT !.row = limits'])
  /\ Races(c, "limits")
  /\ UNCHANGED <<hour, excludedUntil, asked, from, longest, depositVars>>

(* A value no looser than the ceiling applies now; a raise waits, in a     *)
(* snapshot of all windows which a tightening also lands in.               *)
Immediate(row, next) == {w \in DOMAIN next : ~isRaise(row.ceiling[w], next[w])}
Delayed(row, next) == DOMAIN next \ Immediate(row, next)
Override(f, next, ws) == [w \in DOMAIN f |-> IF w \in ws THEN next[w] ELSE f[w]]
RaisesOnly(row, next) ==                               \* mutant of Snapshot
  Override(IF row.effectiveAt # 0 THEN row.pending ELSE row.ceiling, next, Delayed(row, next))
Snapshot(row, next) ==
  Override(IF row.effectiveAt # 0 THEN row.pending ELSE row.ceiling, next, DOMAIN next)
(* What set() writes: the pending columns only when there is or was a raise. *)
Written(row, next) ==
  LET ceiling  == Override(row.ceiling, next, Immediate(row, next))
      waiting  == Delayed(row, next) # {} \/ row.effectiveAt # 0
      snapshot == Snapshot(row, next)
      raises   == \E w \in Windows : isRaise(ceiling[w], snapshot[w])
      at       == IF Delayed(row, next) # {} THEN hour + CoolingOff ELSE row.effectiveAt
      now      == Override(limits.ceiling, next, Immediate(row, next))
  IN IF waiting
     THEN [ceiling |-> now, pending |-> IF raises THEN snapshot ELSE now,
           effectiveAt |-> IF raises THEN at ELSE 0]
     ELSE [limits EXCEPT !.ceiling = now, !.pending = IF limits.effectiveAt = 0 THEN now ELSE @]
SetLimits(c) ==
  LET row  == limitCall[c].row
      next == limitCall[c].next
  IN /\ limitCall[c].at = "set" /\ LimitDone(c)
     /\ limits' = Written(row, next)
     /\ asked' = Override(asked, next, DOMAIN next)
     /\ from' = [w \in Windows |-> IF w \in Delayed(row, next) THEN hour + CoolingOff
                                   ELSE IF w \in DOMAIN next THEN 0 ELSE from[w]]
     /\ Races(c, "limits")
     /\ UNCHANGED <<hour, excludedUntil, longest, depositVars>>

-----------------------------------------------------------------------------
(* selfExclude(): a break can be extended, not shortened.                  *)
AskBreak(c, days) ==
  /\ LimitIdle(c) /\ excludedUntil <= hour + days
  /\ LimitGoes(c, [at |-> "break", until |-> hour + days])
  /\ UNCHANGED <<hour, limits, excludedUntil, asked, from, longest, raced, depositVars>>
TakeBreak(c) ==
  /\ limitCall[c].at = "break" /\ LimitDone(c)
  /\ excludedUntil' = limitCall[c].until
  /\ longest' = (IF longest < limitCall[c].until THEN limitCall[c].until ELSE longest)
  /\ Races(c, "break")
  /\ UNCHANGED <<hour, limits, asked, from, depositVars>>

-----------------------------------------------------------------------------
(* assertDepositAllowed(): not during a break, and what was received in    *)
(* each window leaves room for the amount; what is still on its way does   *)
(* not count, nor is anything checked again when it arrives.               *)
NothingUsed(ds, w, now) == 0                           \* mutant of usedByWindow
usedByWindow(ds, w, now) ==
  SumFunctionOnSet([i \in DOMAIN ds |-> ds[i].cents],
                   {i \in DOMAIN ds : ds[i].received \in (now - WindowHours[w] .. now) \ {0}})
AskDeposit(c, cents) ==
  /\ LimitIdle(c) /\ Len(deposits) < MaxDeposits
  /\ Reads(c, [at |-> "deposit", cents |-> cents, row |-> limits])
  /\ UNCHANGED <<hour, limits, excludedUntil, asked, from, longest, raced, depositVars>>
DepositAllowed(c) ==
  LET ceiling == limitCall[c].row.ceiling
      cents   == limitCall[c].cents
  IN /\ limitCall[c].at = "deposit" /\ LimitDone(c)
     /\ IF /\ excludedUntil <= hour /\ Len(deposits) < MaxDeposits
           /\ \A w \in Windows : ceiling[w] = Unlimited \/ usedByWindow(deposits, w, hour) + cents <= ceiling[w]
        THEN /\ deposits' = Append(deposits, [cents |-> cents, received |-> 0, under |-> ceiling])
             /\ stacked' = (stacked \/ \E i \in DOMAIN deposits : deposits[i].received = 0)
        ELSE UNCHANGED depositVars
     /\ UNCHANGED <<hour, limits, excludedUntil, asked, from, longest, raced>>
DepositArrives(i) ==
  /\ deposits[i].received = 0
  /\ deposits' = [deposits EXCEPT ![i].received = hour]
  /\ UNCHANGED <<hour, limits, excludedUntil, limitCall, asked, from, longest, raced, stacked>>

HourPasses ==
  /\ hour < LastHour /\ hour' = hour + 1
  /\ UNCHANGED <<limits, excludedUntil, limitCall, asked, from, longest, raced, depositVars>>

LimitsInit ==
  LET open == [w \in Windows |-> Unlimited] IN
  /\ hour = 1 /\ limits = [ceiling |-> open, pending |-> open, effectiveAt |-> 0]
  /\ excludedUntil = 0 /\ limitCall = [c \in LimitCalls |-> [at |-> "idle"]]
  /\ asked = open /\ from = [w \in Windows |-> 0] /\ longest = 0 /\ raced = {}
  /\ deposits = <<>> /\ stacked = FALSE
(* A player who deposits, one call at a time.                              *)
DepositsNext ==
  \/ HourPasses \/ \E i \in DOMAIN deposits : DepositArrives(i)
  \/ \E c \in LimitCalls :
       \/ \A d \in LimitCalls : LimitIdle(d)
          /\ \/ \E v \in Ceilings : AskLimits(c, [w \in Windows |-> v])
             \/ \E cents \in Amounts : AskDeposit(c, cents)
             \/ \E days \in Breaks : AskBreak(c, days)
       \/ Promote(c) \/ SetLimits(c) \/ TakeBreak(c) \/ DepositAllowed(c)
LimitsNext ==
  \/ HourPasses
  \/ \E c \in LimitCalls :
       \/ (\E next \in LimitRequests : AskLimits(c, next)) \/ Promote(c) \/ SetLimits(c)
       \/ (\E days \in Breaks : AskBreak(c, days)) \/ TakeBreak(c)

-----------------------------------------------------------------------------
(* player-limit.service.ts:11: a ceiling is what was last asked for it,    *)
(* except a raise, which waits out its own cooling-off in full while the   *)
(* ceiling stays; no pending raise of another window undoes a tightening;  *)
(* and a break lasts as long as the longest one asked for.  Two changes of  *)
(* the same kind under way at once are exempt: the later one overwrites.   *)
(* No deposit takes what a window received over the ceiling it was let in  *)
(* under, unless two were asked for before either arrived.                 *)
ProtectionHolds ==
  /\ "break" \notin raced => excludedUntil = longest
  /\ "limits" \notin raced => \A w \in Windows :
       \/ limits.ceiling[w] = asked[w] /\ hour >= from[w]
       \/ /\ limits.ceiling[w] < asked[w] /\ limits.pending[w] = asked[w]
          /\ limits.effectiveAt >= from[w]
  /\ ~stacked => \A i \in DOMAIN deposits : \A w \in Windows :
       deposits[i].received # 0 /\ deposits[i].under[w] # Unlimited =>
         usedByWindow(SubSeq(deposits, 1, i), w, deposits[i].received) <= deposits[i].under[w]
=============================================================================
