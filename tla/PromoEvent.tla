----------------------------- MODULE PromoEvent -----------------------------
(***************************************************************************)
(* The prize of one promotion: the row of the event and the money, as      *)
(* PromoService keeps them, while brackets start, end and are lost by      *)
(* restarts and the panel tops up, reschedules and cancels.  Each call     *)
(* reads the row, then posts, then writes the row.  How a bracket is won   *)
(* is PromoBracket's.                                                      *)
(***************************************************************************)
EXTENDS Integers, FiniteSetsExt

CONSTANTS PromoCalls,          \* handlers at a time
          Champions,           \* who may win
          Base, Subscriber,    \* prizeCents, prizeSubscriberCents
          MaxRestarts          \* bound: restarts and failed calls
ASSUME PromoAssumption ==
  /\ Base \in Nat \ {0} /\ Subscriber \in Nat /\ Base <= Subscriber /\ MaxRestarts \in Nat
  /\ IsFiniteSet(Champions)

VARIABLES
  event,      \* the row: rehearsal, status, winnerId, winnerSubscribed, prizePaidCents, startedAt
  spent,      \* the PROMO_PRIZE transactions: [ref, to, cents]
  bracket,    \* of this process: "none", "unmarked", "playing", "over"
  promoCall,
  saving,     \* places on their way to the database: <<player, place>>
  placements, \* the place of each player in the classification, 0 for none
  restarts,
  late        \* history: cancelled, or rescheduled, once an award had read the row

classified == <<saving, placements>>
promoVars == <<event, spent, bracket, promoCall, classified, restarts, late>>
PromoGoes(c, call) == promoCall' = [promoCall EXCEPT ![c] = call]
PromoDone(c) == PromoGoes(c, [at |-> "idle"])
PromoAt(c, at) == promoCall[c].at = at
PromoIdle(c) == PromoAt(c, "idle")
PaidTwice(ref) == FALSE                                \* mutant of Posted
Posted(ref) == \E p \in spent : p.ref = ref

-----------------------------------------------------------------------------
(* A bracket starts, is recorded a little later, and ends with a champion. *)
StartBracket ==
  /\ bracket = "none" /\ event.status = "SCHEDULED" /\ ~event.started
  /\ bracket' = "unmarked"
  /\ UNCHANGED <<event, spent, promoCall, restarts, late, classified>>
markStarted ==
  /\ bracket = "unmarked" /\ bracket' = "playing"
  /\ event' = [event EXCEPT !.started = TRUE]
  /\ UNCHANGED <<spent, promoCall, restarts, late, classified>>
payPromoPrize(c, w, subscribed) ==
  /\ bracket \in {"unmarked", "playing"} /\ bracket' = "over" /\ PromoIdle(c)
  /\ saving' = saving \cup {<<u, IF u = w THEN 1 ELSE 2>> : u \in Champions}
  /\ PromoGoes(c, [at |-> IF event.rehearsal THEN "rehearsed" ELSE "award",
                   to |-> w, subscribed |-> subscribed])
  /\ UNCHANGED <<event, spent, placements, restarts, late>>
finishRehearsal(c) ==
  /\ PromoAt(c, "rehearsed") /\ PromoDone(c)
  /\ event' = IF event.status # "SCHEDULED" THEN event
              ELSE [event EXCEPT !.status = "PAID", !.winner = promoCall[c].to]
  /\ UNCHANGED <<spent, bracket, restarts, late, classified>>
(* Nothing waits for the places, and one may fail to be saved; a player    *)
(* keeps the first one.                                                    *)
recordPlacements(p) ==
  /\ p \in saving /\ saving' = saving \ {p}
  /\ \/ /\ placements' = [placements EXCEPT ![p[1]] = IF @ = 0 THEN p[2] ELSE @]
        /\ UNCHANGED restarts
     \/ restarts < MaxRestarts /\ restarts' = restarts + 1 /\ UNCHANGED placements
  /\ UNCHANGED <<event, spent, bracket, promoCall, late>>

(* awardPrize(): a blocked winner is refused; the unique reference lets one*)
(* award through.                                                          *)
AwardRead(c) ==
  /\ PromoAt(c, "award")
  /\ \/ event.status = "SCHEDULED" /\ PromoGoes(c, [promoCall[c] EXCEPT !.at = "post"])
     \/ PromoDone(c)
  /\ UNCHANGED <<event, spent, bracket, restarts, late, classified>>
Prize(c) == IF promoCall[c].subscribed THEN Subscriber ELSE Base
AwardPosted(c) ==
  /\ PromoAt(c, "post")
  /\ IF Posted("prize") THEN PromoDone(c) /\ UNCHANGED spent
     ELSE /\ spent' = spent \cup {[ref |-> "prize", to |-> promoCall[c].to, cents |-> Prize(c)]}
          /\ PromoGoes(c, [promoCall[c] EXCEPT !.at = "row"])
  /\ UNCHANGED <<event, bracket, restarts, late, classified>>
AwardRecorded(c) ==
  /\ PromoAt(c, "row") /\ PromoDone(c)
  /\ event' = IF event.status # "SCHEDULED" THEN event
              ELSE [event EXCEPT !.status = "PAID", !.winner = promoCall[c].to,
                                 !.subscribed = promoCall[c].subscribed, !.paid = Prize(c)]
  /\ UNCHANGED <<spent, bracket, restarts, late, classified>>

-----------------------------------------------------------------------------
(* The panel *)

(* topUpSubscriberPrize(): the winner's plan was asked for before the start*)
(* and released since.                                                     *)
TopUp(c) ==
  /\ PromoIdle(c) /\ event.status = "PAID" /\ event.started /\ ~event.rehearsal
  /\ ~event.subscribed
  /\ event.paid < Subscriber
  /\ PromoGoes(c, [at |-> "difference", to |-> event.winner, cents |-> Subscriber - event.paid])
  /\ UNCHANGED <<event, spent, bracket, restarts, late, classified>>
TopUpPosted(c) ==
  /\ PromoAt(c, "difference")
  /\ IF Posted("topup") THEN PromoDone(c) /\ UNCHANGED spent
     ELSE /\ spent' = spent \cup
               {[ref |-> "topup", to |-> promoCall[c].to, cents |-> promoCall[c].cents]}
          /\ PromoGoes(c, [at |-> "raise"])
  /\ UNCHANGED <<event, bracket, restarts, late, classified>>
TopUpRecorded(c) ==
  /\ PromoAt(c, "raise") /\ PromoDone(c)
  /\ event' = [event EXCEPT !.subscribed = TRUE, !.paid = Subscriber]
  /\ UNCHANGED <<spent, bracket, restarts, late, classified>>

(* reschedule(), cancel(): what was read is not checked again.             *)
Change(c, to) ==
  /\ PromoIdle(c)
  /\ event.status = "SCHEDULED" \/ (to = "cancel" /\ event.status = "CANCELLED")
  /\ PromoGoes(c, [at |-> to])
  /\ UNCHANGED <<event, spent, bracket, restarts, late, classified>>
Rescheduled(c) ==
  /\ PromoAt(c, "reschedule") /\ PromoDone(c)
  /\ event' = [event EXCEPT !.started = FALSE]
  /\ late' = (late \/ Posted("prize") \/ \E d \in PromoCalls : PromoAt(d, "post"))
  /\ UNCHANGED <<spent, bracket, restarts, classified>>
Cancelled(c) ==
  /\ PromoAt(c, "cancel") /\ PromoDone(c)
  /\ event' = [event EXCEPT !.status = "CANCELLED"]
  /\ late' = (late \/ Posted("prize") \/ \E d \in PromoCalls : PromoAt(d, "post"))
  /\ UNCHANGED <<spent, bracket, restarts, classified>>

(* A call fails where it is, or all of them and the bracket are lost.      *)
PromoFails(c) ==
  /\ restarts < MaxRestarts /\ restarts' = restarts + 1
  /\ ~PromoIdle(c) /\ PromoDone(c)
  /\ UNCHANGED <<event, spent, bracket, late, classified>>
PromoRestart ==
  /\ restarts < MaxRestarts /\ restarts' = restarts + 1 /\ saving' = {}
  /\ bracket' = "none" /\ promoCall' = [c \in PromoCalls |-> [at |-> "idle"]]
  /\ UNCHANGED <<event, spent, placements, late>>

PromoInit ==
  /\ event \in [rehearsal : BOOLEAN, status : {"SCHEDULED"}, winner : {"none"},
               subscribed : {FALSE}, paid : {0}, started : {FALSE}]
  /\ spent = {} /\ bracket = "none" /\ promoCall = [c \in PromoCalls |-> [at |-> "idle"]]
  /\ saving = {} /\ placements = [u \in Champions |-> 0] /\ restarts = 0 /\ late = FALSE
PromoNext ==
  \/ StartBracket \/ markStarted \/ PromoRestart
  \/ \E p \in saving : recordPlacements(p)
  \/ \E c \in PromoCalls :
       \/ \E w \in Champions : \E subscribed \in BOOLEAN : payPromoPrize(c, w, subscribed)
       \/ finishRehearsal(c) \/ AwardRead(c) \/ AwardPosted(c) \/ AwardRecorded(c)
       \/ TopUp(c) \/ TopUpPosted(c) \/ TopUpRecorded(c)
       \/ (\E to \in {"reschedule", "cancel"} : Change(c, to)) \/ Rescheduled(c) \/ Cancelled(c)
       \/ PromoFails(c)

-----------------------------------------------------------------------------
(* promo.service.ts:174 and :344: however brackets are restarted and calls *)
(* repeat or fail, the company pays one winner, at one rate or at the base *)
(* rate and the difference; and a row that says PAID names that winner and *)
(* that money.  The converse, that money spent shows in the row, holds when*)
(* no call failed, none is under way, and the panel did not change the     *)
(* event once an award had read it: nothing repairs the row.  A rehearsal  *)
(* costs nothing, topped up or not; and the winner on record is the first  *)
(* of the classification, unless a restart had the bracket played again.   *)
Spent == MapThenSumSet(LAMBDA p : p.cents, spent)
OnePrizeOneRate ==
  /\ Spent \in {0, Base, Subscriber}
  /\ \A p, q \in spent : p.to = q.to /\ (p.ref = q.ref => p = q)
  /\ event.paid # 0 => Posted("prize") /\ event.paid <= Spent /\ \A p \in spent : p.to = event.winner
  /\ restarts = 0 /\ ~late /\ (\A c \in PromoCalls : PromoIdle(c)) =>
       event.paid = Spent /\ (~event.rehearsal => (event.status = "PAID") = (spent # {}))
  /\ event.rehearsal => spent = {}
  /\ restarts = 0 /\ saving = {} /\ event.winner # "none" => placements[event.winner] = 1
=============================================================================
