------------------------------ MODULE Payments ------------------------------
(***************************************************************************)
(* What one player pays through the gateway: PaymentOrdersService (orders  *)
(* and the webhook) and SubscriptionRequestService (plans released by the  *)
(* webhook or by an admin).  Every handler is a call that reads and writes *)
(* the database one statement at a time; calls interleave at each of them  *)
(* and any call may end early by an error or a restart of the server.      *)
(*                                                                         *)
(* A reported amount that differs from the order's is dropped, so amounts  *)
(* are left out; no day passes, so `until' counts the days of plan ahead;  *)
(* which plan they are of is left to the requests.                         *)
(***************************************************************************)
EXTENDS Integers, FiniteSets, FiniteSetsExt

CONSTANTS
  Deposits, Checkouts,        \* orders: money for the wallet, or a plan
  Requests,                   \* subscriptionRequest rows, in the order made
  Days,                       \* PLAN_DAYS
  Calls,                      \* handlers in flight at once, numbered
  MaxOrders, MaxFailures      \* bounds: orders opened, calls that fail half-way
Orders == Deposits \cup Checkouts
Plans == DOMAIN Days
None == "none"
ASSUME PaymentsAssumption ==
  /\ Deposits \cap Checkouts = {} /\ Requests \subseteq Nat /\ Calls \subseteq Nat
  /\ Days \in [Plans -> Nat \ {0}]
  /\ None \notin Orders \cup Plans /\ {MaxOrders, MaxFailures} \subseteq Nat
  /\ IsFiniteSet(Requests)

VARIABLES
  order,          \* status of each order, None before it is written
  links,          \* orders whose checkout page the player has
  paid,           \* orders the player has paid at the gateway
  credited,       \* deposit orders in the ledger (the order is the reference)
  request,        \* rows of subscriptionRequest: status, plan and order_nsu
  until,          \* the days of plan the user has ahead
  call,           \* per call: Idle, or its program counter and what it read
  failures,
  overlapped      \* history: two calls were settling plans at the same time

rows  == <<request, until>>
money == <<order, links, paid, credited>>
vars  == <<money, rows, call, failures, overlapped>>

Idle == [pc |-> "idle"]
NoRequest == [status |-> None, plan |-> None, order |-> None]
At(c, pc) == call[c].pc = pc
Free(c) == At(c, "idle") /\ \A d \in Calls : d < c => ~At(d, "idle")
Go(c, s) == call' = [call EXCEPT ![c] = s]
GoTo(c, pc) == call' = [call EXCEPT ![c].pc = pc]
Return(c) == Go(c, Idle)

-----------------------------------------------------------------------------
(* Orders *)

MayOpen(o) == order[o] = None /\ Cardinality({p \in Orders : order[p] # None}) < MaxOrders

(* createDeposit(), once the player's limits allow it: the row, the link.  *)
OpenDeposit(c, o) ==
  /\ Free(c) /\ MayOpen(o)
  /\ Go(c, [pc |-> "mint", order |-> o])
  /\ order' = [order EXCEPT ![o] = "PENDING"]
  /\ UNCHANGED <<links, paid, credited, rows>>
MintDeposit(c) ==
  /\ At(c, "mint") /\ Return(c)
  /\ links' = links \cup {call[c].order}
  /\ UNCHANGED <<order, paid, credited, rows>>

(* External: the player pays at the gateway.                               *)
PlayerPays(o) ==
  /\ o \in links \ paid /\ paid' = paid \cup {o}
  /\ UNCHANGED <<order, links, credited, rows, call>>

(***************************************************************************)
(* handleInfinitePayWebhook().  The gateway reports a payment or a failed  *)
(* attempt, as often as it likes; a report on a PAID order does nothing.   *)
(***************************************************************************)
ReportPaid(c, o) ==
  /\ Free(c) /\ o \in paid /\ order[o] # "PAID"
  /\ Go(c, [pc |-> "claim", order |-> o])
  /\ UNCHANGED <<money, rows>>
ReportFailed(c, o) ==
  /\ Free(c) /\ o \in links /\ order[o] = "PENDING"
  /\ Go(c, [pc |-> "fail", order |-> o])
  /\ UNCHANGED <<money, rows>>
PaymentFailed(c) ==
  LET o == call[c].order IN
  /\ At(c, "fail") /\ Return(c)
  /\ order' = [order EXCEPT ![o] = IF @ = "PENDING" THEN "FAILED" ELSE @]
  /\ UNCHANGED <<links, paid, credited, rows>>

(* Only the call that flips PENDING to PAID acts on the payment.           *)
AnyStatus(o) == TRUE                                   \* mutant of Claimable
Claimable(o) == order[o] = "PENDING"
PurposesSwapped(o) == IF o \in Deposits THEN "find" ELSE "credit"  \* mutant of Purpose
Purpose(o) == IF o \in Deposits THEN "credit" ELSE "find"
Claim(c) ==
  LET o == call[c].order IN
  /\ At(c, "claim")
  /\ IF Claimable(o)
     THEN /\ order' = [order EXCEPT ![o] = "PAID"]
          /\ GoTo(c, Purpose(o))
     ELSE Return(c) /\ UNCHANGED order
  /\ UNCHANGED <<links, paid, credited, rows>>

(* wallet.deposit(): the ledger refuses a reference it has.                *)
Credit(c) ==
  LET o == call[c].order IN
  /\ At(c, "credit") /\ o \notin credited /\ Return(c)
  /\ credited' = credited \cup {o}
  /\ UNCHANGED <<order, links, paid, rows>>

-----------------------------------------------------------------------------
(* Asking for a plan: requestSubscription() with a checkout per player *)

Open == {r \in Requests : request[r].status = "REQUESTED"}
FindOpen(c, plan) ==
  /\ Free(c)
  /\ LET open == IF Open = {} THEN {} ELSE {Max(Open)} IN
     Go(c, [pc |-> "ask", plan |-> plan, open |-> open,
            same |-> \A r \in open : request[r].plan = plan,
            order |-> IF open = {} THEN None ELSE request[Max(Open)].order])
  /\ UNCHANGED <<money, rows>>

(* The next row, or the open one, retargeted if it was for another plan.   *)
(* The row is returned as written, or as read when nothing is written.     *)
Row(c) ==
  IF call[c].open # {} THEN call[c].open
  ELSE {r \in Requests : /\ request[r].status = None
                         /\ \A q \in Requests : request[q].status = None => r <= q}
AskPlan(c) ==
  LET s == call[c] IN
  /\ At(c, "ask")
  /\ \E r \in Row(c) :
       LET nsu == IF s.same THEN s.order ELSE request[r].order IN
       /\ request' = [request EXCEPT ![r] =
            IF s.open = {} THEN [status |-> "REQUESTED", plan |-> s.plan, order |-> None]
            ELSE IF s.same THEN @ ELSE [@ EXCEPT !.plan = s.plan]]
       /\ IF nsu = None THEN Go(c, [pc |-> "checkout", request |-> r]) ELSE Return(c)
  /\ UNCHANGED <<money, until>>
NoRowLeft(c) ==                                        \* bound: Requests
  At(c, "ask") /\ Row(c) = {} /\ Return(c) /\ UNCHANGED <<money, rows>>
(* createSubscriptionCheckout(), then attachOrder(): only then is the link *)
(* in the player's hands.  Without it the request keeps the fixed link.    *)
OpenCheckout(c) ==
  /\ At(c, "checkout")
  /\ \E o \in Checkouts :
       /\ MayOpen(o) /\ order' = [order EXCEPT ![o] = "PENDING"]
       /\ Go(c, [pc |-> "attach", request |-> call[c].request, order |-> o])
  /\ UNCHANGED <<links, paid, credited, rows>>
AttachOrder(c) ==
  LET o == call[c].order IN
  /\ At(c, "attach") /\ Return(c)
  /\ request' = [request EXCEPT ![call[c].request].order = o]
  /\ links' = links \cup {o}
  /\ UNCHANGED <<order, paid, credited, until>>
NoCheckout(c) ==
  /\ At(c, "checkout") \/ At(c, "attach")
  /\ Return(c) /\ UNCHANGED <<money, rows>>

-----------------------------------------------------------------------------
(* Settling a request *)

(* getRequested()                                                          *)
AnyRequest(r) == request[r].status # None              \* mutant of Requested
Requested(r) == request[r].status = "REQUESTED"
Confirming(r) == [pc |-> "user", request |-> r, plan |-> request[r].plan]
AdminConfirms(c, r) ==
  /\ Free(c) /\ Requested(r) /\ Go(c, Confirming(r))
  /\ UNCHANGED <<money, rows>>
AdminRejects(c, r) ==
  /\ Free(c) /\ Requested(r) /\ Go(c, [pc |-> "reject", request |-> r])
  /\ UNCHANGED <<money, rows>>

(* confirmByOrder(), then confirm(), which reads the request again.        *)
FindByOrder(c) ==
  LET found == {r \in Requests : request[r].order = call[c].order /\ Requested(r)} IN
  /\ At(c, "find")
  /\ \/ found = {} /\ Return(c)
     \/ \E r \in found : Go(c, [pc |-> "confirm", request |-> r])
  /\ UNCHANGED <<money, rows>>
ReadAgain(c) ==
  LET r == call[c].request IN
  /\ At(c, "confirm")
  /\ IF Requested(r) THEN Go(c, Confirming(r)) ELSE Return(c)
  /\ UNCHANGED <<money, rows>>

(* confirm(): the days are added to the expiry that was read.              *)
FromNow(c) == 0                                        \* mutant of From
From(c) == until
ReadUser(c) ==
  LET s == call[c] IN
  /\ At(c, "user")
  /\ Go(c, [pc |-> "grant", request |-> s.request, plan |-> s.plan, from |-> From(c)])
  /\ UNCHANGED <<money, rows>>
Grant(c) ==
  LET s == call[c] IN
  /\ At(c, "grant") /\ Go(c, [pc |-> "settle", request |-> s.request])
  /\ until' = s.from + Days[s.plan]
  /\ UNCHANGED <<money, request>>
Settle(c, status) ==
  /\ Return(c)
  /\ request' = [request EXCEPT ![call[c].request].status = status]
  /\ UNCHANGED <<money, until>>
Confirmed(c) == At(c, "settle") /\ Settle(c, "CONFIRMED")
Rejected(c) == At(c, "reject") /\ Settle(c, "REJECTED")

-----------------------------------------------------------------------------
Settling == {"ask", "checkout", "attach", "confirm", "user", "grant", "settle", "reject"}
Init ==
  /\ order = [o \in Orders |-> None]
  /\ links = {} /\ paid = {} /\ credited = {}
  /\ request = [r \in Requests |-> NoRequest]
  /\ until = 0
  /\ call = [c \in Calls |-> Idle]
  /\ failures = 0 /\ overlapped = FALSE

(* A call that an error or a restart ends where it is.                     *)
CallFails(c) ==
  /\ ~At(c, "idle") /\ failures < MaxFailures /\ failures' = failures + 1
  /\ Return(c) /\ UNCHANGED <<money, rows>>

Continue(c) ==
  \/ MintDeposit(c) \/ PaymentFailed(c) \/ Claim(c) \/ Credit(c)
  \/ AskPlan(c) \/ NoRowLeft(c) \/ OpenCheckout(c) \/ AttachOrder(c) \/ NoCheckout(c)
  \/ FindByOrder(c) \/ ReadAgain(c) \/ ReadUser(c) \/ Grant(c) \/ Confirmed(c) \/ Rejected(c)
(* Bound: once two calls have settled plans at once, only payments go on.  *)
Begin(c) ==
  \/ \E o \in Orders : ReportPaid(c, o)
  \/ /\ ~overlapped
     /\ \/ \E o \in Deposits : OpenDeposit(c, o)
        \/ \E o \in Orders : ReportFailed(c, o)
        \/ \E plan \in Plans : FindOpen(c, plan)
        \/ \E r \in Requests : AdminConfirms(c, r) \/ AdminRejects(c, r)
Succeeds ==
  /\ \/ \E c \in Calls : Begin(c) \/ Continue(c)
     \/ \E o \in Orders : PlayerPays(o)
  /\ UNCHANGED failures
Next ==
  /\ Succeeds \/ \E c \in Calls : CallFails(c)
  /\ overlapped' = (overlapped \/ \E c, d \in Calls :
                      c # d /\ call'[c].pc \in Settling /\ call'[d].pc \in Settling)
Spec == Init /\ [][Next]_vars

(* The event loop continues every call; the gateway reports a payment      *)
(* until an answer tells it that the report was taken.                     *)
Reports(o) == Succeeds /\ \E c \in Calls : ReportPaid(c, o)
FairSpec ==
  /\ Spec
  /\ \A c \in Calls : WF_vars(Continue(c) /\ Next)
  /\ \A o \in Orders : SF_vars(Reports(o) /\ Next)

-----------------------------------------------------------------------------
(* Properties *)

MoneyTyped ==
  /\ order \in [Orders -> {None, "PENDING", "PAID", "FAILED"}]
  /\ links \subseteq Orders /\ paid \subseteq links /\ credited \subseteq Deposits
  /\ failures \in Nat
RowsTyped ==
  /\ request \in [Requests -> [status : {None, "REQUESTED", "CONFIRMED", "REJECTED"},
                               plan : Plans \cup {None}, order : Checkouts \cup {None}]]
  /\ until \in Nat /\ overlapped \in BOOLEAN

(* What the call at each point has in hand.                                *)
OrderPcs == {"mint", "claim", "fail", "credit", "find"}
PcsOf(o) == OrderPcs \ (IF o \in Deposits THEN {"find"} ELSE {"mint", "credit"})
Acting(c, o) == call[c].pc \in {"credit", "find"} /\ call[c].order = o
CallsTyped ==
  /\ DOMAIN call = Calls
  /\ \A c \in Calls :
       /\ call[c].pc \in OrderPcs => \E o \in Orders : call[c].order = o /\ call[c].pc \in PcsOf(o)
       /\ At(c, "attach") => call[c].order \in Checkouts
       /\ At(c, "claim") => call[c].order \in paid

(* payment-orders.service.ts:139: a confirmed payment "credits the payer's *)
(* wallet once".  However webhooks race and calls fail, an order is PAID   *)
(* only if it was paid at the gateway, a deposit is in the wallet only if  *)
(* its order is PAID, at most one call is acting on a PAID order and none  *)
(* after the credit; and unless some call failed, a PAID deposit is in the *)
(* wallet or a call is about to put it there.                              *)
PaidOnce ==
  /\ \A o \in Orders : order[o] = "PAID" => o \in paid
  /\ \A o \in credited : order[o] = "PAID"
  /\ \A o \in Orders, c \in Calls : Acting(c, o) => order[o] = "PAID" /\ o \notin credited
  /\ \A o \in Orders, c, d \in Calls : Acting(c, o) /\ Acting(d, o) => c = d
NothingLost ==
  failures = 0 => \A o \in Deposits :
                    order[o] = "PAID" => o \in credited \/ \E c \in Calls : Acting(c, o)
CreditsMatchPayments == MoneyTyped /\ CallsTyped /\ PaidOnce /\ NothingLost

(* subscription-request.service.ts:145: "a renewal never loses paid days": *)
(* the days ahead are those of the confirmed requests, each counted once,  *)
(* however often webhooks and admins settle them, unless two calls were at *)
(* it together or one failed.                                              *)
Granted == MapThenSumSet(LAMBDA r : Days[request[r].plan],
                         {r \in Requests : request[r].status = "CONFIRMED"})
DaysAreKept ==
  /\ RowsTyped
  /\ failures = 0 /\ ~overlapped /\ (\A c \in Calls : call[c].pc # "settle") => until = Granted

(* A deposit paid at the gateway reaches the wallet, if no call fails and  *)
(* no failed attempt was reported for its order: the gateway repeats the   *)
(* report until a call has claimed the order, and that call credits it.    *)
PaymentsArrive ==
  \A o \in Deposits :
    (o \in paid) ~> (o \in credited \/ order[o] = "FAILED" \/ failures > 0)
=============================================================================
