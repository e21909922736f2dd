CONSTANTS
  d1 = d1 s1 = s1
  MONTHLY = MONTHLY QUARTERLY = QUARTERLY
  Deposits = {d1}
  Checkouts = {s1}
  Requests = {1, 2}
  Days <- PlanDays
  Calls = {1, 2}
  MaxFailures = 1 MaxOrders = 1
SPECIFICATION FairSpec
INVARIANTS CreditsMatchPayments DaysAreKept
PROPERTY PaymentsArrive
\* Everything may be paid and settled.
CHECK_DEADLOCK FALSE
