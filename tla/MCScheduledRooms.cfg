\* The window is over: there is nothing left to do.
CHECK_DEADLOCK FALSE
CONSTANTS
  ann = ann bob = bob cid = cid dan = dan
  ann1 = ann1 bob1 = bob1 cid1 = cid1 dan1 = dan1 close1 = close1
  Players = {ann, bob, cid, dan}
  House = {"pool", "rake"}
  Opening <- Wallets
  Level = 1
  Plan <- Plans
  Calls = {ann1, bob1, cid1, dan1}
  CallerOf <- Owners
  Closers = {close1}
  ROOM_SEATS = 20
  prizePoolSharePct = 50
  ROOM_MIN_PLAYERS = 2
  MaxRequests = 5
  MaxFailures = 1
SPECIFICATION Spec
INVARIANTS WindowInv TicketsAreSeats HandedOverOnce RefundedOnce
