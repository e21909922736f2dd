CONSTANTS
  ann = ann bob = bob a1 = a1 a2 = a2 b1 = b1
  Players = {ann, bob}
  Sockets = {a1, a2, b1}
  UserOf <- Owners
  House = {"pool", "rake"}
  Opening <- Wallets
  Level = 1
  Plan <- Plans
  MaxRestarts = 1
  MaxFailures = 1
SPECIFICATION Spec
SYMMETRY Interchangeable
INVARIANTS RoomInv EntrantsHoldTickets
PROPERTIES OneTicketOneCharge
