CONSTANTS
  ann = ann bob = bob cat = cat dan = dan
  Players = {ann, bob, cat, dan}
  House = {"pool", "rake"}
  Opening <- Wallets
  Level = 1
  Plan <- Plans
  SEATS_PER_TABLE = 3
  FINAL_TABLE_SEATS = 3
  MIN_TABLES_TO_START = 2
  MAX_TABLES = 14
  StartSize = 3
  Arrivals <- InOneOrder
  MaxMishaps = 1
SPECIFICATION FairSpec
INVARIANTS EntriesArePooled
PROPERTIES RoundByRound 
CHECK_DEADLOCK FALSE
