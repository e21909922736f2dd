CONSTANTS
  u1 = u1 u2 = u2 u3 = u3 u4 = u4 u5 = u5
  Users = {u1, u2, u3, u4, u5}
  SEATS_PER_TABLE = 3
  FINAL_TABLE_SEATS = 3
  MIN_TABLES_TO_START = 2
  MAX_TABLES = 2
  MinPlayers = 3
  MaxPlayers = 4
  Shuffles <- AnyOrder
SPECIFICATION FairPromoSpec
INVARIANTS RankingIsComplete
PROPERTIES BracketEnds StartsAnyway
CHECK_DEADLOCK FALSE
