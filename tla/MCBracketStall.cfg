\* A bound reached may stop the room.
CHECK_DEADLOCK FALSE
CONSTANTS
  Users = {a, b, c}
  StartChips = 1
  Start <- EqualStart
  Ante = 1
  MaxSeats = 2
  MaxDrops = 1
  MaxAsks = 0
SPECIFICATION Spec
INVARIANT BracketHasWinner
