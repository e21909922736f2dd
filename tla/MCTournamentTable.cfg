\* Once the bounds are reached a money room may wait for players for ever.
CHECK_DEADLOCK FALSE
CONSTANTS
  Users = {a, b, c}
  StartChips = 1
  Start <- EqualStart
  Ante = 1
  MaxSeats = 2
  MaxDrops = 1
  MaxAsks = 4
SPECIFICATION Spec
SYMMETRY Interchangeable
INVARIANTS TableInv  
PROPERTIES OutStaysOut
