\* An award ends the behaviour: there is nothing left to do.
CHECK_DEADLOCK FALSE
CONSTANTS
  N = 4
  MaxChips = 3
  MaxRank = 2
SPECIFICATION AwardSpec
INVARIANTS PaidOrOrphaned ChipByChip EqualHandsSplit
