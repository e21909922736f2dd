CONSTANTS
  N = 2
  SmallBlind = 2
  BigBlind = 4
  Stacks = {1, 2, 3, 4, 5, 6, 7, 8, 9, 12, 15}
SPECIFICATION Spec
INVARIANT HeadsUpZeroSum
