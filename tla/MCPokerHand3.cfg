CONSTANTS
  N = 3
  SmallBlind = 2
  BigBlind = 4
  Stacks = {1, 3, 4, 6, 9, 13}
SPECIFICATION FairSpec
INVARIANTS HandInv TurnsInOrder LegalActionsExact TableStakes BestHandTakesAll
PROPERTIES EveryoneActs HandEnds HandKeepsPromise
