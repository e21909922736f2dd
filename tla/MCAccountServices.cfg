CONSTANTS
  c1 = c1 c2 = c2
  PointsCalls = {c1, c2} LimitCalls = {c1, c2} Verifiers = {c1, c2}
  PromoCalls = {c1, c2} ReferralCalls = {c1, c2}
  Rate = 2 SoloAward = 1 SoloCap = 1 ShareAward = 1 LastDay = 4 MaxWins = 1
  Wheel <- OneWheel
  Milestones <- FirstDay
  Windows = {"daily", "weekly"}
  Unlimited = 3 CoolingOff = 2 LastHour = 3
  Breaks = {1, 2}
  WindowHours <- Reach
  Amounts = {1, 2} MaxDeposits = 3
  MAX_ATTEMPTS = 2 MAX_REQUESTS_PER_WINDOW = 1
  CODE_TTL = 1 REQUEST_WINDOW = 1 MaxCodes = 2 MaxClock = 2
  Champions = {"ana", "bia"}
  Base = 1 Subscriber = 3 MaxRestarts = 2
  Members = {"eva", "leo"}
  Codes = {"EVA47", "LEO10", "JOAO10"}
SPECIFICATION Spec
INVARIANTS PointsAddUp ProtectionHolds GuessesRunOut OnePrizeOneRate OneOwnerPerCode
CHECK_DEADLOCK FALSE
