SPECIFICATION Spec
CONSTANTS
  r1 = r1
  r2 = r2
  Requests = {r1, r2}
  Mixes <- MCMixes
  MaxFailed = 2
  MaxAttempts = 2
  MaxWrong = 3
  MaxSessions = 3
  MaxLinks = 2
  MaxChallenges = 2
  MaxDevices = 1
SYMMETRY Symmetry
INVARIANTS
  TypeOK
  EveryGuessCounts
  OldPasswordIsOut
  ForksOnlyInRaces
  UsedOnce
  GuessesAreBounded
CHECK_DEADLOCK FALSE
