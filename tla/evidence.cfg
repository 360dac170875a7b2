\* Work dispatched twice, GitHub's clock off by up to the skew, reruns.
SPECIFICATION Spec
CONSTANTS
  Skew = 1
  MaxAge = 2
  Window = 0
  Work <- Twice
  Drifts <- MCDrifts
  Contents <- MCContents
  MaxTime = 3
  MaxPages = 2
  MaxMoves = 4
INVARIANTS
  MatchedRunIsOurs
  ActiveIsRecent
  TerminalIsFirstAttempt
  EvidenceHonest
CHECK_DEADLOCK FALSE
