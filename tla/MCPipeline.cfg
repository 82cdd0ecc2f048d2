SPECIFICATION BoundedFairSpec
CONSTANTS
  a = a
  b = b
  NoRow = NoRow
  Managers <- MCManagers
  LastGameweek = 1
  MaxPoints = 1
  Benched <- MCBenched
  Schedule <- HomeAndAway
  Answers <- OneFailureOrQuarantine
INVARIANTS
  ClosedByRuleIsSettled
  NothingEarly
  WalkoverAgainstForfeiter
  ReadersAgree
PROPERTIES
  FinalResultFrozen
  FirstClosingSettles
  PointsStand
  SettledWeekCloses
