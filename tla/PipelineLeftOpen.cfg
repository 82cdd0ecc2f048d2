SPECIFICATION FairSpec
CONSTANTS
  a = a
  b = b
  NoRow = NoRow
  Managers <- MCManagers
  LastGameweek = 2
  MaxPoints = 1
  Benched <- MCBenched
  Schedule <- HomeAndAway
  Answers <- Clean
PROPERTY EveryWeekCloses
