SPECIFICATION Spec
CONSTANTS
  a = a
  b = b
  NoRow = NoRow
  Managers <- MCManagers
  LastGameweek = 1
  MaxPoints = 1
  Benched <- MCBenched
  Schedule <- HomeAndAway
  Answers <- Clean
PROPERTY FinalScoreImmutable
