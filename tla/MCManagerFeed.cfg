SPECIFICATION BoundedFeed
CONSTANTS
  p = p
  q = q
  w1 = w1
  w2 = w2
  NoRow = NoRow
  Malformed = Malformed
  Managers <- League
  Workers <- TwoTicks
  Squads <- TwoSquads
  BatchSize = 2
  MaxFailing = 1
INVARIANTS
  SnapshotsAreSound
  SomeoneIsNext
PROPERTIES
  EveryoneComesRound
