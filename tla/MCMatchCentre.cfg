SPECIFICATION BoundedMatch
CONSTANTS
  f = f
  g = g
  a = a
  b = b
  NoRow = NoRow
  NoWeek = 0
  MaxClock = 1
  MaxPoints = 1
  Fixtures <- TwoFixtures
  Players <- TwoPlayers
  Appears <- InTheTeams
  OnFromStart <- Starters
  Weeks <- TwoWeeks
  Home <- HomeSquad
  Away <- AwaySquad
  Missing = Missing
  SecondHalfStart = 3
  LastWeek = 4
  ChipsPerHalf = {"wildcard", "bboost"}
INVARIANTS
  CountedOnce
  PageAddsUp
PROPERTIES
  ClockTellsTheTime
  FiguresArrive
  AnswersAreRead
