SPECIFICATION BoundedSpec
CONSTANTS
  NoRow = NoRow
  Managers <- MCManagers
  Files <- MCFiles
  Draws <- MCDraws
  Keys <- MCKeys
  ZeroKey <- MCZero
  HighSize = 2
  LowSize = 2
  Count = 1
  CupPlaces <- MCCupPlaces
  Rounds = 2
  s1 = s1
  s2 = s2
  Schedules <- MCSchedules
SYMMETRY Interchangeable
INVARIANTS
  TypeOK
  PointerFollowsMembership
  FixturesAreSound
PROPERTIES
  EveryDrawIsFair
  GenerationKeepsResults
  ExchangeIsFair
