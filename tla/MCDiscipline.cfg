SPECIFICATION Spec
CONSTANTS
  a = a
  NoRow = NoRow
  Managers <- OneManager
  Gameweeks <- MCGameweeks
  Costs <- AllLevels
  MaxOverride = 1
INVARIANTS
  CasesFollowTheRules
  DueIsOnRecord
PROPERTIES
  RecordedOnlyWhenDue
  LedgerSpec
