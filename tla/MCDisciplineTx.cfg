SPECIFICATION TxSpec
CONSTANTS
  a = a
  r1 = r1
  r2 = r2
  NoRow = NoRow
  Managers <- MCManagers
  Gameweeks <- TwoWeeks
  Costs <- MCCosts
  MaxOverride = 0
  Requests <- Two
  Publications <- Withdrawals
SYMMETRY Interchangeable
CONSTRAINT TwoAtOnce
INVARIANTS
  DeductionIsExplained
  LedgerHasItsEffects
PROPERTIES
  LedgerSpec
