SPECIFICATION TxSpec
CONSTANTS
  a = a
  r1 = r1
  r2 = r2
  NoRow = NoRow
  Managers <- MCManagers
  Gameweeks <- ThreeWeeks
  Costs <- MCCosts
  MaxOverride = 0
  Requests <- Two
  Publications <- NoRestatement
SYMMETRY Interchangeable
INVARIANT DueOnceQuiet
