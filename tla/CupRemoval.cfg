SPECIFICATION BoundedSpec
CONSTANTS
  NoRow = NoRow
  Managers = {1, 2, 3, 4, 5, 6}
  Division <- MCDivision
  Published <- MCPublished
  Sheets <- MCSheets
PROPERTY RemovedFromCupIsOut
