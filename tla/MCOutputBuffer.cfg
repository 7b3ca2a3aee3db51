CONSTANTS
  Planned = 2
  MaxRows = 6
  MaxGrowths = 3
SPECIFICATION Spec
INVARIANTS
  NoUseAfterFree
  SupersededIsFreed
  ViewsKeepTheirRow
