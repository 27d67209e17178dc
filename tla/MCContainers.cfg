SPECIFICATION MCSpec
CONSTANTS
  Keys <- MCKeys
  Loads <- MCLoads
  Strings <- MCStrings
  TableSize = 5
INVARIANTS
  TypeOK
  Ordered
  Balanced
  TblTypeOK
  Sorted
  NotMissed
PROPERTIES
  ImplementsSet
  ClearFreesAll
  TableImplementsSet
  CallsReturn
