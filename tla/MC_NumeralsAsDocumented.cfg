SPECIFICATION Spec
CONSTANTS
  Width = 16
  Trees <- MCTrees
  Numbers <- MCNumbers
  Lines <- MCLines
  Here <- MCHere
  Labels <- MCLabels
  Files <- MCFiles
  Kuten <- MCKuten
  LinbufSize = 14
  Padding = 4
INVARIANTS
  NumeralsAsDocumented
CHECK_DEADLOCK FALSE
