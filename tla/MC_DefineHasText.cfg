SPECIFICATION Spec
CONSTANTS
  a = a
  b = b
  c = c
  main = main
  inc = inc
  NoName = NoName
  Nameless = Nameless
  Names <- MCNames
  FileNames <- MCFileNames
  MainFile = main
  Sources <- MCSources
  FILN_IF_NEST = 3
  FILN_MAC_NEST = 2
  FILN_INCL_NUM = 2
  StackLimit = 4
  Room = 4
  Halves <- MCHalves
  MaxIfs = 2
  MaxUses = 2
  MaxNames = 3
PROPERTY
  DefineHasText
