SPECIFICATION Spec
CONSTANTS
  a = a
  b = b
  NoName = NoName
  Here = Here
  Names <- MCNames
  Sources <- MCSources
  optEndianMode = 0
  optAutoAlign = 3
  Slack = 1
  MaxLayout = 4
  MaxLabels = 4
  MaxImage = 3
INVARIANTS
  TypeOK
  AgreementInvariant
  PassesAgree
  WritesInBounds
  LabelIsAddress
  HeaderListsExports
  SilentImageExact
  GapsAreZero
PROPERTIES
  LabelsBindOnce
