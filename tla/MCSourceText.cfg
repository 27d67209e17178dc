SPECIFICATION Spec
CONSTANTS
  Width = 16
  Trees <- MCTrees
  Numbers <- MCNumbers
  Lines <- MCLines
  Here <- MCHere
  Labels <- MCLabels
  Files <- MCFiles
  Kuten <- MCKuten
  LinbufSize = 14
  Padding = 4
INVARIANTS
  ValueIsC
  ErrorsKept
  MessagesSound
  NumeralsRead
  PassesCountAlike
  LineNotLeft
  PiecesKeepArgs
  EncodingFound
  LinesAsWritten
  ReadsInBuffer
  BytesAsCharacters
  NoCommentLeft
CHECK_DEADLOCK FALSE
