SPECIFICATION RestartSpec
CONSTANTS
  Payload <- MCFitting
  Size <- MCSize
  MaxFileSize = 4
  OffsetRange = 8
  FileRange = 5
  SizeRange = 64
  MaxCalls = 5
INVARIANT ReadsBack
CHECK_DEADLOCK FALSE
