SPECIFICATION FreshSpec
CONSTANTS
  Payload <- MCAnySize
  Size <- MCSize
  MaxFileSize = 2
  OffsetRange = 4
  FileRange = 3
  SizeRange = 16
  MaxCalls = 5
INVARIANTS WriterTypeOK ReadsBack NeverBehind FilesBounded
CHECK_DEADLOCK FALSE
