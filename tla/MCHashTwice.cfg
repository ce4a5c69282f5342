SPECIFICATION HashSpec
CONSTANTS
  Message <- MCMessage
  BlockLen = 6
  LengthLen = 2
  Digest <- MCDigest
  Leftover = {0, 7}
  WordRange = 16
  Garbage = 256
  MaxCalls = 2
INVARIANT HashDeterministic
CHECK_DEADLOCK FALSE
