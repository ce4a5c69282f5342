SPECIFICATION CodecSpec
CONSTANTS
  Hash <- MCHash
  Object <- MCObject
  Following <- MCFollowing
INVARIANTS RoundTrip SizesAgree TerminatorEnds CutKeepsPrefix CutUndoBlock UndefinedWhenInputsExceed
CHECK_DEADLOCK FALSE
