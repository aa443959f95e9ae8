SPECIFICATION Spec
CONSTANTS
  MaxFrame = 3
  ReorderWindow = 1
  PendingLimit = 1
  FaceMode = "assigned"
  BlankFrames <- BlankSecond
  LossyFrames <- LossyButLast
INVARIANTS
  CommittedBoxesFinal
  GivenUpOnlyLate
  CursorsFollowStages
PROPERTIES
  CursorsAdvance
  ImplementsCommitLog
