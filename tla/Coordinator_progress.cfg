SPECIFICATION FairSpec
CONSTANTS
  MaxFrame = 2
  ReorderWindow = 0
  PendingLimit = 1
  FaceMode = "independent"
  BlankFrames <- BlankSecond
  LossyFrames <- LossyButLast
INVARIANTS
  CommitPassesOnlyOverrun
  BacklogFitsWindow
PROPERTIES
  TrackedFramesAreSettled
