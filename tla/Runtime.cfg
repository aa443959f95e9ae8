SPECIFICATION FairSpec
CONSTANTS
  anonymizer1 = anonymizer1
  anonymizer2 = anonymizer2
  worker1 = worker1
  Streams <- OneStream
  Anonymizers <- OneAnonymizer
  Workers <- OneWorker
  AnonymizerCap = 2
  EncoderCap = 1
  MaxFrame = 2
  MaxRuns = 2
INVARIANTS
  NoThreadOutlivesStop
  FramesAccounted
  OnlyThisRun
  PublishedInOrder
PROPERTY StopReturns
