SPECIFICATION FairSpec
CONSTANTS
  Callers = {c1, c2}
  Readers = {r1, r2}
  MaxSeq = 2
INVARIANTS
  NoReaderMissesPush
  HungOnlyIfBetween
  StoppedForGood
PROPERTY ShutdownEnds
CHECK_DEADLOCK FALSE
