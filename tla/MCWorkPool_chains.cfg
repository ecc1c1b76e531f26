\* Three threads; a chain of two, a free item and a chain of three (mcl = 3), two iterations.
CONSTANTS
  NumContexts = 3
  MaxIdx = 6
  NumIterations = 2
  VerifyOutput = FALSE
  Verdicts = {0}
  Fake = {}
  MCL = 3
  ChainId <- ShortLongId
  ChainUid <- ShortLongUid
  ChainLen <- ShortLongLen
SPECIFICATION FairSpec
INVARIANTS NoIterationTwice ChainRunsTogether
PROPERTIES RunEnds
