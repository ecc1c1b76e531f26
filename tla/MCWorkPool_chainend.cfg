\* A chain of two items (mcl = 2) and a free item on two threads.
CONSTANTS
  NumContexts = 2
  MaxIdx = 3
  NumIterations = 2
  VerifyOutput = TRUE
  Verdicts = {0}
  Fake = {}
  MCL = 2
  ChainId <- PairId
  ChainUid <- PairUid
  ChainLen <- PairLen
SPECIFICATION Spec
INVARIANTS ChainEndsTogether
