\* A chain of two items (mcl = 2) and a free item on two threads; the second item of the chain has no init_func.
CONSTANTS
  NumContexts = 2
  MaxIdx = 3
  NumIterations = 2
  VerifyOutput = FALSE
  Verdicts = {0, 1}
  Fake = {1}
  MCL = 2
  ChainId <- PairId
  ChainUid <- PairUid
  ChainLen <- PairLen
SPECIFICATION Spec
INVARIANTS FailuresReported
