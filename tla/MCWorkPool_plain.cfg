\* Three threads, three items without chains, two iterations each.
CONSTANTS
  NumContexts = 3
  MaxIdx = 3
  NumIterations = 2
  VerifyOutput = FALSE
  Verdicts = {0, 1}
  Fake = {}
  MCL = 0
  ChainId <- NoChainId
  ChainUid <- NoChainUid
  ChainLen <- NoChainLen
SPECIFICATION Spec
INVARIANTS TypeOK Conservation LockStep FailuresAreOwn
PROPERTIES KeepsPromise
