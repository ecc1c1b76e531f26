SPECIFICATION Spec
CONSTANTS
  NumContexts = 1
  NumIterations = 2
  Kernels = {"unzip"}
INVARIANTS
  FreesItsOwn
