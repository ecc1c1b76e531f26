SPECIFICATION Spec
CONSTANTS
  NumContexts = 2
  NumIterations = 3
  Kernels = {"zip", "parser", "sha", "core", "nnet", "linpack", "loops", "radix2", "cjpeg", "parserFile", "cjpegPreset"}
INVARIANTS
  NoDanglingUse
  FreesItsOwn
  NoInterference
  NothingLeaks
