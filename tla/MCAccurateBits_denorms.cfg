SPECIFICATION Spec
CHECK_DEADLOCK FALSE
CONSTANTS
  LimbBits = 4
  Limbs = 6
  Precision <- MCPrecision
  Encodings <- MCEncodings
  Buffers <- MCBuffers
  MinOk = 3
INVARIANTS DenormsTell
