SPECIFICATION WordsSpec
CHECK_DEADLOCK FALSE
CONSTANTS
  Single <- MCSingle
  Double <- MCDouble
  Int32 = 7
  Int64 = 16
  IntGuard = 2
  Operands32 <- Empty
  Others32 <- Empty
  Operands64 <- Empty
  Others64 <- Empty
  Ints32 <- Empty
  Ints64 <- Empty
  LowBits = 5
  WordOperands <- MCWordOperands
  OtherWords <- Empty
  Shifts <- Empty
INVARIANTS RintRounds
