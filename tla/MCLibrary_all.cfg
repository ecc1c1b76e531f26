SPECIFICATION MCSpec
CONSTANTS
  Sizes = {2, 6, 7, 35, 36, 38, 52, 69, 70, 71, 104}
  Seeds = {0, 51, 13333}
  Steps = {34, 51, 68}
  ByteXor <- XorOfBytes
  Blocks <- ListBlocks
  Iterations = 2
  BenchValues = {0, 100}
  XorW <- XorOfWords
  OrW <- OrOfWords
  Arguments <- MathArguments
  Bases <- MathBases
  Exponents <- MathExponents
  Orders <- MathOrders
  Vectors <- MCVectors
  Optstrings <- MCOptstrings
  Letters <- MCLetters
  LongOptions <- MCLongOptions
  MaxSize = 2
  MaxCalls = 2
  Workers = {w1, w2}
  Main = main
  Addrs = {a1, a2, a3}
  Null = null
SYMMETRY Symmetry
INVARIANTS
  SameMachine StateNamesFormat ScansInside CorruptionUndone
  ListRestored
  RoundsCorrectly FlagsTell ComparesAsNumbers
  WordsTell
  ErrnoTells InfinitiesAgree
  AccurateBitsTell
  GetoptPermutes
  TotalIsSum ListIsHeap TotalIsAsked AccountsLocked
