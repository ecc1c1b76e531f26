SPECIFICATION Spec
CONSTANTS
  Programs <- MCPrograms
  IterationFlags = {0, 1, 2, 4, 293, 683, 1023, 2047}
  ContextFlags = {0, 1, 2, 3, 7, 8, 15}
  MaxCalls = 2
  Word = 2048
INVARIANTS PoolFindsItems ContextsEngaged ReportIsTrue CleanupFindsParams NothingLeaks VerdictIsOfRun
PROPERTIES CallsReturn
