\* Four items pass three buffers; condition waits return only when signalled.
CONSTANTS
  NumItems = 4
  NumBuffers = 3
SPECIFICATION FairSpec
INVARIANTS InOrder AckOnReady SignalIsSet
PROPERTIES ChainCompletes
