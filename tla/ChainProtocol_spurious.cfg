\* The same protocol with condition waits that may return unsignalled.
CONSTANTS
  NumItems = 2
  NumBuffers = 2
SPECIFICATION SpuriousSpec
INVARIANTS AckOnReady
