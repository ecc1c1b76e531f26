---------------------------- MODULE MCFdlibmWords ----------------------------
\* a double of 6 bits of exponent and 9 of fraction, 4 of them in the high word
EXTENDS FdlibmWords

MCSingle == [exp |-> 5, frac |-> 2]
MCDouble == [exp |-> 6, frac |-> 9]
MCWordOperands ==
  {Pack(MCDouble, s, e, m) : s \in {0, 1}, e \in {0, 1, 30, 31, 32, 33, 34, 35, 36, 39, 40, 62, 63},
                             m \in {0, 1, 15, 16, 31, 32, 33, 255, 256, 257, 341, 511}}
Empty == {}

=============================================================================
