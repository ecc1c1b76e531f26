---------------------------- MODULE MCAccurateBits ----------------------------
\* limbs of 4 bits; doubles of 6 bits of fraction, singles of 3
EXTENDS AccurateBits

MCPrecision == [dp |-> [fraction |-> 6, bias |-> 24, expMax |-> 49, ignored |-> 12, epsilon |-> -20],
                sp |-> [fraction |-> 3, bias |-> 12, expMax |-> 25, ignored |-> 5, epsilon |-> -10]]

Encoded(exps, fracs) == [sign : {0, 1}, exp : exps, frac : fracs]

MCEncodings == [dp |-> Encoded({0, 1, 3, 5, 23, 24, 25, 28, 36, 37, 49}, {0, 1, 15, 16, 37, 63}),
                sp |-> Encoded({0, 1, 2, 3, 12, 13, 14, 15, 16, 17, 18, 25}, {0, 1, 3, 4, 7})]
MCBuffers == [dp |-> Encoded({24}, {0, 1, 63}), sp |-> Encoded({11, 12}, {0, 7})]
=============================================================================
