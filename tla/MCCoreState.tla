---------------------------- MODULE MCCoreState ----------------------------
\* Small blocks, so that the corrupted bytes meet the end of the text, with
\* the seeds of the presets (core_mith.c:25).
EXTENDS CoreState, Bitwise

\* xor and or of bytes and of 16-bit words, four bits at a time from tables
Nibbles == 0..15
XorTable == [d \in Nibbles, e \in Nibbles |-> d ^^ e]
OrTable  == [d \in Nibbles, e \in Nibbles |-> d | e]
ByNibbles(table, b, c) == table[b % 16, c % 16] + 16 * table[b \div 16, c \div 16]

XorOfBytes(b, c) == ByNibbles(XorTable, b, c)
XorOfWords(b, c) == XorOfBytes(b % 256, c % 256) + 256 * XorOfBytes(b \div 256, c \div 256)
OrOfWords(b, c) ==
  ByNibbles(OrTable, b % 256, c % 256) + 256 * ByNibbles(OrTable, b \div 256, c \div 256)

=============================================================================
