------------------------------ MODULE MCWords ------------------------------
EXTENDS Words, Bitwise

\* PowerOfTwo is what its name says.
ASSUME \A n \in 1 .. WORD : PowerOfTwo(n) <=> n \in {2 ^ k : k \in 0 .. 16}

\* The source takes words apart with masks: `& (one_lap - 1)` and
\* `& !(one_lap - 1)`.  Because one_lap is a power of two they compute the
\* remainder and the multiple of Index and Lap.
MasksSplitWords ==
  /\ Index(word) = word & (one_lap - 1)
  /\ Lap(word) = word & (WORD - 1 - (one_lap - 1))
=============================================================================
