---------------------------- MODULE MCEnumerableMap ----------------------------
\* A map from uint256 to address with three keys and, of the values, the zero
\* address and another one.
EXTENDS EnumerableMap

MCKeys == {0, 1, 3}
MCValues == {0, 1}
=============================================================================
