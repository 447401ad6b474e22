----------------------------- MODULE MCCheckpoints -----------------------------
\* Nine keys, so that the array reaches the lengths at which the square root
\* of its length changes, and blocks after the last of them.
EXTENDS Checkpoints

MCInputs == {0, 1, 2}
=============================================================================
