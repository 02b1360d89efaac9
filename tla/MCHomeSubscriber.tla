-------------------------- MODULE MCHomeSubscriber --------------------------
EXTENDS HomeSubscriber, TLC

CONSTANTS i1, i2
Symmetric == Permutations({i1, i2})
=============================================================================
