---------------------------- MODULE MCNewContext ----------------------------
EXTENDS NewContext, TLC

CONSTANTS c1, c2, c3

MCContexts == {c1, c2, c3}

MCSymmetry == Permutations(MCContexts)
=============================================================================
