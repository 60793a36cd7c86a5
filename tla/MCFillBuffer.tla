---------------------------- MODULE MCFillBuffer ----------------------------
EXTENDS FillBuffer

CONSTANTS f1, f2

MCFillers == {f1, f2}
=============================================================================
