------------------------------ MODULE MCMultiSig ------------------------------
EXTENDS MultiSig, TLC
=============================================================================
