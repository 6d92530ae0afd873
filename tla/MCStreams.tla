------------------------------ MODULE MCStreams -------------------------------
EXTENDS Streams, TLC

Symmetry == Permutations(Accounts)
=============================================================================
