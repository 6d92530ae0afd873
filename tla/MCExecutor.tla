------------------------------ MODULE MCExecutor -------------------------------
EXTENDS ScheduledExecutor, TLC

Symmetry == Permutations(Workers)
=============================================================================
