------------------------------ MODULE MCCpSm ------------------------------
EXTENDS CpSm, TLC

Symmetry == Permutations(Lock) \cup Permutations(Thread)
=============================================================================
