------------------------------ MODULE MCSpsc ------------------------------
EXTENDS Spsc, TLC

Symmetry == Permutations(Producer) \cup Permutations(Value)
=============================================================================
