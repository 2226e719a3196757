----------------------------- MODULE MCCpGroup -----------------------------
EXTENDS CpGroup, TLC

Symmetry == Permutations(Node) \cup Permutations(Client)
=============================================================================
