------------------------------- MODULE MCHlc -------------------------------
EXTENDS Hlc, TLC

CONSTANTS a1, a2, b1

Homes == (a1 :> 0) @@ (a2 :> 0) @@ (b1 :> 1)

AThreads == Permutations({a1, a2})
=============================================================================
