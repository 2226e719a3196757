---------------------------- MODULE MCCpService ----------------------------
EXTENDS CpService

MCArg == {-1, 3}

MCFamily == {{"AtomicLong"}, {"AtomicReference"}, {"CountDownLatch"}, {"Semaphore"}, {"CPMap"},
             {"FencedLock", "Session"}}

\* The counters get three requests, the types with many operations two.
MCMaxOps == [f \in Family |-> IF f \subseteq {"CountDownLatch", "Semaphore"} THEN 3 ELSE 2]

Symmetry == Permutations(Conn)
=============================================================================
