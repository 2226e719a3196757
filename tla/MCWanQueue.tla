---------------------------- MODULE MCWanQueue ----------------------------
EXTENDS WanQueue, TLC
=============================================================================
