-------------------------- MODULE MC_ScoutingStore --------------------------
EXTENDS ScoutingStore, TLC

CONSTANTS k1, k2, r1, r2

MCKeys == {k1, k2}
MCRequests == {r1, r2}
MCMaxActions == 2
MCMaxRequests == 3

MCSymmetry == Permutations(MCKeys) \cup Permutations(MCRequests)
=============================================================================
