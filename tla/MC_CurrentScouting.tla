------------------------ MODULE MC_CurrentScouting ------------------------
(* Small instance of CurrentScouting for TLC.                             *)
EXTENDS CurrentScouting, TLC

CONSTANTS t1, t2, alice, bob, r1, r2

MCTeams == {t1, t2}
MCUsers == {alice, bob}
MCRequests == {r1, r2}
\* Two ticks of time-to-live and a clock that reaches past it, so that
\* entries exactly TTL old, and younger ones, both occur.
MCTTL == 2
MCMaxTime == 3
MCMaxCrashes == 1
\* Teams, users and goroutines are interchangeable.
MCSymmetry == Permutations(MCTeams) \cup Permutations(MCUsers) \cup Permutations(MCRequests)
=============================================================================
