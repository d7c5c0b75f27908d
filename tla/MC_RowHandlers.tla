-------------------------- MODULE MC_RowHandlers --------------------------
(* Small instance of RowHandlers for TLC.                                 *)
EXTENDS RowHandlers, TLC

CONSTANTS k1, k2, p1, r1, r2

MCKeys == {k1, k2}
MCPayloads == {p1}
MCRequests == {r1, r2}
\* A shift schedule of two assignments, so that one can fail after the
\* other is stored; four requests, so that two submissions and a read of
\* their rows can follow one another.
MCMaxShifts == 2
MCMaxRequests == 4
=============================================================================
