--------------------------- MODULE MC_RaceDirector ---------------------------
(* Model-checking instance of RaceDirector: the constants of the runs.    *)
EXTENDS RaceDirector

\* Character uids; two suffice for a master and a second racer.
MC_Chars == {1, 2}
\* Three characters: two queued by the lobby and a late third entry.
MC_Chars3 == {1, 2, 3}
\* The player count requested in MakeRoom (a two-seat room).
MC_PlayerCounts == {2}
\* The course time a racer reports in UserRaceFinal.
MC_CourseTimes == {5}

=============================================================================
