\* A second HandleStartRace from the master; no liveness, no invariants:
\* the question is only whether the stage sequence is the abstract one.
CONSTANTS
  Chars <- MC_Chars
  MaxRoomUid = 1
  MaxStarts = 2
  PlayerCounts <- MC_PlayerCounts
  CourseTimes <- MC_CourseTimes
  RoomPasswords = {FALSE}
  ClientsReEnter = FALSE
SPECIFICATION Spec
PROPERTIES
  RaceStagesRefined
