CONSTANTS
  Chars <- MC_Chars3
  MaxRoomUid = 1
  MaxStarts = 1
  PlayerCounts <- MC_PlayerCounts
  CourseTimes <- MC_CourseTimes
  RoomPasswords = {FALSE}
  ClientsReEnter = FALSE
SPECIFICATION Spec
INVARIANTS
  RoomCapacity
