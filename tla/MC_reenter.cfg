CONSTANTS
  Chars <- MC_Chars
  MaxRoomUid = 1
  MaxStarts = 1
  PlayerCounts <- MC_PlayerCounts
  CourseTimes <- MC_CourseTimes
  RoomPasswords = {FALSE}
  ClientsReEnter = TRUE
SPECIFICATION Spec
INVARIANTS
  RoomMembershipAgrees
