\* One lobby thread and one race server thread sharing two rooms.
CONSTANTS
  LobbyThreads = {lobby}
  RaceThreads = {race}
  MaxRoomUid = 2
SPECIFICATION Spec
INVARIANTS
  NoRoomVanishesInUse
