\* One character; the course registry caps a magic race's gauge at 1 and a
\* speed race's at 2.  A race started in magic mode, a ChangeRoomOptions to
\* speed during it, and a horseshoe pick-up.
CONSTANTS
  Chars = {1}
  Modes <- MC_Modes
  GameModeInfo <- MC_DiffInfo
  MapDeckItems <- MC_MapDeckItems
  Word = 8
  JumpComboCap = 2
  GoldHorseshoeStep = 2
  SilverHorseshoePoints = 1
  NoItemHeldBoostAmount = 1
  Gains = {1}
  Hurdles = {"Perfect", "Good", "Collision"}
  SetIds = {0, 1}
  MaxStarts = 1
  MaxInstances = 1
  MaxItems = 3
SPECIFICATION Spec
\* Once every client has left the last room the bound allows, nothing is
\* enabled: the lobby would create another room.
CHECK_DEADLOCK FALSE
INVARIANTS
  GaugeWithinMax
