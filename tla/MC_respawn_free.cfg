CONSTANTS
  Chars = {1}
  Modes <- MC_Modes
  GameModeInfo <- MC_SameInfo
  MapDeckItems <- MC_OneDeckItem
  Word = 8
  JumpComboCap = 1
  GoldHorseshoeStep = 2
  SilverHorseshoePoints = 1
  NoItemHeldBoostAmount = 1
  Gains = {}
  Hurdles = {}
  SetIds = {0}
  MaxStarts = 1
  MaxInstances = 1
  MaxItems = 1
SPECIFICATION Spec
CHECK_DEADLOCK FALSE
PROPERTIES
  RespawnTaskRunsOnLiveInstance
