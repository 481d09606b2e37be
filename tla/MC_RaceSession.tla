--------------------------- MODULE MC_RaceSession ---------------------------
(* Constants for RaceSession: two characters, a scaled uint32 and course   *)
(* registry values small enough that the gauge reaches its maximum in two  *)
(* steps.                                                                  *)
EXTENDS RaceSession

MC_Chars == {1, 2}
MC_Modes == {"Speed", "Magic"}

\* GameModeInfo of one mode, with the given star-point maximum.
ModeInfo(max) ==
  [starPointsMax |-> max, spurConsumeStarPoints |-> 1,
   perfectJumpStarPoints |-> 1, perfectJumpUnitStarPoints |-> 1,
   perfectJumpMaxBonusCombo |-> 1, goodJumpStarPoints |-> 1,
   usedDeckItemIds |-> <<GoldHorseshoe, SilverHorseshoe>>]
MC_SameInfo == [m \in MC_Modes |-> ModeInfo(2)]

\* The course registry gives each mode its own maximum: a magic race's
\* gauge is capped lower than a speed race's.
MC_DiffInfo == [m \in MC_Modes |-> IF m = "Speed" THEN ModeInfo(2) ELSE ModeInfo(1)]

MC_MapDeckItems == <<SilverHorseshoe, GoldHorseshoe>>
MC_OneDeckItem == <<GoldHorseshoe>>
MC_SmallInfo == [m \in MC_Modes |-> ModeInfo(1)]
=============================================================================
