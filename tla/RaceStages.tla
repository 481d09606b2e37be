----------------------------- MODULE RaceStages -----------------------------
(***************************************************************************)
(* What the race director promises about the race of each room, stated    *)
(* without its handlers: a room's race instance appears in Waiting, a     *)
(* start puts it in Loading with a roster of racers and marks the room as *)
(* playing, and from there it only moves forward through Racing and       *)
(* Finishing back to Waiting, which clears the playing mark.  The roster  *)
(* stays fixed until the next start.  The instance may be dropped in any  *)
(* stage, with the room.                                                   *)
(*                                                                         *)
(* spec.md (section 5) asks for one transition per tick; RaceDirector's   *)
(* Tick runs its loading, racing and finishing loops one after another    *)
(* over the same instance, so one tick may advance it several stages.     *)
(* A step here may therefore advance a stage by more than one position,   *)
(* but never backwards and never out of Waiting.                           *)
(***************************************************************************)
EXTENDS Naturals

CONSTANTS
  Rooms,   \* room uids
  Chars    \* character uids

Absent == "Absent"

\* Stage order of one race: Waiting is last, reached again when it ends.
StageRank == [Loading |-> 1, Racing |-> 2, Finishing |-> 3, Waiting |-> 4]

\* The stages a running race can move on to.
Later(s) ==
  IF s \in {"Loading", "Racing", "Finishing"}
    THEN {t \in DOMAIN StageRank : StageRank[t] > StageRank[s]}
    ELSE {}

VARIABLES
  stage,    \* room -> the stage of its race instance, or Absent
  playing,  \* room -> whether the room is marked as playing
  roster    \* room -> the characters racing in its current or last race

vars == <<stage, playing, roster>>

Init ==
  /\ stage = [r \in Rooms |-> Absent]
  /\ playing = [r \in Rooms |-> FALSE]
  /\ roster = [r \in Rooms |-> {}]

\* The first entrant creates the room's race instance.
Open(r) ==
  /\ stage[r] = Absent
  /\ stage' = [stage EXCEPT ![r] = "Waiting"]
  /\ UNCHANGED <<playing, roster>>

\* The master starts a race of the room's players.
Start(r) ==
  /\ stage[r] = "Waiting"
  /\ stage' = [stage EXCEPT ![r] = "Loading"]
  /\ playing' = [playing EXCEPT ![r] = TRUE]
  /\ \E S \in (SUBSET Chars) \ {{}} : roster' = [roster EXCEPT ![r] = S]

\* One tick: every running race stays or moves forward; a race that is
\* back in Waiting no longer marks its room as playing.
Advance ==
  /\ stage' \in [Rooms -> {Absent} \cup DOMAIN StageRank]
  /\ \A r \in Rooms : stage'[r] \in {stage[r]} \cup Later(stage[r])
  /\ playing' = [r \in Rooms |->
                   IF stage'[r] = "Waiting" /\ stage[r] /= "Waiting"
                     THEN FALSE ELSE playing[r]]
  /\ UNCHANGED roster

\* The last client leaves: the instance is erased with its room.
Close(r) ==
  /\ stage[r] /= Absent
  /\ stage' = [stage EXCEPT ![r] = Absent]
  /\ playing' = [playing EXCEPT ![r] = FALSE]
  /\ roster' = [roster EXCEPT ![r] = {}]

Next ==
  \/ \E r \in Rooms : Open(r) \/ Start(r) \/ Close(r)
  \/ Advance

Spec == Init /\ [][Next]_vars

=============================================================================
