---------------------------- MODULE RaceSession ----------------------------
(***************************************************************************)
(* One room's race instance on the race server, seen through its tracker  *)
(* (src/unnamed/part_004, RaceTracker) and the in-race handlers of the    *)
(* race director (revision B of src/src/server/main.cpp): star points     *)
(* (boost gauge), jump combos, spurs, item pick-ups and their respawn     *)
(* task, magic items and bolt targeting, skill presets, and the room's    *)
(* membership as far as it decides the instance's lifetime.               *)
(*                                                                         *)
(* Characters are their uids and stand for their racer OIDs (AddRacer     *)
(* numbers the racers of one race in uid order).  A command carrying      *)
(* another racer's OID is an input "own = FALSE".  GetRacer of a          *)
(* character that is no racer fails (the tracker's map lookup); like      *)
(* every exception out of a handler it makes the server close the         *)
(* connection, recorded in dropReason with the cause.  The stage machine, *)
(* the master and the one-time codes are modelled in RaceDirector; items' *)
(* positions and each racer's trackedItems only decide which spawn        *)
(* commands are sent and are left out, as is Racer::isTargeting, which    *)
(* nothing reads.                                                          *)
(***************************************************************************)
EXTENDS Naturals, FiniteSets, Sequences, SequencesExt

CONSTANTS
  Chars,            \* character uids of the clients that may use the room
  Modes,            \* game modes a room may have ("Speed", "Magic")
  GameModeInfo,     \* course registry: game mode -> template record
  MapDeckItems,     \* deck ids of the map block's item positions, in order
  Word,             \* modulus of uint32_t arithmetic (2^32, scaled down)
  JumpComboCap,     \* the literal 99 of HandleHurdleClearResult
  GoldHorseshoeStep,      \* 40000 in HandleUserRaceItemGet
  SilverHorseshoePoints,  \* 10000 in HandleUserRaceItemGet
  NoItemHeldBoostAmount,  \* 2000 in HandleRaceUserPos
  Gains,            \* gainedStarPoints / boostGained values a client sends
  Hurdles,          \* hurdle results a client reports
  SetIds,           \* skill preset ids a client sends that pass the range check
  MaxStarts,        \* bound on HandleStartRace calls
  MaxInstances,     \* bound on RoomInstance objects created
  MaxItems          \* bound on tracker items (ice walls add one per use)

ASSUME Chars \subseteq Nat \ {0}
ASSUME Modes \subseteq {"Speed", "Magic"}
ASSUME Gains \subseteq Nat /\ SetIds \subseteq 0..2
ASSUME Hurdles \subseteq {"Perfect", "Good", "Collision"}
ASSUME \A m \in Modes : GameModeInfo[m].starPointsMax < Word

InvalidOid == 0
NoItem == 0
\* The magicItems array of RandomMagicItem: bolt, shield, ice wall.
MagicItems == {2, 4, 10}
Bolt == 2
IceWall == 10
\* HandleUseMagicItem gives the ice wall the deck id of a silver horseshoe.
IceWallDeck == 102
GoldHorseshoe == 101
SilverHorseshoe == 102
RacerStates == {"Disconnected", "Loading", "Racing", "Finishing"}
\* Causes of an exception out of a handler.
DropReasons == {"none", "cheat", "gauge", "request", "peer"}

VARIABLES
  members,      \* RoomInstance::clients (one client per character)
  master,       \* RoomInstance::masterUid
  alive,        \* the room's entry of RaceDirector::_raceInstances exists
  instance,     \* which RoomInstance object it is (count of creations)
  roomMode,     \* Room::Details::gameMode of the room
  raceMode,     \* RoomInstance::raceGameMode, "None" while zero-initialized
  racers,       \* RaceTracker::_racers: uid -> racer
  items,        \* RaceTracker::_items: deck id by item OID (1, 2, ...)
  respawnTasks, \* scheduler: item respawn tasks <<instance, item OID>>
  activeSetId,  \* character records: skills.<mode>.activeSetId
  dropReason,   \* per client: why its handler threw, or "none"
  startTasks,   \* scheduler: start-race tasks <<instance, starter>>
  starts        \* HandleStartRace calls (bounded)

vars == <<members, master, startTasks, alive, instance, roomMode, raceMode, racers, items,
          respawnTasks, activeSetId, dropReason, starts>>

\* RaceTracker::AddRacer followed by racer.state = Loading.
NewRacer == [state |-> "Loading", starPoints |-> 0, jumpCombo |-> 0,
             magicItem |-> NoItem, currentTarget |-> InvalidOid]
NoRacers == [p \in {} |-> NewRacer]

Info(m) == GameModeInfo[m]

\* uint32_t addition, and std::min.
Add32(a, b) == (a + b) % Word
Lesser(a, b) == IF a < b THEN a ELSE b
Clamp(v, m) == Lesser(v, Info(m).starPointsMax)

\* RaceDirector::PrepareItemSpawners: for each deck id the game mode uses,
\* one item per map position of that deck id, numbered in that order.
PreparedItems(m) ==
  LET used == Info(m).usedDeckItemIds
  IN FlattenSeq([k \in 1..Len(used) |->
                   SelectSeq(MapDeckItems, LAMBDA d : d = used[k])])

-----------------------------------------------------------------------------
(* Common steps of the handlers.                                           *)

\* GetClientContext succeeds: the client is in the room and its connection
\* is not being closed.
Acting(c) == c \in members /\ dropReason[c] = "none"
IsRacer(c) == c \in DOMAIN racers

Throw(c, why) ==
  /\ dropReason' = [dropReason EXCEPT ![c] = why]
  /\ UNCHANGED <<members, master, startTasks, alive, instance, roomMode, raceMode, racers, items,
                 respawnTasks, activeSetId, starts>>

\* GetRacer fails for a client that is no racer; a command on behalf of
\* another racer's OID throws in the handlers that check it by throwing.
RacerRejected(c, own) ==
  \/ ~IsRacer(c) /\ Throw(c, "request")
  \/ IsRacer(c) /\ ~own /\ Throw(c, "cheat")

SetRacer(c, r) ==
  /\ racers' = [racers EXCEPT ![c] = r]
  /\ UNCHANGED <<members, master, startTasks, alive, instance, roomMode, raceMode, items,
                 respawnTasks, activeSetId, dropReason, starts>>

\* The loop over RoomInstance::clients in HandleChangeMagicTargetNotify and
\* HandleChangeMagicTargetCancel calls GetRacer for each client until it
\* meets the target's; the set's order is unspecified, so it throws if it
\* meets a client that is no racer first, and surely if the target is none
\* of the clients.
LookupOutcomes(t) ==
  LET others == members \ DOMAIN racers
      found == t \in members \cap DOMAIN racers
  IN IF others = {} THEN {FALSE} ELSE IF found THEN {FALSE, TRUE} ELSE {TRUE}

-----------------------------------------------------------------------------
(* Star points.                                                            *)

\* HandleStarPointGet and HandleStartingRate: the client's gain is added in
\* uint32_t and the sum clamped to the race's starPointsMax.
GainStarPoints(c, own, g) ==
  /\ Acting(c)
  /\ \/ RacerRejected(c, own)
     \/ /\ IsRacer(c) /\ own
        /\ SetRacer(c, [racers[c] EXCEPT !.starPoints =
                          Clamp(Add32(@, g), raceMode)])

HandleStarPointGet(c, own, g) == GainStarPoints(c, own, g)
HandleStartingRate(c, own, g) == GainStarPoints(c, own, g)

\* RaceDirector::HandleRequestSpur: a spur costs spurConsumeStarPoints; a
\* racer without them is taken for a cheater.
HandleRequestSpur(c, own) ==
  LET cost == Info(raceMode).spurConsumeStarPoints
  IN /\ Acting(c)
     /\ \/ RacerRejected(c, own)
        \/ /\ IsRacer(c) /\ own /\ racers[c].starPoints < cost
           /\ Throw(c, "gauge")
        \/ /\ IsRacer(c) /\ own /\ racers[c].starPoints >= cost
           /\ SetRacer(c, [racers[c] EXCEPT !.starPoints = @ - cost])

\* A perfect jump extends the combo, capped at 99.
NextCombo(combo) == Lesser(JumpComboCap, combo + 1)

\* The racer after a hurdle of the given kind (HandleHurdleClearResult);
\* Good and DoubleJumpOrGlide are handled alike, other kinds change nothing.
HurdleCleared(r, kind, m) ==
  LET combo == NextCombo(r.jumpCombo)
      bonus == Lesser(Info(m).perfectJumpMaxBonusCombo, combo)
                 * Info(m).perfectJumpUnitStarPoints
  IN CASE kind = "Perfect" ->
            [r EXCEPT !.jumpCombo = combo,
                      !.starPoints = Clamp(Add32(Add32(@, Info(m).perfectJumpStarPoints),
                                                 bonus), m)]
       [] kind = "Good" ->
            [r EXCEPT !.jumpCombo = 0,
                      !.starPoints = Clamp(Add32(@, Info(m).goodJumpStarPoints), m)]
       [] kind = "Collision" -> [r EXCEPT !.jumpCombo = 0]

HandleHurdleClearResult(c, own, kind) ==
  /\ Acting(c)
  /\ \/ RacerRejected(c, own)
     \/ IsRacer(c) /\ own /\ SetRacer(c, HurdleCleared(racers[c], kind, raceMode))

\* RaceDirector::HandleRaceUserPos: in a magic race a racing racer without
\* an item regenerates its gauge (the countdown check compares with a time
\* point that is in the past from the first race on, and is left out).
HandleRaceUserPos(c, own) ==
  LET r == racers[c]
      max == Info(raceMode).starPointsMax
  IN /\ Acting(c)
     /\ \/ RacerRejected(c, own)
        \/ /\ IsRacer(c) /\ own
           /\ raceMode = "Magic" /\ r.state = "Racing" /\ r.magicItem = NoItem
           /\ r.starPoints < max
           /\ SetRacer(c, [r EXCEPT !.starPoints =
                             Lesser(max, Add32(@, NoItemHeldBoostAmount))])

-----------------------------------------------------------------------------
(* Items and magic.                                                        *)

\* A magic item is granted only to a racer that holds none.
CanGrantMagicItem(r) == r.magicItem = NoItem

\* RaceDirector::HandleRequestMagicItem: the gauge is reset to zero and a
\* random magic item granted, unless one is held.  A wrong OID returns.
HandleRequestMagicItem(c) ==
  /\ Acting(c)
  /\ \/ ~IsRacer(c) /\ Throw(c, "request")
     \/ /\ IsRacer(c) /\ CanGrantMagicItem(racers[c])
        /\ \E it \in MagicItems :
             SetRacer(c, [racers[c] EXCEPT !.starPoints = 0, !.magicItem = it])

\* The gauge after picking up an item in a speed room: a gold horseshoe
\* fills it up to the next multiple of 40000, a silver one adds 10000, both
\* clamped to the maximum of the room's game mode.
ItemStarPoints(sp, deck, m) ==
  CASE deck = GoldHorseshoe ->
         Lesser((((sp \div GoldHorseshoeStep) + 1) * GoldHorseshoeStep) % Word,
                Info(m).starPointsMax)
    [] deck = SilverHorseshoe ->
         Lesser(Add32(sp, SilverHorseshoePoints), Info(m).starPointsMax)
    [] OTHER -> sp

\* RaceDirector::HandleUserRaceItemGet.  The item is looked up (at() throws
\* for an unknown OID), then the racer; the effect depends on the game mode
\* of the room as it is now, not of the race.  In a magic room a racer
\* holding an item returns early; otherwise a respawn task capturing the
\* instance by reference is scheduled 500 ms later.
HandleUserRaceItemGet(c, i) ==
  LET r == racers[c]
  IN /\ Acting(c)
     /\ \/ i \notin DOMAIN items /\ Throw(c, "request")
        \/ i \in DOMAIN items /\ ~IsRacer(c) /\ Throw(c, "request")
        \/ /\ i \in DOMAIN items /\ IsRacer(c)
           /\ roomMode = "Magic" => CanGrantMagicItem(r)
           /\ \E it \in MagicItems :
                racers' = [racers EXCEPT ![c] =
                  IF roomMode = "Speed"
                    THEN [r EXCEPT !.starPoints = ItemStarPoints(@, items[i], roomMode)]
                    ELSE [r EXCEPT !.magicItem = it]]
           /\ respawnTasks' = respawnTasks \cup {<<instance, i>>}
           /\ UNCHANGED <<members, master, startTasks, alive, instance, roomMode, raceMode, items,
                          activeSetId, dropReason, starts>>

\* RaceDirector::HandleUseMagicItem, whether or not the racer holds the item
\* it names.  A bolt takes the item of the first other racing racer in uid
\* order; an ice wall adds a tracker item; the user's item is reset.
HandleUseMagicItem(c, id) ==
  LET targets == {p \in DOMAIN racers \ {c} : racers[p].state = "Racing"}
      hit == CHOOSE p \in targets : \A q \in targets : p <= q
      afterBolt == IF id = Bolt /\ targets /= {}
                     THEN [racers EXCEPT ![hit].magicItem = NoItem]
                     ELSE racers
  IN /\ Acting(c)
     /\ \/ ~IsRacer(c) /\ Throw(c, "request")
        \/ /\ IsRacer(c)
           /\ id = IceWall => Len(items) < MaxItems
           /\ racers' = [afterBolt EXCEPT ![c].magicItem = NoItem]
           /\ items' = IF id = IceWall THEN Append(items, IceWallDeck) ELSE items
           /\ UNCHANGED <<members, master, startTasks, alive, instance, roomMode, raceMode,
                          respawnTasks, activeSetId, dropReason, starts>>

\* RaceDirector::HandleStartMagicTarget (isTargeting is not modelled).
HandleStartMagicTarget(c) ==
  /\ Acting(c)
  /\ \/ ~IsRacer(c) /\ Throw(c, "request")
     \/ IsRacer(c) /\ SetRacer(c, [racers[c] EXCEPT !.currentTarget = InvalidOid])

\* RaceDirector::HandleChangeMagicTargetNotify: the target is recorded, then
\* the target's client is searched among the room's clients.
HandleChangeMagicTargetNotify(c, t) ==
  LET aimed == [racers EXCEPT ![c].currentTarget = t]
  IN /\ Acting(c)
     /\ \/ ~IsRacer(c) /\ Throw(c, "request")
        \/ /\ IsRacer(c)
           /\ racers' = aimed
           /\ \E throws \in LookupOutcomes(t) :
                dropReason' = IF throws THEN [dropReason EXCEPT ![c] = "peer"]
                              ELSE dropReason
           /\ UNCHANGED <<members, master, startTasks, alive, instance, roomMode, raceMode, items,
                          respawnTasks, activeSetId, starts>>

\* RaceDirector::HandleChangeMagicTargetOK: the target loses its item, the
\* attacker's target and item are reset; nothing checks that the attacker
\* holds a bolt or aimed at the target.
HandleChangeMagicTargetOK(c, t) ==
  LET hitTarget == IF t \in DOMAIN racers
                     THEN [racers EXCEPT ![t].magicItem = NoItem]
                     ELSE racers
  IN /\ Acting(c)
     /\ \/ ~IsRacer(c) /\ Throw(c, "request")
        \/ /\ IsRacer(c)
           /\ racers' = [hitTarget EXCEPT ![c].currentTarget = InvalidOid,
                                          ![c].magicItem = NoItem]
           /\ UNCHANGED <<members, master, startTasks, alive, instance, roomMode, raceMode, items,
                          respawnTasks, activeSetId, dropReason, starts>>

\* RaceDirector::HandleChangeMagicTargetCancel: the current target's client
\* is searched to remove the target, then the target is reset.
HandleChangeMagicTargetCancel(c) ==
  LET t == racers[c].currentTarget
  IN /\ Acting(c)
     /\ \/ ~IsRacer(c) /\ Throw(c, "request")
        \/ /\ IsRacer(c) /\ t /= InvalidOid
           /\ \E throws \in LookupOutcomes(t) :
                IF throws THEN Throw(c, "peer")
                ELSE SetRacer(c, [racers[c] EXCEPT !.currentTarget = InvalidOid])

\* RaceDirector::HandleChangeSkillCardPresetId: ids 0 to 2 pass the range
\* check and are stored in the character's record; the context is taken
\* without the authentication check and GetRacer fails for a non-racer.
HandleChangeSkillCardPresetId(c, setId, m) ==
  /\ Acting(c)
  /\ \/ ~IsRacer(c) /\ Throw(c, "request")
     \/ /\ IsRacer(c)
        /\ activeSetId' = [activeSetId EXCEPT ![c][m] = setId]
        /\ UNCHANGED <<members, master, startTasks, alive, instance, roomMode, raceMode, racers,
                       items, respawnTasks, dropReason, starts>>

\* The item respawn task of HandleUserRaceItemGet runs in Tick's scheduler
\* and broadcasts to the clients of the instance it captured.
RunRespawnTask(t) ==
  /\ t \in respawnTasks
  /\ respawnTasks' = respawnTasks \ {t}
  /\ UNCHANGED <<members, master, startTasks, alive, instance, roomMode, raceMode, racers, items,
                 activeSetId, dropReason, starts>>

-----------------------------------------------------------------------------
(* The room and the race around the session.                               *)

\* RaceDirector::HandleEnterRoom of an authorized client with a seat (the
\* refusals are modelled in RaceDirector).  The room's first client creates
\* the RoomInstance, value-initialized, and becomes its master; the lobby
\* created the room with one of the game modes.
HandleEnterRoom(c) ==
  /\ c \notin members
  /\ members' = members \cup {c}
  /\ \/ /\ alive
        /\ UNCHANGED <<master, alive, instance, roomMode, raceMode, racers, items>>
     \/ /\ ~alive /\ instance < MaxInstances
        /\ alive' = TRUE /\ instance' = instance + 1 /\ master' = c
        /\ roomMode' \in Modes
        /\ raceMode' = "None" /\ racers' = NoRacers /\ items' = <<>>
  /\ UNCHANGED <<startTasks, respawnTasks, activeSetId, dropReason, starts>>

\* RaceDirector::HandleLeaveRoom, also run by HandleClientDisconnected for a
\* closing connection: a racer is marked disconnected, a leaving master is
\* replaced by some remaining player, and the last client's leave deletes
\* the room and erases the RoomInstance with its tracker.
HandleLeaveRoom(c) ==
  LET rest == members \ {c}
  IN /\ c \in members
     /\ members' = rest
     /\ dropReason' = [dropReason EXCEPT ![c] = "none"]
     /\ \/ /\ rest /= {}
           /\ racers' = IF IsRacer(c) THEN [racers EXCEPT ![c].state = "Disconnected"]
                        ELSE racers
           /\ IF master = c THEN master' \in rest ELSE UNCHANGED master
           /\ UNCHANGED <<alive, roomMode, raceMode, items>>
        \/ /\ rest = {}
           /\ alive' = FALSE /\ roomMode' = "None" /\ raceMode' = "None"
           /\ racers' = NoRacers /\ items' = <<>>
           /\ UNCHANGED master
     /\ UNCHANGED <<startTasks, instance, respawnTasks, activeSetId, starts>>

\* RaceDirector::HandleChangeRoomOptions, its game-mode bit; no check that
\* the client is the master or that the room is waiting.
HandleChangeRoomOptions(c, m) ==
  /\ Acting(c)
  /\ roomMode' = m
  /\ UNCHANGED <<members, master, startTasks, alive, instance, raceMode,
                 racers, items, respawnTasks, activeSetId, dropReason, starts>>

\* RaceDirector::HandleStartRace: the room's game mode is copied into the
\* instance, the tracker cleared and refilled with the map's items and one
\* loading racer per room player, and the start task scheduled.
HandleStartRace(c) ==
  /\ Acting(c)
  /\ \/ c /= master /\ Throw(c, "request")
     \/ /\ c = master /\ starts < MaxStarts
        /\ starts' = starts + 1
        /\ raceMode' = roomMode
        /\ racers' = [p \in members |-> NewRacer]
        /\ items' = PreparedItems(roomMode)
        /\ startTasks' = startTasks \cup {<<instance, c>>}
        /\ UNCHANGED <<members, master, alive, instance, roomMode,
                       respawnTasks, activeSetId, dropReason>>

\* RaceDirector::HandleLoadingComplete and HandleUserRaceFinal.
HandleLoadingComplete(c) ==
  /\ Acting(c)
  /\ \/ ~IsRacer(c) /\ Throw(c, "request")
     \/ IsRacer(c) /\ SetRacer(c, [racers[c] EXCEPT !.state = "Racing"])

HandleUserRaceFinal(c) ==
  /\ Acting(c)
  /\ \/ ~IsRacer(c) /\ Throw(c, "request")
     \/ IsRacer(c) /\ SetRacer(c, [racers[c] EXCEPT !.state = "Finishing"])

\* The start task of HandleStartRace only builds and queues the
\* StartRaceNotify of each racer; a throw out of it is RaceDirector's
\* TickNeverThrows.  Here it only leaves the scheduler.
RunStartTask(t) ==
  /\ t \in startTasks
  /\ startTasks' = startTasks \ {t}
  /\ UNCHANGED <<members, master, alive, instance, roomMode, raceMode, racers,
                 items, respawnTasks, activeSetId, dropReason, starts>>

-----------------------------------------------------------------------------

Init ==
  /\ members = {} /\ master = InvalidOid /\ alive = FALSE /\ instance = 0
  /\ roomMode = "None" /\ raceMode = "None"
  /\ racers = NoRacers /\ items = <<>>
  /\ respawnTasks = {} /\ startTasks = {}
  /\ activeSetId = [c \in Chars |-> [m \in Modes |-> 0]]
  /\ dropReason = [c \in Chars |-> "none"]
  /\ starts = 0

Next ==
  \/ \E c \in Chars :
       \/ HandleEnterRoom(c) \/ HandleLeaveRoom(c) \/ HandleStartRace(c)
       \/ HandleLoadingComplete(c) \/ HandleUserRaceFinal(c)
       \/ \E m \in Modes : HandleChangeRoomOptions(c, m)
       \/ \E own \in BOOLEAN :
            \/ \E g \in Gains : HandleStarPointGet(c, own, g) \/ HandleStartingRate(c, own, g)
            \/ HandleRequestSpur(c, own) \/ HandleRaceUserPos(c, own)
            \/ \E kind \in Hurdles : HandleHurdleClearResult(c, own, kind)
       \/ HandleRequestMagicItem(c)
       \/ \E id \in MagicItems : HandleUseMagicItem(c, id)
       \/ \E i \in 1..MaxItems : HandleUserRaceItemGet(c, i)
       \/ HandleStartMagicTarget(c) \/ HandleChangeMagicTargetCancel(c)
       \/ \E t \in Chars : HandleChangeMagicTargetNotify(c, t) \/ HandleChangeMagicTargetOK(c, t)
       \/ \E s \in SetIds, m \in Modes : HandleChangeSkillCardPresetId(c, s, m)
  \/ \E t \in respawnTasks : RunRespawnTask(t)
  \/ \E t \in startTasks : RunStartTask(t)

Spec == Init /\ [][Next]_vars

-----------------------------------------------------------------------------
(* Properties.                                                             *)

Racer == [state : RacerStates, starPoints : 0..(Word - 1), jumpCombo : 0..JumpComboCap,
          magicItem : MagicItems \cup {NoItem}, currentTarget : Chars \cup {InvalidOid}]

TypeOK ==
  /\ members \subseteq Chars /\ master \in Chars \cup {InvalidOid}
  /\ alive \in BOOLEAN /\ instance \in 0..MaxInstances
  /\ roomMode \in Modes \cup {"None"} /\ raceMode \in Modes \cup {"None"}
  /\ \E D \in SUBSET Chars : racers \in [D -> Racer]
  /\ items \in Seq({GoldHorseshoe, SilverHorseshoe}) /\ Len(items) <= MaxItems
  /\ respawnTasks \subseteq (1..MaxInstances) \X (1..MaxItems)
  /\ startTasks \subseteq (1..MaxInstances) \X Chars
  /\ activeSetId \in [Chars -> [Modes -> SetIds \cup {0}]]
  /\ dropReason \in [Chars -> DropReasons]
  /\ starts \in 0..MaxStarts

\* Every racer's gauge stays within the starPointsMax of the race's game
\* mode, whichever handlers (star points, starting rate, hurdles, horseshoes,
\* regeneration) raised it, and even after ChangeRoomOptions changed the
\* room's game mode during the race (UserRaceItemGet clamps to the room's
\* current mode).
GaugeWithinMax ==
  \A c \in DOMAIN racers : racers[c].starPoints <= Info(raceMode).starPointsMax

\* The item respawn task of UserRaceItemGet runs while the RoomInstance it
\* refers to still exists.
RespawnTaskRunsOnLiveInstance ==
  [][\A t \in respawnTasks \ respawnTasks' : alive /\ t[1] = instance]_vars

\* A connection is closed only because of its own request: a bad OID, a
\* spur without gauge, or a command the sender may not send; never because
\* of another client in the room.
DropsOnlyOnOwnRequest == \A c \in Chars : dropReason[c] /= "peer"

=============================================================================
