# TLA+ models of alicia_server

This directory holds TLA+ models of alicia_server:

- the room lifecycle across the lobby and race servers, and the room registry's locking;
- an abstract stage machine of a room's race, which the race director is checked to implement;
- the in-race handlers of the race director (star points, items, magic, skill presets);
- the lobby's login pipeline and nickname check;
- the lobby's ranch hand-off and guild invitations.

Every definition is translated from the C++ sources under `src/`. `PROJECT.json` maps each definition to the source lines it models. It also lists the runs, the mutants, the findings and the hazards.

## 1. The system

| Part | Source | State | Operations |
|---|---|---|---|
| Room registry | `src/unnamed/part_000` (Room, RoomSystem), `RoomSystem.hpp` | `_rooms: uid -> (Room, mutex)`, `_sequencedId`; per room: details, `_queuedPlayers`, `_players`, `_roomIsPlaying` | CreateRoom, GetRoom, DeleteRoom; QueuePlayer, DequeuePlayer, AddPlayer, RemovePlayer, SetRoomPlaying |
| Lobby room handlers | `LobbyNetworkHandler.cpp` 961-1198 | a user's `roomUid` | MakeRoom, EnterRoom (queues a seat, grants a code, schedules a 7 s dequeue), LeaveRoom, RoomList |
| One-time codes | OtpSystem (not in the sources) | codes by identity | GrantCode, AuthorizeCode (single use) |
| Race director | `src/src/server/main.cpp` 2425-5275 (revision B), `RaceDirector.hpp` | `_clients: id -> ClientContext`, `_raceInstances: roomUid -> RoomInstance{stage, masterUid, clients, tracker, ...}` | connection, room, stage and Tick handlers; scoring, item, magic and skill handlers |
| Race tracker | `src/unnamed/part_004` 214-260 | racers (state, course time, star points, combo, item, target), items | read and written by the handlers |
| Lobby login | `src/unnamed/part_001` 1-365, `LobbyNetworkHandler.cpp` 284-600 | login request and response queues, client contexts, user instances | Connect, Login, Tick, AcceptLogin, RejectLogin, CreateNickname, Disconnect |
| Name validation | `src/src/libserver/util/Locale.cpp` | none | IsNameValid |
| Ranch hand-off and guilds | `LobbyNetworkHandler.cpp` 1632-2065, `part_001` 305-385 | client contexts, the guild invite lists | EnterRanch, EnterRanchRandomly, ChangeRanchOption, InviteCharacterToGuild, Accept/DeclineInviteToGuild, SetCharacterVisitPreference |

**How the room parts interact.**

1. `MakeRoom` in the lobby creates a room, queues its creator and grants a code.
2. `EnterRoom` queues another character when the room is not full and the password matches. It then grants a code and schedules a task that drops the queued seat after 7 s.
3. The client connects to the race server and sends `EnterRoom` with the code.
4. The race director authorizes the code and adds the character through `Room::AddPlayer`. It creates the race instance on the room's first player, with that player as master.
5. A room is deleted when its last player leaves.
6. `StartRace` (master only) builds the racers and puts the instance in Loading. It also schedules a task that runs 3 s later.
7. `Tick` drives the stages:
   - Loading → Racing once all racers are loaded, or after 30 s;
   - Racing → Finishing once all racers are done;
   - Finishing → Waiting once all have finished, or after 15 s. This step writes the scoreboard.

**What makes it hard.**

- Two servers share one room registry.
- Seats are reserved ahead of arrival with a timeout, and codes outlive seats.
- Handlers may throw; the command server then closes the connection.
- Scheduled tasks run after their subject is gone. The item respawn task holds a `RoomInstance&`.
- Room membership lives in three places that must agree: `Room::_players`, `RoomInstance::clients` and `ClientContext::roomUid`.
- The lobby's login runs on two threads that communicate through queues and a scheduler.
- A client may leave between any two of these steps.

## 2. Modules

**`RoomSystem.tla`** holds the room as a record and the Room methods as pure operators.

**`RaceDirector.tla`** composes the lobby room handlers, the codes and the race director over one registry. It has one action per handler, each guarded by the code's checks and early returns: `LobbyMakeRoom`, `LobbyEnterRoom`, `LobbyDequeueTask`, connect/disconnect, `HandleEnterRoom`, `HandleLeaveRoom`, `HandleStartRace`, `HandleLoadingComplete`, `HandleUserRaceFinal`, `HandleRaceResult`, `HandleP2PRaceResult`, `HandleAwardStart`, `HandleChat`, `HandleRelayCommand`, `HandleRelay` and the two event handlers `HandleUserRaceActivateInteractiveEvent` and `HandleUserRaceActivateEvent` (`RacerBroadcast`: GetRacer throws for a client that is no racer).

- `Tick(due)` is the whole `RaceDirector::Tick` in one action: the due start tasks, then the loading, racing and finishing loops. An exception from a start task leaves Tick, and the rest of it does not run. `FinalThrows` is the racing loop's race-final broadcast, which throws for a client of the instance that is not authenticated: the instances the loop had reached (in the map's unspecified order, up to and including the thrower) keep the racing loop's Finishing stage, and the finishing loop does not run.
- A throwing handler sets `dropping`. The connection's only remaining step is then the disconnect.
- The 20/30/15 s deadlines are a flag that `StageTimeout` raises.

`_raceInstances[roomUid]` is `operator[]` in the code: a lookup of an absent uid inserts a default RoomInstance. `LookupInstance` models that. An authenticated client outside any room has `roomUid = 0`, so the handlers that read the instance (`ReadInstance`: RaceResult, P2PRaceResult, AwardStart, Chat, RelayCommand, Relay) and StartRace insert a ghost instance at uid 0. The invariants range over real uids: the ghost has no clients, and HandleLeaveRoom returns early for uid 0, so nothing else reaches it.

**`RaceStages.tla`** is what the race director promises about a room's race, without its handlers. Per room it has the stage of the race instance (or Absent), the room's playing flag and the roster of the last start. `Open` creates the instance in Waiting; `Start` takes it from Waiting to Loading, sets the flag and fixes a non-empty roster; `Advance` is one tick, in which every running race stays or moves forward and a race back in Waiting clears the flag; `Close` drops the instance with the room. spec.md (section 5) asks for one transition per tick, but RaceDirector's Tick runs its loading, racing and finishing loops one after another over the same instance, so `Advance` lets one tick move a race several stages forward; it never lets a race move backwards or leave Waiting.

RaceDirector instantiates it as `Abstract == INSTANCE RaceStages WITH ...`: the stage of `raceInstances[r]` (Absent when there is none), `rooms[r].playing`, and the domain of the instance's racers. `RaceStagesRefined == Abstract!Spec` is checked as a temporal property. Every RaceDirector step is then an abstract step or a stutter: HandleEnterRoom's first entrant is `Open`, HandleStartRace is `Start`, Tick is `Advance`, the last HandleLeaveRoom is `Close`, and every other handler leaves the three mapped values alone.

**`RoomLocking.tla`** is the locking of RoomSystem, step by step, for the threads that share it: lobby threads call CreateRoom, GetRoom and GetRoomsSnapshot, and race server threads call GetRoom and DeleteRoom. `roomsLock` is `_roomsLock`, `roomMutex[u]` is the mutex of entry u, `registry` the keys of `_rooms`, and `erased` the entries DeleteRoom destroyed (uids are never reused, so a uid names one entry). Each call is split where the code releases or takes a lock: CreateRoom and GetRoom look up under the registry lock and keep a reference (`ref`), then take the room mutex (`LockRoom`) and run the consumer (`Consume`); GetRoomsSnapshot holds the registry lock while its iterator visits each entry (`SnapshotNext`) and copies it under the entry's mutex (`SnapshotCopy`). DeleteRoom is one step that takes no lock. The lobby's 7 s dequeue task is `RoomExists` (a lookup under its own hold of the registry lock, remembered in `checked`) followed by `DequeueGetRoom`, whose GetRoom either keeps a reference like GetRoom or throws for a uid erased meanwhile (`failed`). Two facts about the callers restrict the inputs: a uid reaches GetRoom only after the lobby's CreateRoom consumer returned (`announced`), and the race server deletes only a room it holds a race instance of (`raced`), which its HandleEnterRoom creates inside a GetRoom. Locking a destroyed mutex is undefined behaviour; the model lets it succeed.

**`RaceSession.tla`** is one room's race instance seen through its tracker. It has one action per in-race handler that changes state:

- StarPointGet, StartingRate, RequestSpur, HurdleClearResult and RaceUserPos (gauge regeneration);
- RequestMagicItem, UseMagicItem (bolt auto-target, ice wall);
- UserRaceItemGet with its 500 ms respawn task;
- the magic targeting handlers Start/ChangeNotify/OK/Cancel;
- ChangeSkillCardPresetId and ChangeRoomOptions (the room's game mode);
- the membership and start handlers as far as they decide the instance's lifetime, with the start task (which only sends the StartRaceNotify).

`uint32_t` star points are kept modulo `Word`. The room's game mode (`roomMode`) and the mode StartRace copied into the instance (`raceMode`) are separate variables, because UserRaceItemGet reads the former and the other handlers the latter. RaceSession has two violation runs and no passing run, so its actions are not all fired by a run.

**`LobbyLogin.tla`** is the lobby login pipeline on its two threads. The network handler's HandleClientConnected, HandleLogin, AcceptLogin, RejectLogin, HandleCreateNickname and HandleClientDisconnected run on the command server. `LobbyTick` is the response loop and the request loop of `LobbyDirector::Tick`, and the scheduler's tasks are separate actions. Data-director loads are pending states that an environment step completes.

**`NameValidation.tla`** is `locale::IsNameValid` over names as sequences of letter classes:

- `K` is a Hangul syllable (3 UTF-8 bytes, 2 EUC-KR bytes);
- `L` is a letter of `[A-Za-z0-9._-]`;
- `X` is any other character.

The `UErrorCode` of `countRegexMatches` is uninitialized. Each regex count is therefore either right or 0, and `IsNameValidOutcomes` is the set of verdicts the build can return. `NicknameRule` is the protocol's rule, the reference the check compares against.

**`LobbySocial.tla`** models ranch entry, the ranch lock and the visit preference that the ranch server leaves, and guild invitations and their acceptance. The character and guild records of the data director are the variables `ranchLocked`, `guildOf` and `members`. The ranch server is the environment.

**MC modules.** Each MC module gives the constants as definitions (character uids, game-mode templates, nickname sets); the `.cfg` files choose the rest.

**Abstractions.**

| In the code | In the model |
|---|---|
| Names, teams, OIDs, positions | omitted, or a model value; no property tells them apart |
| Passwords | a flag; the password a client presents is a choice in `RoomPasswords` |
| `UINT32_MAX` course time | `UnfinishedTime` |
| The lobby's `UserInstance::roomUid` | omitted; nothing in the sources reads it |
| Tokens | whether the token matches the user's record |
| A nickname | a sequence of letter classes |

## 3. Runs

| Run | cfg | Expect | What it shows |
|---|---|---|---|
| race_core | MC_RaceDirector.cfg | pass | `RoomMembershipAgrees`, `MasterIsPlayer`, `RacingHasNoLoadingRacer` and the liveness `RaceEventuallyEnds` (a race that left Waiting returns to it or its room is deleted) hold when clients send EnterRoom only outside a room, and RaceDirector implements RaceStages (`RaceStagesRefined`) while each room has one start. About 3 minutes. |
| scoreboard_ties | MC_scoreboard.cfg | violation | `EveryRacerScored`: the scoreboard is a `std::map` keyed by course time, so racers with equal times drop out (main.cpp:2923). |
| room_capacity | MC_capacity.cfg | violation | `RoomCapacity`: a character whose seat expired enters with its still-valid code after the seat went to another (part_000:75). |
| timer_tail | MC_timer_tail.cfg | violation | `TickNeverThrows`: the start task calls `GetClientContext` for a master who disconnected during the countdown (main.cpp:3762); with ClientsReEnter the race-final broadcast throws the same way for a racer that lost its authentication by re-entering (main.cpp:2869, 10 steps). |
| reenter_ghost | MC_reenter.cfg | violation | `RoomMembershipAgrees` with `ClientsReEnter = TRUE`: a second EnterRoom with a bad code clears `isAuthenticated`, so the disconnect skips the leave (main.cpp:3076). |
| stage_restart | MC_stage_restart.cfg | violation | `RaceStagesRefined` with `MaxStarts = 2`: HandleStartRace checks only the master, so a second StartRace during Racing takes the instance back to Loading, a step RaceStages does not allow (main.cpp:3625). |
| session_gauge | MC_session_gauge.cfg | violation | `GaugeWithinMax` (spec.md: `starPointValue ≤ game_mode.star_points_max`), with a magic race capped at 1 and a speed race at 2: UserRaceItemGet reads the game mode and its maximum from the room as it is now, and ChangeRoomOptions may switch the room to speed during a magic race, so a horseshoe pick-up fills the gauge to the speed maximum (main.cpp:4885, 4 steps). |
| respawn_after_free | MC_respawn_free.cfg | violation | `RespawnTaskRunsOnLiveInstance`: the respawn task runs on an erased RoomInstance (main.cpp:4992). |
| room_erase | MC_room_erase.cfg | violation | `NoRoomVanishesInUse` (no entry a thread found is erased while it uses it, and no uid between the dequeue task's RoomExists and GetRoom): a lobby GetRoom that found room 1 and released the registry lock waits for the room's mutex, held by a race server handler; that handler's room then loses its last client and DeleteRoom erases it without the registry lock, so the lobby locks and uses a destroyed entry (part_000:196, 222). Nine steps of two threads. With that clause set aside, the dequeue task's RoomExists succeeds, the race server deletes the room, and the task's GetRoom throws 'Room does not exist' out of the lobby's Tick (LobbyNetworkHandler.cpp:1170, 10 steps). |
| lobby_login | MC_LobbyLogin.cfg | pass | `NoValidNicknameRefused` (IsNameValid accepts every nickname the rule allows, whatever the uninitialized status holds) and `LoginEventuallyAnswered`. |
| user_leak | MC_user_leak.cfg | violation | `UserSessionsAgree` (one session per user, and a user instance only while its session or its logout lasts): a client that leaves while its login waits in the response queue is accepted anyway and never logged out (part_001:120); with that clause set aside, two creator-path logins of one user are both authenticated (part_001:106). |
| guild_spoof | MC_guild_spoof.cfg | violation | `GuildMembersAgree`: AcceptInviteToGuild checks the sender's invite but adds the uid the command carries (LobbyNetworkHandler.cpp:2004). |

Each property of a passing run has a mutant in `PROJECT.json`: a plausible bug in the mapped code that TLC must catch under the run's cfg.

**Bounds.**

- **Race runs.**
  - Two characters are enough for a master, a second racer, master promotion, ties, and the overrun of a two-seat room; the capacity run uses three.
  - One room uid is enough: rooms interact only through the registry.
  - `MaxStarts` is 1, and 2 where a second race is the question (stage_restart).
  - In the lobby's EnterRoom a wrong password is possible only for a room that has one (`PasswordOutcomes`).
  - race_core fixes `RoomPasswords = {FALSE}`. A wrong password only makes the lobby's EnterRoom return early, and with both outcomes the merged safety-and-liveness run takes over 8 minutes.
- **Session runs.**
  - `Word = 8` scales `uint32_t` down, and the gauge constants with it. The gains a client sends are `{1}`, so no run reaches the wrap of `GainStarPoints` (only a cheating client sends a gain near 2^32).
  - The course registry gives the two modes different maxima (`MC_DiffInfo`), so that a mode change during a race matters.
  - `MaxItems` bounds the ice walls.
- **Login runs.**
  - Two clients and four users: one with a character, one without (the creator path), one without a record, and one banned.
  - One login per connection, as the game client sends.
  - The nicknames cover both minimum lengths, the byte capacity 16 at and past its edge, and a name with a foreign letter.
- **Locking run.** One lobby and one race server thread and two room uids: the lobby creates and looks up a room while the race server enters, leaves and deletes it. A second lobby thread is not needed for the erase, and more uids only add independent rooms.
- **Social run.** Two clients, three characters (one an owner) and one guild: the smallest world in which one client accepts for another character.

**Fairness.**

- Weak fairness on `Tick` and on each `StageTimeout`: the race director's tick thread runs forever, and its steady clock passes the deadlines.
- Weak fairness on `LobbyTick` and on the data-director loads: the lobby thread ticks forever, and the data director completes its loads.
- Clients get no fairness. A racer may never send loading-complete, and a client may leave at any step.

## 4. Not modelled

- **RoomSystem locking inside the handlers.** RoomLocking models the locks on their own; in RaceDirector and RaceSession each handler is one atomic step. One hazard of the locking is not checked by a run: CreateRoom releases the registry lock before it takes the new room's mutex, so a GetRoomsSnapshot on another lobby thread can copy the room before the CreateRoom consumer configured it, which spec.md section 4.3 rules out. The data race on `_guildInstances[g].invites` (the ranch server's thread against the lobby thread) is listed as a hazard for the same reason.
- **HandleReadyRace, HandleChangeTeam, HandleRoomList.** Ready and team state per player would multiply race_core's state space, and no property reads it. RoomList is a read-only snapshot. Two things a team model would show are left unchecked. First, HandleChangeTeam sets the team of the player the command names (`command.characterOid`), not the sender's. Second, its notify loop calls GetClientIdByCharacterUid for every room player, and that throws for a ghost left by reenter_ghost.
- **The one-session assumption of LobbySocial.** LobbySocial admits a character on one connection at a time. user_leak shows that the login pipeline does not ensure this on the creator path. So DisconnectCharacter and SetCharacterVisitPreference, which reach only the first client GetClientIdByCharacterUid finds, are not modelled against duplicate sessions.
- **The missing `return` in HandleEnterRanch.** When a locked foreign ranch is refused, the handler sends a Cancel and then the OK anyway. LobbySocial sends both, but this is a single step that a unit test reaches, so no run is spent on it.
- **The frame codec and message serialization** (`part_002`, `part_003`, `LobbyMessageDefinitions.cpp`). These are byte-stream I/O with no state machine.
- **Code that is not in the sources.** This covers the command server, scheduler, data director and record cache. They appear only as pending tasks, pending loads and closed connections.
- **Superseded revisions.** These are main.cpp 1-2424, the user-name-keyed `src/src/server/lobby/LobbyDirector.cpp` and part_001 366-1896. LobbyDirector.cpp calls `AcceptLogin(userName)` and `QueueUserLogin`, while LobbyNetworkHandler.cpp has `AcceptLogin(ClientId, bool)` and calls `QueueClientLogin(clientId, ...)`. The two files do not build together, so the client-keyed part_001 is the director that is modelled.
- **The prototype asio server in `part_002` and `part_003`.** Its codec is not a faithful component to check. `encode_message_information` ORs the jumbo flag into the id, and decoding an encoded header loses length bits 2, 3 and 12-15. Its own `test_magic` assertion expects 0x8D06CD01 where the encoder yields 0x801f8000, so it does not pass as written.

- **Runs that the model supports but the project does not spend.** RaceSession's `DropsOnlyOnOwnRequest` (a client that entered mid-race makes a racer's targeting handlers throw, main.cpp:5072) is violated with `Chars = {1, 2}` and `SetIds = {0}`. Skill preset id 2 passes ChangeSkillCardPresetId's range check and makes the next speed race's start task throw (main.cpp:5240). The start task only builds the StartRaceNotify, so RaceSession models it as leaving the scheduler with no effect, and RaceDirector's Tick models the start task's throw only for a missing client.

## 5. Plan

1. A RoomTeams module for HandleReadyRace and HandleChangeTeam and AddPlayer's team balancing, once a run slot is free.
2. GetRoomsSnapshot against an unconfigured room (see section 4), as a second RoomLocking run.
3. The lobby's own HandleLeaveRoom and SetUserRoom, if UserInstance::roomUid gets a reader.
