---------------------------- MODULE RaceDirector ----------------------------
(***************************************************************************)
(* Room lifecycle across the lobby and the race server.                    *)
(*                                                                         *)
(*  - the lobby handlers that create a room and hand out seats             *)
(*    (LobbyNetworkHandler::HandleMakeRoom / HandleEnterRoom and the 7 s   *)
(*    dequeue task HandleEnterRoom schedules);                             *)
(*  - the one-time passwords that carry a seat from the lobby to the race  *)
(*    server (OtpSystem, not in the sources: modelled from the spec);      *)
(*  - the race director's handlers (revision B of src/src/server/main.cpp):*)
(*    connect, disconnect, enter, leave, start, loading complete, race     *)
(*    final, and its Tick with the stage machine                           *)
(*    Waiting -> Loading -> Racing -> Finishing -> Waiting.                *)
(*                                                                         *)
(* Characters are their uids (the scoreboard orders them by uid), and one  *)
(* race connection per character is modelled.  Time is abstracted to a    *)
(* per-instance flag "expired" that the clock may raise once the stage's   *)
(* deadline passes.  The whole Tick (due start tasks, then the loading,   *)
(* racing and finishing loops) is one step; the handlers, which run on the *)
(* command server's threads, interleave with it between ticks.             *)
(***************************************************************************)
EXTENDS Naturals, FiniteSets, TLC, RoomSystem

CONSTANTS
  Chars,          \* character uids (naturals > 0)
  MaxRoomUid,     \* bound on RoomSystem::_sequencedId
  MaxStarts,      \* bound on the number of HandleStartRace calls
  PlayerCounts,   \* player counts a MakeRoom command may carry
  CourseTimes,    \* course times a client may report
  RoomPasswords,  \* whether a MakeRoom command may carry a password
  ClientsReEnter  \* whether a client may send EnterRoom while in a room

ASSUME Chars \subseteq Nat \ {0} /\ MaxRoomUid \in Nat /\ MaxStarts \in Nat
ASSUME CourseTimes \subseteq Nat /\ ClientsReEnter \in BOOLEAN
ASSUME RoomPasswords \subseteq BOOLEAN

\* Racer::courseTime defaults to UINT32_MAX; a value above every course time.
UnfinishedTime == 1000
ASSUME \A t \in CourseTimes : t < UnfinishedTime

RoomUids == 1..MaxRoomUid
InvalidUid == 0
Stages == {"Waiting", "Loading", "Racing", "Finishing"}
RacerStates == {"Disconnected", "Loading", "Racing", "Finishing"}

VARIABLES
  rooms,          \* RoomSystem::_rooms: uid -> room
  sequencedId,    \* RoomSystem::_sequencedId
  otp,            \* OtpSystem: identities <<character, room>> holding a code
  dequeueTasks,   \* lobby scheduler: pending 7 s dequeue tasks <<c, room>>
  clients,        \* RaceDirector::_clients: per character connection context
  dropping,       \* connections whose handler threw; the server closes them
  raceInstances,  \* RaceDirector::_raceInstances: room uid -> RoomInstance
  startTasks,     \* race scheduler: pending start-race tasks (client ids)
  starts          \* number of HandleStartRace calls (bounded)

lobbyVars == <<rooms, sequencedId, otp, dequeueTasks>>
raceVars == <<clients, dropping, raceInstances, startTasks, starts>>
vars == <<lobbyVars, raceVars>>

ClosedContext == [connected |-> FALSE, isAuthenticated |-> FALSE,
                  roomUid |-> InvalidUid]
\* Variant: a racer whose course time starts at zero instead of UINT32_MAX.
NewRacerZeroTime == [state |-> "Loading", courseTime |-> 0]

\* RaceTracker::AddRacer followed by racer.state = Loading.
NewRacer == [state |-> "Loading", courseTime |-> UnfinishedTime]
NoRacers == [p \in {} |-> NewRacer]
NewInstance == [stage |-> "Waiting", masterUid |-> InvalidUid, clients |-> {},
                racers |-> NoRacers, expired |-> FALSE]

-----------------------------------------------------------------------------
(* One-time passwords (OtpSystem is not in the sources).                   *)

GrantCode(id) == otp \cup {id}

\* AuthorizeCode succeeds when the client presents the code granted for the
\* identity, and consumes it.
AuthorizeCode(id, presented) == presented /\ id \in otp

-----------------------------------------------------------------------------
(* Lobby side.                                                             *)

\* LobbyNetworkHandler::HandleMakeRoom.  CreateRoom inserts the room before
\* the consumer runs; an empty name outside training leaves it unconfigured
\* in the registry and the client gets MakeRoomCancel.
LobbyMakeRoom(c, count, hasPassword, named) ==
  LET uid == sequencedId + 1
      configured == [NewRoom EXCEPT
                       !.maxPlayerCount = IF count < RoomCapacityLimit
                                          THEN count ELSE RoomCapacityLimit,
                       !.hasPassword = hasPassword]
      accepted == named \/ count = 1
  IN /\ sequencedId < MaxRoomUid
     /\ sequencedId' = uid
     /\ rooms' = (uid :> IF accepted THEN QueuePlayer(configured, c)
                                     ELSE NewRoom) @@ rooms
     /\ otp' = IF accepted THEN GrantCode(<<c, uid>>) ELSE otp
     /\ UNCHANGED <<dequeueTasks, raceVars>>

\* LobbyNetworkHandler::HandleEnterRoom.  The seat is queued whenever the
\* room is not full, before the password is looked at; a code and the
\* dequeue task follow only for an authorized entry into a non-full room.
LobbyEnterRoom(c, r, passwordMatches) ==
  LET authorized == ~rooms[r].hasPassword \/ passwordMatches
      full == IsRoomFull(rooms[r])
  IN /\ r \in DOMAIN rooms
     /\ rooms' = [rooms EXCEPT ![r] = QueuePlayer(@, c)]
     /\ IF authorized /\ ~full
          THEN /\ otp' = GrantCode(<<c, r>>)
               /\ dequeueTasks' = dequeueTasks \cup {<<c, r>>}
          ELSE UNCHANGED <<otp, dequeueTasks>>
     /\ UNCHANGED <<sequencedId, raceVars>>

\* The passwords an EnterRoom command may carry, by whether they match the
\* room's: only a room with a password tells them apart.
PasswordOutcomes(r) == IF rooms[r].hasPassword THEN BOOLEAN ELSE {TRUE}

\* The task HandleEnterRoom schedules 7 s later: a seat still queued means
\* the character never reached the race server and is dequeued.  (When it
\* did, the lobby records the room in UserInstance::roomUid, which nothing
\* in the sources reads; that field is not modelled.)
LobbyDequeueTask(c, r) ==
  /\ <<c, r>> \in dequeueTasks
  /\ dequeueTasks' = dequeueTasks \ {<<c, r>>}
  /\ IF r \in DOMAIN rooms
       THEN rooms' = [rooms EXCEPT ![r] = DequeuePlayer(@, c)]
       ELSE UNCHANGED rooms
  /\ UNCHANGED <<sequencedId, otp, raceVars>>

-----------------------------------------------------------------------------
(* Race side.                                                              *)

\* GetClientContext(clientId) succeeds: the connection is open and
\* authenticated, and its handler has not already thrown.
Ready(c) ==
  /\ clients[c].connected /\ clients[c].isAuthenticated
  /\ c \notin dropping

\* A handler throws: the command server closes the connection.
Throw(c) ==
  /\ dropping' = dropping \cup {c}
  /\ UNCHANGED <<lobbyVars, clients, raceInstances, startTasks, starts>>

\* _raceInstances[roomUid]: std::unordered_map::operator[] inserts a
\* value-initialized RoomInstance when the key is missing, as it is for a
\* client outside any room (roomUid 0).
LookupInstance(r) ==
  IF r \in DOMAIN raceInstances THEN raceInstances
  ELSE (r :> NewInstance) @@ raceInstances

\* A handler looks its instance up with operator[] and throws afterwards.
ThrowAfterLookup(c, r) ==
  /\ dropping' = dropping \cup {c}
  /\ raceInstances' = LookupInstance(r)
  /\ UNCHANGED <<lobbyVars, clients, startTasks, starts>>

\* A handler that only reads its instance and answers the client
\* (HandleRaceResult, HandleP2PRaceResult, HandleAwardStart).  When the
\* instance exists the lookup changes no variable: that step is a stutter,
\* which Spec admits anyway, so only the lookup that inserts is listed.
ReadInstance(c) ==
  /\ Ready(c)
  /\ clients[c].roomUid \notin DOMAIN raceInstances
  /\ raceInstances' = LookupInstance(clients[c].roomUid)
  /\ UNCHANGED <<lobbyVars, clients, dropping, startTasks, starts>>

\* RaceDirector::HandleClientConnected.
HandleClientConnected(c) ==
  /\ ~clients[c].connected
  /\ clients' = [clients EXCEPT ![c] = [ClosedContext EXCEPT !.connected = TRUE]]
  /\ UNCHANGED <<lobbyVars, dropping, raceInstances, startTasks, starts>>

\* Variant: the next master is looked up before the leaver is removed
\* from the room's players.
NextMastersIncludingLeaver(players, master, wasMaster) ==
  IF wasMaster THEN players \cup {master} ELSE {master}

\* The next master after the master left: the first key of the room's
\* unordered player map, any of them; none if the room is empty.
NextMasters(players, master, wasMaster) ==
  IF wasMaster /\ players /= {} THEN players ELSE {master}

\* The body of RaceDirector::HandleLeaveRoom for the client's room: mark the
\* racer disconnected, drop the client, remove the room player, promote a
\* master, and delete room and instance once no client is left.
LeaveRoom(c) ==
  LET r == clients[c].roomUid
      inst == raceInstances[r]
      racers == IF c \in DOMAIN inst.racers
                  THEN [inst.racers EXCEPT ![c].state = "Disconnected"]
                  ELSE inst.racers
      room == RemovePlayer(rooms[r], c)
      remaining == inst.clients \ {c}
  IN \E m \in NextMasters(room.players, inst.masterUid, inst.masterUid = c) :
       IF remaining = {}
         THEN /\ rooms' = DeleteRoom(rooms, r)
              /\ raceInstances' = [u \in DOMAIN raceInstances \ {r} |->
                                     raceInstances[u]]
         ELSE /\ rooms' = [rooms EXCEPT ![r] = room]
              /\ raceInstances' = [raceInstances EXCEPT ![r] =
                   [inst EXCEPT !.racers = racers, !.clients = remaining,
                                !.masterUid = m]]

\* RaceDirector::HandleLeaveRoom.
HandleLeaveRoom(c) ==
  /\ Ready(c)
  /\ clients[c].roomUid /= InvalidUid
  /\ LeaveRoom(c)
  /\ clients' = [clients EXCEPT ![c].roomUid = InvalidUid]
  /\ UNCHANGED <<sequencedId, otp, dequeueTasks, dropping,
                 startTasks, starts>>

\* RaceDirector::HandleClientDisconnected: leave the room when authenticated
\* and the room's instance exists (HandleLeaveRoom returns at once for room
\* uid 0), then erase the context.
HandleClientDisconnected(c) ==
  /\ clients[c].connected
  /\ IF clients[c].isAuthenticated
        /\ clients[c].roomUid \in DOMAIN raceInstances
        /\ clients[c].roomUid /= InvalidUid
       THEN LeaveRoom(c)
       ELSE UNCHANGED <<rooms, raceInstances>>
  /\ clients' = [clients EXCEPT ![c] = ClosedContext]
  /\ dropping' = dropping \ {c}
  /\ UNCHANGED <<sequencedId, otp, dequeueTasks, startTasks, starts>>

\* The end of HandleEnterRoom for an admitted client: the instance that
\* try_emplace found, or created with the client as master, gets the
\* client among its clients once the roster of the room's players has been
\* sent to it and the other clients have been notified.
JoinInstance(c, r) ==
  IF r \in DOMAIN raceInstances
    THEN [raceInstances EXCEPT ![r].clients = @ \cup {c}]
    ELSE (r :> [NewInstance EXCEPT !.masterUid = c, !.clients = {c}])
         @@ raceInstances

\* RaceDirector::HandleEnterRoom.  The authentication result overwrites the
\* context's; AddPlayer runs (through GetRoom, which throws for a deleted
\* room) before the existence check.
HandleEnterRoom(c, r, presented) ==
  LET auth == AuthorizeCode(<<c, r>>, presented)
      exists == r \in DOMAIN rooms
      joins == auth /\ exists /\ CanAddPlayer(rooms[r])
  IN /\ clients[c].connected /\ c \notin dropping
     /\ ClientsReEnter \/ clients[c].roomUid = InvalidUid
     /\ otp' = IF auth THEN otp \ {<<c, r>>} ELSE otp
     /\ \/ /\ auth /\ ~exists
           /\ clients' = [clients EXCEPT ![c].isAuthenticated = TRUE]
           /\ dropping' = dropping \cup {c}
           /\ UNCHANGED <<rooms, raceInstances>>
        \/ /\ ~joins /\ ~(auth /\ ~exists)
           /\ clients' = [clients EXCEPT ![c].isAuthenticated = auth]
           /\ UNCHANGED <<rooms, raceInstances, dropping>>
        \/ /\ joins
           /\ rooms' = [rooms EXCEPT ![r] = AddPlayer(@, c)]
           /\ clients' = [clients EXCEPT ![c] = [connected |-> TRUE,
                            isAuthenticated |-> TRUE, roomUid |-> r]]
           /\ raceInstances' = JoinInstance(c, r)
           /\ UNCHANGED dropping
     /\ UNCHANGED <<sequencedId, dequeueTasks, startTasks, starts>>

\* RaceDirector::HandleStartRace: only the master may start; there is no
\* check of the current stage.  The tracker is cleared and every room
\* player becomes a loading racer; the start notification is scheduled
\* for the end of the room countdown.
HandleStartRace(c) ==
  LET r == clients[c].roomUid
  IN /\ Ready(c)
     /\ \/ /\ LookupInstance(r)[r].masterUid /= c
           /\ ThrowAfterLookup(c, r)
        \/ /\ LookupInstance(r)[r].masterUid = c
           /\ starts < MaxStarts
           /\ starts' = starts + 1
           /\ raceInstances' = [raceInstances EXCEPT ![r] =
                [@ EXCEPT !.stage = "Loading", !.expired = FALSE,
                          !.racers = [p \in rooms[r].players |-> NewRacer]]]
           /\ rooms' = [rooms EXCEPT ![r] = SetRoomPlaying(@, TRUE)]
           /\ startTasks' = startTasks \cup {c}
           /\ UNCHANGED <<sequencedId, otp, dequeueTasks, clients,
                          dropping>>

\* RaceDirector::HandleLoadingComplete: the racer becomes Racing, whatever
\* its state and whatever the stage; GetRacer throws for a non-racer.
HandleLoadingComplete(c) ==
  LET r == clients[c].roomUid
  IN /\ Ready(c)
     /\ IF c \in DOMAIN LookupInstance(r)[r].racers
          THEN /\ raceInstances' = [raceInstances EXCEPT
                                      ![r].racers[c].state = "Racing"]
               /\ UNCHANGED <<lobbyVars, clients, dropping, startTasks, starts>>
          ELSE ThrowAfterLookup(c, r)

\* RaceDirector::HandleUserRaceFinal: the racer becomes Finishing with the
\* reported course time, in any stage.
HandleUserRaceFinal(c, t) ==
  LET r == clients[c].roomUid
  IN /\ Ready(c)
     /\ IF c \in DOMAIN LookupInstance(r)[r].racers
          THEN /\ raceInstances' = [raceInstances EXCEPT ![r].racers[c] =
                                      [state |-> "Finishing", courseTime |-> t]]
               /\ UNCHANGED <<lobbyVars, clients, dropping, startTasks, starts>>
          ELSE ThrowAfterLookup(c, r)

\* RaceDirector::HandleRaceResult: answers with the character's carrots.
HandleRaceResult(c) == ReadInstance(c)

\* RaceDirector::HandleP2PRaceResult: answers with the racers' OIDs.
HandleP2PRaceResult(c) == ReadInstance(c)

\* RaceDirector::HandleAwardStart: forwards the award to the instance's
\* clients that are not racers still in the race.
HandleAwardStart(c) == ReadInstance(c)

\* RaceDirector::HandleChat: the ChatSystem's verdict (not in the sources)
\* is broadcast to the clients of the instance operator[] finds.
HandleChat(c) == ReadInstance(c)

\* RaceDirector::HandleRelayCommand and HandleRelay: forwarded to the
\* instance's other clients.
HandleRelayCommand(c) == ReadInstance(c)
HandleRelay(c) == ReadInstance(c)

\* The event handlers name the sender's racer OID in their broadcast:
\* GetRacer throws for a client that is no racer of the instance.  For a
\* racer the broadcast changes no variable (its instance exists): a
\* stutter step, so only the throw is listed.
RacerBroadcast(c) ==
  LET r == clients[c].roomUid
  IN /\ Ready(c)
     /\ c \notin DOMAIN LookupInstance(r)[r].racers
     /\ ThrowAfterLookup(c, r)

\* RaceDirector::HandleUserRaceActivateInteractiveEvent.
HandleUserRaceActivateInteractiveEvent(c) == RacerBroadcast(c)

\* RaceDirector::HandleUserRaceActivateEvent.
HandleUserRaceActivateEvent(c) == RacerBroadcast(c)

-----------------------------------------------------------------------------
(* RaceDirector::Tick: the scheduler, then the loading, racing and         *)
(* finishing loops over every instance.                                    *)

AllRacersIn(inst, S) == \A p \in DOMAIN inst.racers : inst.racers[p].state \in S

\* Variant: the loading loop starts the race without disconnecting the
\* racers that did not load.
LoadingStepKeepsLoaders(inst) ==
  IF inst.stage = "Loading"
     /\ (AllRacersIn(inst, {"Racing", "Disconnected"}) \/ inst.expired)
    THEN [inst EXCEPT !.stage = "Racing", !.expired = FALSE]
    ELSE inst

\* Loading: once every racer is Racing or Disconnected, or on the 30 s
\* timeout, the racers that did not load are Disconnected and the race runs.
LoadingStep(inst) ==
  IF inst.stage = "Loading"
     /\ (AllRacersIn(inst, {"Racing", "Disconnected"}) \/ inst.expired)
    THEN [inst EXCEPT !.stage = "Racing", !.expired = FALSE,
            !.racers = [p \in DOMAIN @ |->
                          IF @[p].state = "Racing" THEN @[p]
                          ELSE [@[p] EXCEPT !.state = "Disconnected"]]]
    ELSE inst

\* Racing: once any racer is Finishing, or on the course time limit.
RacingStep(inst) ==
  IF inst.stage = "Racing"
     /\ ((\E p \in DOMAIN inst.racers : inst.racers[p].state = "Finishing")
         \/ inst.expired)
    THEN [inst EXCEPT !.stage = "Finishing", !.expired = FALSE]
    ELSE inst

\* Variant: the finishing loop waits for every racer and ignores the
\* 15 s timeout.
FinishesWithoutTimeout(inst) ==
  /\ inst.stage = "Finishing"
  /\ AllRacersIn(inst, {"Finishing", "Disconnected"})

\* Finishing: once every racer is Finishing or Disconnected, or 15 s later.
Finishes(inst) ==
  /\ inst.stage = "Finishing"
  /\ AllRacersIn(inst, {"Finishing", "Disconnected"}) \/ inst.expired

\* The scoreboard is a std::map keyed by course time filled by try_emplace
\* in ascending uid order (disconnected racers at UINT32_MAX): a racer is
\* listed only if no racer of lower uid has the same time.
BoardTime(racers, p) ==
  IF racers[p].state = "Disconnected" THEN UnfinishedTime
  ELSE racers[p].courseTime
Scoreboard(racers) ==
  {p \in DOMAIN racers :
     \A q \in DOMAIN racers : q < p => BoardTime(racers, q) /= BoardTime(racers, p)}

\* A start-race task scheduled by HandleStartRace throws when it runs:
\* GetClientContext fails once the client that started the race has
\* disconnected.
TaskThrows(c) == ~(clients[c].connected /\ clients[c].isAuthenticated)

\* The racing loop broadcasts the race final once an instance's course time
\* is up, after it set the stage to Finishing (an instance the loading loop
\* has just started is not due: its course deadline is new): GetClientContext(clientId,
\* true) throws for a client of the instance that is gone or no longer
\* authenticated.
FinalThrows(inst) ==
  /\ inst.stage = "Racing"
  /\ inst.expired
  /\ \E c \in inst.clients : TaskThrows(c)

\* RaceDirector::Tick.  The scheduler runs the tasks that are due; an
\* exception from one of them leaves Tick before the stage loops.  Then the
\* loading, racing and finishing loops run in that order over every
\* instance, so an instance may pass several stages in one tick.  Finishing
\* instances broadcast the result, return to Waiting and mark their room as
\* no longer playing.  A race-final throw stops the racing loop at that
\* instance, in the map's unspecified order, and skips the finishing loop.
Tick(due) ==
  LET afterRacing == [r \in DOMAIN raceInstances |->
                        RacingStep(LoadingStep(raceInstances[r]))]
      done == {r \in DOMAIN afterRacing : Finishes(afterRacing[r])}
      throwers == {r \in DOMAIN raceInstances : FinalThrows(raceInstances[r])}
  IN /\ UNCHANGED <<sequencedId, otp, dequeueTasks, clients, dropping, starts>>
     /\ due \subseteq startTasks
     /\ startTasks' = startTasks \ due
     /\ CASE \E c \in due : TaskThrows(c) ->
               UNCHANGED <<rooms, raceInstances>>
          [] throwers /= {} ->
               /\ UNCHANGED rooms
               /\ \E first \in throwers, reached \in SUBSET (DOMAIN raceInstances \ throwers) :
                    raceInstances' = [r \in DOMAIN raceInstances |->
                                        IF r \in reached \cup {first} THEN afterRacing[r]
                                        ELSE LoadingStep(raceInstances[r])]
          [] OTHER ->
               /\ raceInstances' = [r \in DOMAIN afterRacing |->
                                      IF r \in done
                                        THEN [afterRacing[r] EXCEPT !.stage = "Waiting"]
                                        ELSE afterRacing[r]]
               /\ rooms' = [r \in DOMAIN rooms |->
                              IF r \in done THEN SetRoomPlaying(rooms[r], FALSE)
                              ELSE rooms[r]]

\* The steady clock passes an instance's stage deadline.
StageTimeout(r) ==
  /\ UNCHANGED <<lobbyVars, clients, dropping, startTasks, starts>>
  /\ r \in DOMAIN raceInstances
  /\ raceInstances[r].stage /= "Waiting"
  /\ ~raceInstances[r].expired
  /\ raceInstances' = [raceInstances EXCEPT ![r].expired = TRUE]

-----------------------------------------------------------------------------

Init ==
  /\ rooms = [r \in {} |-> NewRoom]
  /\ sequencedId = 0
  /\ otp = {}
  /\ dequeueTasks = {}
  /\ clients = [c \in Chars |-> ClosedContext]
  /\ dropping = {}
  /\ raceInstances = [r \in {} |-> NewInstance]
  /\ startTasks = {}
  /\ starts = 0

Next ==
  \/ \E c \in Chars :
       \/ \E n \in PlayerCounts, pw \in RoomPasswords, named \in BOOLEAN :
            LobbyMakeRoom(c, n, pw, named)
       \/ \E r \in DOMAIN rooms : \E pw \in PasswordOutcomes(r) :
            LobbyEnterRoom(c, r, pw)
       \/ \E r \in RoomUids : LobbyDequeueTask(c, r)
       \/ HandleClientConnected(c)
       \/ HandleClientDisconnected(c)
       \/ \E r \in RoomUids, presented \in BOOLEAN :
            HandleEnterRoom(c, r, presented)
       \/ HandleLeaveRoom(c)
       \/ HandleStartRace(c)
       \/ HandleLoadingComplete(c)
       \/ \E t \in CourseTimes : HandleUserRaceFinal(c, t)
       \* HandleRaceResult, HandleP2PRaceResult, HandleAwardStart, HandleChat,
       \* HandleRelayCommand and HandleRelay are the same step, ReadInstance(c),
       \* and the two ActivateEvent handlers the same RacerBroadcast(c); each
       \* relation is listed once.
       \/ ReadInstance(c)
       \/ RacerBroadcast(c)
  \/ \E due \in SUBSET startTasks : Tick(due)
  \/ \E r \in RoomUids : StageTimeout(r)

\* The server loop keeps calling Tick and the steady clock keeps running;
\* clients are under no obligation to act.
Fairness ==
  /\ WF_vars(\E due \in SUBSET startTasks : Tick(due))
  /\ \A r \in RoomUids : WF_vars(StageTimeout(r))

Spec == Init /\ [][Next]_vars /\ Fairness

-----------------------------------------------------------------------------
(* Properties.                                                             *)

RoomRecords ==
  [maxPlayerCount : 0..RoomCapacityLimit, hasPassword : BOOLEAN,
   queued : SUBSET Chars, players : SUBSET Chars, playing : BOOLEAN]
Racers == UNION {[S -> [state : RacerStates,
                        courseTime : CourseTimes \cup {UnfinishedTime}]] :
                   S \in SUBSET Chars}
InstanceRecords ==
  [stage : Stages, masterUid : Chars \cup {InvalidUid},
   clients : SUBSET Chars, racers : Racers, expired : BOOLEAN]

TypeOK ==
  /\ DOMAIN rooms \subseteq RoomUids
  /\ \A r \in DOMAIN rooms : rooms[r] \in RoomRecords
  /\ sequencedId \in 0..MaxRoomUid
  /\ otp \subseteq Chars \X RoomUids
  /\ dequeueTasks \subseteq Chars \X RoomUids
  /\ clients \in [Chars -> [connected : BOOLEAN, isAuthenticated : BOOLEAN,
                            roomUid : RoomUids \cup {InvalidUid}]]
  /\ dropping \subseteq Chars
  /\ DOMAIN raceInstances \subseteq RoomUids \cup {InvalidUid}
  /\ \A r \in DOMAIN raceInstances : raceInstances[r] \in InstanceRecords
  /\ startTasks \subseteq Chars
  /\ starts \in 0..MaxStarts

InstanceClients(r) ==
  IF r \in DOMAIN raceInstances THEN raceInstances[r].clients ELSE {}

\* The three records of who is in a room agree: the RoomSystem's players
\* (AddPlayer in HandleEnterRoom, RemovePlayer in HandleLeaveRoom), the race
\* instance's clients, and the roomUid of each client context; an instance
\* never outlives its room (DeleteRoom and the erase in HandleLeaveRoom).
RoomMembershipAgrees ==
  /\ DOMAIN raceInstances \ {InvalidUid} \subseteq DOMAIN rooms
  /\ \A r \in DOMAIN rooms : rooms[r].players = InstanceClients(r)
  /\ \A r \in RoomUids :
       InstanceClients(r) = {c \in Chars : clients[c].roomUid = r}

\* The master of a room's instance is one of its clients: the first entrant,
\* or a remaining player promoted by HandleLeaveRoom when the master left.
MasterIsPlayer ==
  \A r \in DOMAIN raceInstances \ {InvalidUid} :
    raceInstances[r].masterUid \in raceInstances[r].clients

\* Once the loading stage is over (Tick's loading loop), no racer is still
\* loading: whoever had not loaded was marked Disconnected.
RacingHasNoLoadingRacer ==
  \A r \in DOMAIN raceInstances :
    raceInstances[r].stage \in {"Racing", "Finishing"} =>
      \A p \in DOMAIN raceInstances[r].racers :
        raceInstances[r].racers[p].state /= "Loading"

\* Every started race returns to Waiting (or its room goes away) through the
\* stage timeouts of Tick, whatever the racers do.
RaceEventuallyEnds ==
  \A r \in RoomUids :
    (r \in DOMAIN raceInstances /\ raceInstances[r].stage /= "Waiting")
      ~> (r \notin DOMAIN raceInstances \/ raceInstances[r].stage = "Waiting")

\* The race result broadcast by Tick's finishing loop lists every racer.
EveryRacerScored ==
  [][\A r \in DOMAIN raceInstances \cap DOMAIN raceInstances' :
       raceInstances[r].stage /= "Waiting" /\ raceInstances'[r].stage = "Waiting"
         => Scoreboard(raceInstances'[r].racers) = DOMAIN raceInstances'[r].racers]_vars

\* The RoomSystem invariant of the spec: committed and queued players
\* together never exceed the room's maximum (QueuePlayer, AddPlayer).
RoomCapacity ==
  \A r \in DOMAIN rooms :
    Cardinality(rooms[r].players) + Cardinality(rooms[r].queued)
      <= rooms[r].maxPlayerCount

\* Tick never throws because a client it names went away meanwhile: neither
\* the start-race task of HandleStartRace, run by the scheduler, nor the
\* race-final broadcast of the racing loop, which looks up every client of
\* an instance whose course time is up as it leaves Racing.
TickNeverThrows ==
  [][/\ \A c \in startTasks \ startTasks' : ~TaskThrows(c)
     /\ \A r \in DOMAIN raceInstances \cap DOMAIN raceInstances' :
          /\ raceInstances[r].stage = "Racing"
          /\ raceInstances[r].expired
          /\ raceInstances'[r].stage \in {"Finishing", "Waiting"}
          => \A c \in raceInstances[r].clients : ~TaskThrows(c)]_vars

\* The refinement mapping onto RaceStages: an instance's stage (Absent
\* while _raceInstances has no entry), the room's playing flag, and the
\* characters the tracker holds as racers.
StageOf(r) ==
  IF r \in DOMAIN raceInstances THEN raceInstances[r].stage ELSE "Absent"
RosterOf(r) ==
  IF r \in DOMAIN raceInstances THEN DOMAIN raceInstances[r].racers ELSE {}
PlayingOf(r) == r \in DOMAIN rooms /\ rooms[r].playing

Abstract == INSTANCE RaceStages WITH
              Rooms <- RoomUids,
              stage <- [r \in RoomUids |-> StageOf(r)],
              playing <- [r \in RoomUids |-> PlayingOf(r)],
              roster <- [r \in RoomUids |-> RosterOf(r)]

\* RaceDirector implements RaceStages: HandleEnterRoom creates an instance
\* in Waiting, HandleStartRace leaves Waiting only together with
\* SetRoomPlaying(true) and a roster of the room's players, Tick's loops
\* move the stage only forward and clear the playing flag exactly when the
\* finishing loop returns to Waiting, the roster survives leaves (racers
\* are marked Disconnected, not erased), and HandleLeaveRoom erases the
\* instance together with its room.
RaceStagesRefined == Abstract!Spec

=============================================================================
