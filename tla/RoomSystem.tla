---------------------------- MODULE RoomSystem ----------------------------
(***************************************************************************)
(* The room registry shared by the lobby and the race director            *)
(* (src/unnamed/part_000, class Room and RoomSystem).  A room keeps the   *)
(* characters that were given a seat by the lobby (queued) and the ones   *)
(* that entered the race server (players).  The registry itself is a      *)
(* function from room uid to room, with a monotonically increasing uid.   *)
(* Teams, names, game modes and the other details no property tells       *)
(* apart are left out; the password is kept as a flag.                    *)
(***************************************************************************)
EXTENDS Naturals, FiniteSets

\* Upper clamp the lobby applies to a requested player count.
RoomCapacityLimit == 8

\* A freshly constructed Room: all details default, nobody seated.
NewRoom ==
  [maxPlayerCount |-> 0, hasPassword |-> FALSE,
   queued |-> {}, players |-> {}, playing |-> FALSE]

\* Room::IsRoomFull: players and queued seats together reach the maximum.
IsRoomFull(room) ==
  Cardinality(room.players) + Cardinality(room.queued) >= room.maxPlayerCount

\* Room::QueuePlayer: reserve a seat unless the room is full.
QueuePlayer(room, c) ==
  IF IsRoomFull(room) THEN room ELSE [room EXCEPT !.queued = @ \cup {c}]

\* Room::DequeuePlayer: drop the reservation; the result tells whether
\* there was one.
DequeuePlayer(room, c) == [room EXCEPT !.queued = @ \ {c}]

\* Room::AddPlayer admits a character while the committed players alone are
\* below the maximum; the queued seats are not counted.
CanAddPlayer(room) == Cardinality(room.players) < room.maxPlayerCount

AddPlayer(room, c) ==
  [room EXCEPT !.queued = @ \ {c}, !.players = @ \cup {c}]

\* Variant: RemovePlayer erasing nothing (a lookup by the wrong key).
RemovePlayerNoop(room, c) == room

\* Room::RemovePlayer.
RemovePlayer(room, c) == [room EXCEPT !.players = @ \ {c}]

\* Variant: the playing flag is never raised.
SetRoomPlayingNeverSet(room, b) == [room EXCEPT !.playing = FALSE]

\* Room::SetRoomPlaying.
SetRoomPlaying(room, b) == [room EXCEPT !.playing = b]

\* RoomSystem::DeleteRoom: erase the entry from the registry.
DeleteRoom(rooms, uid) == [u \in DOMAIN rooms \ {uid} |-> rooms[u]]

=============================================================================
