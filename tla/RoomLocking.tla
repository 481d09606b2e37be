----------------------------- MODULE RoomLocking -----------------------------
(***************************************************************************)
(* The locking of RoomSystem (src/unnamed/part_000, lines 171-229), shared  *)
(* by the lobby server's thread (CreateRoom, GetRoom, GetRoomsSnapshot) and *)
(* the race server's threads (GetRoom, DeleteRoom from HandleLeaveRoom).    *)
(*                                                                         *)
(* _rooms maps a uid to an Entry that holds the Room and its own mutex;    *)
(* _roomsLock guards the map.  A room is abstracted to its uid: what the    *)
(* consumers do to it is one step under the entry's mutex.  Uids come from *)
(* ++_sequencedId and are never reused, so a uid names one Entry for the   *)
(* whole run, and "erased" records the entries DeleteRoom has destroyed.   *)
(* Locking the mutex of a destroyed entry is undefined behaviour; the      *)
(* model lets it succeed, the outcome that keeps the thread running.       *)
(*                                                                         *)
(* The lobby's 7 s dequeue task (LobbyNetworkHandler::HandleEnterRoom)    *)
(* asks RoomExists, under its own hold of _roomsLock, before it calls      *)
(* GetRoom: two lookups with the lock released between them.              *)
(***************************************************************************)
EXTENDS Naturals, FiniteSets

CONSTANTS
  LobbyThreads,  \* the lobby server's threads
  RaceThreads,   \* the race server's threads
  MaxRoomUid     \* bound on ++_sequencedId

Threads == LobbyThreads \cup RaceThreads

Free == "free"
NoRoom == 0    \* uids start at 1

Uids == 1..MaxRoomUid

VARIABLES
  sequencedId,  \* RoomSystem::_sequencedId
  registry,     \* the uids that are keys of _rooms
  erased,       \* the uids whose Entry DeleteRoom destroyed
  roomsLock,    \* the holder of _roomsLock, or Free
  roomMutex,    \* uid -> the holder of Entry::mutex, or Free
  pc,           \* thread -> where it is in its call
  ref,          \* thread -> the entry it holds a reference or iterator to
  visited,      \* thread -> entries GetRoomsSnapshot has already copied
  raced,        \* the uids the race server holds a race instance of
  announced,    \* the uids whose CreateRoom consumer has returned
  checked,      \* thread -> the uid its RoomExists found, or NoRoom
  failed        \* the threads whose GetRoom threw "Room does not exist"

vars == <<sequencedId, registry, erased, roomsLock, roomMutex, pc, ref,
          visited, raced, announced, checked, failed>>

Pcs == {"idle", "exists", "createLock", "getLock", "consume", "snapshot"}

TypeOK ==
  /\ sequencedId \in 0..MaxRoomUid
  /\ registry \subseteq Uids
  /\ erased \subseteq Uids
  /\ roomsLock \in Threads \cup {Free}
  /\ roomMutex \in [Uids -> Threads \cup {Free}]
  /\ pc \in [Threads -> Pcs]
  /\ ref \in [Threads -> Uids \cup {NoRoom}]
  /\ visited \in [Threads -> SUBSET Uids]
  /\ raced \subseteq Uids
  /\ announced \subseteq Uids
  /\ checked \in [Threads -> Uids \cup {NoRoom}]
  /\ failed \subseteq Threads

Init ==
  /\ sequencedId = 0
  /\ registry = {}
  /\ erased = {}
  /\ roomsLock = Free
  /\ roomMutex = [u \in Uids |-> Free]
  /\ pc = [t \in Threads |-> "idle"]
  /\ ref = [t \in Threads |-> NoRoom]
  /\ visited = [t \in Threads |-> {}]
  /\ raced = {}
  /\ announced = {}
  /\ checked = [t \in Threads |-> NoRoom]
  /\ failed = {}

\* CreateRoom, under _roomsLock: take the next uid, emplace its entry and
\* keep a reference to it, then unlock.
CreateRoom(t) ==
  /\ pc[t] = "idle"
  /\ roomsLock = Free
  /\ sequencedId < MaxRoomUid
  /\ sequencedId' = sequencedId + 1
  /\ registry' = registry \cup {sequencedId + 1}
  /\ ref' = [ref EXCEPT ![t] = sequencedId + 1]
  /\ pc' = [pc EXCEPT ![t] = "createLock"]
  /\ UNCHANGED <<checked, failed, raced, announced, erased, roomsLock, roomMutex, visited>>

\* GetRoom, under _roomsLock: find the uid; a present one is kept by
\* reference after the unlock.  The handlers take the uid from a client,
\* who learns it once the room was created.  A missing uid throws, the
\* unique_lock releasing the registry, and changes nothing.
GetRoom(t, u) ==
  /\ pc[t] = "idle"
  /\ roomsLock = Free
  /\ u \in announced
  /\ u \in registry
  /\ ref' = [ref EXCEPT ![t] = u]
  /\ pc' = [pc EXCEPT ![t] = "getLock"]
  /\ UNCHANGED <<checked, failed, raced, announced, sequencedId, registry, erased, roomsLock, roomMutex, visited>>

\* The dequeue task's RoomExists: the uid is a key of _rooms.  A missing
\* uid ends the task with nothing changed.
RoomExists(t, u) ==
  /\ pc[t] = "idle"
  /\ roomsLock = Free
  /\ u \in announced
  /\ u \in registry
  /\ checked' = [checked EXCEPT ![t] = u]
  /\ pc' = [pc EXCEPT ![t] = "exists"]
  /\ UNCHANGED <<failed, raced, announced, sequencedId, registry, erased, roomsLock, roomMutex, ref, visited>>

\* The dequeue task's GetRoom on the uid RoomExists found: under
\* _roomsLock again, a present uid is kept by reference; a uid erased
\* meanwhile throws out of the task and of the lobby's Tick.
DequeueGetRoom(t) ==
  /\ pc[t] = "exists"
  /\ roomsLock = Free
  /\ checked' = [checked EXCEPT ![t] = NoRoom]
  /\ IF checked[t] \in registry
       THEN /\ ref' = [ref EXCEPT ![t] = checked[t]]
            /\ pc' = [pc EXCEPT ![t] = "getLock"]
            /\ UNCHANGED failed
       ELSE /\ failed' = failed \cup {t}
            /\ pc' = [pc EXCEPT ![t] = "idle"]
            /\ UNCHANGED ref
  /\ UNCHANGED <<raced, announced, sequencedId, registry, erased, roomsLock, roomMutex, visited>>

\* CreateRoom and GetRoom, after the registry unlock: scoped_lock on the
\* entry's mutex, through the reference taken under the registry lock.
LockRoom(t) ==
  /\ pc[t] \in {"createLock", "getLock"}
  /\ roomMutex[ref[t]] = Free
  /\ roomMutex' = [roomMutex EXCEPT ![ref[t]] = t]
  /\ pc' = [pc EXCEPT ![t] = "consume"]
  /\ UNCHANGED <<checked, failed, raced, announced, sequencedId, registry, erased, roomsLock, ref, visited>>

\* The consumer runs on the room; the scoped_lock releases its mutex.  A
\* race server consumer is one of its handlers, whose HandleEnterRoom
\* creates the room's race instance (main.cpp:3087); the lobby's
\* CreateRoom consumer configures the room, whose uid the lobby then
\* hands to the client.
Consume(t) ==
  /\ pc[t] = "consume"
  /\ roomMutex' = [roomMutex EXCEPT ![ref[t]] = Free]
  /\ ref' = [ref EXCEPT ![t] = NoRoom]
  /\ pc' = [pc EXCEPT ![t] = "idle"]
  /\ raced' = IF t \in RaceThreads THEN raced \cup {ref[t]} ELSE raced
  /\ announced' = IF t \in LobbyThreads THEN announced \cup {ref[t]} ELSE announced
  /\ UNCHANGED <<checked, failed, sequencedId, registry, erased, roomsLock, visited>>

\* GetRoomsSnapshot takes _roomsLock and holds it for the whole loop.
SnapshotBegin(t) ==
  /\ pc[t] = "idle"
  /\ roomsLock = Free
  /\ roomsLock' = t
  /\ visited' = [visited EXCEPT ![t] = {}]
  /\ pc' = [pc EXCEPT ![t] = "snapshot"]
  /\ UNCHANGED <<checked, failed, raced, announced, sequencedId, registry, erased, roomMutex, ref>>

\* The loop's iterator moves to an entry it has not copied yet, in the
\* map's unspecified order, and waits there for the entry's mutex.
SnapshotNext(t) ==
  /\ pc[t] = "snapshot"
  /\ ref[t] = NoRoom
  /\ \E u \in registry \ visited[t] : ref' = [ref EXCEPT ![t] = u]
  /\ UNCHANGED <<checked, failed, raced, announced, sequencedId, registry, erased, roomsLock, roomMutex, pc, visited>>

\* The entry's scoped_lock is taken, the snapshot copied and the lock
\* released within one loop iteration.
SnapshotCopy(t) ==
  /\ pc[t] = "snapshot"
  /\ ref[t] /= NoRoom
  /\ roomMutex[ref[t]] = Free
  /\ visited' = [visited EXCEPT ![t] = @ \cup {ref[t]}]
  /\ ref' = [ref EXCEPT ![t] = NoRoom]
  /\ UNCHANGED <<checked, failed, raced, announced, sequencedId, registry, erased, roomsLock, roomMutex, pc>>

\* The iterator reaches end(): the scoped_lock releases _roomsLock.
SnapshotEnd(t) ==
  /\ pc[t] = "snapshot"
  /\ ref[t] = NoRoom
  /\ registry \subseteq visited[t]
  /\ roomsLock' = Free
  /\ pc' = [pc EXCEPT ![t] = "idle"]
  /\ UNCHANGED <<checked, failed, raced, announced, sequencedId, registry, erased, roomMutex, ref, visited>>

\* The race server's HandleLeaveRoom, once the last client of a race
\* instance left, calls DeleteRoom and erases the instance.  DeleteRoom
\* finds and erases the entry without taking _roomsLock; the Entry, its
\* Room and its mutex are destroyed with it.
DeleteRoom(t, u) ==
  /\ pc[t] = "idle"
  /\ u \in raced
  /\ u \in registry
  /\ registry' = registry \ {u}
  /\ erased' = erased \cup {u}
  /\ raced' = raced \ {u}
  /\ UNCHANGED <<checked, failed, announced, sequencedId, roomsLock, roomMutex, pc, ref, visited>>

\* The lobby creates rooms, lists them and looks them up; the race server
\* looks them up and deletes them.
Next ==
  \/ \E t \in LobbyThreads :
       \/ CreateRoom(t)
       \/ \E u \in Uids : RoomExists(t, u)
       \/ DequeueGetRoom(t)
       \/ SnapshotBegin(t) \/ SnapshotNext(t) \/ SnapshotCopy(t) \/ SnapshotEnd(t)
  \/ \E t \in RaceThreads, u \in Uids : DeleteRoom(t, u)
  \/ \E t \in Threads :
       \/ \E u \in Uids : GetRoom(t, u)
       \/ LockRoom(t)
       \/ Consume(t)

Spec == Init /\ [][Next]_vars

\* A room a thread has found in the registry is still there while the
\* thread goes on with it: DeleteRoom has not destroyed the entry a thread
\* reaches through a reference or an iterator it took under _roomsLock
\* (GetRoom and CreateRoom up to the end of the consumer, GetRoomsSnapshot
\* while it visits the entry), nor erased the uid between the dequeue
\* task's RoomExists and its GetRoom.
NoRoomVanishesInUse ==
  /\ \A t \in Threads : ref[t] \notin erased
  /\ failed = {}

=============================================================================
