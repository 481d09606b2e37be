----------------------------- MODULE LobbyLogin -----------------------------
(***************************************************************************)
(* The lobby login pipeline.  Two threads share it:                        *)
(*  - the command server runs the LobbyNetworkHandler handlers            *)
(*    (src/src/server/lobby/LobbyNetworkHandler.cpp) on the client        *)
(*    contexts `_clients`, and hands work to the lobby thread through the  *)
(*    director's scheduler;                                                *)
(*  - the lobby thread runs LobbyDirector::Tick (src/unnamed/part_001):    *)
(*    the login response loop, the login request loop, then the scheduled  *)
(*    tasks.                                                               *)
(* The data director (not in the sources) loads user and character records *)
(* asynchronously; a load is a pending state that an environment step      *)
(* completes.  User names and clients are model values, a token is whether *)
(* it matches the user's record, and a nickname is a sequence of letter    *)
(* classes (NameValidation).                                               *)
(***************************************************************************)
EXTENDS Naturals, Sequences, SequencesExt, NameValidation

CONSTANTS
  Clients,        \* client ids of the lobby's command server
  Users,          \* user names
  NoUser,         \* the empty user name of a default QueuedLogin
  Registered,     \* users whose record exists in the data store
  WithCharacter,  \* users whose record holds a character uid at start
  Banned,         \* users the infraction system keeps out
  Nicknames,      \* nicknames a client may send in CreateNickname
  MaxLogins       \* bound on the login commands one connection sends

ASSUME /\ NoUser \notin Users
       /\ Registered \subseteq Users /\ WithCharacter \subseteq Registered
       /\ Banned \subseteq Users
       /\ Nicknames \subseteq Seq(LetterClasses) \ {<<>>}
       /\ MaxLogins \in Nat

\* HandleCreateNickname checks nicknames against 16 bytes.
NicknameCapacity == 16

\* LobbyNetworkHandler::ClientContext (userName and isAuthenticated; the
\* character uid, visit preference and justCreatedCharacter are omitted).
NewClientContext == [isAuthenticated |-> FALSE, userName |-> NoUser]

\* LobbyDirector::QueuedLogin as `_clientLogins[clientId]` default-constructs it.
NoLogin == [none |-> TRUE]
DefaultLogin == [userName |-> NoUser, tokenMatches |-> FALSE,
                 userLoadRequested |-> FALSE, userCharacterLoadRequested |-> FALSE]

\* A reply, with the nickname of the CreateNickname command it answers
\* (<<>> for the other replies).
NoReply == [client |-> "none", kind |-> "none", nickname |-> <<>>]
ReplyKinds == {"LoginOK", "CreateNicknameNotify", "Cancel:InvalidLoginId",
               "Cancel:Duplicated", "Cancel:Generic", "Cancel:InvalidUser",
               "Cancel:DisconnectYourself"}

VARIABLES
  phase,          \* client -> "new" | "on" | "off": its context is in _clients while "on"
  ctx,            \* client -> ClientContext
  dropping,       \* clients whose handler threw; the command server closes them
  loginsSent,     \* client -> number of login commands it sent
  logins,         \* _clientLogins: client -> QueuedLogin or NoLogin
  requestQueue,   \* _loginRequestQueue
  responseQueue,  \* _loginResponseQueue
  userInstances,  \* the user names keyed in _userInstances
  tasks,          \* the director's scheduler queue
  tickPc,         \* the loop of LobbyDirector::Tick the lobby thread is in
  userData,       \* user name -> "none" | "loading" | "loaded"
  characterData,  \* user name -> "none" | "loading" | "loaded"
  hasCharacter,   \* user name -> the user record holds a character uid
  reply,          \* the login reply queued by the last step, or NoReply
  awaiting        \* clients whose queued login has not been answered

networkVars == <<phase, ctx, dropping, loginsSent>>
directorVars == <<logins, requestQueue, responseQueue, userInstances, tasks, tickPc>>
dataVars == <<userData, characterData, hasCharacter>>
vars == <<networkVars, directorVars, dataVars, reply, awaiting>>

-----------------------------------------------------------------------------
(* Helpers of the data director (not in the sources).                      *)

AreDataBeingLoaded(u) ==
  userData[u] = "loading" \/ (u \in Users /\ characterData[u] = "loading")
AreUserDataLoaded(u) == userData[u] = "loaded"
AreCharacterDataLoaded(u) == characterData[u] = "loaded"
\* A request for data already in the cache leaves them loaded.
Requested(s) == IF s = "loaded" THEN "loaded" ELSE "loading"

-----------------------------------------------------------------------------
(* Replies.  A reply is queued only while the client's context exists:     *)
(* AcceptLogin and RejectLogin call GetClientContext and swallow its throw. *)

Answer(c, kind) ==
  /\ reply' = [client |-> c, kind |-> kind, nickname |-> <<>>]
  /\ awaiting' = awaiting \ {c}
Silent == reply' = NoReply /\ UNCHANGED awaiting

\* LobbyNetworkHandler::RejectLogin.
RejectLogin(c, reason) ==
  IF phase[c] = "on" THEN Answer(c, reason) ELSE Silent

\* LobbyNetworkHandler::SendLoginOK (the reply's payload is left out; the
\* records it reads are those the login loaded or the creator created).
SendLoginOK(c) == Answer(c, "LoginOK")

\* LobbyNetworkHandler::SendCreateNicknameNotify.
SendCreateNicknameNotify(c) == Answer(c, "CreateNicknameNotify")

\* LobbyNetworkHandler::AcceptLogin: the context is authenticated, then the
\* client is sent to the character creator or gets SendLoginOK.
AcceptLogin(c, sendToCharacterCreator) ==
  IF phase[c] = "on"
    THEN /\ ctx' = [ctx EXCEPT ![c].isAuthenticated = TRUE]
         /\ IF sendToCharacterCreator THEN SendCreateNicknameNotify(c) ELSE SendLoginOK(c)
    ELSE UNCHANGED ctx /\ Silent

-----------------------------------------------------------------------------
(* The scheduler tasks of the network handler, run by the lobby thread.    *)

ConnectTask(c) == [kind |-> "connect", client |-> c, user |-> NoUser,
                   tokenMatches |-> FALSE, isAuthenticated |-> FALSE]
LoginTask(c, u, t) == [kind |-> "login", client |-> c, user |-> u,
                       tokenMatches |-> t, isAuthenticated |-> FALSE]
DisconnectTask(c, auth, u) == [kind |-> "disconnect", client |-> c, user |-> u,
                               tokenMatches |-> FALSE, isAuthenticated |-> auth]

\* The director state the tasks and the tick loops change.
Director == [logins |-> logins, requestQueue |-> requestQueue,
             responseQueue |-> responseQueue, userInstances |-> userInstances]

\* LobbyDirector::QueueClientConnect.
QueueClientConnect(d, c) ==
  IF d.logins[c] = NoLogin THEN [d EXCEPT !.logins[c] = DefaultLogin] ELSE d

\* Variant: the login context is filled in but the client is not queued.
QueueClientLoginUnqueued(d, c, u, t) ==
  IF d.logins[c] = NoLogin THEN d
  ELSE [d EXCEPT !.logins[c] = [@ EXCEPT !.userName = u, !.tokenMatches = t]]

\* LobbyDirector::QueueClientLogin: a client without a login context is
\* ignored (the queue position 99); otherwise the name and token replace the
\* old ones, the load flags stay, and the client is queued.
QueueClientLogin(d, c, u, t) ==
  IF d.logins[c] = NoLogin THEN d
  ELSE [d EXCEPT !.logins[c] = [@ EXCEPT !.userName = u, !.tokenMatches = t],
                 !.requestQueue = Append(@, c)]

\* LobbyDirector::QueueClientLogout.
QueueClientLogout(d, u) == [d EXCEPT !.userInstances = @ \ {u}]

\* LobbyDirector::QueueClientDisconnect: std::list::remove drops every entry.
QueueClientDisconnect(d, c) ==
  [d EXCEPT !.requestQueue = Remove(@, c), !.responseQueue = Remove(@, c),
            !.logins[c] = NoLogin]

\* The tasks HandleClientConnected, HandleLogin and HandleClientDisconnected queue.
RunTask(d, t) ==
  CASE t.kind = "connect" -> QueueClientConnect(d, t.client)
    [] t.kind = "login" -> QueueClientLogin(d, t.client, t.user, t.tokenMatches)
    [] t.kind = "disconnect" ->
         QueueClientDisconnect(IF t.isAuthenticated THEN QueueClientLogout(d, t.user)
                                                    ELSE d, t.client)

\* The end of Tick: Scheduler::Tick runs every queued task in order.
RunScheduler(d) == FoldLeft(RunTask, d, tasks)

\* Sets the director variables from a director record.
SetDirector(d) ==
  /\ logins' = d.logins
  /\ requestQueue' = d.requestQueue
  /\ responseQueue' = d.responseQueue
  /\ userInstances' = d.userInstances

-----------------------------------------------------------------------------
(* LobbyDirector::Tick.  The response loop, then the request loop, then the *)
(* scheduler.  A loop whose head's data are still loading spins: the lobby  *)
(* thread has no step until the load completes.  `return` ends the Tick     *)
(* without the request loop and the scheduler.  The response loop asserts   *)
(* that the head's user record is available; when it is not (a default      *)
(* QueuedLogin names no user) the lobby thread has no further step.        *)

\* `_clientLogins[clientId]` inserts a default QueuedLogin for a client
\* without one.
LoginOf(c) == IF logins[c] = NoLogin THEN DefaultLogin ELSE logins[c]

ResponseHead == Head(responseQueue)
RequestHead == Head(requestQueue)

\* The response loop does not spin on its head.
ResponseHeadReady ==
  LET lc == LoginOf(ResponseHead)
  IN ~(lc.userCharacterLoadRequested /\ AreDataBeingLoaded(lc.userName))

\* The scheduler runs, and the next Tick starts.
EndTickFrom(d) ==
  /\ SetDirector(RunScheduler(d))
  /\ tasks' = <<>>
  /\ tickPc' = "responses"

TickResponsesEmpty ==
  /\ tickPc = "responses"
  /\ responseQueue = <<>>
  /\ tickPc' = "requests"
  /\ Silent
  /\ UNCHANGED <<networkVars, logins, requestQueue, responseQueue, userInstances,
                 tasks, dataVars>>

\* The head's user has a character whose load was not requested yet.
TickResponseLoadCharacter ==
  LET c == ResponseHead
      lc == LoginOf(c)
      u == lc.userName
  IN /\ tickPc = "responses"
     /\ responseQueue /= <<>> /\ ResponseHeadReady
     /\ AreUserDataLoaded(u) /\ hasCharacter[u] /\ ~lc.userCharacterLoadRequested
     /\ characterData' = [characterData EXCEPT ![u] = Requested(@)]
     /\ logins' = [logins EXCEPT ![c] = [lc EXCEPT !.userCharacterLoadRequested = TRUE]]
     /\ Silent
     /\ UNCHANGED <<networkVars, requestQueue, responseQueue, userInstances, tasks,
                    tickPc, userData, hasCharacter>>

\* The head is popped and answered.  The forced-creator set is never filled
\* in the sources (SetCharacterForcedIntoCreator has no caller), so only a
\* user without a character goes to the creator.
TickResponse ==
  LET c == ResponseHead
      lc == LoginOf(c)
      u == lc.userName
  IN /\ tickPc = "responses"
     /\ responseQueue /= <<>> /\ ResponseHeadReady
     /\ AreUserDataLoaded(u) /\ (~hasCharacter[u] \/ lc.userCharacterLoadRequested)
     /\ responseQueue' = Tail(responseQueue)
     /\ \/ /\ ~hasCharacter[u]
           /\ AcceptLogin(c, TRUE)
           /\ logins' = [logins EXCEPT ![c] = lc]
           /\ UNCHANGED <<userInstances, tickPc>>
        \/ /\ hasCharacter[u] /\ ~AreCharacterDataLoaded(u)
           /\ RejectLogin(c, "Cancel:Generic")
           /\ logins' = [logins EXCEPT ![c] = lc]
           /\ tickPc' = "requests"
           /\ UNCHANGED <<ctx, userInstances>>
        \/ /\ hasCharacter[u] /\ AreCharacterDataLoaded(u) /\ u \in userInstances
           /\ RejectLogin(c, "Cancel:Duplicated")
           /\ logins' = [logins EXCEPT ![c] = lc]
           /\ UNCHANGED <<ctx, userInstances, tickPc>>
        \/ /\ hasCharacter[u] /\ AreCharacterDataLoaded(u) /\ u \notin userInstances
           /\ userInstances' = userInstances \cup {u}
           /\ AcceptLogin(c, FALSE)
           /\ logins' = [logins EXCEPT ![c] = NoLogin]
           /\ tickPc' = "requests"
     /\ UNCHANGED <<phase, dropping, loginsSent, requestQueue, tasks, dataVars>>

TickRequestsEmpty ==
  /\ tickPc = "requests"
  /\ requestQueue = <<>>
  /\ EndTickFrom(Director)
  /\ Silent
  /\ UNCHANGED <<networkVars, dataVars>>

\* The head's user data were not requested yet.
TickRequestLoadUser ==
  LET c == RequestHead
      lc == LoginOf(c)
  IN /\ tickPc = "requests"
     /\ requestQueue /= <<>> /\ ~lc.userLoadRequested
     /\ userData' = [userData EXCEPT ![lc.userName] = Requested(@)]
     /\ logins' = [logins EXCEPT ![c] = [lc EXCEPT !.userLoadRequested = TRUE]]
     /\ Silent
     /\ UNCHANGED <<networkVars, requestQueue, responseQueue, userInstances, tasks,
                    tickPc, characterData, hasCharacter>>

\* The head is popped and checked: the user data, the token, the
\* infractions; an admitted client joins the response queue.  The scheduler
\* runs after it.
TickRequest ==
  LET c == RequestHead
      lc == LoginOf(c)
      u == lc.userName
      admitted == AreUserDataLoaded(u) /\ lc.tokenMatches /\ u \notin Banned
      d == [Director EXCEPT !.logins[c] = lc,
                            !.requestQueue = Tail(@),
                            !.responseQueue = IF admitted THEN Append(@, c) ELSE @]
  IN /\ tickPc = "requests"
     /\ requestQueue /= <<>> /\ lc.userLoadRequested /\ ~AreDataBeingLoaded(u)
     /\ \/ ~AreUserDataLoaded(u) /\ RejectLogin(c, "Cancel:Generic")
        \/ AreUserDataLoaded(u) /\ ~lc.tokenMatches /\ RejectLogin(c, "Cancel:InvalidUser")
        \/ /\ AreUserDataLoaded(u) /\ lc.tokenMatches /\ u \in Banned
           /\ RejectLogin(c, "Cancel:DisconnectYourself")
        \/ admitted /\ Silent
     /\ EndTickFrom(d)
     /\ UNCHANGED <<networkVars, dataVars>>

LobbyTick ==
  \/ TickResponsesEmpty \/ TickResponseLoadCharacter
  \/ TickResponse \/ TickRequestsEmpty \/ TickRequestLoadUser \/ TickRequest

-----------------------------------------------------------------------------
(* The network handler, on the command server's thread.                    *)

\* LobbyNetworkHandler::HandleClientConnected.
HandleClientConnected(c) ==
  /\ phase[c] = "new"
  /\ phase' = [phase EXCEPT ![c] = "on"]
  /\ ctx' = [ctx EXCEPT ![c] = NewClientContext]
  /\ tasks' = Append(tasks, ConnectTask(c))
  /\ Silent
  /\ UNCHANGED <<dropping, loginsSent, logins, requestQueue, responseQueue,
                 userInstances, tickPc, dataVars>>

\* Variant: the disconnect leaves the client in the closing set.
HandleClientDisconnectedKeepsDropping(c) ==
  /\ phase[c] = "on"
  /\ phase' = [phase EXCEPT ![c] = "off"]
  /\ tasks' = Append(tasks, DisconnectTask(c, ctx[c].isAuthenticated, ctx[c].userName))
  /\ ctx' = [ctx EXCEPT ![c] = NewClientContext]
  /\ Silent
  /\ UNCHANGED <<dropping, loginsSent, logins, requestQueue, responseQueue, userInstances,
                 tickPc, dataVars>>

\* LobbyNetworkHandler::HandleClientDisconnected: the task captures whether
\* the client is authenticated now, and the context is erased.
HandleClientDisconnected(c) ==
  /\ phase[c] = "on"
  /\ phase' = [phase EXCEPT ![c] = "off"]
  /\ tasks' = Append(tasks, DisconnectTask(c, ctx[c].isAuthenticated, ctx[c].userName))
  /\ ctx' = [ctx EXCEPT ![c] = NewClientContext]
  /\ dropping' = dropping \ {c}
  /\ Silent
  /\ UNCHANGED <<loginsSent, logins, requestQueue, responseQueue, userInstances,
                 tickPc, dataVars>>

\* LobbyNetworkHandler::HandleLogin: an empty login id is cancelled, a user
\* name an authenticated client holds is cancelled as duplicated, otherwise
\* the name is recorded and QueueClientLogin is scheduled.
HandleLogin(c, u, tokenMatches) ==
  LET held == \E o \in Clients : /\ phase[o] = "on" /\ ctx[o].isAuthenticated
                                 /\ ctx[o].userName = u
  IN /\ phase[c] = "on" /\ c \notin dropping
     /\ loginsSent[c] < MaxLogins
     /\ loginsSent' = [loginsSent EXCEPT ![c] = @ + 1]
     /\ \/ u = NoUser /\ Answer(c, "Cancel:InvalidLoginId") /\ UNCHANGED <<ctx, tasks>>
        \/ u /= NoUser /\ held /\ Answer(c, "Cancel:Duplicated") /\ UNCHANGED <<ctx, tasks>>
        \/ /\ u /= NoUser /\ ~held
           /\ ctx' = [ctx EXCEPT ![c].userName = u]
           /\ tasks' = Append(tasks, LoginTask(c, u, tokenMatches))
           /\ reply' = NoReply
           /\ awaiting' = awaiting \cup {c}
     /\ UNCHANGED <<phase, dropping, logins, requestQueue, responseQueue, userInstances,
                    tickPc, dataVars>>

\* The character HandleCreateNickname creates for a user without one.
CreateCharacter(u) ==
  IF hasCharacter[u]
    THEN UNCHANGED <<hasCharacter, characterData>>
    ELSE /\ hasCharacter' = [hasCharacter EXCEPT ![u] = TRUE]
         /\ characterData' = [characterData EXCEPT ![u] = "loaded"]

\* LobbyNetworkHandler::HandleCreateNickname: GetClientContext throws for an
\* unauthenticated client; an invalid nickname is cancelled; otherwise the
\* user's character is created (or the existing one updated) and SendLoginOK
\* follows.  The user record is loaded: the client authenticated through it.
HandleCreateNickname(c, name) ==
  /\ phase[c] = "on" /\ c \notin dropping
  /\ \/ /\ ~ctx[c].isAuthenticated
        /\ dropping' = dropping \cup {c}
        /\ Silent
        /\ UNCHANGED <<hasCharacter, characterData>>
     \/ /\ ctx[c].isAuthenticated
        /\ \E valid \in IsNameValidOutcomes(name, NicknameCapacity) :
             \/ /\ ~valid
                /\ reply' = [client |-> c, kind |-> "Cancel:Generic", nickname |-> name]
                /\ UNCHANGED <<awaiting, hasCharacter, characterData>>
             \/ valid /\ CreateCharacter(ctx[c].userName) /\ SendLoginOK(c)
        /\ UNCHANGED dropping
  /\ UNCHANGED <<phase, ctx, loginsSent, directorVars, userData>>

-----------------------------------------------------------------------------
(* The data director completes the loads it was asked for.                *)

UserDataLoaded(u) ==
  /\ userData[u] = "loading"
  /\ userData' = [userData EXCEPT ![u] = IF u \in Registered THEN "loaded" ELSE "none"]
  /\ Silent
  /\ UNCHANGED <<networkVars, directorVars, characterData, hasCharacter>>

CharacterDataLoaded(u) ==
  /\ characterData[u] = "loading"
  /\ characterData' = [characterData EXCEPT ![u] = "loaded"]
  /\ Silent
  /\ UNCHANGED <<networkVars, directorVars, userData, hasCharacter>>

-----------------------------------------------------------------------------

Init ==
  /\ phase = [c \in Clients |-> "new"]
  /\ ctx = [c \in Clients |-> NewClientContext]
  /\ dropping = {}
  /\ loginsSent = [c \in Clients |-> 0]
  /\ logins = [c \in Clients |-> NoLogin]
  /\ requestQueue = <<>>
  /\ responseQueue = <<>>
  /\ userInstances = {}
  /\ tasks = <<>>
  /\ tickPc = "responses"
  /\ userData = [u \in Users \cup {NoUser} |-> "none"]
  /\ characterData = [u \in Users |-> "none"]
  /\ hasCharacter = [u \in Users |-> u \in WithCharacter]
  /\ reply = NoReply
  /\ awaiting = {}

Next ==
  \/ LobbyTick
  \/ \E c \in Clients :
       \/ HandleClientConnected(c) \/ HandleClientDisconnected(c)
       \/ \E u \in Users \cup {NoUser}, t \in BOOLEAN : HandleLogin(c, u, t)
       \/ \E name \in Nicknames : HandleCreateNickname(c, name)
  \/ \E u \in Users \cup {NoUser} : UserDataLoaded(u)
  \/ \E u \in Users : CharacterDataLoaded(u)

\* The lobby thread ticks forever and the data director completes every
\* load; clients get no fairness.
Fairness ==
  /\ WF_vars(LobbyTick)
  /\ \A u \in Users \cup {NoUser} : WF_vars(UserDataLoaded(u))
  /\ \A u \in Users : WF_vars(CharacterDataLoaded(u))

Spec == Init /\ [][Next]_vars /\ Fairness

-----------------------------------------------------------------------------
(* Properties.                                                             *)

LoginContext == [userName : Users \cup {NoUser}, tokenMatches : BOOLEAN,
                 userLoadRequested : BOOLEAN, userCharacterLoadRequested : BOOLEAN]

TypeOK ==
  /\ phase \in [Clients -> {"new", "on", "off"}]
  /\ ctx \in [Clients -> [isAuthenticated : BOOLEAN, userName : Users \cup {NoUser}]]
  /\ dropping \subseteq {c \in Clients : phase[c] = "on"}
  /\ loginsSent \in [Clients -> 0..MaxLogins]
  /\ logins \in [Clients -> LoginContext \cup {NoLogin}]
  /\ requestQueue \in Seq(Clients) /\ responseQueue \in Seq(Clients)
  /\ userInstances \subseteq Users
  /\ tickPc \in {"responses", "requests"}
  /\ userData \in [Users \cup {NoUser} -> {"none", "loading", "loaded"}]
  /\ characterData \in [Users -> {"none", "loading", "loaded"}]
  /\ hasCharacter \in [Users -> BOOLEAN]
  /\ reply \in {NoReply} \cup [client : Clients, kind : ReplyKinds,
                                nickname : Nicknames \cup {<<>>}]
  /\ awaiting \subseteq Clients

\* A login the network handler queued is answered unless the client
\* disconnects: the lobby thread's loops and the data director's loads make
\* progress, and no path of Tick drops a queued client silently.
LoginEventuallyAnswered ==
  \A c \in Clients : c \in awaiting ~> (c \notin awaiting \/ phase[c] = "off")

\* HandleCreateNickname never cancels a nickname the protocol's rule allows
\* (Hangul and [A-Za-z0-9._-], at most 16 EUC-KR bytes, at least three
\* letters or two pure Hangul), whatever the uninitialized match-count
\* status of IsNameValid holds.
NoValidNicknameRefused ==
  reply.nickname /= <<>> => ~NicknameRule(reply.nickname, NicknameCapacity)

\* The authenticated connections of a user.
SessionsOf(u) ==
  {c \in Clients : phase[c] = "on" /\ ctx[c].isAuthenticated /\ ctx[c].userName = u}

\* A user is logged in on at most one connection, and its name stays in
\* _userInstances only while that connection holds it or while the logout
\* task of the connection that held it is queued.  HandleLogin's duplicate
\* check looks only at authenticated clients and the response loop's at
\* _userInstances, which the creator path never fills; QueueClientLogout
\* is the only place that releases a name, and a name left behind makes
\* every later login of the user fail as duplicated.
UserSessionsAgree ==
  \A u \in Users :
    /\ Cardinality(SessionsOf(u)) <= 1
    /\ u \in userInstances =>
         \/ SessionsOf(u) /= {}
         \/ \E i \in DOMAIN tasks : /\ tasks[i].kind = "disconnect"
                                    /\ tasks[i].isAuthenticated /\ tasks[i].user = u
=============================================================================
