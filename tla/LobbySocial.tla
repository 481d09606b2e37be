---------------------------- MODULE LobbySocial ----------------------------
(***************************************************************************)
(* The lobby's ranch hand-off and guild invitations                       *)
(* (src/src/server/lobby/LobbyNetworkHandler.cpp and LobbyDirector,       *)
(* src/unnamed/part_001): entering a ranch by uid or at random, locking   *)
(* one's own ranch, the visit preference the ranch server leaves for a    *)
(* character, and the invitation of a character into a guild and its     *)
(* acceptance.                                                             *)
(*                                                                         *)
(* A lobby client here is past the login pipeline (LobbyLogin models it): *)
(* SendLoginOK has set its characterUid and it is authenticated.  The     *)
(* character and guild records live in the data director, which is not   *)
(* in the sources; they are the variables ranchLocked, guildOf and        *)
(* members, read and written whole by each handler.  The ranch server,    *)
(* which calls InviteCharacterToGuild and SetCharacterVisitPreference,    *)
(* is the environment.  Officers and guild names are left out.            *)
(***************************************************************************)
EXTENDS Naturals, Sequences, SequencesExt

CONSTANTS
  Clients,      \* lobby connections
  Characters,   \* character uids with a character record
  Guilds,       \* guild uids with a guild record
  Owner,        \* guild -> its owner character
  NoSuchUid,    \* a uid a client may send that names no character
  MaxInvites    \* bound on the pending invites of one guild

ASSUME Owner \in [Guilds -> Characters] /\ NoSuchUid \notin Characters
ASSUME MaxInvites \in Nat

InvalidUid == 0
NoGuild == 0
ASSUME InvalidUid \notin Characters /\ NoGuild \notin Guilds

\* LobbyNetworkHandler::ClientContext of a connection without a login.
NoSession == [online |-> FALSE, characterUid |-> InvalidUid,
              rancherVisitPreference |-> InvalidUid]

VARIABLES
  session,      \* _clients: the context of each lobby connection
  ranchLocked,  \* Character::isRanchLocked of each character record
  guildOf,      \* Character::guildUid of each character record
  members,      \* Guild::members of each guild record
  invites,      \* LobbyDirector::_guildInstances[g].invites
  sent          \* the commands the last step queued for the clients

vars == <<session, ranchLocked, guildOf, members, invites, sent>>

\* The clients GetClientIdByCharacterUid may return for a character: an
\* authenticated context with that characterUid (at most one is online).
ClientsOf(ch) == {c \in Clients : session[c].online /\ session[c].characterUid = ch}

Msg(c, kind, rancher) == [client |-> c, kind |-> kind, rancher |-> rancher]
Send(c, kind, rancher) == sent' = {Msg(c, kind, rancher)}

-----------------------------------------------------------------------------
(* Sessions.                                                               *)

\* SendLoginOK: the context of an authenticated client takes the character
\* of its user record.  The login pipeline admits a user once.
SendLoginOK(c, ch) ==
  /\ ~session[c].online
  /\ ClientsOf(ch) = {}
  /\ session' = [session EXCEPT ![c] = [NoSession EXCEPT !.online = TRUE,
                                                         !.characterUid = ch]]
  /\ sent' = {}
  /\ UNCHANGED <<ranchLocked, guildOf, members, invites>>

\* HandleClientDisconnected erases the context.
HandleClientDisconnected(c) ==
  /\ session[c].online
  /\ session' = [session EXCEPT ![c] = NoSession]
  /\ sent' = {}
  /\ UNCHANGED <<ranchLocked, guildOf, members, invites>>

-----------------------------------------------------------------------------
(* Ranches.                                                                *)

\* HandleChangeRanchOption toggles the lock of the client's own ranch.
HandleChangeRanchOption(c) ==
  LET ch == session[c].characterUid
  IN /\ session[c].online
     /\ ranchLocked' = [ranchLocked EXCEPT ![ch] = ~@]
     /\ Send(c, "ChangeRanchOptionOK", InvalidUid)
     /\ UNCHANGED <<session, guildOf, members, invites>>

\* SendEnterRanchOK: a one-time code for the ranch server and the ranch.
EnterRanchOK(c, rancher) == Msg(c, "EnterRanchOK", rancher)

\* HandleEnterRanch.  A rancher without a record counts as locked.  A
\* locked ranch of another character queues EnterRanchCancel, and the
\* handler goes on to SendEnterRanchOK all the same.
HandleEnterRanch(c, rancher) ==
  LET isRanchLocked == rancher \notin Characters \/ ranchLocked[rancher]
      isEnteringOwnRanch == rancher = session[c].characterUid
  IN /\ session[c].online
     /\ sent' = {EnterRanchOK(c, rancher)} \cup
                 IF isRanchLocked /\ ~isEnteringOwnRanch
                   THEN {Msg(c, "EnterRanchCancel", InvalidUid)} ELSE {}
     /\ UNCHANGED <<session, ranchLocked, guildOf, members, invites>>

\* The ranches HandleEnterRanchRandomly picks from: the unlocked ranches of
\* other characters, or the client's own when there is none.
AvailableRanches(ch) ==
  LET open == {r \in Characters : ~ranchLocked[r] /\ r /= ch}
  IN IF open = {} THEN {ch} ELSE open

\* HandleEnterRanchRandomly: a pending visit preference is used (and
\* cleared) as it is; otherwise a random available ranch.
HandleEnterRanchRandomly(c) ==
  LET pref == session[c].rancherVisitPreference
  IN /\ session[c].online
     /\ session' = [session EXCEPT ![c].rancherVisitPreference = InvalidUid]
     /\ IF pref /= InvalidUid
          THEN sent' = {EnterRanchOK(c, pref)}
          ELSE \E r \in AvailableRanches(session[c].characterUid) :
                 sent' = {EnterRanchOK(c, r)}
     /\ UNCHANGED <<ranchLocked, guildOf, members, invites>>

\* LobbyDirector::SetCharacterVisitPreference, called by the ranch server:
\* recorded on the character's client if it is online, ignored otherwise.
SetCharacterVisitPreference(ch, rancher) ==
  /\ session' = [c \in Clients |->
                   IF c \in ClientsOf(ch)
                     THEN [session[c] EXCEPT !.rancherVisitPreference = rancher]
                     ELSE session[c]]
  /\ sent' = {}
  /\ UNCHANGED <<ranchLocked, guildOf, members, invites>>

-----------------------------------------------------------------------------
(* Guild invitations.                                                      *)

\* LobbyNetworkHandler::SendCharacterGuildInvitation: the invitation goes
\* to the invitee's client; GetClientIdByCharacterUid throws when it is
\* not online.
SendCharacterGuildInvitation(invitee) ==
  IF ClientsOf(invitee) = {}
    THEN sent' = {}
    ELSE \E c \in ClientsOf(invitee) : Send(c, "InviteGuildJoin", InvalidUid)

\* LobbyDirector::InviteCharacterToGuild, called by the ranch server: the
\* invite is stored before the invitation is sent, so it stays pending when
\* sending throws back to the caller.
InviteCharacterToGuild(invitee, g) ==
  /\ Len(invites[g]) < MaxInvites
  /\ invites' = [invites EXCEPT ![g] = Append(@, invitee)]
  /\ SendCharacterGuildInvitation(invitee)
  /\ UNCHANGED <<session, ranchLocked, guildOf, members>>

\* HandleAcceptInviteToGuild.  The pending invite is looked up for the
\* client's own character and erased; that character's guildUid is set;
\* then the character uid the command carries is added to the guild's
\* members unless it already is a member or the owner.
HandleAcceptInviteToGuild(c, g, commandUid) ==
  LET ch == session[c].characterUid
  IN /\ session[c].online
     /\ Contains(invites[g], ch)
     /\ invites' = [invites EXCEPT ![g] = RemoveFirst(@, ch)]
     /\ guildOf' = [guildOf EXCEPT ![ch] = g]
     /\ members' = IF commandUid \in members[g] \cup {Owner[g]}
                     THEN members
                     ELSE [members EXCEPT ![g] = @ \cup {commandUid}]
     /\ sent' = {}
     /\ UNCHANGED <<session, ranchLocked>>

\* HandleDeclineInviteToGuild only forwards the refusal to the ranch
\* server; the invite stays in the guild's pending list.
HandleDeclineInviteToGuild(c) ==
  /\ session[c].online
  /\ sent' = {}
  /\ UNCHANGED <<session, ranchLocked, guildOf, members, invites>>

-----------------------------------------------------------------------------

Init ==
  /\ session = [c \in Clients |-> NoSession]
  /\ ranchLocked \in [Characters -> BOOLEAN]
  /\ guildOf = [ch \in Characters |->
                  IF \E g \in Guilds : Owner[g] = ch
                    THEN CHOOSE g \in Guilds : Owner[g] = ch
                    ELSE NoGuild]
  /\ members = [g \in Guilds |-> {}]
  /\ invites = [g \in Guilds |-> <<>>]
  /\ sent = {}

Next ==
  \/ \E c \in Clients :
       \/ \E ch \in Characters : SendLoginOK(c, ch)
       \/ HandleClientDisconnected(c)
       \/ HandleChangeRanchOption(c)
       \/ \E r \in Characters \cup {NoSuchUid} : HandleEnterRanch(c, r)
       \/ HandleEnterRanchRandomly(c)
       \/ \E g \in Guilds, u \in Characters : HandleAcceptInviteToGuild(c, g, u)
       \/ HandleDeclineInviteToGuild(c)
  \/ \E ch, r \in Characters : SetCharacterVisitPreference(ch, r)
  \/ \E ch \in Characters, g \in Guilds : InviteCharacterToGuild(ch, g)

Spec == Init /\ [][Next]_vars

-----------------------------------------------------------------------------
(* Properties.                                                             *)

TypeOK ==
  /\ session \in [Clients -> [online : BOOLEAN,
                              characterUid : Characters \cup {InvalidUid},
                              rancherVisitPreference : Characters \cup {InvalidUid}]]
  /\ ranchLocked \in [Characters -> BOOLEAN]
  /\ guildOf \in [Characters -> Guilds \cup {NoGuild}]
  /\ members \in [Guilds -> SUBSET Characters]
  /\ invites \in [Guilds -> BoundedSeq(Characters, MaxInvites)]
  /\ sent \subseteq
       [client : Clients,
        kind : {"ChangeRanchOptionOK", "EnterRanchOK", "EnterRanchCancel", "InviteGuildJoin"},
        rancher : Characters \cup {NoSuchUid, InvalidUid}]

\* A guild's member list and its members' character records agree: every
\* character HandleAcceptInviteToGuild adds to a guild has that guild as
\* its guildUid.
GuildMembersAgree ==
  \A g \in Guilds : \A ch \in members[g] : guildOf[ch] = g

=============================================================================
