\* Two clients; u1 has a character, u2 does not (the creator path), u3 has
\* no record, and u4 is kept out by the infraction system.  Each connection
\* sends one login, as the game client does.
CONSTANTS
  Clients = {c1, c2}
  Users = {u1, u2, u3, u4}
  NoUser = NoUser
  Registered = {u1, u2, u4}
  WithCharacter = {u1, u4}
  Banned = {u4}
  Nicknames <- MC_Nicknames
  MaxLogins = 1
SPECIFICATION Spec
INVARIANTS
  TypeOK
  NoValidNicknameRefused
PROPERTIES
  LoginEventuallyAnswered
