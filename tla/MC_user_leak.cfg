\* The pass run's instance, checked for the release of user instances.
CONSTANTS
  Clients = {c1, c2}
  Users = {u1, u2, u3, u4}
  NoUser = NoUser
  Registered = {u1, u2, u4}
  WithCharacter = {u1, u4}
  Banned = {u4}
  Nicknames <- MC_Nicknames
  MaxLogins = 1
SPECIFICATION Spec
INVARIANTS
  UserSessionsAgree
