CONSTANTS
  Clients = {c1, c2}
  Characters <- MC_Characters
  Guilds <- MC_Guilds
  Owner <- MC_Owner
  NoSuchUid <- MC_NoSuchUid
  MaxInvites = 2
SPECIFICATION Spec
INVARIANTS
  GuildMembersAgree
