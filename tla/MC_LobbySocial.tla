--------------------------- MODULE MC_LobbySocial ---------------------------
(* Constants for LobbySocial: two clients, three characters, one guild    *)
(* owned by the third.                                                     *)
EXTENDS LobbySocial

MC_Characters == {1, 2, 3}
MC_Guilds == {7}
MC_Owner == [g \in MC_Guilds |-> 3]
MC_NoSuchUid == 9
=============================================================================
