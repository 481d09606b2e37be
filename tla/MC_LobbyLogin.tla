---------------------------- MODULE MC_LobbyLogin ----------------------------
EXTENDS LobbyLogin

\* Nicknames at the edges of the rule: the shortest Latin and Hangul names
\* and one letter less, a name with another character, and names at and
\* one past the 16-byte capacity.
MC_Nicknames ==
  {<<"L", "L", "L">>, <<"L", "L">>, <<"K", "K">>, <<"K">>, <<"K", "L">>,
   <<"L", "X", "L">>, [i \in 1..8 |-> "K"], [i \in 1..9 |-> "K"],
   [i \in 1..16 |-> "L"], [i \in 1..17 |-> "L"]}
=============================================================================
