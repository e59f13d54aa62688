--------------------------- MODULE MCLobbyLifecycle ---------------------------
(* LobbyLifecycle with two lobbies for batches of one, and two closes of the  *)
(* one that falls due first.                                                  *)
EXTENDS LobbyLifecycle

MCSameLobby == [c \in Closes |-> 1]
=============================================================================
