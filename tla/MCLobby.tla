------------------------------ MODULE MCLobby -------------------------------
(* Three nodes, each first among the validators of its chain. *)
EXTENDS Lobby
==============================================================================
