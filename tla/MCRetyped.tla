----------------------------- MODULE MCRetyped ------------------------------
(* The rooms alone, with a mission's room among them (Lobby: Missions). *)
EXTENDS Lobby
=============================================================================
