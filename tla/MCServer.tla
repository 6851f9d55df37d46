------------------------------ MODULE MCServer ------------------------------
(* The server's two sides: the rooms and who is in them, with connections   *)
(* that are interchangeable, and the ticks of one running game, of a player *)
(* who may come back on a second connection, the AI, and a spectator.  And  *)
(* of the game itself a factory of one player against a charmer of another. *)
(* The three share no variable: a run is of one of them.                    *)
EXTENDS MCTickServer, Lobby, Production, TLC

CONSTANTS l1, l2

VARIABLE part

serverVars == <<part, vars, lobbyVars, productionVars>>

ClientSymmetry == Permutations(Clients)

StartDef == <<[owner |-> "ann", kind |-> "hall"], [owner |-> "bob", kind |-> "monk"]>>

(* One god to a player. *)
AllowedDef == [k \in Kinds |-> IF k = "god" THEN 1 ELSE 0]

(* What the connections bring to the game concerns nothing else. *)
ServerInit ==
  /\ part \in {"ticks", "rooms", "queues"}
  /\ Init /\ LobbyInit /\ ProductionInit
  /\ part # "ticks" => ack = [c \in Conns |-> 0]

ServerNext ==
  \/ part = "ticks" /\ Next /\ UNCHANGED <<part, lobbyVars, productionVars>>
  \/ part = "rooms" /\ LobbyNext /\ UNCHANGED <<part, vars, productionVars>>
  \/ part = "queues" /\ ProductionNext /\ UNCHANGED <<part, vars, lobbyVars>>

ServerSpec == ServerInit /\ [][ServerNext]_serverVars
=============================================================================
