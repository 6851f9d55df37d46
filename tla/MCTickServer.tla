----------------------------- MODULE MCTickServer -----------------------------
(* One running game with its players' connections, and what these bring to *)
(* it of earlier games (TickServer: ack).                                  *)
EXTENDS TickServer

CONSTANTS p1, p2, c1, c2, c3, c4

(* Two players; player 1 has a second connection to come back on. *)
SeatOf == (c1 :> p1) @@ (c2 :> p2) @@ (c3 :> p1)

FirstDef == (p1 :> c1) @@ (p2 :> c2)

(* One player, who may come back, against the AI; and a spectator. *)
SeatSolo == (c1 :> p1) @@ (c3 :> p1) @@ (c4 :> None)

FirstSolo == p1 :> c1

(* All connections are new. *)
NewAcks == [c \in Conns |-> {0}]

(* Player 2 comes from an earlier game, in which it reported tick 2. *)
StaleAcks == [c \in Conns |-> IF c = c2 THEN {2} ELSE {0}]

(* The player is new or comes from such a game. *)
MixedAcks == [c \in Conns |-> IF c = c1 THEN {0, 2} ELSE {0}]
=============================================================================
