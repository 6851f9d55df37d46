----------------------------- MODULE MCEndOfGame ----------------------------
(* Three players, each a team of its own. *)
EXTENDS EndOfGame
CONSTANTS ann, bob, cyd
FreeForAll == [p \in Players |-> p]
============================================================================
