--------------------------- MODULE MCConnections ----------------------------
(* One client and the server: signing in, the session from the lobby to the *)
(* game and back, the pacing of its orders.  And what becomes of orders:    *)
(* two builders, who may die or have a feature to reclaim, and two site ids *)
(* in turn on the same spot.  The four share no variable: a run is of one   *)
(* of them.                                                                 *)
EXTENDS CmdWindow, Session, Accounts, BuildOrders

VARIABLE part

(* Everybody dials from behind one address. *)
OneAddress == [c \in Guests |-> "here"]

connVars == <<part, windowVars, sessionVars, accVars, vars>>

ConnInit ==
  /\ part \in {"window", "session", "accounts", "sites", "wrecks"}
  /\ WindowInit /\ SessionInit /\ AccInit /\ Init
  /\ part # "accounts" => disk.atomic

ConnNext ==
  \/ part = "window" /\ WindowNext /\ UNCHANGED <<part, sessionVars, accVars, vars>>
  \/ part = "session" /\ SessionNext /\ UNCHANGED <<part, windowVars, accVars, vars>>
  \/ part = "accounts" /\ AccNext /\ UNCHANGED <<part, windowVars, sessionVars, vars>>
  \/ /\ part = "sites" /\ Next /\ UNCHANGED <<part, windowVars, sessionVars, accVars>>
     /\ \A b \in Builders : ~HeadIs(orders'[b], "reclaim")
  \/ part = "wrecks" /\ Next /\ UNCHANGED <<part, windowVars, sessionVars, accVars, living>>

(* The tick goes on; nothing is said of anybody else.                       *)
ConnSpec ==
  /\ ConnInit /\ [][ConnNext]_connVars
  /\ WF_vars(part \in {"sites", "wrecks"} /\ Tick)
=============================================================================
