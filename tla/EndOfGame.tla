----------------------------- MODULE EndOfGame ------------------------------
(***************************************************************************)
(* How a multiplayer game ends.  Every simulation computes from the same    *)
(* bundles who is defeated and which team is the last; a client maps that   *)
(* to the outcome of its own player and shows a banner; the server paces    *)
(* the room to the slowest of the players who are still connected.          *)
(***************************************************************************)
EXTENDS Integers, FiniteSets

CONSTANTS
  Players,      \* slots of type human; all are connected when the game starts
  Team,         \* Player.team
  HashPeriod,   \* kHashPeriod
  MaxLead,      \* kMaxLeadTicks
  LastTick      \* bound on the length of the game

VARIABLES
  falls,       \* the tick in which a player loses its last unit: what the orders come to
  tick,        \* Room::tick
  played,      \* GameView::netTick_
  ackTick,     \* Client::ackTick
  outcome,     \* GameView::outcome_
  connected    \* the players who have not left

endVars == <<falls, tick, played, ackTick, outcome, connected>>

EndInit ==
  /\ falls \in [Players -> 1 .. LastTick + 1]
  /\ tick = 0 /\ connected = Players
  /\ played = [p \in Players |-> 0] /\ ackTick = [p \in Players |-> 0]
  /\ outcome = [p \in Players |-> 0]

(* World::updateOutcome after t ticks. *)
Defeated(t) == {p \in Players : falls[p] <= t}
Surviving(t) == {Team[p] : p \in Players \ Defeated(t)}

(* Last team standing, or a team that is out while others play on. *)
Outcome(p, t) ==
  IF Cardinality(Surviving(t)) = 1
  THEN IF Surviving(t) = {Team[p]} THEN 1 ELSE -1
  ELSE IF Team[p] \in Surviving(t) THEN 0 ELSE -1

(* A turn of the drain loop, which an outcome ends for good. *)
PlayTick(p) ==
  /\ p \in connected /\ outcome[p] = 0 /\ played[p] < tick
  /\ played' = [played EXCEPT ![p] = @ + 1]
  /\ outcome' = [outcome EXCEPT ![p] = Outcome(p, played'[p])]
  /\ ackTick' = IF played[p] % HashPeriod = 0
                THEN [ackTick EXCEPT ![p] = played[p]] ELSE ackTick
  /\ UNCHANGED <<falls, tick, connected>>

(* Escape leaves the banner for the menu, and any player may leave before;  *)
(* the units of one who leaves are given up in the next tick.               *)
GoToMenu(p) ==
  /\ p \in connected
  /\ connected' = connected \ {p}
  /\ falls' = [falls EXCEPT ![p] = IF tick + 1 < @ THEN tick + 1 ELSE @]
  /\ UNCHANGED <<tick, played, ackTick, outcome>>

LeadHolds == \A p \in connected : tick <= ackTick[p] + MaxLead

ServerTick ==
  /\ tick < LastTick /\ connected # {} /\ LeadHolds
  /\ tick' = tick + 1
  /\ UNCHANGED <<falls, played, ackTick, outcome, connected>>

EndNext == ServerTick \/ \E p \in Players : PlayTick(p) \/ GoToMenu(p)

(* The server's loop and the frames of every client; leaving is up to the   *)
(* player.                                                                  *)
EndSpec ==
  /\ EndInit /\ [][EndNext]_endVars
  /\ WF_endVars(ServerTick) /\ \A p \in Players : WF_endVars(PlayTick(p))

-----------------------------------------------------------------------------
(* The defeat of one player ends the game of that player and of no other:   *)
(* while others are undecided the game goes on for them, to its end.        *)
TheRestPlayOn ==
  \A p \in Players :
    outcome[p] = 0 /\ p \in connected
      ~> p \notin connected \/ outcome[p] # 0 \/ played[p] = LastTick

=============================================================================
