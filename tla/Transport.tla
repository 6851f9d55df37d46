----------------------------- MODULE Transport ------------------------------
(***************************************************************************)
(* Units that are carried (sim/sim.cpp: loadInto, unloadAt, tickTransport, *)
(* the embarked branch and the death sweep of World::tick).  Who carries   *)
(* whom is kept twice: the passenger has its carrier's id, the carrier a   *)
(* list of passengers.  Units are served in the order of their ids, in one *)
(* pass a tick, so each meets some of the others before and some after     *)
(* their turn; hits fall at any time.  A unit of the ground may itself     *)
(* carry others while it is carried.                                       *)
(*                                                                         *)
(* Distances, and whether there is ground to put somebody on, are chosen   *)
(* freely; everyone takes one place.  An order list is its first order: to *)
(* board, to put everybody off, or anything else.                          *)
(***************************************************************************)
EXTENDS Integers, Sequences

CONSTANTS LastUnit,    \* units have the ids 1..LastUnit
          Carriers,    \* canTransport
          Riders,      \* units of the ground that may be transported
          Cap,         \* transportCap
          MaxGiven     \* bound: commands given

Units == 1..LastUnit

ASSUME TransportAssumption ==
  /\ LastUnit \in Nat \ {0} /\ Cap \in Nat /\ MaxGiven \in Nat
  /\ Carriers \subseteq Units /\ Riders \subseteq Units

VARIABLES inTransport,   \* inTransport[c]: the id of the carrier, 0 for none
          cargo,         \* cargo[t]: the passengers, in the order they came
          errand,        \* the first order
          doomed,        \* no hit points left, not swept yet
          gone,          \* not alive()
          turn,          \* the unit World::tick is at, 0 between ticks
          given

transportVars == <<inTransport, cargo, errand, doomed, gone, turn, given>>

Other == [what |-> "other", id |-> 0]
Load(t) == [what |-> "load", id |-> t]
Unload == [what |-> "unload", id |-> 0]

TransportInit ==
  /\ inTransport = [c \in Riders |-> 0] /\ cargo = [t \in Carriers |-> <<>>]
  /\ errand = [u \in Units |-> Other]
  /\ doomed = {} /\ gone = {} /\ turn = 0 /\ given = 0

Embarked(u) == u \in Riders /\ inTransport[u] # 0
Aboard(t) == {cargo[t][i] : i \in DOMAIN cargo[t]}

----------------------------------------------------------------------------
(* Commands, applied before the tick.                                      *)

Ordered(u, o) ==
  /\ turn = 0 /\ given < MaxGiven /\ u \notin gone
  /\ given' = given + 1
  /\ errand' = [errand EXCEPT ![u] = o]
  /\ UNCHANGED <<inTransport, cargo, doomed, gone, turn>>

(* There must be room at the time of the order.                            *)
OrderLoad(c, t) ==
  /\ c # t /\ t \notin gone /\ ~Embarked(c) /\ Len(cargo[t]) < Cap
  /\ Ordered(c, Load(t))

OrderUnload(t) == cargo[t] # <<>> /\ Ordered(t, Unload)

OrderOther(u) == errand[u] # Other /\ Ordered(u, Other)

----------------------------------------------------------------------------
(* The unit's turn in World::tick.                                         *)

(* The room of the moment of boarding, and the mutant that trusts the      *)
(* order.                                                                  *)
Full_AtOrder(t) == FALSE
Full(t) == Len(cargo[t]) >= Cap

DropOrder(u) ==
  /\ errand' = [errand EXCEPT ![u] = Other]
  /\ UNCHANGED <<inTransport, cargo, gone>>

Board(c) ==
  LET t == errand[c].id
  IN /\ errand[c].what = "load" /\ t \notin gone /\ ~Full(t)
     /\ inTransport' = [inTransport EXCEPT ![c] = t]
     /\ cargo' = [cargo EXCEPT ![t] = Append(@, c)]
     /\ errand' = [errand EXCEPT ![c] = Other]
     /\ UNCHANGED gone

NoBoarding(c) ==
  /\ errand[c].what = "load" /\ (errand[c].id \in gone \/ Full(errand[c].id))
  /\ DropOrder(c)

(* All are put on the same cell, or none is when no cell is found.  Mutant *)
(* of PutOff: the list is cleared and the passengers are not told.         *)
PutOff_ListOnly(t) == UNCHANGED inTransport
PutOff(t) == inTransport' = [c \in Riders |-> IF c \in Aboard(t) THEN 0 ELSE inTransport[c]]
Disembark(t) ==
  /\ errand[t].what = "unload"
  /\ PutOff(t)
  /\ cargo' = [cargo EXCEPT ![t] = <<>>]
  /\ errand' = [errand EXCEPT ![t] = Other]
  /\ UNCHANGED gone

(* Underway, out of range, nowhere to put anybody, frozen.                 *)
Waits == UNCHANGED <<inTransport, cargo, errand, gone>>

Dead(u) ==
  /\ gone' = gone \cup {u}
  /\ errand' = [errand EXCEPT ![u] = Other]
  /\ UNCHANGED <<inTransport, cargo>>

(* A carrier is lost when it is dead: its record stays, with all that died *)
(* before it.  Mutant: when it has no record.                              *)
Lost_Removed(t) == FALSE
Lost(t) == t \in gone

(* A passenger goes along, or down with its carrier.                       *)
Carried(c) ==
  IF Lost(inTransport[c])
  THEN gone' = gone \cup {c} /\ UNCHANGED <<inTransport, cargo, errand>>
  ELSE Waits

Serve(u) ==
  IF u \in gone THEN Waits
  ELSE IF u \in doomed THEN Dead(u)
  ELSE IF Embarked(u) THEN Carried(u)
  ELSE Waits \/ Board(u) \/ NoBoarding(u) \/ Disembark(u)

Turn ==
  /\ turn # 0 /\ Serve(turn)
  /\ turn' = IF turn = LastUnit THEN 0 ELSE turn + 1
  /\ UNCHANGED <<doomed, given>>

BeginTick == turn = 0 /\ turn' = 1 /\ UNCHANGED <<inTransport, cargo, errand, doomed, gone, given>>

(* Projectiles, blades, fire, water, or its own charge.                    *)
Struck(u) ==
  /\ u \notin doomed \cup gone
  /\ doomed' = doomed \cup {u}
  /\ UNCHANGED <<inTransport, cargo, errand, gone, turn, given>>

TransportTick == BeginTick \/ Turn
TransportNext ==
  \/ TransportTick
  \/ \E c \in Riders, t \in Carriers : OrderLoad(c, t)
  \/ \E t \in Carriers : OrderUnload(t)
  \/ \E u \in Units : OrderOther(u) \/ Struck(u)

TransportSpec ==
  TransportInit /\ [][TransportNext]_transportVars /\ WF_transportVars(TransportTick)

----------------------------------------------------------------------------
TransportTypes ==
  /\ inTransport \in [Riders -> Carriers \cup {0}]
  /\ cargo \in [Carriers -> Seq(Riders)]
  /\ errand \in [Units -> {Other, Unload} \cup {Load(t) : t \in Carriers}]
  /\ doomed \subseteq Units /\ gone \subseteq Units
  /\ turn \in 0..LastUnit /\ given \in 0..MaxGiven

(* The two records agree through every order of boarding, putting off and  *)
(* dying, of carriers and of passengers on board: a unit is in the hold of *)
(* the carrier it names, once, and in no other; and however many were told *)
(* to board while there was room, the hold is never overfull.              *)
HoldsAgree ==
  /\ TransportTypes
  /\ \A c \in Riders, t \in Carriers : inTransport[c] = t <=> c \in Aboard(t)
  /\ \A t \in Carriers :
       /\ \A i, j \in DOMAIN cargo[t] : cargo[t][i] = cargo[t][j] => i = j
       /\ Len(cargo[t]) <= Cap

(* A transport is lost with all hands, wherever in the order of ids its    *)
(* passengers and their own passengers are: nobody outlives it for good.   *)
LostWithAllHands ==
  []<>(\A c \in Riders : inTransport[c] \in gone => c \in gone)

=============================================================================
