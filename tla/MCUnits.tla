------------------------------ MODULE MCUnits -------------------------------
(* Three units that share one search slot; four that carry each other; two  *)
(* that see, by sight and by radar, on one of two maps.  The three share no *)
(* variable: a run is of one of them.  Of the routes there are two: of      *)
(* three units that are sent somewhere, and of two commands of every kind.  *)
EXTENDS PathOrders, Transport, Fog

VARIABLE part

unitVars == <<part, pathVars, transportVars, fogVars>>

(* On the ridge a unit sees its own cell only. *)
SightDef == [flat |-> [c \in FogCells |-> FogCells], ridge |-> [c \in FogCells |-> {c}]]
RadarDef == [c \in FogCells |-> {c, 1}]

UnitsInit ==
  /\ part \in {"sent", "routes", "holds", "fog"}
  /\ PathInit /\ TransportInit /\ FogInit
  /\ part # "fog" => terrain = "flat" /\ remember

Sent == \E u \in Walkers, p \in Points : plans[u] = <<>> /\ OrderMove(u, p, FALSE)

UnitsNext ==
  \/ part = "sent" /\ (Sent \/ PathStep \/ Walks) /\ UNCHANGED <<part, transportVars, fogVars>>
  \/ part = "routes" /\ PathNext /\ ordered' <= 2 /\ UNCHANGED <<part, transportVars, fogVars>>
  \/ part = "holds" /\ TransportNext /\ UNCHANGED <<part, pathVars, fogVars>>
  \/ part = "fog" /\ FogNext /\ UNCHANGED <<part, pathVars, transportVars>>

UnitsSpec ==
  /\ UnitsInit /\ [][UnitsNext]_unitVars
  /\ WF_pathVars(part \in {"sent", "routes"} /\ PathStep)
  /\ \A u \in Walkers :
       SF_pathVars(/\ part \in {"sent", "routes"}
                   /\ \E S \in SUBSET Runnable : \E F \in SUBSET S : u \in F /\ Run(S, F))
  /\ WF_transportVars(part = "holds" /\ TransportTick)
  /\ WF_fogVars(part = "fog" /\ Tick) /\ WF_fogVars(part = "fog" /\ FogWorker)
=============================================================================
