------------------------------ MODULE MCRepeat ------------------------------
(* A factory of one player and a charmer of another, with a record of what  *)
(* each unit was asked to train since it came to its present owner.         *)
EXTENDS Production

VARIABLE asked

StartDef == <<[owner |-> "ann", kind |-> "hall"], [owner |-> "bob", kind |-> "monk"]>>

AllowedDef == [k \in Kinds |-> 0]

(* In the same hands as before. *)
Mine(u) == u \in Ids /\ units'[u].owner = units[u].owner

(* A command adds to what was asked for. *)
Recorded ==
  [u \in DOMAIN units' |->
     IF ~ Mine(u) THEN {}
     ELSE IF told' = told THEN asked[u]
     ELSE asked[u] \cup Range(line'[u].queue) \cup ({line'[u].repeat} \ {line[u].repeat})]

RepeatSpec ==
  /\ ProductionInit /\ asked = [u \in Ids |-> {}]
  /\ [][ProductionNext /\ asked' = Recorded]_<<productionVars, asked>>

(* A unit has in its queue what its owner asked it to train, once or over   *)
(* and over, and nothing of a former owner's (sim.cpp:2894-2896: a unit     *)
(* that changes sides "drops its old orders"; 2920: "not still producing    *)
(* for them").                                                              *)
AskedFor == \A u \in Ids : Alive(u) => Range(line[u].queue) \subseteq asked[u]
=============================================================================
