--------------------------- MODULE MCBuildOrders ---------------------------
(* Two builders, a feature, and two site ids in turn on the same spot.     *)
EXTENDS BuildOrders
=============================================================================
