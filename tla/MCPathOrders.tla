---------------------------- MODULE MCPathOrders ----------------------------
(* One unit with two places to go to.                                       *)
EXTENDS PathOrders
=============================================================================
