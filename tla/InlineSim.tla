----------------------------- MODULE InlineSim ------------------------------
(***************************************************************************)
(* What the client promises of a multiplayer simulation, as its inline path *)
(* does it: the bundle of the next tick is applied, the world steps, and at *)
(* every HashPeriod'th tick the state hash of the world after that tick is  *)
(* reported.  The world is the sequence of bundles it was stepped with, and *)
(* stands for its own hash.                                                 *)
(***************************************************************************)
EXTENDS Naturals, Sequences

CONSTANT HashPeriod    \* kHashPeriod

VARIABLES world, reports

InlineInit == world = <<>> /\ reports = <<>>

Report(tick, w) ==
  IF tick % HashPeriod = 0 THEN <<[tick |-> tick, hash |-> w]>> ELSE <<>>

InlineTick ==
  /\ world' = Append(world, Len(world))
  /\ reports' = reports \o Report(Len(world), world')

InlineSpec == InlineInit /\ [][InlineTick]_<<world, reports>>
=============================================================================
