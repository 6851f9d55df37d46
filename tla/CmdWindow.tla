------------------------------ MODULE CmdWindow ------------------------------
(***************************************************************************)
(* How a player's orders are paced.  The client may send what its credit   *)
(* allows (a rate: cmdSendCredit) and its window allows (what is           *)
(* outstanding: cmdSendWindow), and learns what the server took by seeing  *)
(* its own commands come back in the tick bundles (mpStep).  The server    *)
(* holds what arrives in a bounded queue, takes so many per tick, and      *)
(* discards what does not fit (PlayerCommands and closeTick).              *)
(*                                                                         *)
(* One player of one game, over any number of connections.  Commands are   *)
(* counted, not named: TickServer has their order.  uplink is what has     *)
(* been sent and not read yet; bundle t of the log, which the client reads *)
(* in order, is given by taken[t + 1], the number of this player's         *)
(* commands in bundles 0 .. t.  The input delay is 0, its default.         *)
(***************************************************************************)
EXTENDS Naturals, Sequences

CONSTANTS
  PerTick,      \* kCmdCapPerTick
  QueueCap,     \* kCmdQueueCap, kCmdQueueMax
  Modulus,      \* 2^32: the client's tick counters are uint32_t
  MaxTick       \* bound on the length of the game

ASSUME WindowAssumption ==
  /\ PerTick \in Nat \ {0} /\ QueueCap \in Nat /\ PerTick <= QueueCap
  /\ MaxTick \in Nat /\ Modulus \in Nat /\ Modulus > MaxTick

VARIABLES
  connected,
  \* GameView
  netTick, lastSendTick, credit, inFlight, catchUp, replayEnd,
  \* the wire
  uplink,
  \* Server
  queue,        \* length of cmdQueue
  lost,         \* commands discarded because the queue was full
  taken         \* see above; Len(taken) is the room's tick

clientVars == <<netTick, lastSendTick, credit, inFlight, catchUp, replayEnd>>
windowVars == <<connected, clientVars, uplink, queue, lost, taken>>

ClosedTicks == Len(taken)

(* This player's commands in bundles 0 .. t - 1. *)
Upto(t) == IF t = 0 THEN 0 ELSE taken[t]

Least(a, b) == IF a < b THEN a ELSE b

Monus(a, b) == IF a > b THEN a - b ELSE 0

WindowInit ==
  /\ connected = TRUE
  /\ netTick = 0 /\ lastSendTick = 0
  /\ credit = PerTick /\ inFlight = 0
  /\ catchUp = FALSE /\ replayEnd = 0
  /\ uplink = 0 /\ queue = 0 /\ lost = 0
  /\ taken = << >>

-----------------------------------------------------------------------------
(* cmdSendCredit: one tick's worth per tick, up to a queue's worth. *)
SendCredit(have, ticks) == Least(have + ticks * PerTick, QueueCap)

(* Mutant of SendWindow: the rate limit alone. *)
SendWindow_RateOnly(c, out) == c

(* cmdSendWindow: no more than the credit, nor than the queue has room for. *)
SendWindow(c, out) == Least(c, Monus(QueueCap, out))

(* The credit a step has to spend.  The counters are unsigned: after a      *)
(* rejoin netTick starts again from 0, below lastSendTick.                  *)
Accrued ==
  IF netTick = lastSendTick THEN credit
  ELSE SendCredit(credit, (netTick + Modulus - lastSendTick) % Modulus)

(* Own commands that come back in the next k bundles, if they count. *)
Acked(k) == IF catchUp THEN 0 ELSE Upto(netTick + k) - Upto(netTick)

(* Mutant of CatchUpOver: the receive buffer has run dry. *)
CatchUpOver_BufferDry(k) == catchUp /\ k = 0

(* The history the server announced has been consumed. *)
CatchUpOver(k) == catchUp /\ netTick + k >= replayEnd

(* mpStep: n waiting orders are sent, k bundles are simulated, and catching *)
(* up may be over.                                                          *)
MpStep(n, k) ==
  /\ connected
  /\ n <= IF catchUp THEN 0 ELSE SendWindow(Accrued, inFlight)
  /\ netTick + k <= ClosedTicks
  /\ uplink' = uplink + n
  /\ lastSendTick' = netTick
  /\ netTick' = netTick + k
  /\ IF CatchUpOver(k)
       THEN catchUp' = FALSE /\ inFlight' = 0 /\ credit' = PerTick
       ELSE /\ credit' = Accrued - n
            /\ inFlight' = Monus(inFlight + n, Acked(k))
            /\ UNCHANGED catchUp
  /\ UNCHANGED <<connected, replayEnd, queue, lost, taken>>

(* PlayerCommands: k commands are read; what finds the queue full is lost. *)
ReadCommands(k) ==
  /\ connected /\ k <= uplink
  /\ uplink' = uplink - k
  /\ queue' = Least(queue + k, QueueCap)
  /\ lost' = lost + Monus(queue + k, QueueCap)
  /\ UNCHANGED <<connected, clientVars, taken>>

(* closeTick takes up to PerTick of them into the bundle. *)
CloseTick ==
  /\ ClosedTicks < MaxTick
  /\ taken' = Append(taken, Upto(ClosedTicks) + Least(queue, PerTick))
  /\ queue' = Monus(queue, PerTick)
  /\ UNCHANGED <<connected, clientVars, uplink, lost>>

(* Mutant of Drop: no dropPendingCommands. *)
Drop_KeepsQueue ==
  /\ connected /\ connected' = FALSE
  /\ uplink' = 0
  /\ UNCHANGED <<clientVars, queue, lost, taken>>

(* dropClient: what was on the wire and in the queue is gone. *)
Drop ==
  /\ connected /\ connected' = FALSE
  /\ uplink' = 0 /\ queue' = 0
  /\ UNCHANGED <<clientVars, lost, taken>>

(* The Rejoin case of the server and of mpAutoStep: from tick 0 again, with *)
(* the end of the history announced.  lastSendTick and credit are kept.     *)
Rejoin ==
  /\ ~ connected /\ connected' = TRUE
  /\ netTick' = 0
  /\ replayEnd' = ClosedTicks
  /\ catchUp' = (ClosedTicks > 0)
  /\ inFlight' = 0
  /\ UNCHANGED <<lastSendTick, credit, uplink, queue, lost, taken>>

WindowNext ==
  \/ \E n \in 0 .. QueueCap, k \in 0 .. MaxTick : MpStep(n, k)
  \/ \E k \in 1 .. QueueCap : ReadCommands(k)
  \/ CloseTick
  \/ Drop
  \/ Rejoin

WindowSpec == WindowInit /\ [][WindowNext]_windowVars

-----------------------------------------------------------------------------
(* Every variable has its type; the credit never exceeds a queue's worth.   *)
WindowTypeOK ==
  /\ connected \in BOOLEAN /\ catchUp \in BOOLEAN
  /\ netTick \in 0 .. MaxTick /\ lastSendTick \in 0 .. MaxTick
  /\ replayEnd \in 0 .. MaxTick
  /\ credit \in 0 .. QueueCap /\ inFlight \in 0 .. QueueCap
  /\ uplink \in Nat /\ queue \in 0 .. QueueCap /\ lost \in Nat
  /\ taken \in Seq(Nat) /\ Len(taken) <= MaxTick

(* An honest client never overruns the server's queue, however its uplink   *)
(* stalls and batches and however often it is dropped and comes back: no    *)
(* order is silently discarded ("overflow unreachable for an honest         *)
(* client", protocol.h).                                                    *)
NothingLost == lost = 0

(* The client's count of what is outstanding is exact: what is on its way   *)
(* up, waiting at the server, or on its way back in a bundle.  A count that *)
(* drifts up closes the window for good, one that drifts down overruns the  *)
(* queue.                                                                   *)
InFlightIsExact ==
  connected /\ ~ catchUp =>
    inFlight = uplink + queue + (Upto(ClosedTicks) - Upto(netTick))

(* While history is replayed nothing of this player's is outstanding, so    *)
(* the reset at the end of it forgets nothing.                              *)
QuietWhileCatchingUp ==
  connected /\ catchUp =>
    uplink = 0 /\ queue = 0 /\ Upto(ClosedTicks) = Upto(replayEnd)
=============================================================================
