--------------------------- MODULE ConnectionProofs ---------------------------
(***************************************************************************)
(* A client's connection: FramedConn, and once it is signed in CmdWindow    *)
(* and Session.                                                             *)
(*                                                                          *)
(* The window, for any rate, any queue, any game.  NothingLost follows from *)
(* InFlightIsExact, QuietWhileCatchingUp and the bound on inFlight: what is *)
(* in the queue or on its way there is part of what the client counts, and  *)
(* it counts no more than the queue holds.  LogInv says that the log only   *)
(* grows and that the client is somewhere in it, WireInv that a lost        *)
(* connection leaves nothing behind.                                        *)
(*                                                                          *)
(* The session, for any games, clicks, restarts and queues.  Beside the     *)
(* types and the gate of a client that has come back, the inductive         *)
(* invariant says how far a client whose LEAVE crossed no start has come:   *)
(* Away, in no game that runs, and with nothing of one in either direction; *)
(* Called, the start of the one game on its way and nothing but its ticks   *)
(* behind it; Begun, all the client has and all that comes is of this game. *)
(*                                                                          *)
(* The frames, for any sizes, limits and cuts.  What is unread, in the      *)
(* socket and unsent is one stream (Wire), which only a send and a poll     *)
(* change; it carries the frames still to come out (Carries).  That the     *)
(* front of it is a frame's start needs to be said of every piece, by where *)
(* the others of its frame are (InPlace), as there is no induction over it. *)
(***************************************************************************)
EXTENDS CmdWindow, Session, FramedConn, FiniteSetTheorems, SequenceTheorems, TLAPS

-----------------------------------------------------------------------------
(* The window *)

LogInv ==
  /\ \A i, j \in 1 .. Len(taken) : i <= j => taken[i] <= taken[j]
  /\ netTick <= ClosedTicks /\ replayEnd <= ClosedTicks

WireInv == ~ connected => uplink = 0 /\ queue = 0

Inv ==
  /\ WindowTypeOK
  /\ LogInv
  /\ WireInv
  /\ InFlightIsExact
  /\ QuietWhileCatchingUp
  /\ NothingLost

-----------------------------------------------------------------------------
(* The counts over the log are natural numbers and grow with it. *)
LEMMA UptoGrows ==
  ASSUME WindowTypeOK, LogInv, NEW s \in 0 .. ClosedTicks, NEW t \in 0 .. ClosedTicks, s <= t
  PROVE  Upto(s) \in Nat /\ Upto(t) \in Nat /\ Upto(s) <= Upto(t)
<1>1. ClosedTicks = Len(taken) /\ ClosedTicks \in Nat /\ \A i \in 1 .. ClosedTicks : taken[i] \in Nat
  BY DEF WindowTypeOK, ClosedTicks
<1>2. CASE s = 0
  BY <1>1, <1>2 DEF Upto
<1>3. CASE s # 0
  <2>1. s \in 1 .. ClosedTicks /\ t \in 1 .. ClosedTicks /\ t # 0
    BY <1>1, <1>3
  <2>2. taken[s] <= taken[t]
    BY <1>1, <2>1 DEF LogInv
  <2>3. QED
    BY <1>1, <1>3, <2>1, <2>2 DEF Upto
<1>4. QED
  BY <1>2, <1>3

(* What a step may spend is between 0 and a queue's worth. *)
LEMMA AccruedBound ==
  ASSUME WindowTypeOK
  PROVE  Accrued \in 0 .. QueueCap
<1> DEFINE d == (netTick + Modulus - lastSendTick) % Modulus
<1>1. d \in Nat
  BY WindowAssumption DEF WindowTypeOK
<1>2. d * PerTick \in Nat
  BY <1>1, WindowAssumption
<1>3. QED
  BY <1>2, WindowAssumption DEF WindowTypeOK, Accrued, SendCredit, Least

-----------------------------------------------------------------------------
LEMMA InitInv == WindowInit => Inv
<1> SUFFICES ASSUME WindowInit PROVE Inv
  OBVIOUS
<1> USE WindowAssumption DEF WindowInit
<1>1. taken \in Seq(Nat) /\ Len(taken) = 0
  OBVIOUS
<1>2. WindowTypeOK
  <2>1. connected \in BOOLEAN /\ catchUp \in BOOLEAN
    BY Zenon
  <2>2. /\ netTick \in 0 .. MaxTick /\ lastSendTick \in 0 .. MaxTick
        /\ replayEnd \in 0 .. MaxTick /\ credit \in 0 .. QueueCap
        /\ inFlight \in 0 .. QueueCap /\ queue \in 0 .. QueueCap
        /\ uplink \in Nat /\ lost \in Nat /\ Len(taken) <= MaxTick
    BY <1>1
  <2>3. QED
    BY <1>1, <2>1, <2>2, Zenon DEF WindowTypeOK
<1>3. LogInv /\ WireInv /\ NothingLost /\ QuietWhileCatchingUp
  BY <1>1 DEF LogInv, WireInv, NothingLost, QuietWhileCatchingUp, ClosedTicks
<1>4. InFlightIsExact
  BY <1>1 DEF InFlightIsExact, ClosedTicks, Upto
<1>5. QED
  BY <1>2, <1>3, <1>4 DEF Inv

LEMMA MpStepInv ==
  ASSUME Inv, NEW n \in 0 .. QueueCap, NEW k \in 0 .. MaxTick, MpStep(n, k)
  PROVE  Inv'
<1> USE WindowAssumption DEF Inv, WindowTypeOK, MpStep
<1> DEFINE now == Upto(ClosedTicks)
           was == Upto(netTick)
           new == Upto(netTick + k)
<1>0. /\ ClosedTicks \in Nat /\ netTick + k \in 0 .. ClosedTicks /\ netTick \in 0 .. ClosedTicks
      /\ ClosedTicks' = ClosedTicks /\ taken' = taken /\ netTick' = netTick + k
  BY DEF LogInv, ClosedTicks
<1>1. /\ now \in Nat /\ was \in Nat /\ new \in Nat
      /\ was <= new /\ new <= now
  <2>1. was \in Nat /\ new \in Nat /\ was <= new
    BY <1>0, UptoGrows
  <2>2. now \in Nat /\ new <= now
    BY <1>0, UptoGrows
  <2>3. QED
    BY <2>1, <2>2
<1>2. Upto(ClosedTicks)' = now /\ Upto(netTick)' = new /\ Upto(replayEnd)' = Upto(replayEnd)
  BY <1>0 DEF Upto, ClosedTicks
<1>3. Accrued \in 0 .. QueueCap
  BY AccruedBound
<1>4. /\ n <= Accrued /\ n <= QueueCap - inFlight
      /\ catchUp => n = 0
  BY <1>3 DEF SendWindow, Least, Monus
<1>5. credit' \in 0 .. QueueCap
  BY <1>3, <1>4
<1>6. Acked(k) \in Nat /\ Acked(k) = IF catchUp THEN 0 ELSE new - was
  BY <1>1 DEF Acked
<1>7. inFlight' \in 0 .. QueueCap
  BY <1>4, <1>6 DEF Monus
<1>8. WindowTypeOK'
  <2>1. netTick' \in 0 .. MaxTick /\ lastSendTick' \in 0 .. MaxTick
    BY <1>0 DEF ClosedTicks
  <2>2. uplink' \in Nat
    OBVIOUS
  <2>3. catchUp' \in BOOLEAN
    OBVIOUS
  <2>4. QED
    BY <1>5, <1>7, <2>1, <2>2, <2>3
<1>9. LogInv' /\ WireInv' /\ NothingLost'
  BY <1>0 DEF LogInv, WireInv, NothingLost, ClosedTicks
<1>10. InFlightIsExact'
  <2>1. CASE CatchUpOver(k)
    (* The end of the history: the count starts again from nothing. *)
    <3>1. uplink = 0 /\ queue = 0 /\ now = Upto(replayEnd) /\ n = 0
      BY <2>1, <1>4 DEF CatchUpOver, QuietWhileCatchingUp
    <3>2. replayEnd \in 0 .. ClosedTicks /\ replayEnd <= netTick + k
      BY <2>1 DEF CatchUpOver, LogInv, ClosedTicks
    <3>3. Upto(replayEnd) <= new
      BY <1>0, <3>2, UptoGrows
    <3>4. now = new
      BY <1>1, <3>1, <3>3
    <3>5. inFlight' = 0 /\ uplink' = 0 /\ queue' = 0
      BY <2>1, <3>1
    <3>6. QED
      BY <1>1, <1>2, <3>4, <3>5 DEF InFlightIsExact
  <2>2. CASE ~ CatchUpOver(k) /\ catchUp
    BY <2>2 DEF InFlightIsExact
  <2>3. CASE ~ CatchUpOver(k) /\ ~ catchUp
    <3>1. inFlight = uplink + queue + (now - was)
      BY <2>3 DEF InFlightIsExact
    <3>2. inFlight' = Monus(inFlight + n, new - was)
      BY <1>6, <2>3
    <3>3. inFlight' = (uplink + n) + queue + (now - new)
      <4>1. inFlight \in Nat /\ n \in Nat /\ uplink \in Nat /\ queue \in Nat
        OBVIOUS
      <4>2. QED
        <5> HIDE DEF Inv, WindowTypeOK, MpStep, now, was, new
        <5>1. new - was \in Nat /\ inFlight + n \in Nat /\ new - was <= inFlight + n
          BY <1>1, <3>1, <4>1
        <5>2. inFlight' = (inFlight + n) - (new - was)
          BY <3>2, <5>1 DEF Monus
        <5>3. QED
          BY <1>1, <3>1, <4>1, <5>2
    <3>4. QED
      BY <1>2, <3>3, <2>3 DEF InFlightIsExact
  <2>4. QED
    BY <2>1, <2>2, <2>3
<1>11. QuietWhileCatchingUp'
  <2>1. SUFFICES ASSUME connected', catchUp'
                 PROVE  uplink' = 0 /\ queue' = 0 /\ Upto(ClosedTicks)' = Upto(replayEnd)'
    BY DEF QuietWhileCatchingUp
  <2>2. catchUp /\ n = 0
    BY <2>1, <1>4
  <2>3. uplink = 0 /\ queue = 0 /\ now = Upto(replayEnd)
    BY <2>2 DEF QuietWhileCatchingUp
  <2>4. QED
    BY <1>2, <2>2, <2>3
<1>12. QED
  BY <1>8, <1>9, <1>10, <1>11 DEF Inv

LEMMA ReadCommandsInv ==
  ASSUME Inv, NEW k \in 1 .. QueueCap, ReadCommands(k)
  PROVE  Inv'
<1> USE WindowAssumption DEF Inv, WindowTypeOK, ReadCommands, clientVars
<1>1. ClosedTicks' = ClosedTicks /\ Upto(ClosedTicks)' = Upto(ClosedTicks) /\ Upto(netTick)' = Upto(netTick)
      /\ Upto(replayEnd)' = Upto(replayEnd)
  BY DEF ClosedTicks, Upto
<1>2. ~ catchUp
  BY DEF QuietWhileCatchingUp
<1>3. Upto(ClosedTicks) \in Nat /\ Upto(netTick) \in Nat /\ Upto(netTick) <= Upto(ClosedTicks)
  <2>1. netTick \in 0 .. ClosedTicks /\ ClosedTicks \in 0 .. ClosedTicks
    BY DEF LogInv, ClosedTicks
  <2>2. QED
    BY <2>1, UptoGrows DEF LogInv
<1>4. queue + k <= QueueCap
  BY <1>2, <1>3 DEF InFlightIsExact
<1>5. queue' = queue + k /\ lost' = lost
  BY <1>4 DEF Least, Monus
<1>6. WindowTypeOK' /\ LogInv' /\ WireInv' /\ NothingLost' /\ QuietWhileCatchingUp'
  BY <1>1, <1>2, <1>4, <1>5
     DEF LogInv, WireInv, NothingLost, QuietWhileCatchingUp, ClosedTicks
<1>7. InFlightIsExact'
  <2>1. inFlight = uplink + queue + (Upto(ClosedTicks) - Upto(netTick))
    BY <1>2 DEF InFlightIsExact
  <2>2. uplink \in Nat /\ queue \in Nat /\ uplink' = uplink - k /\ inFlight' = inFlight
    OBVIOUS
  <2>3. inFlight' = uplink' + queue' + (Upto(ClosedTicks) - Upto(netTick))
    <3> HIDE DEF ReadCommands, WindowTypeOK, Inv
    <3>1. uplink + queue = (uplink - k) + (queue + k)
      BY <2>2
    <3>2. QED
      BY <1>3, <1>5, <2>1, <2>2, <3>1
  <2>4. QED
    BY <1>1, <2>3 DEF InFlightIsExact
<1>8. QED
  BY <1>6, <1>7 DEF Inv

LEMMA CloseTickInv ==
  ASSUME Inv, CloseTick
  PROVE  Inv'
<1> DEFINE more == Least(queue, PerTick)
<1>0. WindowTypeOK /\ LogInv /\ WireInv /\ InFlightIsExact /\ QuietWhileCatchingUp /\ NothingLost
  BY DEF Inv
<1>1. /\ more \in Nat /\ more <= queue
      /\ queue \in 0 .. QueueCap /\ queue' = queue - more
  BY WindowAssumption DEF Inv, WindowTypeOK, CloseTick, Least, Monus
<1>2. /\ connected' = connected /\ catchUp' = catchUp /\ uplink' = uplink
      /\ netTick' = netTick /\ lastSendTick' = lastSendTick /\ replayEnd' = replayEnd
      /\ credit' = credit /\ inFlight' = inFlight /\ lost' = lost
  BY DEF CloseTick, clientVars
<1>3. ClosedTicks \in Nat /\ ClosedTicks < MaxTick /\ netTick \in 0 .. ClosedTicks /\ replayEnd \in 0 .. ClosedTicks
  BY <1>0 DEF WindowTypeOK, LogInv, ClosedTicks, CloseTick
<1>4. \A t \in 0 .. ClosedTicks : Upto(t) \in Nat /\ Upto(t) <= Upto(ClosedTicks)
  <2>1. SUFFICES ASSUME NEW t \in 0 .. ClosedTicks
                 PROVE  Upto(t) \in Nat /\ Upto(t) <= Upto(ClosedTicks)
    OBVIOUS
  <2>2. ClosedTicks \in 0 .. ClosedTicks /\ t <= ClosedTicks
    BY <1>3
  <2>3. QED
    BY <1>0, <2>2, UptoGrows
<1>5. Upto(ClosedTicks) \in Nat /\ Upto(ClosedTicks) + more \in Nat
  BY <1>1, <1>3, <1>4
<1>6. /\ taken' \in Seq(Nat) /\ Len(taken') = ClosedTicks + 1
      /\ taken'[ClosedTicks + 1] = Upto(ClosedTicks) + more
      /\ \A i \in 1 .. ClosedTicks : taken'[i] = taken[i]
  BY <1>0, <1>5 DEF WindowTypeOK, CloseTick, ClosedTicks
<1>7. ClosedTicks' = ClosedTicks + 1
  BY <1>6 DEF ClosedTicks
<1>8. /\ Upto(ClosedTicks)' = Upto(ClosedTicks) + more
      /\ Upto(netTick)' = Upto(netTick)
      /\ Upto(replayEnd)' = Upto(replayEnd)
  <2>1. Upto(ClosedTicks)' = Upto(ClosedTicks) + more
    BY <1>3, <1>6, <1>7 DEF Upto
  <2>2. Upto(netTick)' = Upto(netTick)
    BY <1>2, <1>3, <1>6 DEF Upto
  <2>3. Upto(replayEnd)' = Upto(replayEnd)
    BY <1>2, <1>3, <1>6 DEF Upto
  <2>4. QED
    BY <2>1, <2>2, <2>3
<1>9. WindowTypeOK'
  <2>1. queue' \in 0 .. QueueCap /\ Len(taken') <= MaxTick
    BY <1>1, <1>3, <1>6, WindowAssumption
  <2>2. QED
    BY <1>0, <1>2, <1>6, <2>1, Zenon DEF WindowTypeOK
<1>10. LogInv'
  <2>1. \A i \in 1 .. ClosedTicks : taken'[i] = Upto(i) /\ i \in 0 .. ClosedTicks
    BY <1>3, <1>6 DEF Upto
  <2>2. ASSUME NEW i \in 1 .. (ClosedTicks + 1), NEW j \in 1 .. (ClosedTicks + 1), i <= j
        PROVE  taken'[i] <= taken'[j]
    <3>1. CASE j \in 1 .. ClosedTicks
      <4>1. i \in 0 .. ClosedTicks /\ j \in 0 .. ClosedTicks /\ i \in 1 .. ClosedTicks
        BY <1>3, <2>2, <3>1
      <4>2. Upto(i) <= Upto(j)
        BY <1>0, <2>2, <4>1, UptoGrows
      <4>3. QED
        BY <2>1, <3>1, <4>1, <4>2
    <3>2. CASE j = ClosedTicks + 1 /\ i \in 1 .. ClosedTicks
      <4>1. taken'[i] \in Nat /\ taken'[i] <= Upto(ClosedTicks)
        BY <1>4, <2>1, <3>2
      <4>2. QED
        BY <1>1, <1>5, <1>6, <3>2, <4>1
    <3>3. CASE j = ClosedTicks + 1 /\ i = ClosedTicks + 1
      BY <1>5, <1>6, <3>3
    <3>4. QED
      BY <1>3, <2>2, <3>1, <3>2, <3>3
  <2>3. netTick' <= ClosedTicks' /\ replayEnd' <= ClosedTicks'
    BY <1>2, <1>3, <1>7
  <2>4. QED
    BY <1>6, <2>2, <2>3 DEF LogInv
<1>11. WireInv' /\ NothingLost'
  BY <1>0, <1>1, <1>2 DEF WireInv, NothingLost
<1>12. InFlightIsExact'
  <2>1. SUFFICES ASSUME connected, ~ catchUp
                 PROVE  inFlight' = uplink' + queue' + (Upto(ClosedTicks)' - Upto(netTick)')
    BY <1>2 DEF InFlightIsExact
  <2>2. inFlight = uplink + queue + (Upto(ClosedTicks) - Upto(netTick))
    BY <1>0, <2>1 DEF InFlightIsExact
  <2>3. uplink \in Nat /\ Upto(netTick) \in Nat
    BY <1>0, <1>3, <1>4 DEF WindowTypeOK
  <2>4. uplink + queue + (Upto(ClosedTicks) - Upto(netTick))
          = uplink + (queue - more) + ((Upto(ClosedTicks) + more) - Upto(netTick))
    BY <1>1, <1>5, <2>3
  <2>5. QED
    BY <1>1, <1>2, <1>8, <2>2, <2>4
<1>13. QuietWhileCatchingUp'
  <2>1. SUFFICES ASSUME connected, catchUp
                 PROVE  uplink' = 0 /\ queue' = 0 /\ Upto(ClosedTicks)' = Upto(replayEnd)'
    BY <1>2 DEF QuietWhileCatchingUp
  <2>2. uplink = 0 /\ queue = 0 /\ Upto(ClosedTicks) = Upto(replayEnd)
    BY <1>0, <2>1 DEF QuietWhileCatchingUp
  <2>3. more = 0
    BY <1>1, <2>2
  <2>4. QED
    BY <1>1, <1>2, <1>5, <1>8, <2>2, <2>3
<1>14. QED
  BY <1>9, <1>10, <1>11, <1>12, <1>13 DEF Inv

LEMMA DropInv ==
  ASSUME Inv, Drop
  PROVE  Inv'
<1> USE WindowAssumption DEF Inv, WindowTypeOK, Drop, clientVars
<1>1. WindowTypeOK'
  <2>1. connected' \in BOOLEAN
    BY Zenon
  <2>2. uplink' \in Nat /\ queue' \in 0 .. QueueCap
    OBVIOUS
  <2>3. QED
    BY <2>1, <2>2, Zenon
<1>2. LogInv'
  BY DEF LogInv, ClosedTicks
<1>3. WireInv' /\ NothingLost' /\ InFlightIsExact' /\ QuietWhileCatchingUp'
  BY DEF WireInv, NothingLost, InFlightIsExact, QuietWhileCatchingUp
<1>4. QED
  BY <1>1, <1>2, <1>3 DEF Inv

LEMMA RejoinInv ==
  ASSUME Inv, Rejoin
  PROVE  Inv'
<1> USE WindowAssumption DEF Inv, WindowTypeOK, Rejoin
<1>1. ClosedTicks' = ClosedTicks /\ taken' = taken /\ ClosedTicks \in 0 .. MaxTick
  BY DEF ClosedTicks
<1>2. WindowTypeOK'
  BY <1>1
<1>3. LogInv' /\ WireInv' /\ NothingLost'
  BY <1>1 DEF LogInv, WireInv, NothingLost, ClosedTicks
<1>4. InFlightIsExact'
  <2>1. SUFFICES ASSUME ~ catchUp'
                 PROVE  inFlight' = uplink' + queue' + (Upto(ClosedTicks)' - Upto(netTick)')
    BY DEF InFlightIsExact
  <2>2. netTick' = 0 /\ uplink' = 0 /\ queue' = 0 /\ inFlight' = 0
    BY DEF WireInv
  <2>3. ClosedTicks = 0
    <3>1. ~ (ClosedTicks > 0)
      BY <2>1
    <3>2. QED
      BY <1>1, <3>1
  <2>4. Upto(ClosedTicks)' = 0 /\ Upto(netTick)' = 0
    BY <1>1, <2>2, <2>3 DEF Upto
  <2>5. QED
    BY <2>2, <2>4
<1>5. QuietWhileCatchingUp'
  BY <1>1 DEF QuietWhileCatchingUp, WireInv, Upto
<1>6. QED
  BY <1>2, <1>3, <1>4, <1>5 DEF Inv

LEMMA StutterInv ==
  ASSUME Inv, UNCHANGED windowVars
  PROVE  Inv'
BY DEF Inv, WindowTypeOK, windowVars, clientVars, LogInv, WireInv, InFlightIsExact,
       QuietWhileCatchingUp, NothingLost, ClosedTicks, Upto

(* Inv is inductive, so it holds in every reachable state. *)
THEOREM WindowInv == WindowSpec => []Inv
<1>1. WindowInit => Inv
  BY InitInv
<1>2. Inv /\ [WindowNext]_windowVars => Inv'
  <2> SUFFICES ASSUME Inv, [WindowNext]_windowVars PROVE Inv'
    OBVIOUS
  <2>1. CASE \E n \in 0 .. QueueCap, k \in 0 .. MaxTick : MpStep(n, k)
    BY <2>1, MpStepInv
  <2>2. CASE \E k \in 1 .. QueueCap : ReadCommands(k)
    BY <2>2, ReadCommandsInv
  <2>3. CASE CloseTick
    BY <2>3, CloseTickInv
  <2>4. CASE Drop
    BY <2>4, DropInv
  <2>5. CASE Rejoin
    BY <2>5, RejoinInv
  <2>6. CASE UNCHANGED windowVars
    BY <2>6, StutterInv
  <2>7. QED
    BY <2>1, <2>2, <2>3, <2>4, <2>5, <2>6 DEF WindowNext
<1>3. QED
  BY <1>1, <1>2, PTL DEF WindowSpec

(* No order of an honest client is ever discarded, for any queue size, any  *)
(* rate and any number of drops and rejoins (PlayerCommands, server.cpp).   *)
THEOREM OverflowUnreachable == WindowSpec => []NothingLost
<1>1. Inv => NothingLost
  BY DEF Inv
<1>2. QED
  BY <1>1, WindowInv, PTL

(* The client's count of outstanding commands never drifts (mpStep). *)
THEOREM CountIsExact == WindowSpec => []InFlightIsExact
<1>1. Inv => InFlightIsExact
  BY DEF Inv
<1>2. QED
  BY <1>1, WindowInv, PTL

(* The state has its types; in particular the credit stays within a queue's *)
(* worth even when the tick counters wrap (mpStep, cmdSendCredit).          *)
THEOREM WindowTypes == WindowSpec => []WindowTypeOK
<1>1. Inv => WindowTypeOK
  BY DEF Inv
<1>2. QED
  BY <1>1, WindowInv, PTL
(* While history is replayed nothing of this player's is outstanding, so    *)
(* the reset that ends catching up loses count of nothing (mpStep).         *)
THEOREM CatchUpIsQuiet == WindowSpec => []QuietWhileCatchingUp
<1>1. Inv => QuietWhileCatchingUp
  BY DEF Inv
<1>2. QED
  BY <1>1, WindowInv, PTL

-----------------------------------------------------------------------------
(* The session *)

Rooms == Games \cup {NoGame}

Requests ==
  [kind : {"JoinGame", "Spectate"}, room : Games]
    \cup [kind : {"StartGame", "LeaveGame", "Loaded"}, room : Rooms]
    \cup [kind : {"Rejoin"}, room : Games, token : Nat]
    \cup [kind : {"CreateGame"}, watch : BOOLEAN]

Answers ==
  [kind : {"JoinResult"}, ok : BOOLEAN, seat : BOOLEAN]
    \cup [kind : {"LobbyState"}, room : Games]
    \cup [kind : {"GameStarting"}, room : Games, seat : BOOLEAN, token : Nat, hist : Nat]
    \cup [kind : {"TickBundle"}, room : Games, tick : 0 .. MaxLog]

NetTypes ==
  net \in [state : {"Lobby", "InRoom", "Starting", "InGame", "Done"}, room : Rooms,
           seat : BOOLEAN, spec : BOOLEAN, rejoin : BOOLEAN, expRejoin : BOOLEAN,
           expSpectate : BOOLEAN, hist : Nat, token : Nat,
           bundles : SUBSET [room : Games, tick : 0 .. MaxLog]]

Views ==
  [setup : BOOLEAN, world : Rooms, tick : Nat, catchUp : BOOLEAN, end : Nat,
   watching : BOOLEAN, played : SUBSET Games]

ViewTypes == view \in Views

ServerTypes ==
  /\ srv \in [room : Rooms, seat : BOOLEAN, loaded : BOOLEAN, replaying : BOOLEAN, pos : Nat]
  /\ games \in [Games -> [phase : {"none", "lobby", "running", "gone"}, log : 0 .. MaxLog]]
  /\ token \in [Games -> Nat] /\ held \in Rooms
  /\ held # NoGame => games[held].phase = "running"
  /\ \A r \in Games : games[r].phase # "running" => games[r].log = 0

WireTypes ==
  /\ up \in Seq(Requests) /\ down \in Seq(Answers)
  /\ mode \in {"browse", "rejoin"} /\ ticket \in [room : Rooms, token : Nat]
  /\ crossed \in BOOLEAN

Kinds == NetTypes /\ ViewTypes /\ ServerTypes /\ WireTypes

(* The gate of a client that has come back. *)
Gated == view.setup /\ ~view.catchUp => view.tick >= view.end

(* The client is in a game that runs, as the server sees it. *)
Attached == srv.room # NoGame /\ games[srv.room].phase = "running"

(* The server closes no tick before the client has loaded. *)
Waits == srv.seat /\ ~srv.loaded /\ games[srv.room].log = 0

(* The client knows of no game: it has no bundle and no world, and has      *)
(* reported none loaded.                                                    *)
Idle ==
  /\ net.state \in {"Lobby", "InRoom"} /\ net.bundles = {} /\ ~net.rejoin
  /\ view = FreshView
  /\ \A i \in DOMAIN up :
       up[i].kind # "Loaded" /\ (up[i].kind = "Rejoin" => net.expRejoin)

Prelude(f) == f.kind \in {"JoinResult", "LobbyState"}
TickOf(f, r) == f.kind = "TickBundle" /\ f.room = r

(* No game has started for this client. *)
Away == ~Attached /\ Idle /\ \A j \in DOMAIN down : Prelude(down[j])

(* The start of a game is on its way, with nothing but its ticks behind it, *)
(* and not even these when the client will not take it for a replay.        *)
CalledBy(i) ==
  /\ down[i].kind = "GameStarting" /\ down[i].room = srv.room
  /\ \A j \in DOMAIN down : (j < i => Prelude(down[j])) /\ (j > i => TickOf(down[j], srv.room))
  /\ down[i].seat /\ ~net.expRejoin /\ ~net.expSpectate => Waits /\ i = Len(down)

Called == Attached /\ Idle /\ \E i \in DOMAIN down : CalledBy(i)

(* The client knows of the game; all it has and gets is of this game.       *)
Begun ==
  /\ Attached /\ net.state \in {"Starting", "InGame"} /\ net.room = srv.room
  /\ \A j \in DOMAIN down : TickOf(down[j], srv.room)
  /\ \A b \in net.bundles : b.room = srv.room
  /\ view.setup => view.world = srv.room /\ view.played \subseteq {srv.room}
  /\ ~view.setup => view.tick = 0 /\ view.played = {}
                      /\ \A i \in DOMAIN up : up[i].kind # "Loaded"
  /\ ~view.setup /\ ~net.rejoin =>
       net.state = "Starting" /\ down = << >> /\ net.bundles = {} /\ Waits

Phase == Away \/ Called \/ Begun

SessionInv == Kinds /\ Gated /\ (crossed \/ Phase)

-----------------------------------------------------------------------------
(* Sequences *)

LEMMA Pushed ==
  ASSUME NEW S, NEW s \in Seq(S), NEW m \in Seq(S)
  PROVE  /\ s \o m \in Seq(S) /\ Len(s \o m) = Len(s) + Len(m)
         /\ DOMAIN (s \o m) = 1 .. (Len(s) + Len(m))
         /\ \A i \in DOMAIN s : i \in DOMAIN (s \o m) /\ (s \o m)[i] = s[i]
         /\ \A i \in DOMAIN (s \o m) :
              i \in DOMAIN s \/ (i - Len(s) \in 1 .. Len(m) /\ (s \o m)[i] = m[i - Len(s)])
<1>1. /\ s \o m \in Seq(S) /\ Len(s \o m) = Len(s) + Len(m)
      /\ \A i \in 1 .. Len(s) + Len(m) : (s \o m)[i] = IF i <= Len(s) THEN s[i] ELSE m[i - Len(s)]
  BY ConcatProperties
<1>2. Len(s) \in Nat /\ DOMAIN s = 1 .. Len(s) /\ Len(m) \in Nat
  BY LenProperties
<1>3. DOMAIN (s \o m) = 1 .. (Len(s) + Len(m))
  BY <1>1, LenProperties
<1>4. QED
  BY <1>1, <1>2, <1>3

LEMMA Pushed1 ==
  ASSUME NEW S, NEW s \in Seq(S), NEW e \in S
  PROVE  /\ Append(s, e) \in Seq(S) /\ DOMAIN Append(s, e) = 1 .. (Len(s) + 1)
         /\ Append(s, e)[Len(s) + 1] = e
         /\ \A i \in DOMAIN s : i \in DOMAIN Append(s, e) /\ Append(s, e)[i] = s[i]
         /\ \A i \in DOMAIN Append(s, e) :
              i \in DOMAIN s \/ (i = Len(s) + 1 /\ Append(s, e)[i] = e)
<1>1. /\ Append(s, e) \in Seq(S) /\ Len(Append(s, e)) = Len(s) + 1
      /\ \A i \in 1 .. Len(s) : Append(s, e)[i] = s[i]
      /\ Append(s, e)[Len(s) + 1] = e
  BY AppendProperties
<1>2. /\ Len(s) \in Nat /\ DOMAIN s = 1 .. Len(s)
      /\ DOMAIN Append(s, e) = 1 .. (Len(s) + 1)
  BY <1>1, LenProperties
<1>3. QED
  BY <1>1, <1>2

LEMMA Popped ==
  ASSUME NEW S, NEW s \in Seq(S), s # << >>
  PROVE  /\ Tail(s) \in Seq(S) /\ Head(s) \in S /\ 1 \in DOMAIN s /\ Head(s) = s[1]
         /\ Len(s) \in Nat \ {0} /\ DOMAIN s = 1 .. Len(s) /\ Len(Tail(s)) = Len(s) - 1
         /\ DOMAIN Tail(s) = 1 .. (Len(s) - 1)
         /\ \A i \in DOMAIN Tail(s) : i + 1 \in DOMAIN s /\ Tail(s)[i] = s[i + 1]
<1>1. /\ Head(s) \in S /\ Tail(s) \in Seq(S) /\ Len(Tail(s)) = Len(s) - 1
      /\ \A i \in 1 .. Len(Tail(s)) : Tail(s)[i] = s[i + 1]
  BY HeadTailProperties
<1>2. Len(s) \in Nat \ {0} /\ DOMAIN s = 1 .. Len(s)
  BY EmptySeq, LenProperties
<1>3. DOMAIN Tail(s) = 1 .. (Len(s) - 1)
  BY <1>1, LenProperties
<1>4. Head(s) = s[1]
  OBVIOUS
<1>5. QED
  BY <1>1, <1>2, <1>3, <1>4

LEMMA Few ==
  ASSUME NEW S
  PROVE  /\ << >> \in Seq(S) /\ Len(<< >>) = 0
         /\ \A f \in S : <<f>> \in Seq(S) /\ Len(<<f>>) = 1 /\ <<f>>[1] = f
         /\ \A f, g \in S :
              <<f, g>> \in Seq(S) /\ Len(<<f, g>>) = 2 /\ <<f, g>>[1] = f /\ <<f, g>>[2] = g
OBVIOUS

-----------------------------------------------------------------------------
(* Types *)

USE SessionAssumption DEF sessionVars, svars, cvars

(* What is put on the wire is of its kind. *)
LEMMA WireKinds ==
  /\ \A r \in Games :
       /\ [kind |-> "JoinGame", room |-> r] \in Requests
       /\ [kind |-> "Spectate", room |-> r] \in Requests
       /\ LobbyState(r) \in Answers
       /\ \A t \in Nat : [kind |-> "Rejoin", room |-> r, token |-> t] \in Requests
       /\ \A t \in 0 .. MaxLog : [kind |-> "TickBundle", room |-> r, tick |-> t] \in Answers
       /\ \A b \in BOOLEAN, t \in Nat, h \in Nat : GameStarting(r, b, t, h) \in Answers
  /\ \A r \in Rooms :
       /\ [kind |-> "StartGame", room |-> r] \in Requests
       /\ [kind |-> "LeaveGame", room |-> r] \in Requests
       /\ [kind |-> "Loaded", room |-> r] \in Requests
  /\ \A b \in BOOLEAN : [kind |-> "CreateGame", watch |-> b] \in Requests
  /\ \A b, c \in BOOLEAN : JoinResult(b, c) \in Answers
BY DEF Requests, Answers, LobbyState, GameStarting, JoinResult

(* What is taken from it is of the kind it says. *)
LEMMA WireShapes ==
  /\ \A f \in Requests :
       /\ f.kind \in {"JoinGame", "Spectate", "Rejoin"} => f.room \in Games
       /\ f.kind = "Rejoin" => f.token \in Nat
       /\ f.kind = "CreateGame" => f.watch \in BOOLEAN
  /\ \A f \in Answers :
       /\ f.kind = "JoinResult" => f.ok \in BOOLEAN /\ f.seat \in BOOLEAN
       /\ f.kind \in {"LobbyState", "GameStarting", "TickBundle"} => f.room \in Games
       /\ f.kind = "GameStarting" => f.seat \in BOOLEAN /\ f.token \in Nat /\ f.hist \in Nat
       /\ f.kind = "TickBundle" => f.tick \in 0 .. MaxLog
<1>1. ASSUME NEW f \in Requests
      PROVE  /\ f.kind \in {"JoinGame", "Spectate", "Rejoin"} => f.room \in Games
             /\ f.kind = "Rejoin" => f.token \in Nat
             /\ f.kind = "CreateGame" => f.watch \in BOOLEAN
  BY DEF Requests
<1>2. ASSUME NEW f \in Answers
      PROVE  /\ f.kind = "JoinResult" => f.ok \in BOOLEAN /\ f.seat \in BOOLEAN
             /\ f.kind \in {"LobbyState", "GameStarting", "TickBundle"} => f.room \in Games
             /\ f.kind = "GameStarting" => f.seat \in BOOLEAN /\ f.token \in Nat /\ f.hist \in Nat
             /\ f.kind = "TickBundle" => f.tick \in 0 .. MaxLog
  BY DEF Answers
<1>3. QED
  BY <1>1, <1>2

LEMMA SpeechTypes ==
  ASSUME Kinds, NEW msg \in Requests, Click(msg), NetTypes'
  PROVE  Kinds'
<1>1. up' \in Seq(Requests)
  BY Pushed1 DEF Click, Kinds, WireTypes
<1>2. QED
  BY <1>1 DEF Click, Kinds, ViewTypes, ServerTypes, WireTypes

LEMMA PlayerTypes ==
  ASSUME Kinds, Player
  PROVE  Kinds'
<1>1. NetTypes /\ net.room \in Rooms
  BY DEF Kinds, NetTypes
<1>2. ASSUME NEW r \in Live \cup Theirs, ClickJoin(r) PROVE Kinds'
  <2>1. NetTypes'
    BY <1>1, <1>2 DEF ClickJoin, NetTypes
  <2>2. [kind |-> "JoinGame", room |-> r] \in Requests
    BY WireKinds DEF Games
  <2>3. QED
    BY <1>2, <2>1, <2>2, SpeechTypes DEF ClickJoin
<1>3. ASSUME NEW r \in Live, ClickWatch(r) PROVE Kinds'
  <2>1. NetTypes'
    BY <1>1, <1>3 DEF ClickWatch, NetTypes
  <2>2. [kind |-> "Spectate", room |-> r] \in Requests
    BY WireKinds DEF Games
  <2>3. QED
    BY <1>3, <2>1, <2>2, SpeechTypes DEF ClickWatch
<1>4. ASSUME NEW watch \in BOOLEAN, ClickCreate(watch) PROVE Kinds'
  <2>1. NetTypes'
    BY <1>1, <1>4 DEF ClickCreate, NetTypes
  <2>2. QED
    BY <1>4, <2>1, WireKinds, SpeechTypes DEF ClickCreate
<1>5. CASE ClickStart
  <2>1. NetTypes'
    BY <1>1, <1>5 DEF ClickStart, NetTypes
  <2>2. QED
    BY <1>1, <1>5, <2>1, WireKinds, SpeechTypes DEF ClickStart
<1>6. CASE ClickLeave
  <2>1. NetTypes'
    BY <1>1, <1>6 DEF ClickLeave, NetTypes, Rooms
  <2>2. QED
    BY <1>1, <1>6, <2>1, WireKinds, SpeechTypes DEF ClickLeave
<1>7. QED
  BY <1>2, <1>3, <1>4, <1>5, <1>6 DEF Player

(* A handler of the server and an answer. *)
LEMMA AnswerTypes ==
  ASSUME Kinds, up # << >>, NEW msgs \in Seq(Answers), Answer(msgs), ServerTypes'
  PROVE  Kinds'
<1>1. up' \in Seq(Requests) /\ down' \in Seq(Answers)
  BY Popped, Pushed DEF Answer, Kinds, WireTypes
<1>2. QED
  BY <1>1 DEF Answer, Kinds, NetTypes, ViewTypes, WireTypes

LEMMA SendTypes ==
  ASSUME Kinds, NEW msgs \in Seq(Answers), Send(msgs), ServerTypes'
  PROVE  Kinds'
<1>1. down' \in Seq(Answers)
  BY Pushed DEF Send, Kinds, WireTypes
<1>2. QED
  BY <1>1 DEF Send, Kinds, NetTypes, ViewTypes, WireTypes

LEMMA RequestIs ==
  ASSUME Kinds, up # << >>
  PROVE  /\ Head(up) \in Requests /\ Head(up) = up[1] /\ 1 \in DOMAIN up
         /\ Head(up).kind \in {"JoinGame", "Spectate", "Rejoin"} => Head(up).room \in Games
         /\ Head(up).kind = "Rejoin" => Head(up).token \in Nat
         /\ Head(up).kind = "CreateGame" => Head(up).watch \in BOOLEAN
BY Popped, WireShapes DEF Kinds, WireTypes

LEMMA AnswerIs ==
  ASSUME Kinds, down # << >>
  PROVE  /\ Head(down) \in Answers /\ Head(down) = down[1] /\ 1 \in DOMAIN down
         /\ Tail(down) \in Seq(Answers)
         /\ Head(down).kind = "JoinResult" => Head(down).ok \in BOOLEAN /\ Head(down).seat \in BOOLEAN
         /\ Head(down).kind \in {"LobbyState", "GameStarting", "TickBundle"} => Head(down).room \in Games
         /\ Head(down).kind = "GameStarting" =>
              Head(down).seat \in BOOLEAN /\ Head(down).token \in Nat /\ Head(down).hist \in Nat
         /\ Head(down).kind = "TickBundle" => Head(down).tick \in 0 .. MaxLog
BY Popped, WireShapes DEF Kinds, WireTypes

LEMMA DissolvedTypes ==
  ASSUME ServerTypes
  PROVE  /\ Dissolved \in [Games -> [phase : {"none", "lobby", "running", "gone"}, log : 0 .. MaxLog]]
         /\ \A r \in Games : /\ Dissolved[r].log = games[r].log
                             /\ Dissolved[r].phase = "running" <=> games[r].phase = "running"
<1>1. games \in [Games -> [phase : {"none", "lobby", "running", "gone"}, log : 0 .. MaxLog]]
  BY DEF ServerTypes
<1>2. CASE ~ (Hosts /\ srv.seat)
  BY <1>1, <1>2 DEF Dissolved
<1>3. CASE Hosts /\ srv.seat
  <2>1. games[srv.room].phase = "lobby" /\ Dissolved = [games EXCEPT ![srv.room].phase = "gone"]
    BY <1>3 DEF Dissolved, Hosts
  <2>2. QED
    BY <1>1, <2>1
<1>4. QED
  BY <1>2, <1>3

LEMMA StartedTypes ==
  ASSUME Kinds, NEW r \in Games, games[r].phase = "lobby", Started(r)
  PROVE  /\ ServerTypes' /\ token'[r] \in Nat /\ srv.seat \in BOOLEAN
         /\ StartFrame(r) \in Answers
         /\ games'[r].phase = "running" /\ games'[r].log = 0
         /\ \A i \in Games : i # r => games'[i] = games[i]
<1>1. ServerTypes
  BY DEF Kinds
<1>2. games' = [games EXCEPT ![r] = [phase |-> "running", log |-> 0]] /\ held' = held
  BY DEF Started
<1>3. /\ games' \in [Games -> [phase : {"none", "lobby", "running", "gone"}, log : 0 .. MaxLog]]
      /\ games'[r].phase = "running" /\ games'[r].log = 0
      /\ \A i \in Games : i # r => games'[i] = games[i]
  BY <1>1, <1>2 DEF ServerTypes
<1>4. token' \in [Games -> Nat]
  BY <1>1 DEF Started, ServerTypes
<1>5. srv' \in [room : Rooms, seat : BOOLEAN, loaded : BOOLEAN, replaying : BOOLEAN, pos : Nat]
  BY <1>1 DEF Started, ServerTypes
<1>6. ServerTypes'
  BY <1>1, <1>2, <1>3, <1>4, <1>5 DEF ServerTypes, Rooms
<1>7. token'[r] \in Nat /\ srv.seat \in BOOLEAN
  BY <1>1, <1>4 DEF ServerTypes
<1>8. GameStarting(r, srv.seat, token'[r], 0) \in Answers
  BY <1>7, WireKinds
<1>9. QED
  BY <1>3, <1>6, <1>7, <1>8 DEF StartFrame

LEMMA RequestTypes ==
  ASSUME Kinds,
         \/ Ignored \/ ServeRefusal \/ ServeJoin \/ ServeCreate \/ ServeWatch \/ ServeRejoin
         \/ ServeStart \/ ServeLoaded \/ ServeLeave
  PROVE  Kinds'
<1> USE Few, WireKinds
<1>1. ServerTypes /\ up # << >>
  BY DEF Kinds, Ignored, ServeRefusal, ServeJoin, ServeCreate, ServeWatch, ServeRejoin,
         ServeStart, ServeLoaded, ServeLeave, Request
<1>2. CASE Ignored
  <2>1. ServerTypes'
    BY <1>1, <1>2 DEF Ignored, ServerTypes
  <2>2. QED
    BY <1>1, <1>2, <2>1, AnswerTypes DEF Ignored
<1>3. CASE ServeRefusal
  <2>1. ServerTypes'
    BY <1>1, <1>3 DEF ServeRefusal, ServerTypes
  <2>2. QED
    BY <1>1, <1>3, <2>1, AnswerTypes DEF ServeRefusal
<1>4. CASE ServeJoin
  <2>1. Head(up).room \in Games
    BY <1>1, <1>4, RequestIs DEF ServeJoin, Request
  <2>2. ServerTypes'
    BY <1>1, <1>4, <2>1 DEF ServeJoin, ServerTypes, Place, Rooms
  <2>3. QED
    BY <1>1, <1>4, <2>1, <2>2, AnswerTypes DEF ServeJoin
<1>5. CASE ServeCreate
  <2>1. /\ Head(up).watch \in BOOLEAN
    BY <1>1, <1>5, RequestIs DEF ServeCreate, Request
  <2>2. PICK r \in Own :
          /\ games[r].phase = "none" /\ games' = [games EXCEPT ![r].phase = "lobby"]
          /\ srv' = Place(r, ~Head(up).watch, srv.loaded, srv.replaying)
          /\ Answer(<<JoinResult(TRUE, ~Head(up).watch), LobbyState(r)>>)
    BY <1>5 DEF ServeCreate
  <2>3. r \in Games /\ token' = token /\ held' = held
    BY <1>5 DEF Games, ServeCreate
  <2>4. /\ games' \in [Games -> [phase : {"none", "lobby", "running", "gone"}, log : 0 .. MaxLog]]
        /\ \A i \in Games : /\ games'[i].log = games[i].log
                            /\ games[i].phase = "running" <=> games'[i].phase = "running"
    BY <1>1, <2>2, <2>3 DEF ServerTypes
  <2>5. ServerTypes'
    BY <1>1, <2>1, <2>2, <2>3, <2>4 DEF ServerTypes, Place, Rooms
  <2>6. QED
    BY <1>1, <2>1, <2>2, <2>3, <2>5, AnswerTypes
<1>6. CASE ServeWatch
  <2>1. Head(up).room \in Games
    BY <1>1, <1>6, RequestIs DEF ServeWatch, Request
  <2>2. ServerTypes'
    BY <1>1, <1>6, <2>1 DEF ServeWatch, ServerTypes, Place, Rooms
  <2>3. games[Head(up).room].log \in Nat
    BY <1>1, <2>1 DEF ServerTypes
  <2>4. GameStarting(Head(up).room, FALSE, 0, games[Head(up).room].log) \in Answers
    BY <2>1, <2>3
  <2>5. QED
    BY <1>1, <1>6, <2>2, <2>4, AnswerTypes DEF ServeWatch
<1>7. CASE ServeRejoin
  <2>1. Head(up).room \in Games
    BY <1>1, <1>7, RequestIs DEF ServeRejoin, Request
  <2>2. ServerTypes'
    BY <1>1, <1>7, <2>1 DEF ServeRejoin, ServerTypes, Place, Rooms
  <2>3. games[Head(up).room].log \in Nat /\ token[Head(up).room] + 1 \in Nat
    BY <1>1, <2>1 DEF ServerTypes
  <2>4. GameStarting(Head(up).room, TRUE, token[Head(up).room] + 1, games[Head(up).room].log) \in Answers
    BY <2>1, <2>3
  <2>5. QED
    BY <1>1, <1>7, <2>2, <2>4, AnswerTypes DEF ServeRejoin
<1>8. CASE ServeStart
  <2>1. CASE Hosts
    <3>1. srv.room \in Games
      BY <2>1 DEF Hosts, Games
    <3>2. Started(srv.room) /\ Answer(<<StartFrame(srv.room)>>) /\ games[srv.room].phase = "lobby"
      BY <1>8, <2>1 DEF ServeStart, Hosts
    <3>3. QED
      BY <1>1, <3>1, <3>2, StartedTypes, AnswerTypes
  <2>2. CASE ~Hosts
    <3>1. UNCHANGED svars /\ Answer(<< >>)
      BY <1>8, <2>2 DEF ServeStart
    <3>2. ServerTypes'
      BY <1>1, <3>1 DEF ServerTypes
    <3>3. QED
      BY <1>1, <3>1, <3>2, AnswerTypes
  <2>3. QED
    BY <2>1, <2>2
<1>9. CASE ServeLoaded
  <2>1. ServerTypes'
    BY <1>1, <1>9 DEF ServeLoaded, ServerTypes
  <2>2. QED
    BY <1>1, <1>9, <2>1, AnswerTypes DEF ServeLoaded
<1>10. CASE ServeLeave
  <2>1. srv' \in [room : Rooms, seat : BOOLEAN, loaded : BOOLEAN, replaying : BOOLEAN, pos : Nat]
    BY <1>1, <1>10 DEF ServeLeave, ServerTypes, Rooms
  <2>2. ServerTypes'
    BY <1>1, <1>10, <2>1, DissolvedTypes DEF ServeLeave, ServerTypes, Rooms
  <2>3. up' \in Seq(Requests)
    BY <1>1, <1>10, Popped DEF ServeLeave, Kinds, WireTypes
  <2>4. crossed' \in BOOLEAN
    BY <1>10 DEF ServeLeave, Kinds, WireTypes
  <2>5. QED
    BY <1>10, <2>2, <2>3, <2>4 DEF ServeLeave, Kinds, NetTypes, ViewTypes, WireTypes
<1>11. QED
  BY <1>2, <1>3, <1>4, <1>5, <1>6, <1>7, <1>8, <1>9, <1>10

LEMMA ServerOwnTypes ==
  ASSUME Kinds,
         \/ OthersEdit \/ PumpReplay \/ GraceEnds
         \/ \E r \in Theirs : OthersStart(r)
         \/ \E r \in Games : NextTick(r)
  PROVE  Kinds'
<1> USE Few, WireKinds
<1>1. ServerTypes
  BY DEF Kinds
<1>2. CASE OthersEdit
  <2>1. ServerTypes' /\ srv.room \in Games
    BY <1>1, <1>2 DEF OthersEdit, ServerTypes, Rooms
  <2>2. QED
    BY <1>2, <2>1, SendTypes DEF OthersEdit
<1>3. CASE PumpReplay
  <2>1. CASE srv.room = NoGame \/ srv.pos >= games[srv.room].log
    <3>1. srv' = [srv EXCEPT !.replaying = FALSE] /\ Send(<< >>) /\ UNCHANGED <<games, token, held>>
      BY <1>3, <2>1 DEF PumpReplay
    <3>2. ServerTypes'
      BY <1>1, <3>1 DEF ServerTypes
    <3>3. QED
      BY <3>1, <3>2, SendTypes
  <2>2. CASE ~ (srv.room = NoGame \/ srv.pos >= games[srv.room].log)
    <3>1. /\ srv' = [srv EXCEPT !.pos = @ + 1, !.replaying = srv.pos + 1 < games[srv.room].log]
          /\ Send(<<[kind |-> "TickBundle", room |-> srv.room, tick |-> srv.pos]>>)
          /\ UNCHANGED <<games, token, held>>
      BY <1>3, <2>2 DEF PumpReplay
    <3>2. srv.room \in Games /\ srv.pos \in Nat /\ srv.pos < games[srv.room].log
          /\ games[srv.room].log \in 0 .. MaxLog
      BY <1>1, <2>2 DEF ServerTypes, Rooms
    <3>3. srv.pos \in 0 .. MaxLog
      BY <3>2
    <3>4. ServerTypes'
      <4>1. srv.pos + 1 \in Nat /\ (srv.pos + 1 < games[srv.room].log) \in BOOLEAN
        BY <3>2
      <4>2. srv' \in [room : Rooms, seat : BOOLEAN, loaded : BOOLEAN, replaying : BOOLEAN, pos : Nat]
        BY <1>1, <3>1, <4>1 DEF ServerTypes
      <4>3. QED
        BY <1>1, <3>1, <4>2 DEF ServerTypes
    <3>5. QED
      BY <3>1, <3>2, <3>3, <3>4, SendTypes
  <2>3. QED
    BY <2>1, <2>2
<1>4. CASE GraceEnds
  <2>1. ServerTypes'
    BY <1>1, <1>4 DEF GraceEnds, ServerTypes, Rooms
  <2>2. NetTypes' /\ ViewTypes' /\ WireTypes'
    BY <1>4 DEF GraceEnds, Kinds, NetTypes, ViewTypes, WireTypes
  <2>3. QED
    BY <2>1, <2>2 DEF Kinds
<1>5. ASSUME NEW r \in Theirs, OthersStart(r) PROVE Kinds'
  <2>1. r \in Games /\ games[r].phase = "lobby" /\ Started(r)
    BY <1>5 DEF Games, OthersStart
  <2>2. ServerTypes' /\ StartFrame(r) \in Answers
    BY <2>1, StartedTypes
  <2>3. QED
    BY <1>5, <2>2, SendTypes DEF OthersStart
<1>6. ASSUME NEW r \in Games, NextTick(r) PROVE Kinds'
  <2>1. /\ games[r].phase = "running" /\ games[r].log \in 0 .. MaxLog /\ games[r].log < MaxLog
        /\ games' = [games EXCEPT ![r].log = @ + 1] /\ UNCHANGED <<srv, token, held>>
    BY <1>1, <1>6 DEF NextTick, ServerTypes
  <2>2. games[r].log + 1 \in 0 .. MaxLog
    BY <2>1
  <2>3. /\ games' \in [Games -> [phase : {"none", "lobby", "running", "gone"}, log : 0 .. MaxLog]]
        /\ \A i \in Games : games'[i].phase = games[i].phase /\ (i # r => games'[i] = games[i])
    BY <1>1, <2>1, <2>2 DEF ServerTypes
  <2>4. ServerTypes'
    BY <1>1, <2>1, <2>3 DEF ServerTypes, Rooms
  <2>5. \E msgs \in Seq(Answers) : Send(msgs)
    BY <1>6, <2>1 DEF NextTick
  <2>6. QED
    BY <2>4, <2>5, SendTypes
<1>7. QED
  BY <1>2, <1>3, <1>4, <1>5, <1>6

LEMMA HandledTypes ==
  ASSUME Kinds, down # << >>, Handled, NetTypes'
  PROVE  Kinds'
BY AnswerIs DEF Handled, Kinds, ViewTypes, ServerTypes, WireTypes

(* mpStep takes n bundles for the ticks that come next. *)
LEMMA PlayIs ==
  ASSUME Kinds, NEW v \in Views, NEW n \in Nat, Play(v, n)
  PROVE  /\ view' \in Views /\ NetTypes'
         /\ view'.setup = v.setup /\ view'.world = v.world /\ view'.end = v.end
         /\ view'.tick = v.tick + n
         /\ v.catchUp /\ ~view'.catchUp => view'.tick >= v.end
         /\ view'.catchUp => v.catchUp
         /\ \A r \in view'.played : r \in v.played \/ \E b \in net.bundles : b.room = r
         /\ net'.bundles \subseteq net.bundles /\ ~net'.rejoin
         /\ net'.state = net.state /\ net'.room = net.room
<1> DEFINE used == {b \in net.bundles : b.tick \in v.tick .. (v.tick + n - 1)}
           rooms == {b.room : b \in used}
           w == [v EXCEPT !.tick = @ + n, !.played = @ \cup rooms]
           left == net.bundles \ used
<1>1. /\ view' = [w EXCEPT !.catchUp = @ /\ ~CaughtUp(w, left)]
      /\ net' = [net EXCEPT !.bundles = @ \ used, !.rejoin = FALSE]
  BY DEF Play
<1>2. net.bundles \subseteq [room : Games, tick : 0 .. MaxLog]
  BY DEF Kinds, NetTypes
<1>3. rooms \subseteq Games /\ \A r \in rooms : \E b \in net.bundles : b.room = r
  BY <1>2
<1>4. net' = [net EXCEPT !.bundles = left, !.rejoin = FALSE]
      /\ left \subseteq net.bundles
  BY <1>1 DEF Kinds, NetTypes
<1> HIDE DEF rooms, left
<1>5. /\ w \in Views /\ w.setup = v.setup /\ w.world = v.world /\ w.end = v.end
      /\ w.tick = v.tick + n /\ w.played = v.played \cup rooms /\ w.catchUp = v.catchUp
  <2>1. v.tick + n \in Nat /\ v.played \cup rooms \in SUBSET Games
    BY <1>3 DEF Views
  <2>2. w = [v EXCEPT !.tick = v.tick + n, !.played = v.played \cup rooms]
    OBVIOUS
  <2> HIDE DEF w
  <2>3. QED
    BY <2>1, <2>2 DEF Views
<1>6. CaughtUp(w, left) <=> w.tick >= w.end
  BY DEF CaughtUp
<1> HIDE DEF w
<1>7. /\ view' \in Views /\ view'.setup = w.setup /\ view'.world = w.world
      /\ view'.end = w.end /\ view'.tick = w.tick /\ view'.played = w.played
      /\ view'.catchUp <=> w.catchUp /\ ~CaughtUp(w, left)
  BY <1>1, <1>5 DEF Views
<1>8. /\ NetTypes' /\ net'.bundles \subseteq net.bundles /\ ~net'.rejoin
      /\ net'.state = net.state /\ net'.room = net.room
  BY <1>4 DEF Kinds, NetTypes
<1>9. QED
  BY <1>3, <1>5, <1>6, <1>7, <1>8

LEMMA FreshIs ==
  /\ FreshNet.state = "Lobby" /\ FreshNet.bundles = {} /\ ~FreshNet.rejoin
  /\ FreshView \in Views
  /\ FreshView.tick = 0 /\ FreshView.played = {} /\ ~FreshView.setup
  /\ ~FreshView.catchUp /\ FreshView.end = 0
BY DEF FreshNet, FreshView, Views, Rooms

LEMMA NewWorldIs ==
  ASSUME Kinds
  PROVE  /\ NewWorld \in Views /\ NewWorld.setup /\ NewWorld.world = net.room
         /\ NewWorld.tick = 0 /\ NewWorld.end = 0 /\ NewWorld.played = {}
<1>1. net.room \in Rooms /\ net.spec \in BOOLEAN
  BY DEF Kinds, NetTypes
<1>2. QED
  BY <1>1, FreshIs DEF NewWorld, Views

(* The world that replays the history of its game. *)
ReplayWorld == [NewWorld EXCEPT !.end = net.hist, !.catchUp = net.hist > 0]

LEMMA ReplayWorldIs ==
  ASSUME Kinds
  PROVE  /\ ReplayWorld \in Views /\ ReplayWorld.setup /\ ReplayWorld.world = net.room
         /\ ReplayWorld.tick = 0 /\ ReplayWorld.end = net.hist /\ net.hist \in Nat
         /\ (ReplayWorld.catchUp <=> net.hist > 0) /\ ReplayWorld.played = {}
<1>1. net.hist \in Nat /\ (net.hist > 0) \in BOOLEAN
  BY DEF Kinds, NetTypes
<1>2. QED
  BY <1>1, NewWorldIs DEF Views, ReplayWorld

LEMMA ReportTypes ==
  ASSUME Kinds, Report
  PROVE  /\ up' \in Seq(Requests) /\ ticket' \in [room : Rooms, token : Nat]
         /\ up' = up \/ up' = Append(up, [kind |-> "Loaded", room |-> net.room])
<1>1. net.room \in Rooms /\ net.token \in Nat /\ up \in Seq(Requests)
      /\ ticket \in [room : Rooms, token : Nat]
  BY DEF Kinds, NetTypes, WireTypes
<1>2. [kind |-> "Loaded", room |-> net.room] \in Requests
  BY <1>1, WireKinds
<1>3. CASE net.spec
  BY <1>1, <1>3 DEF Report
<1>4. CASE ~net.spec
  <2>1. /\ ticket' = [room |-> net.room, token |-> net.token]
        /\ up' = Append(up, [kind |-> "Loaded", room |-> net.room])
    BY <1>4 DEF Report
  <2>2. QED
    BY <1>1, <1>2, <2>1, Pushed1
<1>5. QED
  BY <1>3, <1>4

LEMMA ClientTypes ==
  ASSUME Kinds, Client
  PROVE  Kinds'
<1>1. NetTypes /\ ViewTypes /\ ServerTypes /\ WireTypes
  BY DEF Kinds
<1>2. CASE OnJoinResult
  <2>1. down # << >> /\ Head(down).kind = "JoinResult"
    BY <1>2 DEF OnJoinResult, Received
  <2>2. Head(down).ok \in BOOLEAN /\ Head(down).seat \in BOOLEAN
    BY <2>1, AnswerIs
  <2>3. NetTypes'
    BY <1>1, <1>2, <2>2 DEF OnJoinResult, NetTypes
  <2>4. QED
    BY <1>2, <2>1, <2>3, HandledTypes DEF OnJoinResult
<1>3. CASE OnLobbyState
  <2>1. down # << >> /\ Head(down).kind = "LobbyState"
    BY <1>3 DEF OnLobbyState, Received
  <2>2. Head(down).room \in Rooms
    BY <2>1, AnswerIs DEF Rooms
  <2>3. NetTypes'
    BY <1>1, <1>3, <2>2 DEF OnLobbyState, NetTypes
  <2>4. QED
    BY <1>3, <2>1, <2>3, HandledTypes DEF OnLobbyState
<1>4. CASE OnGameStarting
  <2>1. down # << >> /\ Head(down).kind = "GameStarting"
    BY <1>4 DEF OnGameStarting, Received
  <2>2. /\ Head(down).room \in Rooms /\ Head(down).seat \in BOOLEAN
        /\ Head(down).token \in Nat /\ Head(down).hist \in Nat
    BY <2>1, AnswerIs DEF Rooms
  <2>3. NetTypes'
    <3> DEFINE f == Head(down)
               spec == net.expSpectate \/ ~ f.seat
               back == net.expRejoin \/ net.expSpectate \/ spec
    <3>1. net' = [net EXCEPT !.room = f.room, !.seat = f.seat, !.token = f.token, !.hist = f.hist,
                             !.spec = spec, !.rejoin = back,
                             !.expRejoin = FALSE, !.expSpectate = FALSE, !.state = "Starting"]
      BY <1>4 DEF OnGameStarting
    <3>2. spec \in BOOLEAN /\ back \in BOOLEAN
      OBVIOUS
    <3> HIDE DEF f, spec, back
    <3>3. NetTypes /\ f.room \in Rooms /\ f.seat \in BOOLEAN /\ f.token \in Nat /\ f.hist \in Nat
      BY <1>1, <2>2 DEF f
    <3>4. net' = [state |-> "Starting", room |-> f.room, seat |-> f.seat, spec |-> spec,
                  rejoin |-> back, expRejoin |-> FALSE, expSpectate |-> FALSE,
                  hist |-> f.hist, token |-> f.token, bundles |-> net.bundles]
      BY <3>1, <3>3 DEF NetTypes
    <3>5. net.bundles \in SUBSET [room : Games, tick : 0 .. MaxLog]
      BY <3>3 DEF NetTypes
    <3>6. QED
      BY <3>2, <3>3, <3>4, <3>5 DEF NetTypes
  <2>4. QED
    BY <1>4, <2>1, <2>3, HandledTypes DEF OnGameStarting
<1>5. CASE OnTickBundle
  <2>1. down # << >> /\ Head(down).kind = "TickBundle"
    BY <1>5 DEF OnTickBundle, Received
  <2>2. Head(down).room \in Games /\ Head(down).tick \in 0 .. MaxLog
    BY <2>1, AnswerIs
  <2>3. NetTypes'
    <3> DEFINE f == Head(down)
               more == {b \in net.bundles : b.tick # f.tick} \cup {[room |-> f.room, tick |-> f.tick]}
    <3>1. net' = [net EXCEPT !.bundles = more, !.state = IF @ = "Starting" THEN "InGame" ELSE @]
      BY <1>5 DEF OnTickBundle
    <3>2. more \in SUBSET [room : Games, tick : 0 .. MaxLog]
      BY <1>1, <2>2 DEF NetTypes
    <3> HIDE DEF more
    <3>3. QED
      BY <1>1, <3>1, <3>2 DEF NetTypes
  <2>4. QED
    BY <1>5, <2>1, <2>3, HandledTypes DEF OnTickBundle
<1>6. CASE AskRejoin
  <2>1. ticket.room \in Games /\ ticket.token \in Nat
    BY <1>1, <1>6 DEF AskRejoin, WireTypes, Rooms
  <2>2. [kind |-> "Rejoin", room |-> ticket.room, token |-> ticket.token] \in Requests
    BY <2>1, WireKinds
  <2>3. up' \in Seq(Requests)
    BY <1>1, <1>6, <2>2, Pushed1 DEF AskRejoin, WireTypes
  <2>4. NetTypes'
    BY <1>1, <1>6 DEF AskRejoin, NetTypes
  <2>5. QED
    BY <1>1, <1>6, <2>3, <2>4 DEF AskRejoin, StepRest, Kinds, ViewTypes, ServerTypes, WireTypes
<1>7. CASE SetupFresh
  <2>1. up' \in Seq(Requests) /\ ticket' \in [room : Rooms, token : Nat]
    BY <1>7, ReportTypes DEF SetupFresh
  <2>2. ViewTypes'
    BY <1>7, NewWorldIs DEF SetupFresh, ViewTypes
  <2>3. NetTypes' /\ ServerTypes'
    BY <1>1, <1>7 DEF SetupFresh, StepRest, NetTypes, ServerTypes
  <2>4. QED
    BY <1>1, <1>7, <2>1, <2>2, <2>3 DEF SetupFresh, StepRest, Kinds, WireTypes
<1>8. ASSUME NEW n \in 0 .. MaxLog, SetupReplay(n) PROVE Kinds'
  <2>1. up' \in Seq(Requests) /\ ticket' \in [room : Rooms, token : Nat]
    BY <1>8, ReportTypes DEF SetupReplay
  <2>2. net.hist \in Nat /\ n \in Nat
    BY <1>1 DEF NetTypes
  <2>3. ViewTypes' /\ NetTypes'
    <3>1. Play(ReplayWorld, n)
      BY <1>8 DEF SetupReplay, ReplayWorld
    <3>2. QED
      BY <2>2, <3>1, ReplayWorldIs, PlayIs DEF ViewTypes
  <2>4. ServerTypes'
    BY <1>1, <1>8 DEF SetupReplay, StepRest, ServerTypes
  <2>5. QED
    BY <1>1, <1>8, <2>1, <2>3, <2>4 DEF SetupReplay, StepRest, Kinds, WireTypes
<1>9. ASSUME NEW n \in 0 .. MaxLog, PlayBundles(n) PROVE Kinds'
  <2>1. ViewTypes' /\ NetTypes'
    BY <1>1, <1>9, PlayIs DEF PlayBundles, ViewTypes
  <2>2. ServerTypes'
    BY <1>1, <1>9 DEF PlayBundles, StepRest, ServerTypes
  <2>3. QED
    BY <1>1, <1>9, <2>1, <2>2 DEF PlayBundles, StepRest, Kinds, WireTypes
<1>10. QED
  BY <1>2, <1>3, <1>4, <1>5, <1>6, <1>7, <1>8, <1>9 DEF Client

LEMMA CutOffTypes ==
  ASSUME Kinds, NEW next \in {"browse", "rejoin"}, CutOff(next)
  PROVE  Kinds'
<1>1. NetTypes /\ ViewTypes /\ ServerTypes /\ WireTypes
  BY DEF Kinds
<1>2. FreshNet \in [state : {"Lobby", "InRoom", "Starting", "InGame", "Done"}, room : Rooms,
           seat : BOOLEAN, spec : BOOLEAN, rejoin : BOOLEAN, expRejoin : BOOLEAN,
           expSpectate : BOOLEAN, hist : Nat, token : Nat,
           bundles : SUBSET [room : Games, tick : 0 .. MaxLog]]
  BY DEF FreshNet, Rooms
<1>3. NetTypes' /\ ViewTypes'
  BY <1>2, FreshIs DEF CutOff, NetTypes, ViewTypes
<1>4. srv' \in [room : Rooms, seat : BOOLEAN, loaded : BOOLEAN, replaying : BOOLEAN, pos : Nat]
  BY DEF CutOff, Nowhere, Rooms
<1>5. ServerTypes'
  BY <1>1, <1>4, DissolvedTypes DEF CutOff, ServerTypes, Rooms
<1>6. QED
  BY <1>1, <1>3, <1>5, Few DEF CutOff, Kinds, WireTypes

LEMMA InitTypes == SessionInit => Kinds
<1> SUFFICES ASSUME SessionInit PROVE Kinds
  OBVIOUS
<1>1. NetTypes /\ ViewTypes
  BY DEF SessionInit, NetTypes, FreshNet, ViewTypes, FreshView, Views, Rooms
<1>2. games \in [Games -> [phase : {"none", "lobby", "running", "gone"}, log : 0 .. MaxLog]]
      /\ \A r \in Games : games[r].phase # "running" => games[r].log = 0
  BY DEF SessionInit
<1>3. ServerTypes
  BY <1>2 DEF SessionInit, ServerTypes, Nowhere, Rooms
<1>4. WireTypes
  BY Few DEF SessionInit, WireTypes, Rooms
<1>5. QED
  BY <1>1, <1>3, <1>4 DEF Kinds

LEMMA TypesStep ==
  ASSUME Kinds, [SessionNext]_sessionVars
  PROVE  Kinds'
<1>1. CASE Player
  BY <1>1, PlayerTypes
<1>2. CASE Server
  BY <1>2, RequestTypes, ServerOwnTypes DEF Server
<1>3. CASE Client
  BY <1>3, ClientTypes
<1>4. CASE \E next \in {"browse", "rejoin"} : CutOff(next)
  BY <1>4, CutOffTypes
<1>5. CASE UNCHANGED sessionVars
  BY <1>5 DEF Kinds, NetTypes, ViewTypes, ServerTypes, WireTypes
<1>6. QED
  BY <1>1, <1>2, <1>3, <1>4, <1>5 DEF SessionNext

-----------------------------------------------------------------------------
(* The gate *)

LEMMA GateStep ==
  ASSUME Kinds, Gated, [SessionNext]_sessionVars
  PROVE  Gated'
<1>1. CASE UNCHANGED view
  BY <1>1 DEF Gated
<1>2. CASE view' = FreshView
  BY <1>2, FreshIs DEF Gated
<1>3. CASE SetupFresh
  <2>1. view' = NewWorld /\ NewWorld.tick = 0 /\ NewWorld.end = 0
    BY <1>3, NewWorldIs DEF SetupFresh
  <2>2. QED
    BY <2>1 DEF Gated
<1>4. ASSUME NEW n \in 0 .. MaxLog, SetupReplay(n) PROVE Gated'
  <2> DEFINE v == ReplayWorld
  <2>1. net.hist \in Nat /\ n \in Nat
    BY DEF Kinds, NetTypes
  <2>2. v \in Views /\ v.tick = 0 /\ v.end = net.hist /\ (v.catchUp <=> net.hist > 0)
    BY ReplayWorldIs
  <2>3. Play(v, n)
    BY <1>4 DEF SetupReplay, ReplayWorld
  <2> HIDE DEF v
  <2>4. /\ view'.end = v.end /\ view'.tick = v.tick + n
        /\ v.catchUp /\ ~view'.catchUp => view'.tick >= v.end
    BY <2>1, <2>2, <2>3, PlayIs
  <2>5. QED
    BY <2>1, <2>2, <2>4 DEF Gated
<1>5. ASSUME NEW n \in 0 .. MaxLog, PlayBundles(n) PROVE Gated'
  <2>1. view \in Views /\ n \in Nat /\ Play(view, n) /\ view.tick \in Nat /\ view.end \in Nat
    BY <1>5 DEF PlayBundles, Kinds, ViewTypes, Views
  <2>2. /\ view'.setup = view.setup /\ view'.end = view.end /\ view'.tick = view.tick + n
        /\ view.catchUp /\ ~view'.catchUp => view'.tick >= view.end
    BY <2>1, PlayIs
  <2>3. QED
    BY <2>1, <2>2 DEF Gated
<1>6. CASE Player
  BY <1>1, <1>6 DEF Player, ClickJoin, ClickWatch, ClickCreate, ClickStart, ClickLeave, Click
<1>7. CASE Server
  <2>1. UNCHANGED view
    BY <1>7 DEF Server, Ignored, ServeRefusal, ServeJoin, ServeCreate, ServeWatch, ServeRejoin,
         ServeStart, ServeLoaded, ServeLeave, OthersEdit, PumpReplay, GraceEnds, OthersStart,
         NextTick, Answer, Send
  <2>2. QED
    BY <1>1, <2>1
<1>8. CASE OnJoinResult \/ OnLobbyState \/ OnGameStarting \/ OnTickBundle \/ AskRejoin
  BY <1>1, <1>8 DEF OnJoinResult, OnLobbyState, OnGameStarting, OnTickBundle, AskRejoin, Handled
<1>9. CASE \E next \in {"browse", "rejoin"} : CutOff(next)
  BY <1>2, <1>9 DEF CutOff
<1>10. CASE UNCHANGED sessionVars
  BY <1>1, <1>10
<1>11. QED
  BY <1>3, <1>4, <1>5, <1>6, <1>7, <1>8, <1>9, <1>10 DEF SessionNext, Client

-----------------------------------------------------------------------------
(* Phases *)

LEMMA WireIs ==
  ASSUME Kinds
  PROVE  /\ up \in Seq(Requests) /\ down \in Seq(Answers)
         /\ Len(up) \in Nat /\ DOMAIN up = 1 .. Len(up)
         /\ Len(down) \in Nat /\ DOMAIN down = 1 .. Len(down)
BY LenProperties DEF Kinds, WireTypes

(* A frame of the client is read. *)
LEMMA IdleHeard ==
  ASSUME Kinds, Idle, up # << >>, up' = Tail(up), net' = net, view' = view
  PROVE  Idle'
BY WireIs, Popped DEF Idle

(* The client sends a frame, though not that it has loaded. *)
LEMMA IdleSays ==
  ASSUME Kinds, Idle, NEW msg \in Requests, msg.kind # "Loaded",
         msg.kind = "Rejoin" => net'.expRejoin, net.expRejoin => net'.expRejoin,
         up' = Append(up, msg), view' = view, ~net'.rejoin, net'.bundles = {},
         net'.state \in {"Lobby", "InRoom"}
  PROVE  Idle'
<1>1. \A i \in DOMAIN up' : (i \in DOMAIN up /\ up'[i] = up[i]) \/ up'[i] = msg
  BY WireIs, Pushed1
<1>2. QED
  BY <1>1 DEF Idle

LEMMA CalledStays ==
  ASSUME Called, Idle', Attached', srv'.room = srv.room, down' = down,
         net.expRejoin => net'.expRejoin, net.expSpectate => net'.expSpectate,
         Attached /\ Waits => Waits'
  PROVE  Called'
<1>1. PICK i \in DOMAIN down : CalledBy(i)
  BY DEF Called
<1>2. CalledBy(i)'
  BY <1>1 DEF Called, CalledBy
<1>3. QED
  BY <1>2 DEF Called

(* Nothing changes but what the phase of the client does not depend on. *)
LEMMA PhaseStays ==
  ASSUME Phase, UNCHANGED <<net, view, up, down>>,
         srv'.room = srv.room, srv'.seat = srv.seat, srv'.loaded = srv.loaded,
         Attached' <=> Attached, Attached /\ Waits => Waits'
  PROVE  Phase'
<1>1. CASE Away
  BY <1>1 DEF Phase, Away, Idle
<1>2. CASE Called
  <2>1. Idle' /\ Attached'
    BY <1>2 DEF Called, Idle
  <2>2. QED
    BY <1>2, <2>1, CalledStays DEF Phase
<1>3. CASE Begun
  BY <1>3 DEF Phase, Begun
<1>4. QED
  BY <1>1, <1>2, <1>3 DEF Phase

LEMMA PhaseHeard ==
  ASSUME Kinds, Phase, up # << >>, up' = Tail(up), UNCHANGED <<net, view, down, srv, games>>
  PROVE  Phase'
<1>1. (Attached' <=> Attached) /\ (Waits' <=> Waits)
  BY DEF Attached, Waits
<1>2. CASE Away
  <2>1. Idle'
    BY <1>2, IdleHeard DEF Away
  <2>2. QED
    BY <1>1, <1>2, <2>1 DEF Phase, Away
<1>3. CASE Called
  <2>1. Idle'
    BY <1>3, IdleHeard DEF Called
  <2>2. QED
    BY <1>1, <1>3, <2>1, CalledStays DEF Phase, Called
<1>4. CASE Begun
  <2>1. \A i \in DOMAIN up' : \E j \in DOMAIN up : up'[i] = up[j]
    BY WireIs, Popped
  <2>2. QED
    BY <1>1, <1>4, <2>1 DEF Phase, Begun
<1>5. QED
  BY <1>2, <1>3, <1>4 DEF Phase

LEMMA Preludes ==
  ASSUME NEW f \in Answers, NEW g \in Answers, Prelude(f), Prelude(g)
  PROVE  /\ <<f>> \in Seq(Answers) /\ \A j \in 1 .. Len(<<f>>) : Prelude(<<f>>[j])
         /\ <<f, g>> \in Seq(Answers) /\ \A j \in 1 .. Len(<<f, g>>) : Prelude(<<f, g>>[j])
<1>1. /\ <<f>> \in Seq(Answers) /\ Len(<<f>>) = 1 /\ <<f>>[1] = f
      /\ <<f, g>> \in Seq(Answers) /\ Len(<<f, g>>) = 2 /\ <<f, g>>[1] = f /\ <<f, g>>[2] = g
  BY Few
<1>2. \A j \in 1 .. 1 : j = 1
  OBVIOUS
<1>3. \A j \in 1 .. 2 : j = 1 \/ j = 2
  OBVIOUS
<1>4. QED
  BY <1>1, <1>2, <1>3

(* A client that is in no game is told of none. *)
LEMMA AwayTold ==
  ASSUME Kinds, Away, NEW msgs \in Seq(Answers), \A j \in 1 .. Len(msgs) : Prelude(msgs[j]),
         down' = down \o msgs, Idle', ~Attached'
  PROVE  Phase'
<1>1. \A j \in DOMAIN down' :
        (j \in DOMAIN down /\ down'[j] = down[j]) \/ (\E i \in 1 .. Len(msgs) : down'[j] = msgs[i])
  BY WireIs, Pushed
<1>2. QED
  BY <1>1 DEF Phase, Away

(* A client that is in no game is told of the start of one. *)
LEMMA AwayCalled ==
  ASSUME Kinds, Away, NEW f \in Answers, f.kind = "GameStarting", f.room = srv'.room,
         down' = down \o <<f>>, Idle', Attached',
         f.seat /\ ~net'.expRejoin /\ ~net'.expSpectate => Waits'
  PROVE  Phase'
<1>1. down' = Append(down, f) /\ down \in Seq(Answers) /\ Len(down) \in Nat
      /\ DOMAIN down = 1 .. Len(down)
  BY WireIs, AppendIsConcat
<1>2. PICK i \in Nat : i = Len(down) + 1
  BY <1>1
<1>3. /\ DOMAIN down' = 1 .. i /\ down'[i] = f /\ i \in DOMAIN down'
      /\ \A j \in DOMAIN down : j \in DOMAIN down' /\ down'[j] = down[j]
      /\ \A j \in DOMAIN down' : j \in DOMAIN down \/ j = i
  BY <1>1, <1>2, Pushed1
<1>4. Len(down') = i
  BY <1>1, <1>2, AppendProperties
<1>5. \A j \in DOMAIN down' : (j < i => Prelude(down'[j])) /\ ~ (j > i)
  BY <1>1, <1>2, <1>3 DEF Away
<1>6. CalledBy(i)'
  BY <1>3, <1>4, <1>5 DEF CalledBy
<1>7. QED
  BY <1>3, <1>6 DEF Phase, Called

(* A tick follows what the client knows or will know of the game. *)
LEMMA PhaseTick ==
  ASSUME Kinds, Called \/ Begun, ~Waits, NEW f \in Answers, TickOf(f, srv.room),
         down' = down \o <<f>>, UNCHANGED <<net, view, up>>, Attached',
         srv'.room = srv.room
  PROVE  Phase'
<1>1. down' = Append(down, f) /\ down \in Seq(Answers) /\ Len(down) \in Nat
      /\ DOMAIN down = 1 .. Len(down)
  BY WireIs, AppendIsConcat
<1>2. /\ DOMAIN down' = 1 .. (Len(down) + 1) /\ down'[Len(down) + 1] = f
      /\ \A j \in DOMAIN down : j \in DOMAIN down' /\ down'[j] = down[j]
      /\ \A j \in DOMAIN down' : j \in DOMAIN down \/ j = Len(down) + 1
  BY <1>1, Pushed1
<1>3. CASE Called
  <2>1. PICK i \in DOMAIN down : CalledBy(i)
    BY <1>3 DEF Called
  <2>2. i \in DOMAIN down' /\ down'[i] = down[i] /\ i < Len(down) + 1
    BY <1>1, <1>2, <2>1
  <2>3. \A j \in DOMAIN down' : (j < i => Prelude(down'[j])) /\ (j > i => TickOf(down'[j], srv.room))
    BY <1>1, <1>2, <2>1, <2>2 DEF CalledBy
  <2>4. CalledBy(i)'
    BY <2>1, <2>2, <2>3 DEF CalledBy
  <2>5. Idle'
    BY <1>3 DEF Called, Idle
  <2>6. QED
    BY <2>2, <2>4, <2>5 DEF Phase, Called
<1>4. CASE Begun
  <2>1. \A j \in DOMAIN down' : TickOf(down'[j], srv.room)
    BY <1>2, <1>4 DEF Begun
  <2>2. QED
    BY <1>4, <2>1 DEF Phase, Begun
<1>5. QED
  BY <1>3, <1>4

(* The client asks for something before it knows of a game. *)
LEMMA PhaseAsked ==
  ASSUME Kinds, Phase, NEW msg \in Requests, msg.kind # "Loaded",
         msg.kind = "Rejoin" => net'.expRejoin,
         net.expRejoin => net'.expRejoin, net.expSpectate => net'.expSpectate,
         up' = Append(up, msg), UNCHANGED <<view, down, srv, games>>,
         net.state \in {"Lobby", "InRoom"}, net'.state \in {"Lobby", "InRoom"},
         net'.rejoin = net.rejoin, net'.bundles = net.bundles
  PROVE  Phase'
<1>1. (Away \/ Called) /\ Idle
  BY DEF Phase, Away, Called, Begun
<1>2. Idle'
  BY <1>1, IdleSays DEF Idle
<1>3. (Attached' <=> Attached) /\ (Waits' <=> Waits)
  BY DEF Attached, Waits
<1>4. CASE Away
  BY <1>2, <1>3, <1>4 DEF Phase, Away
<1>5. CASE Called
  BY <1>2, <1>3, <1>5, CalledStays DEF Phase, Called
<1>6. QED
  BY <1>1, <1>4, <1>5

LEMMA PlayerPhase ==
  ASSUME Kinds, Phase, Player
  PROVE  Phase'
<1>1. NetTypes /\ net.room \in Rooms
  BY DEF Kinds, NetTypes
<1>2. UNCHANGED <<view, down, srv, games>> /\ net.state \in {"Lobby", "InRoom"}
  BY DEF Player, ClickJoin, ClickWatch, ClickCreate, ClickStart, ClickLeave, Click
<1>3. /\ net.expRejoin => net'.expRejoin
      /\ net.expSpectate => net'.expSpectate
      /\ net'.rejoin = net.rejoin /\ net'.bundles = net.bundles
      /\ net'.state \in {"Lobby", "InRoom"}
  BY <1>1, <1>2 DEF NetTypes, Player, ClickJoin, ClickWatch, ClickCreate, ClickStart, ClickLeave
<1>4. PICK msg \in Requests : /\ up' = Append(up, msg)
                              /\ msg.kind \notin {"Loaded", "Rejoin"}
  <2>1. ASSUME NEW r \in Live \cup Theirs, ClickJoin(r)
        PROVE  \E msg \in Requests : up' = Append(up, msg) /\ msg.kind \notin {"Loaded", "Rejoin"}
    <3>1. r \in Games /\ up' = Append(up, [kind |-> "JoinGame", room |-> r])
      BY <2>1 DEF Games, ClickJoin, Click
    <3>2. [kind |-> "JoinGame", room |-> r] \in Requests
      BY <3>1, WireKinds
    <3>3. QED
      BY <3>1, <3>2
  <2>2. ASSUME NEW r \in Live, ClickWatch(r)
        PROVE  \E msg \in Requests : up' = Append(up, msg) /\ msg.kind \notin {"Loaded", "Rejoin"}
    <3>1. r \in Games /\ up' = Append(up, [kind |-> "Spectate", room |-> r])
      BY <2>2 DEF Games, ClickWatch, Click
    <3>2. [kind |-> "Spectate", room |-> r] \in Requests
      BY <3>1, WireKinds
    <3>3. QED
      BY <3>1, <3>2
  <2>3. ASSUME NEW watch \in BOOLEAN, ClickCreate(watch)
        PROVE  \E msg \in Requests : up' = Append(up, msg) /\ msg.kind \notin {"Loaded", "Rejoin"}
    BY <2>3, WireKinds DEF ClickCreate, Click
  <2>4. CASE ClickStart
    BY <1>1, <2>4, WireKinds DEF ClickStart, Click
  <2>5. CASE ClickLeave
    BY <1>1, <2>5, WireKinds DEF ClickLeave, Click
  <2>6. QED
    BY <2>1, <2>2, <2>3, <2>4, <2>5 DEF Player
<1>5. QED
  BY <1>2, <1>3, <1>4, PhaseAsked

LEMMA NothingSaid ==
  ASSUME Kinds
  PROVE  down \o << >> = down
BY ConcatEmptySeq DEF Kinds, WireTypes

(* The server answers: the frames that find the client in no game. *)
LEMMA AnswerPhase ==
  ASSUME Kinds, Phase,
         \/ Ignored \/ ServeRefusal \/ ServeJoin \/ ServeCreate
  PROVE  Phase'
<1>1. ServerTypes /\ up # << >>
  BY DEF Kinds, Ignored, ServeRefusal, ServeJoin, ServeCreate, Request
<1>2. up' = Tail(up) /\ net' = net /\ view' = view
  BY DEF Ignored, ServeRefusal, ServeJoin, ServeCreate, Answer
<1>3. srv.room = NoGame => Away /\ Idle'
  BY <1>1, <1>2, IdleHeard DEF Phase, Away, Called, Begun, Attached
<1>4. CASE Ignored
  BY <1>1, <1>2, <1>4, NothingSaid, PhaseHeard DEF Ignored, Answer
<1>5. CASE ServeRefusal
  <2>1. /\ <<JoinResult(FALSE, FALSE)>> \in Seq(Answers)
        /\ \A j \in 1 .. Len(<<JoinResult(FALSE, FALSE)>>) : Prelude(<<JoinResult(FALSE, FALSE)>>[j])
    <3>1. JoinResult(FALSE, FALSE) \in Answers /\ Prelude(JoinResult(FALSE, FALSE))
      BY WireKinds DEF Prelude, JoinResult
    <3>2. QED
      BY <3>1, Preludes
  <2>2. ~Attached' /\ down' = down \o <<JoinResult(FALSE, FALSE)>> /\ srv.room = NoGame
    BY <1>5 DEF ServeRefusal, Answer, Attached
  <2>3. QED
    BY <1>3, <2>1, <2>2, AwayTold
<1>6. ASSUME NEW r \in Games, NEW b \in BOOLEAN, srv.room = NoGame, srv'.room = r,
             games'[r].phase = "lobby", Answer(<<JoinResult(TRUE, b), LobbyState(r)>>)
      PROVE  Phase'
  <2> DEFINE msgs == <<JoinResult(TRUE, b), LobbyState(r)>>
  <2>1. JoinResult(TRUE, b) \in Answers /\ LobbyState(r) \in Answers
    BY WireKinds
  <2>2. Prelude(JoinResult(TRUE, b)) /\ Prelude(LobbyState(r))
    BY DEF Prelude, JoinResult, LobbyState
  <2>3. msgs \in Seq(Answers) /\ \A j \in 1 .. Len(msgs) : Prelude(msgs[j])
    BY <2>1, <2>2, Preludes
  <2>4. ~Attached' /\ down' = down \o msgs
    BY <1>6 DEF Answer, Attached
  <2> HIDE DEF msgs
  <2>5. QED
    BY <1>3, <1>6, <2>3, <2>4, AwayTold
<1>7. CASE ServeJoin
  <2>1. Head(up).room \in Games
    BY <1>1, <1>7, RequestIs DEF ServeJoin, Request
  <2>2. /\ srv.room = NoGame /\ srv'.room = Head(up).room /\ games'[Head(up).room].phase = "lobby"
        /\ Answer(<<JoinResult(TRUE, TRUE), LobbyState(Head(up).room)>>)
    BY <1>7 DEF ServeJoin, Place
  <2>3. QED
    BY <1>6, <2>1, <2>2
<1>8. CASE ServeCreate
  <2>1. Head(up).watch \in BOOLEAN /\ srv.room = NoGame
    BY <1>1, <1>8, RequestIs DEF ServeCreate, Request
  <2>2. PICK r \in Own :
          /\ games' = [games EXCEPT ![r].phase = "lobby"]
          /\ srv' = Place(r, ~Head(up).watch, srv.loaded, srv.replaying)
          /\ Answer(<<JoinResult(TRUE, ~Head(up).watch), LobbyState(r)>>)
    BY <1>8 DEF ServeCreate
  <2>3. r \in Games /\ srv'.room = r /\ games'[r].phase = "lobby"
    BY <1>1, <2>2 DEF Games, Place, ServerTypes
  <2>4. QED
    BY <1>6, <2>1, <2>2, <2>3
<1>9. QED
  BY <1>4, <1>5, <1>7, <1>8

(* The server answers: the frames that let the client into a game. *)
LEMMA AdmitPhase ==
  ASSUME Kinds, Phase, ServeWatch \/ ServeRejoin
  PROVE  Phase'
<1>1. ServerTypes /\ up # << >> /\ srv.room = NoGame /\ Head(up).room \in Games
  BY RequestIs DEF Kinds, ServeWatch, ServeRejoin, Request
<1>2. up' = Tail(up) /\ net' = net /\ view' = view /\ games' = games
  BY DEF ServeWatch, ServeRejoin, Answer
<1>3. Away /\ Idle /\ Idle'
  BY <1>1, <1>2, IdleHeard DEF Phase, Away, Called, Begun, Attached
<1>4. games[Head(up).room].log \in Nat /\ token[Head(up).room] + 1 \in Nat
  BY <1>1 DEF ServerTypes
<1>5. CASE ServeWatch
  <2> DEFINE f == GameStarting(Head(up).room, FALSE, 0, games[Head(up).room].log)
  <2>1. f \in Answers /\ f.kind = "GameStarting" /\ f.room = Head(up).room /\ ~f.seat
    BY <1>1, <1>4, WireKinds DEF GameStarting
  <2>2. down' = down \o <<f>> /\ srv'.room = Head(up).room /\ games[Head(up).room].phase = "running"
    BY <1>5 DEF ServeWatch, Answer, Place
  <2>3. Attached'
    BY <1>1, <1>2, <2>2 DEF Attached
  <2> HIDE DEF f
  <2>4. QED
    BY <1>3, <2>1, <2>2, <2>3, AwayCalled
<1>6. CASE ServeRejoin
  <2> DEFINE f == GameStarting(Head(up).room, TRUE, token[Head(up).room] + 1, games[Head(up).room].log)
  <2>1. f \in Answers /\ f.kind = "GameStarting" /\ f.room = Head(up).room
    BY <1>1, <1>4, WireKinds DEF GameStarting
  <2>2. down' = down \o <<f>> /\ srv'.room = Head(up).room /\ held = Head(up).room
        /\ Head(up).kind = "Rejoin"
    BY <1>6 DEF ServeRejoin, Answer, Place, Request
  <2>3. Attached'
    BY <1>1, <1>2, <2>2 DEF Attached, ServerTypes
  <2>4. net'.expRejoin
    BY <1>1, <1>2, <1>3, <2>2, RequestIs DEF Idle
  <2> HIDE DEF f
  <2>5. QED
    BY <1>3, <2>1, <2>2, <2>3, <2>4, AwayCalled
<1>7. QED
  BY <1>5, <1>6

(* The room the client is in starts. *)
LEMMA StartedPhase ==
  ASSUME Kinds, Phase, NEW r \in Games, srv.room = r, games[r].phase = "lobby", Started(r),
         down' = down \o <<StartFrame(r)>>, Idle => Idle', UNCHANGED net
  PROVE  Phase'
<1>1. Away /\ Idle'
  BY DEF Phase, Away, Called, Begun, Attached
<1>2. /\ StartFrame(r) \in Answers /\ StartFrame(r).kind = "GameStarting"
      /\ StartFrame(r).room = r /\ StartFrame(r).seat = srv.seat
  BY StartedTypes DEF StartFrame, GameStarting
<1>3. games'[r].phase = "running" /\ games'[r].log = 0
  BY StartedTypes
<1>4. srv' = [srv EXCEPT !.loaded = ~srv.seat]
  BY DEF Started
<1>5. srv'.room = r /\ srv'.seat = srv.seat /\ srv'.loaded = ~srv.seat
  BY <1>4 DEF Kinds, ServerTypes
<1>6. Attached' /\ (srv.seat => Waits')
  BY <1>3, <1>5 DEF Attached, Waits
<1>7. QED
  BY <1>1, <1>2, <1>5, <1>6, AwayCalled

(* The server reads what the client in a room says. *)
LEMMA RoomPhase ==
  ASSUME Kinds, Phase, ServeStart \/ ServeLoaded \/ ServeLeave
  PROVE  crossed' \/ Phase'
<1>1. /\ ServerTypes /\ up # << >> /\ srv.room # NoGame
      /\ 1 \in DOMAIN up /\ Head(up) = up[1]
  BY RequestIs DEF Kinds, ServeStart, ServeLoaded, ServeLeave, Request
<1>2. up' = Tail(up) /\ net' = net /\ view' = view
  BY DEF ServeStart, ServeLoaded, ServeLeave, Answer
<1>3. CASE ServeStart /\ Hosts
  <2>1. srv.room \in Games /\ games[srv.room].phase = "lobby"
    BY <1>3 DEF Hosts, Games
  <2>2. Started(srv.room) /\ down' = down \o <<StartFrame(srv.room)>>
    BY <1>3 DEF ServeStart, Answer
  <2>3. Idle => Idle'
    BY <1>1, <1>2, IdleHeard
  <2>4. QED
    BY <1>2, <2>1, <2>2, <2>3, StartedPhase
<1>4. CASE ServeStart /\ ~Hosts
  <2>1. UNCHANGED <<srv, games>> /\ down' = down \o << >>
    BY <1>4 DEF ServeStart, Answer
  <2>2. QED
    BY <1>1, <1>2, <2>1, NothingSaid, PhaseHeard
<1>5. CASE ServeLoaded
  <2>1. Begun /\ view.setup
    BY <1>1, <1>5 DEF ServeLoaded, Request, Phase, Away, Called, Begun, Idle
  <2>2. srv'.room = srv.room /\ games' = games /\ down' = down
    BY <1>1, <1>5, NothingSaid DEF ServeLoaded, Answer, ServerTypes
  <2>3. QED
    BY <1>2, <2>1, <2>2 DEF Phase, Begun, Attached
<1>6. CASE ServeLeave
  <2>1. /\ srv'.room = NoGame /\ down' = down
        /\ crossed' = (crossed \/ games[srv.room].phase = "running")
    BY <1>1, <1>6 DEF ServeLeave, ServerTypes
  <2>2. CASE Attached
    BY <2>1, <2>2 DEF Attached
  <2>3. CASE ~Attached
    <3>1. Away
      BY <2>3 DEF Phase, Called, Begun
    <3>2. Idle' /\ ~Attached'
      BY <1>1, <1>2, <2>1, <3>1, IdleHeard DEF Away, Attached
    <3>3. QED
      BY <2>1, <3>1, <3>2 DEF Phase, Away
  <2>4. QED
    BY <2>2, <2>3
<1>7. QED
  BY <1>3, <1>4, <1>5, <1>6

LEMMA ServerOwnPhase ==
  ASSUME Kinds, Phase,
         \/ OthersEdit \/ PumpReplay \/ GraceEnds
         \/ \E r \in Theirs : OthersStart(r)
         \/ \E r \in Games : NextTick(r)
  PROVE  Phase'
<1>1. ServerTypes
  BY DEF Kinds
<1>2. UNCHANGED <<net, view, up>> /\ (Idle => Idle')
  <2>1. UNCHANGED <<net, view, up>>
    BY DEF OthersEdit, PumpReplay, GraceEnds, OthersStart, NextTick, Send
  <2>2. QED
    BY <2>1 DEF Idle
<1>3. CASE OthersEdit
  <2>1. /\ srv.room \in Games /\ games[srv.room].phase = "lobby"
        /\ down' = down \o <<LobbyState(srv.room)>> /\ UNCHANGED <<srv, games>>
    BY <1>1, <1>3 DEF OthersEdit, Send, ServerTypes, Rooms
  <2>2. Away /\ ~Attached'
    BY <2>1 DEF Phase, Called, Begun, Attached
  <2>3. /\ <<LobbyState(srv.room)>> \in Seq(Answers)
        /\ \A j \in 1 .. Len(<<LobbyState(srv.room)>>) : Prelude(<<LobbyState(srv.room)>>[j])
    <3>1. LobbyState(srv.room) \in Answers /\ Prelude(LobbyState(srv.room))
      BY <2>1, WireKinds DEF Prelude, LobbyState
    <3>2. QED
      BY <3>1, Preludes
  <2>4. QED
    BY <1>2, <2>1, <2>2, <2>3, AwayTold DEF Away
<1>4. CASE PumpReplay /\ (srv.room = NoGame \/ srv.pos >= games[srv.room].log)
  <2>1. /\ srv' = [srv EXCEPT !.replaying = FALSE] /\ games' = games /\ down' = down
    BY <1>4, NothingSaid DEF PumpReplay, Send
  <2>2. srv'.room = srv.room /\ srv'.seat = srv.seat /\ srv'.loaded = srv.loaded
    BY <1>1, <2>1 DEF ServerTypes
  <2>3. QED
    BY <1>2, <2>1, <2>2, PhaseStays DEF Attached, Waits
<1>5. CASE PumpReplay /\ ~ (srv.room = NoGame \/ srv.pos >= games[srv.room].log)
  <2> DEFINE f == [kind |-> "TickBundle", room |-> srv.room, tick |-> srv.pos]
  <2>1. /\ srv' = [srv EXCEPT !.pos = @ + 1, !.replaying = srv.pos + 1 < games[srv.room].log]
        /\ down' = down \o <<f>> /\ games' = games
    BY <1>5 DEF PumpReplay, Send
  <2>2. /\ srv.room \in Games /\ srv.pos \in Nat /\ srv.pos < games[srv.room].log
        /\ games[srv.room].log \in 0 .. MaxLog
    BY <1>1, <1>5 DEF ServerTypes, Rooms
  <2>3. games[srv.room].phase = "running" /\ srv.pos \in 0 .. MaxLog /\ games[srv.room].log # 0
    BY <1>1, <2>2 DEF ServerTypes
  <2>4. f \in Answers /\ TickOf(f, srv.room)
    BY <2>2, <2>3, WireKinds DEF TickOf
  <2>5. srv'.room = srv.room
    BY <1>1, <2>1 DEF ServerTypes
  <2>6. Attached /\ Attached' /\ ~Waits
    BY <1>5, <2>1, <2>3, <2>5 DEF Attached, Waits
  <2>7. Called \/ Begun
    BY <2>6 DEF Phase, Away
  <2> HIDE DEF f
  <2>8. QED
    BY <1>2, <2>1, <2>4, <2>5, <2>6, <2>7, PhaseTick
<1>6. CASE GraceEnds
  BY <1>6, PhaseStays DEF GraceEnds, Attached, Waits
<1>7. ASSUME NEW r \in Theirs, OthersStart(r) PROVE Phase'
  <2>1. /\ r \in Games /\ games[r].phase = "lobby" /\ Started(r)
        /\ down' = down \o (IF srv.room = r THEN <<StartFrame(r)>> ELSE << >>)
    BY <1>7 DEF Games, OthersStart, Send
  <2>2. CASE srv.room = r
    <3>1. down' = down \o <<StartFrame(r)>>
      BY <2>1, <2>2
    <3>2. QED
      BY <1>2, <2>1, <2>2, <3>1, StartedPhase
  <2>3. CASE srv.room # r
    <3>1. srv' = srv /\ down' = down
      BY <2>1, <2>3, NothingSaid DEF Started
    <3>2. srv.room # NoGame => srv.room \in Games /\ games'[srv.room] = games[srv.room]
      BY <1>1, <2>1, <2>3, StartedTypes DEF ServerTypes, Rooms
    <3>3. (Attached' <=> Attached) /\ (Attached /\ Waits => Waits')
      BY <3>1, <3>2 DEF Attached, Waits
    <3>4. QED
      BY <1>2, <3>1, <3>3, PhaseStays
  <2>4. QED
    BY <2>2, <2>3
<1>8. ASSUME NEW r \in Games, NextTick(r) PROVE Phase'
  <2> DEFINE f == [kind |-> "TickBundle", room |-> r, tick |-> games[r].log]
  <2>1. /\ games[r].phase = "running" /\ games[r].log \in 0 .. MaxLog /\ srv' = srv
        /\ games' = [games EXCEPT ![r].log = @ + 1]
        /\ games[r].log = 0 /\ srv.room = r /\ srv.seat => srv.loaded
        /\ down' = down \o (IF srv.room = r /\ ~srv.replaying THEN <<f>> ELSE << >>)
    BY <1>1, <1>8 DEF NextTick, Send, ServerTypes
  <2>2. \A i \in Games : games'[i].phase = games[i].phase /\ (i # r => games'[i] = games[i])
    BY <1>1, <2>1 DEF ServerTypes
  <2>3. srv.room # NoGame => srv.room \in Games
    BY <1>1 DEF ServerTypes, Rooms
  <2>4. (Attached' <=> Attached) /\ (srv.room = r => Attached /\ ~Waits)
    BY <2>1, <2>2, <2>3 DEF Attached, Waits
  <2>5. CASE srv.room = r /\ ~srv.replaying
    <3>1. down' = down \o <<f>>
      BY <2>1, <2>5
    <3>2. f \in Answers /\ TickOf(f, srv.room)
      BY <2>1, <2>5, WireKinds DEF TickOf
    <3>3. Called \/ Begun
      BY <2>4, <2>5 DEF Phase, Away
    <3> HIDE DEF f
    <3>4. QED
      BY <1>2, <2>1, <2>4, <2>5, <3>1, <3>2, <3>3, PhaseTick
  <2>6. CASE ~ (srv.room = r /\ ~srv.replaying)
    <3>1. down' = down
      BY <2>1, <2>6, NothingSaid
    <3>2. Attached /\ Waits => Waits'
      BY <2>1, <2>2, <2>3, <2>4 DEF Attached, Waits
    <3>3. QED
      BY <1>2, <2>1, <2>4, <3>1, <3>2, PhaseStays
  <2>7. QED
    BY <2>5, <2>6
<1>9. QED
  BY <1>3, <1>4, <1>5, <1>6, <1>7, <1>8

(* The client hears what precedes a start. *)
LEMMA PreludeHeard ==
  ASSUME Kinds, Phase, down # << >>, Prelude(Head(down)), down' = Tail(down),
         UNCHANGED <<view, up, srv, games>>,
         net.state \in {"Lobby", "InRoom"} => net'.state \in {"Lobby", "InRoom"},
         net'.bundles = net.bundles, net'.rejoin = net.rejoin,
         net.expRejoin => net'.expRejoin, net.expSpectate => net'.expSpectate
  PROVE  Phase'
<1>1. /\ 1 \in DOMAIN down /\ Head(down) = down[1] /\ Len(down) \in Nat \ {0}
      /\ DOMAIN down = 1 .. Len(down) /\ DOMAIN down' = 1 .. (Len(down) - 1)
      /\ Len(down') = Len(down) - 1
      /\ \A j \in DOMAIN down' : j + 1 \in DOMAIN down /\ down'[j] = down[j + 1]
  BY WireIs, Popped
<1>2. (Attached' <=> Attached) /\ (Waits' <=> Waits) /\ (Idle => Idle')
  BY DEF Attached, Waits, Idle
<1>3. ~Begun
  BY <1>1 DEF Begun, TickOf, Prelude
<1>4. CASE Away
  BY <1>1, <1>2, <1>4 DEF Phase, Away
<1>5. CASE Called
  <2>1. PICK i \in DOMAIN down : CalledBy(i)
    BY <1>5 DEF Called
  <2>2. i # 1
    BY <1>1, <2>1 DEF CalledBy, Prelude
  <2>3. PICK k \in Nat : k = i - 1 /\ k \in DOMAIN down' /\ i = k + 1
    BY <1>1, <2>1, <2>2
  <2>4. down'[k].kind = "GameStarting" /\ down'[k].room = srv'.room
    BY <1>1, <2>1, <2>3 DEF CalledBy
  <2>5. \A j \in DOMAIN down' : (j < k => Prelude(down'[j])) /\ (j > k => TickOf(down'[j], srv'.room))
    BY <1>1, <2>1, <2>3 DEF CalledBy
  <2>6. down'[k].seat /\ ~net'.expRejoin /\ ~net'.expSpectate => Waits' /\ k = Len(down')
    BY <1>1, <1>2, <2>1, <2>3 DEF CalledBy
  <2>7. CalledBy(k)'
    BY <2>4, <2>5, <2>6 DEF CalledBy
  <2>8. QED
    BY <1>2, <1>5, <2>3, <2>7 DEF Phase, Called
<1>6. QED
  BY <1>3, <1>4, <1>5 DEF Phase

LEMMA HeardPhase ==
  ASSUME Kinds, Phase, OnJoinResult \/ OnLobbyState \/ OnGameStarting \/ OnTickBundle
  PROVE  Phase'
<1>1. NetTypes /\ ViewTypes /\ down # << >>
  BY DEF Kinds, OnJoinResult, OnLobbyState, OnGameStarting, OnTickBundle, Received
<1>2. down' = Tail(down) /\ UNCHANGED <<view, up, srv, games>>
  BY DEF OnJoinResult, OnLobbyState, OnGameStarting, OnTickBundle, Handled
<1>3. /\ 1 \in DOMAIN down /\ Head(down) = down[1] /\ Len(down) \in Nat \ {0}
      /\ DOMAIN down = 1 .. Len(down) /\ DOMAIN down' = 1 .. (Len(down) - 1)
      /\ \A j \in DOMAIN down' : j + 1 \in DOMAIN down /\ down'[j] = down[j + 1]
  BY <1>1, <1>2, WireIs, Popped
<1>4. (Attached' <=> Attached) /\ (Waits' <=> Waits)
  BY <1>2 DEF Attached, Waits
<1>5. CASE OnJoinResult
  <2>1. /\ Prelude(Head(down))
        /\ net.state \in {"Lobby", "InRoom"} => net'.state \in {"Lobby", "InRoom"}
        /\ net'.bundles = net.bundles /\ net'.rejoin = net.rejoin
        /\ net.expRejoin => net'.expRejoin
        /\ net.expSpectate => net'.expSpectate
    BY <1>1, <1>5 DEF OnJoinResult, Received, Prelude, NetTypes
  <2>2. QED
    BY <1>1, <1>2, <2>1, PreludeHeard
<1>6. CASE OnLobbyState
  <2>1. /\ Prelude(Head(down))
        /\ net.state \in {"Lobby", "InRoom"} => net'.state \in {"Lobby", "InRoom"}
        /\ net'.bundles = net.bundles /\ net'.rejoin = net.rejoin
        /\ net.expRejoin => net'.expRejoin
        /\ net.expSpectate => net'.expSpectate
    BY <1>1, <1>6 DEF OnLobbyState, Received, Prelude, NetTypes
  <2>2. QED
    BY <1>1, <1>2, <2>1, PreludeHeard
<1>7. CASE OnGameStarting
  <2>1. Head(down).kind = "GameStarting"
    BY <1>7 DEF OnGameStarting, Received
  <2>2. Called
    BY <1>3, <2>1 DEF Phase, Away, Begun, Prelude, TickOf
  <2>3. PICK i \in DOMAIN down : CalledBy(i)
    BY <2>2 DEF Called
  <2>4. i = 1
    <3>1. ~ (1 < i)
      BY <1>3, <2>1, <2>3 DEF CalledBy, Prelude
    <3>2. QED
      BY <1>3, <2>3, <3>1
  <2>5. /\ Head(down).room = srv.room
        /\ \A j \in DOMAIN down' : TickOf(down'[j], srv.room)
    <3>1. \A j \in DOMAIN down' : j + 1 > 1
      BY <1>3
    <3>2. QED
      BY <1>3, <2>3, <2>4, <3>1 DEF CalledBy
  <2>6. Attached' /\ Idle /\ net.bundles = {} /\ view' = FreshView /\ srv' = srv
    BY <1>2, <1>4, <2>2 DEF Called, Idle
  <2>7. /\ net'.state = "Starting" /\ net'.room = srv.room /\ net'.bundles = {}
        /\ net'.rejoin = (net.expRejoin \/ net.expSpectate \/ (net.expSpectate \/ ~Head(down).seat))
    BY <1>1, <1>7, <2>5, <2>6 DEF OnGameStarting, NetTypes
  <2>8. ~net'.rejoin => down' = << >> /\ Waits'
    <3>1. ~net'.rejoin => Waits /\ Len(down) = 1
      BY <1>3, <2>3, <2>4, <2>7 DEF CalledBy
    <3>2. Len(down) = 1 => down' = << >>
      BY <1>1, <1>2, WireIs, Popped, EmptySeq
    <3>3. QED
      BY <1>4, <3>1, <3>2
  <2>9. \A j \in DOMAIN up' : up'[j].kind # "Loaded"
    BY <1>2, <2>6 DEF Idle
  <2>10. QED
    BY <2>5, <2>6, <2>7, <2>8, <2>9, FreshIs DEF Phase, Begun
<1>8. CASE OnTickBundle
  <2>1. Head(down).kind = "TickBundle"
    BY <1>8 DEF OnTickBundle, Received
  <2>2. Begun
    <3>1. ~Away
      BY <1>3, <2>1 DEF Away, Prelude
    <3>2. ASSUME Called PROVE FALSE
      <4>1. PICK i \in DOMAIN down : CalledBy(i)
        BY <3>2 DEF Called
      <4>2. i = 1 \/ 1 < i
        BY <1>3, <4>1
      <4>3. QED
        BY <1>3, <2>1, <4>1, <4>2 DEF CalledBy, Prelude
    <3>3. QED
      BY <3>1, <3>2 DEF Phase
  <2>3. Head(down).room = srv.room
    BY <1>3, <2>2 DEF Begun, TickOf
  <2>4. view.setup \/ net.rejoin
    BY <1>1, <2>2 DEF Begun
  <2> DEFINE more == {b \in net.bundles : b.tick # Head(down).tick}
                       \cup {[room |-> Head(down).room, tick |-> Head(down).tick]}
  <2>5. net' = [net EXCEPT !.bundles = more, !.state = IF @ = "Starting" THEN "InGame" ELSE @]
    BY <1>8 DEF OnTickBundle
  <2>6. \A b \in more : b.room = srv.room
    BY <2>2, <2>3 DEF Begun
  <2> HIDE DEF more
  <2>7. /\ net'.bundles = more /\ net'.room = net.room /\ net'.rejoin = net.rejoin
        /\ net'.state \in {"Starting", "InGame"}
    BY <1>1, <2>2, <2>5 DEF Begun, NetTypes
  <2>8. \A j \in DOMAIN down' : TickOf(down'[j], srv.room)
    BY <1>3, <2>2 DEF Begun
  <2>9. QED
    BY <1>2, <1>4, <2>2, <2>4, <2>6, <2>7, <2>8 DEF Phase, Begun
<1>9. QED
  BY <1>5, <1>6, <1>7, <1>8

(* A frame of the view. *)
LEMMA ViewPhase ==
  ASSUME Kinds, Phase,
         \/ AskRejoin \/ SetupFresh
         \/ \E n \in 0 .. MaxLog : SetupReplay(n) \/ PlayBundles(n)
  PROVE  Phase'
<1>1. NetTypes /\ ViewTypes /\ UNCHANGED <<down, srv, games>> /\ (Attached' <=> Attached) /\ (Waits' <=> Waits)
  BY DEF Kinds, AskRejoin, SetupFresh, SetupReplay, PlayBundles, StepRest, Attached, Waits
<1>2. CASE AskRejoin
  <2>1. ticket.room \in Games /\ ticket.token \in Nat
    BY <1>2 DEF AskRejoin, Kinds, WireTypes, Rooms
  <2> DEFINE msg == [kind |-> "Rejoin", room |-> ticket.room, token |-> ticket.token]
  <2>2. msg \in Requests /\ msg.kind = "Rejoin"
    BY <2>1, WireKinds
  <2>3. up' = Append(up, msg) /\ view' = view /\ net.state = "Lobby"
    BY <1>2 DEF AskRejoin, InLobby5
  <2>4. /\ net'.expRejoin
        /\ net.expSpectate => net'.expSpectate
        /\ net'.state = net.state /\ net'.rejoin = net.rejoin /\ net'.bundles = net.bundles
    BY <1>1, <1>2 DEF AskRejoin, NetTypes
  <2> HIDE DEF msg
  <2>5. QED
    BY <1>1, <2>2, <2>3, <2>4, PhaseAsked
<1>3. CASE SetupFresh
  <2>1. Begun
    BY <1>3 DEF SetupFresh, Phase, Away, Called, Idle
  <2>2. /\ view'.setup /\ view'.world = net.room /\ view'.played = {} /\ net' = net
    BY <1>3, NewWorldIs DEF SetupFresh
  <2>3. QED
    BY <1>1, <2>1, <2>2 DEF Phase, Begun
<1>4. ASSUME NEW n \in 0 .. MaxLog, SetupReplay(n) PROVE Phase'
  <2>1. Begun /\ net.hist \in Nat /\ n \in Nat
    BY <1>1, <1>4 DEF SetupReplay, MustReplay, Phase, Away, Called, Idle, NetTypes
  <2> DEFINE v == ReplayWorld
  <2>2. /\ v \in Views /\ v.setup /\ v.world = net.room /\ v.tick = 0
        /\ v.end = net.hist /\ (v.catchUp <=> net.hist > 0) /\ v.played = {}
    BY ReplayWorldIs
  <2>3. Play(v, n)
    BY <1>4 DEF SetupReplay, ReplayWorld
  <2> HIDE DEF v
  <2>4. /\ view'.setup /\ view'.world = net.room
        /\ \A r \in view'.played : \E b \in net.bundles : b.room = r
        /\ net'.bundles \subseteq net.bundles /\ net'.state = net.state /\ net'.room = net.room
    BY <2>1, <2>2, <2>3, PlayIs
  <2>5. QED
    BY <1>1, <2>1, <2>4 DEF Phase, Begun
<1>5. ASSUME NEW n \in 0 .. MaxLog, PlayBundles(n) PROVE Phase'
  <2>1. Begun /\ view.setup /\ view \in Views /\ n \in Nat
    BY <1>1, <1>5 DEF PlayBundles, MustReplay, Phase, Away, Called, Begun, Idle, ViewTypes
  <2>2. Play(view, n)
    BY <1>5 DEF PlayBundles
  <2>3. /\ view'.setup /\ view'.world = view.world
        /\ \A r \in view'.played : r \in view.played \/ \E b \in net.bundles : b.room = r
        /\ net'.bundles \subseteq net.bundles /\ net'.state = net.state /\ net'.room = net.room
    BY <2>1, <2>2, PlayIs
  <2>4. QED
    BY <1>1, <2>1, <2>3 DEF Phase, Begun
<1>6. QED
  BY <1>2, <1>3, <1>4, <1>5

LEMMA CutOffPhase ==
  ASSUME NEW next \in {"browse", "rejoin"}, CutOff(next)
  PROVE  Phase'
BY FreshIs DEF CutOff, Phase, Away, Attached, Idle, Nowhere

LEMMA PhaseStep ==
  ASSUME Kinds, crossed \/ Phase, [SessionNext]_sessionVars
  PROVE  crossed' \/ Phase'
<1>1. CASE crossed
  <2>1. CASE \E next \in {"browse", "rejoin"} : CutOff(next)
    BY <2>1, CutOffPhase
  <2>2. CASE ServeLeave
    BY <1>1, <2>2 DEF ServeLeave
  <2>3. CASE Player
    BY <1>1, <2>3 DEF Player, ClickJoin, ClickWatch, ClickCreate, ClickStart, ClickLeave, Click
  <2>4. CASE Server /\ ~ServeLeave
    BY <1>1, <2>4 DEF Server, Ignored, ServeRefusal, ServeJoin, ServeCreate, ServeWatch,
         ServeRejoin, ServeStart, ServeLoaded, OthersEdit, PumpReplay, GraceEnds, OthersStart,
         NextTick, Answer, Send
  <2>5. CASE Client
    BY <1>1, <2>5 DEF Client, OnJoinResult, OnLobbyState, OnGameStarting, OnTickBundle, Handled,
         AskRejoin, SetupFresh, SetupReplay, PlayBundles, StepRest
  <2>6. CASE UNCHANGED sessionVars
    BY <1>1, <2>6
  <2>7. QED
    BY <2>1, <2>2, <2>3, <2>4, <2>5, <2>6 DEF SessionNext
<1>2. CASE Phase
  <2>1. CASE Player
    BY <1>2, <2>1, PlayerPhase
  <2>2. CASE Server
    BY <1>2, <2>2, AnswerPhase, AdmitPhase, RoomPhase, ServerOwnPhase DEF Server
  <2>3. CASE Client
    BY <1>2, <2>3, HeardPhase, ViewPhase DEF Client
  <2>4. CASE \E next \in {"browse", "rejoin"} : CutOff(next)
    BY <2>4, CutOffPhase
  <2>5. CASE UNCHANGED sessionVars
    BY <1>2, <2>5, PhaseStays DEF Attached, Waits
  <2>6. QED
    BY <2>1, <2>2, <2>3, <2>4, <2>5 DEF SessionNext
<1>3. QED
  BY <1>1, <1>2

LEMMA InitPhase == SessionInit => Gated /\ Phase
<1> SUFFICES ASSUME SessionInit PROVE Gated /\ Phase
  OBVIOUS
<1>1. Gated
  BY FreshIs DEF SessionInit, Gated
<1>2. Phase
  BY FreshIs DEF SessionInit, Phase, Away, Attached, Idle, Nowhere
<1>3. QED
  BY <1>1, <1>2

(* What the client, the server and the wire know of one another, in every   *)
(* reachable state (MpClient, Server::lobbyMsg and gameMsg, mpAutoStep).     *)
THEOREM SessionInvariant == SessionSpec => []SessionInv
<1>1. SessionInit => SessionInv
  BY InitTypes, InitPhase DEF SessionInv
<1>2. SessionInv /\ [SessionNext]_sessionVars => SessionInv'
  BY TypesStep, GateStep, PhaseStep DEF SessionInv
<1>3. QED
  BY <1>1, <1>2, PTL DEF SessionSpec

(* The world on the screen is that of the game whose ticks are played, for  *)
(* every client whose LEAVE crossed no start; orders are held until history *)
(* is played, for every client (startMpGame, mpStep, mpAutoStep).           *)
THEOREM WorldIsItsGame == SessionSpec => []WorldFollowsItsGame
<1>1. ASSUME SessionInv PROVE WorldFollowsItsGame
  <2>1. SessionTypes
    BY <1>1 DEF SessionInv, Kinds, NetTypes, ViewTypes, Views, ServerTypes, WireTypes, Rooms,
         SessionTypes, FreshNet, FreshView
  <2>2. view.setup /\ ~view.catchUp => view.tick >= view.end
    BY <1>1 DEF SessionInv, Gated
  <2>3. ASSUME ~crossed PROVE (view.tick > 0 => view.setup) /\ view.played \subseteq {view.world}
    <3>1. Phase
      BY <1>1, <2>3 DEF SessionInv
    <3>2. CASE Idle
      BY <3>2, FreshIs DEF Idle
    <3>3. CASE Begun
      BY <1>1, <3>3 DEF Begun, SessionInv, Kinds, ViewTypes, Views
    <3>4. QED
      BY <3>1, <3>2, <3>3 DEF Phase, Away, Called
  <2>4. QED
    BY <2>1, <2>2, <2>3 DEF WorldFollowsItsGame
<1>2. QED
  BY <1>1, SessionInvariant, PTL

-----------------------------------------------------------------------------
(* The frames *)

HIDE SessionAssumption DEF sessionVars, svars, cvars

Bits == [frame : Nat, part : Nat, size : Nat]
Wire == Unread \o (socket \o Unsent)

FramedTypes ==
  /\ frames \in Seq(Nat) /\ delivered \in Seq(Nat)
  /\ txBuf \in Seq(Bits) /\ socket \in Seq(Bits) /\ rxBuf \in Seq(Bits)
  /\ txOff \in 0..Len(txBuf) /\ rxOff \in 0..Len(rxBuf)

(* A piece has all the others of its frame around it, in their places. *)
InPlace(s) ==
  \A i \in 1..Len(s) :
    /\ s[i].part \in 1..s[i].size
    /\ s[i].part <= i /\ i - s[i].part + s[i].size <= Len(s)
    /\ \A k \in 1..s[i].size : s[i - s[i].part + k] = Piece(s[i].frame, k, s[i].size)

Rising(s) == \A i, j \in 1..Len(s) : i <= j => s[i].frame <= s[j].frame

OnceEach(s) ==
  \A i, j \in 1..Len(s) : s[i].frame = s[j].frame /\ s[i].part = s[j].part => i = j

(* The frames from lo to hi, whole, in order, once. *)
Carries(s, lo, hi) ==
  /\ InPlace(s) /\ Rising(s) /\ OnceEach(s)
  /\ \A i \in 1..Len(s) : s[i].frame \in lo..hi
  /\ \A f \in lo..hi : \E i \in 1..Len(s) : s[i].frame = f

FramedInv ==
  /\ FramedTypes
  /\ Len(delivered) <= Len(frames)
  /\ \A i \in 1..Len(frames) : frames[i] = i
  /\ Carries(Wire, Len(delivered) + 1, Len(frames))

-----------------------------------------------------------------------------
(* Sequences that are cut and put together. *)

LEMMA CutProperties ==
  ASSUME NEW S, NEW s \in Seq(S), NEW n \in 0..Len(s)
  PROVE  LET rest == SubSeq(s, n + 1, Len(s))
             head == SubSeq(s, 1, n)
         IN /\ rest \in Seq(S) /\ Len(rest) = Len(s) - n
            /\ \A i \in 1..(Len(s) - n) : rest[i] = s[n + i]
            /\ head \in Seq(S) /\ Len(head) = n /\ \A i \in 1..n : head[i] = s[i]
<1>1. Len(s) \in Nat /\ \A i \in 1..Len(s) : s[i] \in S
  BY LenProperties, ElementOfSeq
<1> DEFINE rest == SubSeq(s, n + 1, Len(s))
           head == SubSeq(s, 1, n)
<1>2. /\ rest \in Seq(S) /\ Len(rest) = IF n + 1 <= Len(s) THEN Len(s) - (n + 1) + 1 ELSE 0
      /\ \A i \in 1..(Len(s) - (n + 1) + 1) : rest[i] = s[n + 1 + i - 1]
  <2>1. n + 1 \in Int /\ Len(s) \in Int /\ \A i \in (n + 1)..Len(s) : s[i] \in S
    BY <1>1
  <2> QED
    BY <2>1, SubSeqProperties
<1>3. /\ head \in Seq(S) /\ Len(head) = IF 1 <= n THEN n - 1 + 1 ELSE 0
      /\ \A i \in 1..(n - 1 + 1) : head[i] = s[1 + i - 1]
  <2>1. n \in Int /\ 1 \in Int /\ \A i \in 1..n : s[i] \in S
    BY <1>1
  <2> QED
    BY <2>1, SubSeqProperties
<1>4. \A i \in 1..(Len(s) - n) : rest[i] = s[n + i]
  BY <1>1, <1>2
<1>5. \A i \in 1..n : head[i] = s[i]
  BY <1>3
<1> QED
  BY <1>1, <1>2, <1>3, <1>4, <1>5

LEMMA CutTwice ==
  ASSUME NEW S, NEW s \in Seq(S), NEW m \in Nat, NEW n \in Nat, m + n <= Len(s)
  PROVE  LET rest == SubSeq(s, m + 1, Len(s))
         IN /\ SubSeq(rest, n + 1, Len(rest)) = SubSeq(s, m + n + 1, Len(s))
            /\ SubSeq(rest, 1, n) = SubSeq(s, m + 1, m + n)
<1> DEFINE rest == SubSeq(s, m + 1, Len(s))
           far == SubSeq(s, m + n + 1, Len(s))
           near == SubSeq(s, m + 1, m + n)
<1>1. Len(s) \in Nat /\ \A i \in 1..Len(s) : s[i] \in S
  BY LenProperties, ElementOfSeq
<1>2. /\ rest \in Seq(S) /\ Len(rest) = Len(s) - m
      /\ \A i \in 1..(Len(s) - m) : rest[i] = s[m + i]
  BY <1>1, CutProperties
<1>3. /\ far \in Seq(S) /\ Len(far) = Len(s) - (m + n)
      /\ \A i \in 1..(Len(s) - (m + n)) : far[i] = s[m + n + i]
  <2>1. m + n \in 0..Len(s)
    BY <1>1
  <2> QED
    BY <2>1, CutProperties
<1>4. /\ near \in Seq(S) /\ Len(near) = n /\ \A i \in 1..n : near[i] = s[m + i]
  <2>1. m + 1 \in Int /\ m + n \in Int /\ \A i \in (m + 1)..(m + n) : s[i] \in S
    BY <1>1
  <2>2. /\ near \in Seq(S) /\ Len(near) = IF m + 1 <= m + n THEN m + n - (m + 1) + 1 ELSE 0
        /\ \A i \in 1..(m + n - (m + 1) + 1) : near[i] = s[m + 1 + i - 1]
    BY <2>1, SubSeqProperties
  <2> QED
    BY <2>2
<1> HIDE DEF rest, far, near
<1>5. n \in 0..Len(rest)
  BY <1>1, <1>2
<1>6. /\ SubSeq(rest, n + 1, Len(rest)) \in Seq(S)
      /\ Len(SubSeq(rest, n + 1, Len(rest))) = Len(rest) - n
      /\ \A i \in 1..(Len(rest) - n) : SubSeq(rest, n + 1, Len(rest))[i] = rest[n + i]
      /\ SubSeq(rest, 1, n) \in Seq(S) /\ Len(SubSeq(rest, 1, n)) = n
      /\ \A i \in 1..n : SubSeq(rest, 1, n)[i] = rest[i]
  BY <1>2, <1>5, CutProperties
<1>7. SubSeq(rest, n + 1, Len(rest)) = far
  <2>1. Len(SubSeq(rest, n + 1, Len(rest))) = Len(far)
    BY <1>1, <1>2, <1>3, <1>6
  <2>2. \A i \in 1..Len(far) : SubSeq(rest, n + 1, Len(rest))[i] = far[i]
    <3> SUFFICES ASSUME NEW i \in 1..Len(far) PROVE SubSeq(rest, n + 1, Len(rest))[i] = far[i]
      OBVIOUS
    <3>1. i \in 1..(Len(rest) - n) /\ n + i \in 1..(Len(s) - m) /\ i \in 1..(Len(s) - (m + n))
      BY <1>1, <1>2, <1>3
    <3>2. rest[n + i] = s[m + (n + i)] /\ far[i] = s[m + n + i] /\ m + (n + i) = m + n + i
      BY <1>2, <1>3, <3>1
    <3> QED
      BY <1>6, <3>1, <3>2
  <2> QED
    BY <1>3, <1>6, <2>1, <2>2, SeqEqual
<1>8. SubSeq(rest, 1, n) = near
  <2>1. \A i \in 1..n : i \in 1..(Len(s) - m)
    BY <1>1
  <2>2. \A i \in 1..n : SubSeq(rest, 1, n)[i] = near[i]
    BY <1>2, <1>4, <1>6, <2>1
  <2>3. Len(SubSeq(rest, 1, n)) = Len(near) /\ Len(near) = n
    BY <1>4, <1>6
  <2> QED
    BY <1>4, <1>6, <2>2, <2>3, SeqEqual
<1> QED
  BY <1>7, <1>8 DEF rest, far, near

LEMMA JoinThree ==
  \A a, b, c \in Seq(Bits) : (a \o b) \o c = a \o (b \o c)
BY ConcatAssociative

LEMMA CutAndJoin ==
  ASSUME NEW S, NEW s \in Seq(S), NEW n \in 0..Len(s)
  PROVE  SubSeq(s, 1, n) \o SubSeq(s, n + 1, Len(s)) = s
<1>1. 1 \in 1..(Len(s) + 1) /\ n \in (1 - 1)..Len(s) /\ Len(s) \in n..Len(s)
  BY LenProperties
<1> QED
  BY <1>1, ConcatAdjacentSubSeq, SubSeqFull

-----------------------------------------------------------------------------
LEMMA PieceParts ==
  \A f, i, n : Piece(f, i, n).frame = f /\ Piece(f, i, n).part = i /\ Piece(f, i, n).size = n
BY DEF Piece

(* The pieces of a frame are within the stream that its first and last are in. *)
LEMMA WithinFrame ==
  ASSUME NEW i \in Nat, NEW p \in Nat, NEW n \in Nat, NEW low \in Nat, NEW high \in Nat,
         p \in 1..n, low + p <= i, i - p + n <= high
  PROVE  \A k \in 1..n : i - p + k \in (low + 1)..high
OBVIOUS

LEMMA CutBefore ==
  ASSUME NEW i \in Nat, NEW p \in Nat, NEW n \in Nat, NEW c \in Nat, NEW high \in Nat,
         p \in 1..n, p <= c + i, (c + i) - p + n <= high
  PROVE  /\ i - p + n <= high - c
         /\ p > i => 1 \in 1..n /\ (c + i) - p + 1 \in 1..c
         /\ \A k \in 1..n : c + (i - p + k) = (c + i) - p + k
OBVIOUS

(* What a stream carries: a frame more at its end, one less at its front. *)

LEMMA CarriesOneMore ==
  ASSUME NEW s \in Seq(Bits), NEW lo \in Nat, NEW hi \in Nat, lo <= hi + 1, Carries(s, lo, hi),
         NEW n \in Nat \ {0}
  PROVE  LET more == [i \in 1..n |-> Piece(hi + 1, i, n)]
         IN /\ more \in Seq(Bits) /\ Len(more) = n
            /\ Carries(s \o more, lo, hi + 1)
<1> DEFINE more == [i \in 1..n |-> Piece(hi + 1, i, n)]
           t == s \o more
           L == Len(s)
<1>1. more \in Seq(Bits) /\ Len(more) = n /\ \A i \in 1..n : more[i] = Piece(hi + 1, i, n)
  <2>1. \A i \in 1..n : Piece(hi + 1, i, n) \in Bits
    BY DEF Piece, Bits
  <2>2. more \in Seq(Bits)
    BY <2>1, IsASeq
  <2> QED
    BY <2>2, LenProperties
<1>2. L \in Nat /\ \A i \in 1..L : s[i] \in Bits
  BY LenProperties, ElementOfSeq
<1>3. t \in Seq(Bits) /\ Len(t) = L + n
      /\ \A i \in 1..(L + n) : t[i] = IF i <= L THEN s[i] ELSE more[i - L]
  BY <1>1, ConcatProperties
<1>4. \A i \in 1..L : t[i] = s[i] /\ s[i].frame \in lo..hi /\ s[i].frame \in Nat
                      /\ s[i].part \in Nat /\ s[i].size \in Nat
  <2>1. \A i \in 1..L : i \in 1..(L + n) /\ i <= L
    BY <1>2
  <2>2. \A i \in 1..L : t[i] = s[i]
    BY <1>3, <2>1
  <2>3. \A i \in 1..L : s[i].frame \in lo..hi
    BY DEF Carries
  <2>4. \A i \in 1..L : s[i].frame \in Nat /\ s[i].part \in Nat /\ s[i].size \in Nat
    BY <1>2 DEF Bits
  <2> QED
    BY <2>2, <2>3, <2>4
<1>5. \A i \in (L + 1)..(L + n) : i - L \in 1..n /\ t[i] = Piece(hi + 1, i - L, n)
  <2> SUFFICES ASSUME NEW i \in (L + 1)..(L + n) PROVE i - L \in 1..n /\ t[i] = Piece(hi + 1, i - L, n)
    OBVIOUS
  <2>1. i - L \in 1..n /\ i \in 1..(L + n) /\ ~ i <= L
    BY <1>2
  <2> QED
    BY <1>1, <1>3, <2>1
<1> HIDE DEF more, t, L
<1>6. \A i \in (L + 1)..(L + n) :
         t[i].frame = hi + 1 /\ t[i].part = i - L /\ t[i].size = n
  BY <1>5, PieceParts
<1>7. InPlace(t)
  <2> SUFFICES ASSUME NEW i \in 1..(L + n)
               PROVE  /\ t[i].part \in 1..t[i].size
                      /\ t[i].part <= i /\ i - t[i].part + t[i].size <= L + n
                      /\ \A k \in 1..t[i].size : t[i - t[i].part + k] = Piece(t[i].frame, k, t[i].size)
    BY <1>3 DEF InPlace
  <2>1. CASE i <= L
    <3>1. i \in 1..L /\ t[i] = s[i]
      BY <1>4, <2>1
    <3>2. /\ s[i].part \in 1..s[i].size
          /\ s[i].part <= i /\ i - s[i].part + s[i].size <= L
      BY <3>1 DEF Carries, InPlace, L
    <3>3. \A k \in 1..s[i].size : i - s[i].part + k \in (0 + 1)..L
      <4>1. s[i].part \in Nat /\ s[i].size \in Nat /\ i \in Nat
        BY <1>4, <3>1
      <4>2. 0 + s[i].part <= i
        BY <3>2, <4>1
      <4> QED
        BY <1>2, <3>2, <4>1, <4>2, WithinFrame
    <3>4. ASSUME NEW k \in 1..s[i].size
          PROVE  t[i - s[i].part + k] = Piece(s[i].frame, k, s[i].size)
      <4>1. i - s[i].part + k \in 1..L
        BY <3>3
      <4>2. s[i - s[i].part + k] = Piece(s[i].frame, k, s[i].size)
        BY <3>1 DEF Carries, InPlace, L
      <4>3. t[i - s[i].part + k] = s[i - s[i].part + k]
        BY <1>4, <4>1
      <4> QED
        BY <4>2, <4>3
    <3>5. i - s[i].part + s[i].size <= L + n
      <4>1. s[i].part \in Nat /\ s[i].size \in Nat /\ i \in Nat
        BY <1>4, <3>1
      <4> QED
        BY <1>2, <3>2, <4>1
    <3> QED
      BY <3>1, <3>2, <3>4, <3>5
  <2>2. CASE i > L
    <3>1. i \in (L + 1)..(L + n)
      BY <1>2, <2>2
    <3>2. t[i].frame = hi + 1 /\ t[i].part = i - L /\ t[i].size = n /\ i - L \in 1..n
      BY <1>5, <1>6, <3>1
    <3>3. \A k \in 1..n : L + k \in (L + 1)..(L + n) /\ (L + k) - L = k /\ i - (i - L) + k = L + k
      BY <1>2
    <3>4. \A k \in 1..n : t[i - (i - L) + k] = Piece(hi + 1, k, n)
      BY <1>5, <3>3
    <3>5. i - L <= i /\ i - (i - L) + n <= L + n
      BY <1>2
    <3>6. t[i].part \in 1..t[i].size /\ t[i].part <= i /\ i - t[i].part + t[i].size <= L + n
      BY <3>2, <3>5
    <3>7. \A k \in 1..t[i].size : t[i - t[i].part + k] = Piece(t[i].frame, k, t[i].size)
      BY <3>2, <3>4
    <3> QED
      BY <3>6, <3>7
  <2> QED
    BY <1>2, <2>1, <2>2
<1>8. Rising(t)
  <2> SUFFICES ASSUME NEW i \in 1..(L + n), NEW j \in 1..(L + n), i <= j
               PROVE  t[i].frame <= t[j].frame
    BY <1>3 DEF Rising
  <2>1. CASE j <= L
    <3>1. i \in 1..L /\ j \in 1..L
      BY <1>2, <2>1
    <3>2. s[i].frame <= s[j].frame
      BY <3>1 DEF Carries, Rising, L
    <3> QED
      BY <1>4, <3>1, <3>2
  <2>2. CASE j > L
    <3>1. t[j].frame = hi + 1
      BY <1>2, <1>6, <2>2
    <3>2. CASE i <= L
      BY <1>2, <1>4, <3>1, <3>2
    <3>3. CASE i > L
      BY <1>2, <1>6, <3>1, <3>3
    <3> QED
      BY <1>2, <3>2, <3>3
  <2> QED
    BY <1>2, <2>1, <2>2
<1>9. OnceEach(t)
  <2> SUFFICES ASSUME NEW i \in 1..(L + n), NEW j \in 1..(L + n),
                      t[i].frame = t[j].frame, t[i].part = t[j].part
               PROVE  i = j
    BY <1>3 DEF OnceEach
  <2>1. (i \in 1..L \/ i \in (L + 1)..(L + n)) /\ (j \in 1..L \/ j \in (L + 1)..(L + n))
    BY <1>2
  <2>2. \A m \in 1..L : t[m] = s[m] /\ t[m].frame # hi + 1
    BY <1>4
  <2>3. CASE i \in 1..L /\ j \in 1..L
    <3>1. t[i] = s[i] /\ t[j] = s[j]
      BY <2>2, <2>3
    <3> QED
      BY <2>3, <3>1 DEF Carries, OnceEach, L
  <2>4. CASE i \in (L + 1)..(L + n) /\ j \in (L + 1)..(L + n)
    <3>1. i - L = j - L
      BY <1>6, <2>4
    <3> QED
      BY <1>2, <3>1
  <2>5. CASE i \in 1..L /\ j \in (L + 1)..(L + n)
    BY <1>6, <2>2, <2>5
  <2>6. CASE i \in (L + 1)..(L + n) /\ j \in 1..L
    BY <1>6, <2>2, <2>6
  <2> QED
    BY <2>1, <2>3, <2>4, <2>5, <2>6
<1>10. \A i \in 1..(L + n) : t[i].frame \in lo..(hi + 1)
  <2>1. \A i \in 1..L : t[i].frame \in lo..(hi + 1)
    BY <1>4
  <2>2. \A i \in (L + 1)..(L + n) : t[i].frame \in lo..(hi + 1)
    BY <1>6
  <2>3. \A i \in 1..(L + n) : i \in 1..L \/ i \in (L + 1)..(L + n)
    BY <1>2
  <2> QED
    BY <2>1, <2>2, <2>3
<1>11. \A f \in lo..(hi + 1) : \E i \in 1..(L + n) : t[i].frame = f
  <2> SUFFICES ASSUME NEW f \in lo..(hi + 1) PROVE \E i \in 1..(L + n) : t[i].frame = f
    OBVIOUS
  <2>1. CASE f = hi + 1
    <3>1. L + 1 \in (L + 1)..(L + n) /\ L + 1 \in 1..(L + n)
      BY <1>2
    <3> QED
      BY <1>6, <2>1, <3>1
  <2>2. CASE f # hi + 1
    <3>1. PICK i \in 1..L : s[i].frame = f
      BY <2>2 DEF Carries, L
    <3>2. t[i] = s[i] /\ i \in 1..(L + n)
      BY <1>2, <1>4
    <3> QED
      BY <3>1, <3>2
  <2> QED
    BY <2>1, <2>2
<1>12. Carries(t, lo, hi + 1)
  BY <1>3, <1>7, <1>8, <1>9, <1>10, <1>11 DEF Carries
<1> QED
  BY <1>1, <1>12 DEF t, more

(* The first piece of a stream begins its first frame. *)
LEMMA CarriesOneLess ==
  ASSUME NEW s \in Seq(Bits), NEW lo \in Nat, NEW hi \in Nat, Carries(s, lo, hi), s # <<>>
  PROVE  /\ s[1].frame = lo /\ lo <= hi
         /\ s[1].size \in 1..Len(s)
         /\ Carries(SubSeq(s, s[1].size + 1, Len(s)), lo + 1, hi)
         /\ \A i \in 1..Len(s) : i > s[1].size => s[i].frame > lo
<1> DEFINE L == Len(s)
           n == s[1].size
           r == SubSeq(s, n + 1, L)
<1>1. L \in Nat /\ \A i \in 1..L : s[i] \in Bits
  BY LenProperties, ElementOfSeq
<1>2. 1 \in 1..L
  BY <1>1, EmptySeq
<1>3. \A i \in 1..L : s[i].frame \in lo..hi /\ s[i].frame \in Nat
                      /\ s[i].part \in Nat /\ s[i].size \in Nat
  BY <1>1 DEF Carries, Bits
<1>4. lo <= hi /\ s[1].frame = lo
  <2>1. lo <= hi /\ s[1].frame \in lo..hi
    BY <1>2, <1>3
  <2>2. PICK i \in 1..L : s[i].frame = lo
    BY <2>1 DEF Carries
  <2>3. s[1].frame <= s[i].frame
    BY <1>1, <1>2 DEF Carries, Rising
  <2> QED
    BY <2>1, <2>2, <2>3
<1>5. n \in 1..L /\ \A k \in 1..n : s[k] = Piece(lo, k, n)
  <2>1. /\ s[1].part \in 1..n /\ s[1].part <= 1 /\ 1 - s[1].part + n <= L
        /\ \A k \in 1..n : s[1 - s[1].part + k] = Piece(lo, k, n)
    BY <1>2, <1>4 DEF Carries, InPlace
  <2>2. n \in Nat /\ s[1].part = 1
    BY <1>2, <1>3, <2>1
  <2>3. \A k \in 1..n : 1 - 1 + k = k
    OBVIOUS
  <2> QED
    BY <1>1, <2>1, <2>2, <2>3
<1> HIDE DEF n
<1>6. \A k \in 1..n : s[k].frame = lo /\ s[k].part = k
  BY <1>5, PieceParts
<1>7. ASSUME NEW i \in 1..L, i > n PROVE s[i].frame > lo
  <2> SUFFICES ASSUME s[i].frame = lo PROVE FALSE
    BY <1>3, <1>7
  <2>1. /\ s[i].part \in 1..s[i].size /\ s[i].part <= i
        /\ \A k \in 1..s[i].size : s[i - s[i].part + k] = Piece(lo, k, s[i].size)
    BY DEF Carries, InPlace
  <2>2. 1 \in 1..s[i].size /\ i - s[i].part + 1 \in 1..L
    BY <1>1, <1>3, <2>1
  <2>3. s[i - s[i].part + 1] = Piece(lo, 1, s[i].size)
    BY <2>1, <2>2
  <2>4. i - s[i].part + 1 = 1
    <3>1. s[i - s[i].part + 1].frame = lo /\ s[i - s[i].part + 1].part = 1
      BY <2>3 DEF Piece
    <3>2. s[1].frame = lo /\ s[1].part = 1
      BY <1>5, <1>6
    <3>3. \A j \in 1..Len(s) : s[j].frame = s[1].frame /\ s[j].part = s[1].part => j = 1
      BY <1>2 DEF Carries, OnceEach
    <3> QED
      BY <2>2, <3>1, <3>2, <3>3
  <2>5. s[i].size = n
    BY <2>3, <2>4 DEF Piece, n
  <2> QED
    BY <1>3, <1>5, <1>7, <2>1, <2>4, <2>5
<1>8. Len(r) = L - n /\ \A i \in 1..(L - n) : r[i] = s[n + i] /\ n + i \in 1..L /\ n + i > n
  <2>1. n \in 0..L
    BY <1>5
  <2>2. Len(r) = L - n /\ \A i \in 1..(L - n) : r[i] = s[n + i]
    BY <2>1, CutProperties
  <2> QED
    BY <1>1, <1>5, <2>2
<1> HIDE DEF r, L
<1>9. InPlace(r)
  <2> SUFFICES ASSUME NEW i \in 1..(L - n)
               PROVE  /\ r[i].part \in 1..r[i].size
                      /\ r[i].part <= i /\ i - r[i].part + r[i].size <= L - n
                      /\ \A k \in 1..r[i].size : r[i - r[i].part + k] = Piece(r[i].frame, k, r[i].size)
    BY <1>8 DEF InPlace
  <2>1. r[i] = s[n + i] /\ n + i \in 1..L /\ s[n + i].frame > lo
    BY <1>7, <1>8
  <2>2. /\ r[i].part \in 1..r[i].size /\ r[i].part <= n + i /\ (n + i) - r[i].part + r[i].size <= L
    BY <2>1 DEF Carries, InPlace, L
  <2>3. \A k \in 1..r[i].size : s[(n + i) - r[i].part + k] = Piece(r[i].frame, k, r[i].size)
    BY <2>1 DEF Carries, InPlace, L
  <2>4. r[i].part \in Nat /\ r[i].size \in Nat /\ r[i].frame \in Nat /\ n \in Nat /\ L \in Nat
        /\ i \in Nat
    BY <1>1, <1>3, <1>5, <2>1
  <2>5. r[i].part <= i
    <3> SUFFICES ASSUME r[i].part > i PROVE FALSE
      BY <2>4
    <3>1. 1 \in 1..r[i].size /\ (n + i) - r[i].part + 1 \in 1..n
      BY <2>2, <2>4, CutBefore
    <3>2. s[(n + i) - r[i].part + 1].frame = r[i].frame
      BY <2>3, <3>1, PieceParts
    <3>3. r[i].frame = lo
      BY <1>6, <3>1, <3>2
    <3> QED
      BY <2>1, <2>4, <3>3
  <2>6. i - r[i].part + r[i].size <= L - n
    BY <2>2, <2>4, CutBefore
  <2>7. \A k \in 1..r[i].size : i - r[i].part + k \in (0 + 1)..(L - n)
    <3>1. 0 + r[i].part <= i /\ L - n \in Nat /\ i \in Nat
      BY <1>5, <2>4, <2>5
    <3> QED
      BY <2>2, <2>4, <2>6, <3>1, WithinFrame
  <2>8. ASSUME NEW k \in 1..r[i].size
        PROVE  r[i - r[i].part + k] = Piece(r[i].frame, k, r[i].size)
    <3>1. n + (i - r[i].part + k) = (n + i) - r[i].part + k
      BY <2>2, <2>4, CutBefore
    <3>2. r[i - r[i].part + k] = s[n + (i - r[i].part + k)]
      BY <1>8, <2>7
    <3> QED
      BY <2>3, <3>1, <3>2
  <2> QED
    BY <2>2, <2>5, <2>6, <2>8
<1>10. Rising(r)
  <2> SUFFICES ASSUME NEW i \in 1..(L - n), NEW j \in 1..(L - n), i <= j
               PROVE  r[i].frame <= r[j].frame
    BY <1>8 DEF Rising
  <2>1. n + i \in 1..L /\ n + j \in 1..L /\ n + i <= n + j
    <3>1. L \in Nat /\ n \in 1..L
      BY <1>1, <1>5
    <3> HIDE DEF L, r
    <3>2. i \in Nat /\ j \in Nat /\ n \in Nat /\ 1 <= i /\ 1 <= j /\ i <= L - n /\ j <= L - n
      BY <3>1
    <3> QED
      BY <3>1, <3>2
  <2>2. s[n + i].frame <= s[n + j].frame
    BY <2>1 DEF Carries, Rising, L
  <2> QED
    BY <1>8, <2>2
<1>11. OnceEach(r)
  <2> SUFFICES ASSUME NEW i \in 1..(L - n), NEW j \in 1..(L - n),
                      r[i].frame = r[j].frame, r[i].part = r[j].part
               PROVE  i = j
    BY <1>8 DEF OnceEach
  <2>1. n + i \in 1..L /\ n + j \in 1..L /\ r[i] = s[n + i] /\ r[j] = s[n + j]
    BY <1>8
  <2>2. n + i = n + j
    BY <2>1 DEF Carries, OnceEach, L
  <2> QED
    BY <1>5, <2>2
<1>12. \A i \in 1..(L - n) : r[i].frame \in (lo + 1)..hi
  BY <1>3, <1>7, <1>8
<1>13. \A f \in (lo + 1)..hi : \E i \in 1..(L - n) : r[i].frame = f
  <2> SUFFICES ASSUME NEW f \in (lo + 1)..hi PROVE \E i \in 1..(L - n) : r[i].frame = f
    OBVIOUS
  <2>1. PICK i \in 1..L : s[i].frame = f
    BY DEF Carries, L
  <2>2. i > n
    BY <1>5, <1>6, <2>1
  <2>3. i - n \in 1..(L - n) /\ n + (i - n) = i
    BY <1>1, <1>5, <2>2
  <2> QED
    BY <1>8, <2>1, <2>3
<1>14. Carries(r, lo + 1, hi)
  BY <1>8, <1>9, <1>10, <1>11, <1>12, <1>13 DEF Carries
<1> QED
  BY <1>4, <1>5, <1>7, <1>14 DEF r, n, L

LEMMA CutLonger ==
  ASSUME NEW S, NEW s \in Seq(S), NEW t \in Seq(S), NEW n \in 0..Len(s)
  PROVE  SubSeq(s \o t, n + 1, Len(s \o t)) = SubSeq(s, n + 1, Len(s)) \o t
<1> DEFINE u == s \o t
           rest == SubSeq(s, n + 1, Len(s))
           cut == SubSeq(u, n + 1, Len(u))
           K == Len(s)
           M == Len(t)
<1>1. /\ u \in Seq(S) /\ Len(u) = K + M /\ K \in Nat /\ M \in Nat
      /\ \A i \in 1..(K + M) : u[i] = IF i <= K THEN s[i] ELSE t[i - K]
  BY ConcatProperties, LenProperties
<1>2. rest \in Seq(S) /\ Len(rest) = K - n /\ \A i \in 1..(K - n) : rest[i] = s[n + i]
  BY CutProperties
<1>3. cut \in Seq(S) /\ Len(cut) = K + M - n /\ \A i \in 1..(K + M - n) : cut[i] = u[n + i]
  <2>1. n \in 0..Len(u)
    BY <1>1
  <2> QED
    BY <1>1, <2>1, CutProperties
<1>4. /\ rest \o t \in Seq(S) /\ Len(rest \o t) = (K - n) + M
      /\ \A i \in 1..((K - n) + M) : (rest \o t)[i] = IF i <= K - n THEN rest[i] ELSE t[i - (K - n)]
  <2>1. /\ rest \o t \in Seq(S) /\ Len(rest \o t) = Len(rest) + M
        /\ \A i \in 1..(Len(rest) + M) : (rest \o t)[i] = IF i <= Len(rest) THEN rest[i] ELSE t[i - Len(rest)]
    BY <1>2, ConcatProperties
  <2>2. Len(rest) = K - n
    BY <1>2
  <2> HIDE DEF rest
  <2> QED
    BY <2>1, <2>2
<1>5. n \in Nat /\ n <= K /\ K \in Nat /\ M \in Nat
  BY <1>1
<1> HIDE DEF u, rest, cut, K, M
<1>6. Len(cut) = Len(rest \o t)
  BY <1>1, <1>3, <1>4, <1>5
<1>7. ASSUME NEW i \in 1..Len(cut) PROVE cut[i] = (rest \o t)[i]
  <2>1. i \in 1..(K + M - n) /\ i \in 1..((K - n) + M) /\ n + i \in 1..(K + M)
    BY <1>1, <1>3, <1>5, <1>7
  <2>2. CASE i <= K - n
    <3>1. n + i <= K /\ i \in 1..(K - n)
      BY <1>1, <1>5, <2>1, <2>2
    <3> QED
      BY <1>1, <1>2, <1>3, <1>4, <2>1, <2>2, <3>1
  <2>3. CASE i > K - n
    <3>1. ~ n + i <= K /\ ~ i <= K - n /\ (n + i) - K = i - (K - n)
      BY <1>1, <1>5, <2>1, <2>3
    <3> QED
      BY <1>1, <1>3, <1>4, <2>1, <3>1
  <2>4. i <= K - n \/ i > K - n
    <3>1. i \in Nat
      BY <2>1
    <3> QED
      BY <1>5, <3>1
  <2> QED
    BY <2>2, <2>3, <2>4
<1>8. cut = rest \o t
  BY <1>3, <1>4, <1>6, <1>7, SeqEqual
<1> QED
  BY <1>8 DEF cut, rest, u

-----------------------------------------------------------------------------
(* The wire: what is unread, what the socket holds, what is unsent. *)

LEMMA WireParts ==
  ASSUME FramedTypes
  PROVE  /\ Unread \in Seq(Bits) /\ Unsent \in Seq(Bits) /\ socket \in Seq(Bits)
         /\ Wire \in Seq(Bits)
         /\ {Len(Unread), Len(socket), Len(Unsent), Len(Wire)} \subseteq Nat
         /\ Len(Unread) = Len(rxBuf) - rxOff /\ Len(Unsent) = Len(txBuf) - txOff
         /\ Len(Wire) = Len(Unread) + Len(socket) + Len(Unsent)
         /\ \A i \in 1..Len(Unread) : Wire[i] = Unread[i]
         /\ \A i \in 1..Len(Unsent) : Wire[Len(Unread) + Len(socket) + i] = Unsent[i]
<1>1. Unread \in Seq(Bits) /\ Len(Unread) = Len(rxBuf) - rxOff
  BY CutProperties DEF FramedTypes, Unread
<1>2. Unsent \in Seq(Bits) /\ Len(Unsent) = Len(txBuf) - txOff
  BY CutProperties DEF FramedTypes, Unsent
<1>3. socket \in Seq(Bits)
  BY DEF FramedTypes
<1> DEFINE A == Len(Unread)
           B == Len(socket)
           C == Len(Unsent)
           behind == socket \o Unsent
<1>4. A \in Nat /\ B \in Nat /\ C \in Nat
  BY <1>1, <1>2, <1>3, LenProperties
<1>5. /\ behind \in Seq(Bits) /\ Len(behind) = B + C
      /\ \A i \in 1..(B + C) : behind[i] = IF i <= B THEN socket[i] ELSE Unsent[i - B]
  BY <1>2, <1>3, ConcatProperties
<1>6. /\ Wire \in Seq(Bits) /\ Len(Wire) = A + (B + C)
      /\ \A i \in 1..(A + (B + C)) : Wire[i] = IF i <= A THEN Unread[i] ELSE behind[i - A]
  <2>1. /\ Unread \o behind \in Seq(Bits) /\ Len(Unread \o behind) = A + Len(behind)
        /\ \A i \in 1..(A + Len(behind)) :
             (Unread \o behind)[i] = IF i <= A THEN Unread[i] ELSE behind[i - A]
    BY <1>1, <1>5, ConcatProperties
  <2>2. Len(behind) = B + C /\ Wire = Unread \o behind
    BY <1>5 DEF Wire
  <2> HIDE DEF behind
  <2> QED
    BY <2>1, <2>2
<1>7. \A i \in 1..A : Wire[i] = Unread[i]
  <2>1. \A i \in 1..A : i \in 1..(A + (B + C)) /\ i <= A
    BY <1>4
  <2> QED
    BY <1>6, <2>1
<1> HIDE DEF A, B, C, behind
<1>8. ASSUME NEW i \in 1..C PROVE Wire[A + B + i] = Unsent[i]
  <2>1. PICK j \in Nat : j = A + B + i
    BY <1>4
  <2>2. j \in 1..(A + (B + C)) /\ ~(j <= A) /\ j - A = B + i
    BY <1>4, <2>1
  <2>3. B + i \in 1..(B + C) /\ ~(B + i <= B) /\ (B + i) - B = i
    BY <1>4
  <2>4. Wire[j] = behind[j - A]
    BY <1>6, <2>2
  <2>5. behind[B + i] = Unsent[i]
    BY <1>5, <2>3
  <2> QED
    BY <2>1, <2>2, <2>4, <2>5
<1>9. Len(Wire) = A + B + C /\ Len(Wire) \in Nat
  BY <1>4, <1>6
<1> QED
  BY <1>1, <1>2, <1>3, <1>4, <1>6, <1>7, <1>8, <1>9 DEF A, B, C

(* A frame has left when the piece that is next to leave is of a later one. *)
LEMMA WhatHasLeft ==
  ASSUME FramedInv
  PROVE  /\ HasLeft = IF Unsent = <<>> THEN Len(frames) ELSE Unsent[1].frame - 1
         /\ Unsent # <<>> => /\ Unsent[1].frame \in (Len(delivered) + 1)..Len(frames)
                             /\ Unsent[1] = Wire[Len(Unread) + Len(socket) + 1]
         /\ \A i \in 1..Len(Unsent) : Unsent[i].frame \in Unsent[1].frame..Len(frames)
<1> DEFINE U == Len(Unread) + Len(socket)
           C == Len(Unsent)
           waiting == {Unsent[i].frame : i \in DOMAIN Unsent}
<1>1. /\ U \in Nat /\ C \in Nat /\ Len(Wire) = U + C /\ Unsent \in Seq(Bits)
      /\ \A i \in 1..C : Wire[U + i] = Unsent[i]
  <2>1. FramedTypes
    BY DEF FramedInv
  <2>2. \A i \in 1..C : Wire[U + i] = Unsent[i]
    BY <2>1, WireParts
  <2>3. {Len(Unread), Len(socket), C} \subseteq Nat /\ Len(Wire) = U + C /\ Unsent \in Seq(Bits)
    BY <2>1, WireParts
  <2> QED
    BY <2>2, <2>3
<1>2. Len(frames) \in Nat /\ Len(delivered) \in Nat
  BY LenProperties DEF FramedInv, FramedTypes
<1>3. DOMAIN Unsent = 1..C
  BY <1>1, LenProperties
<1>4. HasLeft = Len(frames) - Cardinality(waiting)
  BY DEF HasLeft
<1>5. CASE Unsent = <<>>
  <2>1. C = 0
    BY <1>5, EmptySeq
  <2>2. waiting = {}
    BY <1>3, <2>1
  <2> QED
    BY <1>2, <1>4, <1>5, <2>1, <2>2, FS_EmptySet
<1>6. CASE Unsent # <<>>
  <2>1. 1 \in 1..C
    BY <1>1, <1>6, EmptySeq
  <2> DEFINE low == Unsent[1].frame
  <2>2. \A i \in 1..C : U + i \in 1..(U + C)
    BY <1>1
  <2>3. \A i \in 1..C : Unsent[i].frame \in (Len(delivered) + 1)..Len(frames)
    BY <1>1, <2>2 DEF FramedInv, Carries
  <2>4. \A i \in 1..C : low <= Unsent[i].frame
    <3> SUFFICES ASSUME NEW i \in 1..C PROVE low <= Unsent[i].frame
      OBVIOUS
    <3>1. U + 1 \in 1..Len(Wire) /\ U + i \in 1..Len(Wire) /\ U + 1 <= U + i
      BY <1>1, <2>1
    <3>2. Wire[U + 1].frame <= Wire[U + i].frame
      BY <3>1 DEF FramedInv, Carries, Rising
    <3> QED
      BY <1>1, <2>1, <3>2
  <2>5. low \in Nat
    BY <1>2, <2>1, <2>3
  <2>6. \A f \in low..Len(frames) : f \in waiting
    <3> SUFFICES ASSUME NEW f \in low..Len(frames), f # low PROVE f \in waiting
      BY <1>3, <2>1
    <3>1. f \in (Len(delivered) + 1)..Len(frames) /\ f > low
      BY <1>2, <2>1, <2>3, <2>5
    <3>2. PICK j \in 1..(U + C) : Wire[j].frame = f
      BY <1>1, <3>1 DEF FramedInv, Carries
    <3>3. j > U
      <4> SUFFICES ASSUME j <= U PROVE FALSE
        BY <1>1
      <4>1. U + 1 \in 1..(U + C) /\ j <= U + 1
        BY <1>1, <2>1
      <4>2. Wire[j].frame <= Wire[U + 1].frame
        BY <1>1, <4>1 DEF FramedInv, Carries, Rising
      <4> QED
        BY <1>1, <2>1, <2>5, <3>1, <3>2, <4>2
    <3>4. j - U \in 1..C /\ U + (j - U) = j
      BY <1>1, <3>3
    <3>5. Unsent[j - U].frame = f
      BY <1>1, <3>2, <3>4
    <3> QED
      BY <1>3, <3>4, <3>5
  <2>7. waiting = low..Len(frames)
    <3>1. \A i \in 1..C : Unsent[i].frame \in low..Len(frames)
      BY <1>2, <2>3, <2>4, <2>5
    <3> QED
      BY <1>3, <2>6, <3>1
  <2>8. Cardinality(waiting) = Len(frames) - low + 1
    <3>1. low <= Len(frames) /\ low \in Int /\ Len(frames) \in Int
      BY <1>2, <2>1, <2>3, <2>5
    <3>2. Cardinality(low..Len(frames)) = IF low > Len(frames) THEN 0 ELSE Len(frames) - low + 1
      BY <3>1, FS_Interval
    <3>3. ~(low > Len(frames))
      BY <3>1
    <3> QED
      BY <2>7, <3>2, <3>3
  <2>9. HasLeft = low - 1
    BY <1>2, <1>4, <2>5, <2>8
  <2>10. \A i \in 1..C : Unsent[i].frame \in low..Len(frames)
    BY <1>2, <2>3, <2>4, <2>5
  <2> QED
    BY <1>1, <1>6, <2>1, <2>3, <2>9, <2>10
<1> QED
  BY <1>5, <1>6

-----------------------------------------------------------------------------
(* What each step does to the wire. *)

LEMMA SendLengthens ==
  ASSUME FramedTypes, NEW n \in Sizes, SendFrame(n)
  PROVE  LET more == [i \in 1..n |-> Piece(Len(frames) + 1, i, n)]
         IN FramedTypes' /\ Unsent' = Unsent \o more /\ Wire' = Wire \o more
<1> DEFINE more == [i \in 1..n |-> Piece(Len(frames) + 1, i, n)]
<1>1. Len(frames) \in Nat /\ n \in Nat
  BY FramedAssumption, LenProperties DEF FramedTypes
<1>2. more \in Seq(Bits)
  <2>1. \A i \in 1..n : Piece(Len(frames) + 1, i, n) \in Bits
    BY <1>1 DEF Piece, Bits
  <2> QED
    BY <1>1, <2>1, IsASeq
<1>3. txBuf' = txBuf \o more /\ UNCHANGED <<txOff, socket, rxBuf, rxOff, delivered>>
  BY DEF SendFrame, rxVars
<1> HIDE DEF more
<1>4. Unsent' = Unsent \o more
  BY <1>2, <1>3, CutLonger DEF FramedTypes, Unsent
<1>5. Wire' = Wire \o more
  <2> DEFINE behind == socket \o Unsent
  <2>1. Unread \in Seq(Bits) /\ socket \in Seq(Bits) /\ Unsent \in Seq(Bits)
    BY WireParts
  <2>2. (socket \o Unsent) \o more = socket \o (Unsent \o more)
    BY <1>2, <2>1, JoinThree, Zenon
  <2>3. behind \in Seq(Bits) /\ Unread \in Seq(Bits)
    BY <2>1, ConcatProperties
  <2> HIDE DEF behind
  <2>4. (Unread \o behind) \o more = Unread \o (behind \o more)
    BY <1>2, <2>3, JoinThree, Zenon
  <2>5. Unread' = Unread
    BY <1>3 DEF Unread
  <2> QED
    BY <1>3, <1>4, <2>2, <2>4, <2>5 DEF Wire, behind
<1>6. FramedTypes'
  <2>1. txBuf' \in Seq(Bits) /\ Len(txBuf') = Len(txBuf) + Len(more)
    BY <1>2, <1>3, ConcatProperties DEF FramedTypes
  <2>2. Len(txBuf) \in Nat /\ Len(more) \in Nat
    BY <1>2, LenProperties DEF FramedTypes
  <2>3. txOff' \in 0..Len(txBuf')
    BY <1>3, <2>1, <2>2 DEF FramedTypes
  <2>4. frames' \in Seq(Nat)
    BY <1>1, AppendProperties DEF SendFrame, FramedTypes
  <2> QED
    BY <1>3, <2>1, <2>3, <2>4 DEF FramedTypes
<1> QED
  BY <1>4, <1>5, <1>6 DEF more

(* A flush, with or without dropping what is on the wire already, moves the *)
(* next pieces into the socket.                                            *)
LEMMA FlushMoves ==
  ASSUME FramedTypes, NEW n \in 1..SocketCap, Flush(n)
  PROVE  /\ FramedTypes' /\ Wire' = Wire
         /\ n <= Len(Unsent) /\ Unsent' = SubSeq(Unsent, n + 1, Len(Unsent))
<1> DEFINE buf == IF Compacts THEN Unsent ELSE txBuf
           old == IF Compacts THEN AfterCompact ELSE txOff
           off == old + n
           L == Len(buf)
<1>1. /\ n \in Nat /\ Unsent \in Seq(Bits) /\ Len(Unsent) \in Nat /\ socket \in Seq(Bits)
      /\ Unread \in Seq(Bits)
  BY FramedAssumption, WireParts
<1>2. /\ open /\ off <= L
      /\ socket' = socket \o SubSeq(buf, off - n + 1, off)
      /\ txBuf' = (IF off = L THEN <<>> ELSE buf)
      /\ txOff' = (IF off = L THEN 0 ELSE off)
      /\ UNCHANGED <<frames, rxBuf, rxOff, delivered>>
  BY DEF Flush, rxVars
<1>3. /\ buf \in Seq(Bits) /\ L \in Nat /\ old \in 0..L
      /\ Unsent = SubSeq(buf, old + 1, L)
  <2>1. CASE Compacts
    BY <1>1, <2>1, SubSeqFull DEF AfterCompact
  <2>2. CASE ~Compacts
    BY <2>2, LenProperties DEF FramedTypes, Unsent
  <2> QED
    BY <2>1, <2>2
<1> HIDE DEF buf, old, L
<1>4. /\ n <= Len(Unsent)
      /\ SubSeq(Unsent, n + 1, Len(Unsent)) = SubSeq(buf, off + 1, L)
      /\ SubSeq(Unsent, 1, n) = SubSeq(buf, off - n + 1, off)
  <2>1. old \in Nat /\ old + n <= L /\ off - n = old
    BY <1>1, <1>2, <1>3
  <2>2. Len(Unsent) = L - old
    BY <1>3, CutProperties DEF L
  <2>3. n <= Len(Unsent)
    BY <1>1, <1>3, <2>1, <2>2
  <2> QED
    BY <1>1, <1>3, <2>1, <2>3, CutTwice DEF L
<1>5. Unsent' = SubSeq(Unsent, n + 1, Len(Unsent))
  <2>1. CASE off = L
    <3>1. Unsent' = <<>>
      BY <1>2, <2>1, SubSeqEmpty, EmptySeq DEF Unsent
    <3>2. SubSeq(buf, off + 1, L) = <<>>
      BY <1>1, <1>3, <2>1, SubSeqEmpty
    <3> QED
      BY <1>4, <3>1, <3>2
  <2>2. CASE off # L
    BY <1>2, <1>4, <2>2 DEF Unsent, L
  <2> QED
    BY <2>1, <2>2
<1>6. Wire' = Wire
  <2> DEFINE head == SubSeq(Unsent, 1, n)
             rest == SubSeq(Unsent, n + 1, Len(Unsent))
  <2>1. n \in 0..Len(Unsent)
    BY <1>1, <1>4
  <2>2. head \in Seq(Bits) /\ rest \in Seq(Bits)
    BY <1>1, <2>1, CutProperties
  <2>3. head \o rest = Unsent
    BY <1>1, <2>1, CutAndJoin
  <2>4. socket' \o Unsent' = (socket \o head) \o rest
    BY <1>2, <1>4, <1>5
  <2> HIDE DEF head, rest
  <2>5. (socket \o head) \o rest = socket \o (head \o rest)
    BY <1>1, <2>2, JoinThree, Zenon
  <2>6. Unread' = Unread
    BY <1>2 DEF Unread
  <2> QED
    BY <2>3, <2>4, <2>5, <2>6 DEF Wire
<1>7. FramedTypes'
  <2>1. n \in 0..Len(Unsent)
    BY <1>1, <1>4
  <2>2. SubSeq(Unsent, 1, n) \in Seq(Bits)
    BY <1>1, <2>1, CutProperties
  <2>3. socket' \in Seq(Bits)
    BY <1>1, <1>2, <1>4, <2>2, ConcatProperties
  <2>4. txBuf' \in Seq(Bits) /\ txOff' \in 0..Len(txBuf')
    BY <1>1, <1>2, <1>3, EmptySeq DEF L
  <2> QED
    BY <1>2, <2>3, <2>4 DEF FramedTypes
<1> QED
  BY <1>4, <1>5, <1>6, <1>7

LEMMA RecvMoves ==
  ASSUME FramedTypes, NEW n \in 0..PassPieces, Recv(n)
  PROVE  FramedTypes' /\ Wire' = Wire /\ Unsent' = Unsent
<1> DEFINE head == SubSeq(socket, 1, n)
           rest == SubSeq(socket, n + 1, Len(socket))
<1>1. /\ n \in 0..Len(socket) /\ rxBuf' = rxBuf \o head /\ socket' = rest
      /\ UNCHANGED <<frames, txBuf, txOff, rxOff, delivered>>
  BY FramedAssumption, LenProperties DEF Recv, txVars, FramedTypes
<1>2. head \in Seq(Bits) /\ rest \in Seq(Bits) /\ head \o rest = socket
  BY <1>1, CutProperties, CutAndJoin DEF FramedTypes
<1> HIDE DEF head, rest
<1>3. Unread \in Seq(Bits) /\ Unsent \in Seq(Bits)
  BY WireParts
<1>4. Unread' = Unread \o head
  BY <1>1, <1>2, CutLonger DEF FramedTypes, Unread
<1>5. Unsent' = Unsent
  BY <1>1 DEF Unsent
<1>6. Wire' = Wire
  <2>1. Wire' = (Unread \o head) \o (rest \o Unsent)
    BY <1>1, <1>4, <1>5 DEF Wire
  <2>2. rest \o Unsent \in Seq(Bits)
    BY <1>2, <1>3, ConcatProperties
  <2>3. head \in Seq(Bits) /\ rest \in Seq(Bits)
    BY <1>2
  <2>4. (Unread \o head) \o (rest \o Unsent) = Unread \o (head \o (rest \o Unsent))
    BY <1>3, <2>2, <2>3, JoinThree, Zenon
  <2>5. (head \o rest) \o Unsent = head \o (rest \o Unsent)
    BY <1>3, <2>3, JoinThree, Zenon
  <2> QED
    BY <1>2, <2>1, <2>4, <2>5 DEF Wire
<1>7. FramedTypes'
  <2>1. rxBuf' \in Seq(Bits) /\ Len(rxBuf') = Len(rxBuf) + Len(head)
    BY <1>1, <1>2, ConcatProperties DEF FramedTypes
  <2>2. Len(rxBuf) \in Nat /\ Len(head) \in Nat
    BY <1>2, LenProperties DEF FramedTypes
  <2>3. rxOff' \in 0..Len(rxBuf')
    BY <1>1, <2>1, <2>2 DEF FramedTypes
  <2> QED
    BY <1>1, <1>2, <2>1, <2>3 DEF FramedTypes
<1> QED
  BY <1>5, <1>6, <1>7

(* poll takes a whole frame off the front. *)
LEMMA PollTakes ==
  ASSUME FramedInv, Poll
  PROVE  LET n == Wire[1].size
         IN /\ FramedTypes' /\ Unsent' = Unsent
            /\ Wire # <<>> /\ n <= Len(Unread)
            /\ Wire' = SubSeq(Wire, n + 1, Len(Wire))
            /\ delivered' = Append(delivered, Wire[1].frame)
<1> DEFINE n == Wire[1].size
           off == rxOff + n
           rest == SubSeq(Unread, n + 1, Len(Unread))
           behind == socket \o Unsent
<1>1. /\ Unread \in Seq(Bits) /\ Unsent \in Seq(Bits) /\ socket \in Seq(Bits) /\ Wire \in Seq(Bits)
      /\ Len(Unread) \in Nat /\ Len(Wire) \in Nat /\ Len(Unread) = Len(rxBuf) - rxOff
      /\ rxBuf \in Seq(Bits) /\ rxOff \in 0..Len(rxBuf) /\ Len(rxBuf) \in Nat
  BY WireParts, LenProperties DEF FramedInv, FramedTypes
<1>2. 1 \in 1..Len(Unread) /\ Wire[1] = Unread[1]
  <2>1. 1 \in 1..Len(Unread)
    BY <1>1, EmptySeq DEF Poll, Whole
  <2> QED
    BY <2>1, WireParts DEF FramedInv
<1>3. Wire # <<>> /\ Wire[1] \in Bits /\ n \in Nat /\ n <= Len(Unread)
  <2>1. Len(Wire) > 0
    BY <1>1, <1>2, WireParts DEF FramedInv
  <2>2. Wire[1] \in Bits
    BY <1>1, <1>2, ElementOfSeq
  <2> QED
    BY <1>2, <2>1, <2>2, EmptySeq DEF Poll, Whole, Bits
<1>4. /\ delivered' = Append(delivered, Wire[1].frame)
      /\ IF off > RxCompactAt THEN rxBuf' = SubSeq(rxBuf, off + 1, Len(rxBuf)) /\ rxOff' = 0
                              ELSE rxOff' = off /\ rxBuf' = rxBuf
      /\ UNCHANGED <<frames, txBuf, txOff, socket>>
  BY <1>2 DEF Poll, txVars
<1> HIDE DEF n
<1>5. off \in 0..Len(rxBuf) /\ rest = SubSeq(rxBuf, off + 1, Len(rxBuf))
  <2>1. rxOff \in Nat /\ rxOff + n <= Len(rxBuf)
    BY <1>1, <1>3
  <2> QED
    BY <1>1, <1>3, <2>1, CutTwice DEF Unread
<1>6. rest \in Seq(Bits) /\ rxBuf' \in Seq(Bits) /\ rxOff' \in 0..Len(rxBuf') /\ Unread' = rest
  <2>0. rest \in Seq(Bits) /\ Len(rest) \in Nat
    <3>1. n \in 0..Len(Unread) /\ Unread \in Seq(Bits)
      BY <1>1, <1>3
    <3>2. rest \in Seq(Bits)
      BY <3>1, CutProperties
    <3> QED
      BY <3>2, LenProperties
  <2>1. CASE off > RxCompactAt
    <3>1. rxBuf' = rest /\ rxOff' = 0
      BY <1>4, <1>5, <2>1
    <3>2. Unread' = SubSeq(rest, 1, Len(rest))
      BY <3>1 DEF Unread
    <3>3. Unread' = rest
      BY <2>0, <3>2, SubSeqFull
    <3> QED
      BY <2>0, <3>1, <3>3
  <2>2. CASE ~ off > RxCompactAt
    BY <1>1, <1>4, <1>5, <2>0, <2>2 DEF Unread
  <2> QED
    BY <2>1, <2>2
<1>7. Unsent' = Unsent
  BY <1>4 DEF Unsent
<1>8. Wire' = SubSeq(Wire, n + 1, Len(Wire))
  <2>1. behind \in Seq(Bits)
    BY <1>1, ConcatProperties
  <2>2. n \in 0..Len(Unread)
    BY <1>1, <1>3
  <2>3. SubSeq(Unread \o behind, n + 1, Len(Unread \o behind)) = rest \o behind
    BY <1>1, <2>1, <2>2, CutLonger
  <2> QED
    BY <1>4, <1>6, <1>7, <2>3 DEF Wire
<1>9. FramedTypes'
  <2>1. delivered' \in Seq(Nat)
    BY <1>3, <1>4, AppendProperties DEF FramedInv, FramedTypes, Bits
  <2> QED
    BY <1>1, <1>4, <1>6, <2>1 DEF FramedInv, FramedTypes
<1> QED
  BY <1>3, <1>4, <1>7, <1>8, <1>9 DEF n

-----------------------------------------------------------------------------
LEMMA FramedStarts == FramedInit => FramedInv
<1> SUFFICES ASSUME FramedInit PROVE FramedInv
  OBVIOUS
<1>1. /\ frames = <<>> /\ delivered = <<>> /\ txBuf = <<>> /\ socket = <<>> /\ rxBuf = <<>>
      /\ txOff = 0 /\ rxOff = 0
  BY DEF FramedInit
<1>2. \A S : <<>> \in Seq(S) /\ Len(<<>>) = 0
  BY EmptySeq
<1>3. FramedTypes
  BY <1>1, <1>2 DEF FramedTypes
<1>4. Len(Wire) = 0
  <2>1. Len(Unread) = 0 /\ Len(Unsent) = 0 /\ Len(Wire) = Len(Unread) + Len(socket) + Len(Unsent)
    BY <1>1, <1>2, <1>3, WireParts
  <2> QED
    BY <1>1, <1>2, <2>1
<1>5. Carries(Wire, Len(delivered) + 1, Len(frames))
  BY <1>1, <1>2, <1>4 DEF Carries, InPlace, Rising, OnceEach
<1> QED
  BY <1>1, <1>2, <1>3, <1>5 DEF FramedInv

LEMMA SendKeeps == ASSUME FramedInv, NEW n \in Sizes, SendFrame(n) PROVE FramedInv'
<1>1. FramedTypes /\ FramedTypes' /\ Len(frames) \in Nat /\ Len(delivered) \in Nat /\ n \in Nat \ {0}
  BY FramedAssumption, SendLengthens, LenProperties DEF FramedInv, FramedTypes
<1>2. frames' = Append(frames, Len(frames) + 1) /\ delivered' = delivered
  BY DEF SendFrame, rxVars
<1>3. /\ Len(frames') = Len(frames) + 1 /\ \A i \in 1..Len(frames) : frames'[i] = frames[i]
      /\ frames'[Len(frames) + 1] = Len(frames) + 1
  BY <1>1, <1>2, AppendProperties DEF FramedTypes
<1>4. \A i \in 1..Len(frames') : frames'[i] = i
  <2>1. \A i \in 1..Len(frames') : i \in 1..Len(frames) \/ i = Len(frames) + 1
    BY <1>1, <1>3
  <2> QED
    BY <1>3, <2>1 DEF FramedInv
<1>5. Carries(Wire', Len(delivered) + 1, Len(frames) + 1)
  <2>1. Wire \in Seq(Bits)
    BY <1>1, WireParts
  <2>2. Wire' = Wire \o [i \in 1..n |-> Piece(Len(frames) + 1, i, n)]
    BY <1>1, SendLengthens
  <2>3. Len(delivered) + 1 \in Nat /\ Len(delivered) + 1 <= Len(frames) + 1
    BY <1>1 DEF FramedInv
  <2> QED
    BY <1>1, <2>1, <2>2, <2>3, CarriesOneMore DEF FramedInv
<1>6. Len(delivered') <= Len(frames')
  BY <1>1, <1>2, <1>3 DEF FramedInv
<1> QED
  BY <1>1, <1>2, <1>3, <1>4, <1>5, <1>6 DEF FramedInv

(* What the first piece on the wire is of, when a frame is taken. *)
LEMMA PollTakesTheNext ==
  ASSUME FramedInv, Poll
  PROVE  /\ delivered' = Append(delivered, Len(delivered) + 1)
         /\ Len(delivered') = Len(delivered) + 1 /\ Len(delivered) + 1 <= Len(frames)
         /\ Carries(Wire', Len(delivered) + 2, Len(frames))
         /\ \A i \in 1..Len(Wire) : i > Len(Unread) => Wire[i].frame > Len(delivered) + 1
<1> DEFINE n == Wire[1].size
<1>1. /\ Wire # <<>> /\ n <= Len(Unread) /\ Wire' = SubSeq(Wire, n + 1, Len(Wire))
      /\ delivered' = Append(delivered, Wire[1].frame)
  BY PollTakes
<1>2. /\ Wire \in Seq(Bits) /\ Len(delivered) + 1 \in Nat /\ Len(frames) \in Nat
      /\ Len(delivered) \in Nat /\ delivered \in Seq(Nat) /\ Len(Unread) \in Nat
  BY WireParts, LenProperties DEF FramedInv, FramedTypes
<1>3. /\ Wire[1].frame = Len(delivered) + 1 /\ Len(delivered) + 1 <= Len(frames)
      /\ n \in 1..Len(Wire)
      /\ Carries(SubSeq(Wire, n + 1, Len(Wire)), (Len(delivered) + 1) + 1, Len(frames))
      /\ \A i \in 1..Len(Wire) : i > n => Wire[i].frame > Len(delivered) + 1
  BY <1>1, <1>2, CarriesOneLess DEF FramedInv
<1> HIDE DEF n
<1>4. Len(delivered') = Len(delivered) + 1
  BY <1>1, <1>2, <1>3, AppendProperties
<1>5. (Len(delivered) + 1) + 1 = Len(delivered) + 2
  BY <1>2
<1>6. \A i \in 1..Len(Wire) : i > Len(Unread) => i > n
  BY <1>1, <1>2, <1>3
<1> QED
  BY <1>1, <1>3, <1>4, <1>5, <1>6

LEMMA FramedStepKeeps == FramedInv /\ [FramedNext]_framedVars => FramedInv'
<1> SUFFICES ASSUME FramedInv, [FramedNext]_framedVars PROVE FramedInv'
  OBVIOUS
<1>1. ASSUME UNCHANGED <<frames, delivered, txBuf, txOff, socket, rxBuf, rxOff>> PROVE FramedInv'
  <2>1. Wire' = Wire
    BY <1>1 DEF Wire, Unread, Unsent
  <2>2. FramedTypes'
    BY <1>1 DEF FramedInv, FramedTypes
  <2> QED
    BY <1>1, <2>1, <2>2 DEF FramedInv
<1>2. CASE UNCHANGED framedVars
  BY <1>1, <1>2 DEF framedVars, txVars, rxVars
<1>3. CASE \E n \in Sizes : SendFrame(n)
  BY <1>3, SendKeeps
<1>4. CASE Overrun \/ Close \/ PassOver
  BY <1>1, <1>4 DEF Overrun, Close, PassOver, txVars, rxVars
<1>5. ASSUME NEW n \in 1..SocketCap, Flush(n) PROVE FramedInv'
  <2>1. FramedTypes' /\ Wire' = Wire
    BY <1>5, FlushMoves DEF FramedInv
  <2>2. UNCHANGED <<frames, delivered>>
    BY <1>5 DEF Flush, rxVars
  <2> QED
    BY <2>1, <2>2 DEF FramedInv
<1>6. ASSUME NEW n \in 0..PassPieces, Recv(n) PROVE FramedInv'
  <2>1. FramedTypes' /\ Wire' = Wire
    BY <1>6, RecvMoves DEF FramedInv
  <2>2. UNCHANGED <<frames, delivered>>
    BY <1>6 DEF Recv, txVars
  <2> QED
    BY <2>1, <2>2 DEF FramedInv
<1>7. CASE Poll
  <2>1. FramedTypes' /\ frames' = frames
    BY <1>7, PollTakes DEF Poll, txVars
  <2>2. Len(delivered') = Len(delivered) + 1 /\ Len(delivered) + 1 <= Len(frames)
        /\ Carries(Wire', Len(delivered) + 2, Len(frames))
    BY <1>7, PollTakesTheNext
  <2>3. Len(delivered') + 1 = Len(delivered) + 2
    BY <2>2, LenProperties DEF FramedInv, FramedTypes
  <2> QED
    BY <2>1, <2>2, <2>3 DEF FramedInv
<1> QED
  BY <1>2, <1>3, <1>4, <1>5, <1>6, <1>7 DEF FramedNext, SomeFlush, ServicePass, SomeRecv

(* The pieces on their way, in either buffer or in the socket, are those of *)
(* the frames still to come out, each frame whole and once, in the order    *)
(* they were sent (conn.cpp, sendFrame, flushWrite, recvSome, poll).        *)
THEOREM FramesStayWhole == FramedSpec => []FramedInv
BY FramedStarts, FramedStepKeeps, PTL DEF FramedSpec

-----------------------------------------------------------------------------
(* The promise of FrameLink, step by step. *)

LinkView == <<frames, HasLeft, delivered, open>>

NextToLeave == HasLeft = IF Unsent = <<>> THEN Len(frames) ELSE Unsent[1].frame - 1

LEMMA AlsoAfterwards == FramedInv' => NextToLeave'
<1>1. FramedInv => NextToLeave
  BY WhatHasLeft DEF NextToLeave
<1> QED
  BY <1>1, PTL

LEMMA LinkStarts == FramedInit => Link!LinkInit
<1> SUFFICES ASSUME FramedInit PROVE Link!LinkInit
  OBVIOUS
<1>1. FramedInv /\ frames = <<>> /\ delivered = <<>> /\ open = TRUE /\ Unsent = <<>>
  <2>1. Unsent = <<>>
    BY SubSeqEmpty, EmptySeq DEF FramedInit, Unsent
  <2> QED
    BY <2>1, FramedStarts DEF FramedInit
<1>2. HasLeft = 0
  BY <1>1, WhatHasLeft, EmptySeq
<1> QED
  BY <1>1, <1>2 DEF Link!LinkInit

LEMMA SendGives == ASSUME FramedInv, NEW n \in Sizes, SendFrame(n) PROVE Link!Give
<1> DEFINE more == [i \in 1..n |-> Piece(Len(frames) + 1, i, n)]
<1>1. FramedInv' /\ FramedTypes
  BY SendKeeps DEF FramedInv
<1>2. Unsent' = Unsent \o more /\ n \in Nat \ {0} /\ Len(frames) \in Nat
  BY <1>1, FramedAssumption, SendLengthens, LenProperties DEF FramedTypes
<1>3. open /\ frames' = Append(frames, Len(frames) + 1) /\ UNCHANGED <<delivered, open>>
  BY DEF SendFrame, rxVars
<1>4. Len(frames') = Len(frames) + 1
  BY <1>1, <1>2, <1>3, AppendProperties DEF FramedTypes
<1>5. /\ more \in Seq(Bits) /\ Len(more) = n /\ Unsent \in Seq(Bits)
      /\ more[1] = Piece(Len(frames) + 1, 1, n)
  <2>1. \A i \in 1..n : Piece(Len(frames) + 1, i, n) \in Bits
    BY <1>2 DEF Piece, Bits
  <2>2. more \in Seq(Bits) /\ Len(more) = n
    BY <1>2, <2>1, IsASeq, LenProperties
  <2> QED
    BY <1>1, <1>2, <2>2, WireParts
<1> HIDE DEF more
<1>6. /\ Len(Unsent) \in Nat /\ Len(Unsent') = Len(Unsent) + n
      /\ \A i \in 1..(Len(Unsent) + n) :
           Unsent'[i] = IF i <= Len(Unsent) THEN Unsent[i] ELSE more[i - Len(Unsent)]
  BY <1>2, <1>5, ConcatProperties, LenProperties
<1>7. Unsent' # <<>> /\ 1 \in 1..(Len(Unsent) + n)
  BY <1>2, <1>6, EmptySeq
<1>8. HasLeft' = Unsent'[1].frame - 1
  BY <1>1, <1>7, AlsoAfterwards DEF NextToLeave
<1>9. CASE Unsent = <<>>
  <2>1. Unsent'[1] = more[1] /\ Len(Unsent) = 0
    <3>1. Len(Unsent) = 0
      BY <1>9, EmptySeq
    <3> QED
      BY <1>6, <1>7, <3>1
  <2>2. HasLeft = Len(frames)
    BY <1>9, WhatHasLeft
  <2>3. HasLeft' = Len(frames) + 1 - 1
    BY <1>5, <1>8, <2>1, PieceParts
  <2> QED
    BY <1>2, <1>3, <2>2, <2>3 DEF Link!Give
<1>10. CASE Unsent # <<>>
  <2>1. 1 <= Len(Unsent)
    BY <1>5, <1>6, <1>10, EmptySeq
  <2>2. Unsent'[1] = Unsent[1]
    BY <1>6, <1>7, <2>1
  <2> QED
    BY <1>3, <1>8, <1>10, <2>2, WhatHasLeft DEF Link!Give
<1> QED
  BY <1>9, <1>10

LEMMA FlushLeaves ==
  ASSUME FramedInv, FramedInv', NEW n \in 1..SocketCap, Flush(n)
  PROVE  Link!Leave \/ UNCHANGED LinkView
<1>1. /\ n <= Len(Unsent) /\ Unsent' = SubSeq(Unsent, n + 1, Len(Unsent))
      /\ Unsent \in Seq(Bits) /\ Len(Unsent) \in Nat /\ n \in Nat /\ n > 0
  BY FlushMoves, WireParts, FramedAssumption DEF FramedInv
<1>2. open /\ UNCHANGED <<frames, delivered, open>>
  BY DEF Flush, rxVars
<1>3. Unsent # <<>> /\ HasLeft = Unsent[1].frame - 1
  BY <1>1, EmptySeq, WhatHasLeft
<1>4. HasLeft' = IF Unsent' = <<>> THEN Len(frames') ELSE Unsent'[1].frame - 1
  BY AlsoAfterwards DEF NextToLeave
<1>5. /\ Unsent[1].frame \in (Len(delivered) + 1)..Len(frames)
      /\ \A i \in 1..Len(Unsent) : Unsent[i].frame \in Unsent[1].frame..Len(frames)
      /\ Len(frames) \in Nat /\ Len(delivered) \in Nat
  BY <1>3, WhatHasLeft, LenProperties DEF FramedInv, FramedTypes
<1>6. HasLeft' \in HasLeft..Len(frames)
  <2>1. CASE Unsent' = <<>>
    BY <1>2, <1>3, <1>4, <1>5, <2>1
  <2>2. CASE Unsent' # <<>>
    <3>1. Len(Unsent') = Len(Unsent) - n /\ Unsent' \in Seq(Bits)
          /\ \A i \in 1..(Len(Unsent) - n) : Unsent'[i] = Unsent[n + i]
      BY <1>1, CutProperties
    <3>2. 1 \in 1..(Len(Unsent) - n)
      BY <1>1, <2>2, <3>1, EmptySeq
    <3>3. n + 1 \in 1..Len(Unsent) /\ Unsent'[1] = Unsent[n + 1]
      BY <1>1, <3>1, <3>2
    <3>4. Unsent'[1].frame \in Unsent[1].frame..Len(frames)
      BY <1>5, <3>3
    <3>5. Unsent[1].frame \in Nat /\ Unsent'[1].frame \in Nat
      BY <1>5, <3>4
    <3>6. HasLeft' = Unsent'[1].frame - 1
      BY <1>4, <2>2
    <3>7. HasLeft = Unsent[1].frame - 1 /\ Len(frames) \in Nat
      BY <1>3, <1>5
    <3> QED
      BY <3>4, <3>5, <3>6, <3>7
  <2> QED
    BY <2>1, <2>2
<1>7. CASE HasLeft' = HasLeft
  BY <1>2, <1>7 DEF LinkView
<1>8. CASE HasLeft' # HasLeft
  <2>1. HasLeft \in Nat /\ HasLeft < Len(frames)
    BY <1>3, <1>5
  <2>2. HasLeft' \in (HasLeft + 1)..Len(frames)
    BY <1>5, <1>6, <1>8, <2>1
  <2> QED
    BY <1>2, <2>1, <2>2 DEF Link!Leave
<1> QED
  BY <1>7, <1>8

LEMMA PollIsEmerge == ASSUME FramedInv, Poll PROVE Link!Emerge
<1>1. /\ delivered' = Append(delivered, Len(delivered) + 1) /\ Len(delivered) + 1 <= Len(frames)
      /\ \A i \in 1..Len(Wire) : i > Len(Unread) => Wire[i].frame > Len(delivered) + 1
  BY PollTakesTheNext
<1>2. UNCHANGED <<frames, open>> /\ Unsent' = Unsent
  BY PollTakes DEF Poll, txVars
<1>3. HasLeft' = HasLeft
  BY <1>2 DEF HasLeft
<1>4. Len(delivered) \in Nat /\ Len(frames) \in Nat
  BY LenProperties DEF FramedInv, FramedTypes
<1>5. frames[Len(delivered) + 1] = Len(delivered) + 1
  <2>1. Len(delivered) + 1 \in 1..Len(frames)
    BY <1>1, <1>4
  <2> QED
    BY <2>1 DEF FramedInv
<1>6. Len(delivered) < HasLeft
  <2>1. CASE Unsent = <<>>
    BY <1>1, <1>4, <2>1, WhatHasLeft
  <2>2. CASE Unsent # <<>>
    <3>1. /\ Len(Unread) \in Nat /\ Len(socket) \in Nat /\ Len(Unsent) \in Nat
          /\ Len(Wire) = Len(Unread) + Len(socket) + Len(Unsent) /\ Unsent \in Seq(Bits)
      BY WireParts DEF FramedInv
    <3>2. Len(Unsent) > 0
      BY <2>2, <3>1, EmptySeq
    <3>3. Len(Unread) + Len(socket) + 1 \in 1..Len(Wire) /\ Len(Unread) + Len(socket) + 1 > Len(Unread)
      BY <3>1, <3>2
    <3>4. Unsent[1].frame > Len(delivered) + 1 /\ Unsent[1].frame \in (Len(delivered) + 1)..Len(frames)
      BY <1>1, <2>2, <3>3, WhatHasLeft
    <3>5. HasLeft = Unsent[1].frame - 1
      BY <2>2, WhatHasLeft
    <3> QED
      BY <1>4, <3>4, <3>5
  <2> QED
    BY <2>1, <2>2
<1> QED
  BY <1>1, <1>2, <1>3, <1>5, <1>6 DEF Link!Emerge

LEMMA LinkStep ==
  ASSUME FramedInv, FramedInv', [FramedNext]_framedVars PROVE [Link!LinkNext]_LinkView
<1>1. ASSUME UNCHANGED <<frames, delivered, open, txBuf, txOff>> PROVE UNCHANGED LinkView
  BY <1>1 DEF LinkView, HasLeft, Unsent
<1>2. CASE UNCHANGED framedVars \/ PassOver
  BY <1>1, <1>2 DEF framedVars, txVars, rxVars, PassOver
<1>3. CASE \E n \in Sizes : SendFrame(n)
  BY <1>3, SendGives DEF Link!LinkNext
<1>4. CASE Overrun \/ Close
  <2>1. open /\ open' = FALSE /\ UNCHANGED <<frames, delivered, txBuf, txOff>>
    BY <1>4 DEF Overrun, Close, rxVars
  <2>2. HasLeft' = HasLeft
    BY <2>1 DEF HasLeft, Unsent
  <2> QED
    BY <2>1, <2>2 DEF Link!LinkNext, Link!HangUpLink
<1>5. CASE SomeFlush
  BY <1>5, FlushLeaves DEF SomeFlush, Link!LinkNext
<1>6. CASE SomeRecv
  BY <1>1, <1>6 DEF SomeRecv, Recv, txVars
<1>7. CASE Poll
  BY <1>7, PollIsEmerge DEF Link!LinkNext
<1> QED
  BY <1>2, <1>3, <1>4, <1>5, <1>6, <1>7 DEF FramedNext, ServicePass

(* Frames come out whole, in the order they were given and once, and none   *)
(* before its last piece has left the sender, however sender, socket and    *)
(* receiver cut the stream up.                                             *)
THEOREM LinkHolds == FramedSpec => Link!LinkInit /\ [][Link!LinkNext]_(Link!linkVars)
<1>1. FramedInv /\ FramedInv' /\ [FramedNext]_framedVars => [Link!LinkNext]_LinkView
  BY LinkStep
<1>2. [Link!LinkNext]_LinkView <=> [Link!LinkNext]_(Link!linkVars)
  BY DEF LinkView, Link!linkVars
<1> QED
  BY <1>1, <1>2, LinkStarts, FramesStayWhole, PTL DEF FramedSpec
=============================================================================
