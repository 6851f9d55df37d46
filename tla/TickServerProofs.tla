--------------------------- MODULE TickServerProofs ---------------------------
(***************************************************************************)
(* What the tick server promises for any number of slots, connections,     *)
(* spectators and ticks.                                                   *)
(*                                                                         *)
(* The heart is StreamIsPrefix, and what it needs beside itself is small:  *)
(* a cursor is never past the end of the log (Cursors), so that the last   *)
(* chunk ends exactly where the live broadcast goes on; and a connection   *)
(* is attached exactly while it is in the game, in one place (Places), so  *)
(* that a client that starts over was not a member before and one that has *)
(* left is not fed.  With these each step of the server is a step of       *)
(* BundleStream or invisible to it.  Three further invariants stand on     *)
(* this one: ReportsAreBehind, for flow control, Clean, for what a lost    *)
(* connection leaves behind, and on Clean in turn Ordered, for the order   *)
(* of a player's commands.                                                 *)
(***************************************************************************)
EXTENDS TickServer, SequenceTheorems, FiniteSetTheorems, TLAPS

USE DEF room, ticks, client, remote

(* Seats, held slots and closed slots exclude each other; whoever sits in a *)
(* slot is its player, watches nothing, and is in the game.                 *)
Places ==
  /\ \A s \in Slots : slotClient[s] # None => Seat[slotClient[s]] = s
  /\ \A s \in Slots : slotClient[s] \notin spectators
  /\ \A s \in Slots :
       /\ slotClient[s] # None => ~ held[s] /\ ~ closed[s]
       /\ held[s] => ~ closed[s]
       /\ slotClient[s] # None \/ held[s] \/ closed[s]
  /\ ~ over => \A c \in Conns : state[c] = "game" <=> c \in Members

(* No cursor is past the end of the log. *)
Cursors == \A c \in Conns : replayPos[c] <= Len(log)

IInv ==
  /\ TypeOK
  /\ Places
  /\ PauseHasAnEnd
  /\ Cursors
  /\ StreamIsPrefix

(* What the steps that only move data leave alone. *)
Attachment == <<slotClient, closed, held, pause, spectators, over, state>>

(* A step of the server is a frame of some client, a connection that is     *)
(* lost or fed or read from, or a step of the server's own loop.            *)
AnyFrame(c) ==
  ClientFrame(c) \/ (\E want \in BOOLEAN : SetPause(c, want)) \/ (c \in Watchers /\ Spectate(c))

LEMMA NextIs ==
  ASSUME Next
  PROVE  \/ \E c \in Conns : AnyFrame(c) \/ DropClient(c) \/ Feed(c) \/ ReadStart(c) \/ Consume(c)
         \/ \E s \in Slots : Sweep(s)
         \/ Teardown
         \/ CloseTick
BY TickAssumption DEF Next, AnyFrame

-----------------------------------------------------------------------------
(* Types *)

LEMMA CommandsType ==
  ASSUME TypeOK, NEW c \in Conns, NEW k \in 1 .. MaxSend, PlayerCommands(c, k)
  PROVE  queue' \in [Conns -> Seq(Commands)]
<1> DEFINE batch == [i \in 1 .. k |-> [conn |-> c, n |-> orders[c] + i]]
           free  == QueueCap - Len(queue[c])
           m     == IF k < free THEN k ELSE free
<1>1. queue \in [Conns -> Seq(Commands)] /\ orders \in [Conns -> Nat]
  BY DEF TypeOK
<1>2. m \in Int /\ m <= k
  BY <1>1, LenProperties, TickAssumption
<1>3. \A i \in 1 .. m : batch[i] \in Commands
  BY <1>1, <1>2, TickAssumption DEF PlayerCommands, Commands
<1>4. SubSeq(batch, 1, m) \in Seq(Commands)
  <2> HIDE DEF batch, m
  <2>1. QED
    BY <1>2, <1>3, SubSeqProperties
<1>5. queue[c] \o SubSeq(batch, 1, m) \in Seq(Commands)
  BY <1>1, <1>4, ConcatProperties
<1>6. queue' = [queue EXCEPT ![c] = queue[c] \o SubSeq(batch, 1, m)]
  BY DEF PlayerCommands
<1>7. QED
  BY <1>1, <1>5, <1>6

LEMMA TypeInit == Init => TypeOK
<1> SUFFICES ASSUME Init PROVE TypeOK
  OBVIOUS
<1>1. NoOrders \in [Slots -> Seq(Commands)]
  BY DEF NoOrders
<1>2. sched \in [1 .. Delay -> [Slots -> Seq(Commands)]]
  BY <1>1 DEF Init
<1>3. /\ slotClient \in [Slots -> Conns \cup {None}]
      /\ ack \in [Conns -> Nat] /\ brought \in [Conns -> Nat]
  BY TickAssumption DEF Init
<1>4. /\ log \in Seq([cmds : [Slots -> Seq(Commands)], events : Seq(Events)])
      /\ events \in Seq(Events)
      /\ queue \in [Conns -> Seq(Commands)] /\ sent \in [Conns -> Seq(Nat)]
  BY DEF Init
<1>5. /\ closed \in [Slots -> BOOLEAN] /\ held \in [Slots -> BOOLEAN]
      /\ token \in [Slots -> Nat] /\ budget \in [Slots -> BOOLEAN]
      /\ pause \in Slots \cup {None, "request"}
      /\ spectators \subseteq Conns
      /\ over \in BOOLEAN
      /\ state \in [Conns -> {"lobby", "game", "gone"}]
      /\ loaded \in [Conns -> BOOLEAN]
      /\ replaying \in [Conns -> BOOLEAN] /\ replayPos \in [Conns -> Nat]
      /\ boundary \in [Conns -> Nat] /\ started \in [Conns -> BOOLEAN]
      /\ seen \in [Conns -> Nat] /\ orders \in [Conns -> Nat]
      /\ card \in [Slots -> Nat]
  BY DEF Init
<1>6. QED
  BY <1>2, <1>3, <1>4, <1>5, Zenon DEF TypeOK

(* The slot of a seated connection. *)
LEMMA SlotOfIsASlot ==
  ASSUME NEW c \in Conns, Seated(c)
  PROVE  SlotOf(c) \in Slots /\ slotClient[SlotOf(c)] = c
BY DEF Seated, SlotOf

LEMMA DropPendingType ==
  ASSUME TypeOK, NEW c \in Conns, DropPendingCommands(c)
  PROVE  /\ queue' \in [Conns -> Seq(Commands)]
         /\ sched' \in [1 .. Delay -> [Slots -> Seq(Commands)]]
<1>1. queue' \in [Conns -> Seq(Commands)]
  BY DEF TypeOK, DropPendingCommands
<1>2. CASE ~ Seated(c)
  BY <1>1, <1>2 DEF TypeOK, DropPendingCommands
<1>3. CASE Seated(c)
  <2> DEFINE purged(k) == [sched[k] EXCEPT ![SlotOf(c)] = << >>]
  <2>0. sched \in [1 .. Delay -> [Slots -> Seq(Commands)]] /\ << >> \in Seq(Commands)
    BY DEF TypeOK
  <2>1. \A k \in 1 .. Delay : purged(k) \in [Slots -> Seq(Commands)]
    BY <2>0
  <2>2. sched' = [k \in 1 .. Delay |-> purged(k)]
    BY <1>3 DEF DropPendingCommands
  <2>3. QED
    BY <1>1, <2>1, <2>2
<1>4. QED
  BY <1>2, <1>3

LEMMA CloseTickType ==
  ASSUME TypeOK, CloseTick
  PROVE  /\ log' \in Seq([cmds : [Slots -> Seq(Commands)], events : Seq(Events)])
         /\ sched' \in [1 .. Delay -> [Slots -> Seq(Commands)]]
         /\ queue' \in [Conns -> Seq(Commands)]
         /\ sent' \in [Conns -> Seq(Nat)]
<1> DEFINE drained == [s \in Slots |-> Taken(s)]
           bundle  == [cmds   |-> IF Delay = 0 THEN drained ELSE sched[1],
                       events |-> events]
           kept(c) == IF Seated(c)
                        THEN SubSeq(queue[c], Len(Taken(SlotOf(c))) + 1, Len(queue[c]))
                        ELSE queue[c]
<1>1. \A s \in Slots : Taken(s) \in Seq(Commands)
  <2> SUFFICES ASSUME NEW s \in Slots, slotClient[s] # None
               PROVE  Taken(s) \in Seq(Commands)
    BY DEF Taken
  <2> DEFINE q == queue[slotClient[s]]
             n == IF Len(q) < Cap THEN Len(q) ELSE Cap
  <2>1. q \in Seq(Commands)
    BY DEF TypeOK
  <2>2. n \in Int /\ \A i \in 1 .. n : q[i] \in Commands
    BY <2>1, LenProperties, ElementOfSeq, TickAssumption
  <2>3. SubSeq(q, 1, n) \in Seq(Commands)
    BY <2>2, SubSeqProperties
  <2>4. QED
    BY <2>3 DEF Taken
<1>2. drained \in [Slots -> Seq(Commands)]
  BY <1>1
<1>3. sched \in [1 .. Delay -> [Slots -> Seq(Commands)]] /\ events \in Seq(Events) /\ Delay \in Nat
  BY TickAssumption DEF TypeOK
<1>4. bundle \in [cmds : [Slots -> Seq(Commands)], events : Seq(Events)]
  BY <1>2, <1>3
<1>5. log' \in Seq([cmds : [Slots -> Seq(Commands)], events : Seq(Events)])
  <2>1. log' = Append(log, bundle)
    BY DEF CloseTick
  <2>2. log \in Seq([cmds : [Slots -> Seq(Commands)], events : Seq(Events)])
    BY DEF TypeOK
  <2>3. QED
    BY <1>4, <2>1, <2>2, AppendProperties
<1>6. sched' \in [1 .. Delay -> [Slots -> Seq(Commands)]]
  <2>1. sched' = [k \in 1 .. Delay |-> IF k = Delay THEN drained ELSE sched[k + 1]]
    BY DEF CloseTick
  <2>2. QED
    BY <1>2, <1>3, <2>1
<1>7. queue' \in [Conns -> Seq(Commands)]
  <2>1. ASSUME NEW c \in Conns PROVE kept(c) \in Seq(Commands)
    <3>1. queue[c] \in Seq(Commands)
      BY DEF TypeOK
    <3>2. CASE Seated(c)
      <4>1. Len(Taken(SlotOf(c))) \in Nat
        BY <1>1, <3>2, SlotOfIsASlot, LenProperties
      <4> DEFINE m == Len(Taken(SlotOf(c))) + 1
      <4>2. m \in Int /\ m >= 1 /\ Len(queue[c]) \in Int
        BY <4>1, <3>1, LenProperties
      <4>3. \A i \in m .. Len(queue[c]) : queue[c][i] \in Commands
        BY <3>1, <4>2, ElementOfSeq
      <4> HIDE DEF m
      <4>4. SubSeq(queue[c], m, Len(queue[c])) \in Seq(Commands)
        BY <4>2, <4>3, SubSeqProperties
      <4>5. QED
        BY <3>2, <4>4 DEF m
    <3>3. QED
      BY <3>1, <3>2
  <2>2. queue' = [c \in Conns |-> kept(c)]
    BY DEF CloseTick
  <2>3. QED
    BY <2>1, <2>2
<1>8. sent' \in [Conns -> Seq(Nat)]
  <2>1. Tick \in Nat
    BY LenProperties DEF TypeOK, Tick
  <2>2. \A c \in Conns : sent[c] \in Seq(Nat) /\ Append(sent[c], Tick) \in Seq(Nat)
    BY <2>1, AppendProperties DEF TypeOK
  <2>3. QED
    BY <2>2 DEF CloseTick
<1>9. QED
  BY <1>5, <1>6, <1>7, <1>8

LEMMA LeaveRoomType ==
  ASSUME TypeOK, NEW c \in Conns, InGame(c), c \in Members, LeaveRoom(c)
  PROVE  /\ slotClient' \in [Slots -> Conns \cup {None}]
         /\ closed' \in [Slots -> BOOLEAN]
         /\ spectators' \subseteq Conns
         /\ events' \in Seq(Events)
<1>1. slotClient' \in [Slots -> Conns \cup {None}] /\ closed' \in [Slots -> BOOLEAN]
  BY DEF TypeOK, LeaveRoom
<1>2. spectators' \subseteq Conns
  BY DEF TypeOK, LeaveRoom
<1>3. events' \in Seq(Events)
  <2>1. CASE c \in spectators
    BY <2>1 DEF TypeOK, LeaveRoom
  <2>2. CASE c \notin spectators
    <3>1. SlotOf(c) \in Slots
      BY <2>2, SlotOfIsASlot DEF Members, Seated
    <3>2. [kind |-> "Leave", player |-> SlotOf(c)] \in Events /\ events \in Seq(Events)
      BY <3>1 DEF Events, TypeOK
    <3>3. QED
      BY <2>2, <3>2, AppendProperties DEF LeaveRoom
  <2>3. QED
    BY <2>1, <2>2
<1>4. QED
  BY <1>1, <1>2, <1>3

LEMMA DropClientType ==
  ASSUME TypeOK, NEW c \in Conns, c \in Members, DropClient(c)
  PROVE  TypeOK'
<1>1. /\ queue' \in [Conns -> Seq(Commands)]
      /\ sched' \in [1 .. Delay -> [Slots -> Seq(Commands)]]
  BY DropPendingType DEF DropClient, HoldSlot, LeaveRoom
<1>2. /\ slotClient' \in [Slots -> Conns \cup {None}]
      /\ closed' \in [Slots -> BOOLEAN]
      /\ spectators' \subseteq Conns
      /\ events' \in Seq(Events)
  <2>1. CASE HoldSlot(c)
    BY <2>1 DEF TypeOK, HoldSlot
  <2>2. CASE LeaveRoom(c)
    BY <2>2, LeaveRoomType DEF DropClient
  <2>3. QED
    BY <2>1, <2>2 DEF DropClient
<1>3. held' \in [Slots -> BOOLEAN] /\ pause' \in Slots \cup {None, "request"}
  <2>1. CASE Seated(c) /\ HoldSlot(c)
    BY <2>1, SlotOfIsASlot DEF TypeOK, HoldSlot
  <2>2. CASE LeaveRoom(c)
    BY <2>2 DEF TypeOK, LeaveRoom
  <2>3. QED
    BY <2>1, <2>2 DEF DropClient
<1>4. /\ token' = token /\ budget' = budget /\ log' = log /\ over' = over /\ card' = card
  BY DEF DropClient, HoldSlot, LeaveRoom
<1>5. /\ state' \in [Conns -> {"lobby", "game", "gone"}]
      /\ loaded' \in [Conns -> BOOLEAN]
      /\ ack' \in [Conns -> Nat] /\ brought' \in [Conns -> Nat]
      /\ replaying' \in [Conns -> BOOLEAN] /\ replayPos' \in [Conns -> Nat]
      /\ sent' \in [Conns -> Seq(Nat)]
      /\ boundary' \in [Conns -> Nat] /\ started' \in [Conns -> BOOLEAN]
      /\ seen' \in [Conns -> Nat] /\ orders' \in [Conns -> Nat]
  <2>1. /\ state' \in [Conns -> {"lobby", "game", "gone"}]
        /\ loaded' \in [Conns -> BOOLEAN]
        /\ ack' \in [Conns -> Nat] /\ brought' \in [Conns -> Nat]
        /\ replaying' \in [Conns -> BOOLEAN] /\ replayPos' \in [Conns -> Nat]
    BY DEF TypeOK, DropClient
  <2>2. /\ sent' \in [Conns -> Seq(Nat)]
        /\ boundary' \in [Conns -> Nat] /\ started' \in [Conns -> BOOLEAN]
        /\ seen' \in [Conns -> Nat] /\ orders' \in [Conns -> Nat]
    BY DEF TypeOK, DropClient
  <2>3. QED
    BY <2>1, <2>2
<1>6. QED
  BY <1>1, <1>2, <1>3, <1>4, <1>5 DEF TypeOK

LEMMA LeaveGameType ==
  ASSUME TypeOK, NEW c \in Conns, c \in Members, LeaveGame(c)
  PROVE  TypeOK'
<1>1. /\ queue' \in [Conns -> Seq(Commands)]
      /\ sched' \in [1 .. Delay -> [Slots -> Seq(Commands)]]
  BY DropPendingType DEF LeaveGame, LeaveRoom
<1>2. /\ slotClient' \in [Slots -> Conns \cup {None}]
      /\ closed' \in [Slots -> BOOLEAN]
      /\ spectators' \subseteq Conns
      /\ events' \in Seq(Events)
  BY LeaveRoomType DEF LeaveGame
<1>3. /\ held' = held /\ token' = token /\ budget' = budget /\ pause' = pause
      /\ log' = log /\ over' = over /\ card' = card
      /\ ack' = ack /\ brought' = brought /\ replaying' = replaying /\ replayPos' = replayPos
      /\ sent' = sent /\ boundary' = boundary /\ started' = started
      /\ seen' = seen /\ orders' = orders
  BY DEF LeaveGame, LeaveRoom
<1>4. /\ state' \in [Conns -> {"lobby", "game", "gone"}]
      /\ loaded' \in [Conns -> BOOLEAN]
  BY DEF TypeOK, LeaveGame
<1>5. QED
  BY <1>1, <1>2, <1>3, <1>4 DEF TypeOK

LEMMA SendHistoryType ==
  ASSUME TypeOK, NEW c \in Conns, SendHistory(c)
  PROVE  /\ queue' \in [Conns -> Seq(Commands)]
         /\ state' \in [Conns -> {"lobby", "game", "gone"}]
         /\ loaded' \in [Conns -> BOOLEAN]
         /\ replaying' \in [Conns -> BOOLEAN] /\ replayPos' \in [Conns -> Nat]
         /\ sent' \in [Conns -> Seq(Nat)]
         /\ boundary' \in [Conns -> Nat] /\ started' \in [Conns -> BOOLEAN]
         /\ seen' \in [Conns -> Nat] /\ brought' \in [Conns -> Nat]
         /\ log' = log /\ sched' = sched /\ events' = events
         /\ over' = over /\ ack' = ack /\ orders' = orders /\ card' = card
<1>1. Len(log) \in Nat
  BY LenProperties DEF TypeOK
<1>2. QED
  BY <1>1 DEF TypeOK, SendHistory

LEMMA RejoinType ==
  ASSUME TypeOK, NEW c \in Conns, NEW s \in Slots, Rejoin(c, s)
  PROVE  TypeOK'
<1>1. /\ slotClient' \in [Slots -> Conns \cup {None}]
      /\ held' \in [Slots -> BOOLEAN]
      /\ token' \in [Slots -> Nat]
      /\ closed' = closed /\ spectators' = spectators
  BY DEF TypeOK, Rejoin
<1>2. budget' \in [Slots -> BOOLEAN] /\ pause' \in Slots \cup {None, "request"}
  BY DEF TypeOK, Rejoin
<1>3. SendHistory(c)
  BY DEF Rejoin
<1>4. QED
  BY <1>1, <1>2, <1>3, SendHistoryType DEF TypeOK

LEMMA SpectateType ==
  ASSUME TypeOK, NEW c \in Conns, Spectate(c)
  PROVE  TypeOK'
<1>1. /\ spectators' \subseteq Conns /\ SendHistory(c)
      /\ slotClient' = slotClient /\ closed' = closed /\ held' = held
      /\ token' = token /\ budget' = budget /\ pause' = pause
  BY DEF TypeOK, Spectate
<1>2. QED
  BY <1>1, SendHistoryType DEF TypeOK

LEMMA SweepType ==
  ASSUME TypeOK, NEW s \in Slots, Sweep(s)
  PROVE  TypeOK'
<1>1. events' \in Seq(Events)
  <2>1. [kind |-> "Forfeit", player |-> s] \in Events /\ events \in Seq(Events)
    BY DEF Events, TypeOK
  <2>2. QED
    BY <2>1, AppendProperties DEF Sweep
<1>2. /\ held' \in [Slots -> BOOLEAN] /\ closed' \in [Slots -> BOOLEAN]
      /\ pause' \in Slots \cup {None, "request"}
  BY DEF TypeOK, Sweep
<1>3. QED
  BY <1>1, <1>2 DEF TypeOK, Sweep
LEMMA TypeStep ==
  ASSUME TypeOK, Places, [Next]_vars
  PROVE  TypeOK'
<1>1. ASSUME NEW c \in Conns, Loaded(c) PROVE TypeOK'
  BY <1>1 DEF TypeOK, Loaded
<1>2. ASSUME NEW c \in Conns, NEW k \in 1 .. MaxSend, PlayerCommands(c, k) PROVE TypeOK'
  <2>1. orders' \in [Conns -> Nat]
    <3>1. k \in Nat /\ orders \in [Conns -> Nat]
      BY TickAssumption DEF TypeOK
    <3>2. orders' = [orders EXCEPT ![c] = orders[c] + k]
      BY <1>2 DEF PlayerCommands
    <3>3. QED
      BY <3>1, <3>2
  <2>2. QED
    BY <1>2, <2>1, CommandsType DEF TypeOK, PlayerCommands
<1>3. ASSUME NEW c \in Conns, NEW t \in 0 .. MaxTick, StateHash(c, t) PROVE TypeOK'
  <2>1. t \in Nat /\ ack \in [Conns -> Nat] /\ ack' = [ack EXCEPT ![c] = t]
    BY <1>3, TickAssumption DEF TypeOK, StateHash
  <2>2. ack' \in [Conns -> Nat]
    BY <2>1
  <2>3. QED
    BY <1>3, <2>2 DEF TypeOK, StateHash
<1>4. ASSUME NEW c \in Conns, NEW want \in BOOLEAN, SetPause(c, want) PROVE TypeOK'
  BY <1>4 DEF TypeOK, SetPause
<1>5. ASSUME NEW c \in Conns, LeaveGame(c) PROVE TypeOK'
  BY <1>5, LeaveGameType DEF Places, LeaveGame, InGame
<1>6. ASSUME NEW c \in Conns, NEW s \in Slots, Rejoin(c, s) PROVE TypeOK'
  BY <1>6, RejoinType
<1>7. ASSUME NEW c \in Conns, Spectate(c) PROVE TypeOK'
  BY <1>7, SpectateType
<1>8. ASSUME NEW c \in Conns, DropClient(c) PROVE TypeOK'
  BY <1>8, DropClientType DEF Places, DropClient, InGame
<1>9. ASSUME NEW c \in Conns, Feed(c) PROVE TypeOK'
  <2>1. CASE over \/ state[c] # "game"
    BY <1>9, <2>1 DEF TypeOK, Feed
  <2>2. CASE ~ (over \/ state[c] # "game")
    <3>1. PICK n \in replayPos[c] .. Len(log) :
            /\ replayPos' = [replayPos EXCEPT ![c] = n]
            /\ sent' = [sent EXCEPT ![c] = @ \o [i \in 1 .. (n - replayPos[c]) |->
                                                   replayPos[c] + i - 1]]
            /\ replaying' = [replaying EXCEPT ![c] = ~ CaughtUp(n)]
      BY <1>9, <2>2 DEF Feed
    <3> DEFINE p == replayPos[c]
               part == [i \in 1 .. (n - p) |-> p + i - 1]
    <3>2. p \in Nat /\ n \in Nat /\ p <= n /\ Len(log) \in Nat
      BY LenProperties DEF TypeOK
    <3>3. part \in Seq(Nat)
      <4>1. n - p \in Nat /\ \A i \in 1 .. (n - p) : p + i - 1 \in Nat
        BY <3>2
      <4>2. QED
        BY <4>1
    <3>4. sent[c] \o part \in Seq(Nat)
      BY <3>3, ConcatProperties DEF TypeOK
    <3>5. sent' \in [Conns -> Seq(Nat)]
      BY <3>1, <3>4 DEF TypeOK
    <3>6. replayPos' \in [Conns -> Nat] /\ replaying' \in [Conns -> BOOLEAN]
      BY <3>1, <3>2 DEF TypeOK, CaughtUp
    <3>7. QED
      BY <1>9, <3>5, <3>6 DEF TypeOK, Feed
  <2>3. QED
    BY <2>1, <2>2
<1>10. ASSUME NEW c \in Conns, ReadStart(c) PROVE TypeOK'
  <2>1. card' \in [Slots -> Nat]
    BY <1>10, SlotOfIsASlot DEF TypeOK, ReadStart
  <2>2. QED
    BY <1>10, <2>1 DEF TypeOK, ReadStart
<1>11. ASSUME NEW c \in Conns, Consume(c) PROVE TypeOK'
  <2>1. seen \in [Conns -> Nat] /\ seen' = [seen EXCEPT ![c] = seen[c] + 1]
    BY <1>11 DEF TypeOK, Consume
  <2>2. seen' \in [Conns -> Nat]
    BY <2>1
  <2>3. QED
    BY <1>11, <2>2 DEF TypeOK, Consume
<1>12. ASSUME NEW s \in Slots, Sweep(s) PROVE TypeOK'
  BY <1>12, SweepType
<1>13. CASE Teardown
  BY <1>13 DEF TypeOK, Teardown
<1>14. CASE CloseTick
  <2>1. /\ log' \in Seq([cmds : [Slots -> Seq(Commands)], events : Seq(Events)])
        /\ sched' \in [1 .. Delay -> [Slots -> Seq(Commands)]]
        /\ queue' \in [Conns -> Seq(Commands)]
        /\ sent' \in [Conns -> Seq(Nat)]
    BY <1>14, CloseTickType
  <2>2. /\ events' = << >> /\ over' = over /\ state' = state /\ loaded' = loaded
        /\ ack' = ack /\ brought' = brought /\ replaying' = replaying /\ replayPos' = replayPos
        /\ UNCHANGED <<room, remote>>
    BY <1>14 DEF CloseTick
  <2>3. events' \in Seq(Events)
    BY <2>2
  <2>4. QED
    BY <2>1, <2>2, <2>3 DEF TypeOK
<1>15. CASE UNCHANGED vars
  BY <1>15 DEF TypeOK, vars
<1>16. QED
  BY <1>1, <1>2, <1>3, <1>4, <1>5, <1>6, <1>7, <1>8, <1>9, <1>10, <1>11,
     <1>12, <1>13, <1>14, <1>15, NextIs DEF AnyFrame, ClientFrame

-----------------------------------------------------------------------------
(* Places *)

LEMMA PlacesInit == Init => Places /\ PauseHasAnEnd
BY TickAssumption DEF Init, Places, PauseHasAnEnd, Members, Seated

LEMMA SameAttachment ==
  ASSUME Places, PauseHasAnEnd, UNCHANGED Attachment
  PROVE  Places' /\ PauseHasAnEnd'
BY DEF Places, PauseHasAnEnd, Attachment, Members

(* The seat of a connection is the slot it is the player of. *)
LEMMA SeatIsUnique ==
  ASSUME Places, NEW c \in Conns, Seated(c)
  PROVE  /\ Seat[c] \in Slots
         /\ SlotOf(c) = Seat[c]
         /\ slotClient[Seat[c]] = c
         /\ \A s \in Slots : slotClient[s] = c => s = Seat[c]
         /\ c \notin spectators
BY SlotOfIsASlot, TickAssumption DEF Places, Seated

LEMMA HoldSlotPlaces ==
  ASSUME TypeOK, Places, PauseHasAnEnd, NEW c \in Conns, DropClient(c),
         Seated(c), HoldSlot(c)
  PROVE  Places' /\ PauseHasAnEnd'
<1> DEFINE s == Seat[c]
<1>1. /\ s \in Slots /\ slotClient[s] = c /\ c \notin spectators /\ c # None
      /\ \A t \in Slots : slotClient[t] = c => t = s
      /\ SlotOf(c) = s
  BY SeatIsUnique, TickAssumption
<1>2. /\ slotClient' = [slotClient EXCEPT ![s] = None]
      /\ held' = [held EXCEPT ![s] = TRUE]
      /\ pause' = IF budget[s] /\ pause = None THEN s ELSE pause
      /\ closed' = closed /\ spectators' = spectators /\ over' = over
      /\ state' = [state EXCEPT ![c] = "gone"]
      /\ ~ over
  BY <1>1 DEF HoldSlot, DropClient, InGame
<1>3. /\ slotClient \in [Slots -> Conns \cup {None}] /\ held \in [Slots -> BOOLEAN]
      /\ state \in [Conns -> {"lobby", "game", "gone"}] /\ spectators \subseteq Conns
  BY DEF TypeOK
<1>4. Members' = Members \ {c}
  BY <1>1, <1>2, <1>3 DEF Members
<1>5. PauseHasAnEnd'
  BY <1>1, <1>2, <1>3, TickAssumption DEF PauseHasAnEnd
<1>6. \A d \in Conns : state'[d] = "game" <=> d \in Members'
  BY <1>2, <1>3, <1>4 DEF Places
<1>7. \A t \in Slots : /\ slotClient'[t] # None => Seat[slotClient'[t]] = t
                       /\ slotClient'[t] \notin spectators'
  BY <1>1, <1>2, <1>3, TickAssumption DEF Places
<1>8. \A t \in Slots :
         /\ slotClient'[t] # None => ~ held'[t] /\ ~ closed'[t]
         /\ held'[t] => ~ closed'[t]
         /\ slotClient'[t] # None \/ held'[t] \/ closed'[t]
  BY <1>1, <1>2, <1>3 DEF Places
<1>9. QED
  BY <1>5, <1>6, <1>7, <1>8 DEF Places

LEMMA LeaveRoomPlaces ==
  ASSUME TypeOK, Places, PauseHasAnEnd, NEW c \in Conns, InGame(c), LeaveRoom(c),
         NEW st \in {"lobby", "gone"}, state' = [state EXCEPT ![c] = st]
  PROVE  Places' /\ PauseHasAnEnd'
<1>1. /\ held' = held /\ pause' = pause /\ over' = over /\ ~ over
      /\ c \in Members
  BY DEF LeaveRoom, InGame, Places
<1>2. /\ slotClient \in [Slots -> Conns \cup {None}] /\ closed \in [Slots -> BOOLEAN]
      /\ state \in [Conns -> {"lobby", "game", "gone"}] /\ spectators \subseteq Conns
  BY DEF TypeOK
<1>3. PauseHasAnEnd'
  BY <1>1 DEF PauseHasAnEnd
<1>4. CASE c \in spectators
  <2>1. /\ spectators' = spectators \ {c}
        /\ slotClient' = slotClient /\ closed' = closed
    BY <1>4 DEF LeaveRoom
  <2>2. Members' = Members \ {c}
    BY <1>2, <1>4, <2>1 DEF Members, Places
  <2>3. \A d \in Conns : state'[d] = "game" <=> d \in Members'
    BY <1>1, <1>2, <2>2 DEF Places
  <2>4. QED
    BY <1>1, <1>3, <2>1, <2>3 DEF Places
<1>5. CASE c \notin spectators
  <2> DEFINE s == Seat[c]
  <2>1. Seated(c)
    BY <1>1, <1>5 DEF Members, Seated
  <2>2. /\ s \in Slots /\ slotClient[s] = c /\ c # None
        /\ \A t \in Slots : slotClient[t] = c => t = s
        /\ SlotOf(c) = s
    BY <2>1, SeatIsUnique, TickAssumption
  <2>3. /\ slotClient' = [slotClient EXCEPT ![s] = None]
        /\ closed' = [closed EXCEPT ![s] = TRUE]
        /\ spectators' = spectators
    BY <1>5, <2>2 DEF LeaveRoom
  <2>4. Members' = Members \ {c}
    BY <1>2, <1>5, <2>2, <2>3 DEF Members
  <2>5. \A d \in Conns : state'[d] = "game" <=> d \in Members'
    BY <1>1, <1>2, <2>4 DEF Places
  <2>6. \A t \in Slots : /\ slotClient'[t] # None => Seat[slotClient'[t]] = t
                         /\ slotClient'[t] \notin spectators'
    BY <1>2, <2>2, <2>3, TickAssumption DEF Places
  <2>7. \A t \in Slots :
           /\ slotClient'[t] # None => ~ held'[t] /\ ~ closed'[t]
           /\ held'[t] => ~ closed'[t]
           /\ slotClient'[t] # None \/ held'[t] \/ closed'[t]
    BY <1>1, <1>2, <2>2, <2>3 DEF Places
  <2>8. QED
    BY <1>3, <2>5, <2>6, <2>7 DEF Places
<1>6. QED
  BY <1>4, <1>5
LEMMA AttachPlaces ==
  ASSUME TypeOK, Places, PauseHasAnEnd, NEW c \in Conns,
         (\E s \in Slots : Rejoin(c, s)) \/ Spectate(c)
  PROVE  /\ Places' /\ PauseHasAnEnd'
         /\ c \notin Members /\ Members' = Members \cup {c}
<1>1. /\ ~ over /\ over' = over /\ state[c] = "lobby" /\ c # None
      /\ state' = [state EXCEPT ![c] = "game"]
  BY TickAssumption DEF Rejoin, Spectate, SendHistory
<1>2. /\ slotClient \in [Slots -> Conns \cup {None}] /\ held \in [Slots -> BOOLEAN]
      /\ state \in [Conns -> {"lobby", "game", "gone"}] /\ spectators \subseteq Conns
  BY DEF TypeOK
<1>3. c \notin Members
  BY <1>1 DEF Places
<1>4. c \notin spectators /\ \A s \in Slots : slotClient[s] # c
  BY <1>1, <1>3 DEF Members
<1>5. ASSUME NEW s \in Slots, Rejoin(c, s)
      PROVE  Places' /\ PauseHasAnEnd' /\ Members' = Members \cup {c}
  <2>1. /\ slotClient' = [slotClient EXCEPT ![s] = c]
        /\ held' = [held EXCEPT ![s] = FALSE]
        /\ closed' = closed /\ spectators' = spectators
        /\ s = Seat[c] /\ held[s]
        /\ pause' = IF pause = s THEN None ELSE pause
    BY <1>5 DEF Rejoin
  <2>2. slotClient[s] = None /\ ~ closed[s]
    BY <2>1 DEF Places
  <2>3. Members' = Members \cup {c}
    BY <1>1, <1>2, <2>1, <2>2 DEF Members
  <2>4. PauseHasAnEnd'
    BY <1>2, <2>1, TickAssumption DEF PauseHasAnEnd
  <2>5. \A d \in Conns : state'[d] = "game" <=> d \in Members'
    BY <1>1, <1>2, <2>3 DEF Places
  <2>6. \A t \in Slots : /\ slotClient'[t] # None => Seat[slotClient'[t]] = t
                         /\ slotClient'[t] \notin spectators'
    BY <1>2, <1>4, <2>1 DEF Places
  <2>7. \A t \in Slots :
           /\ slotClient'[t] # None => ~ held'[t] /\ ~ closed'[t]
           /\ held'[t] => ~ closed'[t]
           /\ slotClient'[t] # None \/ held'[t] \/ closed'[t]
    BY <1>1, <1>2, <2>1, <2>2 DEF Places
  <2>8. QED
    BY <2>3, <2>4, <2>5, <2>6, <2>7 DEF Places
<1>6. ASSUME Spectate(c)
      PROVE  Places' /\ PauseHasAnEnd' /\ Members' = Members \cup {c}
  <2>1. /\ spectators' = spectators \cup {c}
        /\ slotClient' = slotClient /\ closed' = closed /\ held' = held /\ pause' = pause
    BY <1>6 DEF Spectate
  <2>2. Members' = Members \cup {c}
    BY <1>1, <2>1 DEF Members
  <2>3. \A d \in Conns : state'[d] = "game" <=> d \in Members'
    BY <1>1, <1>2, <2>2 DEF Places
  <2>4. \A t \in Slots : slotClient'[t] \notin spectators'
    BY <1>4, <2>1 DEF Places
  <2>5. QED
    BY <2>1, <2>2, <2>3, <2>4 DEF Places, PauseHasAnEnd
<1>7. QED
  BY <1>3, <1>5, <1>6

LEMMA PlacesStep ==
  ASSUME TypeOK, Places, PauseHasAnEnd, [Next]_vars
  PROVE  Places' /\ PauseHasAnEnd'
<1>1. ASSUME NEW c \in Conns, LeaveGame(c) PROVE Places' /\ PauseHasAnEnd'
  BY <1>1, LeaveRoomPlaces DEF LeaveGame
<1>2. ASSUME NEW c \in Conns, DropClient(c) PROVE Places' /\ PauseHasAnEnd'
  <2>1. CASE Seated(c) /\ HoldSlot(c)
    BY <1>2, <2>1, HoldSlotPlaces
  <2>2. CASE LeaveRoom(c)
    BY <1>2, <2>2, LeaveRoomPlaces DEF DropClient
  <2>3. QED
    BY <1>2, <2>1, <2>2 DEF DropClient
<1>3. ASSUME NEW c \in Conns, (\E s \in Slots : Rejoin(c, s)) \/ Spectate(c)
      PROVE  Places' /\ PauseHasAnEnd'
  BY <1>3, AttachPlaces
<1>4. ASSUME NEW c \in Conns, NEW want \in BOOLEAN, SetPause(c, want)
      PROVE  Places' /\ PauseHasAnEnd'
  <2>1. /\ UNCHANGED <<slotClient, closed, held, spectators, over, state>>
        /\ pause' \in {"request", None}
    BY <1>4 DEF SetPause
  <2>2. PauseHasAnEnd'
    BY <2>1, TickAssumption DEF PauseHasAnEnd
  <2>3. QED
    BY <2>1, <2>2 DEF Places, Members
<1>5. ASSUME NEW s \in Slots, Sweep(s) PROVE Places' /\ PauseHasAnEnd'
  <2>1. /\ held[s] /\ held' = [held EXCEPT ![s] = FALSE]
        /\ closed' = [closed EXCEPT ![s] = TRUE]
        /\ pause' = IF pause = s THEN None ELSE pause
        /\ UNCHANGED <<slotClient, spectators, over, state>>
    BY <1>5 DEF Sweep
  <2>2. held \in [Slots -> BOOLEAN] /\ closed \in [Slots -> BOOLEAN]
    BY DEF TypeOK
  <2>3. PauseHasAnEnd'
    BY <2>1, <2>2, TickAssumption DEF PauseHasAnEnd
  <2>4. \A t \in Slots :
           /\ slotClient'[t] # None => ~ held'[t] /\ ~ closed'[t]
           /\ held'[t] => ~ closed'[t]
           /\ slotClient'[t] # None \/ held'[t] \/ closed'[t]
    BY <2>1, <2>2 DEF Places
  <2>5. QED
    BY <2>1, <2>3, <2>4 DEF Places, Members
<1>6. CASE Teardown
  BY <1>6 DEF Teardown, Places, PauseHasAnEnd
<1>7. CASE UNCHANGED Attachment
  BY <1>7, SameAttachment
<1>8. ASSUME NEW c \in Conns, AnyFrame(c) PROVE Places' /\ PauseHasAnEnd'
  <2>1. CASE Loaded(c)
    BY <1>7, <2>1 DEF Loaded, Attachment
  <2>2. CASE \E k \in 1 .. MaxSend : PlayerCommands(c, k)
    BY <1>7, <2>2 DEF PlayerCommands, Attachment
  <2>3. CASE \E t \in 0 .. MaxTick : StateHash(c, t)
    BY <1>7, <2>3 DEF StateHash, Attachment
  <2>4. QED
    BY <1>1, <1>3, <1>4, <1>8, <2>1, <2>2, <2>3 DEF AnyFrame, ClientFrame
<1>9. ASSUME NEW c \in Conns, Feed(c) \/ ReadStart(c) \/ Consume(c)
      PROVE  Places' /\ PauseHasAnEnd'
  BY <1>7, <1>9 DEF Feed, ReadStart, Consume, Attachment
<1>10. CASE CloseTick
  BY <1>7, <1>10 DEF CloseTick, Attachment
<1>11. CASE UNCHANGED vars
  BY <1>7, <1>11 DEF vars, Attachment
<1>12. QED
  BY <1>1, <1>2, <1>3, <1>5, <1>6, <1>8, <1>9, <1>10, <1>11, NextIs
-----------------------------------------------------------------------------
(* The stream *)

(* The first n ticks. *)
Sofar(n) == [i \in 1 .. n |-> i - 1]

LEMMA SofarType ==
  ASSUME NEW n \in Nat
  PROVE  Sofar(n) \in Seq(Nat) /\ Len(Sofar(n)) = n /\ \A i \in 1 .. n : Sofar(n)[i] = i - 1
<1>1. Sofar(n) \in [1 .. n -> Nat]
  BY DEF Sofar
<1>2. QED
  BY <1>1, LenProperties, SeqDef DEF Sofar

LEMMA SofarEmpty == Sofar(0) = << >>
BY DEF Sofar

(* The live broadcast continues the stream. *)
LEMMA SofarAppend ==
  ASSUME NEW n \in Nat
  PROVE  Append(Sofar(n), n) = Sofar(n + 1)
<1> DEFINE a == Append(Sofar(n), n)
           b == Sofar(n + 1)
<1>1. a \in Seq(Nat) /\ Len(a) = n + 1
      /\ (\A i \in 1 .. n : a[i] = i - 1) /\ a[n + 1] = n
  BY SofarType, AppendProperties
<1>2. b \in Seq(Nat) /\ Len(b) = n + 1 /\ \A i \in 1 .. (n + 1) : b[i] = i - 1
  BY SofarType
<1> HIDE DEF a, b
<1>3. ASSUME NEW i \in 1 .. (n + 1) PROVE a[i] = b[i]
  <2>1. i \in 1 .. n \/ i = n + 1
    OBVIOUS
  <2>2. b[i] = i - 1
    BY <1>2
  <2>3. QED
    BY <1>1, <2>1, <2>2
<1>4. a = b
  BY <1>1, <1>2, <1>3, SeqEqual
<1>5. QED
  BY <1>4 DEF a, b

(* And so does a chunk of the log that starts at the cursor. *)
LEMMA SofarConcat ==
  ASSUME NEW p \in Nat, NEW n \in Nat, p <= n
  PROVE  Sofar(p) \o [i \in 1 .. (n - p) |-> p + i - 1] = Sofar(n)
<1> DEFINE part == [i \in 1 .. (n - p) |-> p + i - 1]
           a == Sofar(p) \o part
           b == Sofar(n)
<1>1. part \in Seq(Nat) /\ Len(part) = n - p
  <2>1. n - p \in Nat /\ part \in [1 .. (n - p) -> Nat]
    OBVIOUS
  <2>2. QED
    BY <2>1, SeqDef, LenProperties
<1>2. \A i \in 1 .. (n - p) : part[i] = p + i - 1
  OBVIOUS
<1>3. Sofar(p) \in Seq(Nat) /\ Len(Sofar(p)) = p /\ \A i \in 1 .. p : Sofar(p)[i] = i - 1
  BY SofarType
<1>4. b \in Seq(Nat) /\ Len(b) = n /\ \A i \in 1 .. n : b[i] = i - 1
  BY SofarType
<1> HIDE DEF part, b
<1>5. a \in Seq(Nat) /\ Len(a) = n
      /\ \A i \in 1 .. n : a[i] = IF i <= p THEN Sofar(p)[i] ELSE part[i - p]
  <2>1. p + (n - p) = n
    OBVIOUS
  <2>2. /\ a \in Seq(Nat) /\ Len(a) = p + (n - p)
        /\ \A i \in 1 .. p + (n - p) : a[i] = IF i <= p THEN Sofar(p)[i] ELSE part[i - p]
    <3>1. /\ a \in Seq(Nat) /\ Len(a) = Len(Sofar(p)) + Len(part)
          /\ \A i \in 1 .. Len(Sofar(p)) + Len(part) :
               a[i] = IF i <= Len(Sofar(p)) THEN Sofar(p)[i] ELSE part[i - Len(Sofar(p))]
      <4>1. Sofar(p) \in Seq(Nat) /\ part \in Seq(Nat)
        BY <1>1, <1>3
      <4>2. QED
        BY <4>1, ConcatProperties
    <3>2. Len(Sofar(p)) = p /\ Len(part) = n - p
      BY <1>1, <1>3
    <3> HIDE DEF a
    <3>3. QED
      BY <3>1, <3>2
  <2> HIDE DEF a
  <2>3. QED
    BY <2>1, <2>2
<1> HIDE DEF a
<1>6. \A i \in 1 .. n : a[i] = b[i]
  <2> SUFFICES ASSUME NEW i \in 1 .. n PROVE a[i] = b[i]
    OBVIOUS
  <2>1. CASE i <= p
    BY <1>3, <1>4, <1>5, <2>1
  <2>2. CASE i > p
    <3>1. i - p \in 1 .. (n - p)
      BY <2>2
    <3>2. part[i - p] = p + (i - p) - 1
      BY <1>2, <3>1
    <3>3. p + (i - p) - 1 = i - 1
      OBVIOUS
    <3>4. QED
      BY <1>4, <1>5, <2>2, <3>2, <3>3
  <2>3. QED
    BY <2>1, <2>2
<1>7. a = b
  BY <1>4, <1>5, <1>6, SeqEqual
<1>8. QED
  BY <1>7 DEF a, b, part

(* What a member has been sent. *)
LEMMA StreamOf ==
  ASSUME IInv, ~ over, NEW c \in Members
  PROVE  sent[c] = Sofar(IF replaying[c] THEN replayPos[c] ELSE Tick)
BY DEF IInv, StreamIsPrefix, Sofar

LEMMA MembersAreConns ==
  ASSUME TypeOK
  PROVE  Members \subseteq Conns
BY DEF TypeOK, Members

(* Steps that do not touch the stream of anyone who stays. *)
LEMMA SameStream ==
  ASSUME IInv, log' = log, over' = over, Members' \subseteq Members,
         \A d \in Members' : /\ sent'[d] = sent[d]
                            /\ replaying'[d] = replaying[d]
                            /\ replayPos'[d] = replayPos[d]
  PROVE  StreamIsPrefix'
BY DEF IInv, StreamIsPrefix, Tick

(* A client that rejoins or comes to watch starts over. *)
LEMMA AttachStream ==
  ASSUME IInv, NEW c \in Conns, (\E s \in Slots : Rejoin(c, s)) \/ Spectate(c)
  PROVE  Cursors' /\ StreamIsPrefix'
<1>1. /\ SendHistory(c) /\ ~ over
      /\ Members' = Members \cup {c}
  BY AttachPlaces DEF IInv, Rejoin, Spectate
<1>2. /\ replaying \in [Conns -> BOOLEAN] /\ replayPos \in [Conns -> Nat]
      /\ sent \in [Conns -> Seq(Nat)] /\ Members \subseteq Conns
  BY MembersAreConns DEF IInv, TypeOK
<1>3. /\ replaying' = [replaying EXCEPT ![c] = TRUE]
      /\ replayPos' = [replayPos EXCEPT ![c] = 0]
      /\ sent' = [sent EXCEPT ![c] = << >>]
      /\ log' = log /\ over' = over
  BY <1>1 DEF SendHistory
<1>4. Len(log) \in Nat
  BY LenProperties DEF IInv, TypeOK
<1>5. Cursors'
  BY <1>2, <1>3, <1>4 DEF IInv, Cursors
<1>6. ASSUME NEW d \in Members'
      PROVE  sent'[d] = [i \in 1 .. (IF replaying'[d] THEN replayPos'[d] ELSE Tick') |-> i - 1]
  <2>1. CASE d = c
    <3>1. sent'[d] = Sofar(0) /\ replaying'[d] /\ replayPos'[d] = 0
      BY <1>2, <1>3, <2>1, SofarEmpty
    <3>2. QED
      BY <3>1 DEF Sofar
  <2>2. CASE d # c
    <3>1. /\ d \in Members /\ sent'[d] = sent[d]
          /\ replaying'[d] = replaying[d] /\ replayPos'[d] = replayPos[d]
      BY <1>1, <1>2, <1>3, <2>2
    <3>2. QED
      BY <1>1, <1>3, <3>1 DEF IInv, StreamIsPrefix, Tick
  <2>3. QED
    BY <2>1, <2>2
<1>7. QED
  BY <1>5, <1>6 DEF StreamIsPrefix

LEMMA DetachStream ==
  ASSUME IInv, NEW c \in Conns, LeaveGame(c) \/ DropClient(c)
  PROVE  /\ Cursors' /\ StreamIsPrefix'
         /\ ~ over /\ over' = over /\ log' = log
         /\ c \in Members /\ Members' = Members \ {c}
         /\ sent' \in {sent, [sent EXCEPT ![c] = << >>]}
<1>1. ~ over /\ over' = over /\ log' = log /\ c \in Members
  BY DEF IInv, Places, InGame, LeaveGame, DropClient, HoldSlot, LeaveRoom
<1>2. /\ replaying' \in {replaying, [replaying EXCEPT ![c] = FALSE]}
      /\ replayPos' \in {replayPos, [replayPos EXCEPT ![c] = 0]}
      /\ sent' \in {sent, [sent EXCEPT ![c] = << >>]}
  BY DEF LeaveGame, DropClient
<1>3. state \in [Conns -> {"lobby", "game", "gone"}]
      /\ replaying \in [Conns -> BOOLEAN] /\ replayPos \in [Conns -> Nat]
      /\ sent \in [Conns -> Seq(Nat)] /\ Len(log) \in Nat
  BY LenProperties DEF IInv, TypeOK
<1>4. /\ \A d \in Conns : d \in Members <=> state[d] = "game"
      /\ \A d \in Conns : d \in Members' <=> state'[d] = "game"
      /\ Members \subseteq Conns /\ Members' \subseteq Conns
  <2>1. [Next]_vars
    BY DEF Next, ClientFrame
  <2>2. TypeOK' /\ Places'
    BY <2>1, TypeStep, PlacesStep DEF IInv
  <2>3. Members \subseteq Conns /\ Members' \subseteq Conns
    <3>1. slotClient' \in [Slots -> Conns \cup {None}] /\ spectators' \subseteq Conns
      BY <2>2 DEF TypeOK
    <3>2. Members' \subseteq Conns
      BY <3>1 DEF Members
    <3>3. QED
      BY <3>2, MembersAreConns DEF IInv
  <2>4. QED
    BY <1>1, <2>2, <2>3 DEF IInv, Places
<1>5. state' = [state EXCEPT ![c] = "lobby"] \/ state' = [state EXCEPT ![c] = "gone"]
  BY DEF LeaveGame, DropClient
<1>6. Members' = Members \ {c}
  BY <1>3, <1>4, <1>5
<1>7. Cursors'
  <2>1. \A d \in Conns : replayPos'[d] = replayPos[d] \/ replayPos'[d] = 0
    BY <1>2, <1>3
  <2>2. Cursors
    BY DEF IInv
  <2>3. log' = log /\ Len(log) \in Nat
    BY <1>1, <1>3
  <2>4. QED
    BY <2>1, <2>2, <2>3 DEF Cursors
<1>8. \A d \in Members' : /\ sent'[d] = sent[d]
                         /\ replaying'[d] = replaying[d]
                         /\ replayPos'[d] = replayPos[d]
  BY <1>2, <1>3, <1>4, <1>6
<1>9. StreamIsPrefix'
  BY <1>1, <1>6, <1>8, SameStream
<1>10. QED
  BY <1>1, <1>2, <1>6, <1>7, <1>9
(* A tick goes to those who have all before it. *)
LEMMA CloseTickStream ==
  ASSUME IInv, CloseTick
  PROVE  /\ Cursors' /\ StreamIsPrefix'
         /\ Tick \in Nat /\ Tick' = Tick + 1
         /\ \A c \in Conns : Live(c) => Len(sent[c]) = Tick
<1>1. log \in Seq([cmds : [Slots -> Seq(Commands)], events : Seq(Events)])
      /\ replaying \in [Conns -> BOOLEAN] /\ replayPos \in [Conns -> Nat]
      /\ sent \in [Conns -> Seq(Nat)] /\ Members \subseteq Conns
  BY MembersAreConns DEF IInv, TypeOK
<1>2. Tick \in Nat /\ Tick' = Tick + 1
  <2>1. PICK b : log' = Append(log, b)
    BY DEF CloseTick
  <2>2. Len(log') = Len(log) + 1 /\ Len(log) \in Nat
    BY <1>1, <2>1, LenProperties
  <2>3. QED
    BY <2>2 DEF Tick
<1>3. /\ ~ over /\ over' = over /\ replaying' = replaying /\ replayPos' = replayPos
      /\ Members' = Members
      /\ sent' = [c \in Conns |-> IF Live(c) THEN Append(sent[c], Tick) ELSE sent[c]]
  BY DEF CloseTick, Members
<1>4. Cursors'
  BY <1>1, <1>2, <1>3 DEF IInv, Cursors, Tick
<1>5. \A c \in Conns : Live(c) => sent[c] = Sofar(Tick)
  BY <1>3, StreamOf DEF Live
<1>6. ASSUME NEW c \in Members
      PROVE  sent'[c] = Sofar(IF replaying[c] THEN replayPos[c] ELSE Tick + 1)
  <2>1. CASE replaying[c]
    BY <1>1, <1>3, <2>1, StreamOf DEF Live
  <2>2. CASE ~ replaying[c]
    <3>1. sent'[c] = Append(sent[c], Tick) /\ sent[c] = Sofar(Tick)
      BY <1>1, <1>3, <1>5, <2>2 DEF Live
    <3>2. QED
      BY <1>2, <2>2, <3>1, SofarAppend
  <2>3. QED
    BY <2>1, <2>2
<1>7. StreamIsPrefix'
  BY <1>2, <1>3, <1>6 DEF StreamIsPrefix, Sofar
<1>8. QED
  BY <1>2, <1>4, <1>5, <1>7, SofarType

(* A chunk of the log goes on where the stream ends, and the cursor is done *)
(* when it has reached the end of the log.                                  *)
LEMMA FeedStream ==
  ASSUME IInv, NEW c \in Conns, Feed(c)
  PROVE  /\ Cursors' /\ StreamIsPrefix'
         /\ Members' = Members /\ over' = over /\ log' = log
         /\ \/ sent' = sent
            \/ /\ ~ over /\ c \in Members
               /\ \E n \in (Len(sent[c]) + 1) .. Tick :
                    sent' = [sent EXCEPT ![c] = Sofar(n)]
<1>1. replaying \in [Conns -> BOOLEAN] /\ replayPos \in [Conns -> Nat]
      /\ sent \in [Conns -> Seq(Nat)] /\ Members \subseteq Conns
      /\ Tick \in Nat /\ Tick = Len(log)
  BY MembersAreConns, LenProperties DEF IInv, TypeOK, Tick
<1>2. Members' = Members /\ over' = over /\ log' = log /\ replaying[c]
  BY DEF Feed, Members
<1>3. CASE over \/ state[c] # "game"
  <2>1. /\ replaying' = [replaying EXCEPT ![c] = FALSE]
        /\ replayPos' = replayPos /\ sent' = sent
    BY <1>3 DEF Feed
  <2>2. ~ over => c \notin Members
    BY <1>3 DEF IInv, Places
  <2>3. Cursors'
    BY <1>2, <2>1 DEF IInv, Cursors
  <2>4. CASE over
    BY <1>2, <2>1, <2>3, <2>4 DEF StreamIsPrefix
  <2>5. CASE ~ over
    <3>1. \A d \in Members' : replaying'[d] = replaying[d]
      BY <1>1, <1>2, <2>1, <2>2, <2>5
    <3>2. StreamIsPrefix'
      BY <1>2, <2>1, <3>1, SameStream
    <3>3. QED
      BY <1>2, <2>1, <2>3, <3>2
  <2>6. QED
    BY <2>4, <2>5
<1>4. CASE ~ (over \/ state[c] # "game")
  <2> DEFINE p == replayPos[c]
  <2>1. PICK n \in p .. Len(log) :
          /\ n > p \/ n = Len(log)
          /\ replayPos' = [replayPos EXCEPT ![c] = n]
          /\ sent' = [sent EXCEPT ![c] = @ \o [i \in 1 .. (n - p) |-> p + i - 1]]
          /\ replaying' = [replaying EXCEPT ![c] = ~ CaughtUp(n)]
    BY <1>4 DEF Feed
  <2>2. p \in Nat /\ n \in Nat /\ p <= n /\ n <= Tick /\ ~ over /\ c \in Members
    BY <1>1, <1>4 DEF IInv, Places
  <2>3. sent[c] = Sofar(p) /\ Len(sent[c]) = p
    BY <1>2, <2>2, StreamOf, SofarType
  <2>4. sent' = [sent EXCEPT ![c] = Sofar(n)]
    BY <2>1, <2>2, <2>3, SofarConcat
  <2>5. Cursors'
    BY <1>1, <1>2, <2>1, <2>2 DEF IInv, Cursors
  <2>6. ASSUME NEW d \in Members
        PROVE  sent'[d] = Sofar(IF replaying'[d] THEN replayPos'[d] ELSE Tick)
    <3>1. CASE d = c
      BY <1>1, <2>1, <2>2, <2>4, <3>1 DEF CaughtUp
    <3>2. CASE d # c
      <4>1. /\ sent'[d] = sent[d] /\ replaying'[d] = replaying[d]
            /\ replayPos'[d] = replayPos[d]
        BY <1>1, <2>1, <2>4, <3>2
      <4>2. QED
        BY <2>2, <4>1, StreamOf
    <3>3. QED
      BY <3>1, <3>2
  <2>7. StreamIsPrefix'
    BY <1>2, <2>6 DEF StreamIsPrefix, Sofar, Tick
  <2>8. CASE n = p
    <3>1. sent' = sent
      BY <1>1, <2>3, <2>4, <2>8
    <3>2. QED
      BY <1>2, <2>5, <2>7, <3>1
  <2>9. CASE n # p
    <3>1. n \in (Len(sent[c]) + 1) .. Tick
      BY <1>1, <2>2, <2>3, <2>9
    <3>2. QED
      BY <1>2, <2>2, <2>4, <2>5, <2>7, <3>1
  <2>10. QED
    BY <2>8, <2>9
<1>5. QED
  BY <1>3, <1>4
LEMMA StreamInit == Init => Cursors /\ StreamIsPrefix
<1> SUFFICES ASSUME Init PROVE Cursors /\ StreamIsPrefix
  OBVIOUS
<1>1. /\ replayPos = [c \in Conns |-> 0] /\ replaying = [c \in Conns |-> FALSE]
      /\ sent = [c \in Conns |-> << >>] /\ Len(log) = 0 /\ Members \subseteq Conns
  BY TypeInit, MembersAreConns DEF Init
<1>2. \A c \in Members : sent[c] = Sofar(0)
  BY <1>1, SofarEmpty
<1>3. QED
  BY <1>1, <1>2 DEF Cursors, StreamIsPrefix, Sofar, Tick

(* Steps that leave every stream and every cursor alone. *)
LEMMA SameCursors ==
  ASSUME IInv, UNCHANGED <<log, over, slotClient, spectators, sent, replaying, replayPos>>
  PROVE  Cursors' /\ StreamIsPrefix'
BY DEF IInv, Cursors, StreamIsPrefix, Tick, Members

LEMMA StreamStep ==
  ASSUME IInv, [Next]_vars
  PROVE  Cursors' /\ StreamIsPrefix'
<1>1. ASSUME NEW c \in Conns, AnyFrame(c) PROVE Cursors' /\ StreamIsPrefix'
  <2>1. CASE Loaded(c)
    BY <2>1, SameCursors DEF Loaded
  <2>2. CASE \E k \in 1 .. MaxSend : PlayerCommands(c, k)
    BY <2>2, SameCursors DEF PlayerCommands
  <2>3. CASE \E t \in 0 .. MaxTick : StateHash(c, t)
    BY <2>3, SameCursors DEF StateHash
  <2>4. CASE \E want \in BOOLEAN : SetPause(c, want)
    BY <2>4, SameCursors DEF SetPause
  <2>5. CASE LeaveGame(c)
    BY <2>5, DetachStream
  <2>6. CASE (\E s \in Slots : Rejoin(c, s)) \/ Spectate(c)
    BY <2>6, AttachStream
  <2>7. QED
    BY <1>1, <2>1, <2>2, <2>3, <2>4, <2>5, <2>6 DEF AnyFrame, ClientFrame
<1>2. ASSUME NEW c \in Conns, DropClient(c) PROVE Cursors' /\ StreamIsPrefix'
  BY <1>2, DetachStream
<1>3. ASSUME NEW c \in Conns, Feed(c) PROVE Cursors' /\ StreamIsPrefix'
  BY <1>3, FeedStream
<1>4. ASSUME NEW c \in Conns, ReadStart(c) \/ Consume(c) PROVE Cursors' /\ StreamIsPrefix'
  BY <1>4, SameCursors DEF ReadStart, Consume
<1>5. ASSUME NEW s \in Slots, Sweep(s) PROVE Cursors' /\ StreamIsPrefix'
  BY <1>5, SameCursors DEF Sweep
<1>6. CASE Teardown
  BY <1>6 DEF Teardown, IInv, Cursors, StreamIsPrefix
<1>7. CASE CloseTick
  BY <1>7, CloseTickStream
<1>8. CASE UNCHANGED vars
  BY <1>8, SameCursors DEF vars
<1>9. QED
  BY <1>1, <1>2, <1>3, <1>4, <1>5, <1>6, <1>7, <1>8, NextIs

-----------------------------------------------------------------------------
(* The inductive invariant: every behaviour of the server, with any number  *)
(* of slots, connections and spectators, keeps it.                          *)
THEOREM ServerInv == Spec => []IInv
<1>1. Init => IInv
  BY TypeInit, PlacesInit, StreamInit DEF IInv
<1>2. IInv /\ [Next]_vars => IInv'
  <2> SUFFICES ASSUME IInv, [Next]_vars PROVE IInv'
    OBVIOUS
  <2>1. TypeOK'
    BY TypeStep DEF IInv
  <2>2. Places' /\ PauseHasAnEnd'
    BY PlacesStep DEF IInv
  <2>3. Cursors' /\ StreamIsPrefix'
    BY StreamStep
  <2>4. QED
    BY <2>1, <2>2, <2>3 DEF IInv
<1>3. QED
  BY <1>1, <1>2, PTL DEF Spec

(* Every variable of the server keeps its type. *)
THEOREM ServerTypes == Spec => []TypeOK
<1>1. IInv => TypeOK
  BY DEF IInv
<1>2. QED
  BY <1>1, ServerInv, PTL

(* The ticks put on a connection's stream are 0, 1, 2, ... without a gap, a *)
(* repetition or an inversion, through drops, rejoins, late spectators and  *)
(* ticks that close while a client is fed from the log.                     *)
THEOREM StreamsHaveNoGaps == Spec => []StreamIsPrefix
<1>1. IInv => StreamIsPrefix
  BY DEF IInv
<1>2. QED
  BY <1>1, ServerInv, PTL

(* A game paused for a player is paused for one whose slot is still held.   *)
THEOREM PausesEnd == Spec => []PauseHasAnEnd
<1>1. IInv => PauseHasAnEnd
  BY DEF IInv
<1>2. QED
  BY <1>1, ServerInv, PTL

(* No connection is attached twice, and no slot is two things at once.      *)
THEOREM PlacesAreUnique == Spec => []OnePlaceEach
<1>1. IInv => OnePlaceEach
  <2> SUFFICES ASSUME IInv, ~ over PROVE OnePlaceEach
    BY DEF OnePlaceEach
  <2>1. ASSUME NEW s \in Slots
        PROVE  Cardinality({x \in {"client", "held", "closed"} :
                              \/ x = "client" /\ slotClient[s] # None
                              \/ x = "held" /\ held[s]
                              \/ x = "closed" /\ closed[s]}) = 1
    <3> DEFINE is == {x \in {"client", "held", "closed"} :
                        \/ x = "client" /\ slotClient[s] # None
                        \/ x = "held" /\ held[s]
                        \/ x = "closed" /\ closed[s]}
    <3>1. /\ slotClient[s] # None => ~ held[s] /\ ~ closed[s]
          /\ held[s] => ~ closed[s]
          /\ slotClient[s] # None \/ held[s] \/ closed[s]
      BY DEF IInv, Places
    <3>2. is = {"client"} \/ is = {"held"} \/ is = {"closed"}
      BY <3>1
    <3>3. QED
      BY <3>2, FS_Singleton
  <2>2. ASSUME NEW c \in Conns
        PROVE  Cardinality({s \in Slots : slotClient[s] = c})
                 + Cardinality(spectators \cap {c}) <= 1
    <3> DEFINE sits == {s \in Slots : slotClient[s] = c}
               looks == spectators \cap {c}
    <3>1. CASE Seated(c)
      <4>1. sits = {Seat[c]} /\ looks = {}
        BY <3>1, SeatIsUnique DEF IInv
      <4> HIDE DEF sits, looks
      <4>2. Cardinality(sits) = 1 /\ Cardinality(looks) = 0
        BY <4>1, FS_Singleton, FS_EmptySet
      <4>3. QED
        BY <4>2 DEF sits, looks
    <3>2. CASE ~ Seated(c)
      <4>1. sits = {} /\ (looks = {} \/ looks = {c})
        BY <3>2 DEF Seated
      <4> HIDE DEF sits, looks
      <4>2. Cardinality(sits) = 0 /\ Cardinality(looks) \in {0, 1}
        BY <4>1, FS_Singleton, FS_EmptySet
      <4>3. QED
        BY <4>2 DEF sits, looks
    <3>3. QED
      BY <3>1, <3>2
  <2>3. \A c \in Conns : state[c] = "game" <=> c \in Members
    BY DEF IInv, Places
  <2>4. QED
    BY <2>1, <2>2, <2>3 DEF OnePlaceEach
<1>2. QED
  BY <1>1, ServerInv, PTL
-----------------------------------------------------------------------------
(* Flow control *)

(* What LeadIsBounded rests on: the last report of a connection in the game *)
(* is of a tick its client has consumed, or is the one it came with.        *)
ReportsAreBehind ==
  \A c \in Conns : state[c] = "game" => ack[c] <= Consumed(c) \/ ack[c] <= brought[c]

LEMMA SamePace ==
  ASSUME ReportsAreBehind, UNCHANGED <<ack, brought, seen>>,
         \A c \in Conns : state'[c] = "game" => state[c] = "game"
  PROVE  ReportsAreBehind'
BY DEF ReportsAreBehind, Consumed

(* Whoever leaves or is lost is no longer in the game. *)
LEMMA DetachPace ==
  ASSUME TypeOK, ReportsAreBehind, NEW c \in Conns, LeaveGame(c) \/ DropClient(c)
  PROVE  ReportsAreBehind'
<1>1. state'[c] # "game"
  BY DEF TypeOK, LeaveGame, DropClient
<1>2. \A d \in Conns \ {c} : /\ state'[d] = state[d] /\ ack'[d] = ack[d]
                            /\ brought'[d] = brought[d] /\ seen'[d] = seen[d]
  BY DEF TypeOK, LeaveGame, DropClient
<1>3. QED
  BY <1>1, <1>2 DEF ReportsAreBehind, Consumed

(* Whoever comes in has its report written down. *)
LEMMA AttachPace ==
  ASSUME TypeOK, ReportsAreBehind, NEW c \in Conns,
         (\E s \in Slots : Rejoin(c, s)) \/ Spectate(c)
  PROVE  ReportsAreBehind'
<1>1. SendHistory(c)
  BY DEF Rejoin, Spectate
<1>2. ack'[c] = brought'[c] /\ brought'[c] \in Nat
  BY <1>1 DEF SendHistory, TypeOK
<1>3. \A d \in Conns \ {c} : /\ state'[d] = state[d] /\ ack'[d] = ack[d]
                            /\ brought'[d] = brought[d] /\ seen'[d] = seen[d]
  BY <1>1 DEF SendHistory, TypeOK
<1>4. QED
  BY <1>2, <1>3 DEF ReportsAreBehind, Consumed

LEMMA PaceStep ==
  ASSUME TypeOK, ReportsAreBehind, [Next]_vars
  PROVE  ReportsAreBehind'
<1>1. ASSUME NEW c \in Conns, NEW t \in 0 .. MaxTick, StateHash(c, t)
      PROVE  ReportsAreBehind'
  <2>1. t \in Nat /\ seen[c] \in Nat /\ t <= seen[c] - 1
    BY <1>1 DEF TypeOK, StateHash, Reports
  <2>2. t <= Consumed(c)
    BY <2>1 DEF Consumed
  <2>3. /\ ack' = [ack EXCEPT ![c] = t] /\ ack \in [Conns -> Nat]
        /\ UNCHANGED <<brought, state, seen>>
    BY <1>1 DEF TypeOK, StateHash
  <2>4. QED
    BY <2>2, <2>3 DEF ReportsAreBehind, Consumed
<1>2. ASSUME NEW c \in Conns, Consume(c) PROVE ReportsAreBehind'
  <2>1. /\ seen' = [seen EXCEPT ![c] = seen[c] + 1]
        /\ UNCHANGED <<state, ack, brought>>
    BY <1>2 DEF Consume
  <2>2. ack \in [Conns -> Nat] /\ seen \in [Conns -> Nat]
    BY DEF TypeOK
  <2>3. \A d \in Conns : Consumed(d) \in Nat /\ Consumed(d)' \in Nat /\ Consumed(d) <= Consumed(d)'
    BY <2>1, <2>2 DEF Consumed
  <2>4. \A d \in Conns : ack[d] <= Consumed(d) => ack[d] <= Consumed(d)'
    BY <2>2, <2>3
  <2>5. QED
    BY <2>1, <2>4 DEF ReportsAreBehind
<1>3. ASSUME NEW c \in Conns, Loaded(c) \/ (\E k \in 1 .. MaxSend : PlayerCommands(c, k))
             \/ (\E want \in BOOLEAN : SetPause(c, want)) \/ Feed(c) \/ ReadStart(c)
      PROVE  ReportsAreBehind'
  BY <1>3, SamePace DEF Loaded, PlayerCommands, SetPause, Feed, ReadStart, client, remote
<1>4. ASSUME NEW s \in Slots, Sweep(s) PROVE ReportsAreBehind'
  BY <1>4, SamePace DEF Sweep, client, remote
<1>5. CASE Teardown
  BY <1>5, SamePace DEF Teardown, client, remote
<1>6. CASE CloseTick
  BY <1>6, SamePace DEF CloseTick, client, remote
<1>7. CASE UNCHANGED vars
  BY <1>7, SamePace DEF vars, client, remote
<1>8. QED
  BY <1>1, <1>2, <1>3, <1>4, <1>5, <1>6, <1>7, DetachPace, AttachPace, NextIs DEF AnyFrame, ClientFrame

(* Only closeTick adds to the log. *)
LEMMA OnlyCloseTickLogs == [Next]_vars /\ log' # log => CloseTick
<1> SUFFICES ASSUME [Next]_vars, ~ CloseTick PROVE log' = log
  OBVIOUS
<1>1. ASSUME NEW c \in Conns, AnyFrame(c) PROVE log' = log
  <2>1. CASE LeaveGame(c)
    BY <2>1 DEF LeaveGame, LeaveRoom
  <2>2. CASE (\E s \in Slots : Rejoin(c, s)) \/ Spectate(c)
    BY <2>2 DEF Rejoin, Spectate, SendHistory
  <2>3. QED
    BY <1>1, <2>1, <2>2 DEF AnyFrame, ClientFrame, Loaded, PlayerCommands, StateHash, SetPause
<1>2. ASSUME NEW c \in Conns, DropClient(c) PROVE log' = log
  BY <1>2 DEF DropClient, LeaveRoom, HoldSlot
<1>3. ASSUME NEW c \in Conns, Feed(c) \/ ReadStart(c) \/ Consume(c) PROVE log' = log
  BY <1>3 DEF Feed, ReadStart, Consume
<1>4. ASSUME NEW s \in Slots, Sweep(s) PROVE log' = log
  BY <1>4 DEF Sweep
<1>5. CASE Teardown \/ UNCHANGED vars
  BY <1>5 DEF Teardown, vars
<1>6. QED
  BY <1>1, <1>2, <1>3, <1>4, <1>5, NextIs

(* The server is never more than MaxLead ticks ahead of what a loaded       *)
(* player has consumed, unless the report that holds it back is one the     *)
(* player's connection came to the game with.                               *)
THEOREM TicksAreMetered == Spec => LeadIsBounded
<1> DEFINE
      Metered == \A s \in Slots : slotClient[s] # None /\ loaded[slotClient[s]] =>
                   \/ Tick <= MaxLead + Consumed(slotClient[s])
                   \/ Tick <= MaxLead + brought[slotClient[s]]
<1>1. Init => ReportsAreBehind
  <2> SUFFICES ASSUME Init PROVE ReportsAreBehind
    OBVIOUS
  <2>1. \A c \in Conns : ack[c] \in Nat /\ brought[c] = ack[c]
    BY TypeInit DEF TypeOK, Init
  <2>2. QED
    BY <2>1 DEF ReportsAreBehind
<1>2. IInv /\ ReportsAreBehind /\ [Next]_vars => ReportsAreBehind'
  BY PaceStep DEF IInv
<1>3. IInv /\ ReportsAreBehind /\ [Next]_vars => [log' # log => Metered]_vars
  <2> SUFFICES ASSUME IInv, ReportsAreBehind, [Next]_vars, log' # log,
                      NEW s \in Slots, slotClient[s] # None, loaded[slotClient[s]]
               PROVE  \/ Tick <= MaxLead + Consumed(slotClient[s])
                      \/ Tick <= MaxLead + brought[slotClient[s]]
    OBVIOUS
  <2> DEFINE c == slotClient[s]
  <2>1. CloseTick
    BY OnlyCloseTickLogs
  <2>2. c \in Conns /\ ~ closed[s] /\ s # None
    BY TickAssumption DEF IInv, TypeOK, Places
  <2>3. c \in Paced
    BY <2>2 DEF Paced, Humans
  <2>4. Tick <= ack[c] + MaxLead
    BY <2>1, <2>3 DEF CloseTick, CanAdvance
  <2>5. state[c] = "game"
    BY <2>1, <2>2 DEF CloseTick, IInv, Places, Members
  <2>6. ack[c] <= Consumed(c) \/ ack[c] <= brought[c]
    BY <2>2, <2>5 DEF ReportsAreBehind
  <2>7. Tick \in Nat /\ ack[c] \in Nat /\ seen[c] \in Nat /\ brought[c] \in Nat /\ MaxLead \in Nat
    BY <2>2, LenProperties, TickAssumption DEF IInv, TypeOK, Tick
  <2>8. Consumed(c) \in Nat
    BY <2>7 DEF Consumed
  <2>9. QED
    BY <2>4, <2>6, <2>7, <2>8
<1>4. LeadIsBounded <=> [][log' # log => Metered]_vars
  BY DEF LeadIsBounded
<1>5. QED
  BY <1>1, <1>2, <1>3, <1>4, ServerInv, PTL DEF Spec
-----------------------------------------------------------------------------
(* Drops *)

Bundles == [cmds : [Slots -> Seq(Commands)], events : Seq(Events)]

(* All commands of q came on connection c. *)
AllOf(q, c) == \A i \in 1 .. Len(q) : q[i].conn = c

(* A queue holds commands of its own connection, a bucket those of whoever  *)
(* sits in the slot now, and so do the bundles past a replay boundary.      *)
OwnQueues  == \A c \in Conns : AllOf(queue[c], c)

OwnBuckets == \A s \in Slots : \A k \in 1 .. Delay : AllOf(sched[k][s], slotClient[s])

OwnBundles ==
  \A s \in Slots : slotClient[s] # None =>
    \A i \in boundary[slotClient[s]] + 1 .. Len(log) : AllOf(log[i].cmds[s], slotClient[s])

(* A player's elimination is in the stream once, and nothing follows it.    *)
OutOnce ==
  \A s \in Slots :
    /\ ~ closed[s] => OutsIn(log, events, s) = {}
    /\ closed[s] => \E o \in Nat \X Nat :
         /\ OutsIn(log, events, s) = {o}
         /\ \A i \in (o[1] + 1) .. Len(log) : log[i].cmds[s] = << >>

Clean == OwnQueues /\ OwnBuckets /\ OwnBundles /\ OutOnce

(* Membership in OutsIn, without the sequence of sequences. *)
IsOut(lg, ev, s, o) ==
  \/ /\ o[1] \in 1 .. Len(lg) /\ o[2] \in 1 .. Len(lg[o[1]].events)
     /\ lg[o[1]].events[o[2]].player = s
  \/ /\ o[1] = Len(lg) + 1 /\ o[2] \in 1 .. Len(ev)
     /\ ev[o[2]].player = s

LEMMA OutsAre ==
  ASSUME NEW lg \in Seq(Bundles), NEW ev \in Seq(Events), NEW s
  PROVE  OutsIn(lg, ev, s) = {o \in Nat \X Nat : IsOut(lg, ev, s, o)}
<1> DEFINE past == [i \in 1 .. Len(lg) |-> lg[i].events]
           evs  == Append(past, ev)
           n    == Len(lg)
<1>1. n \in Nat /\ \A i \in 1 .. n : lg[i].events \in Seq(Events)
  <2>1. ASSUME NEW i \in 1 .. n PROVE lg[i].events \in Seq(Events)
    <3>1. lg[i] \in Bundles
      BY ElementOfSeq
    <3>2. QED
      BY <3>1 DEF Bundles
  <2>2. QED
    BY <2>1, LenProperties
<1>2. past \in Seq(Seq(Events)) /\ Len(past) = n
  BY <1>1
<1>3. /\ evs \in Seq(Seq(Events)) /\ Len(evs) = n + 1
      /\ \A i \in 1 .. n : evs[i] = lg[i].events
      /\ evs[n + 1] = ev
  <2> HIDE DEF past
  <2>1. /\ Append(past, ev) \in Seq(Seq(Events)) /\ Len(Append(past, ev)) = n + 1
        /\ \A i \in 1 .. n : Append(past, ev)[i] = past[i]
        /\ Append(past, ev)[n + 1] = ev
    BY <1>2, AppendProperties
  <2>2. QED
    BY <2>1 DEF past
<1>4. DOMAIN evs = 1 .. (n + 1)
  BY <1>3, LenProperties
<1>5. \A b \in 1 .. (n + 1) : DOMAIN evs[b] = 1 .. Len(evs[b]) /\ Len(evs[b]) \in Nat
  BY <1>3, LenProperties, ElementOfSeq
<1>6. OutsIn(lg, ev, s) =
        {o \in UNION {{b} \X DOMAIN evs[b] : b \in DOMAIN evs} : evs[o[1]][o[2]].player = s}
  BY DEF OutsIn
<1> HIDE DEF evs, n
<1>7. OutsIn(lg, ev, s) =
        {o \in Nat \X Nat : /\ o[1] \in 1 .. (n + 1) /\ o[2] \in 1 .. Len(evs[o[1]])
                           /\ evs[o[1]][o[2]].player = s}
  <2> DEFINE all == UNION {{b} \X DOMAIN evs[b] : b \in DOMAIN evs}
  <2>1. ASSUME NEW o PROVE o \in all <=> /\ o \in Nat \X Nat /\ o[1] \in 1 .. (n + 1)
                                         /\ o[2] \in 1 .. Len(evs[o[1]])
    <3>1. o \in all <=> \E b \in 1 .. (n + 1) : o \in {b} \X (1 .. Len(evs[b]))
      BY <1>4, <1>5
    <3>2. QED
      BY <1>1, <1>5, <3>1 DEF n
  <2> HIDE DEF all
  <2>2. QED
    BY <1>6, <2>1 DEF all
<1>8. QED
  BY <1>1, <1>3, <1>7 DEF n, IsOut

(* An event joins the bundle that is being collected. *)
LEMMA OutsAppend ==
  ASSUME NEW lg \in Seq(Bundles), NEW ev \in Seq(Events), NEW e \in Events, NEW s \in Slots
  PROVE  OutsIn(lg, Append(ev, e), s) =
           IF e.player = s THEN OutsIn(lg, ev, s) \cup {<<Len(lg) + 1, Len(ev) + 1>>}
           ELSE OutsIn(lg, ev, s)
<1>1. /\ Append(ev, e) \in Seq(Events) /\ Len(Append(ev, e)) = Len(ev) + 1
      /\ \A i \in 1 .. Len(ev) : Append(ev, e)[i] = ev[i]
      /\ Append(ev, e)[Len(ev) + 1] = e
  BY AppendProperties
<1>2. Len(lg) \in Nat /\ Len(ev) \in Nat
  BY LenProperties
<1> DEFINE ev2 == Append(ev, e)
           here == <<Len(lg) + 1, Len(ev) + 1>>
<1>3. OutsIn(lg, ev, s) = {o \in Nat \X Nat : IsOut(lg, ev, s, o)}
  BY OutsAre
<1>4. OutsIn(lg, ev2, s) = {o \in Nat \X Nat : IsOut(lg, ev2, s, o)}
  BY <1>1, OutsAre
<1>5. ASSUME NEW o \in Nat \X Nat
      PROVE  IsOut(lg, ev2, s, o) <=> IsOut(lg, ev, s, o) \/ (e.player = s /\ o = here)
  BY <1>1, <1>2 DEF IsOut
<1>6. here \in Nat \X Nat
  BY <1>2
<1> HIDE DEF here, ev2
<1>7. QED
  BY <1>3, <1>4, <1>5, <1>6 DEF here, ev2

(* Closing a bundle moves no event. *)
LEMMA OutsClose ==
  ASSUME NEW lg \in Seq(Bundles), NEW b \in Bundles, NEW s \in Slots
  PROVE  OutsIn(Append(lg, b), << >>, s) = OutsIn(lg, b.events, s)
<1> DEFINE lg2 == Append(lg, b)
<1>1. /\ lg2 \in Seq(Bundles) /\ Len(lg2) = Len(lg) + 1 /\ Len(lg) \in Nat
      /\ \A i \in 1 .. Len(lg) : lg2[i] = lg[i]
      /\ lg2[Len(lg) + 1] = b
  BY AppendProperties, LenProperties
<1>2. b.events \in Seq(Events) /\ << >> \in Seq(Events) /\ Len(<< >>) = 0
  BY DEF Bundles
<1> HIDE DEF lg2
<1>3. OutsIn(lg2, << >>, s) = {o \in Nat \X Nat : IsOut(lg2, << >>, s, o)}
  BY <1>1, <1>2, OutsAre
<1>4. OutsIn(lg, b.events, s) = {o \in Nat \X Nat : IsOut(lg, b.events, s, o)}
  BY <1>2, OutsAre
<1>5. ASSUME NEW o \in Nat \X Nat
      PROVE  IsOut(lg2, << >>, s, o) <=> IsOut(lg, b.events, s, o)
  BY <1>1, <1>2 DEF IsOut
<1>6. QED
  BY <1>3, <1>4, <1>5 DEF lg2

(* Steps that touch no order and no event. *)
LEMMA SameOrders ==
  ASSUME Clean, UNCHANGED <<slotClient, closed, log, sched, events, queue, boundary>>
  PROVE  Clean'
BY DEF Clean, OwnQueues, OwnBuckets, OwnBundles, OutOnce

LEMMA BucketTypes ==
  ASSUME TypeOK, NEW s \in Slots, NEW k \in 1 .. Delay
  PROVE  sched[k][s] \in Seq(Commands)
<1>1. sched \in [1 .. Delay -> [Slots -> Seq(Commands)]]
  BY DEF TypeOK
<1>2. sched[k] \in [Slots -> Seq(Commands)]
  BY <1>1
<1>3. QED
  BY <1>2

(* What nobody sits in has nothing scheduled. *)
LEMMA EmptyBuckets ==
  ASSUME IInv, OwnBuckets, NEW s \in Slots, slotClient[s] = None, NEW k \in 1 .. Delay
  PROVE  sched[k][s] = << >>
<1>1. sched[k][s] \in Seq(Commands)
  BY BucketTypes DEF IInv
<1>2. SUFFICES ASSUME Len(sched[k][s]) # 0 PROVE FALSE
  BY <1>1, EmptySeq
<1>3. 1 \in 1 .. Len(sched[k][s])
  BY <1>1, <1>2, LenProperties
<1>4. sched[k][s][1] \in Commands /\ sched[k][s][1].conn = None
  BY <1>1, <1>3, ElementOfSeq DEF OwnBuckets, AllOf
<1>5. QED
  BY <1>4, TickAssumption DEF Commands

(* An elimination: the event joins the bundle being collected, and the slot *)
(* is closed.                                                               *)
LEMMA GoesOut ==
  ASSUME IInv, OutOnce, NEW s \in Slots, ~ closed[s], log' = log,
         closed' = [closed EXCEPT ![s] = TRUE],
         NEW e \in Events, e.player = s, events' = Append(events, e)
  PROVE  OutOnce'
<1>1. log \in Seq(Bundles) /\ events \in Seq(Events) /\ closed \in [Slots -> BOOLEAN]
  BY DEF IInv, TypeOK, Bundles
<1>2. Len(log) \in Nat /\ Len(events) \in Nat
  BY <1>1, LenProperties
<1>3. \A t \in Slots : OutsIn(log', events', t) =
        IF t = s THEN OutsIn(log, events, t) \cup {<<Len(log) + 1, Len(events) + 1>>}
        ELSE OutsIn(log, events, t)
  BY <1>1, OutsAppend
<1>4. OutsIn(log', events', s) = {<<Len(log) + 1, Len(events) + 1>>}
  BY <1>3 DEF OutOnce
<1>5. /\ <<Len(log) + 1, Len(events) + 1>> \in Nat \X Nat
      /\ \A i \in (Len(log) + 1 + 1) .. Len(log') : log'[i].cmds[s] = << >>
  BY <1>2
<1>6. \E o \in Nat \X Nat : /\ OutsIn(log', events', s) = {o}
                            /\ \A i \in (o[1] + 1) .. Len(log') : log'[i].cmds[s] = << >>
  BY <1>4, <1>5
<1>7. \A t \in Slots \ {s} : closed'[t] = closed[t] /\ OutsIn(log', events', t) = OutsIn(log, events, t)
  BY <1>1, <1>3
<1>8. closed'[s]
  BY <1>1
<1>9. QED
  <2> SUFFICES ASSUME NEW t \in Slots
               PROVE  /\ ~ closed'[t] => OutsIn(log', events', t) = {}
                      /\ closed'[t] => \E o \in Nat \X Nat :
                           /\ OutsIn(log', events', t) = {o}
                           /\ \A i \in (o[1] + 1) .. Len(log') : log'[i].cmds[t] = << >>
    BY DEF OutOnce
  <2>1. CASE t = s
    BY <1>6, <1>8, <2>1, Zenon
  <2>2. CASE t # s
    <3>1. closed'[t] = closed[t] /\ OutsIn(log', events', t) = OutsIn(log, events, t)
      BY <1>7, <2>2
    <3> QED BY <3>1, Zenon DEF OutOnce
  <2> QED BY <2>1, <2>2

(* dropPendingCommands of a player that loses the seat. *)
LEMMA GivesUpSeat ==
  ASSUME IInv, Clean, NEW c \in Conns, Seated(c), DropPendingCommands(c), log' = log,
         slotClient' = [slotClient EXCEPT ![Seat[c]] = None],
         \A d \in Conns \ {c} : boundary'[d] = boundary[d]
  PROVE  OwnQueues' /\ OwnBuckets' /\ OwnBundles'
<1> DEFINE s == Seat[c]
<1>1. /\ s \in Slots /\ SlotOf(c) = s /\ \A t \in Slots : slotClient[t] = c => t = s
  BY SeatIsUnique DEF IInv
<1>2. /\ queue' = [queue EXCEPT ![c] = << >>]
      /\ sched' = [k \in 1 .. Delay |-> [sched[k] EXCEPT ![s] = << >>]]
  BY <1>1 DEF DropPendingCommands
<1>3. /\ queue \in [Conns -> Seq(Commands)] /\ sched \in [1 .. Delay -> [Slots -> Seq(Commands)]]
      /\ slotClient \in [Slots -> Conns \cup {None}] /\ None \notin Conns
  BY TickAssumption DEF IInv, TypeOK
<1>4. OwnQueues'
  BY <1>2, <1>3, EmptySeq DEF Clean, OwnQueues, AllOf
<1>5. ASSUME NEW t \in Slots, NEW k \in 1 .. Delay
      PROVE  AllOf(sched'[k][t], slotClient'[t])
  <2>1. CASE t = s
    BY <1>1, <1>2, <1>3, <2>1, EmptySeq DEF AllOf
  <2>2. CASE t # s
    BY <1>1, <1>2, <1>3, <2>2 DEF Clean, OwnBuckets
  <2>3. QED
    BY <2>1, <2>2
<1>6. ASSUME NEW t \in Slots, slotClient'[t] # None
      PROVE  /\ slotClient'[t] = slotClient[t] /\ slotClient[t] # None
             /\ boundary'[slotClient[t]] = boundary[slotClient[t]]
  <2>1. t # s /\ slotClient'[t] = slotClient[t]
    BY <1>1, <1>3, <1>6
  <2>2. slotClient[t] # c /\ slotClient[t] \in Conns
    BY <1>1, <1>3, <1>6, <2>1
  <2>3. QED
    BY <1>6, <2>1, <2>2
<1>7. OwnBundles'
  BY <1>6 DEF Clean, OwnBundles
<1>8. QED
  BY <1>4, <1>5, <1>7 DEF OwnBuckets

LEMMA DetachClean ==
  ASSUME IInv, Clean, NEW c \in Conns, LeaveGame(c) \/ DropClient(c)
  PROVE  Clean'
<1>1. /\ c \in Members /\ log' = log
      /\ closed \in [Slots -> BOOLEAN] /\ boundary \in [Conns -> Nat]
      /\ queue \in [Conns -> Seq(Commands)]
      /\ slotClient \in [Slots -> Conns \cup {None}] /\ None \notin Conns
  BY DetachStream, TickAssumption DEF IInv, TypeOK
<1>2. DropPendingCommands(c)
  BY DEF LeaveGame, DropClient, LeaveRoom, HoldSlot
<1>3. \A d \in Conns \ {c} : boundary'[d] = boundary[d]
  BY <1>1 DEF LeaveGame, DropClient
<1>4. CASE Seated(c)
  <2> DEFINE s == Seat[c]
  <2>1. s \in Slots /\ SlotOf(c) = s /\ slotClient[s] = c /\ c \notin spectators
    BY <1>4, SeatIsUnique DEF IInv
  <2>2. slotClient' = [slotClient EXCEPT ![s] = None]
    BY <2>1 DEF LeaveGame, DropClient, LeaveRoom, HoldSlot
  <2>3. OwnQueues' /\ OwnBuckets' /\ OwnBundles'
    BY <1>1, <1>2, <1>3, <1>4, <2>2, GivesUpSeat
  <2>4. ~ closed[s]
    BY <1>1, <2>1 DEF IInv, Places
  <2>5. CASE LeaveRoom(c)
    <3>1. /\ closed' = [closed EXCEPT ![s] = TRUE]
          /\ events' = Append(events, [kind |-> "Leave", player |-> s])
      BY <2>1, <2>5 DEF LeaveRoom
    <3>2. [kind |-> "Leave", player |-> s] \in Events
      BY <2>1 DEF Events
    <3>3. OutOnce'
      BY <1>1, <2>1, <2>4, <3>1, <3>2, GoesOut DEF Clean
    <3>4. QED
      BY <2>3, <3>3 DEF Clean
  <2>6. CASE HoldSlot(c)
    <3>1. closed' = closed /\ events' = events
      BY <2>6 DEF HoldSlot
    <3>2. QED
      BY <1>1, <2>3, <3>1 DEF Clean, OutOnce
  <2>7. QED
    BY <2>5, <2>6 DEF LeaveGame, DropClient
<1>5. CASE ~ Seated(c)
  <2>1. c \in spectators /\ LeaveRoom(c)
    BY <1>1, <1>5 DEF Members, Seated, LeaveGame, DropClient
  <2>2. slotClient' = slotClient /\ closed' = closed /\ events' = events
    BY <2>1 DEF LeaveRoom
  <2>3. queue' = [queue EXCEPT ![c] = << >>] /\ sched' = sched
    BY <1>2, <1>5 DEF DropPendingCommands
  <2>4. OwnQueues'
    BY <1>1, <2>3, EmptySeq DEF Clean, OwnQueues, AllOf
  <2>5. \A t \in Slots : slotClient[t] # None => boundary'[slotClient[t]] = boundary[slotClient[t]]
    BY <1>1, <1>3, <1>5 DEF Seated
  <2>6. OwnBuckets' /\ OwnBundles' /\ OutOnce'
    BY <1>1, <2>2, <2>3, <2>5 DEF Clean, OwnBuckets, OwnBundles, OutOnce
  <2>7. QED
    BY <2>4, <2>6 DEF Clean
<1>6. QED
  BY <1>4, <1>5

LEMMA AttachClean ==
  ASSUME IInv, Clean, NEW c \in Conns, (\E s \in Slots : Rejoin(c, s)) \/ Spectate(c)
  PROVE  Clean'
<1>1. /\ closed' = closed /\ log' = log /\ events' = events /\ sched' = sched
      /\ queue' = [queue EXCEPT ![c] = << >>]
      /\ boundary' = [boundary EXCEPT ![c] = Len(log)]
  BY DEF Rejoin, Spectate, SendHistory
<1>2. /\ queue \in [Conns -> Seq(Commands)] /\ boundary \in [Conns -> Nat]
      /\ slotClient \in [Slots -> Conns \cup {None}] /\ None \notin Conns
      /\ Len(log) \in Nat
  BY LenProperties, TickAssumption DEF IInv, TypeOK
<1>3. \A t \in Slots : slotClient[t] # c
  <2>1. c \notin Members
    BY AttachPlaces DEF IInv
  <2>2. QED
    BY <1>2, <2>1 DEF Members
<1>4. OwnQueues'
  BY <1>1, <1>2, EmptySeq DEF Clean, OwnQueues, AllOf
<1>5. OutOnce'
  BY <1>1 DEF Clean, OutOnce
<1>6. \A t \in Slots : slotClient[t] # None => boundary'[slotClient[t]] = boundary[slotClient[t]]
  BY <1>1, <1>2, <1>3
<1>7. CASE Spectate(c)
  <2>1. slotClient' = slotClient
    BY <1>7 DEF Spectate
  <2>2. QED
    BY <1>1, <1>4, <1>5, <1>6, <2>1 DEF Clean, OwnBuckets, OwnBundles
<1>8. ASSUME NEW s \in Slots, Rejoin(c, s) PROVE Clean'
  <2>1. slotClient' = [slotClient EXCEPT ![s] = c] /\ slotClient[s] = None
    BY <1>8 DEF Rejoin, IInv, Places
  <2>2. ASSUME NEW t \in Slots, NEW k \in 1 .. Delay
        PROVE  AllOf(sched'[k][t], slotClient'[t])
    <3>1. CASE t = s
      <4>1. sched'[k][t] = << >>
        BY <1>1, <2>1, <3>1, EmptyBuckets DEF Clean
      <4>2. QED
        BY <4>1, EmptySeq DEF AllOf
    <3>2. CASE t # s
      BY <1>1, <1>2, <2>1, <3>2 DEF Clean, OwnBuckets
    <3>3. QED
      BY <3>1, <3>2
  <2>3. ASSUME NEW t \in Slots, slotClient'[t] # None,
               NEW i \in boundary'[slotClient'[t]] + 1 .. Len(log')
        PROVE  AllOf(log'[i].cmds[t], slotClient'[t])
    <3>1. CASE t = s
      <4>1. slotClient'[t] = c /\ boundary'[c] = Len(log)
        BY <1>1, <1>2, <2>1, <3>1
      <4>2. QED
        BY <1>1, <1>2, <2>3, <4>1
    <3>2. CASE t # s
      <4>1. slotClient'[t] = slotClient[t]
        BY <1>2, <2>1, <3>2
      <4>2. QED
        BY <1>1, <1>6, <2>3, <4>1 DEF Clean, OwnBundles
    <3>3. QED
      BY <3>1, <3>2
  <2>4. QED
    BY <1>4, <1>5, <2>2, <2>3 DEF Clean, OwnBuckets, OwnBundles
<1>9. QED
  BY <1>7, <1>8

LEMMA CommandsClean ==
  ASSUME IInv, Clean, NEW c \in Conns, NEW k \in 1 .. MaxSend, PlayerCommands(c, k)
  PROVE  Clean'
<1> DEFINE batch == [i \in 1 .. k |-> [conn |-> c, n |-> orders[c] + i]]
           free  == QueueCap - Len(queue[c])
           m     == IF k < free THEN k ELSE free
           part  == SubSeq(batch, 1, m)
<1>1. queue \in [Conns -> Seq(Commands)] /\ orders \in [Conns -> Nat]
  BY DEF IInv, TypeOK
<1>2. m \in Int /\ m <= k
  BY <1>1, LenProperties, TickAssumption
<1>3. \A i \in 1 .. m : batch[i] \in Commands /\ batch[i].conn = c
  BY <1>1, <1>2, TickAssumption DEF PlayerCommands, Commands
<1>4. /\ part \in Seq(Commands) /\ \A i \in 1 .. Len(part) : part[i].conn = c
  <2> HIDE DEF batch, m
  <2>1. /\ part \in Seq(Commands)
        /\ Len(part) = IF 1 <= m THEN m - 1 + 1 ELSE 0
        /\ \A i \in 1 .. m - 1 + 1 : part[i] = batch[1 + i - 1]
    BY <1>2, <1>3, SubSeqProperties
  <2>2. QED
    BY <1>2, <1>3, <2>1
<1>5. queue' = [queue EXCEPT ![c] = queue[c] \o part]
  BY DEF PlayerCommands
<1> HIDE DEF part
<1>6. AllOf(queue[c] \o part, c)
  <2>1. /\ Len(queue[c] \o part) = Len(queue[c]) + Len(part)
        /\ \A i \in 1 .. Len(queue[c]) + Len(part) :
             (queue[c] \o part)[i] = IF i <= Len(queue[c]) THEN queue[c][i]
                                     ELSE part[i - Len(queue[c])]
    BY <1>1, <1>4, ConcatProperties
  <2>2. Len(queue[c]) \in Nat /\ Len(part) \in Nat
    BY <1>1, <1>4, LenProperties
  <2>3. \A i \in 1 .. Len(queue[c]) : queue[c][i].conn = c
    BY DEF Clean, OwnQueues, AllOf
  <2>4. QED
    BY <1>4, <2>1, <2>2, <2>3 DEF AllOf
<1>7. OwnQueues'
  BY <1>1, <1>5, <1>6 DEF Clean, OwnQueues
<1>8. UNCHANGED <<slotClient, closed, log, sched, events, boundary>>
  BY DEF PlayerCommands
<1>9. QED
  BY <1>7, <1>8 DEF Clean, OwnBuckets, OwnBundles, OutOnce

(* What closeTick takes is a prefix of the queue of whoever sits there. *)
LEMMA TakenIsOwn ==
  ASSUME IInv, OwnQueues, NEW s \in Slots
  PROVE  /\ Taken(s) \in Seq(Commands) /\ AllOf(Taken(s), slotClient[s])
         /\ slotClient[s] = None => Taken(s) = << >>
<1>1. CASE slotClient[s] = None
  BY <1>1, EmptySeq DEF Taken, AllOf
<1>2. CASE slotClient[s] # None
  <2> DEFINE q == queue[slotClient[s]]
             n == IF Len(q) < Cap THEN Len(q) ELSE Cap
  <2>1. q \in Seq(Commands) /\ AllOf(q, slotClient[s])
    BY <1>2 DEF IInv, TypeOK, OwnQueues
  <2>2. n \in Int /\ n <= Len(q) /\ \A i \in 1 .. n : q[i] \in Commands
    BY <2>1, LenProperties, ElementOfSeq, TickAssumption
  <2>3. Taken(s) = SubSeq(q, 1, n)
    BY <1>2 DEF Taken
  <2> HIDE DEF q, n
  <2>4. /\ SubSeq(q, 1, n) \in Seq(Commands)
        /\ Len(SubSeq(q, 1, n)) = IF 1 <= n THEN n - 1 + 1 ELSE 0
        /\ \A i \in 1 .. n - 1 + 1 : SubSeq(q, 1, n)[i] = q[1 + i - 1]
    BY <2>2, SubSeqProperties
  <2>5. AllOf(SubSeq(q, 1, n), slotClient[s])
    <3>1. Len(q) \in Nat
      BY <2>1, LenProperties
    <3>2. QED
      BY <2>1, <2>2, <2>4, <3>1 DEF AllOf
  <2>6. QED
    BY <1>2, <2>3, <2>4, <2>5
<1>3. QED
  BY <1>1, <1>2

(* What is left of a queue is its own, what moves on belongs to the slot's  *)
(* client, and a slot that is closed adds nothing to the bundle.            *)
LEMMA CloseTickClean ==
  ASSUME IInv, Clean, CloseTick
  PROVE  Clean'
<1> DEFINE drained == [s \in Slots |-> Taken(s)]
           bundle  == [cmds   |-> IF Delay = 0 THEN drained ELSE sched[1],
                       events |-> events]
<1>1. /\ log' = Append(log, bundle)
      /\ sched' = [k \in 1 .. Delay |-> IF k = Delay THEN drained ELSE sched[k + 1]]
      /\ queue' = [c \in Conns |->
                     IF Seated(c)
                       THEN SubSeq(queue[c], Len(Taken(SlotOf(c))) + 1, Len(queue[c]))
                       ELSE queue[c]]
      /\ events' = << >> /\ UNCHANGED <<slotClient, closed, boundary>>
  BY DEF CloseTick
<1>2. /\ log \in Seq(Bundles) /\ events \in Seq(Events) /\ Delay \in Nat
      /\ queue \in [Conns -> Seq(Commands)] /\ boundary \in [Conns -> Nat]
      /\ sched \in [1 .. Delay -> [Slots -> Seq(Commands)]]
      /\ slotClient \in [Slots -> Conns \cup {None}]
  BY TickAssumption DEF IInv, TypeOK, Bundles
<1>3. \A s \in Slots : /\ Taken(s) \in Seq(Commands) /\ AllOf(Taken(s), slotClient[s])
                       /\ slotClient[s] = None => Taken(s) = << >>
  BY TakenIsOwn DEF Clean
<1>4. drained \in [Slots -> Seq(Commands)]
  BY <1>3
<1>5. /\ bundle \in Bundles /\ bundle.events = events
      /\ \A s \in Slots : /\ AllOf(bundle.cmds[s], slotClient[s])
                          /\ slotClient[s] = None => bundle.cmds[s] = << >>
  <2>1. CASE Delay = 0
    BY <1>2, <1>3, <1>4, <2>1 DEF Bundles
  <2>2. CASE Delay # 0
    <3>1. 1 \in 1 .. Delay
      BY <1>2, <2>2
    <3>2. \A s \in Slots : /\ AllOf(sched[1][s], slotClient[s])
                           /\ slotClient[s] = None => sched[1][s] = << >>
      BY <3>1, EmptyBuckets DEF Clean, OwnBuckets
    <3>3. QED
      BY <1>2, <2>2, <3>1, <3>2 DEF Bundles
  <2>3. QED
    BY <2>1, <2>2
<1> HIDE DEF bundle
<1>6. /\ Len(log') = Len(log) + 1 /\ Len(log) \in Nat
      /\ \A i \in 1 .. Len(log) : log'[i] = log[i]
      /\ log'[Len(log) + 1] = bundle
  BY <1>1, <1>2, <1>5, AppendProperties, LenProperties
<1>7. OwnQueues'
  <2>1. ASSUME NEW c \in Conns, Seated(c)
        PROVE  AllOf(SubSeq(queue[c], Len(Taken(SlotOf(c))) + 1, Len(queue[c])), c)
    <3> DEFINE q == queue[c]
               m == Len(Taken(SlotOf(c))) + 1
               n == Len(q)
    <3>1. Taken(SlotOf(c)) \in Seq(Commands)
      BY <1>3, <2>1, SlotOfIsASlot
    <3>2. /\ m \in Nat /\ m >= 1 /\ n \in Nat /\ q \in Seq(Commands)
          /\ \A i \in 1 .. n : q[i].conn = c
      BY <1>2, <3>1, LenProperties DEF Clean, OwnQueues, AllOf
    <3>3. \A i \in m .. n : q[i] \in Commands
      BY <3>2, ElementOfSeq
    <3> HIDE DEF q, m, n
    <3>4. /\ Len(SubSeq(q, m, n)) = IF m <= n THEN n - m + 1 ELSE 0
          /\ \A i \in 1 .. n - m + 1 : SubSeq(q, m, n)[i] = q[m + i - 1]
      BY <3>2, <3>3, SubSeqProperties
    <3>5. ASSUME NEW i \in 1 .. Len(SubSeq(q, m, n)) PROVE SubSeq(q, m, n)[i].conn = c
      <4>1. i \in 1 .. n - m + 1 /\ m + i - 1 \in 1 .. n
        BY <3>2, <3>4
      <4>2. QED
        BY <3>2, <3>4, <4>1
    <3>6. QED
      BY <3>5 DEF AllOf, q, m, n
  <2>2. QED
    BY <1>1, <2>1 DEF Clean, OwnQueues
<1>8. OwnBuckets'
  <2>1. ASSUME NEW s \in Slots, NEW k \in 1 .. Delay
        PROVE  AllOf(sched'[k][s], slotClient[s])
    <3>1. CASE k = Delay
      BY <1>1, <1>3, <3>1
    <3>2. CASE k # Delay
      <4>1. k + 1 \in 1 .. Delay /\ sched'[k] = sched[k + 1]
        BY <1>1, <1>2, <3>2
      <4>2. QED
        BY <4>1 DEF Clean, OwnBuckets
    <3>3. QED
      BY <3>1, <3>2
  <2>2. QED
    BY <1>1, <2>1 DEF OwnBuckets
<1>9. OwnBundles'
  <2>1. ASSUME NEW s \in Slots, slotClient[s] # None,
               NEW i \in boundary[slotClient[s]] + 1 .. Len(log')
        PROVE  AllOf(log'[i].cmds[s], slotClient[s])
    <3>1. CASE i = Len(log) + 1
      BY <1>5, <1>6, <3>1
    <3>2. CASE i # Len(log) + 1
      <4>1. boundary[slotClient[s]] \in Nat
        BY <1>2, <2>1
      <4>2. i \in boundary[slotClient[s]] + 1 .. Len(log) /\ log'[i] = log[i]
        BY <1>6, <3>2, <4>1
      <4>3. QED
        BY <2>1, <4>2 DEF Clean, OwnBundles
    <3>3. QED
      BY <3>1, <3>2
  <2>2. QED
    BY <1>1, <2>1 DEF OwnBundles
<1>10. OutOnce'
  <2>1. ASSUME NEW s \in Slots PROVE OutsIn(log', events', s) = OutsIn(log, events, s)
    BY <1>1, <1>2, <1>5, OutsClose
  <2>2. ASSUME NEW s \in Slots, closed[s]
        PROVE  \E o \in Nat \X Nat :
                 /\ OutsIn(log, events, s) = {o}
                 /\ \A i \in (o[1] + 1) .. Len(log') : log'[i].cmds[s] = << >>
    <3>1. PICK o \in Nat \X Nat :
            /\ OutsIn(log, events, s) = {o}
            /\ \A i \in (o[1] + 1) .. Len(log) : log[i].cmds[s] = << >>
      BY <2>2 DEF Clean, OutOnce
    <3>2. slotClient[s] = None
      BY <2>2 DEF IInv, Places
    <3>3. ASSUME NEW i \in (o[1] + 1) .. Len(log') PROVE log'[i].cmds[s] = << >>
      <4>1. o[1] \in Nat
        BY <3>1
      <4>2. CASE i = Len(log) + 1
        BY <1>5, <1>6, <3>2, <4>2
      <4>3. CASE i # Len(log) + 1
        BY <1>6, <3>1, <4>1, <4>3
      <4>4. QED
        BY <4>2, <4>3
    <3>4. QED
      BY <3>1, <3>3
  <2>3. QED
    BY <1>1, <2>1, <2>2 DEF Clean, OutOnce
<1>11. QED
  BY <1>7, <1>8, <1>9, <1>10 DEF Clean

LEMMA CleanStep ==
  ASSUME IInv, Clean, [Next]_vars
  PROVE  Clean'
<1>1. ASSUME NEW c \in Conns, NEW k \in 1 .. MaxSend, PlayerCommands(c, k) PROVE Clean'
  BY <1>1, CommandsClean
<1>2. ASSUME NEW c \in Conns, LeaveGame(c) \/ DropClient(c) PROVE Clean'
  BY <1>2, DetachClean
<1>3. ASSUME NEW c \in Conns, (\E s \in Slots : Rejoin(c, s)) \/ Spectate(c) PROVE Clean'
  BY <1>3, AttachClean
<1>4. ASSUME NEW c \in Conns, Loaded(c) \/ (\E t \in 0 .. MaxTick : StateHash(c, t))
             \/ (\E want \in BOOLEAN : SetPause(c, want)) \/ Feed(c) \/ ReadStart(c) \/ Consume(c)
      PROVE  Clean'
  BY <1>4, SameOrders DEF Loaded, StateHash, SetPause, Feed, ReadStart, Consume
<1>5. ASSUME NEW s \in Slots, Sweep(s) PROVE Clean'
  <2>1. /\ ~ closed[s] /\ closed' = [closed EXCEPT ![s] = TRUE] /\ log' = log
        /\ events' = Append(events, [kind |-> "Forfeit", player |-> s])
        /\ UNCHANGED <<slotClient, sched, queue, boundary>>
    BY <1>5 DEF Sweep, IInv, Places
  <2>2. [kind |-> "Forfeit", player |-> s] \in Events
    BY DEF Events
  <2>3. OutOnce'
    BY <2>1, <2>2, GoesOut DEF Clean
  <2>4. QED
    BY <2>1, <2>3 DEF Clean, OwnQueues, OwnBuckets, OwnBundles
<1>6. CASE Teardown
  BY <1>6, SameOrders DEF Teardown
<1>7. CASE CloseTick
  BY <1>7, CloseTickClean
<1>8. CASE UNCHANGED vars
  BY <1>8, SameOrders DEF vars
<1>9. QED
  BY <1>1, <1>2, <1>3, <1>4, <1>5, <1>6, <1>7, <1>8, NextIs DEF AnyFrame, ClientFrame

LEMMA CleanInit == Init => Clean
<1> SUFFICES ASSUME Init PROVE Clean
  OBVIOUS
<1>1. /\ queue = [c \in Conns |-> << >>] /\ log = << >> /\ events = << >>
      /\ sched = [k \in 1 .. Delay |-> [s \in Slots |-> << >>]]
      /\ closed = [s \in Slots |-> FALSE] /\ boundary = [c \in Conns |-> 0]
      /\ slotClient \in [Slots -> Conns]
  BY TickAssumption DEF Init, NoOrders
<1>2. Len(<< >>) = 0
  BY EmptySeq
<1>3. OwnQueues /\ OwnBuckets
  BY <1>1, <1>2 DEF OwnQueues, OwnBuckets, AllOf
<1>4. OwnBundles
  BY <1>1, <1>2 DEF OwnBundles
<1>5. ASSUME NEW s \in Slots PROVE OutsIn(log, events, s) = {}
  <2>1. log \in Seq(Bundles) /\ events \in Seq(Events)
    BY <1>1, EmptySeq
  <2>2. OutsIn(log, events, s) = {o \in Nat \X Nat : IsOut(log, events, s, o)}
    BY <2>1, OutsAre
  <2>3. QED
    BY <1>1, <1>2, <2>2 DEF IsOut
<1>6. QED
  BY <1>1, <1>3, <1>4, <1>5 DEF Clean, OutOnce

(* What a player had queued or scheduled neither surfaces after the player  *)
(* is back nor after the player is out, and an elimination is sequenced     *)
(* once, for any number of players, drops, rejoins and ticks of delay.      *)
THEOREM DropsAreClean == Spec => []NothingOutlivesTheDrop
<1>1. IInv /\ Clean /\ [Next]_vars => Clean'
  BY CleanStep
<1>2. IInv /\ Clean => NothingOutlivesTheDrop
  <2> SUFFICES ASSUME IInv, Clean PROVE NothingOutlivesTheDrop
    OBVIOUS
  <2>1. BoundaryIsClean
    <3>1. \A q \in Seq(Commands), c \in Conns : AllOf(q, c) => \A x \in Range(q) : x.conn = c
      BY LenProperties DEF AllOf, Range
    <3>2. \A s \in Slots : slotClient[s] # None => slotClient[s] \in Conns
      BY DEF IInv, TypeOK
    <3>3. ASSUME NEW s \in Slots, slotClient[s] # None,
                 NEW i \in boundary[slotClient[s]] + 1 .. Len(log)
          PROVE  \A x \in Range(log[i].cmds[s]) : x.conn = slotClient[s]
      <4>1. log \in Seq(Bundles) /\ i \in 1 .. Len(log)
        BY <3>2, <3>3, LenProperties DEF IInv, TypeOK, Bundles
      <4>2. log[i].cmds[s] \in Seq(Commands)
        <5>1. log[i] \in Bundles
          BY <4>1, ElementOfSeq
        <5>2. QED
          BY <5>1 DEF Bundles
      <4>3. QED
        BY <3>1, <3>2, <3>3, <4>2 DEF Clean, OwnBundles
    <3>4. ASSUME NEW s \in Slots, slotClient[s] # None, NEW k \in 1 .. Delay
          PROVE  \A x \in Range(sched[k][s]) : x.conn = slotClient[s]
      BY <3>1, <3>2, <3>4, BucketTypes DEF IInv, Clean, OwnBuckets
    <3>5. QED
      BY <3>3, <3>4 DEF BoundaryIsClean
  <2>2. OutOnceAndSilent
    <3>1. ASSUME NEW s \in Slots, ~ closed[s]
          PROVE  OutsIn(log, events, s) = {} /\ Cardinality(OutsIn(log, events, s)) = 0
      BY <3>1, FS_EmptySet DEF Clean, OutOnce
    <3>2. ASSUME NEW s \in Slots, closed[s]
          PROVE  /\ Cardinality(OutsIn(log, events, s)) = 1
                 /\ \A o \in OutsIn(log, events, s) :
                      \A i \in (o[1] + 1) .. Len(log) : log[i].cmds[s] = << >>
                 /\ \A k \in 1 .. Delay : sched[k][s] = << >>
      <4>1. PICK o \in Nat \X Nat :
              /\ OutsIn(log, events, s) = {o}
              /\ \A i \in (o[1] + 1) .. Len(log) : log[i].cmds[s] = << >>
        BY <3>2 DEF Clean, OutOnce
      <4>2. slotClient[s] = None
        BY <3>2 DEF IInv, Places
      <4>3. \A k \in 1 .. Delay : sched[k][s] = << >>
        BY <4>2, EmptyBuckets DEF Clean
      <4>4. QED
        BY <4>1, <4>3, FS_Singleton
    <3>3. QED
      BY <3>1, <3>2 DEF OutOnceAndSilent
  <2>3. QED
    BY <2>1, <2>2 DEF NothingOutlivesTheDrop
<1>3. QED
  BY <1>1, <1>2, CleanInit, ServerInv, PTL DEF Spec
-----------------------------------------------------------------------------
(* The order of a player's commands *)

(* Place i of stage k holds a command given on c. *)
At(stages, c, k, i) == k \in DOMAIN stages /\ i \in DOMAIN stages[k] /\ stages[k][i].conn = c

(* The commands of c are numbered upwards from stage to stage and in each. *)
Straight(stages, c) ==
  \A k, i, l, j :
    At(stages, c, k, i) /\ At(stages, c, l, j) /\ Before(<<k, i>>, <<l, j>>) =>
      stages[k][i].n < stages[l][j].n

(* Command n of c is underway. *)
Has(stages, c, n) == \E k, i : At(stages, c, k, i) /\ stages[k][i].n = n

(* Stages(c), of the parts of the state it depends on. *)
StagesOf(lg, sch, q, s) ==
  [k \in 1 .. Len(lg) + Delay + 1 |->
     IF k <= Len(lg) THEN lg[k].cmds[s]
     ELSE IF k <= Len(lg) + Delay THEN sch[k - Len(lg)][s]
     ELSE q]

(* While a player keeps the seat, its commands 1, 2, ... are underway, none *)
(* numbered past what was given; as many are in the queue at most, so that  *)
(* a connection that sends no more than the queue holds loses none.  A      *)
(* connection that may still take its seat has given nothing yet.           *)
Given(c) ==
  /\ Straight(Stages(c), c)
  /\ Seated(c) =>
       /\ \A n : Has(Stages(c), c, n) => n \in 1 .. orders[c]
       /\ Len(queue[c]) <= orders[c]
       /\ MaxSend <= QueueCap => \A n \in 1 .. orders[c] : Has(Stages(c), c, n)
  /\ ~ Seated(c) => queue[c] = << >>
  /\ ~ Seated(c) /\ state[c] # "gone" /\ ~ closed[Seat[c]] =>
       orders[c] = 0 /\ \A n : ~ Has(Stages(c), c, n)

Ordered == \A c \in Conns : Seat[c] # None => Given(c)

(* Stages that hold nothing of c but what others hold at the same places. *)
LEMMA FewerPlaces ==
  ASSUME NEW stages, NEW fewer, NEW c,
         \A k, i : At(fewer, c, k, i) => At(stages, c, k, i) /\ fewer[k][i] = stages[k][i]
  PROVE  /\ Straight(stages, c) => Straight(fewer, c)
         /\ \A n : Has(fewer, c, n) => Has(stages, c, n)
BY DEF Straight, Has

(* The last of N stages gives the first m of its len places to a stage of   *)
(* their own.                                                               *)
Splits(N, stages, split, m, len) ==
  /\ N \in Nat \ {0} /\ m \in Nat /\ len \in Nat /\ m <= len
  /\ DOMAIN stages = 1 .. N /\ DOMAIN split = 1 .. (N + 1)
  /\ \A k \in 1 .. (N - 1) : split[k] = stages[k] /\ DOMAIN stages[k] \subseteq Nat
  /\ DOMAIN stages[N] = 1 .. len
  /\ DOMAIN split[N] = 1 .. m /\ \A i \in 1 .. m : split[N][i] = stages[N][i]
  /\ DOMAIN split[N + 1] = 1 .. (len - m)
  /\ \A i \in 1 .. (len - m) : split[N + 1][i] = stages[N][m + i]

LEMMA SplitStage ==
  ASSUME NEW N, NEW stages, NEW split, NEW m, NEW len, Splits(N, stages, split, m, len), NEW c
  PROVE  /\ Straight(stages, c) => Straight(split, c)
         /\ \A n : Has(split, c, n) <=> Has(stages, c, n)
<1> USE DEF Splits
<1> DEFINE kk(k) == IF k = N + 1 THEN N ELSE k
           ii(k, i) == IF k = N + 1 THEN m + i ELSE i
<1>1. ASSUME NEW k, NEW i, At(split, c, k, i)
      PROVE  /\ At(stages, c, kk(k), ii(k, i)) /\ split[k][i] = stages[kk(k)][ii(k, i)]
             /\ k \in 1 .. (N + 1) /\ i \in Nat
  <2>1. CASE k = N + 1
    <3>1. i \in 1 .. (len - m)
      BY <1>1, <2>1 DEF At
    <3>2. m + i \in 1 .. len
      BY <3>1
    <3>3. QED
      BY <1>1, <2>1, <3>1, <3>2 DEF At
  <2>2. CASE k = N
    <3>1. i \in 1 .. m /\ i \in 1 .. len
      BY <1>1, <2>2 DEF At
    <3>2. QED
      BY <1>1, <2>2, <3>1 DEF At
  <2>3. CASE k # N /\ k # N + 1
    <3>1. k \in 1 .. (N - 1)
      BY <1>1, <2>3 DEF At
    <3>2. QED
      BY <1>1, <2>3, <3>1 DEF At
  <2>4. QED
    BY <2>1, <2>2, <2>3
<1>2. ASSUME NEW k, NEW i, At(stages, c, k, i)
      PROVE  \E l, j : At(split, c, l, j) /\ split[l][j] = stages[k][i]
  <2>1. CASE k = N /\ i <= m
    <3>1. i \in 1 .. m /\ k \in 1 .. (N + 1)
      BY <1>2, <2>1 DEF At
    <3>2. At(split, c, k, i) /\ split[k][i] = stages[k][i]
      BY <1>2, <2>1, <3>1 DEF At
    <3>3. QED
      BY <3>2
  <2>2. CASE k = N /\ ~ (i <= m)
    <3>1. i \in 1 .. len
      BY <1>2, <2>2 DEF At
    <3>2. i - m \in 1 .. (len - m) /\ m + (i - m) = i /\ N + 1 \in 1 .. (N + 1)
      BY <2>2, <3>1
    <3>3. split[N + 1][i - m] = stages[k][i]
      BY <2>2, <3>2
    <3>4. At(split, c, N + 1, i - m)
      BY <1>2, <3>2, <3>3 DEF At
    <3>5. QED
      BY <3>3, <3>4
  <2>3. CASE k # N
    <3>1. k \in 1 .. (N - 1) /\ k \in 1 .. (N + 1)
      BY <1>2, <2>3 DEF At
    <3>2. At(split, c, k, i) /\ split[k][i] = stages[k][i]
      BY <1>2, <3>1 DEF At
    <3>3. QED
      BY <3>2
  <2>4. QED
    BY <2>1, <2>2, <2>3
<1>3. ASSUME Straight(stages, c) PROVE Straight(split, c)
  <2>1. SUFFICES ASSUME NEW k, NEW i, NEW l, NEW j, At(split, c, k, i), At(split, c, l, j),
                        Before(<<k, i>>, <<l, j>>)
                 PROVE  split[k][i].n < split[l][j].n
    BY DEF Straight
  <2>2. /\ At(stages, c, kk(k), ii(k, i)) /\ split[k][i] = stages[kk(k)][ii(k, i)]
        /\ At(stages, c, kk(l), ii(l, j)) /\ split[l][j] = stages[kk(l)][ii(l, j)]
        /\ k \in 1 .. (N + 1) /\ i \in Nat /\ l \in 1 .. (N + 1) /\ j \in Nat
    BY <1>1, <2>1
  <2>3. k < l \/ (k = l /\ i < j)
    BY <2>1 DEF Before
  <2>4. kk(k) < kk(l) \/ (kk(k) = kk(l) /\ ii(k, i) < ii(l, j))
    <3>1. CASE l = N + 1 /\ k = N
      <4>1. i \in 1 .. m /\ j \in 1 .. (len - m)
        BY <2>1, <3>1 DEF At
      <4>2. QED
        BY <3>1, <4>1
    <3>2. CASE ~ (l = N + 1 /\ k = N)
      BY <2>2, <2>3, <3>2
    <3>3. QED
      BY <3>1, <3>2
  <2>5. Before(<<kk(k), ii(k, i)>>, <<kk(l), ii(l, j)>>)
    BY <2>4 DEF Before
  <2> HIDE DEF kk, ii
  <2>6. QED
    BY <1>3, <2>2, <2>5 DEF Straight
<1>4. ASSUME NEW n PROVE Has(split, c, n) <=> Has(stages, c, n)
  <2>1. ASSUME Has(split, c, n) PROVE Has(stages, c, n)
    <3>1. PICK k, i : At(split, c, k, i) /\ split[k][i].n = n
      BY <2>1 DEF Has
    <3>2. At(stages, c, kk(k), ii(k, i)) /\ stages[kk(k)][ii(k, i)].n = n
      BY <1>1, <3>1
    <3> HIDE DEF kk, ii
    <3>3. QED
      BY <3>2 DEF Has
  <2>2. ASSUME Has(stages, c, n) PROVE Has(split, c, n)
    <3>1. PICK k, i : At(stages, c, k, i) /\ stages[k][i].n = n
      BY <2>2 DEF Has
    <3>2. PICK l, j : At(split, c, l, j) /\ split[l][j] = stages[k][i]
      BY <1>2, <3>1
    <3>3. QED
      BY <3>1, <3>2 DEF Has
  <2>3. QED
    BY <2>1, <2>2
<1>5. QED
  BY <1>3, <1>4

(* The last of N stages, of len places, grows by m commands of c, numbered  *)
(* from b + 1 on.                                                           *)
Grows(N, stages, grown, c, len, m, b) ==
  /\ N \in Nat \ {0} /\ len \in Nat /\ m \in Nat /\ b \in Nat
  /\ DOMAIN stages = 1 .. N /\ DOMAIN grown = 1 .. N
  /\ \A k \in 1 .. (N - 1) : grown[k] = stages[k]
  /\ DOMAIN stages[N] = 1 .. len /\ DOMAIN grown[N] = 1 .. (len + m)
  /\ \A i \in 1 .. len : grown[N][i] = stages[N][i]
  /\ \A i \in 1 .. m : grown[N][len + i] = [conn |-> c, n |-> b + i]

LEMMA GrowStage ==
  ASSUME NEW N, NEW stages, NEW grown, NEW c, NEW len, NEW m, NEW b,
         Grows(N, stages, grown, c, len, m, b),
         \A n : Has(stages, c, n) => n \in 1 .. b
  PROVE  /\ Straight(stages, c) => Straight(grown, c)
         /\ \A n : Has(grown, c, n) <=> Has(stages, c, n) \/ n \in (b + 1) .. (b + m)
<1> USE DEF Grows
<1>1. ASSUME NEW k, NEW i, At(grown, c, k, i)
      PROVE  \/ At(stages, c, k, i) /\ grown[k][i] = stages[k][i]
             \/ k = N /\ i \in (len + 1) .. (len + m) /\ grown[k][i].n = b + (i - len)
  <2>1. CASE k = N /\ i \in 1 .. len
    BY <1>1, <2>1 DEF At
  <2>2. CASE k = N /\ i \notin 1 .. len
    <3>1. i \in (len + 1) .. (len + m)
      BY <1>1, <2>2 DEF At
    <3>2. i - len \in 1 .. m /\ len + (i - len) = i
      BY <3>1
    <3>3. grown[N][i] = [conn |-> c, n |-> b + (i - len)]
      BY <3>2
    <3>4. QED
      BY <2>2, <3>1, <3>3
  <2>3. CASE k # N
    <3>1. k \in 1 .. (N - 1)
      BY <1>1, <2>3 DEF At
    <3>2. QED
      BY <1>1, <3>1 DEF At
  <2>4. QED
    BY <2>1, <2>2, <2>3
<1>2. ASSUME NEW k, NEW i, At(stages, c, k, i)
      PROVE  At(grown, c, k, i) /\ grown[k][i] = stages[k][i]
  <2>1. CASE k = N
    <3>1. i \in 1 .. len /\ i \in 1 .. (len + m)
      BY <1>2, <2>1 DEF At
    <3>2. QED
      BY <1>2, <2>1, <3>1 DEF At
  <2>2. CASE k # N
    <3>1. k \in 1 .. (N - 1)
      BY <1>2, <2>2 DEF At
    <3>2. QED
      BY <1>2, <3>1 DEF At
  <2>3. QED
    BY <2>1, <2>2
<1>3. ASSUME NEW k, NEW i, At(stages, c, k, i)
      PROVE  stages[k][i].n \in 1 .. b
  BY <1>3 DEF Has
<1>4. ASSUME Straight(stages, c) PROVE Straight(grown, c)
  <2>1. SUFFICES ASSUME NEW k, NEW i, NEW l, NEW j, At(grown, c, k, i), At(grown, c, l, j),
                        k < l \/ (k = l /\ i < j)
                 PROVE  grown[k][i].n < grown[l][j].n
    BY DEF Straight, Before
  <2>2. CASE /\ At(stages, c, k, i) /\ grown[k][i] = stages[k][i]
             /\ At(stages, c, l, j) /\ grown[l][j] = stages[l][j]
    BY <1>4, <2>1, <2>2 DEF Straight, Before
  <2>3. CASE /\ At(stages, c, k, i) /\ grown[k][i] = stages[k][i]
             /\ l = N /\ j \in (len + 1) .. (len + m) /\ grown[l][j].n = b + (j - len)
    <3>1. grown[k][i].n \in 1 .. b
      BY <1>3, <2>3
    <3>2. QED
      BY <2>3, <3>1
  <2>4. CASE k = N /\ i \in (len + 1) .. (len + m) /\ grown[k][i].n = b + (i - len)
    <3>1. l \in 1 .. N
      BY <2>1 DEF At
    <3>2. l = N /\ i < j
      BY <2>1, <2>4, <3>1
    <3>3. j \in 1 .. (len + m)
      BY <2>1, <3>2 DEF At
    <3>4. ~ At(stages, c, l, j)
      BY <2>4, <3>2, <3>3 DEF At
    <3>5. j \in (len + 1) .. (len + m) /\ grown[l][j].n = b + (j - len)
      BY <1>1, <2>1, <3>4
    <3>6. QED
      BY <2>4, <3>2, <3>5
  <2>5. QED
    BY <1>1, <2>1, <2>2, <2>3, <2>4
<1>5. ASSUME NEW n PROVE Has(grown, c, n) <=> Has(stages, c, n) \/ n \in (b + 1) .. (b + m)
  <2>1. ASSUME Has(grown, c, n) PROVE Has(stages, c, n) \/ n \in (b + 1) .. (b + m)
    <3>1. PICK k, i : At(grown, c, k, i) /\ grown[k][i].n = n
      BY <2>1 DEF Has
    <3>2. CASE At(stages, c, k, i) /\ grown[k][i] = stages[k][i]
      BY <3>1, <3>2 DEF Has
    <3>3. CASE k = N /\ i \in (len + 1) .. (len + m) /\ grown[k][i].n = b + (i - len)
      BY <3>1, <3>3
    <3>4. QED
      BY <1>1, <3>1, <3>2, <3>3
  <2>2. ASSUME Has(stages, c, n) PROVE Has(grown, c, n)
    BY <1>2, <2>2 DEF Has
  <2>3. ASSUME n \in (b + 1) .. (b + m) PROVE Has(grown, c, n)
    <3>1. n - b \in 1 .. m /\ b + (n - b) = n /\ len + (n - b) \in 1 .. (len + m) /\ N \in 1 .. N
      BY <2>3
    <3>2. grown[N][len + (n - b)] = [conn |-> c, n |-> n]
      BY <3>1
    <3>3. At(grown, c, N, len + (n - b)) /\ grown[N][len + (n - b)].n = n
      BY <3>1, <3>2 DEF At
    <3>4. QED
      BY <3>3 DEF Has
  <2>4. QED
    BY <2>1, <2>2, <2>3
<1>6. QED
  BY <1>4, <1>5

(* The three sorts of stages. *)
LEMMA StagesOfAre ==
  ASSUME NEW lg, Len(lg) \in Nat, NEW sch, NEW q, NEW s
  PROVE  /\ DOMAIN StagesOf(lg, sch, q, s) = 1 .. Len(lg) + Delay + 1
         /\ \A k \in 1 .. Len(lg) : StagesOf(lg, sch, q, s)[k] = lg[k].cmds[s]
         /\ \A k \in Len(lg) + 1 .. Len(lg) + Delay :
              StagesOf(lg, sch, q, s)[k] = sch[k - Len(lg)][s]
         /\ StagesOf(lg, sch, q, s)[Len(lg) + Delay + 1] = q
         /\ \A k \in 1 .. Len(lg) + Delay + 1 :
              k \in 1 .. Len(lg) \/ k \in Len(lg) + 1 .. Len(lg) + Delay \/ k = Len(lg) + Delay + 1
<1> DEFINE st == StagesOf(lg, sch, q, s)
           N  == Len(lg) + Delay + 1
<1>1. Delay \in Nat
  BY TickAssumption
<1>2. DOMAIN st = 1 .. N
  BY DEF StagesOf
<1>3. ASSUME NEW k \in 1 .. Len(lg) PROVE st[k] = lg[k].cmds[s]
  <2>1. k \in 1 .. N /\ k <= Len(lg)
    BY <1>1
  <2>2. QED
    BY <2>1 DEF StagesOf
<1>4. ASSUME NEW k \in Len(lg) + 1 .. Len(lg) + Delay PROVE st[k] = sch[k - Len(lg)][s]
  <2>1. k \in 1 .. N /\ ~ (k <= Len(lg)) /\ k <= Len(lg) + Delay
    BY <1>1
  <2>2. QED
    BY <2>1 DEF StagesOf
<1>5. st[N] = q
  <2>1. N \in 1 .. N /\ ~ (N <= Len(lg)) /\ ~ (N <= Len(lg) + Delay)
    BY <1>1
  <2>2. QED
    BY <2>1 DEF StagesOf
<1>6. ASSUME NEW k \in 1 .. N
      PROVE  k \in 1 .. Len(lg) \/ k \in Len(lg) + 1 .. Len(lg) + Delay \/ k = N
  BY <1>1
<1>7. QED
  BY <1>2, <1>3, <1>4, <1>5, <1>6

LEMMA SameStages ==
  ASSUME NEW lg, Len(lg) \in Nat, NEW sch, NEW sch2, NEW q, NEW s,
         \A k \in 1 .. Delay : sch2[k][s] = sch[k][s]
  PROVE  StagesOf(lg, sch2, q, s) = StagesOf(lg, sch, q, s)
<1> DEFINE of(b, k) == IF k <= Len(lg) THEN lg[k].cmds[s]
                       ELSE IF k <= Len(lg) + Delay THEN b[k - Len(lg)][s] ELSE q
<1>1. \A k \in 1 .. Len(lg) + Delay + 1 :
        ~ (k <= Len(lg)) /\ k <= Len(lg) + Delay => k - Len(lg) \in 1 .. Delay
  BY TickAssumption
<1>2. \A k \in 1 .. Len(lg) + Delay + 1 : of(sch2, k) = of(sch, k)
  BY <1>1
<1>3. /\ StagesOf(lg, sch2, q, s) = [k \in 1 .. Len(lg) + Delay + 1 |-> of(sch2, k)]
      /\ StagesOf(lg, sch, q, s) = [k \in 1 .. Len(lg) + Delay + 1 |-> of(sch, k)]
  BY DEF StagesOf
<1> HIDE DEF of
<1>4. QED
  BY <1>2, <1>3

LEMMA StagesAre ==
  ASSUME NEW c \in Conns
  PROVE  /\ Stages(c) = StagesOf(log, sched, queue[c], Seat[c])
         /\ Stages(c)' = StagesOf(log', sched', queue'[c], Seat[c])
BY DEF Stages, StagesOf, Tick

LEMMA SeatedIs ==
  ASSUME Places, NEW c \in Conns, Seat[c] # None
  PROVE  Seat[c] \in Slots /\ (Seated(c) <=> slotClient[Seat[c]] = c)
BY TickAssumption DEF Places, Seated

(* A step that leaves the stages of c and its seat alone. *)
LEMMA SameGiven ==
  ASSUME NEW c \in Conns, Given(c), Stages(c)' = Stages(c),
         Seated(c)' <=> Seated(c), queue'[c] = queue[c], orders'[c] = orders[c],
         state[c] = "gone" => state'[c] = "gone",
         closed[Seat[c]] => closed'[Seat[c]]
  PROVE  Given(c)'
BY DEF Given

LEMMA SameOrdered ==
  ASSUME Ordered, UNCHANGED <<slotClient, closed, log, sched, queue, orders, state>>
  PROVE  Ordered'
<1> SUFFICES ASSUME NEW c \in Conns, Seat[c] # None PROVE Given(c)'
  BY DEF Ordered
<1>1. Stages(c)' = Stages(c)
  BY StagesAre
<1>2. Seated(c)' <=> Seated(c)
  BY DEF Seated
<1>3. QED
  BY <1>1, <1>2, SameGiven DEF Ordered

(* What a stage holds of c after its slot's buckets and its own queue may   *)
(* have been emptied.                                                       *)
LEMMA StagesEmptied ==
  ASSUME TypeOK, NEW c \in Conns, log' = log, queue'[c] \in {queue[c], << >>},
         \A k \in 1 .. Delay : sched'[k][Seat[c]] \in {sched[k][Seat[c]], << >>}
  PROVE  /\ Straight(Stages(c), c) => Straight(Stages(c)', c)
         /\ \A n : Has(Stages(c)', c, n) => Has(Stages(c), c, n)
<1> DEFINE before == Stages(c)
           after  == Stages(c)'
<1>1. Len(log) \in Nat /\ Delay \in Nat
  BY LenProperties, TickAssumption DEF TypeOK
<1>2. ASSUME NEW k, NEW i, At(after, c, k, i) PROVE At(before, c, k, i) /\ after[k][i] = before[k][i]
  <2>1. /\ DOMAIN before = 1 .. Len(log) + Delay + 1 /\ DOMAIN after = 1 .. Len(log) + Delay + 1
        /\ k \in 1 .. Len(log) + Delay + 1
    BY <1>2, StagesAre DEF At, StagesOf
  <2>2. after[k] \in {before[k], << >>}
    <3>1. CASE k <= Len(log)
      BY <2>1, <3>1, StagesAre DEF StagesOf
    <3>2. CASE ~ (k <= Len(log)) /\ k <= Len(log) + Delay
      <4>1. k - Len(log) \in 1 .. Delay
        BY <1>1, <2>1, <3>2
      <4>2. before[k] = sched[k - Len(log)][Seat[c]] /\ after[k] = sched'[k - Len(log)][Seat[c]]
        BY <2>1, <3>2, StagesAre DEF StagesOf
      <4>3. QED
        BY <4>1, <4>2
    <3>3. CASE ~ (k <= Len(log)) /\ ~ (k <= Len(log) + Delay)
      BY <2>1, <3>3, StagesAre DEF StagesOf
    <3>4. QED
      BY <3>1, <3>2, <3>3
  <2>3. after[k] # << >>
    BY <1>2 DEF At
  <2>4. QED
    BY <1>2, <2>1, <2>2, <2>3 DEF At
<1> HIDE DEF before, after
<1>3. (Straight(before, c) => Straight(after, c)) /\ \A n : Has(after, c, n) => Has(before, c, n)
  BY <1>2, FewerPlaces
<1>4. QED
  BY <1>3 DEF before, after

LEMMA DetachOrdered ==
  ASSUME IInv, Clean, Ordered, NEW c \in Conns, LeaveGame(c) \/ DropClient(c)
  PROVE  Ordered'
<1> SUFFICES ASSUME NEW d \in Conns, Seat[d] # None PROVE Given(d)'
  BY DEF Ordered
<1>1. /\ c \in Members /\ log' = log
      /\ queue \in [Conns -> Seq(Commands)] /\ orders \in [Conns -> Nat]
      /\ sched \in [1 .. Delay -> [Slots -> Seq(Commands)]]
      /\ slotClient \in [Slots -> Conns \cup {None}] /\ None \notin Conns
      /\ state \in [Conns -> {"lobby", "game", "gone"}] /\ closed \in [Slots -> BOOLEAN]
      /\ state[c] = "game" /\ Places
  BY DetachStream, TickAssumption DEF IInv, TypeOK, LeaveGame, DropClient, InGame
<1>2. DropPendingCommands(c)
  BY DEF LeaveGame, DropClient, LeaveRoom, HoldSlot
<1>3. /\ queue' = [queue EXCEPT ![c] = << >>]
      /\ \A e \in Conns \ {c} : orders'[e] = orders[e] /\ state'[e] = state[e]
      /\ \A s \in Slots : closed[s] => closed'[s]
  BY <1>1, <1>2 DEF LeaveGame, DropClient, LeaveRoom, HoldSlot, DropPendingCommands
<1>4. Seat[d] \in Slots /\ (Seated(d) <=> slotClient[Seat[d]] = d) /\ Given(d)
  BY <1>1, SeatedIs DEF Ordered
<1>5. CASE Seated(c)
  <2> DEFINE s == Seat[c]
  <2>1. s \in Slots /\ SlotOf(c) = s /\ slotClient[s] = c /\ c \notin spectators
        /\ \A t \in Slots : slotClient[t] = c => t = s
    BY <1>1, <1>5, SeatIsUnique
  <2>2. /\ slotClient' = [slotClient EXCEPT ![s] = None]
        /\ sched' = [k \in 1 .. Delay |-> [sched[k] EXCEPT ![s] = << >>]]
    BY <1>2, <1>5, <2>1 DEF LeaveGame, DropClient, LeaveRoom, HoldSlot, DropPendingCommands
  <2>3. \A k \in 1 .. Delay : /\ sched'[k][Seat[d]] \in {sched[k][Seat[d]], << >>}
                              /\ Seat[d] # s => sched'[k][Seat[d]] = sched[k][Seat[d]]
    BY <1>1, <1>4, <2>1, <2>2
  <2>4. /\ Straight(Stages(d), d) => Straight(Stages(d)', d)
        /\ \A n : Has(Stages(d)', d, n) => Has(Stages(d), d, n)
    BY <1>1, <1>3, <2>3, StagesEmptied DEF IInv
  <2>5. Seated(d)' <=> Seated(d) /\ d # c
    BY <1>1, <1>4, <2>1, <2>2 DEF Seated
  <2>6. CASE d = c
    <3>1. state'[c] = "gone" \/ closed'[s]
      <4>1. CASE DropClient(c)
        BY <1>1, <4>1 DEF DropClient
      <4>2. CASE LeaveGame(c)
        BY <1>1, <2>1, <4>2 DEF LeaveGame, LeaveRoom
      <4>3. QED
        BY <4>1, <4>2
    <3>2. queue'[c] = << >>
      BY <1>1, <1>3
    <3>3. QED
      BY <1>4, <2>4, <2>5, <2>6, <3>1, <3>2 DEF Given
  <2>7. CASE d # c /\ Seated(d)
    <3>1. Seat[d] # s
      BY <1>4, <2>1, <2>7
    <3>2. \A k \in 1 .. Delay : sched'[k][Seat[d]] = sched[k][Seat[d]]
      BY <2>3, <3>1
    <3>3. queue'[d] = queue[d]
      BY <1>1, <1>3, <2>7
    <3>4. Stages(d)' = Stages(d)
      <4>1. Len(log) \in Nat
        BY LenProperties DEF IInv, TypeOK
      <4>2. StagesOf(log, sched', queue[d], Seat[d]) = StagesOf(log, sched, queue[d], Seat[d])
        BY <3>2, <4>1, SameStages
      <4>3. QED
        BY <1>1, <3>3, <4>2, StagesAre
    <3>5. QED
      BY <1>3, <1>4, <2>5, <2>7, <3>3, <3>4, SameGiven
  <2>8. CASE d # c /\ ~ Seated(d)
    BY <1>1, <1>3, <1>4, <2>4, <2>5, <2>8 DEF Given
  <2>9. QED
    BY <2>6, <2>7, <2>8
<1>6. CASE ~ Seated(c)
  <2>1. c \in spectators /\ LeaveRoom(c)
    BY <1>1, <1>6 DEF Members, Seated, LeaveGame, DropClient
  <2>2. slotClient' = slotClient /\ sched' = sched /\ closed' = closed
    BY <1>2, <1>6, <2>1 DEF LeaveRoom, DropPendingCommands
  <2>3. Seated(d)' <=> Seated(d)
    BY <2>2 DEF Seated
  <2>4. queue'[d] = queue[d]
    BY <1>1, <1>3, <1>4, <1>6 DEF Given
  <2>5. Stages(d)' = Stages(d)
    BY <1>1, <2>2, <2>4, StagesAre
  <2>6. CASE d = c /\ DropClient(c)
    <3>1. state'[c] = "gone"
      BY <1>1, <2>6 DEF DropClient
    <3>2. QED
      BY <1>4, <1>6, <2>3, <2>4, <2>5, <2>6, <3>1 DEF Given
  <2>7. CASE d = c /\ LeaveGame(c)
    <3>1. orders'[d] = orders[d]
      BY <2>7 DEF LeaveGame
    <3>2. QED
      BY <1>1, <1>4, <2>2, <2>3, <2>4, <2>5, <2>7, <3>1, SameGiven
  <2>8. CASE d # c
    BY <1>3, <1>4, <2>2, <2>3, <2>4, <2>5, <2>8, SameGiven
  <2>9. QED
    BY <2>6, <2>7, <2>8
<1>7. QED
  BY <1>5, <1>6

LEMMA AttachOrdered ==
  ASSUME IInv, Clean, Ordered, NEW c \in Conns, (\E s \in Slots : Rejoin(c, s)) \/ Spectate(c)
  PROVE  Ordered'
<1> SUFFICES ASSUME NEW d \in Conns, Seat[d] # None PROVE Given(d)'
  BY DEF Ordered
<1>1. /\ queue \in [Conns -> Seq(Commands)] /\ state \in [Conns -> {"lobby", "game", "gone"}]
      /\ slotClient \in [Slots -> Conns \cup {None}] /\ None \notin Conns /\ Places
  BY TickAssumption DEF IInv, TypeOK
<1>2. /\ log' = log /\ sched' = sched /\ queue' = [queue EXCEPT ![c] = << >>]
      /\ orders' = orders /\ closed' = closed /\ state[c] = "lobby"
      /\ state' = [state EXCEPT ![c] = "game"]
  BY DEF Rejoin, Spectate, SendHistory
<1>3. ~ Seated(c)
  <2>1. c \notin Members
    BY AttachPlaces DEF IInv
  <2>2. QED
    BY <1>1, <2>1 DEF Members, Seated
<1>4. Seat[d] \in Slots /\ (Seated(d) <=> slotClient[Seat[d]] = d) /\ Given(d)
  BY <1>1, SeatedIs DEF Ordered
<1>5. queue'[d] = queue[d]
  BY <1>1, <1>2, <1>3, <1>4 DEF Given
<1>6. Stages(d)' = Stages(d)
  BY <1>2, <1>5, StagesAre
<1>7. CASE Spectate(c)
  <2>1. Seated(d)' <=> Seated(d)
    BY <1>7 DEF Spectate, Seated
  <2>2. state[d] = "gone" => state'[d] = "gone"
    BY <1>1, <1>2
  <2>3. QED
    BY <1>2, <1>4, <1>5, <1>6, <2>1, <2>2, SameGiven
<1>8. ASSUME NEW s \in Slots, Rejoin(c, s) PROVE Given(d)'
  <2>1. /\ slotClient' = [slotClient EXCEPT ![s] = c] /\ slotClient[s] = None
        /\ s = Seat[c] /\ ~ closed[s]
    BY <1>1, <1>8 DEF Rejoin, Places
  <2>2. CASE d = c
    <3>1. orders[c] = 0 /\ queue[c] = << >> /\ \A n : ~ Has(Stages(c), c, n)
      BY <1>2, <1>3, <1>4, <2>1, <2>2 DEF Given
    <3>2. Seated(c)'
      BY <1>1, <2>1 DEF Seated
    <3>3. Len(queue'[c]) = 0 /\ orders'[c] = 0
      BY <1>2, <1>5, <2>2, <3>1, EmptySeq
    <3>4. QED
      BY <1>4, <1>6, <2>2, <3>1, <3>2, <3>3 DEF Given
  <2>3. CASE d # c
    <3>1. Seated(d)' <=> Seated(d)
      BY <1>1, <2>1, <2>3 DEF Seated
    <3>2. state'[d] = state[d]
      BY <1>1, <1>2, <2>3
    <3>3. QED
      BY <1>2, <1>4, <1>5, <1>6, <3>1, <3>2, SameGiven
  <2>4. QED
    BY <2>2, <2>3
<1>9. QED
  BY <1>7, <1>8

LEMMA StageTypes ==
  ASSUME TypeOK, NEW c \in Conns, Seat[c] \in Slots
  PROVE  /\ DOMAIN Stages(c) = 1 .. Len(log) + Delay + 1
         /\ \A k \in 1 .. Len(log) + Delay + 1 : Stages(c)[k] \in Seq(Commands)
<1>1. /\ log \in Seq(Bundles) /\ Len(log) \in Nat /\ Delay \in Nat
      /\ sched \in [1 .. Delay -> [Slots -> Seq(Commands)]] /\ queue[c] \in Seq(Commands)
  BY LenProperties, TickAssumption DEF TypeOK, Bundles
<1>2. ASSUME NEW k \in 1 .. Len(log) PROVE log[k].cmds[Seat[c]] \in Seq(Commands)
  <2>1. log[k] \in Bundles
    BY <1>1, ElementOfSeq
  <2>2. QED
    BY <2>1 DEF Bundles
<1>3. \A k \in 1 .. Delay : sched[k][Seat[c]] \in Seq(Commands)
  BY <1>1
<1>4. Stages(c) = StagesOf(log, sched, queue[c], Seat[c])
  BY StagesAre
<1>5. DOMAIN Stages(c) = 1 .. Len(log) + Delay + 1
  BY <1>1, <1>4, StagesOfAre
<1>6. ASSUME NEW k \in 1 .. Len(log) + Delay + 1 PROVE Stages(c)[k] \in Seq(Commands)
  <2>1. CASE k \in 1 .. Len(log)
    BY <1>1, <1>2, <1>4, <2>1, StagesOfAre
  <2>2. CASE k \in Len(log) + 1 .. Len(log) + Delay
    <3>1. Stages(c)[k] = sched[k - Len(log)][Seat[c]]
      <4>1. \A i \in Len(log) + 1 .. Len(log) + Delay :
              StagesOf(log, sched, queue[c], Seat[c])[i] = sched[i - Len(log)][Seat[c]]
        <5>1. Len(log) \in Nat
          BY <1>1
        <5>2. QED
          BY <5>1, StagesOfAre
      <4>2. QED
        BY <1>4, <2>2, <4>1
    <3>2. k - Len(log) \in 1 .. Delay
      BY <1>1, <2>2
    <3>3. QED
      BY <1>3, <3>1, <3>2
  <2>3. CASE k = Len(log) + Delay + 1
    <3>1. Stages(c)[Len(log) + Delay + 1] = queue[c]
      BY <1>1, <1>4, StagesOfAre
    <3>2. QED
      BY <1>1, <2>3, <3>1
  <2>4. QED
    BY <1>1, <1>6, <2>1, <2>2, <2>3, StagesOfAre
<1>7. QED
  BY <1>5, <1>6

LEMMA CommandsOrdered ==
  ASSUME IInv, Clean, Ordered, NEW c \in Conns, NEW k \in 1 .. MaxSend, PlayerCommands(c, k)
  PROVE  Ordered'
<1> SUFFICES ASSUME NEW d \in Conns, Seat[d] # None PROVE Given(d)'
  BY DEF Ordered
<1> DEFINE batch == [i \in 1 .. k |-> [conn |-> c, n |-> orders[c] + i]]
           free  == QueueCap - Len(queue[c])
           most  == IF k < free THEN k ELSE free
           part  == SubSeq(batch, 1, most)
           m     == Len(part)
           len   == Len(queue[c])
           N     == Len(log) + Delay + 1
<1>1. /\ queue \in [Conns -> Seq(Commands)] /\ orders \in [Conns -> Nat] /\ Places
      /\ Len(log) \in Nat /\ Delay \in Nat /\ QueueCap \in Nat /\ MaxSend \in Nat
      /\ len \in Nat
  BY LenProperties, TickAssumption DEF IInv, TypeOK
<1>2. most \in Int /\ most <= k
  BY <1>1
<1>3. /\ part \in Seq(Commands) /\ m = (IF 1 <= most THEN most ELSE 0)
      /\ \A i \in 1 .. m : part[i] = [conn |-> c, n |-> orders[c] + i]
  <2>1. \A i \in 1 .. most : batch[i] \in Commands /\ batch[i] = [conn |-> c, n |-> orders[c] + i]
    <3> SUFFICES ASSUME NEW i \in 1 .. most
                 PROVE  batch[i] \in Commands /\ batch[i] = [conn |-> c, n |-> orders[c] + i]
      OBVIOUS
    <3>1. i \in 1 .. k /\ batch[i] = [conn |-> c, n |-> orders[c] + i]
      BY <1>2
    <3>2. orders[c] + i \in 1 .. MaxSend
      BY <1>1, <3>1 DEF PlayerCommands
    <3>3. QED
      BY <3>1, <3>2 DEF Commands
  <2>2. \A i \in 1 .. most : batch[i] \in Commands
    BY <2>1
  <2> HIDE DEF batch, most
  <2>3. /\ part \in Seq(Commands)
        /\ Len(part) = IF 1 <= most THEN most - 1 + 1 ELSE 0
        /\ \A i \in 1 .. most - 1 + 1 : part[i] = batch[1 + i - 1]
    BY <1>2, <2>2, SubSeqProperties
  <2>4. QED
    BY <1>2, <2>1, <2>3
<1>4. /\ queue' = [queue EXCEPT ![c] = queue[c] \o part]
      /\ orders' = [orders EXCEPT ![c] = orders[c] + k]
      /\ orders[c] + k <= MaxSend /\ Seated(c)
      /\ UNCHANGED <<slotClient, closed, log, sched, state>>
  BY DEF PlayerCommands
<1>5. m \in Nat /\ m <= k /\ (k <= free => m = k)
  BY <1>2, <1>3
<1> HIDE DEF batch, most, part, m, len
<1>6. Seat[d] \in Slots /\ Given(d) /\ (Seated(d)' <=> Seated(d))
  BY <1>1, <1>4, SeatedIs DEF Ordered, Seated
<1>7. CASE d # c
  <2>1. queue'[d] = queue[d] /\ orders'[d] = orders[d]
    BY <1>1, <1>4, <1>7
  <2>2. Stages(d)' = Stages(d)
    BY <1>4, <2>1, StagesAre
  <2>3. QED
    BY <1>4, <1>6, <2>1, <2>2, SameGiven
<1>8. CASE d = c
  <2>1. /\ queue'[c] = queue[c] \o part /\ orders'[c] = orders[c] + k
        /\ orders[c] \in Nat /\ N \in Nat \ {0}
    BY <1>1, <1>4
  <2>2. /\ Len(queue[c] \o part) = len + m
        /\ \A i \in 1 .. len : (queue[c] \o part)[i] = queue[c][i]
        /\ \A i \in 1 .. m : (queue[c] \o part)[len + i] = part[i]
        /\ DOMAIN queue[c] = 1 .. len /\ DOMAIN (queue[c] \o part) = 1 .. (len + m)
    <3>1. /\ queue[c] \in Seq(Commands) /\ part \in Seq(Commands)
          /\ queue[c] \o part \in Seq(Commands)
          /\ Len(queue[c] \o part) = Len(queue[c]) + Len(part)
          /\ \A i \in 1 .. Len(queue[c]) + Len(part) :
               (queue[c] \o part)[i] = IF i <= Len(queue[c]) THEN queue[c][i]
                                       ELSE part[i - Len(queue[c])]
      BY <1>1, <1>3, ConcatProperties
    <3>2. /\ len = Len(queue[c]) /\ m = Len(part)
          /\ DOMAIN queue[c] = 1 .. Len(queue[c])
          /\ DOMAIN (queue[c] \o part) = 1 .. Len(queue[c] \o part)
      BY <3>1, LenProperties DEF len, m
    <3>3. ASSUME NEW i \in 1 .. m PROVE (queue[c] \o part)[len + i] = part[i]
      <4>1. len + i \in 1 .. Len(queue[c]) + Len(part) /\ ~ (len + i <= len) /\ len + i - len = i
        BY <1>1, <1>5, <3>2
      <4>2. QED
        BY <3>1, <3>2, <4>1
    <3>4. \A i \in 1 .. len : i \in 1 .. len + m /\ i <= len
      BY <1>1, <1>5
    <3>5. QED
      BY <3>1, <3>2, <3>3, <3>4
  <2> DEFINE stages == Stages(c)
             grown  == Stages(c)'
  <2>3. /\ DOMAIN stages = 1 .. N /\ DOMAIN grown = 1 .. N
        /\ stages[N] = queue[c] /\ grown[N] = queue[c] \o part
        /\ \A i \in 1 .. (N - 1) : grown[i] = stages[i]
    <3>1. /\ stages = StagesOf(log, sched, queue[c], Seat[c])
          /\ grown = StagesOf(log, sched, queue[c] \o part, Seat[c])
      BY <1>4, <2>1, StagesAre
    <3> HIDE DEF stages, grown
    <3>2. DOMAIN stages = 1 .. N /\ stages[N] = queue[c]
      BY <1>1, <3>1, StagesOfAre
    <3>3. DOMAIN grown = 1 .. N /\ grown[N] = queue[c] \o part
      <4> DEFINE q2 == queue[c] \o part
      <4>1. grown = StagesOf(log, sched, q2, Seat[c])
        BY <3>1
      <4> HIDE DEF q2
      <4>2. DOMAIN grown = 1 .. N /\ grown[N] = q2
        BY <1>1, <4>1, StagesOfAre
      <4>3. QED
        BY <4>2 DEF q2
    <3>4. ASSUME NEW i \in 1 .. (N - 1) PROVE grown[i] = stages[i]
      <4>1. i \in 1 .. Len(log) \/ i \in Len(log) + 1 .. Len(log) + Delay
        BY <1>1
      <4>2. QED
        BY <1>1, <3>1, <4>1, StagesOfAre
    <3>5. QED
      BY <3>2, <3>3, <3>4
  <2>4. \A n : Has(stages, c, n) => n \in 1 .. orders[c]
    BY <1>4, <1>6, <1>8 DEF Given
  <2>5. Straight(stages, c) /\ len <= orders[c]
        /\ (MaxSend <= QueueCap => \A n \in 1 .. orders[c] : Has(stages, c, n))
    BY <1>4, <1>6, <1>8 DEF Given, len
  <2> HIDE DEF stages, grown, N
  <2>6. /\ Straight(grown, c)
        /\ \A n : Has(grown, c, n) <=> Has(stages, c, n) \/ n \in (orders[c] + 1) .. (orders[c] + m)
    <3>1. /\ DOMAIN stages[N] = 1 .. len /\ DOMAIN grown[N] = 1 .. (len + m)
          /\ \A i \in 1 .. len : grown[N][i] = stages[N][i]
          /\ \A i \in 1 .. m : grown[N][len + i] = [conn |-> c, n |-> orders[c] + i]
      BY <1>3, <2>2, <2>3
    <3>2. Grows(N, stages, grown, c, len, m, orders[c])
      BY <1>1, <1>5, <2>1, <2>3, <3>1 DEF Grows
    <3>3. /\ Straight(stages, c) => Straight(grown, c)
          /\ \A n : Has(grown, c, n) <=> Has(stages, c, n) \/ n \in (orders[c] + 1) .. (orders[c] + m)
      BY <2>4, <3>2, GrowStage
    <3>4. QED
      BY <2>5, <3>3
  <2>7. \A n : Has(grown, c, n) => n \in 1 .. orders'[c]
    BY <1>5, <2>1, <2>4, <2>6
  <2>8. Len(queue'[c]) <= orders'[c]
    BY <1>1, <1>5, <2>1, <2>2, <2>5
  <2>9. ASSUME MaxSend <= QueueCap, NEW n \in 1 .. orders'[c] PROVE Has(grown, c, n)
    <3>1. k <= free
      BY <1>1, <1>4, <2>1, <2>5, <2>9 DEF len
    <3>2. n \in 1 .. orders[c] \/ n \in (orders[c] + 1) .. (orders[c] + m)
      BY <1>5, <2>1, <2>9, <3>1
    <3>3. QED
      BY <2>5, <2>6, <2>9, <3>2
  <2>10. QED
    BY <1>4, <1>6, <1>8, <2>6, <2>7, <2>8, <2>9 DEF Given, grown
<1>9. QED
  BY <1>7, <1>8

(* A tick: what was in a stage is in the same one, but the last stage, the  *)
(* queue, is now two, what the tick took from it and the rest.              *)
LEMMA CloseTickStages ==
  ASSUME IInv, Clean, CloseTick, NEW c \in Conns, Seat[c] \in Slots
  PROVE  LET N == Len(log) + Delay + 1 IN
         /\ DOMAIN Stages(c) = 1 .. N /\ DOMAIN Stages(c)' = 1 .. (N + 1)
         /\ \A k \in 1 .. (N - 1) : Stages(c)'[k] = Stages(c)[k]
         /\ Stages(c)[N] = queue[c]
         /\ Stages(c)'[N] = Taken(Seat[c]) /\ Stages(c)'[N + 1] = queue'[c]
<1> DEFINE drained == [s \in Slots |-> Taken(s)]
           bundle  == [cmds   |-> IF Delay = 0 THEN drained ELSE sched[1],
                       events |-> events]
           L == Len(log)
           N == L + Delay + 1
           s == Seat[c]
           before == Stages(c)
           after  == Stages(c)'
           lg2 == log'
           sc2 == sched'
           q2 == queue'[c]
<1>1. /\ lg2 = Append(log, bundle)
      /\ sc2 = [k \in 1 .. Delay |-> IF k = Delay THEN drained ELSE sched[k + 1]]
  BY DEF CloseTick
<1>2. /\ log \in Seq(Bundles) /\ events \in Seq(Events) /\ Delay \in Nat /\ L \in Nat
      /\ sched \in [1 .. Delay -> [Slots -> Seq(Commands)]]
  BY LenProperties, TickAssumption DEF IInv, TypeOK, Bundles
<1>3. drained \in [Slots -> Seq(Commands)] /\ drained[s] = Taken(s)
  BY TakenIsOwn DEF Clean
<1>4. bundle \in Bundles /\ bundle.cmds[s] = IF Delay = 0 THEN Taken(s) ELSE sched[1][s]
  <2>1. CASE Delay = 0
    BY <1>2, <1>3, <2>1 DEF Bundles
  <2>2. CASE Delay # 0
    <3>1. 1 \in 1 .. Delay
      BY <1>2, <2>2
    <3>2. QED
      BY <1>2, <2>2, <3>1 DEF Bundles
  <2>3. QED
    BY <2>1, <2>2
<1>5. before = StagesOf(log, sched, queue[c], s) /\ after = StagesOf(lg2, sc2, q2, s)
  BY StagesAre
<1> HIDE DEF bundle, drained, lg2, sc2, q2, before, after
<1>6. /\ Len(lg2) = L + 1
      /\ \A i \in 1 .. L : lg2[i] = log[i]
      /\ lg2[L + 1] = bundle
  BY <1>1, <1>2, <1>4, AppendProperties, LenProperties
<1>7. \A k \in 1 .. Delay : sc2[k][s] = IF k = Delay THEN Taken(s) ELSE sched[k + 1][s]
  BY <1>1, <1>3
<1>8. /\ DOMAIN before = 1 .. N /\ before[N] = queue[c]
      /\ \A k \in 1 .. L : before[k] = log[k].cmds[s]
      /\ \A k \in L + 1 .. L + Delay : before[k] = sched[k - L][s]
  <2> HIDE DEF s
  <2>1. before = StagesOf(log, sched, queue[c], s) /\ Len(log) \in Nat
    BY <1>2, <1>5
  <2>2. DOMAIN before = 1 .. N
    BY <2>1, StagesOfAre
  <2>3. before[N] = queue[c]
    BY <2>1, StagesOfAre
  <2>4. ASSUME NEW k \in 1 .. L PROVE before[k] = log[k].cmds[s]
    BY <2>1, StagesOfAre
  <2>5. ASSUME NEW k \in L + 1 .. L + Delay PROVE before[k] = sched[k - L][s]
    BY <2>1, StagesOfAre
  <2>6. QED
    BY <2>2, <2>3, <2>4, <2>5
<1>9. /\ DOMAIN after = 1 .. Len(lg2) + Delay + 1 /\ after[Len(lg2) + Delay + 1] = q2
      /\ \A k \in 1 .. Len(lg2) : after[k] = lg2[k].cmds[s]
      /\ \A k \in Len(lg2) + 1 .. Len(lg2) + Delay : after[k] = sc2[k - Len(lg2)][s]
  <2>1. Len(lg2) \in Nat
    BY <1>2, <1>6
  <2>2. QED
    BY <1>5, <2>1, StagesOfAre
<1>10. DOMAIN after = 1 .. (N + 1) /\ after[N + 1] = q2
  <2>1. Len(lg2) + Delay + 1 = N + 1
    BY <1>2, <1>6
  <2>2. QED
    BY <1>9, <2>1
<1>11. ASSUME NEW k \in 1 .. (N - 1) PROVE after[k] = before[k]
  <2>1. CASE k \in 1 .. L
    <3>1. k \in 1 .. Len(lg2) /\ lg2[k] = log[k]
      BY <1>2, <1>6, <2>1
    <3>2. QED
      BY <1>8, <1>9, <2>1, <3>1
  <2>2. CASE k = L + 1
    <3>1. k \in 1 .. Len(lg2) /\ lg2[k] = bundle /\ k \in L + 1 .. L + Delay /\ Delay # 0 /\ k - L = 1
      BY <1>2, <1>6, <1>11, <2>2
    <3>2. after[k] = bundle.cmds[s] /\ before[k] = sched[1][s]
      BY <1>8, <1>9, <3>1
    <3>3. QED
      BY <1>4, <3>1, <3>2
  <2>3. CASE k \in L + 2 .. L + Delay
    <3> DEFINE j == k - Len(lg2)
    <3>1. /\ k \in Len(lg2) + 1 .. Len(lg2) + Delay /\ k \in L + 1 .. L + Delay
          /\ j \in 1 .. Delay /\ j # Delay /\ j + 1 = k - L
      BY <1>2, <1>6, <2>3
    <3>2. after[k] = sc2[j][s] /\ before[k] = sched[k - L][s]
      BY <1>8, <1>9, <3>1
    <3> HIDE DEF j
    <3>3. sc2[j][s] = sched[j + 1][s]
      BY <1>7, <3>1
    <3>4. QED
      BY <3>1, <3>2, <3>3
  <2>4. QED
    BY <1>2, <2>1, <2>2, <2>3
<1>12. after[N] = Taken(s)
  <2>1. CASE Delay = 0
    <3>1. N = L + 1 /\ N \in 1 .. Len(lg2)
      BY <1>2, <1>6, <2>1
    <3>2. after[N] = bundle.cmds[s]
      BY <1>6, <1>9, <3>1
    <3>3. QED
      BY <1>4, <2>1, <3>2
  <2>2. CASE Delay # 0
    <3>1. N \in Len(lg2) + 1 .. Len(lg2) + Delay /\ N - Len(lg2) = Delay /\ Delay \in 1 .. Delay
      BY <1>2, <1>6, <2>2
    <3>2. after[N] = sc2[Delay][s]
      BY <1>9, <3>1
    <3>3. QED
      BY <1>7, <3>1, <3>2
  <2>3. QED
    BY <2>1, <2>2
<1>13. \A k \in 1 .. (N - 1) : after[k] = before[k]
  BY <1>11
<1>14. /\ DOMAIN before = 1 .. N /\ DOMAIN after = 1 .. (N + 1)
       /\ \A k \in 1 .. (N - 1) : after[k] = before[k]
       /\ before[N] = queue[c] /\ after[N] = Taken(s) /\ after[N + 1] = q2
  BY <1>8, <1>10, <1>12, <1>13
<1>15. QED
  <2> USE DEF before, after, q2
  <2> QED
    BY <1>14

LEMMA CloseTickOrdered ==
  ASSUME IInv, Clean, Ordered, CloseTick
  PROVE  Ordered'
<1> SUFFICES ASSUME NEW d \in Conns, Seat[d] # None PROVE Given(d)'
  BY DEF Ordered
<1> DEFINE N == Len(log) + Delay + 1
           s == Seat[d]
           stages == Stages(d)
           split  == Stages(d)'
<1>1. /\ Places /\ TypeOK /\ Len(log) \in Nat /\ Delay \in Nat /\ N \in Nat \ {0}
      /\ queue \in [Conns -> Seq(Commands)] /\ Cap \in Nat
  <2>1. Places /\ TypeOK
    BY DEF IInv
  <2>2. log \in Seq(Bundles) /\ queue \in [Conns -> Seq(Commands)]
    BY <2>1 DEF TypeOK, Bundles
  <2>3. Len(log) \in Nat
    BY <2>2, LenProperties
  <2>4. Delay \in Nat /\ Cap \in Nat
    BY TickAssumption
  <2>5. QED
    BY <2>1, <2>2, <2>3, <2>4
<1>2. s \in Slots /\ (Seated(d) <=> slotClient[s] = d) /\ Given(d)
  BY <1>1, SeatedIs DEF Ordered
<1>3. /\ UNCHANGED <<slotClient, closed, state, orders>>
      /\ queue'[d] = IF Seated(d)
                       THEN SubSeq(queue[d], Len(Taken(SlotOf(d))) + 1, Len(queue[d]))
                       ELSE queue[d]
  BY DEF CloseTick
<1>4. Seated(d)' <=> Seated(d)
  BY <1>3 DEF Seated
<1>5. /\ DOMAIN stages = 1 .. N /\ DOMAIN split = 1 .. (N + 1)
      /\ \A k \in 1 .. (N - 1) : split[k] = stages[k]
      /\ stages[N] = queue[d] /\ split[N] = Taken(s) /\ split[N + 1] = queue'[d]
  BY <1>2, CloseTickStages
<1>6. \A k \in 1 .. N : stages[k] \in Seq(Commands)
  BY <1>1, <1>2, StageTypes
<1> HIDE DEF N, stages, split
<1>7. CASE ~ Seated(d)
  <2>1. queue[d] = << >> /\ queue'[d] = << >>
    BY <1>2, <1>3, <1>7 DEF Given
  <2>2. Taken(s) \in Seq(Commands) /\ AllOf(Taken(s), slotClient[s]) /\ slotClient[s] # d
    BY <1>2, <1>7, TakenIsOwn DEF Clean
  <2>3. ASSUME NEW k, NEW i, At(split, d, k, i) PROVE At(stages, d, k, i) /\ split[k][i] = stages[k][i]
    <3>1. k \in 1 .. (N + 1) /\ i \in DOMAIN split[k] /\ split[k][i].conn = d
      BY <1>5, <2>3 DEF At
    <3>2. k # N + 1
      BY <1>5, <2>1, <3>1
    <3>3. k # N
      <4>1. ASSUME k = N PROVE FALSE
        <5>1. i \in 1 .. Len(Taken(s)) /\ Taken(s)[i].conn = d
          BY <1>5, <2>2, <3>1, <4>1, LenProperties
        <5>2. QED
          BY <2>2, <5>1 DEF AllOf
      <4>2. QED
        BY <4>1
    <3>4. k \in 1 .. (N - 1) /\ k \in 1 .. N
      BY <1>1, <3>1, <3>2, <3>3
    <3>5. QED
      BY <1>5, <2>3, <3>4 DEF At
  <2>4. /\ Straight(stages, d) => Straight(split, d)
        /\ \A n : Has(split, d, n) => Has(stages, d, n)
    BY <2>3, FewerPlaces
  <2>5. QED
    BY <1>2, <1>3, <1>4, <1>7, <2>1, <2>4 DEF Given, stages, split
<1>8. CASE Seated(d)
  <2> DEFINE q    == queue[d]
             len  == Len(q)
             most == IF len < Cap THEN len ELSE Cap
             m    == Len(Taken(s))
             q2   == queue'[d]
  <2>1. slotClient[s] = d /\ SlotOf(d) = s /\ d # None
    BY <1>1, <1>2, <1>8, SeatIsUnique, TickAssumption
  <2>2. /\ q \in Seq(Commands) /\ len \in Nat /\ most \in Nat /\ most <= len
        /\ DOMAIN q = 1 .. len
    BY <1>1, LenProperties
  <2>3. Taken(s) = SubSeq(q, 1, most) /\ q2 = SubSeq(q, m + 1, len)
    BY <1>3, <1>8, <2>1 DEF Taken
  <2>4. \A i \in 1 .. len : q[i] \in Commands
    BY <2>2, ElementOfSeq
  <2> HIDE DEF q, len, most, q2
  <2>5. /\ m = most /\ DOMAIN Taken(s) = 1 .. m /\ \A i \in 1 .. m : Taken(s)[i] = q[i]
    <3>1. \A i \in 1 .. most : q[i] \in Commands
      BY <2>2, <2>4
    <3>2. /\ SubSeq(q, 1, most) \in Seq(Commands)
          /\ Len(SubSeq(q, 1, most)) = IF 1 <= most THEN most - 1 + 1 ELSE 0
          /\ \A i \in 1 .. most - 1 + 1 : SubSeq(q, 1, most)[i] = q[1 + i - 1]
      BY <2>2, <3>1, SubSeqProperties
    <3>3. Len(SubSeq(q, 1, most)) = most /\ \A i \in 1 .. most : SubSeq(q, 1, most)[i] = q[i]
      BY <2>2, <3>2
    <3>4. QED
      BY <2>3, <3>2, <3>3, LenProperties
  <2>6. /\ Len(q2) = len - m /\ DOMAIN q2 = 1 .. (len - m)
        /\ \A i \in 1 .. (len - m) : q2[i] = q[m + i]
    <3>1. m \in Nat /\ m <= len /\ m + 1 \in Int /\ m + 1 >= 1
      BY <2>2, <2>5
    <3> HIDE DEF m
    <3>2. \A i \in m + 1 .. len : q[i] \in Commands
      BY <2>2, <2>4, <3>1
    <3>3. /\ SubSeq(q, m + 1, len) \in Seq(Commands)
          /\ Len(SubSeq(q, m + 1, len)) = IF m + 1 <= len THEN len - (m + 1) + 1 ELSE 0
          /\ \A i \in 1 .. len - (m + 1) + 1 : SubSeq(q, m + 1, len)[i] = q[m + 1 + i - 1]
      BY <2>2, <3>1, <3>2, SubSeqProperties
    <3>4. Len(SubSeq(q, m + 1, len)) = len - m
      BY <2>2, <3>1, <3>3
    <3>5. \A i \in 1 .. (len - m) : SubSeq(q, m + 1, len)[i] = q[m + i]
      <4>1. \A i \in 1 .. (len - m) : i \in 1 .. len - (m + 1) + 1 /\ m + 1 + i - 1 = m + i
        BY <2>2, <3>1
      <4>2. QED
        BY <3>3, <4>1
    <3>6. QED
      BY <2>3, <3>3, <3>4, <3>5, LenProperties
  <2>7. Splits(N, stages, split, m, len)
    <3>1. stages[N] = q /\ split[N] = Taken(s) /\ split[N + 1] = q2
      BY <1>5 DEF q, q2
    <3>2. m \in Nat /\ m <= len
      BY <2>2, <2>5
    <3>3. \A k \in 1 .. (N - 1) : DOMAIN stages[k] \subseteq Nat
      <4>1. \A k \in 1 .. (N - 1) : k \in 1 .. N
        BY <1>1
      <4>2. QED
        BY <1>6, <4>1, LenProperties
    <3> HIDE DEF m
    <3>4. QED
      BY <1>1, <1>5, <2>2, <2>5, <2>6, <3>1, <3>2, <3>3 DEF Splits
  <2>8. /\ Straight(stages, d) => Straight(split, d)
        /\ \A n : Has(split, d, n) <=> Has(stages, d, n)
    BY <2>7, SplitStage
  <2>9. Len(q2) <= len
    BY <2>2, <2>5, <2>6
  <2>10. Len(queue'[d]) <= orders'[d]
    <3>1. orders[d] \in Nat /\ len <= orders[d] /\ orders'[d] = orders[d]
      BY <1>1, <1>2, <1>3, <1>8 DEF Given, TypeOK, len, q
    <3>2. Len(q2) \in Nat
      BY <2>2, <2>5, <2>6
    <3>3. QED
      BY <2>2, <2>9, <3>1, <3>2 DEF q2
  <2>11. QED
    BY <1>2, <1>3, <1>4, <1>8, <2>8, <2>10 DEF Given, stages, split
<1>9. QED
  BY <1>7, <1>8

LEMMA OrderedStep ==
  ASSUME IInv, Clean, Ordered, [Next]_vars
  PROVE  Ordered'
<1>1. ASSUME NEW c \in Conns, NEW k \in 1 .. MaxSend, PlayerCommands(c, k) PROVE Ordered'
  BY <1>1, CommandsOrdered
<1>2. ASSUME NEW c \in Conns, LeaveGame(c) \/ DropClient(c) PROVE Ordered'
  BY <1>2, DetachOrdered
<1>3. ASSUME NEW c \in Conns, (\E s \in Slots : Rejoin(c, s)) \/ Spectate(c) PROVE Ordered'
  BY <1>3, AttachOrdered
<1>4. ASSUME NEW c \in Conns, Loaded(c) \/ (\E t \in 0 .. MaxTick : StateHash(c, t))
             \/ (\E want \in BOOLEAN : SetPause(c, want)) \/ Feed(c) \/ ReadStart(c) \/ Consume(c)
      PROVE  Ordered'
  BY <1>4, SameOrdered DEF Loaded, StateHash, SetPause, Feed, ReadStart, Consume
<1>5. ASSUME NEW s \in Slots, Sweep(s) PROVE Ordered'
  <2> SUFFICES ASSUME NEW c \in Conns, Seat[c] # None PROVE Given(c)'
    BY DEF Ordered
  <2>1. /\ \A t \in Slots : closed[t] => closed'[t]
        /\ UNCHANGED <<slotClient, log, sched, queue, orders, state>>
    BY <1>5 DEF Sweep, IInv, TypeOK
  <2>2. Stages(c)' = Stages(c) /\ (Seated(c)' <=> Seated(c))
    BY <2>1, StagesAre DEF Seated
  <2>3. Seat[c] \in Slots
    BY TickAssumption
  <2>4. QED
    BY <2>1, <2>2, <2>3, SameGiven DEF Ordered
<1>6. CASE Teardown
  <2> SUFFICES ASSUME NEW c \in Conns, Seat[c] # None PROVE Given(c)'
    BY DEF Ordered
  <2>1. /\ UNCHANGED <<slotClient, closed, log, sched, queue, orders>>
        /\ c \in spectators => state[c] = "game"
        /\ c \notin spectators => state'[c] = state[c]
    BY <1>6 DEF Teardown, IInv, Places, Members
  <2>2. Stages(c)' = Stages(c) /\ (Seated(c)' <=> Seated(c))
    BY <2>1, StagesAre DEF Seated
  <2>3. state[c] = "gone" => state'[c] = "gone"
    BY <2>1
  <2>4. QED
    BY <2>1, <2>2, <2>3, SameGiven DEF Ordered
<1>7. CASE CloseTick
  BY <1>7, CloseTickOrdered
<1>8. CASE UNCHANGED vars
  BY <1>8, SameOrdered DEF vars
<1>9. QED
  BY <1>1, <1>2, <1>3, <1>4, <1>5, <1>6, <1>7, <1>8, NextIs DEF AnyFrame, ClientFrame

LEMMA OrderedInit == Init => Ordered
<1> SUFFICES ASSUME Init, NEW c \in Conns, Seat[c] # None PROVE Given(c)
  BY DEF Ordered
<1>1. /\ queue = [d \in Conns |-> << >>] /\ log = << >> /\ Len(log) = 0
      /\ sched = [k \in 1 .. Delay |-> [s \in Slots |-> << >>]]
      /\ orders = [d \in Conns |-> 0] /\ Seat[c] \in Slots /\ Delay \in Nat
  BY EmptySeq, TickAssumption DEF Init, NoOrders
<1>2. ASSUME NEW k, NEW i, At(Stages(c), c, k, i) PROVE FALSE
  <2>1. DOMAIN Stages(c) = 1 .. 0 + Delay + 1 /\ k \in 1 .. 0 + Delay + 1
    BY <1>1, <1>2, StagesAre DEF StagesOf, At
  <2>2. Stages(c)[k] = << >>
    <3>1. CASE k = Delay + 1
      BY <1>1, <2>1, <3>1, StagesAre DEF StagesOf
    <3>2. CASE k # Delay + 1
      <4>1. k \in 1 .. Delay /\ ~ (k <= 0) /\ k <= 0 + Delay /\ k - 0 = k
        BY <1>1, <2>1, <3>2
      <4>2. QED
        BY <1>1, <2>1, <4>1, StagesAre DEF StagesOf
    <3>3. QED
      BY <3>1, <3>2
  <2>3. QED
    BY <1>2, <2>2 DEF At
<1>3. Straight(Stages(c), c) /\ \A n : ~ Has(Stages(c), c, n)
  BY <1>2 DEF Straight, Has
<1>4. queue[c] = << >> /\ Len(queue[c]) = 0 /\ orders[c] = 0
  BY <1>1, EmptySeq
<1>5. QED
  BY <1>3, <1>4 DEF Given

(* A player's commands keep their order on the way through the server, for  *)
(* any number of players, any delay and any number of commands a tick and a *)
(* queue may take, and none is lost while the seat is kept and no more is   *)
(* sent than the queue holds.                                               *)
THEOREM OrdersStayInOrder == Spec => []OrdersKeptInOrder
<1>1. IInv /\ Clean /\ [Next]_vars => Clean'
  BY CleanStep
<1>2. IInv /\ Clean /\ Ordered /\ [Next]_vars => Ordered'
  BY OrderedStep
<1>3. IInv /\ Ordered => OrdersKeptInOrder
  <2> SUFFICES ASSUME IInv, Ordered, NEW c \in Conns, Seat[c] # None
               PROVE  LET places    == Underway(Stages(c), c)
                          number(p) == Stages(c)[p[1]][p[2]].n
                      IN /\ \A p, q \in places : Before(p, q) => number(p) < number(q)
                         /\ ~ over /\ Seated(c) /\ MaxSend <= QueueCap =>
                              {number(p) : p \in places} = 1 .. orders[c]
    BY DEF OrdersKeptInOrder
  <2> DEFINE stages == Stages(c)
             places == Underway(stages, c)
  <2>1. Given(c)
    BY DEF Ordered
  <2>2. \A p \in places : p = <<p[1], p[2]>> /\ At(stages, c, p[1], p[2])
    BY DEF Underway, At
  <2>3. \A k, i : At(stages, c, k, i) => <<k, i>> \in places
    BY DEF Underway, At
  <2>4. ASSUME NEW p \in places, NEW q \in places, Before(p, q)
        PROVE  stages[p[1]][p[2]].n < stages[q[1]][q[2]].n
    <3>1. Before(<<p[1], p[2]>>, <<q[1], q[2]>>)
      BY <2>4 DEF Before
    <3>2. QED
      BY <2>1, <2>2, <3>1 DEF Given, Straight
  <2>5. ASSUME Seated(c), MaxSend <= QueueCap
        PROVE  {stages[p[1]][p[2]].n : p \in places} = 1 .. orders[c]
    <3>1. \A n : Has(stages, c, n) <=> n \in 1 .. orders[c]
      BY <2>1, <2>5 DEF Given
    <3>2. \A p \in places : Has(stages, c, stages[p[1]][p[2]].n)
      BY <2>2 DEF Has
    <3>3. ASSUME NEW n, Has(stages, c, n) PROVE \E p \in places : stages[p[1]][p[2]].n = n
      <4>1. PICK k, i : At(stages, c, k, i) /\ stages[k][i].n = n
        BY <3>3 DEF Has
      <4>2. <<k, i>> \in places /\ <<k, i>>[1] = k /\ <<k, i>>[2] = i
        BY <2>3, <4>1
      <4>3. QED
        BY <4>1, <4>2
    <3>4. QED
      BY <3>1, <3>2, <3>3
  <2>6. QED
    BY <2>4, <2>5
<1>4. QED
  BY <1>1, <1>2, <1>3, CleanInit, OrderedInit, ServerInv, PTL DEF Spec

-----------------------------------------------------------------------------
(* Refinement *)

LEMMA TicksAreSofar == \A n : BS!Ticks(n) = Sofar(n)
BY DEF BS!Ticks, Sofar

(* Steps BundleStream does not see. *)
LEMMA Hidden ==
  ASSUME Tick' = Tick, over' = over, Members' = Members, sent' = sent
  PROVE  UNCHANGED BS!vars
BY DEF BS!vars

LEMMA CloseTickPublishes ==
  ASSUME IInv, CloseTick
  PROVE  BS!Publish
<1>1. /\ Tick \in Nat /\ Tick' = Tick + 1
      /\ \A c \in Conns : Live(c) => Len(sent[c]) = Tick
  BY CloseTickStream
<1>2. /\ ~ over /\ over' = over /\ Tick < MaxTick /\ Members' = Members
      /\ sent' = [c \in Conns |-> IF Live(c) THEN Append(sent[c], Tick) ELSE sent[c]]
  BY DEF CloseTick, Members
<1> DEFINE now == {c \in Members : ~ replaying[c]}
<1>3. now \in SUBSET {c \in Members : Len(sent[c]) = Tick}
  BY <1>1, MembersAreConns DEF IInv, Live
<1>4. sent' = [c \in Conns |-> IF c \in now THEN Append(sent[c], Tick) ELSE sent[c]]
  BY <1>2 DEF Live
<1>5. QED
  BY <1>1, <1>2, <1>3, <1>4 DEF BS!Publish

LEMMA StepRefines ==
  ASSUME IInv, [Next]_vars
  PROVE  [BS!Next]_BS!vars
<1>1. ASSUME NEW c \in Conns, AnyFrame(c) PROVE [BS!Next]_BS!vars
  <2>1. CASE Loaded(c)
    BY <2>1, Hidden DEF Loaded, Members, Tick
  <2>2. CASE \E k \in 1 .. MaxSend : PlayerCommands(c, k)
    BY <2>2, Hidden DEF PlayerCommands, Members, Tick
  <2>3. CASE \E t \in 0 .. MaxTick : StateHash(c, t)
    BY <2>3, Hidden DEF StateHash, Members, Tick
  <2>4. CASE \E want \in BOOLEAN : SetPause(c, want)
    BY <2>4, Hidden DEF SetPause, Members, Tick
  <2>5. CASE LeaveGame(c)
    BY <2>5, DetachStream DEF BS!Next, BS!Detach, Tick
  <2>6. CASE (\E s \in Slots : Rejoin(c, s)) \/ Spectate(c)
    <3>1. c \notin Members /\ Members' = Members \cup {c}
      BY <2>6, AttachPlaces DEF IInv
    <3>2. ~ over /\ over' = over /\ log' = log /\ sent' = [sent EXCEPT ![c] = << >>]
      BY <2>6 DEF Rejoin, Spectate, SendHistory
    <3>3. BS!Attach(c)
      BY <3>1, <3>2 DEF BS!Attach, Tick
    <3>4. QED
      BY <3>3 DEF BS!Next
  <2>7. QED
    BY <1>1, <2>1, <2>2, <2>3, <2>4, <2>5, <2>6 DEF AnyFrame, ClientFrame
<1>2. ASSUME NEW c \in Conns, DropClient(c) PROVE [BS!Next]_BS!vars
  BY <1>2, DetachStream DEF BS!Next, BS!Detach, Tick
<1>3. ASSUME NEW c \in Conns, Feed(c) PROVE [BS!Next]_BS!vars
  <2>1. Members' = Members /\ over' = over /\ Tick' = Tick
    BY <1>3, FeedStream DEF Tick
  <2>2. CASE sent' = sent
    BY <2>1, <2>2, Hidden
  <2>3. CASE sent' # sent
    <3>1. ~ over /\ c \in Members
          /\ \E n \in (Len(sent[c]) + 1) .. Tick : sent' = [sent EXCEPT ![c] = Sofar(n)]
      BY <1>3, <2>3, FeedStream
    <3>2. BS!CatchUp(c)
      BY <2>1, <3>1, TicksAreSofar DEF BS!CatchUp
    <3>3. QED
      BY <3>2 DEF BS!Next
  <2>4. QED
    BY <2>2, <2>3
<1>4. ASSUME NEW c \in Conns, ReadStart(c) \/ Consume(c) PROVE [BS!Next]_BS!vars
  BY <1>4, Hidden DEF ReadStart, Consume, Members, Tick
<1>5. ASSUME NEW s \in Slots, Sweep(s) PROVE [BS!Next]_BS!vars
  BY <1>5, Hidden DEF Sweep, Members, Tick
<1>6. CASE Teardown
  <2>1. BS!Finish
    BY <1>6 DEF Teardown, BS!Finish, Tick
  <2>2. QED
    BY <2>1 DEF BS!Next
<1>7. CASE CloseTick
  BY <1>7, CloseTickPublishes DEF BS!Next
<1>8. CASE UNCHANGED vars
  BY <1>8, Hidden DEF vars, Members, Tick
<1>9. QED
  BY <1>1, <1>2, <1>3, <1>4, <1>5, <1>6, <1>7, <1>8, NextIs

(* The server implements BundleStream: to whoever is attached, each step    *)
(* publishes the next tick, sends more of the past, or shows nothing.  (Its *)
(* promise that the past is sent in the end is left to the model checker.)  *)
THEOREM ServerRefines == Spec => BS!Safety
<1>1. Init => BS!Init
  <2> SUFFICES ASSUME Init PROVE BS!Init
    OBVIOUS
  <2>1. TypeOK
    BY TypeInit
  <2>2. Tick = 0 /\ ~ over /\ over = FALSE /\ sent = [c \in Conns |-> << >>]
    BY DEF Init, Tick
  <2>3. Members \in SUBSET Conns
    BY <2>1, MembersAreConns
  <2>4. QED
    BY <2>2, <2>3 DEF BS!Init
<1>2. IInv /\ [Next]_vars => [BS!Next]_BS!vars
  BY StepRefines
<1>3. QED
  BY <1>1, <1>2, ServerInv, PTL DEF Spec, BS!Safety
=============================================================================
