----------------------------- MODULE TickServer -----------------------------
(***************************************************************************)
(* A running game on the server: the tick sequencer, the bundle log, the   *)
(* connections attached to it, and what happens when one of them is lost.  *)
(* Translated from the Room and Client handling of server.cpp: closeTick,  *)
(* broadcastRoom, gameMsg, leaveRoom, dropClient, the Rejoin and Spectate  *)
(* cases of lobbyMsg, and the sweep, teardown, tick and catch-up parts of  *)
(* Server::run.                                                            *)
(*                                                                         *)
(* The server is one thread: a handler is one step.  Frames arrive on TCP  *)
(* connections, so per connection they are in order and whole; a lost      *)
(* connection takes what was in flight with it.  The time a deadline falls *)
(* due is any time: Sweep and CloseTick are enabled whenever the state     *)
(* lets them act.  A bundle is the commands of each slot in arrival order  *)
(* (closeTick sorts by player, stably) and the sequenced events.  The AI's *)
(* orders carry player numbers of their own and are left out.              *)
(*                                                                         *)
(* The client side is the part the stream depends on: it reads             *)
(* GameStarting, consumes bundles in order, reports the tick it reached,   *)
(* and holds its own orders until it has consumed the history it was given *)
(* (mpStep and mpAutoStep of gameview_net.cpp).                            *)
(***************************************************************************)
EXTENDS Naturals, Sequences, FiniteSets, SequencesExt

CONSTANTS
  Slots,        \* the human slots of the game
  Conns,        \* connections, each used once
  Seat,         \* Seat[c]: the slot whose player uses connection c, if any
  First,        \* First[s]: the connection that starts the game in slot s
  Watchers,     \* the connections that may ask to spectate
  HostSlot,     \* the slot of the client that created the game
  None,         \* no client, no pause
  HasAI,        \* some other slot is played by the server's AI
  Pausers,      \* the connections whose players use the pause key
  Cap,          \* kCmdCapPerTick
  QueueCap,     \* kCmdQueueCap
  Delay,        \* TA_SRV_DELAY, in ticks
  MaxLead,      \* kMaxLeadTicks
  HashPeriod,   \* kHashPeriod
  InitAcks,     \* InitAcks[c]: the ackTick values c may bring from an earlier game
  MaxTick,      \* bound on the length of the game
  MaxSend       \* bound on the commands one connection sends

ASSUME TickAssumption ==
  /\ Seat \in [Conns -> Slots \cup {None}]
  /\ First \in [Slots -> Conns] /\ \A s \in Slots : Seat[First[s]] = s
  /\ Watchers \subseteq Conns /\ Pausers \subseteq Conns
  /\ HostSlot \in Slots
  /\ None \notin Slots /\ None \notin Conns /\ "request" \notin Slots
  /\ HasAI \in BOOLEAN
  /\ Cap \in Nat \ {0} /\ QueueCap \in Nat \ {0} /\ Delay \in Nat
  /\ MaxLead \in Nat /\ HashPeriod \in Nat \ {0}
  /\ InitAcks \in [Conns -> SUBSET Nat]
  /\ MaxTick \in Nat /\ MaxSend \in Nat

VARIABLES
  \* Room
  slotClient,   \* slotClient[s]: the connection seated there
  closed,       \* slots[s].type = 3: the player left or forfeited
  held,         \* slotDropped[s]: kept for a player that dropped
  token,        \* slotToken[s], as the number of rotations
  budget,       \* pauseBudgetMs[s] > 0
  pause,        \* pausePlayer while paused, None while not
  spectators,
  log,          \* the bundles of ticks 0, 1, ...; tick = Len(log)
  sched,        \* pendingAt: sched[k] is the bucket of tick + k - 1
  events,       \* pendingEvents
  over,         \* the room has been torn down
  \* Client
  state,        \* "lobby", "game" or "gone"
  loaded,
  ack,          \* ackTick, which no handler resets
  queue,        \* cmdQueue
  replaying,
  replayPos,
  \* the other end of the connection
  sent,         \* ticks of the TickBundles put on the stream since GameStarting
  boundary,     \* replayTicks of that GameStarting
  started,      \* the client has read that GameStarting
  seen,         \* bundles it has consumed
  orders,       \* commands it has sent
  card,         \* card[s]: the resume token on disk at the player of slot s
  \* history
  brought       \* the ackTick a connection came to this game with

room   == <<slotClient, closed, held, token, budget, pause, spectators>>
ticks  == <<log, sched, events>>
client == <<loaded, ack, brought, queue, replaying, replayPos>>
remote == <<boundary, started, seen, orders, card>>
vars   == <<room, ticks, over, state, client, sent, remote>>

-----------------------------------------------------------------------------
Tick == Len(log)

Commands == [conn : Conns, n : 1 .. MaxSend]

Events == [kind : {"Leave", "Forfeit"}, player : Slots]

NoOrders == [s \in Slots |-> << >>]

Seated(c) == \E s \in Slots : slotClient[s] = c

(* c.slot: the slot whose slotClient is c (Lobby: RecordsHold). *)
SlotOf(c) == CHOOSE s \in Slots : slotClient[s] = c

Members == ({slotClient[s] : s \in Slots} \ {None}) \cup spectators

HostId == First[HostSlot]

(* roomOccupied and roomActive: what keeps a running room alive. *)
Occupied == Members # {}

Active ==
  \/ \E s \in Slots : ~ closed[s] /\ (slotClient[s] # None \/ held[s])
  \/ HasAI /\ spectators # {}

Init ==
  /\ slotClient = First
  /\ closed = [s \in Slots |-> FALSE]
  /\ held = [s \in Slots |-> FALSE]
  /\ token = [s \in Slots |-> 1]
  /\ budget = [s \in Slots |-> TRUE]
  /\ pause = None
  /\ spectators = {}
  /\ log = << >>
  /\ sched = [k \in 1 .. Delay |-> NoOrders]
  /\ events = << >>
  /\ over = FALSE
  /\ state = [c \in Conns |-> IF Seated(c) THEN "game" ELSE "lobby"]
  /\ loaded = [c \in Conns |-> FALSE]
  /\ ack \in [Conns -> UNION {InitAcks[c] : c \in Conns}]
  /\ \A c \in Conns : ack[c] \in InitAcks[c]
  /\ brought = ack
  /\ queue = [c \in Conns |-> << >>]
  /\ replaying = [c \in Conns |-> FALSE]
  /\ replayPos = [c \in Conns |-> 0]
  /\ sent = [c \in Conns |-> << >>]
  /\ boundary = [c \in Conns |-> 0]
  /\ started = [c \in Conns |-> FALSE]
  /\ seen = [c \in Conns |-> 0]
  /\ orders = [c \in Conns |-> 0]
  /\ card = [s \in Slots |-> 0]

-----------------------------------------------------------------------------
(* Frames of a client that is in the game (gameMsg). *)

InGame(c) == ~ over /\ state[c] = "game"

Loaded(c) ==
  /\ InGame(c) /\ started[c] /\ ~ loaded[c]
  /\ loaded' = [loaded EXCEPT ![c] = TRUE]
  /\ UNCHANGED <<room, ticks, over, state, ack, brought, queue, replaying, replayPos, sent, remote>>

(* One frame with k commands; those that find the queue full are lost.  The *)
(* client sends nothing before it has consumed its history.                 *)
PlayerCommands(c, k) ==
  /\ InGame(c) /\ Seated(c) /\ started[c] /\ seen[c] >= boundary[c]
  /\ orders[c] + k <= MaxSend
  /\ LET batch == [i \in 1 .. k |-> [conn |-> c, n |-> orders[c] + i]]
         room_ == QueueCap - Len(queue[c])
     IN queue' = [queue EXCEPT ![c] = @ \o SubSeq(batch, 1, IF k < room_ THEN k ELSE room_)]
  /\ orders' = [orders EXCEPT ![c] = @ + k]
  /\ UNCHANGED <<room, ticks, over, state, loaded, ack, brought, replaying, replayPos,
                 sent, boundary, started, seen, card>>

(* The reports a client has sent or may send: every HashPeriod-th tick it   *)
(* has simulated; a spectator's heartbeat names the last one.               *)
Reports(c) ==
  {t \in 0 .. (seen[c] - 1) :
     t % HashPeriod = 0 \/ (c \in spectators /\ t = seen[c] - 1)}

StateHash(c, t) ==
  /\ InGame(c) /\ t \in Reports(c)
  /\ t < Tick
  /\ t > ack[c]
  /\ ack' = [ack EXCEPT ![c] = t]
  /\ UNCHANGED <<room, ticks, over, state, loaded, brought, queue, replaying, replayPos,
                 sent, remote>>

SetPause(c, want) ==
  /\ InGame(c) /\ c = HostId
  /\ \/ want /\ pause = None /\ pause' = "request"
     \/ ~ want /\ pause = "request" /\ pause' = None
  /\ UNCHANGED <<slotClient, closed, held, token, budget, spectators, ticks,
                 over, state, client, sent, remote>>

(* Mutant of DropPendingCommands: what is scheduled stays. *)
DropPendingCommands_QueueOnly(c) ==
  queue' = [queue EXCEPT ![c] = << >>] /\ UNCHANGED sched

(* dropPendingCommands: the queue of the connection and, for a seated one,  *)
(* what its slot has scheduled.                                             *)
DropPendingCommands(c) ==
  /\ queue' = [queue EXCEPT ![c] = << >>]
  /\ sched' = IF Seated(c)
                THEN [k \in 1 .. Delay |-> [sched[k] EXCEPT ![SlotOf(c)] = << >>]]
                ELSE sched

(* leaveRoom in a running game, for a spectator and for a player. *)
LeaveRoom(c) ==
  /\ DropPendingCommands(c)
  /\ IF c \in spectators
       THEN /\ spectators' = spectators \ {c}
            /\ UNCHANGED <<slotClient, closed, events>>
       ELSE /\ slotClient' = [slotClient EXCEPT ![SlotOf(c)] = None]
            /\ closed' = [closed EXCEPT ![SlotOf(c)] = TRUE]
            /\ events' = Append(events, [kind |-> "Leave", player |-> SlotOf(c)])
            /\ UNCHANGED spectators
  /\ UNCHANGED <<held, token, budget, pause, log, over, card>>

LeaveGame(c) ==
  /\ InGame(c)
  /\ LeaveRoom(c)
  /\ state' = [state EXCEPT ![c] = "lobby"]
  /\ loaded' = [loaded EXCEPT ![c] = FALSE]
  /\ UNCHANGED <<ack, brought, replaying, replayPos, sent, boundary, started, seen, orders>>

-----------------------------------------------------------------------------
(* dropClient: the connection failed, closed or fell silent. *)

(* Mutant of HoldSlot: slotClient keeps the id of the client that is gone. *)
HoldSlot_StillSeated(c) ==
  LET s == SlotOf(c) IN
  /\ DropPendingCommands(c)
  /\ held' = [held EXCEPT ![s] = TRUE]
  /\ pause' = IF budget[s] /\ pause = None THEN s ELSE pause
  /\ UNCHANGED <<slotClient, closed, token, budget, spectators, log, events, over, card>>

(* A seated player's slot is held, and the game paused if nothing else      *)
(* pauses it and the player has budget left.                                *)
HoldSlot(c) ==
  LET s == SlotOf(c) IN
  /\ DropPendingCommands(c)
  /\ held' = [held EXCEPT ![s] = TRUE]
  /\ slotClient' = [slotClient EXCEPT ![s] = None]
  /\ pause' = IF budget[s] /\ pause = None THEN s ELSE pause
  /\ UNCHANGED <<closed, token, budget, spectators, log, events, over, card>>

(* The Client object goes with the connection, and so does what was in flight. *)
DropClient(c) ==
  /\ InGame(c)
  /\ \/ Seated(c) /\ ~ closed[SlotOf(c)] /\ HoldSlot(c)
     \/ ~ (Seated(c) /\ ~ closed[SlotOf(c)]) /\ LeaveRoom(c)
  /\ state' = [state EXCEPT ![c] = "gone"]
  /\ loaded' = [loaded EXCEPT ![c] = FALSE]
  /\ ack' = [ack EXCEPT ![c] = 0]
  /\ brought' = [brought EXCEPT ![c] = 0]
  /\ replaying' = [replaying EXCEPT ![c] = FALSE]
  /\ replayPos' = [replayPos EXCEPT ![c] = 0]
  /\ sent' = [sent EXCEPT ![c] = << >>]
  /\ boundary' = [boundary EXCEPT ![c] = 0]
  /\ started' = [started EXCEPT ![c] = FALSE]
  /\ seen' = [seen EXCEPT ![c] = 0]
  /\ orders' = [orders EXCEPT ![c] = 0]

-----------------------------------------------------------------------------
(* Frames of a client in the lobby (lobbyMsg) that concern a running game. *)

(* GameStarting, and the catch-up cursor that follows it. *)
SendHistory(c) ==
  /\ queue' = [queue EXCEPT ![c] = << >>]
  /\ state' = [state EXCEPT ![c] = "game"]
  /\ loaded' = [loaded EXCEPT ![c] = TRUE]
  /\ replaying' = [replaying EXCEPT ![c] = TRUE]
  /\ replayPos' = [replayPos EXCEPT ![c] = 0]
  /\ sent' = [sent EXCEPT ![c] = << >>]
  /\ boundary' = [boundary EXCEPT ![c] = Len(log)]
  /\ started' = [started EXCEPT ![c] = FALSE]
  /\ seen' = [seen EXCEPT ![c] = 0]
  /\ brought' = [brought EXCEPT ![c] = ack[c]]
  /\ UNCHANGED <<ticks, over, ack, orders, card>>

(* The player of slot s presents the token on its card.  The seat is given  *)
(* back, the token rotated, a pause on this player's account lifted and the *)
(* time it took charged to the budget, which may use it up.                 *)
Rejoin(c, s) ==
  /\ ~ over /\ state[c] = "lobby"
  /\ s = Seat[c] /\ held[s] /\ card[s] # 0 /\ card[s] = token[s]
  /\ slotClient' = [slotClient EXCEPT ![s] = c]
  /\ held' = [held EXCEPT ![s] = FALSE]
  /\ token' = [token EXCEPT ![s] = @ + 1]
  /\ \/ pause = s /\ pause' = None
        /\ \E left \in BOOLEAN : budget' = [budget EXCEPT ![s] = left]
     \/ pause # s /\ UNCHANGED <<pause, budget>>
  /\ SendHistory(c)
  /\ UNCHANGED <<closed, spectators>>

Spectate(c) ==
  /\ ~ over /\ state[c] = "lobby"
  /\ spectators' = spectators \cup {c}
  /\ SendHistory(c)
  /\ UNCHANGED <<slotClient, closed, held, token, budget, pause>>

-----------------------------------------------------------------------------
(* The server's own loop (Server::run). *)

(* Mutant of Sweep: the forfeit does not lift the pause. *)
Sweep_NoResume(s) ==
  /\ ~ over /\ held[s]
  /\ held' = [held EXCEPT ![s] = FALSE]
  /\ closed' = [closed EXCEPT ![s] = TRUE]
  /\ events' = Append(events, [kind |-> "Forfeit", player |-> s])
  /\ UNCHANGED <<slotClient, token, budget, pause, spectators, log, sched, over,
                 state, client, sent, remote>>

(* A held slot whose grace has expired, or whose pause has used up the      *)
(* budget, is forfeited.                                                    *)
Sweep(s) ==
  /\ ~ over /\ held[s]
  /\ held' = [held EXCEPT ![s] = FALSE]
  /\ closed' = [closed EXCEPT ![s] = TRUE]
  /\ events' = Append(events, [kind |-> "Forfeit", player |-> s])
  /\ pause' = IF pause = s THEN None ELSE pause
  /\ UNCHANGED <<slotClient, token, budget, spectators, log, sched, over,
                 state, client, sent, remote>>

(* A running room nobody is attached to, or nobody plays in, is removed;    *)
(* its spectators go back to the lobby.                                     *)
Teardown ==
  /\ ~ over /\ (~ Occupied \/ ~ Active)
  /\ over' = TRUE
  /\ state' = [c \in Conns |-> IF c \in spectators THEN "lobby" ELSE state[c]]
  /\ UNCHANGED <<room, ticks, client, sent, remote>>

Humans == {slotClient[s] : s \in {t \in Slots : ~ closed[t] /\ slotClient[t] # None}}

(* The clients the game is paced to: loaded players, else spectators. *)
Paced == IF \E c \in Humans : loaded[c] THEN {c \in Humans : loaded[c]} ELSE spectators

(* Mutant of CanAdvance: paced to the fastest. *)
CanAdvance_Fastest == \E c \in Paced : Tick <= ack[c] + MaxLead

(* Mutant of CanAdvance: < for <=. *)
CanAdvance_Strict == \A c \in Paced : Tick < ack[c] + MaxLead

(* canAdvance: no more than MaxLead ticks past the slowest of these. *)
CanAdvance == \A c \in Paced : Tick <= ack[c] + MaxLead

AllLoaded == \A c \in Humans : loaded[c]

(* Mutant of Taken: the newest commands first. *)
Taken_Newest(s) ==
  LET q == queue[slotClient[s]] IN
  IF slotClient[s] = None THEN << >>
  ELSE SubSeq(q, IF Len(q) < Cap THEN 1 ELSE Len(q) - Cap + 1, Len(q))

(* The commands of slot s that closeTick takes from its client's queue. *)
Taken(s) ==
  IF slotClient[s] = None THEN << >>
  ELSE SubSeq(queue[slotClient[s]], 1, IF Len(queue[slotClient[s]]) < Cap
                                         THEN Len(queue[slotClient[s]]) ELSE Cap)

(* Mutant of Live: no check of replaying. *)
Live_Catching(c) == c \in Members

(* broadcastRoom skips a client that is still being fed from the log. *)
Live(c) == c \in Members /\ ~ replaying[c]

CloseTick ==
  /\ ~ over /\ pause = None /\ Occupied /\ Active
  /\ Tick < MaxTick
  /\ CanAdvance
  /\ Tick = 0 => AllLoaded
  /\ LET drained == [s \in Slots |-> Taken(s)]
         bundle  == [cmds   |-> IF Delay = 0 THEN drained ELSE sched[1],
                     events |-> events]
     IN /\ log' = Append(log, bundle)
        /\ sched' = [k \in 1 .. Delay |-> IF k = Delay THEN drained ELSE sched[k + 1]]
  /\ queue' = [c \in Conns |->
                 IF Seated(c)
                   THEN SubSeq(queue[c], Len(Taken(SlotOf(c))) + 1, Len(queue[c]))
                   ELSE queue[c]]
  /\ events' = << >>
  /\ sent' = [c \in Conns |-> IF Live(c) THEN Append(sent[c], Tick) ELSE sent[c]]
  /\ UNCHANGED <<room, over, state, loaded, ack, brought, replaying, replayPos, remote>>

(* Mutant of CaughtUp: one chunk is taken for the whole log. *)
CaughtUp_EveryChunk(n) == n > 0

(* The end of the log is reached. *)
CaughtUp(n) == n = Len(log)

(* The catch-up feed: as much of the log as the write buffer takes, and the *)
(* end of catching up when the cursor reaches the end of the log.           *)
Feed(c) ==
  /\ replaying[c]
  /\ IF over \/ state[c] # "game"
       THEN replaying' = [replaying EXCEPT ![c] = FALSE] /\ UNCHANGED <<replayPos, sent>>
       ELSE \E n \in replayPos[c] .. Len(log) :
              /\ n > replayPos[c] \/ n = Len(log)
              /\ replayPos' = [replayPos EXCEPT ![c] = n]
              /\ sent' = [sent EXCEPT ![c] = @ \o [i \in 1 .. (n - replayPos[c]) |->
                                                     replayPos[c] + i - 1]]
              /\ replaying' = [replaying EXCEPT ![c] = ~ CaughtUp(n)]
  /\ UNCHANGED <<room, ticks, over, state, loaded, ack, brought, queue, remote>>

-----------------------------------------------------------------------------
(* The client. *)

(* GameStarting is read: the player saves the token that came with it. *)
ReadStart(c) ==
  /\ InGame(c) /\ ~ started[c]
  /\ started' = [started EXCEPT ![c] = TRUE]
  /\ card' = IF Seated(c) THEN [card EXCEPT ![SlotOf(c)] = token[SlotOf(c)]] ELSE card
  /\ UNCHANGED <<room, ticks, over, state, client, sent, boundary, seen, orders>>

Consume(c) ==
  /\ InGame(c) /\ started[c] /\ seen[c] < Len(sent[c])
  /\ seen' = [seen EXCEPT ![c] = @ + 1]
  /\ UNCHANGED <<room, ticks, over, state, client, sent, boundary, started, orders, card>>

-----------------------------------------------------------------------------
ClientFrame(c) ==
  \/ Loaded(c)
  \/ \E k \in 1 .. MaxSend : PlayerCommands(c, k)
  \/ \E t \in 0 .. MaxTick : StateHash(c, t)
  \/ LeaveGame(c)
  \/ \E s \in Slots : Rejoin(c, s)

Next ==
  \/ \E c \in Conns : ClientFrame(c) \/ DropClient(c) \/ Feed(c) \/ ReadStart(c) \/ Consume(c)
  \/ \E c \in Pausers, want \in BOOLEAN : SetPause(c, want)
  \/ \E c \in Watchers : Spectate(c)
  \/ \E s \in Slots : Sweep(s)
  \/ Teardown
  \/ CloseTick

(* The loop runs for ever, so a deadline is noticed, a due tick closed, a   *)
(* cursor fed; and a client that is attached reads, simulates and reports.  *)
(* Nobody has to send orders, pause, leave, drop or come back.              *)
Fairness ==
  /\ WF_vars(CloseTick) /\ WF_vars(Teardown)
  /\ \A s \in Slots : WF_vars(Sweep(s))
  /\ \A c \in Conns :
       /\ WF_vars(Feed(c)) /\ WF_vars(ReadStart(c)) /\ WF_vars(Consume(c))
       /\ WF_vars(Loaded(c)) /\ WF_vars(\E t \in 0 .. MaxTick : StateHash(c, t))

Spec == Init /\ [][Next]_vars

FairSpec == Spec /\ Fairness

-----------------------------------------------------------------------------
(* Properties. *)

(* Every variable has its type. *)
TypeOK ==
  /\ slotClient \in [Slots -> Conns \cup {None}]
  /\ closed \in [Slots -> BOOLEAN] /\ held \in [Slots -> BOOLEAN]
  /\ token \in [Slots -> Nat] /\ budget \in [Slots -> BOOLEAN]
  /\ pause \in Slots \cup {None, "request"}
  /\ spectators \subseteq Conns
  /\ log \in Seq([cmds : [Slots -> Seq(Commands)], events : Seq(Events)])
  /\ sched \in [1 .. Delay -> [Slots -> Seq(Commands)]]
  /\ events \in Seq(Events)
  /\ over \in BOOLEAN
  /\ state \in [Conns -> {"lobby", "game", "gone"}]
  /\ loaded \in [Conns -> BOOLEAN] /\ ack \in [Conns -> Nat] /\ brought \in [Conns -> Nat]
  /\ queue \in [Conns -> Seq(Commands)]
  /\ replaying \in [Conns -> BOOLEAN] /\ replayPos \in [Conns -> Nat]
  /\ sent \in [Conns -> Seq(Nat)]
  /\ boundary \in [Conns -> Nat] /\ started \in [Conns -> BOOLEAN]
  /\ seen \in [Conns -> Nat] /\ orders \in [Conns -> Nat]
  /\ card \in [Slots -> Nat]

(* What a connection has been sent is ticks 0, 1, 2, ... with none missing, *)
(* repeated or out of order: up to the cursor while it catches up, up to    *)
(* the last closed tick after that.  The live broadcast and the catch-up    *)
(* feed take turns at one stream, also when ticks close between two chunks. *)
StreamIsPrefix ==
  ~ over => \A c \in Members :
    sent[c] = [i \in 1 .. (IF replaying[c] THEN replayPos[c] ELSE Tick) |-> i - 1]

(* The way of a command of c through the server, last stage first: the     *)
(* bundles of its slot, the input-delay buckets, the queue of c.            *)
Stages(c) ==
  [k \in 1 .. Tick + Delay + 1 |->
     IF k <= Tick THEN log[k].cmds[Seat[c]]
     ELSE IF k <= Tick + Delay THEN sched[k - Tick][Seat[c]]
     ELSE queue[c]]

(* The places in these stages that hold a command given on c. *)
Underway(stages, c) ==
  {p \in UNION {{k} \X DOMAIN stages[k] : k \in DOMAIN stages} : stages[p[1]][p[2]].conn = c}

Before(p, q) == p[1] < q[1] \/ (p[1] = q[1] /\ p[2] < q[2])

(* A player's commands go through the queue, the input-delay buckets and    *)
(* the bundles in the order they were given, none twice; and while the      *)
(* player keeps the seat and the queue does not overflow, none is lost.     *)
OrdersKeptInOrder ==
  \A c \in {d \in Conns : Seat[d] # None} :
    LET places    == Underway(Stages(c), c)
        number(p) == Stages(c)[p[1]][p[2]].n
    IN /\ \A p, q \in places : Before(p, q) => number(p) < number(q)
       /\ ~ over /\ Seated(c) /\ MaxSend <= QueueCap =>
            {number(p) : p \in places} = 1 .. orders[c]

(* A bundle past the replay boundary holds, in the slot of a player who     *)
(* came back, only what was given on the new connection: the client counts  *)
(* its own commands in such bundles as acknowledgements (mpStep), so an     *)
(* order scheduled before the drop must not surface after it.               *)
BoundaryIsClean ==
  \A s \in Slots : slotClient[s] # None =>
    /\ \A i \in boundary[slotClient[s]] + 1 .. Len(log) :
         \A x \in Range(log[i].cmds[s]) : x.conn = slotClient[s]
    /\ \A k \in 1 .. Delay : \A x \in Range(sched[k][s]) : x.conn = slotClient[s]

(* The places of the events about player s in the bundles, the one that is  *)
(* being collected included: number of the bundle and place in it.          *)
OutsIn(bundles, pending, s) ==
  LET evs == Append([i \in 1 .. Len(bundles) |-> bundles[i].events], pending)
  IN {o \in UNION {{b} \X DOMAIN evs[b] : b \in DOMAIN evs} : evs[o[1]][o[2]].player = s}

(* A player goes out once: a closed slot has one event in the stream, an    *)
(* open one has none, and after the bundle with that event no command of    *)
(* the slot follows, whatever was queued or scheduled when it went.         *)
OutOnceAndSilent ==
  \A s \in Slots :
    LET outs == OutsIn(log, events, s)
    IN /\ Cardinality(outs) = IF closed[s] THEN 1 ELSE 0
       /\ \A o \in outs : \A i \in (o[1] + 1) .. Len(log) : log[i].cmds[s] = << >>
       /\ closed[s] => \A k \in 1 .. Delay : sched[k][s] = << >>

(* What a player had queued or scheduled does not outlive the connection    *)
(* it came on: it neither surfaces after the player is back nor after the   *)
(* player is out.                                                           *)
NothingOutlivesTheDrop == BoundaryIsClean /\ OutOnceAndSilent

(* A game paused for a player waits for a slot that is still held: it comes *)
(* back, or its grace or budget runs out.  A pause that outlived the hold   *)
(* would be lifted by nothing (Sweep and Rejoin only look at held slots).   *)
PauseHasAnEnd == pause \in Slots => held[pause]

(* A slot has a client or is held or is closed, never two of these, and     *)
(* whoever is seated or watching is attached to the game exactly once, so a *)
(* broadcast reaches it once.                                               *)
OnePlaceEach ==
  ~ over =>
    /\ \A s \in Slots :
         Cardinality({x \in {"client", "held", "closed"} :
                        \/ x = "client" /\ slotClient[s] # None
                        \/ x = "held" /\ held[s]
                        \/ x = "closed" /\ closed[s]}) = 1
    /\ \A c \in Conns :
         /\ state[c] = "game" <=> c \in Members
         /\ Cardinality({s \in Slots : slotClient[s] = c})
              + Cardinality(spectators \cap {c}) <= 1

(* The last bundle a client has consumed. *)
Consumed(c) == IF seen[c] = 0 THEN 0 ELSE seen[c] - 1

(* A tick closes only while no loaded player has consumed less than MaxLead *)
(* ticks back ("The server never runs more than this many ticks ahead of    *)
(* the slowest seated human player").                                       *)
FlowControl ==
  [][log' # log =>
       \A s \in Slots : slotClient[s] # None /\ loaded[slotClient[s]] =>
         Tick <= MaxLead + Consumed(slotClient[s])]_vars

(* What is so for any player: the lead is counted from what it has consumed *)
(* or, until that is more, from the report its connection came with, of an  *)
(* earlier game or of this one while it watched.                            *)
LeadIsBounded ==
  [][log' # log =>
       \A s \in Slots : slotClient[s] # None /\ loaded[slotClient[s]] =>
         \/ Tick <= MaxLead + Consumed(slotClient[s])
         \/ Tick <= MaxLead + brought[slotClient[s]]]_vars

(* An elimination reaches the stream: nothing keeps the next tick from      *)
(* closing for ever -- no pause, no held slot, no client that is slow or    *)
(* back and still catching up -- unless the game ends first.                *)
EventsGetSequenced ==
  []<>(events = << >> \/ over \/ Tick = MaxTick)

(* The same of the forfeit of the player who created the game. *)
HostForfeits ==
  (\E i \in DOMAIN events : events[i] = [kind |-> "Forfeit", player |-> HostSlot])
    ~> (events = << >> \/ over \/ Tick = MaxTick)

(* The server is a publisher of an ordered stream. *)
BS == INSTANCE BundleStream
        WITH published <- Tick,
             member <- IF over THEN {} ELSE Members,
             stream <- sent

(* Every behaviour of the server is one of BundleStream, its promise of     *)
(* delivery included.                                                       *)
ImplementsBundleStream == BS!Spec
=============================================================================
