----------------------------- MODULE SimThread ------------------------------
(***************************************************************************)
(* The client's simulation thread.  The main thread takes the delivered     *)
(* bundles from the network and pushes them into simInbox_; the worker      *)
(* steps the world with them, publishes a snapshot of every tick in one of  *)
(* three frame buffers and leaves state hashes in simOutbox_; the main      *)
(* thread draws the snapshot it has pinned and sends the hashes.  Every     *)
(* region under a mutex, every notification and every store of an atomic    *)
(* is a step of its own.                                                    *)
(***************************************************************************)
EXTENDS Integers, Sequences

CONSTANTS
  HashPeriod,    \* kHashPeriod
  Spectator,     \* mp_->isSpectator(): heartbeats instead of hashes that count
  EndTick,       \* the tick that decides the game, or a later one than any
  MaxTick        \* bound on the ticks of a game

ASSUME SimThreadAssumption ==
  /\ HashPeriod \in Nat \ {0} /\ Spectator \in BOOLEAN
  /\ EndTick \in Nat /\ MaxTick \in Nat

VARIABLES
  main,        \* where the main thread is: "idle", "frame", "notify", "stop", "joining", "gone"
  netTick,     \* the next tick to push
  have,        \* bundles delivered
  inbox,       \* simInbox_: jobs, one tick each
  outbox,      \* simOutbox_
  sent,        \* hashes sent to the server
  acked,       \* the ticks the server was told of
  quit, cancel,  \* simQuit_, simCancel_
  asleep,      \* the worker waits on inboxCv_
  worker,      \* "wait", "step", "capture", "write", "report", "store", "exited"
  job,         \* the job in hand and, once taken, its hash
  world,       \* the bundles the world was stepped with
  outcome,     \* outcome_ # 0
  processed,   \* simProcessedTick_
  buf,         \* frameBuf_: ticks in the snapshot, or Torn
  writing, published, reading   \* captureFrame's w, published_, reading_

queueVars == <<inbox, quit, cancel, asleep>>
mainVars == <<main, netTick, have, sent, acked>>
workVars == <<worker, job, world, outcome, processed, outbox>>
frameVars == <<buf, writing, published, reading>>
simVars == <<queueVars, mainVars, workVars, frameVars>>

Torn == -1
Unpinned == -1
Buffers == 0 .. 2

SimInit ==
  /\ main = "idle" /\ netTick = 0 /\ have = 0 /\ sent = <<>> /\ acked = 0
  /\ inbox = <<>> /\ quit = FALSE /\ cancel = FALSE /\ asleep = FALSE
  /\ worker = "wait" /\ job = [tick |-> 0, hash |-> <<>>] /\ world = <<>>
  /\ outcome = FALSE /\ processed = 0 /\ outbox = <<>>
  /\ buf = [b \in Buffers |-> 0] /\ writing = 0 /\ published = 0 /\ reading = Unpinned

-----------------------------------------------------------------------------
(* The main thread. *)

BeginFrame ==
  /\ main = "idle" /\ main' = "frame"
  /\ reading' = published
  /\ UNCHANGED <<queueVars, netTick, have, sent, acked, workVars, buf, writing, published>>

EndFrame ==
  /\ main = "frame" /\ main' = "idle"
  /\ reading' = Unpinned
  /\ UNCHANGED <<queueVars, netTick, have, sent, acked, workVars, buf, writing, published>>

(* The network: a bundle arrives (CmdWindow and TickServer say when). *)
Deliver ==
  /\ have < MaxTick /\ main # "gone"
  /\ have' = have + 1
  /\ UNCHANGED <<queueVars, main, netTick, sent, acked, workVars, frameVars>>

(* One turn of the drain of mpStep, up to the unlock of inboxMutex_. *)
Push ==
  /\ main = "frame" /\ ~outcome /\ netTick < have
  /\ inbox' = Append(inbox, netTick)
  /\ netTick' = netTick + 1
  /\ main' = "notify"
  /\ UNCHANGED <<quit, cancel, asleep, have, sent, acked, workVars, frameVars>>

(* inboxCv_.notify_one *)
NotifyWorker ==
  /\ main \in {"notify", "stop"}
  /\ main' = IF main = "notify" THEN "frame" ELSE "joining"
  /\ asleep' = FALSE
  /\ UNCHANGED <<inbox, quit, cancel, netTick, have, sent, acked, workVars, frameVars>>

(* The server keeps the latest tick it was told of. *)
Later(tick) == IF tick > acked THEN tick ELSE acked

(* The finished hashes are swapped out of simOutbox_ and sent. *)
SendReports ==
  /\ main = "frame" /\ outbox # <<>>
  /\ sent' = sent \o outbox
  /\ acked' = Later(outbox[Len(outbox)].tick)
  /\ outbox' = <<>>
  /\ UNCHANGED <<queueVars, main, netTick, have, worker, job, world, outcome, processed, frameVars>>

(* Mutant: the push position is acknowledged, as the inline path does. *)
AckTick_Pushed == IF netTick > 0 THEN netTick - 1 ELSE 0

AckTick == processed

(* A spectator's heartbeat. *)
Heartbeat ==
  /\ main = "frame" /\ Spectator
  /\ acked' = Later(AckTick)
  /\ UNCHANGED <<queueVars, main, netTick, have, sent, workVars, frameVars>>

(* stopSimThread: drain is the headless run's, cancel the player's.         *)
Stop(drain) ==
  /\ main \in {"idle", "frame"} /\ main' = "stop"
  /\ quit' = TRUE
  /\ cancel' = ~drain
  /\ inbox' = IF drain THEN inbox ELSE <<>>
  /\ UNCHANGED <<asleep, netTick, have, sent, acked, workVars, frameVars>>

JoinWorker ==
  /\ main = "joining" /\ worker = "exited" /\ main' = "gone"
  /\ UNCHANGED <<queueVars, netTick, have, sent, acked, workVars, frameVars>>

Main ==
  \/ BeginFrame \/ EndFrame \/ Push \/ NotifyWorker \/ SendReports \/ Heartbeat \/ JoinWorker
  \/ \E drain \in BOOLEAN : Stop(drain)

-----------------------------------------------------------------------------
(* The worker: simWorkerLoop. *)

WorkerRest == UNCHANGED <<mainVars, quit, cancel>>

(* The predicate is looked at under inboxMutex_ and does not hold. *)
Sleep ==
  /\ worker = "wait" /\ ~asleep /\ ~quit /\ inbox = <<>>
  /\ asleep' = TRUE
  /\ WorkerRest /\ UNCHANGED <<inbox, workVars, frameVars>>

(* Mutant: a worker told to quit leaves at once, what is queued or not. *)
Exit_AtOnce == worker = "wait" /\ ~asleep /\ quit

(* Told to quit: at once when cancelled, else with nothing left to do. *)
Leaves == worker = "wait" /\ ~asleep /\ (cancel \/ (quit /\ inbox = <<>>))

Exit ==
  /\ Leaves
  /\ worker' = "exited" /\ inbox' = IF cancel THEN <<>> ELSE inbox
  /\ WorkerRest /\ UNCHANGED <<asleep, job, world, outcome, processed, outbox, frameVars>>

Take ==
  /\ worker = "wait" /\ ~asleep /\ ~Leaves /\ inbox # <<>>
  /\ worker' = "step"
  /\ job' = [tick |-> Head(inbox), hash |-> <<>>]
  /\ inbox' = Tail(inbox)
  /\ WorkerRest /\ UNCHANGED <<asleep, world, outcome, processed, outbox, frameVars>>

(* apply, applyEvent and the step of the world, under simMutex_. *)
Simulate ==
  /\ worker = "step" /\ worker' = "capture"
  /\ world' = Append(world, job.tick)
  /\ outcome' = (outcome \/ job.tick = EndTick)
  /\ WorkerRest /\ UNCHANGED <<inbox, asleep, job, processed, outbox, frameVars>>

(* Mutant of Spare: with two buffers in mind, any but the published one. *)
Spare_NotPublished(w) == w # published

(* captureFrame: neither the published buffer nor the one being drawn. *)
Spare(w) == w # published /\ w # reading

Capture ==
  /\ worker = "capture" /\ worker' = "write"
  /\ \E w \in Buffers :
       /\ Spare(w) /\ \A v \in Buffers : Spare(v) => w <= v
       /\ writing' = w
       /\ buf' = [buf EXCEPT ![w] = Torn]
  /\ WorkerRest
  /\ UNCHANGED <<inbox, asleep, job, world, outcome, processed, outbox, published, reading>>

(* Mutant of WantHash: netTick_ had already moved on. *)
WantHash_After == (job.tick + 1) % HashPeriod = 0

WantHash == job.tick % HashPeriod = 0

(* The snapshot is whole and published; then, still under simMutex_, the    *)
(* hash is taken.                                                           *)
PublishFrame ==
  /\ worker = "write" /\ worker' = IF WantHash THEN "report" ELSE "store"
  /\ buf' = [buf EXCEPT ![writing] = Len(world)]
  /\ published' = writing
  /\ job' = [job EXCEPT !.hash = IF WantHash THEN world ELSE <<>>]
  /\ WorkerRest
  /\ UNCHANGED <<inbox, asleep, world, outcome, processed, outbox, writing, reading>>

PostReport ==
  /\ worker = "report" /\ worker' = "store"
  /\ outbox' = Append(outbox, job)
  /\ WorkerRest /\ UNCHANGED <<inbox, asleep, job, world, outcome, processed, frameVars>>

Store ==
  /\ worker = "store" /\ worker' = "wait"
  /\ processed' = job.tick
  /\ WorkerRest /\ UNCHANGED <<inbox, asleep, job, world, outcome, outbox, frameVars>>

Worker ==
  Sleep \/ Exit \/ Take \/ Simulate \/ Capture \/ PublishFrame \/ PostReport \/ Store

-----------------------------------------------------------------------------
SimNext == Main \/ Deliver \/ Worker

(* The scheduler runs both threads; a main thread that has begun to leave   *)
(* does not stop on the way.                                                *)
SimFairness == WF_simVars(Worker) /\ WF_simVars(NotifyWorker) /\ WF_simVars(JoinWorker)

SimSpec == SimInit /\ [][SimNext]_simVars /\ SimFairness

-----------------------------------------------------------------------------
(* The ticks that are whole. *)
Whole == IF worker \in {"capture", "write"} THEN SubSeq(world, 1, Len(world) - 1) ELSE world

Unposted == IF worker = "report" THEN <<job>> ELSE <<>>

Inline == INSTANCE InlineSim WITH world <- Whole, reports <- sent \o outbox \o Unposted

(* The threaded simulation does what the inline one does: the bundles are   *)
(* applied in tick order, each once, and the server is sent the hash of the *)
(* world right after each reported tick, in order, each once.               *)
ImplementsInline == Inline!InlineSpec

(* A frame is drawn from one whole snapshot, however long the render takes: *)
(* the pinned buffer and the published one are never being written, and the *)
(* published one is never more than the tick in hand behind the world.      *)
FramesHold ==
  /\ reading # Unpinned => buf[reading] # Torn
  /\ buf[published] = Len(Whole)

(* The server paces the game by acknowledged ticks: a client acknowledges   *)
(* none that its world has not been through.                                *)
AckIsProcessed == acked > 0 => acked < Len(world)

(* Leaving the game ends: the worker is not left asleep on its condition    *)
(* variable; and the headless run's drain leaves no pushed tick behind.     *)
StopEnds ==
  /\ []<>(main \notin {"stop", "joining"})
  /\ [](main = "gone" /\ ~cancel => Len(world) = netTick)
=============================================================================
