------------------------------- MODULE Session -------------------------------
(***************************************************************************)
(* One client between the lobby and the game: MpClient's connection state   *)
(* and the flags by which it recognises a rejoin or a spectator, the view   *)
(* that builds a world when a game starts (mpAutoStep, startMpGame) and     *)
(* plays the bundles (mpStep), the resume ticket on its disk, and what the  *)
(* server holds of it.  The client may be cut off at any moment and started *)
(* again.                                                                   *)
(*                                                                          *)
(* The client finds games that run and games that wait for players, and may *)
(* create some; a single player has a server of its own where there are no  *)
(* others, and may watch its computer players there.  Other players only    *)
(* start and edit the games; readiness and the slot table are Lobby's,      *)
(* commands and acknowledgements CmdWindow's, the pace of ticks             *)
(* TickServer's.  A room that ends is not modelled further: the client      *)
(* hears no more of it.                                                     *)
(***************************************************************************)
EXTENDS Naturals, Sequences

CONSTANTS
  Live, Theirs,  \* the games that run, and that wait, when the client comes
  Own,           \* those the client may create
  NoGame,
  MaxLog,        \* bound on the ticks of a game
  MaxClicks,     \* bound on what the player does in the lobby
  MaxRestarts,   \* bound on lost connections
  MaxQueue       \* bound on the frames in flight each way

Games == Live \cup Theirs \cup Own

ASSUME SessionAssumption ==
  /\ Live \cap Theirs = {} /\ Own \cap (Live \cup Theirs) = {} /\ NoGame \notin Games
  /\ MaxLog \in Nat \ {0} /\ MaxClicks \in Nat /\ MaxRestarts \in Nat /\ MaxQueue \in Nat

VARIABLES
  net,        \* MpClient: connection state, place, the rejoin and spectator flags, bundles_
  view,       \* GameView: mpSetupDone_, the world, netTick_, the catch-up gate
  mode,       \* autoMode: "browse" (the lobby screens) or "rejoin" (5)
  ticket,     \* the resume file: room and token
  srv,        \* the server's Client: roomId, seated, loaded, replaying, replayPos
  games,      \* phase and length of the bundle log of each room
  token,      \* slotToken of the client's slot in each room
  held,       \* the room where the slot of the cut-off client is held (slotDropped)
  up, down,   \* frames to the server and to the client
  crossed,    \* a LeaveGame of this connection has reached a game that runs (kept by nobody)
  clicks, restarts

svars == <<srv, games, token, held>>
cvars == <<net, view, mode, ticket>>
sessionVars == <<cvars, svars, up, down, crossed, clicks, restarts>>

FreshNet ==
  [state |-> "Lobby", room |-> NoGame, seat |-> FALSE, spec |-> FALSE, rejoin |-> FALSE,
   expRejoin |-> FALSE, expSpectate |-> FALSE, hist |-> 0, token |-> 0, bundles |-> {}]

FreshView ==
  [setup |-> FALSE, world |-> NoGame, tick |-> 0, catchUp |-> FALSE, end |-> 0,
   watching |-> FALSE, played |-> {}]

Nowhere == [room |-> NoGame, seat |-> FALSE, loaded |-> FALSE, replaying |-> FALSE, pos |-> 0]

SessionInit ==
  /\ net = FreshNet /\ view = FreshView /\ mode = "browse"
  /\ ticket = [room |-> NoGame, token |-> 0]
  /\ srv = Nowhere
  /\ \E alone \in BOOLEAN :
       games = [r \in Games |->
                  IF alone \/ r \in Own THEN [phase |-> "none", log |-> 0]
                  ELSE IF r \in Live THEN [phase |-> "running", log |-> 1]
                  ELSE [phase |-> "lobby", log |-> 0]]
  /\ token = [r \in Games |-> 0] /\ held = NoGame
  /\ up = <<>> /\ down = <<>> /\ crossed = FALSE /\ clicks = 0 /\ restarts = 0

-----------------------------------------------------------------------------
(* What the player does in the lobby: the browser's rows and WATCH, the     *)
(* create screen, the room's START and LEAVE.                               *)

Click(msg) ==
  /\ mode = "browse" /\ clicks < MaxClicks /\ Len(up) < MaxQueue
  /\ clicks' = clicks + 1
  /\ up' = Append(up, msg)
  /\ UNCHANGED <<view, mode, ticket, svars, down, crossed, restarts>>

(* The server of a single player has no games of others. *)
Alone == \A r \in Live \cup Theirs : games[r].phase = "none"

ClickJoin(r) ==
  /\ net.state = "Lobby" /\ ~Alone /\ Click([kind |-> "JoinGame", room |-> r])
  /\ UNCHANGED net

ClickWatch(r) ==
  /\ net.state = "Lobby" /\ ~Alone /\ Click([kind |-> "Spectate", room |-> r])
  /\ net' = [net EXCEPT !.expSpectate = TRUE]

ClickCreate(watch) ==
  /\ net.state = "Lobby" /\ (watch => Alone)
  /\ Click([kind |-> "CreateGame", watch |-> watch])
  /\ UNCHANGED net

(* START is the host's, once the client has been told who the host is. *)
ClickStart ==
  /\ net.state = "InRoom" /\ net.room \in Own /\ Click([kind |-> "StartGame", room |-> net.room])
  /\ UNCHANGED net

(* leaveGame does not wait for an answer. *)
ClickLeave ==
  /\ net.state = "InRoom" /\ Click([kind |-> "LeaveGame", room |-> net.room])
  /\ net' = [net EXCEPT !.state = "Lobby", !.room = NoGame, !.seat = FALSE]

Player ==
  \/ \E r \in Live \cup Theirs : ClickJoin(r)
  \/ \E r \in Live : ClickWatch(r)
  \/ \E watch \in BOOLEAN : ClickCreate(watch)
  \/ ClickStart
  \/ ClickLeave

-----------------------------------------------------------------------------
(* The server's handlers of the client's frames. *)

Answer(msgs) ==
  /\ Len(down) + Len(msgs) <= MaxQueue
  /\ up' = Tail(up)
  /\ down' = down \o msgs
  /\ UNCHANGED <<cvars, crossed, clicks, restarts>>

JoinResult(ok, seat) == [kind |-> "JoinResult", ok |-> ok, seat |-> seat]

LobbyState(r) == [kind |-> "LobbyState", room |-> r]

GameStarting(r, seat, tok, hist) ==
  [kind |-> "GameStarting", room |-> r, seat |-> seat, token |-> tok, hist |-> hist]

Request(kind) == up # <<>> /\ Head(up).kind = kind

(* A frame that does not fit the client's state on the server is dropped.   *)
Ignored ==
  /\ up # <<>>
  /\ \/ Head(up).kind \in {"JoinGame", "Spectate", "Rejoin", "CreateGame"} /\ srv.room # NoGame
     \/ Head(up).kind \in {"StartGame", "LeaveGame", "Loaded"} /\ srv.room = NoGame
  /\ Answer(<<>>)
  /\ UNCHANGED svars

ServeRefusal ==
  /\ srv.room = NoGame
  /\ \/ Request("JoinGame")      \* full, started, or locked with another password
     \/ Request("Spectate")
     \/ Request("Rejoin") /\ (held # Head(up).room \/ token[Head(up).room] # Head(up).token)
  /\ Answer(<<JoinResult(FALSE, FALSE)>>)
  /\ UNCHANGED svars

Place(r, seat, loaded, replaying) ==
  [room |-> r, seat |-> seat, loaded |-> loaded, replaying |-> replaying, pos |-> 0]

ServeJoin ==
  /\ Request("JoinGame") /\ srv.room = NoGame
  /\ LET r == Head(up).room IN
     /\ games[r].phase = "lobby"
     /\ srv' = Place(r, TRUE, srv.loaded, srv.replaying)
     /\ Answer(<<JoinResult(TRUE, TRUE), LobbyState(r)>>)
  /\ UNCHANGED <<games, token, held>>

ServeCreate ==
  /\ Request("CreateGame") /\ srv.room = NoGame
  /\ \E r \in Own :
       /\ games[r].phase = "none"
       /\ games' = [games EXCEPT ![r].phase = "lobby"]
       /\ srv' = Place(r, ~Head(up).watch, srv.loaded, srv.replaying)
       /\ Answer(<<JoinResult(TRUE, ~Head(up).watch), LobbyState(r)>>)
  /\ UNCHANGED <<token, held>>

(* Spectate: the whole log is streamed, then the live bundles. *)
ServeWatch ==
  /\ Request("Spectate") /\ srv.room = NoGame
  /\ LET r == Head(up).room IN
     /\ games[r].phase = "running"
     /\ srv' = Place(r, FALSE, TRUE, TRUE)
     /\ Answer(<<GameStarting(r, FALSE, 0, games[r].log)>>)
  /\ UNCHANGED <<games, token, held>>

(* Rejoin: the slot is no longer held, and its token is replaced. *)
ServeRejoin ==
  /\ Request("Rejoin") /\ srv.room = NoGame
  /\ LET r == Head(up).room IN
     /\ held = r /\ token[r] = Head(up).token
     /\ srv' = Place(r, TRUE, TRUE, TRUE)
     /\ token' = [token EXCEPT ![r] = @ + 1]
     /\ held' = NoGame
     /\ Answer(<<GameStarting(r, TRUE, token[r] + 1, games[r].log)>>)
  /\ UNCHANGED games

(* The client is the host of a room that waits.  When it leaves its slot    *)
(* the room is dissolved; a host that only watches detaches.                *)
Hosts == srv.room \in Own /\ games[srv.room].phase = "lobby"

Dissolved == IF Hosts /\ srv.seat THEN [games EXCEPT ![srv.room].phase = "gone"] ELSE games

(* tryStart, for the client that is in the room. *)
Started(r) ==
  /\ games' = [games EXCEPT ![r] = [phase |-> "running", log |-> 0]]
  /\ IF srv.room = r
       THEN /\ srv' = [srv EXCEPT !.loaded = ~srv.seat]
            /\ token' = IF srv.seat THEN [token EXCEPT ![r] = @ + 1] ELSE token
       ELSE UNCHANGED <<srv, token>>
  /\ UNCHANGED held

StartFrame(r) == GameStarting(r, srv.seat, token'[r], 0)

ServeStart ==
  /\ Request("StartGame") /\ srv.room # NoGame
  /\ IF Hosts
       THEN Started(srv.room) /\ Answer(<<StartFrame(srv.room)>>)
       ELSE UNCHANGED svars /\ Answer(<<>>)

ServeLoaded ==
  /\ Request("Loaded") /\ srv.room # NoGame
  /\ srv' = [srv EXCEPT !.loaded = TRUE]
  /\ Answer(<<>>)
  /\ UNCHANGED <<games, token, held>>

(* leaveRoom *)
ServeLeave ==
  /\ Request("LeaveGame") /\ srv.room # NoGame
  /\ games' = Dissolved
  /\ srv' = [srv EXCEPT !.room = NoGame, !.seat = FALSE, !.loaded = FALSE]
  /\ up' = Tail(up)
  /\ crossed' = (crossed \/ games[srv.room].phase = "running")
  /\ UNCHANGED <<cvars, token, held, down, clicks, restarts>>

-----------------------------------------------------------------------------
(* What the server does by itself, and for other players. *)

Send(msgs) ==
  /\ Len(down) + Len(msgs) <= MaxQueue
  /\ down' = down \o msgs
  /\ UNCHANGED <<cvars, up, crossed, clicks, restarts>>

(* Somebody edits the room the client is in. *)
OthersEdit ==
  /\ srv.room # NoGame /\ games[srv.room].phase = "lobby" /\ clicks < MaxClicks
  /\ Send(<<LobbyState(srv.room)>>)
  /\ UNCHANGED svars

OthersStart(r) ==
  /\ games[r].phase = "lobby"
  /\ Started(r)
  /\ Send(IF srv.room = r THEN <<StartFrame(r)>> ELSE <<>>)

(* closeTick: the first tick waits for everyone to have loaded, no tick is  *)
(* closed while a player is waited for; the live bundle is not sent to a    *)
(* client whose history is still on the way.                                *)
NextTick(r) ==
  /\ games[r].phase = "running" /\ games[r].log < MaxLog /\ held # r
  /\ games[r].log = 0 /\ srv.room = r /\ srv.seat => srv.loaded
  /\ games' = [games EXCEPT ![r].log = @ + 1]
  /\ Send(IF srv.room = r /\ ~srv.replaying
            THEN <<[kind |-> "TickBundle", room |-> r, tick |-> games[r].log]>> ELSE <<>>)
  /\ UNCHANGED <<srv, token, held>>

(* Topping up a catch-up stream. *)
PumpReplay ==
  /\ srv.replaying
  /\ IF srv.room = NoGame \/ srv.pos >= games[srv.room].log
       THEN srv' = [srv EXCEPT !.replaying = FALSE] /\ Send(<<>>)
       ELSE /\ srv' = [srv EXCEPT !.pos = @ + 1, !.replaying = srv.pos + 1 < games[srv.room].log]
            /\ Send(<<[kind |-> "TickBundle", room |-> srv.room, tick |-> srv.pos]>>)
  /\ UNCHANGED <<games, token, held>>

(* The grace of a held slot is over. *)
GraceEnds ==
  /\ held # NoGame
  /\ held' = NoGame
  /\ UNCHANGED <<cvars, srv, games, token, up, down, crossed, clicks, restarts>>

(* The connection is lost, and the player starts the program again.         *)
CutOff(next) ==
  /\ restarts < MaxRestarts /\ restarts' = restarts + 1
  /\ held' = IF srv.room # NoGame /\ srv.seat /\ games[srv.room].phase = "running"
               THEN srv.room ELSE held
  /\ games' = Dissolved
  /\ srv' = Nowhere /\ up' = <<>> /\ down' = <<>> /\ crossed' = FALSE
  /\ net' = FreshNet /\ view' = FreshView /\ mode' = next
  /\ UNCHANGED <<ticket, token, clicks>>

-----------------------------------------------------------------------------
(* MpClient::onFrame *)

Received(kind) == down # <<>> /\ Head(down).kind = kind /\ net.state # "Done"

Handled ==
  /\ down' = Tail(down)
  /\ UNCHANGED <<view, mode, ticket, svars, up, crossed, clicks, restarts>>

OnJoinResult ==
  /\ Received("JoinResult")
  /\ net' = IF Head(down).ok
              THEN [net EXCEPT !.seat = Head(down).seat, !.spec = ~Head(down).seat,
                               !.state = "InRoom"]
              ELSE net
  /\ Handled

OnLobbyState ==
  /\ Received("LobbyState")
  /\ net' = [net EXCEPT !.room = Head(down).room,
                        !.state = IF @ = "Lobby" THEN "InRoom" ELSE @]
  /\ Handled

OnGameStarting ==
  /\ Received("GameStarting")
  /\ LET f == Head(down)
         spec == net.expSpectate \/ ~f.seat
     IN net' = [net EXCEPT !.room = f.room, !.seat = f.seat, !.token = f.token, !.hist = f.hist,
                           !.spec = spec, !.rejoin = net.expRejoin \/ net.expSpectate \/ spec,
                           !.expRejoin = FALSE, !.expSpectate = FALSE, !.state = "Starting"]
  /\ Handled

OnTickBundle ==
  /\ Received("TickBundle")
  /\ LET f == Head(down)
     IN net' = [net EXCEPT
          !.bundles = {b \in @ : b.tick # f.tick} \cup {[room |-> f.room, tick |-> f.tick]},
          !.state = IF @ = "Starting" THEN "InGame" ELSE @]
  /\ Handled

-----------------------------------------------------------------------------
(* A frame of the view: mpAutoStep. *)

(* Mutant of CaughtUp: history is over when the buffer runs dry. *)
CaughtUp_BufferDry(v, bundles) == bundles = {}

(* The server said where history ends. *)
CaughtUp(v, bundles) == v.tick >= v.end

(* mpStep: view v plays the next n bundles of the buffer. *)
Play(v, n) ==
  /\ \A t \in v.tick .. (v.tick + n - 1) : \E b \in net.bundles : b.tick = t
  /\ LET used == {b \in net.bundles : b.tick \in v.tick .. (v.tick + n - 1)}
         w == [v EXCEPT !.tick = @ + n, !.played = @ \cup {b.room : b \in used}]
     IN /\ view' = [w EXCEPT !.catchUp = @ /\ ~CaughtUp(w, net.bundles \ used)]
        /\ net' = [net EXCEPT !.bundles = @ \ used, !.rejoin = FALSE]

(* startMpGame builds the world of the room; a player reports it and saves  *)
(* the ticket.                                                              *)
NewWorld == [FreshView EXCEPT !.setup = TRUE, !.world = net.room, !.watching = net.spec]

Report ==
  IF net.spec THEN UNCHANGED <<ticket, up>>
  ELSE /\ ticket' = [room |-> net.room, token |-> net.token]
       /\ up' = Append(up, [kind |-> "Loaded", room |-> net.room])

StepRest == UNCHANGED <<mode, svars, down, crossed, clicks, restarts>>

InLobby5 == mode = "rejoin" /\ net.state = "Lobby"

(* The rejoin is asked for again in every frame until the game starts.      *)
AskRejoin ==
  /\ InLobby5 /\ ticket.room # NoGame /\ Len(up) < MaxQueue
  /\ up' = Append(up, [kind |-> "Rejoin", room |-> ticket.room, token |-> ticket.token])
  /\ net' = [net EXCEPT !.expRejoin = TRUE]
  /\ UNCHANGED <<view, ticket>> /\ StepRest

(* Mutant of MustReplay: once bundles came the game is on. *)
MustReplay_LateCheck == net.rejoin /\ net.state # "InGame"

(* The bundles may have flipped the state to InGame before this is seen. *)
MustReplay == net.rejoin

SetupReplay(n) ==
  /\ net.state # "Done" /\ ~InLobby5 /\ MustReplay /\ Len(up) < MaxQueue
  /\ Play([NewWorld EXCEPT !.end = net.hist, !.catchUp = net.hist > 0], n)
  /\ Report /\ StepRest

SetupFresh ==
  /\ ~MustReplay /\ net.state = "Starting" /\ ~view.setup /\ Len(up) < MaxQueue
  /\ view' = NewWorld
  /\ UNCHANGED net /\ Report /\ StepRest

PlayBundles(n) ==
  /\ ~MustReplay /\ net.state = "InGame"
  /\ Play(view, n)
  /\ UNCHANGED <<ticket, up>> /\ StepRest

-----------------------------------------------------------------------------
Server ==
  \/ Ignored \/ ServeRefusal \/ ServeJoin \/ ServeCreate \/ ServeWatch \/ ServeRejoin
  \/ ServeStart \/ ServeLoaded \/ ServeLeave
  \/ OthersEdit \/ PumpReplay \/ GraceEnds
  \/ \E r \in Theirs : OthersStart(r)
  \/ \E r \in Games : NextTick(r)

Client ==
  \/ OnJoinResult \/ OnLobbyState \/ OnGameStarting \/ OnTickBundle
  \/ AskRejoin \/ SetupFresh
  \/ \E n \in 0 .. MaxLog : SetupReplay(n) \/ PlayBundles(n)

SessionNext == Player \/ Server \/ Client \/ \E next \in {"browse", "rejoin"} : CutOff(next)

SessionSpec == SessionInit /\ [][SessionNext]_sessionVars

-----------------------------------------------------------------------------
SessionTypes ==
  /\ DOMAIN net = DOMAIN FreshNet /\ DOMAIN view = DOMAIN FreshView
  /\ net.state \in {"Lobby", "InRoom", "Starting", "InGame", "Done"}
  /\ net.bundles \subseteq [room : Games, tick : 0 .. MaxLog]
  /\ mode \in {"browse", "rejoin"}
  /\ srv.room \in Games \cup {NoGame} /\ held \in Games \cup {NoGame}

(* The world on the screen is that of the game the bundles are of: no tick  *)
(* is played before a world was built for it, every tick played came from   *)
(* that game, and a client that has come back holds its orders until it has *)
(* played all of the history the server announced.  The bundles do not name *)
(* their game and nothing empties the buffer: for a player whose LEAVE      *)
(* crossed the start of the game, and who goes on to another, the first two *)
(* do not hold.                                                             *)
WorldFollowsItsGame ==
  /\ SessionTypes
  /\ view.setup /\ ~view.catchUp => view.tick >= view.end
  /\ ~crossed =>
       /\ view.tick > 0 => view.setup
       /\ view.played \subseteq {view.world}
=============================================================================
