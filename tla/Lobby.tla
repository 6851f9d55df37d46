-------------------------------- MODULE Lobby --------------------------------
(***************************************************************************)
(* Who is where: the rooms of a server, their slots and spectators, and    *)
(* what each connection believes about its own place (Client::state,       *)
(* roomId and slot), from signing in to the end of the game.  The same     *)
(* fact is kept twice, in the Room and in the Client, and every handler of *)
(* lobbyMsg, gameMsg, leaveRoom, dropClient and the sweeps of Server::run  *)
(* has to change both.                                                     *)
(*                                                                         *)
(* A lobby edit crosses other traffic: the host's program offers to change *)
(* the slots its last LobbyState showed as empty, and by the time the      *)
(* SlotUpdate is read somebody may sit there.  The handler does not look,  *)
(* and retypes the slot under whoever has it; from then on the two records *)
(* of that room differ.  retyped remembers which rooms that happened to.   *)
(* Names, maps, factions, colours, teams, passwords and chat are left out; *)
(* a start that is refused for one of them changes nothing.  The ticks of  *)
(* a running game are TickServer's.                                        *)
(***************************************************************************)
EXTENDS Naturals, FiniteSets, FiniteSetsExt

CONSTANTS
  Clients,        \* connections that have signed in
  Seats,          \* slot indices
  Capacity,       \* the slots the map has start positions for
  MaxRooms,       \* bound on the rooms ever created
  NoOne,
  Missions        \* whether the games created may be missions: a set of BOOLEAN

ASSUME LobbyAssumption ==
  /\ Seats \subseteq Nat /\ Seats # {} /\ Capacity \subseteq Seats
  /\ NoOne \notin Clients /\ NoOne \notin Seats
  /\ MaxRooms \in Nat /\ Missions \subseteq BOOLEAN

VARIABLES
  rooms,     \* rooms_, by id
  nextRoom,  \* nextRoomId_
  status,    \* Client::state: "lobby", "game" or "gone"
  roomOf,    \* Client::roomId; 0 is none
  seat,      \* Client::slot
  retyped    \* history: the rooms in which an edit hit a slot somebody has

clientVars == <<status, roomOf, seat>>
lobbyVars  == <<rooms, nextRoom, clientVars, retyped>>

RoomIds == 1 .. MaxRooms

Types == {"open", "human", "ai", "closed"}

MembersOf(r) == ({r.client[s] : s \in Seats} \ {NoOne}) \cup r.spectators

(* A room that was never created, or has been erased. *)
NoRoom ==
  [phase |-> "none", host |-> NoOne, mission |-> FALSE, priv |-> FALSE,
   type |-> [s \in Seats |-> "closed"], ready |-> [s \in Seats |-> FALSE],
   client |-> [s \in Seats |-> NoOne], dropped |-> [s \in Seats |-> FALSE], spectators |-> {}]

NewRoom(host, mission) ==
  [NoRoom EXCEPT !.phase = "lobby", !.host = host, !.mission = mission,
                 !.type = [s \in Seats |-> IF s \in Capacity THEN "open" ELSE "closed"]]

LobbyInit ==
  /\ rooms = [i \in RoomIds |-> NoRoom]
  /\ nextRoom = 1
  /\ status = [c \in Clients |-> "lobby"]
  /\ roomOf = [c \in Clients |-> 0]
  /\ seat = [c \in Clients |-> NoOne]
  /\ retyped = {}

InRoom(c) == status[c] = "game" /\ roomOf[c] # 0 /\ rooms[roomOf[c]].phase # "none"

(* c enters room i, in slot s or watching. *)
Enter(c, i, s) ==
  /\ status' = [status EXCEPT ![c] = "game"]
  /\ roomOf' = [roomOf EXCEPT ![c] = i]
  /\ seat' = [seat EXCEPT ![c] = s]

Exit(c, st) ==
  /\ status' = [status EXCEPT ![c] = st]
  /\ roomOf' = [roomOf EXCEPT ![c] = 0]
  /\ seat' = [seat EXCEPT ![c] = NoOne]

(* Mutant of SeatedIn: the slot keeps its type. *)
SeatedIn_Untyped(r, s, c) == [r EXCEPT !.client[s] = c]

(* Room r with c in slot s. *)
SeatedIn(r, s, c) == [r EXCEPT !.client[s] = c, !.type[s] = "human"]

(* Room r with c back in slot s. *)
Reseated(r, s, c) == [r EXCEPT !.client[s] = c, !.dropped[s] = FALSE]

-----------------------------------------------------------------------------
(* lobbyMsg *)

(* Only a private game, hidden from the list, is created by one who just   *)
(* watches it (single player).                                             *)
CreateGame(c, mission, watch) ==
  /\ status[c] = "lobby" /\ nextRoom <= MaxRooms
  /\ LET r == NewRoom(c, mission)
         first == Min(Seats)
     IN IF watch
          THEN /\ rooms' = [rooms EXCEPT ![nextRoom] = [r EXCEPT !.priv = TRUE, !.spectators = {c}]]
               /\ Enter(c, nextRoom, NoOne)
          ELSE /\ rooms' = [rooms EXCEPT ![nextRoom] = SeatedIn(r, first, c)]
               /\ Enter(c, nextRoom, first)
  /\ nextRoom' = nextRoom + 1
  /\ UNCHANGED retyped

JoinGame(c, i) ==
  /\ status[c] = "lobby" /\ rooms[i].phase = "lobby"
  /\ LET free == {s \in Seats : rooms[i].type[s] = "open"}
     IN /\ free # {}
        /\ rooms' = [rooms EXCEPT ![i] = SeatedIn(@, Min(free), c)]
        /\ Enter(c, i, Min(free))
  /\ UNCHANGED <<nextRoom, retyped>>

(* The token presented is that of a held slot. *)
LobbyRejoin(c, i, s) ==
  /\ status[c] = "lobby" /\ rooms[i].phase = "running" /\ rooms[i].dropped[s]
  /\ rooms' = [rooms EXCEPT ![i] = Reseated(@, s, c)]
  /\ Enter(c, i, s)
  /\ UNCHANGED <<nextRoom, retyped>>

LobbySpectate(c, i) ==
  /\ status[c] = "lobby" /\ rooms[i].phase = "running"
  /\ rooms' = [rooms EXCEPT ![i].spectators = @ \cup {c}]
  /\ Enter(c, i, NoOne)
  /\ UNCHANGED <<nextRoom, retyped>>

-----------------------------------------------------------------------------
(* gameMsg, before the game starts *)

(* SlotUpdate for one's own slot; the type field says "human". *)
EditOwn(c, ready) ==
  /\ InRoom(c) /\ rooms[roomOf[c]].phase = "lobby" /\ seat[c] # NoOne
  /\ rooms' = [rooms EXCEPT
       ![roomOf[c]].type[seat[c]] = IF c = rooms[roomOf[c]].host THEN "human" ELSE @,
       ![roomOf[c]].ready[seat[c]] = ready]
  /\ UNCHANGED <<nextRoom, clientVars, retyped>>

(* SlotUpdate from the host for another slot than its own, or for its own   *)
(* when that is called something else by now.  The host's program sends     *)
(* the next type of a row it shows as empty, or other settings for an AI;   *)
(* whether somebody has the slot by now is not asked.  One past the map's   *)
(* capacity stays closed.                                                   *)
EditOther(c, s, type) ==
  /\ InRoom(c) /\ rooms[roomOf[c]].phase = "lobby" /\ rooms[roomOf[c]].host = c
  /\ s # seat[c] \/ rooms[roomOf[c]].type[s] # "human"
  /\ rooms' = [rooms EXCEPT
       ![roomOf[c]].type[s] = IF s \in Capacity \/ type = "closed" THEN type ELSE @,
       ![roomOf[c]].ready[s] = FALSE]
  /\ retyped' = IF rooms[roomOf[c]].client[s] = NoOne THEN retyped
                 ELSE retyped \cup {roomOf[c]}
  /\ UNCHANGED <<nextRoom, clientVars>>

HumanSeats(r) == {s \in Seats : r.type[s] = "human"}

Used(r) == {s \in Seats : r.type[s] \in {"human", "ai"}}

(* tryStart *)
StartGame(c) ==
  /\ InRoom(c)
  /\ LET r == rooms[roomOf[c]] IN
     /\ r.phase = "lobby" /\ r.host = c
     /\ r.mission \/ Cardinality(Used(r)) >= 2
     /\ \A s \in HumanSeats(r) : r.ready[s]
  /\ rooms' = [rooms EXCEPT ![roomOf[c]].phase = "running"]
  /\ UNCHANGED <<nextRoom, clientVars, retyped>>

-----------------------------------------------------------------------------
(* Leaving *)

(* Mutant of PassHost: the slot index is taken for the client id. *)
PassHost_ToSlot(r) ==
  LET taken == {s \in Seats : r.client[s] # NoOne}
  IN IF taken = {} THEN NoRoom ELSE [r EXCEPT !.host = Min(taken)]

(* Mutant of PassHost: the room keeps its host. *)
PassHost_Never(r) == r

(* The host of a room that has not started has left its slot: the next      *)
(* human is the host; without one the room is dissolved.                    *)
PassHost(r) ==
  LET taken == {s \in Seats : r.client[s] # NoOne}
  IN IF taken = {} THEN NoRoom ELSE [r EXCEPT !.host = r.client[Min(taken)]]

(* Mutant of Vacated: the slot is closed, the seat not given up. *)
Vacated_KeepsClient(r, s) ==
  [r EXCEPT !.type[s] = IF r.phase = "running" THEN "closed" ELSE "open"]

(* Slot s is given up: open again before the start, out of the game after. *)
Vacated(r, s) ==
  [r EXCEPT !.client[s] = NoOne,
            !.type[s] = IF r.phase = "running" THEN "closed" ELSE "open"]

(* leaveRoom: what is left of room r without c. *)
Without(r, c) ==
  IF c \in r.spectators THEN [r EXCEPT !.spectators = @ \ {c}]
  ELSE LET v == IF seat[c] = NoOne THEN r ELSE Vacated(r, seat[c])
       IN IF r.phase = "lobby" /\ r.host = c THEN PassHost(v) ELSE v

LobbyLeave(c) ==
  /\ InRoom(c)
  /\ rooms' = [rooms EXCEPT ![roomOf[c]] = Without(@, c)]
  /\ Exit(c, "lobby")
  /\ UNCHANGED <<nextRoom, retyped>>

Kick(c, s) ==
  /\ InRoom(c)
  /\ LET r == rooms[roomOf[c]]
         d == r.client[s]
     IN /\ r.phase = "lobby" /\ r.host = c
        /\ d # NoOne /\ d # c
        /\ rooms' = [rooms EXCEPT ![roomOf[c]] = Without(@, d)]
        /\ Exit(d, "lobby")
  /\ UNCHANGED <<nextRoom, retyped>>

(* A player of a running game who is cut off may come back. *)
HoldsSlot(c) ==
  LET r == rooms[roomOf[c]]
  IN r.phase = "running" /\ seat[c] # NoOne /\ r.type[seat[c]] = "human"

LobbyDrop(c) ==
  /\ status[c] # "gone"
  /\ rooms' = IF ~ InRoom(c) THEN rooms
              ELSE IF HoldsSlot(c)
                THEN [rooms EXCEPT ![roomOf[c]].client[seat[c]] = NoOne,
                                   ![roomOf[c]].dropped[seat[c]] = TRUE]
                ELSE [rooms EXCEPT ![roomOf[c]] = Without(@, c)]
  /\ Exit(c, "gone")
  /\ UNCHANGED <<nextRoom, retyped>>

(* The grace of a held slot is over. *)
Forfeit(i, s) ==
  /\ rooms[i].phase = "running" /\ rooms[i].dropped[s]
  /\ rooms' = [rooms EXCEPT ![i].dropped[s] = FALSE, ![i].type[s] = "closed"]
  /\ UNCHANGED <<nextRoom, clientVars, retyped>>

(* roomOccupied, roomActive *)
RoomOccupied(r) == MembersOf(r) # {}

RoomActive(r) ==
  \/ \E s \in HumanSeats(r) : r.client[s] # NoOne \/ r.dropped[s]
  \/ r.spectators # {} /\ \E s \in Seats : r.type[s] = "ai"

(* Mutant of Released: the spectators stay where they are. *)
Released_Nobody(r) == {}

(* The connections that are told to go back to the lobby. *)
Released(r) == r.spectators

(* A running room that nobody is in, or plays in, is erased. *)
LobbyTeardown(i) ==
  /\ rooms[i].phase = "running" /\ (~ RoomOccupied(rooms[i]) \/ ~ RoomActive(rooms[i]))
  /\ rooms' = [rooms EXCEPT ![i] = NoRoom]
  /\ status' = [c \in Clients |-> IF c \in Released(rooms[i]) THEN "lobby" ELSE status[c]]
  /\ roomOf' = [c \in Clients |-> IF c \in Released(rooms[i]) THEN 0 ELSE roomOf[c]]
  /\ seat' = [c \in Clients |-> IF c \in Released(rooms[i]) THEN NoOne ELSE seat[c]]
  /\ UNCHANGED <<nextRoom, retyped>>

-----------------------------------------------------------------------------
LobbyNext ==
  \/ \E c \in Clients :
       \/ \E mission \in Missions, watch \in BOOLEAN : CreateGame(c, mission, watch)
       \/ \E i \in RoomIds : JoinGame(c, i)
       \/ \E i \in RoomIds, s \in Seats : LobbyRejoin(c, i, s)
       \/ \E i \in RoomIds : LobbySpectate(c, i)
       \/ \E ready \in BOOLEAN : EditOwn(c, ready)
       \/ \E s \in Seats, type \in {"open", "ai", "closed"} : EditOther(c, s, type)
       \/ StartGame(c)
       \/ LobbyLeave(c)
       \/ \E s \in Seats : Kick(c, s)
       \/ LobbyDrop(c)
  \/ \E i \in RoomIds, s \in Seats : Forfeit(i, s)
  \/ \E i \in RoomIds : LobbyTeardown(i)

LobbySpec == LobbyInit /\ [][LobbyNext]_lobbyVars

-----------------------------------------------------------------------------
(* Every variable has its type. *)
LobbyTypes ==
  /\ \A i \in RoomIds :
       /\ DOMAIN rooms[i] = DOMAIN NoRoom
       /\ rooms[i].phase \in {"none", "lobby", "running"}
       /\ rooms[i].host \in Clients \cup {NoOne}
       /\ rooms[i].priv \in BOOLEAN
       /\ rooms[i].type \in [Seats -> Types]
       /\ rooms[i].ready \in [Seats -> BOOLEAN]
       /\ rooms[i].client \in [Seats -> Clients \cup {NoOne}]
       /\ rooms[i].dropped \in [Seats -> BOOLEAN]
       /\ rooms[i].spectators \subseteq Clients
  /\ nextRoom \in 1 .. (MaxRooms + 1)
  /\ status \in [Clients -> {"lobby", "game", "gone"}]
  /\ roomOf \in [Clients -> 0 .. MaxRooms]
  /\ seat \in [Clients -> Seats \cup {NoOne}]
  /\ retyped \subseteq RoomIds

(* Whoever a room has, in a slot or watching, is in that game and there.    *)
MembersAreThere ==
  \A i \in RoomIds : \A c \in Clients :
    /\ \A s \in Seats : rooms[i].client[s] = c =>
         status[c] = "game" /\ roomOf[c] = i /\ seat[c] = s
    /\ c \in rooms[i].spectators <=>
         status[c] = "game" /\ roomOf[c] = i /\ seat[c] = NoOne

(* A connection in a game names a room that exists and has it where it says *)
(* it is.  One whose room is gone is in limbo: every frame it sends is      *)
(* dropped, LeaveGame included.                                             *)
HasPlace(c) ==
  /\ InRoom(c)
  /\ seat[c] # NoOne => rooms[roomOf[c]].client[seat[c]] = c

(* A slot is a human's exactly while a client sits there or it is held.     *)
SlotsMatch(r) ==
  \A s \in Seats : r.type[s] = "human" <=> (r.client[s] # NoOne \/ r.dropped[s])

(* What the comments promise of the two records: "a connection is in lobby  *)
(* state or attached to one game", and the slot table has the "client id in *)
(* each slot, -1 = none/ai/open".                                           *)
RecordsAgree ==
  /\ MembersAreThere
  /\ \A c \in Clients : status[c] = "game" => HasPlace(c)
  /\ \A i \in RoomIds : SlotsMatch(rooms[i])

(* The two records agree: who sits where by the room and by the client, and *)
(* what a slot is called with who is in it, whoever joins, is kicked, drops *)
(* or outlives a room.  Where a slot was retyped under somebody, what       *)
(* remains is that whoever a room has is there, and nowhere else; and no    *)
(* other room suffers from it.                                              *)
RecordsHold ==
  /\ LobbyTypes
  /\ MembersAreThere
  /\ \A c \in Clients : status[c] = "game" /\ roomOf[c] \notin retyped => HasPlace(c)
  /\ \A i \in RoomIds \ retyped : SlotsMatch(rooms[i])

(* A listed room that waits for its host to start it has one, and the host  *)
(* is there: a room nobody can start or close stays on the list for ever.   *)
HostIsThere ==
  \A i \in RoomIds \ retyped : rooms[i].phase = "lobby" /\ ~rooms[i].priv =>
    rooms[i].host \in MembersOf(rooms[i])

(* A player cut off from a running game is not out of it: the slot turns    *)
(* from a seat to a held slot, and from that to closed or to a seat again.  *)
(* One whose slot was retyped may be: it is given up like one who left.     *)
CutOffIsNotOut ==
  [][\A c \in Clients : status[c] = "game" /\ status'[c] = "gone" /\ seat[c] # NoOne =>
       (rooms[roomOf[c]].phase = "running" /\ roomOf[c] \notin retyped
          => rooms'[roomOf[c]].dropped[seat[c]])]_lobbyVars
=============================================================================
