---------------------------- MODULE LobbyProofs -----------------------------
(***************************************************************************)
(* That the rooms' record of who is where and the connections' own agree,  *)
(* that a listed room has its host in it, and that a lost connection keeps *)
(* its slot, for any number of connections, slots and rooms; and what is   *)
(* left of that in a room where an edit retyped a slot under somebody.     *)
(*                                                                         *)
(* The places are kept point by point (Agree), the rest room by room       *)
(* (Sound): that a held slot is empty and its game running, that before    *)
(* the start only a private game's host just watches it, and, unless the   *)
(* room is among the edited ones, what its slots are called and that the   *)
(* host sits in it.                                                        *)
(***************************************************************************)
EXTENDS Lobby, WellFoundedInduction, TLAPS

Room ==
  [phase : {"none", "lobby", "running"}, host : Clients \cup {NoOne}, mission : BOOLEAN,
   priv : BOOLEAN, type : [Seats -> Types], ready : [Seats -> BOOLEAN],
   client : [Seats -> Clients \cup {NoOne}], dropped : [Seats -> BOOLEAN],
   spectators : SUBSET Clients]

Shape ==
  /\ rooms \in [RoomIds -> Room]
  /\ nextRoom \in 1 .. (MaxRooms + 1)
  /\ status \in [Clients -> {"lobby", "game", "gone"}]
  /\ roomOf \in [Clients -> 0 .. MaxRooms]
  /\ seat \in [Clients -> Seats \cup {NoOne}]
  /\ retyped \subseteq RoomIds

(* Room i, as r, has connection c only where that says it is, which is in  *)
(* state st, in room in and in slot at; and, unless i is in ed, wherever   *)
(* that says it is.                                                        *)
AgreeOn(r, i, c, st, in, at, ed) ==
  /\ \A s \in Seats : r.client[s] = c => st = "game" /\ in = i /\ at = s
  /\ i \notin ed => \A s \in Seats : st = "game" /\ in = i /\ at = s => r.client[s] = c
  /\ c \in r.spectators <=> st = "game" /\ in = i /\ at = NoOne

Agree ==
  /\ \A c \in Clients : status[c] = "game" => roomOf[c] # 0
  /\ \A i \in RoomIds : \A c \in Clients :
       AgreeOn(rooms[i], i, c, status[c], roomOf[c], seat[c], retyped)

TypesFit(r) == \A s \in Seats : r.type[s] = "human" <=> r.client[s] # NoOne \/ r.dropped[s]
HeldIsEmpty(r) == \A s \in Seats : r.dropped[s] => r.client[s] = NoOne /\ r.phase = "running"
OnlyHostWatches(r) == r.phase = "lobby" /\ r.spectators # {} => r.priv /\ r.spectators = {r.host}
HostSits(r) == r.phase = "lobby" /\ ~r.priv => \E s \in Seats : r.client[s] = r.host /\ r.host # NoOne
Sound(r, i, ed) ==
  /\ HeldIsEmpty(r) /\ OnlyHostWatches(r)
  /\ r.phase = "none" => r = NoRoom
  /\ i \notin ed => TypesFit(r) /\ HostSits(r)

Fresh == \A i \in RoomIds : i >= nextRoom => rooms[i].phase = "none" /\ i \notin retyped

LobbyInv == Shape /\ Agree /\ (\A i \in RoomIds : Sound(rooms[i], i, retyped)) /\ Fresh

-----------------------------------------------------------------------------
(* The lowest of some slots is one of them. *)
LEMMA MinIsIn == ASSUME NEW S \in SUBSET Seats, S # {} PROVE Min(S) \in S
<1>1. S \subseteq Nat
  BY LobbyAssumption
<1>2. PICK x \in S : \A y \in S : ~(<<y, x>> \in OpToRel(<, Nat))
  BY <1>1, NatLessThanWellFounded, WFMin
<1>3. \A y, z \in Nat : <<y, z>> \in OpToRel(<, Nat) <=> y < z
  BY Zenon DEF OpToRel
<1>4. \A y \in S : x =< y
  <2> TAKE y \in S
  <2>1. y \in Nat /\ x \in Nat
    BY <1>1
  <2>2. ~(y < x)
    BY <1>2, <1>3, <2>1
  <2> QED BY <2>1, <2>2
<1> QED BY <1>4 DEF Min

LEMMA NoRoomIsSound ==
  ASSUME NEW i, NEW ed
  PROVE  NoRoom \in Room /\ Sound(NoRoom, i, ed)
BY DEF NoRoom, Room, Sound, TypesFit, HeldIsEmpty, OnlyHostWatches, HostSits, Types

LEMMA LobbyStarts == LobbyInit => LobbyInv
<1> SUFFICES ASSUME LobbyInit PROVE LobbyInv
  OBVIOUS
<1>1. Shape
  <2>1. rooms \in [RoomIds -> Room]
    BY NoRoomIsSound DEF LobbyInit
  <2> QED BY <2>1, LobbyAssumption DEF LobbyInit, Shape
<1>4. Fresh
  BY DEF LobbyInit, Fresh, NoRoom
<1>2. Agree
  BY LobbyAssumption DEF LobbyInit, Agree, AgreeOn, NoRoom
<1>3. \A i \in RoomIds : Sound(rooms[i], i, retyped)
  BY NoRoomIsSound DEF LobbyInit
<1> QED BY <1>1, <1>2, <1>3, <1>4 DEF LobbyInv

-----------------------------------------------------------------------------
(* Everybody but c stays; and room i, as r, has nobody else whom it had    *)
(* not, and keeps whom it had unless it is edited.                         *)
OthersStay(c) ==
  \A d \in Clients \ {c} :
    status'[d] = status[d] /\ roomOf'[d] = roomOf[d] /\ seat'[d] = seat[d]

HasOthers(r, i, c) ==
  \A d \in Clients \ {c} :
    /\ \A s \in Seats : r.client[s] = d => rooms[i].client[s] = d
    /\ i \notin retyped => \A s \in Seats : rooms[i].client[s] = d => r.client[s] = d
    /\ d \in r.spectators <=> d \in rooms[i].spectators

(* A step that changes one room, and the place of one connection or none:  *)
(* the room has everybody else where it had them, and c where c now is.    *)
LEMMA OneRoomChanges ==
  ASSUME LobbyInv, NEW i \in RoomIds, NEW r \in Room, Sound(r, i, retyped), NEW c \in Clients,
         rooms' = [rooms EXCEPT ![i] = r], i < nextRoom', retyped' = retyped,
         nextRoom' \in nextRoom .. (MaxRooms + 1), Shape',
         OthersStay(c), HasOthers(r, i, c),
         status'[c] = "game" => roomOf'[c] # 0,
         AgreeOn(r, i, c, status'[c], roomOf'[c], seat'[c], retyped),
         \A j \in RoomIds \ {i} : AgreeOn(rooms[j], j, c, status'[c], roomOf'[c], seat'[c], retyped)
  PROVE  LobbyInv'
<1>1. Agree'
  <2>1. \A d \in Clients : status'[d] = "game" => roomOf'[d] # 0
    BY DEF LobbyInv, Agree, OthersStay
  <2>2. ASSUME NEW j \in RoomIds, NEW d \in Clients
        PROVE  AgreeOn(rooms'[j], j, d, status'[d], roomOf'[d], seat'[d], retyped')
    <3>1. rooms'[j] = IF j = i THEN r ELSE rooms[j]
      BY DEF LobbyInv, Shape
    <3>2. AgreeOn(rooms[j], j, d, status[d], roomOf[d], seat[d], retyped)
      BY DEF LobbyInv, Agree
    <3>3. CASE d = c
      <4>1. CASE j = i
        BY <3>1, <3>3, <4>1
      <4> QED BY <3>1, <3>3, <4>1
    <3>4. CASE d # c
      BY <3>1, <3>2, <3>4 DEF AgreeOn, OthersStay, HasOthers
    <3> QED BY <3>3, <3>4
  <2> QED BY <2>1, <2>2 DEF Agree
<1>2. \A j \in RoomIds : Sound(rooms'[j], j, retyped')
  BY DEF LobbyInv, Shape
<1>3. Fresh'
  BY DEF LobbyInv, Shape, Fresh, RoomIds
<1> QED BY <1>1, <1>2, <1>3 DEF LobbyInv

(* A connection that is in a game names a room; the room is there unless   *)
(* it was edited.                                                          *)
LEMMA Attached ==
  ASSUME LobbyInv, NEW c \in Clients, status[c] = "game"
  PROVE  /\ roomOf[c] \in RoomIds /\ rooms[roomOf[c]] \in Room
         /\ Sound(rooms[roomOf[c]], roomOf[c], retyped)
         /\ AgreeOn(rooms[roomOf[c]], roomOf[c], c, status[c], roomOf[c], seat[c], retyped)
         /\ seat[c] \in Seats \cup {NoOne}
         /\ roomOf[c] \notin retyped => InRoom(c)
         /\ InRoom(c) => rooms[roomOf[c]].phase # "none" /\ roomOf[c] < nextRoom
<1>1. roomOf[c] \in RoomIds
  BY LobbyAssumption DEF LobbyInv, Shape, Agree, RoomIds
<1>2. /\ rooms[roomOf[c]] \in Room /\ seat[c] \in Seats \cup {NoOne}
      /\ Sound(rooms[roomOf[c]], roomOf[c], retyped)
      /\ AgreeOn(rooms[roomOf[c]], roomOf[c], c, status[c], roomOf[c], seat[c], retyped)
  BY <1>1 DEF LobbyInv, Shape, Agree
<1>3. ASSUME roomOf[c] \notin retyped PROVE rooms[roomOf[c]].phase # "none"
  <2>1. rooms[roomOf[c]] # NoRoom
    <3>1. CASE seat[c] = NoOne
      BY <1>2, <3>1 DEF AgreeOn, NoRoom
    <3>2. CASE seat[c] \in Seats
      <4>1. rooms[roomOf[c]].client[seat[c]] = c
        BY <1>2, <1>3, <3>2 DEF AgreeOn
      <4>2. NoRoom.client[seat[c]] = NoOne
        BY <3>2 DEF NoRoom
      <4> QED BY <4>1, <4>2, LobbyAssumption
    <3> QED BY <1>2, <3>1, <3>2
  <2> QED BY <1>2, <2>1 DEF Sound
<1>4. ASSUME rooms[roomOf[c]].phase # "none" PROVE roomOf[c] < nextRoom
  BY <1>1, <1>4 DEF LobbyInv, Fresh, Shape, RoomIds
<1>5. roomOf[c] # 0
  BY <1>1 DEF RoomIds
<1> QED BY <1>1, <1>2, <1>3, <1>4, <1>5 DEF InRoom

(* Nobody goes anywhere; one room may become one of the edited.            *)
LEMMA StayingKeeps ==
  ASSUME LobbyInv, NEW i \in RoomIds, NEW r \in Room, Sound(r, i, retyped'),
         rooms[i].phase # "none", rooms' = [rooms EXCEPT ![i] = r],
         r.client = rooms[i].client, r.spectators = rooms[i].spectators,
         retyped' \in {retyped, retyped \cup {i}}, UNCHANGED <<nextRoom, clientVars>>
  PROVE  LobbyInv'
<1>1. \A j \in RoomIds : rooms'[j] = IF j = i THEN r ELSE rooms[j]
  BY DEF LobbyInv, Shape
<1>2. Shape'
  BY DEF LobbyInv, Shape, clientVars
<1>3. \A j : j \notin retyped' => j \notin retyped
  OBVIOUS
<1>4. Agree'
  BY <1>1, <1>3 DEF LobbyInv, Agree, AgreeOn, clientVars
<1>5. Fresh'
  BY <1>1 DEF LobbyInv, Fresh, clientVars, Shape, RoomIds
<1>6. ASSUME NEW j \in RoomIds PROVE Sound(rooms'[j], j, retyped')
  <2>1. CASE j = i
    BY <1>1, <2>1
  <2>2. CASE j # i
    BY <1>1, <1>3, <2>2 DEF LobbyInv, Sound
  <2> QED BY <2>1, <2>2
<1> QED BY <1>2, <1>4, <1>5, <1>6 DEF LobbyInv

(* One that is in the lobby takes a slot, a free one unless the room is    *)
(* edited, or watches.                                                     *)
LEMMA EnteringKeeps ==
  ASSUME LobbyInv, NEW c \in Clients, status[c] = "lobby",
         NEW i \in RoomIds, NEW r \in Room, Sound(r, i, retyped),
         NEW s \in Seats \cup {NoOne}, Enter(c, i, s),
         rooms' = [rooms EXCEPT ![i] = r], i < nextRoom', retyped' = retyped,
         nextRoom' \in nextRoom .. (MaxRooms + 1),
         \/ /\ s # NoOne /\ (i \notin retyped => rooms[i].client[s] = NoOne)
            /\ r.client = [rooms[i].client EXCEPT ![s] = c]
            /\ r.spectators = rooms[i].spectators
         \/ /\ s = NoOne /\ r.client = rooms[i].client
            /\ r.spectators = rooms[i].spectators \cup {c}
  PROVE  LobbyInv'
<1>1. Shape'
  BY DEF LobbyInv, Shape, Enter, RoomIds
<1>2. status'[c] = "game" /\ roomOf'[c] = i /\ seat'[c] = s /\ OthersStay(c)
  BY DEF LobbyInv, Shape, Enter, OthersStay
<1>3. \A j \in RoomIds : AgreeOn(rooms[j], j, c, status[c], roomOf[c], seat[c], retyped)
  BY DEF LobbyInv, Agree
<1>4. rooms[i].client \in [Seats -> Clients \cup {NoOne}]
  BY DEF LobbyInv, Shape, Room
<1>5. HasOthers(r, i, c)
  BY <1>4, LobbyAssumption DEF HasOthers
<1>6. AgreeOn(r, i, c, status'[c], roomOf'[c], seat'[c], retyped)
  <2>1. \A t \in Seats : rooms[i].client[t] # c
    BY <1>3 DEF AgreeOn
  <2>2. c \notin rooms[i].spectators
    BY <1>3 DEF AgreeOn
  <2> QED BY <1>2, <1>4, <2>1, <2>2, LobbyAssumption DEF AgreeOn
<1>7. \A j \in RoomIds \ {i} : AgreeOn(rooms[j], j, c, status'[c], roomOf'[c], seat'[c], retyped)
  BY <1>2, <1>3 DEF AgreeOn, LobbyInv, Shape
<1>8. roomOf'[c] # 0
  BY <1>2 DEF RoomIds
<1> QED BY <1>1, <1>2, <1>5, <1>6, <1>7, <1>8, OneRoomChanges

(* One that is in a room is taken out of it.                               *)
LEMMA LeavingKeeps ==
  ASSUME LobbyInv, NEW c \in Clients, InRoom(c), NEW st \in {"lobby", "gone"}, Exit(c, st),
         NEW r \in Room, Sound(r, roomOf[c], retyped), rooms' = [rooms EXCEPT ![roomOf[c]] = r],
         \A s \in Seats : r.client[s] = IF s = seat[c] THEN NoOne ELSE rooms[roomOf[c]].client[s],
         r.spectators = rooms[roomOf[c]].spectators \ {c},
         UNCHANGED <<nextRoom, retyped>>
  PROVE  LobbyInv'
<1> DEFINE i == roomOf[c]
<1>1. status[c] = "game" /\ i \in RoomIds /\ i < nextRoom
  BY Attached DEF InRoom
<1>2. Shape'
  BY <1>1, LobbyAssumption DEF LobbyInv, Shape, Exit
<1>3. status'[c] = st /\ status'[c] # "game" /\ OthersStay(c)
  BY DEF LobbyInv, Shape, Exit, OthersStay
<1>4. \A j \in RoomIds : \A d \in Clients :
        AgreeOn(rooms[j], j, d, status[d], roomOf[d], seat[d], retyped)
  BY DEF LobbyInv, Agree
<1>5. HasOthers(r, i, c)
  <2> SUFFICES ASSUME NEW d \in Clients \ {c}
               PROVE  /\ \A t \in Seats : r.client[t] = d => rooms[i].client[t] = d
                      /\ i \notin retyped => \A t \in Seats : rooms[i].client[t] = d => r.client[t] = d
                      /\ d \in r.spectators <=> d \in rooms[i].spectators
    BY DEF HasOthers
  <2>1. \A t \in Seats : r.client[t] = d => rooms[i].client[t] = d
    BY LobbyAssumption
  <2>2. ASSUME i \notin retyped, NEW t \in Seats, t = seat[c] PROVE rooms[i].client[t] = c
    BY <1>1, <1>4, <2>2 DEF AgreeOn
  <2> QED BY <2>1, <2>2
<1>6. AgreeOn(r, i, c, status'[c], roomOf'[c], seat'[c], retyped)
  <2>1. AgreeOn(rooms[i], i, c, status[c], roomOf[c], seat[c], retyped)
    BY <1>1, <1>4
  <2> QED BY <1>1, <1>3, <2>1, LobbyAssumption DEF AgreeOn
<1>7. \A j \in RoomIds \ {i} : AgreeOn(rooms[j], j, c, status'[c], roomOf'[c], seat'[c], retyped)
  BY <1>3, <1>4 DEF AgreeOn, LobbyInv, Shape
<1>8. nextRoom' \in nextRoom .. (MaxRooms + 1)
  BY LobbyAssumption DEF LobbyInv, Shape
<1>9. OthersStay(c)
  BY <1>3
<1>10. i < nextRoom' /\ rooms' = [rooms EXCEPT ![i] = r] /\ retyped' = retyped
  BY <1>1
<1>11. LobbyInv /\ i \in RoomIds /\ r \in Room /\ Sound(r, i, retyped)
  BY <1>1
<1>12. status'[c] = "game" => roomOf'[c] # 0
  BY <1>3
<1> HIDE DEF i
<1> QED BY <1>2, <1>5, <1>6, <1>7, <1>8, <1>9, <1>10, <1>11, <1>12, OneRoomChanges

-----------------------------------------------------------------------------
(* What the operations make of a room. *)

LEMMA SeatedIsSound ==
  ASSUME NEW r \in Room, NEW i, NEW ed, Sound(r, i, ed), NEW s \in Seats, NEW c \in Clients,
         r.phase = "lobby", i \notin ed => r.client[s] = NoOne
  PROVE  /\ SeatedIn(r, s, c) \in Room /\ Sound(SeatedIn(r, s, c), i, ed)
         /\ SeatedIn(r, s, c).client = [r.client EXCEPT ![s] = c]
         /\ SeatedIn(r, s, c).spectators = r.spectators
<1> DEFINE q == SeatedIn(r, s, c)
<1>1. /\ q \in Room
      /\ q.client = [r.client EXCEPT ![s] = c] /\ q.type = [r.type EXCEPT ![s] = "human"]
      /\ q.phase = r.phase /\ q.dropped = r.dropped /\ q.spectators = r.spectators
      /\ q.host = r.host /\ q.priv = r.priv
  BY DEF SeatedIn, Room, Types
<1>2. r.client \in [Seats -> Clients \cup {NoOne}] /\ r.type \in [Seats -> Types]
  BY DEF Room
<1> HIDE DEF q
<1>3. HeldIsEmpty(q) /\ OnlyHostWatches(q)
  BY <1>1, <1>2 DEF Sound, HeldIsEmpty, OnlyHostWatches
<1>4. ASSUME i \notin ed PROVE TypesFit(q) /\ HostSits(q)
  <2>1. r.client[s] = NoOne /\ TypesFit(r) /\ HostSits(r)
    BY <1>4 DEF Sound
  <2>2. TypesFit(q)
    BY <1>1, <1>2, <2>1, LobbyAssumption DEF TypesFit
  <2>3. HostSits(q)
    BY <1>1, <1>2, <2>1 DEF HostSits
  <2> QED BY <2>2, <2>3
<1>5. Sound(q, i, ed)
  BY <1>1, <1>3, <1>4 DEF Sound
<1> QED BY <1>1, <1>5 DEF q

LEMMA ReseatedIsSound ==
  ASSUME NEW r \in Room, NEW i, NEW ed, Sound(r, i, ed), NEW s \in Seats, NEW c \in Clients,
         r.dropped[s]
  PROVE  /\ Reseated(r, s, c) \in Room /\ Sound(Reseated(r, s, c), i, ed)
         /\ Reseated(r, s, c).client = [r.client EXCEPT ![s] = c]
         /\ Reseated(r, s, c).spectators = r.spectators
         /\ r.client[s] = NoOne /\ r.phase = "running"
<1> DEFINE q == Reseated(r, s, c)
<1>1. /\ q \in Room
      /\ q.client = [r.client EXCEPT ![s] = c] /\ q.type = r.type
      /\ q.phase = r.phase /\ q.dropped = [r.dropped EXCEPT ![s] = FALSE]
      /\ q.spectators = r.spectators
  BY DEF Reseated, Room
<1>2. r.client \in [Seats -> Clients \cup {NoOne}] /\ r.dropped \in [Seats -> BOOLEAN]
  BY DEF Room
<1>3. r.client[s] = NoOne /\ r.phase = "running"
  BY DEF Sound, HeldIsEmpty
<1> HIDE DEF q
<1>4. HeldIsEmpty(q) /\ (i \notin ed => TypesFit(q))
  BY <1>1, <1>2, <1>3, LobbyAssumption DEF Sound, TypesFit, HeldIsEmpty
<1>5. Sound(q, i, ed)
  BY <1>1, <1>3, <1>4 DEF Sound, OnlyHostWatches, HostSits
<1> QED BY <1>1, <1>3, <1>5 DEF q

(* A slot that was given up; who the host is remains to be seen. *)
LEMMA VacatedFits ==
  ASSUME NEW r \in Room, NEW i, NEW ed, Sound(r, i, ed), NEW s \in Seats, r.phase # "none",
         i \notin ed => r.client[s] # NoOne
  PROVE  /\ Vacated(r, s) \in Room
         /\ i \notin ed => TypesFit(Vacated(r, s))
         /\ HeldIsEmpty(Vacated(r, s))
         /\ OnlyHostWatches(Vacated(r, s)) /\ Vacated(r, s).phase # "none"
         /\ Vacated(r, s).client = [r.client EXCEPT ![s] = NoOne]
         /\ Vacated(r, s).spectators = r.spectators
         /\ Vacated(r, s).host = r.host /\ Vacated(r, s).priv = r.priv
         /\ Vacated(r, s).phase = r.phase
<1> DEFINE q == Vacated(r, s)
<1>1. /\ q \in Room
      /\ q.client = [r.client EXCEPT ![s] = NoOne]
      /\ q.type = [r.type EXCEPT ![s] = IF r.phase = "running" THEN "closed" ELSE "open"]
      /\ q.phase = r.phase /\ q.dropped = r.dropped /\ q.spectators = r.spectators
      /\ q.host = r.host /\ q.priv = r.priv
  BY DEF Vacated, Room, Types
<1>2. r.client \in [Seats -> Clients \cup {NoOne}] /\ r.type \in [Seats -> Types]
  BY DEF Room
<1> HIDE DEF q
<1>3. HeldIsEmpty(q) /\ OnlyHostWatches(q)
  BY <1>1, <1>2 DEF Sound, HeldIsEmpty, OnlyHostWatches
<1>4. ASSUME i \notin ed PROVE TypesFit(q)
  <2>1. r.client[s] # NoOne /\ TypesFit(r) /\ HeldIsEmpty(r)
    BY <1>4 DEF Sound
  <2> QED BY <1>1, <1>2, <2>1 DEF TypesFit, HeldIsEmpty
<1> QED BY <1>1, <1>3, <1>4 DEF q

(* A room after one has left it, whichever way. *)
LEMMA WithoutIsSound ==
  ASSUME LobbyInv, NEW c \in Clients, InRoom(c), NEW r, r = rooms[roomOf[c]]
  PROVE  /\ Without(r, c) \in Room /\ Sound(Without(r, c), roomOf[c], retyped)
         /\ \A s \in Seats : Without(r, c).client[s] = IF s = seat[c] THEN NoOne ELSE r.client[s]
         /\ Without(r, c).spectators = r.spectators \ {c}
<1> DEFINE i == roomOf[c]
<1>1. /\ r \in Room /\ Sound(r, i, retyped) /\ r.phase # "none" /\ status[c] = "game"
      /\ AgreeOn(r, i, c, status[c], roomOf[c], seat[c], retyped)
      /\ seat[c] \in Seats \cup {NoOne}
  BY Attached DEF InRoom
<1>3. CASE seat[c] = NoOne
  <2>1. c \in r.spectators
    BY <1>1, <1>3 DEF AgreeOn
  <2> DEFINE q == [r EXCEPT !.spectators = @ \ {c}]
  <2>2. Without(r, c) = q
    BY <2>1 DEF Without
  <2>3. /\ q \in Room /\ q.client = r.client /\ q.type = r.type /\ q.phase = r.phase
        /\ q.dropped = r.dropped /\ q.spectators = r.spectators \ {c}
        /\ q.host = r.host /\ q.priv = r.priv
    BY <1>1 DEF Room
  <2> HIDE DEF q
  <2>4. HeldIsEmpty(q) /\ (i \notin retyped => TypesFit(q) /\ HostSits(q))
    BY <1>1, <2>3 DEF Sound, TypesFit, HeldIsEmpty, HostSits
  <2>5. OnlyHostWatches(q)
    BY <1>1, <2>1, <2>3 DEF Sound, OnlyHostWatches
  <2>6. Sound(q, i, retyped)
    BY <1>1, <2>3, <2>4, <2>5 DEF Sound
  <2> QED BY <1>3, <2>2, <2>3, <2>6, LobbyAssumption
<1>4. CASE seat[c] \in Seats
  <2> DEFINE q == Vacated(r, seat[c])
  <2>1. /\ c \notin r.spectators /\ seat[c] # NoOne
        /\ i \notin retyped => r.client[seat[c]] = c
    BY <1>1, <1>4, LobbyAssumption DEF AgreeOn
  <2>2. /\ q \in Room /\ (i \notin retyped => TypesFit(q)) /\ HeldIsEmpty(q) /\ OnlyHostWatches(q)
        /\ q.client = [r.client EXCEPT ![seat[c]] = NoOne] /\ q.spectators = r.spectators
        /\ q.host = r.host /\ q.priv = r.priv /\ q.phase = r.phase
    <3>1. i \notin retyped => r.client[seat[c]] # NoOne
      BY <2>1, LobbyAssumption
    <3>2. r \in Room /\ Sound(r, i, retyped) /\ r.phase # "none" /\ seat[c] \in Seats
      BY <1>1, <1>4
    <3> HIDE DEF i, q
    <3>3. /\ Vacated(r, seat[c]) \in Room
          /\ i \notin retyped => TypesFit(Vacated(r, seat[c]))
          /\ HeldIsEmpty(Vacated(r, seat[c])) /\ OnlyHostWatches(Vacated(r, seat[c]))
          /\ Vacated(r, seat[c]).client = [r.client EXCEPT ![seat[c]] = NoOne]
          /\ Vacated(r, seat[c]).spectators = r.spectators
          /\ Vacated(r, seat[c]).host = r.host /\ Vacated(r, seat[c]).priv = r.priv
          /\ Vacated(r, seat[c]).phase = r.phase
      BY <3>1, <3>2, VacatedFits
    <3> QED BY <3>3 DEF q
  <2>3. r.client \in [Seats -> Clients \cup {NoOne}]
    BY <1>1 DEF Room
  <2>4. Without(r, c) = IF r.phase = "lobby" /\ r.host = c THEN PassHost(q) ELSE q
    BY <2>1 DEF Without
  <2> HIDE DEF q
  <2>5. CASE ~(r.phase = "lobby" /\ r.host = c)
    <3>1. i \notin retyped => HostSits(q)
      BY <1>1, <2>1, <2>2, <2>3, <2>5 DEF Sound, HostSits
    <3>2. Sound(q, i, retyped)
      BY <1>1, <2>2, <3>1 DEF Sound
    <3> QED BY <1>4, <2>1, <2>2, <2>3, <2>4, <2>5, <3>2
  <2>6. CASE r.phase = "lobby" /\ r.host = c
    <3>1. r.spectators = {}
      BY <1>1, <2>1, <2>6 DEF Sound, OnlyHostWatches
    <3> DEFINE taken == {s \in Seats : q.client[s] # NoOne}
    <3>2. CASE taken = {}
      <4>1. Without(r, c) = NoRoom
        BY <2>4, <2>6, <3>2 DEF PassHost
      <4>2. NoRoom.spectators = {} /\ \A s \in Seats : NoRoom.client[s] = NoOne
        BY DEF NoRoom
      <4>3. \A s \in Seats : s # seat[c] => r.client[s] = NoOne
        BY <1>4, <2>2, <2>3, <3>2
      <4> QED BY <3>1, <4>1, <4>2, <4>3, NoRoomIsSound
    <3>3. CASE taken # {}
      <4>1. Min(taken) \in taken
        BY <3>3, MinIsIn
      <4> DEFINE p == [q EXCEPT !.host = q.client[Min(taken)]]
      <4>2. Without(r, c) = p
        BY <2>4, <2>6, <3>3 DEF PassHost
      <4>3. q.client[Min(taken)] # NoOne /\ q.client[Min(taken)] \in Clients
        BY <2>2, <2>3, <4>1 DEF Room
      <4>4. /\ p \in Room /\ p.client = q.client /\ p.type = q.type /\ p.phase = q.phase
            /\ p.dropped = q.dropped /\ p.spectators = q.spectators
            /\ p.host = q.client[Min(taken)] /\ p.priv = q.priv
        BY <2>2, <4>3 DEF Room
      <4> HIDE DEF p
      <4>5. (i \notin retyped => TypesFit(p)) /\ HeldIsEmpty(p) /\ OnlyHostWatches(p)
        BY <2>2, <3>1, <4>4 DEF TypesFit, HeldIsEmpty, OnlyHostWatches
      <4>6. HostSits(p)
        BY <4>1, <4>3, <4>4 DEF HostSits
      <4>7. Sound(p, i, retyped)
        BY <2>2, <2>6, <4>4, <4>5, <4>6 DEF Sound
      <4> QED BY <1>4, <2>1, <2>2, <2>3, <4>2, <4>4, <4>7
    <3> QED BY <3>2, <3>3
  <2> QED BY <2>5, <2>6
<1> QED BY <1>1, <1>3, <1>4

-----------------------------------------------------------------------------
(* The actions. *)

LEMMA CreateKeeps ==
  ASSUME LobbyInv, NEW c \in Clients, NEW mission \in BOOLEAN, NEW watch \in BOOLEAN,
         CreateGame(c, mission, watch)
  PROVE  LobbyInv'
<1>1. /\ nextRoom \in RoomIds /\ status[c] = "lobby"
      /\ nextRoom < nextRoom' /\ nextRoom' \in nextRoom .. (MaxRooms + 1)
      /\ retyped' = retyped
  BY LobbyAssumption DEF CreateGame, LobbyInv, Shape, RoomIds
<1>2. rooms[nextRoom].phase = "none" /\ rooms[nextRoom] = NoRoom
  BY <1>1 DEF LobbyInv, Fresh, Sound, Shape
<1>3. NoRoom.client = [s \in Seats |-> NoOne] /\ NoRoom.spectators = {}
  BY DEF NoRoom
<1> DEFINE r == NewRoom(c, mission)
<1>4. /\ r \in Room /\ r.phase = "lobby" /\ r.host = c /\ r.priv = FALSE /\ r.spectators = {}
      /\ r.client = [s \in Seats |-> NoOne] /\ r.dropped = [s \in Seats |-> FALSE]
      /\ \A s \in Seats : r.type[s] \in {"open", "closed"}
  BY DEF NewRoom, NoRoom, Room, Types
<1>5. TypesFit(r) /\ HeldIsEmpty(r)
  BY <1>4 DEF TypesFit, HeldIsEmpty
<1> HIDE DEF r
<1>6. CASE watch
  <2> DEFINE q == [r EXCEPT !.priv = TRUE, !.spectators = {c}]
  <2>1. rooms' = [rooms EXCEPT ![nextRoom] = q] /\ Enter(c, nextRoom, NoOne)
    BY <1>6 DEF CreateGame, r
  <2>2. /\ q \in Room /\ q.client = r.client /\ q.type = r.type /\ q.phase = r.phase
        /\ q.dropped = r.dropped /\ q.spectators = {c} /\ q.host = c /\ q.priv = TRUE
    BY <1>4 DEF Room
  <2> HIDE DEF q
  <2>3. Sound(q, nextRoom, retyped)
    BY <1>4, <1>5, <2>2 DEF Sound, TypesFit, HeldIsEmpty, OnlyHostWatches, HostSits
  <2>4. q.client = rooms[nextRoom].client /\ q.spectators = rooms[nextRoom].spectators \cup {c}
    BY <1>2, <1>3, <1>4, <2>2
  <2> QED BY <1>1, <2>1, <2>2, <2>3, <2>4, EnteringKeeps
<1>7. CASE ~watch
  <2> DEFINE s == Min(Seats)
             q == SeatedIn(r, s, c)
  <2>1. s \in Seats
    BY MinIsIn, LobbyAssumption
  <2>2. rooms' = [rooms EXCEPT ![nextRoom] = q] /\ Enter(c, nextRoom, s)
    BY <1>7 DEF CreateGame, r
  <2> HIDE DEF s
  <2>3. /\ q \in Room /\ q.client = [r.client EXCEPT ![s] = c] /\ q.type = [r.type EXCEPT ![s] = "human"]
        /\ q.phase = "lobby" /\ q.dropped = r.dropped /\ q.spectators = {} /\ q.host = c
    BY <1>4, <2>1 DEF SeatedIn, Room, Types
  <2> HIDE DEF q
  <2>4. r.client \in [Seats -> Clients \cup {NoOne}] /\ r.type \in [Seats -> Types]
    BY <1>4 DEF Room
  <2>5. TypesFit(q) /\ HeldIsEmpty(q)
    BY <1>4, <1>5, <2>1, <2>3, <2>4, LobbyAssumption DEF TypesFit, HeldIsEmpty
  <2>6. HostSits(q) /\ OnlyHostWatches(q)
    BY <2>1, <2>3, <2>4, LobbyAssumption DEF HostSits, OnlyHostWatches
  <2>7. Sound(q, nextRoom, retyped)
    BY <2>3, <2>5, <2>6 DEF Sound
  <2>8. /\ q.client = [rooms[nextRoom].client EXCEPT ![s] = c] /\ s # NoOne
        /\ rooms[nextRoom].client[s] = NoOne /\ q.spectators = rooms[nextRoom].spectators
    BY <1>2, <1>3, <1>4, <2>1, <2>3, LobbyAssumption
  <2> QED BY <1>1, <2>1, <2>2, <2>3, <2>7, <2>8, EnteringKeeps
<1> QED BY <1>6, <1>7

LEMMA EntersRunningOrLobby ==
  ASSUME LobbyInv, NEW i \in RoomIds, rooms[i].phase # "none"
  PROVE  /\ i < nextRoom /\ rooms[i] \in Room /\ Sound(rooms[i], i, retyped)
         /\ nextRoom \in nextRoom .. (MaxRooms + 1)
BY LobbyAssumption DEF LobbyInv, Shape, Fresh, RoomIds

LEMMA JoinKeeps ==
  ASSUME LobbyInv, NEW c \in Clients, NEW i \in RoomIds, JoinGame(c, i)
  PROVE  LobbyInv'
<1> DEFINE free == {s \in Seats : rooms[i].type[s] = "open"}
           s == Min(free)
           q == SeatedIn(rooms[i], s, c)
<1>1. /\ status[c] = "lobby" /\ rooms[i].phase = "lobby" /\ UNCHANGED <<nextRoom, retyped>>
      /\ free # {} /\ rooms' = [rooms EXCEPT ![i] = q] /\ Enter(c, i, s)
  BY DEF JoinGame
<1>2. s \in free
  BY <1>1, MinIsIn
<1>3. /\ i < nextRoom' /\ nextRoom' \in nextRoom .. (MaxRooms + 1)
      /\ rooms[i] \in Room /\ Sound(rooms[i], i, retyped)
  BY <1>1, EntersRunningOrLobby
<1>4. s \in Seats /\ s # NoOne /\ (i \notin retyped => rooms[i].client[s] = NoOne)
  BY <1>2, <1>3, LobbyAssumption DEF Sound, TypesFit
<1> HIDE DEF s
<1>5. /\ q \in Room /\ Sound(q, i, retyped) /\ q.client = [rooms[i].client EXCEPT ![s] = c]
      /\ q.spectators = rooms[i].spectators
  BY <1>1, <1>3, <1>4, SeatedIsSound
<1> HIDE DEF q, free
<1> QED BY <1>1, <1>3, <1>4, <1>5, EnteringKeeps

LEMMA RejoinKeeps ==
  ASSUME LobbyInv, NEW c \in Clients, NEW i \in RoomIds, NEW s \in Seats, LobbyRejoin(c, i, s)
  PROVE  LobbyInv'
<1> DEFINE q == Reseated(rooms[i], s, c)
<1>1. /\ status[c] = "lobby" /\ rooms[i].phase = "running" /\ UNCHANGED <<nextRoom, retyped>>
      /\ rooms[i].dropped[s] /\ rooms' = [rooms EXCEPT ![i] = q] /\ Enter(c, i, s)
  BY DEF LobbyRejoin
<1>2. /\ i < nextRoom' /\ nextRoom' \in nextRoom .. (MaxRooms + 1)
      /\ rooms[i] \in Room /\ Sound(rooms[i], i, retyped)
  BY <1>1, EntersRunningOrLobby
<1>3. /\ q \in Room /\ Sound(q, i, retyped) /\ q.client = [rooms[i].client EXCEPT ![s] = c]
      /\ q.spectators = rooms[i].spectators /\ rooms[i].client[s] = NoOne /\ s # NoOne
  BY <1>1, <1>2, ReseatedIsSound, LobbyAssumption
<1> HIDE DEF q
<1> QED BY <1>1, <1>2, <1>3, EnteringKeeps

LEMMA SpectateKeeps ==
  ASSUME LobbyInv, NEW c \in Clients, NEW i \in RoomIds, LobbySpectate(c, i)
  PROVE  LobbyInv'
<1> DEFINE q == [rooms[i] EXCEPT !.spectators = @ \cup {c}]
<1>1. /\ status[c] = "lobby" /\ rooms[i].phase = "running" /\ UNCHANGED <<nextRoom, retyped>>
      /\ Enter(c, i, NoOne)
  BY DEF LobbySpectate
<1>2. /\ i < nextRoom' /\ nextRoom' \in nextRoom .. (MaxRooms + 1)
      /\ rooms[i] \in Room /\ Sound(rooms[i], i, retyped)
  BY <1>1, EntersRunningOrLobby
<1>3. rooms' = [rooms EXCEPT ![i] = q]
  BY DEF LobbySpectate
<1>4. /\ q \in Room /\ q.client = rooms[i].client /\ q.type = rooms[i].type
      /\ q.phase = "running" /\ q.dropped = rooms[i].dropped
      /\ q.spectators = rooms[i].spectators \cup {c}
  BY <1>1, <1>2 DEF Room
<1> HIDE DEF q
<1>5. Sound(q, i, retyped)
  BY <1>1, <1>2, <1>4 DEF Sound, TypesFit, HeldIsEmpty, OnlyHostWatches, HostSits
<1> QED BY <1>1, <1>2, <1>3, <1>4, <1>5, EnteringKeeps

LEMMA EditOwnKeeps ==
  ASSUME LobbyInv, NEW c \in Clients, NEW ready \in BOOLEAN, EditOwn(c, ready)
  PROVE  LobbyInv'
<1> DEFINE i == roomOf[c]
           s == seat[c]
           r == rooms[i]
           q == [r EXCEPT !.type[s] = IF c = r.host THEN "human" ELSE @, !.ready[s] = ready]
<1>1. /\ status[c] = "game" /\ r.phase = "lobby" /\ s # NoOne
      /\ UNCHANGED <<nextRoom, clientVars, retyped>>
  BY DEF EditOwn, InRoom
<1>2. /\ i \in RoomIds /\ r \in Room /\ Sound(r, i, retyped) /\ s \in Seats
      /\ AgreeOn(r, i, c, status[c], roomOf[c], seat[c], retyped)
  BY <1>1, Attached
<1>3. rooms' = [rooms EXCEPT ![i] = q]
  BY <1>2 DEF EditOwn, LobbyInv, Shape, Room
<1>4. /\ q \in Room /\ q.client = r.client /\ q.phase = r.phase
      /\ q.dropped = r.dropped /\ q.spectators = r.spectators /\ q.host = r.host /\ q.priv = r.priv
      /\ q.type = [r.type EXCEPT ![s] = IF c = r.host THEN "human" ELSE r.type[s]]
  BY <1>2 DEF Room, Types
<1>5. r.type \in [Seats -> Types]
  BY <1>2 DEF Room
<1> HIDE DEF q
<1>6. ASSUME i \notin retyped PROVE TypesFit(q) /\ HostSits(q)
  <2>1. r.client[s] = c /\ TypesFit(r) /\ HostSits(r)
    BY <1>1, <1>2, <1>6 DEF AgreeOn, Sound
  <2>2. r.type[s] = "human"
    BY <1>2, <2>1, LobbyAssumption DEF TypesFit
  <2>3. q.type = r.type
    BY <1>4, <1>5, <2>2
  <2> QED BY <1>4, <2>1, <2>3 DEF TypesFit, HostSits
<1>7. Sound(q, i, retyped)
  BY <1>1, <1>2, <1>4, <1>6 DEF Sound, HeldIsEmpty, OnlyHostWatches
<1>8. Sound(q, i, retyped') /\ retyped' \in {retyped, retyped \cup {i}}
  BY <1>1, <1>7
<1> HIDE DEF i
<1> QED BY <1>1, <1>2, <1>3, <1>4, <1>8, StayingKeeps

(* The edit that marks the room when somebody has the slot.                *)
LEMMA EditOtherKeeps ==
  ASSUME LobbyInv, NEW c \in Clients, NEW s \in Seats,
         NEW type \in {"open", "ai", "closed"}, EditOther(c, s, type)
  PROVE  LobbyInv'
<1> DEFINE i == roomOf[c]
           r == rooms[i]
           q == [r EXCEPT !.type[s] = IF s \in Capacity \/ type = "closed" THEN type ELSE @,
                          !.ready[s] = FALSE]
<1>1. /\ status[c] = "game" /\ r.phase = "lobby" /\ UNCHANGED <<nextRoom, clientVars>>
      /\ retyped' = IF r.client[s] = NoOne THEN retyped ELSE retyped \cup {i}
  BY DEF EditOther, InRoom
<1>2. /\ i \in RoomIds /\ r \in Room /\ Sound(r, i, retyped)
  BY <1>1, Attached
<1>3. rooms' = [rooms EXCEPT ![i] = q]
  BY <1>2 DEF EditOther, LobbyInv, Shape, Room
<1>4. r.type \in [Seats -> Types]
  BY <1>2 DEF Room
<1>5. /\ q \in Room /\ q.client = r.client /\ q.phase = r.phase
      /\ q.dropped = r.dropped /\ q.spectators = r.spectators /\ q.host = r.host /\ q.priv = r.priv
      /\ q.type = [r.type EXCEPT ![s] = IF s \in Capacity \/ type = "closed" THEN type ELSE r.type[s]]
  BY <1>2 DEF Room, Types
<1> HIDE DEF q
<1>6. ASSUME i \notin retyped' PROVE TypesFit(q) /\ HostSits(q)
  <2>1. i \notin retyped /\ r.client[s] = NoOne
    BY <1>1, <1>6
  <2>2. TypesFit(r) /\ HostSits(r) /\ ~r.dropped[s]
    BY <1>1, <1>2, <2>1 DEF Sound, HeldIsEmpty
  <2>3. r.type[s] # "human"
    BY <2>1, <2>2 DEF TypesFit
  <2>4. \A t \in Seats : q.type[t] = "human" <=> r.type[t] = "human"
    BY <1>4, <1>5, <2>3
  <2> QED BY <1>5, <2>2, <2>4 DEF TypesFit, HostSits
<1>7. Sound(q, i, retyped')
  BY <1>1, <1>2, <1>5, <1>6 DEF Sound, HeldIsEmpty, OnlyHostWatches
<1>8. retyped' \in {retyped, retyped \cup {i}}
  BY <1>1
<1> HIDE DEF i
<1> QED BY <1>1, <1>2, <1>3, <1>5, <1>7, <1>8, StayingKeeps

LEMMA StartKeeps ==
  ASSUME LobbyInv, NEW c \in Clients, StartGame(c)
  PROVE  LobbyInv'
<1> DEFINE i == roomOf[c]
           r == rooms[i]
           q == [r EXCEPT !.phase = "running"]
<1>1. /\ status[c] = "game" /\ r.phase = "lobby" /\ UNCHANGED <<nextRoom, clientVars, retyped>>
      /\ rooms' = [rooms EXCEPT ![i].phase = "running"]
  BY DEF StartGame, InRoom
<1>2. /\ i \in RoomIds /\ r \in Room /\ Sound(r, i, retyped)
  BY <1>1, Attached
<1>3. rooms' = [rooms EXCEPT ![i] = q]
  BY <1>1, <1>2
<1>4. /\ q \in Room /\ q.client = r.client /\ q.type = r.type /\ q.phase = "running"
      /\ q.dropped = r.dropped /\ q.spectators = r.spectators
  BY <1>2 DEF Room
<1> HIDE DEF q
<1>5. Sound(q, i, retyped') /\ retyped' \in {retyped, retyped \cup {i}}
  BY <1>1, <1>2, <1>4 DEF Sound, TypesFit, HeldIsEmpty, OnlyHostWatches, HostSits
<1> HIDE DEF i
<1> QED BY <1>1, <1>2, <1>3, <1>4, <1>5, StayingKeeps

LEMMA ForfeitKeeps ==
  ASSUME LobbyInv, NEW i \in RoomIds, NEW s \in Seats, Forfeit(i, s)
  PROVE  LobbyInv'
<1> DEFINE r == rooms[i]
           q == [r EXCEPT !.dropped[s] = FALSE, !.type[s] = "closed"]
<1>1. r.phase = "running" /\ r.dropped[s] /\ UNCHANGED <<nextRoom, clientVars, retyped>>
  BY DEF Forfeit
<1>2. r \in Room /\ Sound(r, i, retyped)
  BY DEF LobbyInv, Shape
<1>3. rooms' = [rooms EXCEPT ![i] = q]
  BY <1>2 DEF Forfeit, LobbyInv, Shape, Room
<1>4. /\ q \in Room /\ q.client = r.client /\ q.phase = "running"
      /\ q.type = [r.type EXCEPT ![s] = "closed"] /\ q.dropped = [r.dropped EXCEPT ![s] = FALSE]
      /\ q.spectators = r.spectators
  BY <1>1, <1>2 DEF Room, Types
<1>5. r.type \in [Seats -> Types] /\ r.dropped \in [Seats -> BOOLEAN]
  BY <1>2 DEF Room
<1> HIDE DEF q
<1>6. Sound(q, i, retyped)
  BY <1>1, <1>2, <1>4, <1>5 DEF Sound, TypesFit, HeldIsEmpty, OnlyHostWatches, HostSits
<1>7. Sound(q, i, retyped') /\ retyped' \in {retyped, retyped \cup {i}}
  BY <1>1, <1>6
<1> QED BY <1>1, <1>2, <1>3, <1>4, <1>7, StayingKeeps

LEMMA LeaveKeeps ==
  ASSUME LobbyInv, NEW c \in Clients, LobbyLeave(c)
  PROVE  LobbyInv'
<1>1. InRoom(c) /\ Exit(c, "lobby") /\ UNCHANGED <<nextRoom, retyped>>
  BY DEF LobbyLeave
<1> DEFINE q == Without(rooms[roomOf[c]], c)
<1>2. rooms' = [rooms EXCEPT ![roomOf[c]] = q]
  BY <1>1, Attached DEF LobbyLeave, LobbyInv, Shape, InRoom
<1>3. /\ q \in Room /\ Sound(q, roomOf[c], retyped)
      /\ \A s \in Seats : q.client[s] = IF s = seat[c] THEN NoOne ELSE rooms[roomOf[c]].client[s]
      /\ q.spectators = rooms[roomOf[c]].spectators \ {c}
  BY <1>1, WithoutIsSound
<1> HIDE DEF q
<1> QED BY <1>1, <1>2, <1>3, LeavingKeeps

LEMMA KickKeeps ==
  ASSUME LobbyInv, NEW c \in Clients, NEW s \in Seats, Kick(c, s)
  PROVE  LobbyInv'
<1> DEFINE i == roomOf[c]
           d == rooms[i].client[s]
           q == Without(rooms[i], d)
<1>1. /\ InRoom(c) /\ d # NoOne /\ Exit(d, "lobby") /\ UNCHANGED <<nextRoom, retyped>>
      /\ rooms' = [rooms EXCEPT ![i] = Without(@, d)]
  BY DEF Kick
<1>2. i \in RoomIds /\ d \in Clients
  BY <1>1, Attached DEF LobbyInv, Shape, Room, InRoom
<1>3. AgreeOn(rooms[i], i, d, status[d], roomOf[d], seat[d], retyped)
  BY <1>2 DEF LobbyInv, Agree
<1>4. status[d] = "game" /\ roomOf[d] = i /\ InRoom(d)
  BY <1>1, <1>3 DEF AgreeOn, InRoom
<1>5. rooms' = [rooms EXCEPT ![roomOf[d]] = q]
  BY <1>1, <1>2, <1>4 DEF LobbyInv, Shape
<1> HIDE DEF d
<1>6. /\ q \in Room /\ Sound(q, roomOf[d], retyped)
      /\ \A t \in Seats : q.client[t] = IF t = seat[d] THEN NoOne ELSE rooms[roomOf[d]].client[t]
      /\ q.spectators = rooms[roomOf[d]].spectators \ {d}
  BY <1>2, <1>4, WithoutIsSound
<1> HIDE DEF q, i
<1> QED BY <1>1, <1>2, <1>4, <1>5, <1>6, LeavingKeeps

(* A player cut off from a running game leaves the slot held, in a room    *)
(* where no edit has retyped one.                                          *)
LEMMA CutOffHolds ==
  ASSUME LobbyInv, NEW c \in Clients, LobbyDrop(c), status[c] = "game", seat[c] # NoOne,
         rooms[roomOf[c]].phase = "running", roomOf[c] \notin retyped
  PROVE  /\ HoldsSlot(c) /\ seat[c] \in Seats
         /\ rooms'[roomOf[c]] = [rooms[roomOf[c]] EXCEPT !.client[seat[c]] = NoOne,
                                                        !.dropped[seat[c]] = TRUE]
         /\ rooms'[roomOf[c]].dropped[seat[c]]
<1> DEFINE i == roomOf[c]
           r == rooms[i]
<1>1. /\ i \in RoomIds /\ r \in Room /\ Sound(r, i, retyped) /\ InRoom(c) /\ seat[c] \in Seats
      /\ AgreeOn(r, i, c, status[c], roomOf[c], seat[c], retyped)
  BY Attached
<1>2. r.client[seat[c]] = c /\ r.type[seat[c]] = "human"
  BY <1>1, LobbyAssumption DEF AgreeOn, Sound, TypesFit
<1>3. HoldsSlot(c)
  BY <1>2 DEF HoldsSlot
<1>4. rooms' = [rooms EXCEPT ![i].client[seat[c]] = NoOne, ![i].dropped[seat[c]] = TRUE]
  BY <1>1, <1>3 DEF LobbyDrop
<1>5. rooms'[i] = [r EXCEPT !.client[seat[c]] = NoOne, !.dropped[seat[c]] = TRUE]
  BY <1>1, <1>4 DEF LobbyInv, Shape, Room
<1> QED BY <1>1, <1>3, <1>5 DEF Room

LEMMA DropKeeps ==
  ASSUME LobbyInv, NEW c \in Clients, LobbyDrop(c)
  PROVE  LobbyInv'
<1>1. status[c] # "gone" /\ Exit(c, "gone") /\ UNCHANGED <<nextRoom, retyped>>
  BY DEF LobbyDrop
<1>2. CASE ~InRoom(c)
  <2>1. UNCHANGED rooms
    BY <1>2 DEF LobbyDrop
  <2>2. Shape'
    BY <1>1, <2>1, LobbyAssumption DEF LobbyInv, Shape, Exit
  <2>3. /\ status'[c] = "gone"
        /\ \A d \in Clients \ {c} :
             status'[d] = status[d] /\ roomOf'[d] = roomOf[d] /\ seat'[d] = seat[d]
    BY <1>1 DEF LobbyInv, Shape, Exit
  <2>4. ASSUME NEW j \in RoomIds
        PROVE  (\A s \in Seats : rooms[j].client[s] # c) /\ c \notin rooms[j].spectators
    <3>1. AgreeOn(rooms[j], j, c, status[c], roomOf[c], seat[c], retyped)
      BY DEF LobbyInv, Agree
    <3>2. CASE status[c] = "game" /\ roomOf[c] = j
      <4>1. rooms[j].phase = "none"
        BY <1>2, <3>2 DEF InRoom, LobbyInv, Agree
      <4>2. rooms[j] = NoRoom
        BY <4>1 DEF LobbyInv, Sound
      <4> QED BY <4>2, LobbyAssumption DEF NoRoom
    <3>3. CASE ~(status[c] = "game" /\ roomOf[c] = j)
      BY <3>1, <3>3 DEF AgreeOn
    <3> QED BY <3>2, <3>3
  <2>5. ASSUME NEW j \in RoomIds, NEW d \in Clients
        PROVE  AgreeOn(rooms'[j], j, d, status'[d], roomOf'[d], seat'[d], retyped')
    <3>1. CASE d = c
      BY <1>1, <2>1, <2>3, <2>4, <3>1 DEF AgreeOn
    <3>2. CASE d # c
      BY <1>1, <2>1, <2>3, <3>2 DEF LobbyInv, Agree
    <3> QED BY <3>1, <3>2
  <2>6. Agree'
    BY <2>3, <2>5 DEF LobbyInv, Agree
  <2> QED BY <1>1, <2>1, <2>2, <2>6 DEF LobbyInv, Fresh
<1>3. CASE InRoom(c) /\ ~HoldsSlot(c)
  <2> DEFINE q == Without(rooms[roomOf[c]], c)
  <2>1. rooms' = [rooms EXCEPT ![roomOf[c]] = q]
    BY <1>3, Attached DEF LobbyDrop, LobbyInv, Shape, InRoom
  <2>2. /\ q \in Room /\ Sound(q, roomOf[c], retyped)
        /\ \A s \in Seats : q.client[s] = IF s = seat[c] THEN NoOne ELSE rooms[roomOf[c]].client[s]
        /\ q.spectators = rooms[roomOf[c]].spectators \ {c}
    BY <1>3, WithoutIsSound
  <2> HIDE DEF q
  <2> QED BY <1>1, <1>3, <2>1, <2>2, LeavingKeeps
<1>4. CASE InRoom(c) /\ HoldsSlot(c)
  <2> DEFINE i == roomOf[c]
             r == rooms[i]
             s == seat[c]
             q == [r EXCEPT !.client[s] = NoOne, !.dropped[s] = TRUE]
  <2>1. r.phase = "running" /\ s # NoOne /\ r.type[s] = "human"
    BY <1>4 DEF HoldsSlot
  <2>2. /\ s \in Seats /\ i \in RoomIds /\ r \in Room /\ Sound(r, i, retyped)
        /\ AgreeOn(r, i, c, status[c], roomOf[c], seat[c], retyped)
    BY <1>4, <2>1, Attached DEF InRoom
  <2>3. rooms' = [rooms EXCEPT ![i] = q]
    BY <1>4, <2>2 DEF LobbyDrop, LobbyInv, Shape, Room
  <2>4. /\ q \in Room /\ q.client = [r.client EXCEPT ![s] = NoOne] /\ q.type = r.type
        /\ q.phase = "running" /\ q.dropped = [r.dropped EXCEPT ![s] = TRUE]
        /\ q.spectators = r.spectators
    BY <2>1, <2>2 DEF Room
  <2>5. r.client \in [Seats -> Clients \cup {NoOne}] /\ r.dropped \in [Seats -> BOOLEAN]
    BY <2>2 DEF Room
  <2> HIDE DEF q
  <2>7. Sound(q, i, retyped)
    BY <2>1, <2>2, <2>4, <2>5 DEF Sound, TypesFit, HeldIsEmpty, OnlyHostWatches, HostSits
  <2>8. \A t \in Seats : q.client[t] = IF t = seat[c] THEN NoOne ELSE rooms[roomOf[c]].client[t]
    BY <2>2, <2>4, <2>5
  <2>9. q.spectators = rooms[roomOf[c]].spectators \ {c}
    BY <2>1, <2>2, <2>4 DEF AgreeOn
  <2> QED BY <1>1, <1>4, <2>3, <2>4, <2>7, <2>8, <2>9, LeavingKeeps
<1> QED BY <1>2, <1>3, <1>4

LEMMA TeardownKeeps ==
  ASSUME LobbyInv, NEW i \in RoomIds, LobbyTeardown(i)
  PROVE  LobbyInv'
<1> DEFINE r == rooms[i]
<1>1. r.phase = "running" /\ r \in Room /\ Sound(r, i, retyped)
  BY DEF LobbyTeardown, LobbyInv, Shape
<1>2. ASSUME i \notin retyped, NEW s \in Seats PROVE r.client[s] = NoOne
  <2> SUFFICES ASSUME r.client[s] # NoOne PROVE FALSE
    OBVIOUS
  <2>1. r.client[s] \in MembersOf(r)
    BY DEF MembersOf
  <2>2. s \in HumanSeats(r)
    BY <1>1, <1>2 DEF Sound, TypesFit, HumanSeats
  <2>3. RoomOccupied(r) /\ RoomActive(r)
    BY <2>1, <2>2 DEF RoomOccupied, RoomActive
  <2> QED BY <2>3 DEF LobbyTeardown
<1>3. \A c \in Clients : c \in r.spectators <=> status[c] = "game" /\ roomOf[c] = i /\ seat[c] = NoOne
  BY DEF LobbyInv, Agree, AgreeOn
<1>4. rooms' = [rooms EXCEPT ![i] = NoRoom] /\ nextRoom' = nextRoom /\ retyped' = retyped
  BY DEF LobbyTeardown
<1>5. \A c \in Clients :
        /\ status'[c] = IF c \in r.spectators THEN "lobby" ELSE status[c]
        /\ roomOf'[c] = IF c \in r.spectators THEN 0 ELSE roomOf[c]
        /\ seat'[c] = IF c \in r.spectators THEN NoOne ELSE seat[c]
  BY DEF LobbyTeardown, Released
<1>6. \A j \in RoomIds : rooms'[j] = IF j = i THEN NoRoom ELSE rooms[j]
  BY <1>4 DEF LobbyInv, Shape
<1>7. Shape'
  <2>1. rooms' \in [RoomIds -> Room]
    BY <1>4, NoRoomIsSound DEF LobbyInv, Shape
  <2>2. /\ status' \in [Clients -> {"lobby", "game", "gone"}]
        /\ roomOf' \in [Clients -> 0 .. MaxRooms] /\ seat' \in [Clients -> Seats \cup {NoOne}]
    BY LobbyAssumption DEF LobbyTeardown, Released, LobbyInv, Shape
  <2> QED BY <1>4, <2>1, <2>2 DEF LobbyInv, Shape
<1>8. Agree'
  <2>1. \A c \in Clients : status'[c] = "game" => roomOf'[c] # 0
    BY <1>5 DEF LobbyInv, Agree
  <2>2. ASSUME NEW j \in RoomIds, NEW c \in Clients
        PROVE  AgreeOn(rooms'[j], j, c, status'[c], roomOf'[c], seat'[c], retyped')
    <3>1. AgreeOn(rooms[j], j, c, status[c], roomOf[c], seat[c], retyped)
      BY DEF LobbyInv, Agree
    <3>2. CASE j = i
      <4>1. NoRoom.spectators = {} /\ \A s \in Seats : NoRoom.client[s] = NoOne
        BY DEF NoRoom
      <4>2. ~(status'[c] = "game" /\ roomOf'[c] = i /\ seat'[c] = NoOne)
        BY <1>3, <1>5
      <4>3. ASSUME i \notin retyped, NEW s \in Seats
            PROVE  ~(status'[c] = "game" /\ roomOf'[c] = i /\ seat'[c] = s)
        BY <1>2, <1>3, <1>5, <3>1, <3>2, <4>3, LobbyAssumption DEF AgreeOn
      <4> QED BY <1>4, <1>6, <3>2, <4>1, <4>2, <4>3, LobbyAssumption DEF AgreeOn
    <3>3. CASE j # i
      BY <1>3, <1>4, <1>5, <1>6, <3>1, <3>3 DEF AgreeOn
    <3> QED BY <3>2, <3>3
  <2> QED BY <2>1, <2>2 DEF Agree
<1>9. ASSUME NEW j \in RoomIds PROVE Sound(rooms'[j], j, retyped')
  <2>1. Sound(NoRoom, j, retyped) /\ Sound(rooms[j], j, retyped)
    BY NoRoomIsSound DEF LobbyInv
  <2> QED BY <1>4, <1>6, <2>1
<1>10. Fresh'
  BY <1>4, <1>6 DEF LobbyInv, Fresh, NoRoom
<1> QED BY <1>7, <1>8, <1>9, <1>10 DEF LobbyInv

-----------------------------------------------------------------------------
LEMMA LobbyStep ==
  ASSUME LobbyInv, [LobbyNext]_lobbyVars
  PROVE  LobbyInv'
<1>1. CASE UNCHANGED lobbyVars
  BY <1>1 DEF lobbyVars, clientVars, LobbyInv, Shape, Agree, Fresh
<1>2. ASSUME NEW c \in Clients, NEW mission \in Missions, NEW watch \in BOOLEAN,
             CreateGame(c, mission, watch)
      PROVE  LobbyInv'
  BY <1>2, CreateKeeps, LobbyAssumption
<1>3. ASSUME NEW c \in Clients, NEW i \in RoomIds, JoinGame(c, i) \/ LobbySpectate(c, i)
      PROVE  LobbyInv'
  BY <1>3, JoinKeeps, SpectateKeeps
<1>4. ASSUME NEW c \in Clients, NEW i \in RoomIds, NEW s \in Seats, LobbyRejoin(c, i, s)
      PROVE  LobbyInv'
  BY <1>4, RejoinKeeps
<1>5. ASSUME NEW c \in Clients, NEW ready \in BOOLEAN, EditOwn(c, ready)
      PROVE  LobbyInv'
  BY <1>5, EditOwnKeeps
<1>6. ASSUME NEW c \in Clients, NEW s \in Seats, NEW type \in {"open", "ai", "closed"},
             EditOther(c, s, type)
      PROVE  LobbyInv'
  BY <1>6, EditOtherKeeps
<1>7. ASSUME NEW c \in Clients, StartGame(c) \/ LobbyLeave(c) \/ LobbyDrop(c)
      PROVE  LobbyInv'
  BY <1>7, StartKeeps, LeaveKeeps, DropKeeps
<1>8. ASSUME NEW c \in Clients, NEW s \in Seats, Kick(c, s)
      PROVE  LobbyInv'
  BY <1>8, KickKeeps
<1>9. ASSUME NEW i \in RoomIds, NEW s \in Seats, Forfeit(i, s)
      PROVE  LobbyInv'
  BY <1>9, ForfeitKeeps
<1>10. ASSUME NEW i \in RoomIds, LobbyTeardown(i)
       PROVE  LobbyInv'
  BY <1>10, TeardownKeeps
<1> QED BY <1>1, <1>2, <1>3, <1>4, <1>5, <1>6, <1>7, <1>8, <1>9, <1>10 DEF LobbyNext

LEMMA LobbyInvHolds == LobbySpec => []LobbyInv
<1>1. LobbyInit => LobbyInv
  BY LobbyStarts
<1>2. LobbyInv /\ [LobbyNext]_lobbyVars => LobbyInv'
  BY LobbyStep
<1> QED BY <1>1, <1>2, PTL DEF LobbySpec

LEMMA PlacesFollow == ASSUME LobbyInv PROVE RecordsHold /\ HostIsThere
<1>1. LobbyTypes
  <2>1. \A r \in Room : DOMAIN r = DOMAIN NoRoom
    BY DEF Room, NoRoom
  <2>2. \A i \in RoomIds : rooms[i] \in Room
    BY DEF LobbyInv, Shape
  <2> QED BY <2>1, <2>2 DEF LobbyTypes, LobbyInv, Shape, Room
<1>2. MembersAreThere
  BY DEF LobbyInv, Agree, AgreeOn, MembersAreThere
<1>3. ASSUME NEW c \in Clients, status[c] = "game", roomOf[c] \notin retyped
      PROVE  HasPlace(c)
  <2>1. /\ InRoom(c) /\ seat[c] \in Seats \cup {NoOne}
        /\ AgreeOn(rooms[roomOf[c]], roomOf[c], c, status[c], roomOf[c], seat[c], retyped)
    BY <1>3, Attached
  <2> QED BY <1>3, <2>1 DEF HasPlace, AgreeOn
<1>4. \A i \in RoomIds \ retyped : SlotsMatch(rooms[i])
  BY DEF LobbyInv, Sound, TypesFit, SlotsMatch
<1>5. HostIsThere
  <2> SUFFICES ASSUME NEW i \in RoomIds \ retyped, rooms[i].phase = "lobby", ~rooms[i].priv
               PROVE  rooms[i].host \in MembersOf(rooms[i])
    BY DEF HostIsThere
  <2>1. PICK s \in Seats : rooms[i].client[s] = rooms[i].host /\ rooms[i].host # NoOne
    BY DEF LobbyInv, Sound, HostSits
  <2> QED BY <2>1 DEF MembersOf
<1> QED BY <1>1, <1>2, <1>3, <1>4, <1>5 DEF RecordsHold

(* Only losing its connection makes a connection that is in a game gone.   *)
LEMMA OnlyDropsAreGone ==
  ASSUME LobbyInv, LobbyNext, NEW c \in Clients, status[c] = "game", status'[c] = "gone"
  PROVE  LobbyDrop(c)
<1>1. status \in [Clients -> {"lobby", "game", "gone"}]
  BY DEF LobbyInv, Shape
<1>2. ASSUME NEW d \in Clients, NEW mission \in Missions, NEW watch \in BOOLEAN,
             CreateGame(d, mission, watch)
      PROVE  FALSE
  BY <1>1, <1>2 DEF CreateGame, Enter
<1>3. ASSUME NEW d \in Clients, NEW i \in RoomIds, JoinGame(d, i) \/ LobbySpectate(d, i)
      PROVE  FALSE
  BY <1>1, <1>3 DEF JoinGame, LobbySpectate, Enter
<1>4. ASSUME NEW d \in Clients, NEW i \in RoomIds, NEW s \in Seats, LobbyRejoin(d, i, s)
      PROVE  FALSE
  BY <1>1, <1>4 DEF LobbyRejoin, Enter
<1>5. ASSUME NEW d \in Clients, NEW ready \in BOOLEAN, EditOwn(d, ready)
      PROVE  FALSE
  BY <1>5 DEF EditOwn, clientVars
<1>6. ASSUME NEW d \in Clients, NEW s \in Seats, NEW type \in {"open", "ai", "closed"},
             EditOther(d, s, type)
      PROVE  FALSE
  BY <1>6 DEF EditOther, clientVars
<1>7. ASSUME NEW d \in Clients, StartGame(d) \/ LobbyLeave(d)
      PROVE  FALSE
  BY <1>1, <1>7 DEF StartGame, LobbyLeave, Exit, clientVars
<1>8. ASSUME NEW d \in Clients, NEW s \in Seats, Kick(d, s)
      PROVE  FALSE
  BY <1>1, <1>8 DEF Kick, Exit
<1>9. ASSUME NEW i \in RoomIds, NEW s \in Seats, Forfeit(i, s)
      PROVE  FALSE
  BY <1>9 DEF Forfeit, clientVars
<1>10. ASSUME NEW i \in RoomIds, LobbyTeardown(i)
       PROVE  FALSE
  BY <1>10 DEF LobbyTeardown, Released
<1>11. ASSUME NEW d \in Clients, LobbyDrop(d), d # c
       PROVE  FALSE
  BY <1>1, <1>11 DEF LobbyDrop, Exit
<1> QED BY <1>2, <1>3, <1>4, <1>5, <1>6, <1>7, <1>8, <1>9, <1>10, <1>11 DEF LobbyNext

(* For lobbyMsg, gameMsg, leaveRoom, dropClient and the teardown in        *)
(* Server::run: whoever joins, is kicked, drops or outlives a room, whoever *)
(* a room has is there; and unless an edit retyped a slot under somebody,  *)
(* the room's slot table and the connections' own state, room and slot     *)
(* agree in full.                                                          *)
THEOREM RecordsAlwaysHold == LobbySpec => []RecordsHold
<1>1. LobbyInv => RecordsHold
  BY PlacesFollow
<1> QED BY <1>1, LobbyInvHolds, PTL

(* For leaveRoom: a listed room that waits for its host has it in it,      *)
(* unless an edit retyped one of its slots under somebody.                 *)
THEOREM HostIsAlwaysThere == LobbySpec => []HostIsThere
<1>1. LobbyInv => HostIsThere
  BY PlacesFollow
<1> QED BY <1>1, LobbyInvHolds, PTL

(* For dropClient: whoever is cut off from a running game leaves the slot  *)
(* held and not closed, unless an edit had retyped a slot of that room     *)
(* under somebody.                                                         *)
THEOREM CutOffIsNeverOut == LobbySpec => CutOffIsNotOut
<1> DEFINE A == \A c \in Clients : status[c] = "game" /\ status'[c] = "gone" /\ seat[c] # NoOne =>
       (rooms[roomOf[c]].phase = "running" /\ roomOf[c] \notin retyped
          => rooms'[roomOf[c]].dropped[seat[c]])
<1>1. ASSUME LobbyInv, LobbyNext PROVE A
  BY <1>1, OnlyDropsAreGone, CutOffHolds
<1>2. LobbyInv /\ [LobbyNext]_lobbyVars => [A]_lobbyVars
  BY <1>1
<1> QED BY <1>2, LobbyInvHolds, PTL DEF LobbySpec, CutOffIsNotOut
=============================================================================
