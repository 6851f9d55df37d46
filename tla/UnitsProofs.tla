-------------------------------- MODULE UnitsProofs --------------------------------
(***************************************************************************)
(* That passengers and carriers agree, for any number of units, carriers   *)
(* that can be carried, any size of the hold and any sequence of commands; *)
(* that the slots of the searches and the queue name each other, and that  *)
(* a unit told to stop or to board does nothing else, for any number of    *)
(* units, destinations and slots.                                          *)
(*                                                                         *)
(* HoldsAgree is nearly inductive: boarding adds a unit to a hold it is    *)
(* not in, because a unit that is carried never gets to its order list.    *)
(* What is missing is who can have which order: only a rider is told to    *)
(* board, only a carrier to put its passengers off (Loaders).              *)
(*                                                                         *)
(* SlotsAgree needs that a unit has one search at most (AtMostOne).        *)
(* StopIsStop needs what a stop leaves behind (Quiet): no search, no goal  *)
(* to be looked at again, and no answer on its way, which in turn needs    *)
(* that answers are only on their way while they are handed over.          *)
(*                                                                         *)
(* That the fog shows what was in view, for any ground, any units and any  *)
(* size of the cache, needs that a mask is of the ground it is used on     *)
(* (TrueMasks) and what a pass that is under way will show (UnderWay).     *)
(***************************************************************************)
EXTENDS Transport, PathOrders, Fog, TLAPS

Loaders ==
  \A u \in Units : /\ errand[u].what = "load" => u \in Riders
                   /\ errand[u].what = "unload" => u \in Carriers

(* The three parts of HoldsAgree that are not types.                       *)
Mutual == \A c \in Riders, t \in Carriers : inTransport[c] = t <=> c \in Aboard(t)
Single == \A t \in Carriers : \A i, j \in DOMAIN cargo[t] : cargo[t][i] = cargo[t][j] => i = j
Fits == \A t \in Carriers : Len(cargo[t]) <= Cap

HoldInv == TransportTypes /\ Mutual /\ Single /\ Fits /\ Loaders

(* HoldInv says what HoldsAgree says.                                      *)
LEMMA InvIsEnough == HoldInv => HoldsAgree
BY DEF HoldInv, HoldsAgree, Mutual, Single, Fits

(* A carrier's id is not the "none" of inTransport.                        *)
LEMMA CarriersAreNotZero == 0 \notin Carriers /\ 0 \notin Riders
BY TransportAssumption DEF Units

(* What an order can be.                                                   *)
LEMMA Orders ==
  ASSUME TransportTypes, NEW u \in Units
  PROVE  /\ errand[u].what = "load" => errand[u].id \in Carriers
         /\ Other.what = "other" /\ Unload.what = "unload"
         /\ \A t \in Carriers : Load(t).what = "load"
BY DEF TransportTypes, Other, Unload, Load

(* The hold after one more has come.                                       *)
LEMMA OneMore ==
  ASSUME NEW q \in Seq(Riders), NEW c \in Riders
  PROVE  LET r == Append(q, c) IN
         /\ r \in Seq(Riders) /\ Len(r) = Len(q) + 1
         /\ {r[i] : i \in DOMAIN r} = {q[i] : i \in DOMAIN q} \cup {c}
         /\ (\A i, j \in DOMAIN q : q[i] = q[j] => i = j) /\ c \notin {q[i] : i \in DOMAIN q}
              => \A i, j \in DOMAIN r : r[i] = r[j] => i = j
<1> DEFINE r == Append(q, c)
<1>1. r \in Seq(Riders) /\ Len(r) = Len(q) + 1 /\ DOMAIN q = 1..Len(q) /\ DOMAIN r = 1..(Len(q) + 1)
  OBVIOUS
<1>2. /\ \A i \in 1..Len(q) : r[i] = q[i]
      /\ r[Len(q) + 1] = c
  OBVIOUS
<1>3. Len(q) \in Nat
  OBVIOUS
<1> HIDE DEF r
<1>4. {r[i] : i \in DOMAIN r} = {q[i] : i \in DOMAIN q} \cup {c}
  <2>1. ASSUME NEW i \in DOMAIN r PROVE r[i] \in {q[j] : j \in DOMAIN q} \cup {c}
    BY <1>1, <1>2, <1>3
  <2>2. ASSUME NEW i \in DOMAIN q PROVE q[i] \in {r[j] : j \in DOMAIN r}
    BY <1>1, <1>2, <1>3
  <2>3. c \in {r[j] : j \in DOMAIN r}
    BY <1>1, <1>2, <1>3
  <2> QED BY <2>1, <2>2, <2>3
<1>5. ASSUME \A i, j \in DOMAIN q : q[i] = q[j] => i = j, c \notin {q[i] : i \in DOMAIN q},
             NEW i \in DOMAIN r, NEW j \in DOMAIN r, r[i] = r[j]
      PROVE  i = j
  <2>1. CASE i \in 1..Len(q) /\ j \in 1..Len(q)
    BY <1>1, <1>2, <1>5, <2>1
  <2>2. CASE i = Len(q) + 1 /\ j \in 1..Len(q)
    BY <1>1, <1>2, <1>5, <2>2
  <2>3. CASE i \in 1..Len(q) /\ j = Len(q) + 1
    BY <1>1, <1>2, <1>5, <2>3
  <2>4. CASE i = Len(q) + 1 /\ j = Len(q) + 1
    BY <2>4
  <2> QED BY <1>1, <1>3, <2>1, <2>2, <2>3, <2>4
<1> QED BY <1>1, <1>4, <1>5 DEF r

(* At the start nobody is carried.                                         *)
LEMMA StartsEmpty == TransportInit => HoldInv
<1> SUFFICES ASSUME TransportInit PROVE HoldInv
  OBVIOUS
<1>1. TransportTypes
  BY TransportAssumption DEF TransportInit, TransportTypes, Other
<1>2. Mutual /\ Single /\ Fits
  BY CarriersAreNotZero, TransportAssumption DEF TransportInit, Mutual, Single, Fits, Aboard
<1>3. Loaders
  BY DEF TransportInit, Loaders, Other
<1> QED BY <1>1, <1>2, <1>3 DEF HoldInv

(* A step that changes neither record keeps them in agreement.             *)
LEMMA SameHolds ==
  ASSUME HoldInv, UNCHANGED <<inTransport, cargo>>, TransportTypes', Loaders'
  PROVE  HoldInv'
BY DEF HoldInv, Mutual, Single, Fits, Aboard

(* Commands change who has which order.                                    *)
LEMMA CommandsKeep ==
  ASSUME HoldInv,
         \/ \E c \in Riders, t \in Carriers : OrderLoad(c, t)
         \/ \E t \in Carriers : OrderUnload(t)
         \/ \E u \in Units : OrderOther(u)
  PROVE  HoldInv'
<1>1. PICK u \in Units, o \in {Other, Unload} \cup {Load(t) : t \in Carriers} :
        /\ Ordered(u, o)
        /\ o.what = "load" => u \in Riders
        /\ o.what = "unload" => u \in Carriers
  <2>1. CASE \E c \in Riders, t \in Carriers : OrderLoad(c, t)
    <3>1. PICK c \in Riders, t \in Carriers : OrderLoad(c, t)
      BY <2>1
    <3>2. Ordered(c, Load(t)) /\ Load(t).what = "load" /\ c \in Units
      BY <3>1, TransportAssumption DEF OrderLoad, Load
    <3> QED BY <3>2
  <2>2. CASE \E t \in Carriers : OrderUnload(t)
    <3>1. PICK t \in Carriers : OrderUnload(t)
      BY <2>2
    <3>2. Ordered(t, Unload) /\ Unload.what = "unload" /\ t \in Units
      BY <3>1, TransportAssumption DEF OrderUnload, Unload
    <3> QED BY <3>2
  <2>3. CASE \E u \in Units : OrderOther(u)
    <3>1. PICK u \in Units : OrderOther(u)
      BY <2>3
    <3>2. Ordered(u, Other) /\ Other.what = "other"
      BY <3>1 DEF OrderOther, Other
    <3> QED BY <3>2
  <2> QED BY <2>1, <2>2, <2>3
<1>2. TransportTypes'
  BY <1>1, TransportAssumption DEF HoldInv, TransportTypes, Ordered
<1>3. Loaders'
  BY <1>1 DEF HoldInv, TransportTypes, Loaders, Ordered
<1> QED BY <1>1, <1>2, <1>3, SameHolds DEF Ordered

(* Boarding.                                                               *)
LEMMA BoardKeeps ==
  ASSUME HoldInv, NEW c \in Units, ~Embarked(c), Board(c), UNCHANGED doomed,
         turn' \in 0..LastUnit, UNCHANGED given
  PROVE  HoldInv'
<1> DEFINE t == errand[c].id
<1>1. c \in Riders /\ t \in Carriers
  BY Orders DEF HoldInv, Loaders, Board
<1>2. inTransport[c] = 0
  BY <1>1 DEF Embarked
<1>3. /\ inTransport' = [inTransport EXCEPT ![c] = t]
      /\ cargo' = [cargo EXCEPT ![t] = Append(cargo[t], c)]
      /\ errand' = [errand EXCEPT ![c] = Other]
      /\ UNCHANGED gone
      /\ ~Full(t)
  BY DEF Board
<1> HIDE DEF t
<1>4. /\ inTransport \in [Riders -> Carriers \cup {0}] /\ cargo \in [Carriers -> Seq(Riders)]
      /\ cargo[t] \in Seq(Riders)
  BY <1>1 DEF HoldInv, TransportTypes
<1>5. c \notin Aboard(t)
  BY <1>1, <1>2, CarriersAreNotZero DEF HoldInv, Mutual
<1> DEFINE r == Append(cargo[t], c)
<1>6. /\ r \in Seq(Riders) /\ Len(r) = Len(cargo[t]) + 1
      /\ {r[i] : i \in DOMAIN r} = Aboard(t) \cup {c}
      /\ \A i, j \in DOMAIN r : r[i] = r[j] => i = j
  BY <1>1, <1>4, <1>5, OneMore DEF HoldInv, Single, Aboard
<1>7. /\ cargo'[t] = r /\ \A v \in Carriers \ {t} : cargo'[v] = cargo[v]
      /\ cargo' \in [Carriers -> Seq(Riders)]
  BY <1>1, <1>3, <1>4, <1>6
<1> HIDE DEF r
<1>8. TransportTypes'
  <2>1. inTransport' \in [Riders -> Carriers \cup {0}]
    BY <1>1, <1>3, <1>4
  <2>2. errand' \in [Units -> {Other, Unload} \cup {Load(v) : v \in Carriers}]
    BY <1>3 DEF HoldInv, TransportTypes
  <2> QED BY <1>3, <1>7, <2>1, <2>2 DEF HoldInv, TransportTypes
<1>9. Mutual'
  <2> SUFFICES ASSUME NEW d \in Riders, NEW v \in Carriers
               PROVE  inTransport'[d] = v <=> d \in Aboard(v)'
    BY DEF Mutual
  <2>1. inTransport'[d] = IF d = c THEN t ELSE inTransport[d]
    BY <1>3, <1>4
  <2>2. Aboard(v)' = IF v = t THEN Aboard(t) \cup {c} ELSE Aboard(v)
    <3>1. Aboard(v)' = {cargo'[v][i] : i \in DOMAIN cargo'[v]}
      BY DEF Aboard
    <3>2. CASE v = t
      <4>1. cargo'[v] = r
        BY <1>7, <3>2
      <4>2. Aboard(v)' = {r[i] : i \in DOMAIN r}
        BY <3>1, <4>1
      <4> QED BY <1>6, <3>2, <4>2
    <3>3. CASE v # t
      <4>1. cargo'[v] = cargo[v]
        BY <1>7, <3>3
      <4> QED BY <3>1, <3>3, <4>1 DEF Aboard
    <3> QED BY <3>2, <3>3
  <2>3. /\ inTransport[d] = v <=> d \in Aboard(v)
        /\ inTransport[c] # v
    BY <1>1, <1>2, CarriersAreNotZero DEF HoldInv, Mutual
  <2>4. c \notin Aboard(v)
    BY <1>1, <2>3 DEF HoldInv, Mutual
  <2> QED BY <2>1, <2>2, <2>3, <2>4
<1>10. Single'
  BY <1>6, <1>7 DEF HoldInv, Single
<1>11. Fits'
  <2>1. Len(cargo[t]) + 1 <= Cap
    BY <1>1, <1>3, <1>4, TransportAssumption DEF Full
  <2> QED BY <1>6, <1>7, <2>1 DEF HoldInv, Fits
<1>12. Loaders'
  BY <1>3 DEF HoldInv, TransportTypes, Loaders, Other
<1> QED BY <1>8, <1>9, <1>10, <1>11, <1>12 DEF HoldInv

(* Putting everybody off.                                                  *)
LEMMA DisembarkKeeps ==
  ASSUME HoldInv, NEW t \in Units, Disembark(t), UNCHANGED doomed,
         turn' \in 0..LastUnit, UNCHANGED given
  PROVE  HoldInv'
<1>1. t \in Carriers
  BY DEF Disembark, HoldInv, Loaders
<1>2. /\ inTransport' = [c \in Riders |-> IF c \in Aboard(t) THEN 0 ELSE inTransport[c]]
      /\ cargo' = [cargo EXCEPT ![t] = <<>>]
      /\ errand' = [errand EXCEPT ![t] = Other]
      /\ UNCHANGED gone
  BY DEF Disembark, PutOff
<1>3. inTransport \in [Riders -> Carriers \cup {0}] /\ cargo \in [Carriers -> Seq(Riders)]
  BY DEF HoldInv, TransportTypes
<1>4. cargo'[t] = <<>> /\ \A v \in Carriers \ {t} : cargo'[v] = cargo[v]
  BY <1>1, <1>2, <1>3
<1>5. TransportTypes'
  <2>1. cargo' \in [Carriers -> Seq(Riders)]
    BY <1>1, <1>2, <1>3
  <2>2. inTransport' \in [Riders -> Carriers \cup {0}]
    BY <1>2, <1>3
  <2>3. errand' \in [Units -> {Other, Unload} \cup {Load(v) : v \in Carriers}]
    BY <1>2 DEF HoldInv, TransportTypes
  <2> QED BY <1>2, <2>1, <2>2, <2>3 DEF HoldInv, TransportTypes
<1>6. Mutual'
  <2> SUFFICES ASSUME NEW c \in Riders, NEW v \in Carriers
               PROVE  inTransport'[c] = v <=> c \in Aboard(v)'
    BY DEF Mutual
  <2>1. inTransport'[c] = IF c \in Aboard(t) THEN 0 ELSE inTransport[c]
    BY <1>2
  <2>2. Aboard(v)' = IF v = t THEN {} ELSE Aboard(v)
    BY <1>4 DEF Aboard
  <2>3. /\ inTransport[c] = v <=> c \in Aboard(v)
        /\ inTransport[c] = t <=> c \in Aboard(t)
        /\ v # 0
    BY <1>1, CarriersAreNotZero DEF HoldInv, Mutual
  <2> QED BY <2>1, <2>2, <2>3
<1>7. Single'
  BY <1>4 DEF HoldInv, Single
<1>8. Fits'
  BY <1>4, TransportAssumption DEF HoldInv, Fits
<1>9. Loaders'
  BY <1>2 DEF HoldInv, TransportTypes, Loaders, Other
<1> QED BY <1>5, <1>6, <1>7, <1>8, <1>9 DEF HoldInv

(* The turn of a unit, whatever it does with it.                           *)
LEMMA TurnKeeps == ASSUME HoldInv, Turn PROVE HoldInv'
<1> DEFINE u == turn
<1>1. u \in Units /\ turn' \in 0..LastUnit /\ UNCHANGED <<doomed, given>>
  BY TransportAssumption DEF Turn, HoldInv, TransportTypes, Units
<1>2. Serve(u)
  BY DEF Turn
<1> HIDE DEF u
<1>3. CASE UNCHANGED <<inTransport, cargo>> /\ gone' \subseteq Units
           /\ (UNCHANGED errand \/ errand' = [errand EXCEPT ![u] = Other])
  <2>1. TransportTypes'
    BY <1>1, <1>3 DEF HoldInv, TransportTypes
  <2>2. Loaders'
    BY <1>1, <1>3 DEF HoldInv, TransportTypes, Loaders, Other
  <2> QED BY <1>3, <2>1, <2>2, SameHolds
<1>4. CASE Waits \/ Dead(u) \/ Carried(u) \/ NoBoarding(u)
  <2>1. gone \subseteq Units
    BY DEF HoldInv, TransportTypes
  <2> QED BY <1>1, <1>3, <1>4, <2>1 DEF Waits, Dead, Carried, NoBoarding, DropOrder
<1>5. CASE ~Embarked(u) /\ Board(u)
  BY <1>1, <1>5, BoardKeeps
<1>6. CASE Disembark(u)
  BY <1>1, <1>6, DisembarkKeeps
<1> QED BY <1>2, <1>4, <1>5, <1>6 DEF Serve

(* Every step keeps the invariant.                                         *)
LEMMA StepsKeep == ASSUME HoldInv, [TransportNext]_transportVars PROVE HoldInv'
<1>1. CASE \/ \E c \in Riders, t \in Carriers : OrderLoad(c, t)
           \/ \E t \in Carriers : OrderUnload(t)
           \/ \E u \in Units : OrderOther(u)
  BY <1>1, CommandsKeep
<1>2. CASE Turn
  BY <1>2, TurnKeeps
<1>3. CASE BeginTick \/ (\E u \in Units : Struck(u)) \/ UNCHANGED transportVars
  <2>1. TransportTypes'
    <3>1. turn' \in 0..LastUnit
      <4>1. CASE BeginTick
        <5>1. LastUnit \in Nat \ {0} /\ turn' = 1
          BY <4>1, TransportAssumption DEF BeginTick
        <5> QED BY <5>1
      <4>2. CASE ~BeginTick
        BY <1>3, <4>2 DEF Struck, transportVars, HoldInv, TransportTypes
      <4> QED BY <4>1, <4>2
    <3> QED BY <1>3, <3>1 DEF BeginTick, Struck, transportVars, HoldInv, TransportTypes
  <2>2. Loaders'
    BY <1>3 DEF BeginTick, Struck, transportVars, HoldInv, Loaders
  <2>3. UNCHANGED <<inTransport, cargo>>
    BY <1>3 DEF BeginTick, Struck, transportVars
  <2> QED BY <2>1, <2>2, <2>3, SameHolds
<1> QED BY <1>1, <1>2, <1>3 DEF TransportNext, TransportTick

(* Passengers and carriers agree for ever (World::tickTransport, the death *)
(* sweep and the embarked branch of World::tick).                          *)
THEOREM HoldsAlwaysAgree == TransportSpec => []HoldsAgree
<1>1. TransportInit => HoldInv
  BY StartsEmpty
<1>2. HoldInv /\ [TransportNext]_transportVars => HoldInv'
  BY StepsKeep
<1>3. HoldInv => HoldsAgree
  BY InvIsEnough
<1> QED BY <1>1, <1>2, <1>3, PTL DEF TransportSpec

-----------------------------------------------------------------------------
Kept(f) == f = [u \in Walkers |-> f[u]]

Shapes ==
  /\ Kept(plans) /\ Kept(rescue) /\ Kept(searches) /\ Kept(held)
  /\ slotOwner \in [SlotIds -> Walkers \cup {0}]
  /\ \A u \in Walkers : \A e \in searches[u] : e.slot \in 0..Slots

AtMostOne == \A u \in Walkers : \A e, f \in searches[u] : e = f

Halted(u) == plans[u] \in {<<>>, <<Bare("load")>>}

Quiet ==
  /\ pass # "hand" => answers = {}
  /\ \A u \in Walkers : held[u] =>
       /\ Halted(u) /\ searches[u] = {} /\ rescue[u] = {}
       /\ \A a \in answers : a.who # u

PathInv == Shapes /\ AtMostOne /\ SlotsAgree /\ Quiet

LEMMA NoUnitIsZero == 0 \notin Walkers /\ 0 \notin SlotIds
BY PathAssumption DEF SlotIds

LEMMA PathStarts == PathInit => PathInv
<1> SUFFICES ASSUME PathInit PROVE PathInv
  OBVIOUS
<1>1. Shapes /\ AtMostOne /\ Quiet
  BY DEF PathInit, Shapes, Kept, AtMostOne, Quiet
<1>2. SlotsAgree
  BY NoUnitIsZero DEF PathInit, SlotsAgree
<1> QED BY <1>1, <1>2 DEF PathInv

(* What happens to one unit's search leaves the records agreeing: it is    *)
(* restarted in its slot, or dropped with it.                              *)
LEMMA SearchesKeep ==
  ASSUME PathInv, NEW D \in SUBSET Walkers,
         Kept(searches)',
         slotOwner' = Freed(D),
         \A u \in D : searches'[u] = {},
         \A u \in Walkers \ D :
           searches'[u] = searches[u] \/ \E p : searches'[u] = Asked(u, p)
  PROVE  /\ slotOwner' \in [SlotIds -> Walkers \cup {0}]
         /\ \A u \in Walkers : \A e \in searches'[u] : e.slot \in 0..Slots
         /\ AtMostOne' /\ SlotsAgree'
<1>1. slotOwner' \in [SlotIds -> Walkers \cup {0}]
  BY DEF PathInv, Shapes, Freed
<1>2. ASSUME NEW u \in Walkers, NEW p, searches'[u] = Asked(u, p)
      PROVE  /\ \A e, f \in searches'[u] : e = f
             /\ \A e \in searches'[u] : e.slot \in 0..Slots
             /\ \A s \in SlotIds : (\E e \in searches'[u] : e.slot = s)
                                     <=> (\E e \in searches[u] : e.slot = s)
  <2>1. CASE u \in Searching
    <3>1. PICK e \in searches[u] : e.slot # 0
      BY <2>1 DEF Searching
    <3>2. searches[u] = {e} /\ (CHOOSE g \in searches[u] : TRUE) = e
      BY <3>1 DEF PathInv, AtMostOne
    <3>3. searches'[u] = {[at |-> p, slot |-> e.slot]}
      BY <1>2, <2>1, <3>2 DEF Asked
    <3> QED BY <3>2, <3>3 DEF PathInv, Shapes
  <2>2. CASE u \notin Searching
    <3>1. searches'[u] = {[at |-> p, slot |-> 0]}
      BY <1>2, <2>2 DEF Asked
    <3>2. \A e \in searches[u] : e.slot = 0
      BY <2>2 DEF Searching
    <3> QED BY <3>1, <3>2, NoUnitIsZero, PathAssumption
  <2> QED BY <2>1, <2>2
<1>3. \A u \in Walkers : \A e \in searches'[u] : e.slot \in 0..Slots
  BY <1>2 DEF PathInv, Shapes
<1>4. AtMostOne'
  BY <1>2 DEF PathInv, AtMostOne
<1>5. SlotsAgree'
  <2> SUFFICES ASSUME NEW s \in SlotIds, NEW u \in Walkers
               PROVE  slotOwner'[s] = u <=> \E e \in searches'[u] : e.slot = s
    BY DEF SlotsAgree
  <2>1. slotOwner'[s] = IF slotOwner[s] \in D THEN 0 ELSE slotOwner[s]
    BY DEF Freed
  <2>2. slotOwner[s] = u <=> \E e \in searches[u] : e.slot = s
    BY DEF PathInv, SlotsAgree
  <2>3. CASE u \in D
    BY <2>1, <2>3, NoUnitIsZero
  <2>4. CASE u \notin D
    <3>1. slotOwner'[s] = u <=> slotOwner[s] = u
      BY <2>1, <2>4, NoUnitIsZero
    <3>2. (\E e \in searches'[u] : e.slot = s) <=> (\E e \in searches[u] : e.slot = s)
      BY <1>2, <2>4
    <3> QED BY <2>2, <3>1, <3>2
  <2> QED BY <2>3, <2>4
<1> QED BY <1>1, <1>3, <1>4, <1>5

(* One search is dropped or restarted; or all stay as they are.            *)
LEMMA NoSearchChanges ==
  ASSUME PathInv, UNCHANGED <<searches, slotOwner>>
  PROVE  /\ Kept(searches)' /\ slotOwner' \in [SlotIds -> Walkers \cup {0}]
         /\ \A u \in Walkers : \A e \in searches'[u] : e.slot \in 0..Slots
         /\ AtMostOne' /\ SlotsAgree'
BY DEF PathInv, Shapes, Kept, AtMostOne, SlotsAgree

(* Commands.                                                               *)
LEMMA ToldKeeps == ASSUME PathInv, NEW u \in Walkers, Told(u) PROVE PathInv'
<1>1. CASE \E p \in Points, queue \in BOOLEAN :
             \E o \in {Bare("attack"), Pause(p)} : OrderBare(u, o, queue)
  <2> PICK p \in Points, queue \in BOOLEAN :
             \E o \in {Bare("attack"), Pause(p)} : OrderBare(u, o, queue)
    BY <1>1
  <2> PICK o \in {Bare("attack"), Pause(p)} : OrderBare(u, o, queue)
    OBVIOUS
  <2>1. Kept(plans)' /\ Kept(rescue)' /\ Kept(held)' /\ Quiet'
    BY DEF OrderBare, Commanded, Added, Kept, Quiet, Halted, PathInv, Shapes
  <2> QED BY <2>1, NoSearchChanges DEF OrderBare, PathInv, Shapes
<1>2. CASE \E p \in Points, queue \in BOOLEAN : OrderMove(u, p, queue)
  <2> PICK p \in Points, queue \in BOOLEAN : OrderMove(u, p, queue)
    BY <1>2
  <2>1. Kept(plans)' /\ Kept(rescue)' /\ Kept(held)'
    BY DEF OrderMove, Commanded, Added, Kept, PathInv, Shapes
  <2>2. CASE UNCHANGED <<searches, slotOwner>>
    <3>1. Quiet'
      BY <2>2 DEF OrderMove, Commanded, Added, Kept, Quiet, Halted, PathInv, Shapes
    <3> QED BY <2>1, <2>2, <3>1, NoSearchChanges DEF PathInv, Shapes
  <2>3. CASE RequestPath(u, p)
    <3>1. Kept(searches)' /\ \A v \in Walkers \ {u} : searches'[v] = searches[v]
      BY <2>3 DEF RequestPath, Kept, PathInv, Shapes
    <3>2. Quiet'
      BY <3>1 DEF OrderMove, Commanded, Added, Kept, Quiet, Halted, PathInv, Shapes
    <3>3. CASE searches'[u] = Asked(u, p) /\ UNCHANGED slotOwner
      <4>1. slotOwner' = Freed({})
        BY <3>3 DEF Freed, PathInv, Shapes
      <4> QED BY <2>1, <3>1, <3>2, <3>3, <4>1, SearchesKeep DEF PathInv, Shapes
    <3>4. CASE searches'[u] = {} /\ slotOwner' = Freed({u})
      <4> DEFINE D == {u}
      <4>1. /\ D \in SUBSET Walkers /\ slotOwner' = Freed(D)
            /\ \A v \in D : searches'[v] = {}
            /\ \A v \in Walkers \ D : searches'[v] = searches[v] \/ \E q : searches'[v] = Asked(v, q)
        BY <3>1, <3>4
      <4> HIDE DEF D
      <4> QED BY <2>1, <3>1, <3>2, <4>1, SearchesKeep DEF PathInv, Shapes
    <3> QED BY <2>3, <3>3, <3>4 DEF RequestPath, PathInv, Shapes, Kept
  <2> QED BY <2>2, <2>3 DEF OrderMove
<1>3. CASE LoadInto(u) \/ StopWalking(u)
  <2>1. Kept(plans)' /\ Kept(rescue)' /\ Kept(held)' /\ Kept(searches)'
    BY <1>3 DEF LoadInto, StopWalking, CancelPath, Commanded, Kept, PathInv, Shapes
  <2>2. /\ Halted(u)' /\ searches'[u] = {} /\ rescue'[u] = {}
        /\ \A v \in Walkers \ {u} : /\ searches'[v] = searches[v] /\ rescue'[v] = rescue[v]
                                   /\ plans'[v] = plans[v] /\ held'[v] = held[v]
    BY <1>3 DEF LoadInto, StopWalking, CancelPath, Commanded, Halted, Kept, PathInv, Shapes
  <2>3. Quiet'
    BY <1>3, <2>2 DEF LoadInto, StopWalking, Commanded, Quiet, Halted, PathInv
  <2>4. slotOwner' = Freed({u})
    BY <1>3 DEF LoadInto, StopWalking, CancelPath
  <2> QED BY <2>1, <2>2, <2>3, <2>4, SearchesKeep DEF PathInv, Shapes
<1> QED BY <1>1, <1>2, <1>3 DEF Told

(* The next unit gets a free slot.                                         *)
LEMMA AdmitKeeps == ASSUME PathInv, Admit PROVE PathInv'
<1> PICK u \in Waiting, s \in FreeSlots :
      /\ searches' = [searches EXCEPT ![u] = {[at |-> e.at, slot |-> s] : e \in @}]
      /\ slotOwner' = [slotOwner EXCEPT ![s] = u]
  BY DEF Admit
<1>1. u \in Walkers /\ s \in SlotIds /\ slotOwner[s] = 0
  BY DEF Waiting, FreeSlots
<1>2. PICK e \in searches[u] : e.slot = 0
  BY DEF Waiting
<1>3. searches[u] = {e}
  BY <1>1, <1>2 DEF PathInv, AtMostOne
<1>4. searches'[u] = {[at |-> e.at, slot |-> s]}
  BY <1>1, <1>3 DEF PathInv, Shapes, Kept
<1>5. Kept(searches)' /\ \A v \in Walkers \ {u} : searches'[v] = searches[v]
  BY DEF PathInv, Shapes, Kept
<1>6. slotOwner' \in [SlotIds -> Walkers \cup {0}]
  BY <1>1 DEF PathInv, Shapes
<1>7. Shapes'
  BY <1>1, <1>4, <1>5, <1>6, PathAssumption DEF Admit, PathInv, Shapes, Kept, SlotIds
<1>8. AtMostOne'
  BY <1>4, <1>5 DEF PathInv, AtMostOne
<1>9. SlotsAgree'
  <2> SUFFICES ASSUME NEW r \in SlotIds, NEW v \in Walkers
               PROVE  slotOwner'[r] = v <=> \E g \in searches'[v] : g.slot = r
    BY DEF SlotsAgree
  <2>1. slotOwner[r] = v <=> \E g \in searches[v] : g.slot = r
    BY DEF PathInv, SlotsAgree
  <2>2. slotOwner'[r] = IF r = s THEN u ELSE slotOwner[r]
    BY <1>1 DEF PathInv, Shapes
  <2>3. CASE v = u
    <3>1. slotOwner[r] # u
      BY <1>2, <1>3, <2>1, <2>3, NoUnitIsZero
    <3>2. (\E g \in searches'[u] : g.slot = r) <=> r = s
      <4> DEFINE new == [at |-> e.at, slot |-> s]
      <4>1. searches'[u] = {new} /\ new.slot = s
        BY <1>4
      <4> HIDE DEF new
      <4> QED BY <4>1
    <3> QED BY <2>2, <2>3, <3>1, <3>2
  <2>4. CASE v # u
    BY <1>1, <1>5, <2>1, <2>2, <2>4, NoUnitIsZero
  <2> QED BY <2>3, <2>4
<1>10. Quiet'
  BY <1>1, <1>2, <1>5 DEF Admit, PathInv, Quiet, Halted
<1> QED BY <1>7, <1>8, <1>9, <1>10 DEF PathInv

(* Some searches run, some of them finish.                                 *)
LEMMA RunKeeps ==
  ASSUME PathInv, NEW S \in SUBSET Runnable, NEW F \in SUBSET S, Run(S, F) PROVE PathInv'
<1>1. F \subseteq Walkers
  BY DEF Runnable, Searching
<1>2. /\ Kept(searches)' /\ slotOwner' = Freed(F)
      /\ \A u \in F : searches'[u] = {}
      /\ \A u \in Walkers \ F : searches'[u] = searches[u]
  BY <1>1 DEF Run, Kept
<1>3. \A a \in answers' : a.who \in F
  BY DEF Run
<1>4. F = {} => answers' = {}
  BY DEF Run
<1>5. \A u \in F : searches[u] # {}
  BY DEF Runnable, Searching
<1>6. Quiet'
  BY <1>1, <1>2, <1>3, <1>4, <1>5 DEF Run, PathInv, Quiet, Halted
<1>7. Kept(plans)' /\ Kept(rescue)' /\ Kept(held)'
  BY DEF Run, PathInv, Shapes, Kept
<1> QED BY <1>1, <1>2, <1>6, <1>7, SearchesKeep DEF PathInv, Shapes

(* A route lands: not on a unit that was told to stop, for none is on its  *)
(* way to it.                                                              *)
LEMMA HandOverKeeps == ASSUME PathInv, HandOver PROVE PathInv'
<1> PICK a \in answers :
      /\ \/ /\ plans[a.who] # <<>>
            /\ plans' = [plans EXCEPT ![a.who] = ReplaceLeg(@, a.at)]
         \/ UNCHANGED plans
      /\ answers' = answers \ {a}
      /\ IF answers = {a} THEN pass' \in {"fill", "sweep"} ELSE UNCHANGED pass
  BY DEF HandOver
<1>1. UNCHANGED <<rescue, searches, slotOwner, held>> /\ pass = "hand"
  BY DEF HandOver
<1>2. Kept(plans)' /\ \A u \in Walkers : u # a.who => plans'[u] = plans[u]
  BY DEF PathInv, Shapes, Kept
<1>3. pass' # "hand" => answers' = {}
  BY <1>1
<1>4. Quiet'
  BY <1>1, <1>2, <1>3 DEF PathInv, Quiet, Halted
<1> QED BY <1>1, <1>2, <1>4, NoSearchChanges DEF PathInv, Shapes, Kept

(* The sweeps: a stopped unit has no goal that was given up, and a unit    *)
(* that boards does not travel.                                            *)
LEMMA SweepKeeps == ASSUME PathInv, Sweep PROVE PathInv'
<1> PICK looks \in SUBSET (Remembering \ UsedUp) :
     \E near \in SUBSET looks, asks \in SUBSET Unsearched,
        expired \in SUBSET (Remembering \ (UsedUp \cup looks)) :
       /\ plans' = [u \in Walkers |-> IF u \in looks THEN <<Travel(GivenUp(u))>> ELSE plans[u]]
       /\ searches' = [u \in Walkers |->
                         IF u \in near THEN {}
                         ELSE IF u \in looks THEN Asked(u, GivenUp(u))
                         ELSE IF u \in asks THEN Asked(u, LegOf(u)) ELSE searches[u]]
       /\ slotOwner' = Freed(near)
       /\ rescue' = [u \in Walkers |->
                       IF u \in UsedUp \cup expired THEN {}
                       ELSE IF u \in looks THEN {[at |-> GivenUp(u), tries |-> 1]} ELSE rescue[u]]
  BY DEF Sweep
<1> PICK near \in SUBSET looks, asks \in SUBSET Unsearched :
     \E expired \in SUBSET (Remembering \ (UsedUp \cup looks)) :
       /\ plans' = [u \in Walkers |-> IF u \in looks THEN <<Travel(GivenUp(u))>> ELSE plans[u]]
       /\ searches' = [u \in Walkers |->
                         IF u \in near THEN {}
                         ELSE IF u \in looks THEN Asked(u, GivenUp(u))
                         ELSE IF u \in asks THEN Asked(u, LegOf(u)) ELSE searches[u]]
       /\ slotOwner' = Freed(near)
       /\ rescue' = [u \in Walkers |->
                       IF u \in UsedUp \cup expired THEN {}
                       ELSE IF u \in looks THEN {[at |-> GivenUp(u), tries |-> 1]} ELSE rescue[u]]
  OBVIOUS
<1>1. UNCHANGED <<held, answers>> /\ pass = "sweep" /\ pass' = "walk"
  BY DEF Sweep
<1>2. looks \subseteq Walkers /\ near \subseteq Walkers /\ asks \subseteq Walkers
      /\ \A u \in looks : rescue[u] # {}
  BY DEF Remembering, Unsearched
<1>3. ASSUME NEW u \in Walkers, held[u] PROVE u \notin looks /\ u \notin asks
  <2>1. u \notin looks
    BY <1>2, <1>3 DEF PathInv, Quiet
  <2>2. CASE plans[u] = <<>>
    BY <2>1, <2>2 DEF Unsearched
  <2>3. CASE plans[u] = <<Bare("load")>>
    <3>1. \A i \in DOMAIN plans[u] : plans[u][i].what = "load"
      BY <2>3 DEF Bare
    <3>2. CurrentLeg(plans[u]) = Len(plans[u])
      BY <3>1 DEF CurrentLeg
    <3>3. Len(plans[u]) \in DOMAIN plans[u]
      BY <2>3
    <3> QED BY <2>1, <3>1, <3>2, <3>3 DEF Unsearched
  <2> QED BY <1>3, <2>2, <2>3 DEF PathInv, Quiet, Halted
<1>4. Kept(plans)' /\ Kept(searches)' /\ Kept(rescue)' /\ Kept(held)'
  BY <1>1 DEF Kept, PathInv, Shapes
<1>5. \A u \in Walkers : u \notin looks =>
        plans'[u] = plans[u] /\ (rescue[u] = {} => rescue'[u] = {})
  OBVIOUS
<1>6. \A u \in Walkers : u \notin looks /\ u \notin asks => searches'[u] = searches[u]
  OBVIOUS
<1>7. Quiet'
  BY <1>1, <1>3, <1>5, <1>6 DEF PathInv, Quiet, Halted
<1>8. \A u \in near : searches'[u] = {}
  BY <1>2
<1>9. \A u \in Walkers \ near : searches'[u] = searches[u] \/ \E p : searches'[u] = Asked(u, p)
  OBVIOUS
<1>10. slotOwner' = Freed(near)
  OBVIOUS
<1> QED BY <1>2, <1>4, <1>7, <1>8, <1>9, <1>10, SearchesKeep DEF PathInv, Shapes

(* Arriving, being done, giving up, dying.                                 *)
LEMMA WalksKeeps == ASSUME PathInv, Walks PROVE PathInv'
<1> PICK u \in Walkers : FrontDone(u) \/ Boards(u) \/ GivesUp(u) \/ Unreachable(u) \/ Falls(u)
  BY DEF Walks
<1>1. UNCHANGED <<searches, slotOwner, held, answers, pass>>
  BY DEF Walks
<1>2. /\ Kept(plans)' /\ Kept(rescue)'
      /\ \A v \in Walkers \ {u} : plans'[v] = plans[v] /\ rescue'[v] = rescue[v]
  BY DEF FrontDone, Boards, GivesUp, Unreachable, Falls, Kept, PathInv, Shapes
<1>3. ASSUME Halted(u), rescue[u] = {} PROVE Halted(u)' /\ rescue'[u] = {}
  <2>1. CASE plans[u] = <<>>
    BY <1>3, <2>1 DEF FrontDone, Boards, GivesUp, Unreachable, Falls, Halted, Kept, PathInv, Shapes
  <2>2. CASE plans[u] = <<Bare("load")>>
    <3>1. Head(plans[u]).what = "load" /\ Tail(plans[u]) = <<>>
      BY <2>2 DEF Bare
    <3> QED BY <1>3, <3>1
        DEF FrontDone, Boards, GivesUp, Unreachable, Falls, Halted, Kept, PathInv, Shapes
  <2> QED BY <1>3, <2>1, <2>2 DEF Halted
<1>4. Quiet'
  BY <1>1, <1>2, <1>3 DEF PathInv, Quiet, Halted
<1> QED BY <1>1, <1>2, <1>4, NoSearchChanges DEF PathInv, Shapes, Kept

(* Every step keeps the invariant.                                         *)
LEMMA PathKeeps == ASSUME PathInv, [PathNext]_pathVars PROVE PathInv'
<1>1. CASE \E u \in Walkers : Told(u)
  BY <1>1, ToldKeeps
<1>2. CASE Admit \/ HandOver \/ Sweep \/ Walks
  BY <1>2, AdmitKeeps, HandOverKeeps, SweepKeeps, WalksKeeps
<1>3. CASE SomeRun
  BY <1>3, RunKeeps DEF SomeRun
<1>4. CASE StartSearching \/ RunOver \/ Walked \/ UNCHANGED pathVars
  <2>1. UNCHANGED <<plans, rescue, searches, slotOwner, answers, held>>
        /\ (pass = "hand" => pass' = "hand")
    BY <1>4 DEF StartSearching, RunOver, Walked, pathVars
  <2>2. Quiet'
    BY <2>1 DEF PathInv, Quiet, Halted
  <2> QED BY <2>1, <2>2, NoSearchChanges DEF PathInv, Shapes, Kept
<1> QED BY <1>1, <1>2, <1>3, <1>4 DEF PathNext, PathStep

(* A slot is held by the search that runs in it and by no other            *)
(* (PathService::release, request, cancel and tick).                       *)
THEOREM SlotsAlwaysAgree == PathSpec => []SlotsAgree
<1>1. PathInit => PathInv
  BY PathStarts
<1>2. PathInv /\ [PathNext]_pathVars => PathInv'
  BY PathKeeps
<1>3. PathInv => SlotsAgree
  BY DEF PathInv
<1> QED BY <1>1, <1>2, <1>3, PTL DEF PathSpec

(* A unit told to stop or to board does that until it is told otherwise    *)
(* (World::stop, loadInto, cancelPath).                                    *)
THEOREM StoppedStays == PathSpec => []StopIsStop
<1>1. PathInit => PathInv
  BY PathStarts
<1>2. PathInv /\ [PathNext]_pathVars => PathInv'
  BY PathKeeps
<1>3. PathInv => StopIsStop
  BY DEF PathInv, Quiet, Halted, StopIsStop
<1> QED BY <1>1, <1>2, <1>3, PTL DEF PathSpec

-----------------------------------------------------------------------------
(* The fog of war *)

Sightings == [at : FogCells, los : BOOLEAN]
Grids == [FogCells -> 0 .. 2]

FogTypes ==
  /\ terrain \in Maps /\ remember \in BOOLEAN
  /\ place \in [Watchers \cup Antennas -> FogCells \cup {Nowhere}]
  /\ vis \in Grids /\ visBack \in Grids
  /\ DOMAIN masks \subseteq FogCells /\ misses \subseteq DOMAIN masks
  /\ reveals \subseteq Sightings
  /\ visRunning \in BOOLEAN /\ visDone \in BOOLEAN
  /\ worker \in {"none", "march", "stamp", "over"}

(* A pass is under way while there is a worker, and done when it is over.   *)
OneWorker ==
  /\ visRunning <=> worker # "none"
  /\ visDone <=> worker = "over"
  /\ ~visRunning => misses = {}

(* A mask is that of the ground it is used on, once the worker has filled   *)
(* those that are missing.                                                  *)
TrueMasks ==
  \A c \in DOMAIN masks : (worker = "march" /\ c \in misses) \/ masks[c] = Sight[terrain][c]

(* Without memory a cell is in view or dark. *)
NoGrey(grid) == remember \/ \A c \in FogCells : grid[c] # 1

ViewOf(rs) == UNION {IF r.los THEN Sight[terrain][r.at] ELSE Radar[r.at] : r \in rs}

Remembered == IF remember THEN sighted ELSE latest

(* The pass will show what was gathered for it, and then has. *)
UnderWay ==
  worker \in {"march", "stamp"} =>
    /\ \A r \in reveals : r.los => r.at \in DOMAIN masks
    /\ ViewOf(reveals) = latest
    /\ remember => Lit(visBack) \cup latest = sighted
IsOver == worker = "over" => Lit(visBack) = Remembered

FogInv ==
  /\ FogTypes /\ OneWorker /\ TrueMasks
  /\ NoGrey(vis) /\ NoGrey(visBack)
  /\ latest \subseteq sighted
  /\ UnderWay /\ IsOver /\ TrueToView

-----------------------------------------------------------------------------
USE FogAssumption DEF fogVars, passVars

LEMMA RevealsAre == FogTypes => Reveals \subseteq Sightings
<1> SUFFICES ASSUME FogTypes, NEW r \in Reveals PROVE r \in Sightings
  OBVIOUS
<1>1. PICK u \in Watchers \cup Antennas, los \in BOOLEAN :
        r = [at |-> place[u], los |-> los] /\ place[u] # Nowhere
  BY DEF Reveals
<1>2. place[u] \in FogCells
  BY <1>1 DEF FogTypes
<1>3. QED
  BY <1>1, <1>2 DEF Sightings

LEMMA GatheredIs == InView = ViewOf(Reveals)
BY DEF InView, ViewOf

(* What a pass makes of a grid. *)
LEMMA StampIs ==
  ASSUME NEW grid \in Grids, NEW cache, NEW rs \in SUBSET Sightings, NoGrey(grid),
         terrain \in Maps, remember \in BOOLEAN,
         \A r \in rs : r.los => cache[r.at] = Sight[terrain][r.at]
  PROVE  LET new == Stamped(grid, cache, rs)
         IN  /\ new \in Grids /\ NoGrey(new)
             /\ Lit(new) = ViewOf(rs) \cup (IF remember THEN Lit(grid) ELSE {})
<1> DEFINE lit == UNION {IF r.los THEN cache[r.at] ELSE Radar[r.at] : r \in rs}
           new == Stamped(grid, cache, rs)
<1>1. lit = ViewOf(rs)
  BY DEF ViewOf
<1>2. lit \subseteq FogCells
  <2>1. \A r \in rs : r.at \in FogCells
    BY DEF Sightings
  <2>2. \A r \in rs : (IF r.los THEN Sight[terrain][r.at] ELSE Radar[r.at]) \subseteq FogCells
    BY <2>1
  <2>3. QED
    BY <1>1, <2>2 DEF ViewOf
<1>3. new = [c \in FogCells |-> IF c \in lit THEN 2 ELSE Demoted(grid[c])]
  BY DEF Stamped
<1> HIDE DEF lit, new
<1>4. \A c \in FogCells : /\ grid[c] \in 0 .. 2
                          /\ Demoted(grid[c]) = (IF grid[c] = 2 THEN (IF remember THEN 1 ELSE 0) ELSE grid[c])
  BY DEF Grids, Demoted
<1>5. new \in Grids
  BY <1>3, <1>4 DEF Grids
<1>6. NoGrey(new)
  BY <1>3, <1>4 DEF NoGrey
<1>7. \A c \in FogCells : new[c] > 0 <=> c \in lit \/ (remember /\ grid[c] > 0)
  BY <1>3, <1>4 DEF NoGrey
<1>8. Lit(new) = lit \cup (IF remember THEN Lit(grid) ELSE {})
  BY <1>2, <1>7 DEF Lit
<1>9. QED
  BY <1>1, <1>5, <1>6, <1>8 DEF new

LEMMA DarkIs == Dark \in Grids /\ NoGrey(Dark) /\ Lit(Dark) = {}
BY DEF Dark, Grids, NoGrey, Lit

-----------------------------------------------------------------------------
LEMMA InitFog == FogInit => FogInv
<1> SUFFICES ASSUME FogInit PROVE FogInv
  OBVIOUS
<1>1. FogTypes
  BY DarkIs DEF FogInit, FogTypes, Nowhere
<1>2. OneWorker /\ TrueMasks /\ UnderWay /\ IsOver /\ latest \subseteq sighted
  BY DEF FogInit, OneWorker, TrueMasks, UnderWay, IsOver
<1>3. NoGrey(vis) /\ NoGrey(visBack) /\ TrueToView
  BY DarkIs DEF FogInit, TrueToView
<1>4. QED
  BY <1>1, <1>2, <1>3 DEF FogInv

LEMMA MarchKeeps == FogInv /\ March => FogInv'
<1> SUFFICES ASSUME FogInv, March PROVE FogInv'
  OBVIOUS
<1> USE DEF FogInv, March
<1>1. /\ DOMAIN masks' = DOMAIN masks
      /\ \A c \in DOMAIN masks : masks'[c] = IF c \in misses THEN Sight[terrain][c] ELSE masks[c]
  BY DEF Marched
<1>2. FogTypes'
  BY <1>1 DEF FogTypes
<1>3. TrueMasks'
  BY <1>1 DEF TrueMasks
<1>4. UnderWay'
  BY <1>1 DEF UnderWay, ViewOf, Lit
<1>5. OneWorker' /\ IsOver' /\ TrueToView'
  BY DEF OneWorker, IsOver, TrueToView, Lit
<1>6. NoGrey(vis)' /\ NoGrey(visBack)' /\ (latest \subseteq sighted)'
  BY DEF NoGrey
<1>7. QED
  BY <1>2, <1>3, <1>4, <1>5, <1>6

LEMMA StampKeeps == FogInv /\ Stamp => FogInv'
<1> SUFFICES ASSUME FogInv, Stamp PROVE FogInv'
  OBVIOUS
<1> USE DEF FogInv, Stamp
<1>1. \A r \in reveals : r.los => masks[r.at] = Sight[terrain][r.at]
  BY DEF UnderWay, TrueMasks
<1>2. /\ visBack' \in Grids /\ NoGrey(visBack')
      /\ Lit(visBack') = ViewOf(reveals) \cup (IF remember THEN Lit(visBack) ELSE {})
  BY <1>1, StampIs DEF FogTypes
<1>3. Lit(visBack') = Remembered
  BY <1>2 DEF UnderWay, Remembered
<1>4. FogTypes'
  BY <1>2 DEF FogTypes
<1>5. OneWorker' /\ TrueMasks' /\ UnderWay' /\ TrueToView'
  BY DEF OneWorker, TrueMasks, UnderWay, TrueToView, Lit
<1>6. IsOver'
  BY <1>3 DEF IsOver, Remembered, Lit
<1>7. NoGrey(vis)' /\ NoGrey(visBack)' /\ (latest \subseteq sighted)'
  BY <1>2 DEF NoGrey
<1>8. QED
  BY <1>4, <1>5, <1>6, <1>7

(* Steps of the simulation thread that leave the fog alone. *)
LEMMA FogUntouched ==
  ASSUME FogInv, UNCHANGED <<terrain, remember, vis, sighted, latest, passVars>>,
         place' \in [Watchers \cup Antennas -> FogCells \cup {Nowhere}]
  PROVE  FogInv'
<1> USE DEF FogInv
<1>1. FogTypes' /\ OneWorker' /\ TrueMasks'
  BY DEF FogTypes, OneWorker, TrueMasks
<1>2. UnderWay' /\ IsOver' /\ TrueToView'
  BY DEF UnderWay, IsOver, TrueToView, Lit, ViewOf, Remembered
<1>3. NoGrey(vis)' /\ NoGrey(visBack)' /\ (latest \subseteq sighted)'
  BY DEF NoGrey
<1>4. QED
  BY <1>1, <1>2, <1>3

LEMMA PumpKeeps == FogInv /\ Pump => FogInv'
<1> SUFFICES ASSUME FogInv, Pump PROVE FogInv'
  OBVIOUS
<1> USE DEF FogInv
<1>1. CASE ~Landed
  BY <1>1, FogUntouched DEF Pump, FogTypes
<1>2. CASE Landed
  <2>1. /\ vis' = visBack /\ visBack' = Dark /\ reveals' = {} /\ misses' = {}
        /\ visRunning' = FALSE /\ visDone' = FALSE /\ worker' = "none" /\ worker = "over"
        /\ UNCHANGED <<terrain, remember, place, masks, sighted, latest>>
    BY <1>2 DEF Pump
  <2>2. FogTypes'
    BY <2>1, DarkIs DEF FogTypes
  <2>3. OneWorker' /\ TrueMasks' /\ UnderWay' /\ IsOver'
    BY <2>1 DEF OneWorker, TrueMasks, UnderWay, IsOver
  <2>4. TrueToView'
    BY <2>1 DEF IsOver, Remembered, TrueToView, Lit
  <2>5. NoGrey(vis)' /\ NoGrey(visBack)' /\ (latest \subseteq sighted)'
    BY <2>1, DarkIs DEF NoGrey
  <2>6. QED
    BY <2>2, <2>3, <2>4, <2>5
<1>3. QED
  BY <1>1, <1>2

LEMMA UpdateKeeps == FogInv /\ Update => FogInv'
<1> SUFFICES ASSUME FogInv, Update PROVE FogInv'
  OBVIOUS
<1> USE DEF FogInv
<1> DEFINE new == SeenFrom \ KeptMasks
           cache == [c \in KeptMasks \cup SeenFrom |-> IF c \in KeptMasks THEN masks[c] ELSE {}]
<1>1. /\ ~visRunning /\ worker = "none" /\ ~visDone
      /\ latest' = InView /\ sighted' = sighted \cup InView
      /\ UNCHANGED <<terrain, remember, place>>
  BY DEF Update, OneWorker, FogTypes
<1>2. Reveals \subseteq Sightings /\ InView = ViewOf(Reveals)
  BY RevealsAre, GatheredIs
<1>3. /\ KeptMasks \subseteq DOMAIN masks /\ SeenFrom \subseteq FogCells
      /\ \A r \in Reveals : r.los => r.at \in SeenFrom
  BY <1>2 DEF KeptMasks, SeenFrom, Sightings
<1>4. Lit(vis) = Remembered
  BY <1>1 DEF TrueToView, Remembered
<1>5. /\ new \subseteq KeptMasks \cup SeenFrom /\ KeptMasks \cup SeenFrom \subseteq FogCells
      /\ \A c \in KeptMasks \cup SeenFrom : c \notin new => cache[c] = Sight[terrain][c]
  BY <1>1, <1>3 DEF TrueMasks, FogTypes
<1>6. DOMAIN cache = KeptMasks \cup SeenFrom
  OBVIOUS
<1> HIDE DEF new, cache
<1>7. CASE visHavePass
  <2>1. /\ masks' = cache /\ visBack' = vis /\ reveals' = Reveals /\ misses' = new
        /\ visRunning' = TRUE /\ visDone' = FALSE /\ worker' = "march" /\ vis' = vis
    BY <1>7 DEF Update, new, cache
  <2>2. FogTypes'
    BY <1>1, <1>2, <1>5, <1>6, <2>1 DEF FogTypes
  <2>3. OneWorker' /\ TrueMasks' /\ IsOver'
    BY <1>1, <1>5, <1>6, <2>1 DEF OneWorker, TrueMasks, IsOver
  <2>4. UnderWay'
    <3>1. \A r \in reveals' : r.los => r.at \in DOMAIN masks'
      BY <1>3, <1>6, <2>1
    <3>2. ViewOf(reveals)' = latest'
      BY <1>1, <1>2, <2>1 DEF ViewOf
    <3>3. (remember => Lit(visBack) \cup latest = sighted)'
      BY <1>1, <1>4, <2>1 DEF Lit, Remembered
    <3>4. QED
      BY <3>1, <3>2, <3>3 DEF UnderWay
  <2>5. TrueToView'
    BY <1>1, <1>4, <2>1 DEF TrueToView, Lit, Remembered
  <2>6. NoGrey(vis)' /\ NoGrey(visBack)' /\ (latest \subseteq sighted)'
    BY <1>1, <2>1 DEF NoGrey
  <2>7. QED
    BY <2>2, <2>3, <2>4, <2>5, <2>6
<1>8. CASE ~visHavePass
  <2>1. /\ masks' = Marched(cache, new) /\ vis' = Stamped(vis, masks', Reveals)
        /\ UNCHANGED <<visBack, reveals, misses, visRunning, visDone, worker>>
    BY <1>8 DEF Update, new, cache
  <2>2. /\ DOMAIN masks' = KeptMasks \cup SeenFrom
        /\ \A c \in DOMAIN masks' : masks'[c] = Sight[terrain][c]
    BY <1>5, <1>6, <2>1 DEF Marched
  <2>3. \A r \in Reveals : r.los => masks'[r.at] = Sight[terrain][r.at]
    BY <1>3, <2>2
  <2>4. /\ vis' \in Grids /\ NoGrey(vis')
        /\ Lit(vis') = ViewOf(Reveals) \cup (IF remember THEN Lit(vis) ELSE {})
    BY <1>2, <2>1, <2>3, StampIs DEF FogTypes
  <2>5. misses = {}
    BY <1>1 DEF OneWorker
  <2>6. FogTypes'
    BY <1>1, <1>5, <2>1, <2>2, <2>4, <2>5 DEF FogTypes
  <2>7. OneWorker' /\ TrueMasks' /\ UnderWay' /\ IsOver'
    BY <1>1, <2>1, <2>2 DEF OneWorker, TrueMasks, UnderWay, IsOver
  <2>8. TrueToView'
    <3>1. Lit(vis)' = Lit(vis')
      BY DEF Lit
    <3>2. QED
      BY <1>1, <1>2, <1>4, <2>1, <2>4, <3>1 DEF TrueToView, Remembered
  <2>9. NoGrey(vis)' /\ NoGrey(visBack)' /\ (latest \subseteq sighted)'
    BY <1>1, <2>1, <2>4 DEF NoGrey
  <2>10. QED
    BY <2>6, <2>7, <2>8, <2>9
<1>9. QED
  BY <1>7, <1>8

LEMMA ReloadKeeps == FogInv /\ Reload => FogInv'
<1> SUFFICES ASSUME FogInv, Reload PROVE FogInv'
  OBVIOUS
<1> USE DEF FogInv
<1>1. /\ vis' = Dark /\ visBack' = Dark /\ reveals' = {} /\ misses' = {} /\ DOMAIN masks' = {}
      /\ visRunning' = FALSE /\ worker' = "none" /\ sighted' = {} /\ latest' = {}
      /\ terrain' \in Maps /\ remember' = remember
      /\ place' = [u \in Watchers \cup Antennas |-> Nowhere]
  BY DEF Reload, NoMasks
<1>2. visDone' = FALSE
  BY DEF Reload, OneWorker, FogTypes
<1>3. FogTypes'
  BY <1>1, <1>2, DarkIs DEF FogTypes
<1>4. OneWorker' /\ TrueMasks' /\ UnderWay' /\ IsOver'
  BY <1>1, <1>2 DEF OneWorker, TrueMasks, UnderWay, IsOver
<1>5. TrueToView'
  BY <1>1, DarkIs DEF TrueToView, Lit
<1>6. NoGrey(vis)' /\ NoGrey(visBack)' /\ (latest \subseteq sighted)'
  BY <1>1, DarkIs DEF NoGrey
<1>7. QED
  BY <1>3, <1>4, <1>5, <1>6

(* Grids, masks and the pass under way belong to this match on this ground  *)
(* (updateVisibility, visGather, visCompute, visPump, setTerrain).          *)
THEOREM FogIsInductive == FogSpec => []FogInv
<1>1. FogInv /\ [FogNext]_fogVars => FogInv'
  <2> SUFFICES ASSUME FogInv, [FogNext]_fogVars PROVE FogInv'
    OBVIOUS
  <2>1. CASE Moves \/ NoBeat \/ UNCHANGED fogVars
    BY <2>1, FogUntouched DEF Moves, NoBeat, FogInv, FogTypes
  <2>2. QED
    BY <2>1, PumpKeeps, UpdateKeeps, MarchKeeps, StampKeeps, ReloadKeeps
       DEF FogNext, Tick, FogWorker
<1>2. QED
  BY <1>1, InitFog, PTL DEF FogSpec

(* What is lit was in view in this match, on this map, and when no pass is  *)
(* under way all that was in view, or is, is lit (updateVisibility).        *)
THEOREM FogIsTrue == FogSpec => []TrueToView
<1>1. FogInv => TrueToView
  BY DEF FogInv
<1>2. QED
  BY <1>1, FogIsInductive, PTL
=============================================================================
