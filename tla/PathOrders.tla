----------------------------- MODULE PathOrders -----------------------------
(***************************************************************************)
(* Units on their way and the routes that are searched for them: the order *)
(* lists (sim/sim.cpp: order, attack, orderWait, loadInto, stop, and the   *)
(* passes of World::tick that edit them) and the queue of searches with    *)
(* its pool of slots (sim/pathsearch.cpp, PathService).                    *)
(*                                                                         *)
(* A search outlives the orders it was asked for: the queue knows a unit's *)
(* id and a destination, and whatever list the unit has when the route     *)
(* arrives is the one that is rewritten.                                   *)
(*                                                                         *)
(* A position is a destination or no place in particular; how near a unit  *)
(* is, whether a search succeeds and when the staggered sweeps reach a     *)
(* unit are chosen freely.  A route is its destination: its waypoints, the *)
(* detour count and the choice of planner are left out.  Guarding and the  *)
(* builder's orders enter a list as an attack does, waiting for an enemy   *)
(* as a wait does; putting passengers off is left out (see Transport).     *)
(* Nobody acquires a target of his own accord.                             *)
(***************************************************************************)
EXTENDS Integers, Sequences, FiniteSets

CONSTANTS Walkers,      \* unit ids
          Points,       \* where they can be sent
          NoPoint,
          Slots,        \* kMaxActiveSearches: searches with scratch of their own
          MaxPlan,      \* bound: orders a list holds
          MaxOrdered    \* bound: commands given

ASSUME PathAssumption ==
  /\ Walkers \subseteq Nat \ {0} /\ Slots \in Nat \ {0}
  /\ MaxPlan \in Nat /\ MaxOrdered \in Nat

VARIABLES plans,        \* plans[u]: Unit::orders
          living,       \* living[u]
          rescue,       \* rescue[u]: abandoned_, as a set of at most one record
          searches,     \* searches[u]: the entry of q_, as a set of at most one
          slotOwner,    \* slotOwner_[s], 0 for none
          cursor,       \* admitCursor_
          ran,          \* who had a slice this tick (Entry::ranAt)
          answers,      \* finished searches not handed over yet
          round,        \* rounds of admission and running in this tick
          pass,         \* where World::tick is
          held,         \* history: whose last command was to stop or to board
          ordered       \* commands given

pathVars == <<plans, living, rescue, searches, slotOwner, cursor, ran, answers,
              round, pass, held, ordered>>

SlotIds == 1..Slots
Travel(p) == [what |-> "move", at |-> p]
Pause(p) == [what |-> "wait", at |-> p]
Bare(what) == [what |-> what, at |-> NoPoint]
Errands == UNION {{Travel(p), Pause(p)} : p \in Points} \cup {Bare("attack"), Bare("load")}

PathInit ==
  /\ plans = [u \in Walkers |-> <<>>] /\ living = [u \in Walkers |-> TRUE]
  /\ rescue = [u \in Walkers |-> {}] /\ searches = [u \in Walkers |-> {}]
  /\ slotOwner = [s \in SlotIds |-> 0] /\ cursor = 0 /\ ran = {}
  /\ answers = {} /\ round = 0 /\ pass = "orders"
  /\ held = [u \in Walkers |-> FALSE] /\ ordered = 0

----------------------------------------------------------------------------
(* The queue of searches.                                                  *)

Waiting == {u \in Walkers : \E e \in searches[u] : e.slot = 0}
Searching == {u \in Walkers : \E e \in searches[u] : e.slot # 0}

(* A new destination keeps the slot, the search restarts in place.         *)
Asked(u, p) == {[at |-> p, slot |-> IF u \in Searching THEN (CHOOSE e \in searches[u] : TRUE).slot
                                    ELSE 0]}
Freed(S) == [s \in SlotIds |-> IF slotOwner[s] \in S THEN 0 ELSE slotOwner[s]]

(* requestPath: a destination close by is not worth a search, and drops    *)
(* the one that was running.                                               *)
RequestPath(u, p) ==
  \/ /\ searches' = [searches EXCEPT ![u] = Asked(u, p)]
     /\ UNCHANGED slotOwner
  \/ /\ searches' = [searches EXCEPT ![u] = {}]
     /\ slotOwner' = Freed({u})

(* cancelPath; and what it would be if it left the slot, or the goal that  *)
(* was given up.                                                           *)
CancelPath_KeepsSlot(u) ==
  /\ searches' = [searches EXCEPT ![u] = {}]
  /\ rescue' = [rescue EXCEPT ![u] = {}]
  /\ UNCHANGED slotOwner
CancelPath_Remembers(u) ==
  /\ searches' = [searches EXCEPT ![u] = {}]
  /\ slotOwner' = Freed({u})
  /\ UNCHANGED rescue
CancelPath(u) ==
  /\ searches' = [searches EXCEPT ![u] = {}]
  /\ slotOwner' = Freed({u})
  /\ rescue' = [rescue EXCEPT ![u] = {}]

----------------------------------------------------------------------------
(* The list.                                                               *)

(* An order of a move or an attack ends a leg; without one the whole list  *)
(* is the leg.                                                             *)
CurrentLeg(q) ==
  LET ends == {i \in DOMAIN q : q[i].what \in {"move", "attack"}}
  IN IF ends = {} THEN Len(q) ELSE CHOOSE i \in ends : \A j \in ends : i <= j
After(q, i) == SubSeq(q, i + 1, Len(q))
DropLeg(q) == After(q, CurrentLeg(q))
ReplaceLeg(q, p) == <<Travel(p)>> \o DropLeg(q)
Added(u, o, queue) == [plans EXCEPT ![u] = IF queue THEN Append(@, o) ELSE <<o>>]

----------------------------------------------------------------------------
(* Commands, applied before the tick.                                      *)

Commanded(u, as) ==
  /\ pass = "orders" /\ living[u] /\ ordered < MaxOrdered
  /\ ordered' = ordered + 1
  /\ held' = [held EXCEPT ![u] = as]
  /\ UNCHANGED <<living, cursor, ran, answers, round, pass>>

OrderMove(u, p, queue) ==
  /\ Commanded(u, FALSE)
  /\ queue => Len(plans[u]) < MaxPlan
  /\ plans' = Added(u, Travel(p), queue)
  /\ rescue' = [rescue EXCEPT ![u] = {}]
  /\ IF queue /\ plans[u] # <<>> THEN UNCHANGED <<searches, slotOwner>> ELSE RequestPath(u, p)

(* Neither an attack nor a wait, which is told where the unit stands, asks *)
(* for a route, and neither drops the one being searched.                  *)
OrderBare(u, o, queue) ==
  /\ Commanded(u, FALSE)
  /\ queue => Len(plans[u]) < MaxPlan
  /\ plans' = Added(u, o, queue)
  /\ UNCHANGED <<rescue, searches, slotOwner>>

LoadInto(u) ==
  /\ Commanded(u, TRUE)
  /\ plans' = [plans EXCEPT ![u] = <<Bare("load")>>]
  /\ CancelPath(u)

StopWalking(u) ==
  /\ Commanded(u, TRUE)
  /\ plans' = [plans EXCEPT ![u] = <<>>]
  /\ CancelPath(u)

Told(u) ==
  \/ \E p \in Points, queue \in BOOLEAN : OrderMove(u, p, queue)
  \/ \E p \in Points, queue \in BOOLEAN :
       \E o \in {Bare("attack"), Pause(p)} : OrderBare(u, o, queue)
  \/ LoadInto(u)
  \/ StopWalking(u)

----------------------------------------------------------------------------
(* PathService::tick: rounds of filling the free slots, giving a slice to  *)
(* every search that had none this tick, and handing over what finished.   *)

StartSearching ==
  /\ pass = "orders"
  /\ pass' = IF Waiting \cup Searching = {} THEN "sweep" ELSE "fill"
  /\ ran' = {} /\ round' = 0
  /\ UNCHANGED <<plans, living, rescue, searches, slotOwner, cursor, answers, held, ordered>>

(* The next to be admitted, in the order of ids after the last admitted;   *)
(* not simply the lowest.                                                  *)
Lowest(S) == CHOOSE u \in S : \A v \in S : u <= v
NextIn_FromTheFirst(S) == Lowest(S)
NextIn(S) == LET later == {u \in S : u > cursor} IN Lowest(IF later # {} THEN later ELSE S)

FreeSlots == {s \in SlotIds : slotOwner[s] = 0}
Admit ==
  /\ pass = "fill"
  /\ \E u \in Waiting, s \in FreeSlots :
       /\ u = NextIn(Waiting) /\ s = Lowest(FreeSlots)
       /\ searches' = [searches EXCEPT ![u] = {[at |-> e.at, slot |-> s] : e \in @}]
       /\ slotOwner' = [slotOwner EXCEPT ![s] = u]
       /\ cursor' = u
  /\ UNCHANGED <<plans, living, rescue, ran, answers, round, pass, held, ordered>>

(* Nobody is left to be admitted, or no slot.                              *)
Filled == Waiting = {} \/ FreeSlots = {}

Runnable == Searching \ ran

(* Whoever is reached before the budget is spent gets a slice, the lowest  *)
(* ids first; what finishes leaves the queue and its slot at once.         *)
Run(S, F) ==
  /\ pass = "fill" /\ Filled /\ S # {}
  /\ \A u \in S, v \in Runnable \ S : u < v
  /\ ran' = (ran \cup S) \ F
  /\ searches' = [u \in Walkers |-> IF u \in F THEN {} ELSE searches[u]]
  /\ slotOwner' = Freed(F)
  /\ \E found \in [F -> BOOLEAN] :
       answers' = UNION {{[who |-> u, at |-> e.at, found |-> found[u]] : e \in searches[u]} : u \in F}
  /\ pass' = IF F = {} THEN "sweep" ELSE "hand"
  /\ UNCHANGED <<plans, living, rescue, cursor, round, held, ordered>>

SomeRun == \E S \in SUBSET Runnable : \E F \in SUBSET S : Run(S, F)

(* Nobody is left to run, or what finished has used up the budget.         *)
RunOver ==
  /\ pass = "fill" /\ Filled /\ (Runnable = {} \/ round > 0)
  /\ pass' = "sweep"
  /\ UNCHANGED <<plans, living, rescue, searches, slotOwner, cursor, ran, answers, round,
                 held, ordered>>

(* A route that connects to the unit becomes its current leg, whatever     *)
(* the list holds by now.                                                  *)
HandOver ==
  /\ pass = "hand"
  /\ \E a \in answers :
       /\ \A b \in answers : a.who <= b.who
       /\ \/ /\ a.found /\ living[a.who] /\ plans[a.who] # <<>>
             /\ plans' = [plans EXCEPT ![a.who] = ReplaceLeg(@, a.at)]
          \/ UNCHANGED plans
       /\ answers' = answers \ {a}
       /\ IF answers = {a}
          THEN /\ round' = IF round < Slots THEN round + 1 ELSE round
               /\ pass' = IF round < Slots THEN "fill" ELSE "sweep"
          ELSE UNCHANGED <<round, pass>>
  /\ UNCHANGED <<living, rescue, searches, slotOwner, cursor, ran, held, ordered>>

----------------------------------------------------------------------------
(* The sweeps of World::tick after the routes have landed.                 *)

Remembering == {u \in Walkers : living[u] /\ plans[u] = <<>> /\ rescue[u] # {}}
UsedUp == {u \in Remembering : \E r \in rescue[u] : r.tries >= 1}
Unsearched == {u \in Walkers : /\ living[u] /\ plans[u] # <<>> /\ searches[u] = {}
                               /\ plans[u][CurrentLeg(plans[u])].what \in {"move", "wait"}}
GivenUp(u) == (CHOOSE r \in rescue[u] : TRUE).at
LegOf(u) == plans[u][CurrentLeg(plans[u])].at

(* A record that is used up or has expired is dropped; another one may be  *)
(* looked at a second time, which orders its goal once more (near those    *)
(* for whom it is too close to search).  Then whoever has a leg without a  *)
(* target that nothing is searched for may be asked for again: for a wait, *)
(* to where the unit stood when it was told to.                            *)
Sweep ==
  /\ pass = "sweep"
  /\ \E looks \in SUBSET (Remembering \ UsedUp) :
       \E near \in SUBSET looks, asks \in SUBSET Unsearched,
          expired \in SUBSET (Remembering \ (UsedUp \cup looks)) :
         /\ plans' = [u \in Walkers |-> IF u \in looks THEN <<Travel(GivenUp(u))>> ELSE plans[u]]
         /\ searches' = [u \in Walkers |->
                           IF u \in near THEN {}
                           ELSE IF u \in looks THEN Asked(u, GivenUp(u))
                           ELSE IF u \in asks THEN Asked(u, LegOf(u)) ELSE searches[u]]
         /\ slotOwner' = Freed(near)
         /\ rescue' = [u \in Walkers |->
                         IF u \in UsedUp \cup expired THEN {}
                         ELSE IF u \in looks THEN {[at |-> GivenUp(u), tries |-> 1]} ELSE rescue[u]]
  /\ pass' = "walk"
  /\ UNCHANGED <<living, cursor, ran, answers, round, held, ordered>>

----------------------------------------------------------------------------
(* The pass over the units: arriving, being done, giving up, dying.        *)

(* The front order is done: a point reached, a wait over, a target dead, a *)
(* transport full or gone.                                                 *)
FrontDone(u) ==
  /\ plans[u] # <<>>
  /\ plans' = [plans EXCEPT ![u] = Tail(@)]
  /\ UNCHANGED <<living, rescue>>

(* Boarding clears the whole list.                                         *)
Boards(u) ==
  /\ plans[u] # <<>> /\ Head(plans[u]).what = "load"
  /\ plans' = [plans EXCEPT ![u] = <<>>]
  /\ UNCHANGED <<living, rescue>>

(* A leg nothing leads to is dropped; one given up after twenty seconds is *)
(* remembered when it was the last.                                        *)
GivesUp(u) ==
  /\ plans[u] # <<>> /\ Head(plans[u]).what = "move"
  /\ plans' = [plans EXCEPT ![u] = DropLeg(@)]
  /\ rescue' = IF plans'[u] = <<>> /\ \A r \in rescue[u] : r.tries = 0
               THEN [rescue EXCEPT ![u] = {[at |-> plans[u][Len(plans[u])].at, tries |-> 0]}]
               ELSE rescue
  /\ UNCHANGED living

Unreachable(u) ==
  /\ plans[u] # <<>> /\ Head(plans[u]).what = "move"
  /\ plans' = [plans EXCEPT ![u] = DropLeg(@)]
  /\ UNCHANGED <<living, rescue>>

Falls(u) ==
  /\ living' = [living EXCEPT ![u] = FALSE]
  /\ plans' = [plans EXCEPT ![u] = <<>>]
  /\ rescue' = [rescue EXCEPT ![u] = {}]

Walks ==
  /\ pass = "walk"
  /\ \E u \in Walkers : living[u] /\ (\/ FrontDone(u) \/ Boards(u) \/ GivesUp(u)
                                      \/ Unreachable(u) \/ Falls(u))
  /\ UNCHANGED <<searches, slotOwner, cursor, ran, answers, round, pass, held, ordered>>

Walked ==
  /\ pass = "walk"
  /\ pass' = "orders"
  /\ UNCHANGED <<plans, living, rescue, searches, slotOwner, cursor, ran, answers, round,
                 held, ordered>>

----------------------------------------------------------------------------
PathStep == \/ StartSearching \/ Admit \/ SomeRun \/ RunOver \/ HandOver
            \/ Sweep \/ Walked
PathNext == (\E u \in Walkers : Told(u)) \/ PathStep \/ Walks

(* The tick runs to its end, and a search that is given slices finishes:   *)
(* the cells it may visit are counted (visitLimit), and the slices go to   *)
(* all who hold a slot as long as the others finish no more than once per  *)
(* period of asking again.                                                 *)
PathFairness ==
  /\ WF_pathVars(PathStep)
  /\ \A u \in Walkers : SF_pathVars(\E S \in SUBSET Runnable : \E F \in SUBSET S : u \in F /\ Run(S, F))
PathSpec == PathInit /\ [][PathNext]_pathVars /\ PathFairness

----------------------------------------------------------------------------
(* Properties                                                              *)

(* The pool and the queue name each other: a slot is held by the search    *)
(* that runs in it and by nobody else, and none is lost when a search is   *)
(* cancelled, restarted or handed over.                                    *)
SlotsAgree ==
  \A s \in SlotIds, u \in Walkers : slotOwner[s] = u <=> \E e \in searches[u] : e.slot = s

(* A unit told to stop or to board does just that until it is told         *)
(* otherwise: no route that was in flight and no second look at a goal it  *)
(* gave up sends it anywhere.                                              *)
StopIsStop ==
  \A u \in Walkers : held[u] => plans[u] \in {<<>>, <<Bare("load")>>}

(* No search waits for ever: a unit whose id is low and who asks again and *)
(* again does not keep the slots from the others (pathsearch.h:225).       *)
Served == \A u \in Walkers : []<>(u \notin Waiting)

(* A route that lands replaces the leg it was searched for and nothing     *)
(* else (sim.cpp:5012).                                                    *)
Others(q, p) == {q[i] : i \in DOMAIN q} \ {Travel(p), Pause(p)}
OnlyItsLeg ==
  [][pass = "hand" =>
       \A a \in answers \ answers' : Others(plans[a.who], a.at) \subseteq Others(plans'[a.who], a.at)]_pathVars

=============================================================================
