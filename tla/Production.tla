----------------------------- MODULE Production -----------------------------
(***************************************************************************)
(* What factories turn out: the training queue of a unit (train, dequeue,  *)
(* setRepeat, stop), the work on what stands first in it, the limits on a  *)
(* player's living units and on those of one kind, and capture, by which a *)
(* unit changes hands with all it was doing (sim/sim.cpp).                 *)
(*                                                                         *)
(* A tick gives every unit with a queue its turn, by id; then units are    *)
(* completed, captured and swept; then builders place the sites that have  *)
(* come due; then updateOutcome counts.  Commands come between ticks.  The *)
(* limit is tested against a count that is kept as units appear and change *)
(* hands; those that die stay in it until the end of the tick.             *)
(*                                                                         *)
(* Money is whether this tick's share of the work is paid.  Places are     *)
(* left out: the exit is free or not, a charmer reaches any enemy, and a   *)
(* builder any spot.  All players are enemies and every kind of unit can   *)
(* be captured.  What the dead had in their queues is forgotten: nothing   *)
(* acts on it again.  Orders and rally plans are PathOrders', the sites'   *)
(* progress BuildOrders'.                                                  *)
(***************************************************************************)
EXTENDS Naturals, Sequences, FiniteSets, SequencesExt

CONSTANTS
  Players,
  Kinds,        \* unit types
  Trained,      \* those that are trained in a queue
  Placed,       \* those that are placed as sites
  Masons,       \* those that place them: mobile builders
  Charmers,     \* canCapture
  Allowed,      \* totalAllowed of a kind, 0 for no limit
  UnitCap,      \* unitCap_, the lobby's limit
  Start,        \* the units at the start: [owner, kind]
  MaxUnits,     \* bound: units in a game
  MaxTold       \* bound: commands

NoKind == "none"

ASSUME ProductionAssumption ==
  /\ NoKind \notin Kinds
  /\ Trained \cup Placed \cup Masons \cup Charmers \subseteq Kinds
  /\ Allowed \in [Kinds -> Nat] /\ UnitCap \in Nat \ {0}
  /\ Start \in Seq([owner : Players, kind : Kinds])
  /\ MaxUnits \in Nat /\ MaxTold \in Nat

VARIABLES
  units,        \* units_, by id: owner, kind, and whether it is done, a site or dead
  line,         \* line[u]: buildQueue, buildProgress and repeatType
  unitCount,    \* Player::unitCount
  stage,        \* "commands", "units", "placing"
  turns,        \* the units whose turn to produce is to come
  told

productionVars == <<units, line, unitCount, stage, turns, told>>

Ids == DOMAIN units

Alive(u) == units[u].state # "dead"

Army(p) == {u \in Ids : Alive(u) /\ units[u].owner = p}

(* buildProgress: nothing paid, some, all, and all with 2.5 s of waiting.   *)
Levels == 0 .. 3
AllPaid == 2
Overdue == 3

Empty == [queue |-> <<>>, work |-> 0, repeat |-> NoKind]

ProductionInit ==
  /\ units = [u \in DOMAIN Start |-> [owner |-> Start[u].owner, kind |-> Start[u].kind,
                                      state |-> "done"]]
  /\ line = [u \in DOMAIN Start |-> Empty]
  /\ unitCount = [p \in Players |-> Cardinality(Army(p))]
  /\ stage = "commands" /\ turns = {} /\ told = 0

-----------------------------------------------------------------------------
(* Commands of the unit's owner. *)

Commanded(u, as) ==
  /\ stage = "commands" /\ told < MaxTold /\ Alive(u)
  /\ told' = told + 1
  /\ line' = [line EXCEPT ![u] = as]
  /\ UNCHANGED <<units, unitCount, stage, turns>>

Train(u, k) == Commanded(u, [line[u] EXCEPT !.queue = Append(@, k)])

Places(u, k) == {i \in DOMAIN line[u].queue : line[u].queue[i] = k}

(* Mutant of Struck: what was paid for the first is credited to the next. *)
Struck_KeepsWork(u, i) == [line[u] EXCEPT !.queue = RemoveAt(@, i)]

(* The queue without its i-th; without its first, the work done is lost. *)
Struck(u, i) ==
  [line[u] EXCEPT !.queue = RemoveAt(@, i), !.work = IF i = 1 THEN 0 ELSE @]

(* The newest of its kind goes, and with the last of them the repetition. *)
Dequeue(u, k) ==
  LET i == CHOOSE j \in Places(u, k) : \A h \in Places(u, k) : h <= j
      left == IF Places(u, k) = {} THEN line[u] ELSE Struck(u, i)
  IN Commanded(u, [left EXCEPT !.repeat = IF @ = k /\ k \notin Range(left.queue)
                                            THEN NoKind ELSE @])

SetRepeat(u, k) ==
  Commanded(u,
    IF line[u].repeat = k THEN Empty
    ELSE [line[u] EXCEPT !.repeat = k, !.queue = IF @ = <<>> THEN <<k>> ELSE @])

Halt(u) == Commanded(u, Empty)

(* cancelBuilds and removeSite: a site nobody has begun is taken away. *)
CancelSite(u) ==
  /\ stage = "commands" /\ told < MaxTold /\ units[u].state = "site"
  /\ told' = told + 1
  /\ units' = [units EXCEPT ![u].state = "dead"]
  /\ line' = [line EXCEPT ![u] = Empty]
  /\ UNCHANGED <<unitCount, stage, turns>>

-----------------------------------------------------------------------------
(* The tick. *)

(* Whose turn will do something. *)
Producing == {u \in Ids : units[u].state = "done" /\ line[u].queue # <<>>}

BeginProduction ==
  /\ stage = "commands"
  /\ stage' = "units" /\ turns' = Producing
  /\ UNCHANGED <<units, line, unitCount, told>>

AtUnitCap(p) == unitCount[p] >= UnitCap

AtTypeCap(p, k) ==
  Allowed[k] > 0 /\ Cardinality({u \in Army(p) : units[u].kind = k}) >= Allowed[k]

(* spawn puts the unit into its owner's count at once. *)
Counted(p) == [unitCount EXCEPT ![p] = @ + 1]

(* A limit forbids it; here, so does the bound. *)
Barred(p, k) == AtUnitCap(p) \/ AtTypeCap(p, k) \/ Len(units) = MaxUnits

(* spawn, with the queues as they are then. *)
Spawn(p, k, state, lines) ==
  /\ units' = Append(units, [owner |-> p, kind |-> k, state |-> state])
  /\ line' = Append(lines, Empty)
  /\ unitCount' = Counted(p)

(* The work after this tick's share, which is paid or not. *)
Paid(w) == IF w >= AllPaid THEN {w} ELSE {w, 1, AllPaid}

(* u goes on working, is held at a limit, or waits for its exit. *)
Works(u) ==
  LET held == Barred(units[u].owner, Head(line[u].queue)) IN
  /\ \E w \in Paid(line[u].work) :
       \/ /\ w < AllPaid \/ held
          /\ line' = [line EXCEPT ![u].work = w]
       \/ /\ w = AllPaid /\ ~ held
          /\ \E later \in {AllPaid, Overdue} : line' = [line EXCEPT ![u].work = later]
  /\ UNCHANGED <<units, unitCount>>

(* The queue when its first is out: refilled if it is empty and repeats. *)
Popped(u) ==
  LET rest == Tail(line[u].queue) IN
  [line[u] EXCEPT !.work = 0,
                  !.queue = IF rest = <<>> /\ line[u].repeat # NoKind
                              THEN <<line[u].repeat>> ELSE rest]

Emerges(u) ==
  LET k == Head(line[u].queue) IN
  /\ \E w \in Paid(line[u].work) : w >= AllPaid
  /\ ~ Barred(units[u].owner, k)
  /\ Spawn(units[u].owner, k, "done", [line EXCEPT ![u] = Popped(u)])

TickProduction(u) ==
  /\ u \in turns /\ \A v \in turns : u <= v
  /\ Works(u) \/ Emerges(u)
  /\ turns' = turns \ {u}
  /\ UNCHANGED <<stage, told>>

(* Mutant of Handed: captures are left to the count at the end of the tick. *)
Handed_Later(from, to) == unitCount

(* captureUnit moves the unit between the counts at once. *)
Handed(from, to) ==
  [unitCount EXCEPT ![from] = IF @ > 0 THEN @ - 1 ELSE 0, ![to] = @ + 1]

Fighting == stage = "units" /\ turns = {}

(* The captive's queue is emptied; what it was to repeat is kept. *)
CaptureUnit(c, t) ==
  /\ Fighting
  /\ units[c].state = "done" /\ units[c].kind \in Charmers
  /\ Alive(t) /\ units[t].owner # units[c].owner
  /\ units' = [units EXCEPT ![t].owner = units[c].owner]
  /\ unitCount' = Handed(units[t].owner, units[c].owner)
  /\ line' = [line EXCEPT ![t].queue = <<>>, ![t].work = 0]
  /\ UNCHANGED <<stage, turns, told>>

(* A site is finished, and a unit killed, a site decayed or given up. *)
Becomes(u, state) ==
  /\ Fighting
  /\ \/ state = "done" /\ units[u].state = "site"
     \/ state = "dead" /\ Alive(u)
  /\ units' = [units EXCEPT ![u].state = state]
  /\ line' = IF state = "dead" THEN [line EXCEPT ![u] = Empty] ELSE line
  /\ UNCHANGED <<unitCount, stage, turns, told>>

BeginPlacing ==
  /\ Fighting
  /\ stage' = "placing"
  /\ UNCHANGED <<units, line, unitCount, turns, told>>

(* The drain of buildDue_. *)
PlaceSite(b, k) ==
  /\ stage = "placing"
  /\ units[b].state = "done" /\ units[b].kind \in Masons
  /\ ~ Barred(units[b].owner, k)
  /\ Spawn(units[b].owner, k, "site", line)
  /\ UNCHANGED <<stage, turns, told>>

UpdateOutcome ==
  /\ stage = "placing"
  /\ unitCount' = [p \in Players |-> Cardinality(Army(p))]
  /\ stage' = "commands"
  /\ UNCHANGED <<units, line, turns, told>>

ProductionNext ==
  \/ \E u \in Ids, k \in Trained : Train(u, k) \/ Dequeue(u, k) \/ SetRepeat(u, k)
  \/ \E u \in Ids : Halt(u) \/ CancelSite(u) \/ TickProduction(u)
                      \/ Becomes(u, "done") \/ Becomes(u, "dead")
  \/ \E c, t \in Ids : CaptureUnit(c, t)
  \/ \E b \in Ids, k \in Placed : PlaceSite(b, k)
  \/ BeginProduction \/ BeginPlacing \/ UpdateOutcome

ProductionSpec == ProductionInit /\ [][ProductionNext]_productionVars

-----------------------------------------------------------------------------
(* Properties. *)

(* No unit or site appears beyond a limit, whatever its owner's other       *)
(* factories and builders put out in the same tick, and however many units  *)
(* died or changed hands in it: the count the limit is tested against never *)
(* runs behind those that live.  Units that are captured are let in.        *)
LimitsHold ==
  [][Len(units') > Len(units) =>
       LET new == Last(units')
           same == {u \in DOMAIN units' : units'[u].owner = new.owner /\ Alive(u)'}
       IN /\ Cardinality(same) <= UnitCap
          /\ Allowed[new.kind] > 0 =>
               Cardinality({u \in same : units'[u].kind = new.kind}) <= Allowed[new.kind]
    ]_productionVars

(* What a unit works on: the first of its queue. *)
InWork(l) == IF l.queue = <<>> THEN NoKind ELSE Head(l.queue)

(* What was paid for one kind is never credited to another, whichever way   *)
(* the first of the queue goes: out of the door, struck off, stopped, no    *)
(* longer repeated, or captured with the factory.                           *)
WorkIsFronts ==
  [][\A u \in Ids : InWork(line'[u]) # InWork(line[u]) => line'[u].work = 0]_productionVars
=============================================================================
