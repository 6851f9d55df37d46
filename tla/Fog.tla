-------------------------------- MODULE Fog ---------------------------------
(***************************************************************************)
(* The fog of war (sim/sim.cpp: visPump, updateVisibility, visGather,      *)
(* visCompute, setTerrain).  Every Beat ticks the simulation gathers where *)
(* this player's units are; a worker thread computes the new grid from     *)
(* that in a buffer of its own, with a cache of what is seen from a cell,  *)
(* and a later tick swaps it in.  The first grid of a map is computed on   *)
(* the spot.                                                               *)
(*                                                                         *)
(* Units come, move and go as they like.  Some see by sight, which the     *)
(* ground blocks, the others by radar, which it does not.  One sight and   *)
(* one radius stand for all, and all maps are of one size.  What a landed  *)
(* pass leaves in the worker's buffers is not read again and not kept.     *)
(* Callers without threads, which compute every grid on the spot, are left *)
(* out, and so are the referee, which has no fog, and missions, which may  *)
(* lift it.                                                                *)
(***************************************************************************)
EXTENDS Integers, FiniteSets

CONSTANTS FogCells,
          Maps,
          Sight,        \* Sight[m][c]: what is seen from c on the map m
          Radar,        \* Radar[c]: what is within the radius of c
          Watchers,     \* allied units that go by sight
          Antennas,     \* allied units that go by radar
          MaskLimit,    \* masks the cache holds before it is emptied (8192)
          Beat          \* ticks between two passes (visTimer_)

ASSUME FogAssumption ==
  /\ IsFiniteSet(FogCells) /\ MaskLimit \in Nat /\ Beat \in Nat \ {0}
  /\ Sight \in [Maps -> [FogCells -> SUBSET FogCells]]
  /\ Radar \in [FogCells -> SUBSET FogCells]

VARIABLES terrain,       \* heights_
          remember,      \* fogExplored_
          place,         \* where a unit is, if it is alive and built
          vis,           \* vis_: 0 hidden, 1 explored, 2 visible
          visBack,
          masks,         \* visMaskCache_
          reveals, misses,
          visRunning, visDone, visHavePass,
          visTimer,
          worker,        \* visWorker_: "none", "march", "stamp", "over"
          beat,          \* where the simulation thread is in its tick
          sighted,       \* history: cells in view at a gathering since the map was set
          latest         \* history: cells in view at the last one

fogVars == <<terrain, remember, place, vis, visBack, masks, reveals, misses, visRunning,
             visDone, visHavePass, visTimer, worker, beat, sighted, latest>>
passVars == <<visBack, masks, reveals, misses, visRunning, visDone, worker>>

Nowhere == 0
Dark == [c \in FogCells |-> 0]

(* What a unit reveals, from a mask or as a circle. *)
Reveals ==
  {[at |-> place[u], los |-> TRUE] : u \in {w \in Watchers : place[w] # Nowhere}} \cup
  {[at |-> place[u], los |-> FALSE] : u \in {a \in Antennas : place[a] # Nowhere}}

InView == UNION {IF r.los THEN Sight[terrain][r.at] ELSE Radar[r.at] : r \in Reveals}

-----------------------------------------------------------------------------
(* visGather: a new cell gets an empty mask, which the pass fills. *)
KeptMasks == IF Cardinality(DOMAIN masks) >= MaskLimit THEN {} ELSE DOMAIN masks
SeenFrom == {r.at : r \in {x \in Reveals : x.los}}

(* visCompute: fill the missing masks, demote what was visible, stamp.     *)
Marched(cache, cells) == [c \in DOMAIN cache |-> IF c \in cells THEN Sight[terrain][c] ELSE cache[c]]
(* Mutant of Demoted: what is remembered is not dimmed. *)
Demoted_NotDimmed(n) == IF n = 2 /\ ~remember THEN 0 ELSE n

Demoted(n) == IF n = 2 THEN (IF remember THEN 1 ELSE 0) ELSE n
Stamped(grid, cache, rs) ==
  LET lit == UNION {IF r.los THEN cache[r.at] ELSE Radar[r.at] : r \in rs}
  IN  [c \in FogCells |-> IF c \in lit THEN 2 ELSE Demoted(grid[c])]

March ==
  /\ worker = "march" /\ worker' = "stamp"
  /\ masks' = Marched(masks, misses)
  /\ UNCHANGED <<terrain, remember, place, vis, visBack, reveals, misses, visRunning, visDone,
                 visHavePass, visTimer, beat, sighted, latest>>
Stamp ==
  /\ worker = "stamp" /\ worker' = "over"
  /\ visBack' = Stamped(visBack, masks, reveals) /\ visDone' = TRUE
  /\ UNCHANGED <<terrain, remember, place, vis, masks, reveals, misses, visRunning,
                 visHavePass, visTimer, beat, sighted, latest>>

FogWorker == March \/ Stamp

-----------------------------------------------------------------------------
Moves ==
  /\ beat = "units" /\ beat' = "pump"
  /\ place' \in [Watchers \cup Antennas -> FogCells \cup {Nowhere}]
  /\ UNCHANGED <<terrain, remember, vis, visHavePass, visTimer, sighted,
                 latest, passVars>>

(* visPump *)
Landed == visRunning /\ visDone
Pump ==
  /\ beat = "pump" /\ beat' = "update"
  /\ Landed => worker = "over"                                                      \* join
  /\ IF Landed
     THEN /\ vis' = visBack /\ visBack' = Dark /\ reveals' = {} /\ misses' = {}
          /\ visRunning' = FALSE /\ visDone' = FALSE /\ visHavePass' = TRUE /\ worker' = "none"
     ELSE UNCHANGED <<vis, visBack, reveals, misses, visRunning, visDone, visHavePass, worker>>
  /\ visTimer' = visTimer - 1
  /\ UNCHANGED <<terrain, remember, place, masks, sighted, latest>>

NoBeat ==
  /\ beat = "update" /\ beat' = "units"
  /\ visTimer > 0 \/ visRunning
  /\ visTimer' = IF visTimer > 0 THEN visTimer ELSE Beat
  /\ UNCHANGED <<terrain, remember, place, vis, visHavePass, sighted,
                 latest, passVars>>

(* updateVisibility *)
Update ==
  /\ beat = "update" /\ beat' = "units"
  /\ visTimer <= 0 /\ ~visRunning
  /\ visTimer' = Beat
  /\ latest' = InView /\ sighted' = sighted \cup InView
  /\ LET new == SeenFrom \ KeptMasks
         cache == [c \in KeptMasks \cup SeenFrom |-> IF c \in KeptMasks THEN masks[c] ELSE {}]
     IN  IF visHavePass
         THEN /\ masks' = cache /\ visBack' = vis /\ reveals' = Reveals /\ misses' = new
              /\ visRunning' = TRUE /\ visDone' = FALSE /\ worker' = "march"
              /\ UNCHANGED <<vis, visHavePass>>
         ELSE /\ masks' = Marched(cache, new)
              /\ vis' = Stamped(vis, masks', Reveals) /\ visHavePass' = TRUE
              /\ UNCHANGED <<visBack, reveals, misses, visRunning, visDone, worker>>
  /\ UNCHANGED <<terrain, remember, place>>

(* setTerrain empties the cache, whose key does not name the ground. *)
NoMasks == [c \in {} |-> {}]

(* setTerrain, for a match that is set up anew on another map or, to play  *)
(* it again after a rejoin, on the same.  It waits for the worker.         *)
Reload ==
  /\ beat = "units"
  /\ visRunning => worker = "over"
  /\ visRunning' = FALSE /\ worker' = "none"
  /\ visDone' = IF visRunning THEN FALSE ELSE visDone
  /\ masks' = NoMasks /\ visHavePass' = FALSE
  /\ terrain' \in Maps
  /\ vis' = Dark /\ visBack' = Dark /\ reveals' = {} /\ misses' = {}
  /\ place' = [u \in Watchers \cup Antennas |-> Nowhere]
  /\ sighted' = {} /\ latest' = {}
  /\ UNCHANGED <<remember, visTimer, beat>>

FogInit ==
  /\ terrain \in Maps /\ remember \in BOOLEAN
  /\ place = [u \in Watchers \cup Antennas |-> Nowhere]
  /\ vis = Dark /\ visBack = Dark
  /\ masks = [c \in {} |-> {}] /\ reveals = {} /\ misses = {}
  /\ visRunning = FALSE /\ visDone = FALSE /\ visHavePass = FALSE
  /\ visTimer = 0 /\ worker = "none" /\ beat = "units"
  /\ sighted = {} /\ latest = {}

Tick == Moves \/ Pump \/ NoBeat \/ Update
FogNext == Tick \/ FogWorker \/ Reload

(* Ticks go on and the worker runs. *)
FogSpec == FogInit /\ [][FogNext]_fogVars /\ WF_fogVars(Tick) /\ WF_fogVars(FogWorker)

-----------------------------------------------------------------------------
Lit(grid) == {c \in FogCells : grid[c] > 0}

(* What is lit was in view in this match, on this map: nothing of a map    *)
(* that was left, of a mask of another ground or of a pass that was under  *)
(* way shows through; and all that was in view is lit, or as much of it as *)
(* is to be remembered.                                                    *)
TrueToView ==
  IF visRunning THEN Lit(vis) \subseteq sighted
  ELSE Lit(vis) = IF remember THEN sighted ELSE latest

(* When the units stand still, the fog comes to show what they see.        *)
Settles ==
  <>[][~Reload /\ UNCHANGED place]_fogVars
    => <>[]({c \in FogCells : vis[c] = 2} = InView)

(* The two of them, for updateVisibility, its worker and setTerrain.       *)
FogFollows == []TrueToView /\ Settles
=============================================================================
