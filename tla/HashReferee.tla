----------------------------- MODULE HashReferee -----------------------------
(***************************************************************************)
(* The desync referee of a running game: players report a hash of their    *)
(* simulation every kHashPeriod ticks, the server keeps the reports of a   *)
(* tick until all have come in, compares them with the hash of its own     *)
(* simulation and tells a player that differs (StateHash in gameMsg,       *)
(* checkHashes, and the recording of refHash in closeTick).                *)
(*                                                                         *)
(* A hash stands for the world it was taken of: two simulations that have *)
(* run apart never hash alike again.  Ticks count hash periods.  How far   *)
(* players lag is TickServer's matter; here any lag may happen.            *)
(***************************************************************************)
EXTENDS Naturals, Sequences, FiniteSets, SequencesExt

CONSTANTS
  Slots, Conns,
  Seat,          \* Seat[c]: the slot whose player uses connection c
  First,         \* First[s]: the connection that starts the game in slot s
  None,
  Worlds,        \* what a simulation may turn into
  True,          \* the world the bundles lead to
  MaxHashTicks,  \* kMaxHashTicks
  Ring,          \* the length of refHash that closeTick keeps
  RefMayErr,     \* whether the server's own simulation may run apart
  MaxTicks        \* bound on the length of the game

ASSUME HashAssumption ==
  /\ Seat \in [Conns -> Slots]
  /\ First \in [Slots -> Conns] /\ \A s \in Slots : Seat[First[s]] = s
  /\ None \notin Conns /\ IsFiniteSet(Slots)
  /\ True \in Worlds
  /\ MaxHashTicks \in Nat \ {0} /\ Ring \in Nat \ {0} /\ MaxTicks \in Nat
  /\ RefMayErr \in BOOLEAN

VARIABLES
  slotClient,   \* the connection in each slot
  sims,        \* sims[c]: the simulation of connection c
  due,          \* due[c]: the first tick c has not reported
  refWorld,     \* the simulation of the server
  refHash,      \* refHash[t + 1]: what it was at tick t
  hashes,       \* hashes[t]: the reports of tick t, by connection
  flagged,      \* desyncFlagged
  suspect,      \* refSuspect
  told          \* the connections that have been sent Desynced

seats == <<slotClient, sims, due>>
ref   == <<refWorld, refHash>>
refereeVars == <<seats, ref, hashes, flagged, suspect, told>>

Ticks == 0 .. (MaxTicks - 1)

Tick == Len(refHash)

NoReport == [c \in {} |-> True]

Live == {slotClient[s] : s \in Slots} \ {None}

RefereeInit ==
  /\ slotClient = First
  /\ sims = [c \in Conns |-> True]
  /\ due = [c \in Conns |-> 0]
  /\ refWorld = True
  /\ refHash = << >>
  /\ hashes = [t \in Ticks |-> NoReport]
  /\ flagged = {}
  /\ suspect = FALSE
  /\ told = {}

-----------------------------------------------------------------------------
(* checkHashes *)

(* There are as many reports of tick t as there are players, and the        *)
(* referee has a hash to compare them with.                                 *)
Complete(h, t) ==
  /\ Cardinality(DOMAIN h[t]) >= Cardinality(Live)
  /\ t + Ring >= Tick

(* Several players agree with each other and not with the referee. *)
Crowd(h, t) ==
  /\ Cardinality(Live) >= 2
  /\ \E w \in Worlds \ {refHash[t + 1]} : Range(h[t]) = {w}

(* Mutant of Apart: the odd ones out are the convicted. *)
Apart_Minority(h, t) ==
  {c \in DOMAIN h[t] : 2 * Cardinality({d \in DOMAIN h[t] : h[t][d] = h[t][c]})
                         <= Cardinality(DOMAIN h[t])}

(* The connections whose report of tick t is not the referee's. *)
Apart(h, t) == {c \in DOMAIN h[t] : h[t][c] # refHash[t + 1]}

(* Tick t and what is older need no reports any more. *)
Retired(h, t) == [u \in Ticks |-> IF u <= t THEN NoReport ELSE h[u]]

(* The ticks reports are kept of. *)
Pending(h) == {t \in Ticks : h[t] # NoReport}

(* Mutant of Trimmed: reports are kept until they are judged. *)
Trimmed_Never(h) == h

(* Mutant of Trimmed: the newest go first. *)
Trimmed_Newest(h) ==
  [t \in Ticks |-> IF Cardinality({u \in Pending(h) : u < t}) >= MaxHashTicks
                     THEN NoReport ELSE h[t]]

(* Reports of the newest MaxHashTicks of them are kept. *)
Trimmed(h) ==
  [t \in Ticks |-> IF Cardinality({u \in Pending(h) : u > t}) >= MaxHashTicks
                     THEN NoReport ELSE h[t]]

(* The reports of tick t with that of connection c. *)
WithReport(c, t) ==
  [hashes EXCEPT ![t] = [d \in DOMAIN @ \cup {c} |-> IF d = c THEN sims[c] ELSE @[d]]]

(* Connection c reports the next tick it has simulated. *)
StateHash(c) ==
  LET t == due[c]
      h == WithReport(c, t)
  IN
  /\ c \in Live /\ t < Tick
  /\ due' = [due EXCEPT ![c] = t + 1]
  /\ IF ~ Complete(h, t)
       THEN /\ hashes' = Trimmed(h)
            /\ UNCHANGED <<flagged, suspect, told>>
       ELSE /\ hashes' = Trimmed(Retired(h, t))
            /\ suspect' = (suspect \/ Crowd(h, t))
            /\ IF suspect' THEN UNCHANGED <<flagged, told>>
               ELSE /\ flagged' = flagged \cup Apart(h, t)
                    /\ told' = told \cup ((Apart(h, t) \ flagged) \cap Live)
  /\ UNCHANGED <<slotClient, sims, ref>>

-----------------------------------------------------------------------------
(* closeTick: the referee plays the bundle and keeps its hash. *)
CloseTick ==
  /\ Tick < MaxTicks
  /\ refHash' = Append(refHash, refWorld)
  /\ UNCHANGED <<seats, refWorld, hashes, flagged, suspect, told>>

(* A player leaves or is cut off.  Nobody goes or comes once the bounded    *)
(* game has closed its last tick: those who are there report that one too,  *)
(* as they would report a tick that follows.                                *)
Unseat(s) ==
  /\ slotClient[s] # None /\ Tick < MaxTicks
  /\ slotClient' = [slotClient EXCEPT ![s] = None]
  /\ UNCHANGED <<sims, due, ref, hashes, flagged, suspect, told>>

(* Rejoin: the player of slot s is back with a simulation that starts over, *)
(* and will report every tick from the first.                               *)
Rejoin(c) ==
  /\ Tick < MaxTicks
  /\ slotClient[Seat[c]] = None /\ c \notin Range(First) /\ due[c] = 0
  /\ c \notin told /\ sims[c] = True
  /\ slotClient' = [slotClient EXCEPT ![Seat[c]] = c]
  /\ flagged' = {}
  /\ UNCHANGED <<sims, due, ref, hashes, suspect, told>>

(* A simulation runs apart from the bundles, in a tick still to be reported. *)
Diverge(c, w) ==
  /\ c \in Live /\ sims[c] = True /\ w # True /\ due[c] < MaxTicks
  /\ sims' = [sims EXCEPT ![c] = w]
  /\ UNCHANGED <<slotClient, due, ref, hashes, flagged, suspect, told>>

RefDiverge(w) ==
  /\ RefMayErr /\ refWorld = True /\ w # True
  /\ refWorld' = w
  /\ UNCHANGED <<seats, refHash, hashes, flagged, suspect, told>>

RefereeNext ==
  \/ \E c \in Conns :
       StateHash(c) \/ Rejoin(c) \/ \E w \in Worlds : Diverge(c, w)
  \/ \E s \in Slots : Unseat(s)
  \/ CloseTick
  \/ \E w \in Worlds : RefDiverge(w)

(* Ticks are closed, and a player who is there reports. *)
RefereeFairness == WF_refereeVars(CloseTick) /\ \A c \in Conns : WF_refereeVars(StateHash(c))

RefereeSpec == RefereeInit /\ [][RefereeNext]_refereeVars /\ RefereeFairness

-----------------------------------------------------------------------------
(* Every variable has its type. *)
RefereeTypes ==
  /\ slotClient \in [Slots -> Conns \cup {None}]
  /\ sims \in [Conns -> Worlds] /\ due \in [Conns -> 0 .. MaxTicks]
  /\ refWorld \in Worlds /\ refHash \in Seq(Worlds)
  /\ \A t \in Ticks : DOMAIN hashes[t] \subseteq Conns /\ Range(hashes[t]) \subseteq Worlds
  /\ Cardinality(Pending(hashes)) <= MaxHashTicks
  /\ flagged \subseteq Conns /\ suspect \in BOOLEAN /\ told \subseteq Conns

(* A player whose simulation is right is told it is wrong only when the     *)
(* referee's is not, and then only when no other player was there to        *)
(* contradict the referee, or one whose simulation is wrong too.            *)
HonestAreSpared ==
  [][\A c \in told' \ told :
       sims[c] = True =>
         /\ refWorld # True
         /\ \/ Cardinality(Live) = 1
            \/ \E d \in Conns : sims[d] # True]_refereeVars

(* A player whose simulation has run apart is told, however far the others  *)
(* lag, whoever comes and goes, and although only so many ticks are kept;   *)
(* unless the player goes first, or the referee is given up or wrong too.   *)
DesyncIsFound ==
  \A c \in Conns :
    []<>(c \in told \/ c \notin Live \/ sims[c] = True \/ suspect \/ refWorld # True)
=============================================================================
