--------------------------- MODULE RefereeProofs ----------------------------
(***************************************************************************)
(* That the referee accuses nobody who is right unless it is wrong itself, *)
(* and keeps no more than MaxHashTicks ticks of reports, for any players,  *)
(* connections, worlds and sequence of reports.                            *)
(*                                                                         *)
(* A report is kept while its sender's simulation may go wrong, and while  *)
(* the sender goes and comes back.  What is kept (Truthful) is therefore   *)
(* said of senders that are right now: whatever they have ever reported    *)
(* was right too.  Nothing is known of the others' reports.                *)
(*                                                                         *)
(* And that the interpreter every world runs its scripts on (CobVm) skips  *)
(* no motion and brings each to its end, for any scripts, axes, rail and   *)
(* circle: MotionIsSeen says what the flag must know, and Left is what a   *)
(* motion has still to go.                                                 *)
(***************************************************************************)
EXTENDS HashReferee, CobVm, FiniteSetTheorems, WellFoundedInduction, TLAPS

ReferenceIsRight == refWorld = True => \A i \in 1 .. Len(refHash) : refHash[i] = True

(* A table of reports, and one in which those who are right are right. *)
Table(h) ==
  /\ h = [t \in Ticks |-> h[t]]
  /\ \A t \in Ticks : /\ h[t] = [c \in DOMAIN h[t] |-> h[t][c]]
                      /\ DOMAIN h[t] \subseteq Conns
                      /\ \A c \in DOMAIN h[t] : h[t][c] \in Worlds

Right(h) == \A t \in Ticks : \A c \in DOMAIN h[t] : sims[c] = True => h[t][c] = True

Shapes ==
  /\ slotClient \in [Slots -> Conns \cup {None}]
  /\ sims \in [Conns -> Worlds] /\ due \in [Conns -> 0 .. MaxTicks]
  /\ refWorld \in Worlds /\ refHash \in Seq(Worlds) /\ Len(refHash) <= MaxTicks
  /\ flagged \subseteq Conns /\ suspect \in BOOLEAN /\ told \subseteq Conns

Truthful == ReferenceIsRight /\ Table(hashes) /\ Right(hashes)

Bounded(h) == Cardinality(Pending(h)) <= MaxHashTicks

RefereeInv == Shapes /\ Truthful /\ Bounded(hashes)

-----------------------------------------------------------------------------
(* What is left of a table of reports.                                      *)

LEMMA TicksAreFinite ==
  /\ Ticks \subseteq Nat /\ IsFiniteSet(Ticks)
  /\ \A S \in SUBSET Ticks : IsFiniteSet(S) /\ Cardinality(S) \in Nat
<1>1. MaxTicks - 1 \in Int BY HashAssumption
<1>2. IsFiniteSet(Ticks) BY <1>1, FS_Interval DEF Ticks
<1>3. Ticks \subseteq Nat BY <1>1 DEF Ticks
<1> QED BY <1>2, <1>3, FS_Subset, FS_CardinalityType

LEMMA EmptyReport ==
  /\ DOMAIN NoReport = {} /\ NoReport = [c \in DOMAIN NoReport |-> NoReport[c]]
BY DEF NoReport

(* A set of ticks that is not empty has an oldest one.                      *)
LEMMA Oldest ==
  ASSUME NEW S \in SUBSET Ticks, S # {}
  PROVE  \E t \in S : \A u \in S : t <= u
<1>1. PICK t \in S : \A u \in S : ~ (<<u, t>> \in OpToRel(<, Nat))
  BY TicksAreFinite, NatLessThanWellFounded, WFMin
<1>2. \A y, z \in Nat : <<y, z>> \in OpToRel(<, Nat) <=> y < z
  BY Zenon DEF OpToRel
<1>3. \A u \in S : t <= u
  <2> TAKE u \in S
  <2>1. u \in Nat /\ t \in Nat BY TicksAreFinite
  <2>2. ~ (u < t) BY Zenon, <1>1, <1>2, <2>1
  <2> QED BY <2>1, <2>2
<1> QED BY <1>3

(* Of any table the newest MaxHashTicks ticks are kept at most: the oldest  *)
(* that is kept has fewer than MaxHashTicks pending ticks after it.         *)
LEMMA TrimmedIsBounded == ASSUME NEW h PROVE Bounded(Trimmed(h))
<1> DEFINE Newer(t) == {u \in Pending(h) : u > t}
           K == Pending(Trimmed(h))
<1>1. /\ K \subseteq Ticks /\ IsFiniteSet(K) /\ Cardinality(K) \in Nat
      /\ \A t \in K : t \in Pending(h) /\ ~ (Cardinality(Newer(t)) >= MaxHashTicks)
  <2>1. K \subseteq Ticks BY DEF Pending
  <2>2. ASSUME NEW t \in K
        PROVE  t \in Pending(h) /\ ~ (Cardinality(Newer(t)) >= MaxHashTicks)
    BY DEF Pending, Trimmed
  <2> QED BY <2>1, <2>2, TicksAreFinite
<1>2. CASE K = {}
  BY <1>2, FS_EmptySet, HashAssumption DEF Bounded
<1>3. CASE K # {}
  <2>1. PICK t \in K : \A u \in K : t <= u
    BY <1>1, <1>3, Oldest
  <2>2. K \ {t} \subseteq Newer(t)
    <3> SUFFICES ASSUME NEW u \in K, u # t PROVE u \in Newer(t)
      OBVIOUS
    <3>1. u \in Nat /\ t \in Nat /\ t <= u BY <1>1, <2>1, TicksAreFinite
    <3>2. u > t BY <3>1
    <3>3. u \in Pending(h) BY <1>1
    <3> QED BY <3>2, <3>3
  <2>3. Newer(t) \in SUBSET Ticks BY DEF Pending
  <2>4. Cardinality(K \ {t}) <= Cardinality(Newer(t))
    <3>1. IsFiniteSet(Newer(t)) /\ K \ {t} \in SUBSET Newer(t)
      BY <2>2, <2>3, TicksAreFinite
    <3> HIDE DEF K, Newer
    <3> QED BY <3>1, FS_Subset
  <2>5. Cardinality(K \ {t}) = Cardinality(K) - 1
    <3> HIDE DEF K
    <3> QED BY <1>1, FS_RemoveElement
  <2>6. Cardinality(Newer(t)) \in Nat /\ ~ (Cardinality(Newer(t)) >= MaxHashTicks)
    <3> HIDE DEF K
    <3> QED BY <1>1, <2>3, TicksAreFinite
  <2>7. MaxHashTicks \in Nat BY HashAssumption
  <2> HIDE DEF K, Newer
  <2> QED BY <1>1, <2>4, <2>5, <2>6, <2>7 DEF Bounded, K
<1> QED BY <1>2, <1>3

(* Forgetting reports leaves the rest as they were.                         *)
LEMMA TrimmedIsSound ==
  ASSUME NEW h, Table(h), Right(h)
  PROVE  Table(Trimmed(h)) /\ Right(Trimmed(h))
<1>1. \A t \in Ticks : Trimmed(h)[t] \in {h[t], NoReport} BY DEF Trimmed
<1>2. Trimmed(h) = [t \in Ticks |-> Trimmed(h)[t]] BY DEF Trimmed
<1>3. Table(Trimmed(h))
  BY <1>1, <1>2, EmptyReport DEF Table
<1>4. Right(Trimmed(h))
  BY <1>1, EmptyReport DEF Right
<1> QED BY <1>3, <1>4

LEMMA RetiredIsSound ==
  ASSUME NEW h, Table(h), Right(h), NEW t \in Ticks
  PROVE  Table(Retired(h, t)) /\ Right(Retired(h, t))
<1>1. \A u \in Ticks : Retired(h, t)[u] \in {h[u], NoReport} BY DEF Retired
<1>2. Retired(h, t) = [u \in Ticks |-> Retired(h, t)[u]] BY DEF Retired
<1>3. Table(Retired(h, t))
  BY <1>1, <1>2, EmptyReport DEF Table
<1>4. Right(Retired(h, t))
  BY <1>1, EmptyReport DEF Right
<1> QED BY <1>3, <1>4

(* The table with the report of connection c added.                         *)
Reported(c) == WithReport(c, due[c])

LEMMA ReportIsSound ==
  ASSUME RefereeInv, NEW c \in Conns, due[c] < Tick
  PROVE  /\ due[c] \in Ticks /\ due[c] + 1 \in 1 .. Len(refHash)
         /\ Table(Reported(c)) /\ Right(Reported(c))
<1>1. due[c] \in Ticks /\ due[c] + 1 \in 1 .. Len(refHash)
  BY HashAssumption DEF RefereeInv, Shapes, Tick, Ticks
<1> DEFINE t == due[c]
           r == [d \in DOMAIN hashes[t] \cup {c} |-> IF d = c THEN sims[c] ELSE hashes[t][d]]
<1>3. /\ DOMAIN r = {c} \cup DOMAIN hashes[t] /\ r = [d \in DOMAIN r |-> r[d]]
      /\ \A d \in DOMAIN r : r[d] = IF d = c THEN sims[c] ELSE hashes[t][d]
  OBVIOUS
<1>4. hashes = [u \in Ticks |-> hashes[u]] BY DEF RefereeInv, Truthful, Table
<1>5. Reported(c) = [u \in Ticks |-> IF u = t THEN r ELSE hashes[u]]
  BY <1>1, <1>4 DEF Reported, WithReport
<1>6. sims[c] \in Worlds BY DEF RefereeInv, Shapes
<1> HIDE DEF r
<1>7. Table(Reported(c))
  BY <1>1, <1>3, <1>5, <1>6 DEF Table, RefereeInv, Truthful
<1>8. Right(Reported(c))
  BY <1>1, <1>3, <1>5 DEF Right, RefereeInv, Truthful
<1> QED BY <1>1, <1>7, <1>8

-----------------------------------------------------------------------------
(* The invariant, action by action.                                         *)

LEMMA RefereeStarts == RefereeInit => RefereeInv
<1> SUFFICES ASSUME RefereeInit PROVE RefereeInv OBVIOUS
<1>1. Shapes
  <2>1. << >> \in Seq(Worlds) /\ Len(<< >>) = 0 /\ MaxTicks \in Nat /\ 0 \in 0 .. MaxTicks
    BY HashAssumption
  <2>2. First \in [Slots -> Conns \cup {None}] BY HashAssumption
  <2>3. True \in Worlds BY HashAssumption
  <2>4. sims \in [Conns -> Worlds] /\ due \in [Conns -> 0 .. MaxTicks]
    BY <2>1, <2>3 DEF RefereeInit
  <2>5. refHash \in Seq(Worlds) /\ Len(refHash) <= MaxTicks
    BY <2>1 DEF RefereeInit
  <2> QED BY <2>2, <2>3, <2>4, <2>5 DEF RefereeInit, Shapes
<1>2. Truthful
  BY EmptyReport DEF RefereeInit, Truthful, ReferenceIsRight, Table, Right
<1>3. Bounded(hashes)
  <2>1. Pending(hashes) = {} BY DEF Pending, RefereeInit
  <2> QED BY <2>1, FS_EmptySet, HashAssumption DEF Bounded
<1> QED BY <1>1, <1>2, <1>3 DEF RefereeInv

(* Whoever is told has reported something other than the referee's hash.    *)
LEMMA ReportKeeps ==
  ASSUME RefereeInv, NEW c \in Conns, StateHash(c)
  PROVE  RefereeInv'
<1> DEFINE t == due[c]
           h == Reported(c)
<1>1. t < Tick /\ c \in Live BY DEF StateHash
<1>2. t \in Ticks /\ t + 1 \in 1 .. Len(refHash) /\ Table(h) /\ Right(h)
  BY <1>1, ReportIsSound
<1>3. hashes' \in {Trimmed(h), Trimmed(Retired(h, t))}
  BY DEF StateHash, Reported
<1>4. Table(hashes') /\ Right(hashes') /\ Bounded(hashes')
  <2>1. CASE hashes' = Trimmed(h)
    BY <1>2, <2>1, TrimmedIsSound, TrimmedIsBounded
  <2>2. CASE hashes' = Trimmed(Retired(h, t))
    <3> HIDE DEF h, t
    <3> QED BY <1>2, <2>2, RetiredIsSound, TrimmedIsSound, TrimmedIsBounded
  <2> QED BY <1>3, <2>1, <2>2
<1>5. UNCHANGED <<slotClient, sims, ref>> BY DEF StateHash
<1>6. Shapes'
  <2>1. due' \in [Conns -> 0 .. MaxTicks]
    BY <1>1, HashAssumption DEF RefereeInv, Shapes, StateHash, Tick
  <2>2. Apart(h, t) \subseteq Conns
    BY <1>2 DEF Apart, Table
  <2>3. flagged' \subseteq Conns /\ told' \subseteq Conns /\ suspect' \in BOOLEAN
    BY <2>2 DEF RefereeInv, Shapes, StateHash, Reported
  <2> QED BY <1>5, <2>1, <2>3 DEF RefereeInv, Shapes, ref
<1>7. Truthful'
  BY <1>4, <1>5 DEF RefereeInv, Truthful, ReferenceIsRight, Table, Right, ref, Ticks
<1> QED BY <1>4, <1>6, <1>7 DEF RefereeInv, Bounded, Pending, Ticks

LEMMA SettingKeeps ==
  ASSUME RefereeInv,
         \/ CloseTick
         \/ \E s \in Slots : Unseat(s)
         \/ \E c \in Conns : Rejoin(c) \/ \E w \in Worlds : Diverge(c, w)
         \/ \E w \in Worlds : RefDiverge(w)
         \/ UNCHANGED refereeVars
  PROVE  RefereeInv' /\ told' = told
<1>1. hashes' = hashes /\ told' = told
  BY DEF CloseTick, Unseat, Rejoin, Diverge, RefDiverge, refereeVars
<1>2. Bounded(hashes)' BY <1>1 DEF RefereeInv, Bounded, Pending, Ticks
<1>3. CASE CloseTick
  <2>1. refHash \in Seq(Worlds) /\ refWorld \in Worlds /\ Len(refHash) < MaxTicks
    BY <1>3 DEF CloseTick, Tick, RefereeInv, Shapes
  <2>2. /\ refHash' \in Seq(Worlds) /\ Len(refHash') = Len(refHash) + 1
        /\ \A i \in 1 .. Len(refHash') :
             refHash'[i] = IF i = Len(refHash) + 1 THEN refWorld ELSE refHash[i]
    BY <1>3, <2>1 DEF CloseTick
  <2>3. Shapes'
    BY <1>3, <2>1, <2>2, HashAssumption DEF CloseTick, seats, RefereeInv, Shapes
  <2>4. Truthful'
    BY <1>3, <2>1, <2>2
    DEF CloseTick, seats, RefereeInv, Truthful, ReferenceIsRight, Table, Right, Ticks
  <2> QED BY <1>1, <1>2, <2>3, <2>4 DEF RefereeInv
<1>4. ASSUME NEW s \in Slots, Unseat(s) PROVE RefereeInv'
  <2>1. Shapes' BY <1>4 DEF Unseat, ref, RefereeInv, Shapes
  <2>2. Truthful'
    BY <1>4 DEF Unseat, ref, RefereeInv, Truthful, ReferenceIsRight, Table, Right, Ticks
  <2> QED BY <1>2, <2>1, <2>2 DEF RefereeInv
<1>5. ASSUME NEW c \in Conns, Rejoin(c) PROVE RefereeInv'
  <2>1. Shapes' BY <1>5, HashAssumption DEF Rejoin, ref, RefereeInv, Shapes
  <2>2. Truthful'
    BY <1>5 DEF Rejoin, ref, RefereeInv, Truthful, ReferenceIsRight, Table, Right, Ticks
  <2> QED BY <1>2, <2>1, <2>2 DEF RefereeInv
<1>6. ASSUME NEW c \in Conns, NEW w \in Worlds, Diverge(c, w) PROVE RefereeInv'
  <2>1. \A d \in Conns : sims'[d] = True => sims[d] = True
    BY <1>6 DEF Diverge, RefereeInv, Shapes
  <2>2. Shapes' BY <1>6 DEF Diverge, ref, RefereeInv, Shapes
  <2>3. Truthful'
    BY <1>6, <2>1 DEF Diverge, ref, RefereeInv, Truthful, ReferenceIsRight, Table, Right, Ticks
  <2> QED BY <1>2, <2>2, <2>3 DEF RefereeInv
<1>7. CASE \E w \in Worlds : RefDiverge(w)
  BY <1>1, <1>2, <1>7
  DEF RefDiverge, seats, RefereeInv, Shapes, Truthful, ReferenceIsRight, Table, Right, Ticks
<1>8. CASE UNCHANGED refereeVars
  BY <1>1, <1>2, <1>8
  DEF refereeVars, seats, ref, RefereeInv, Shapes, Truthful, ReferenceIsRight, Table, Right, Ticks
<1> QED BY <1>1, <1>3, <1>4, <1>5, <1>6, <1>7, <1>8

LEMMA RefereeKeeps == RefereeInv /\ [RefereeNext]_refereeVars => RefereeInv'
BY ReportKeeps, SettingKeeps DEF RefereeNext

(* At every moment what is kept of the reports of those who are right is    *)
(* right, and so are the referee's hashes while its own simulation is.      *)
THEOREM RefereeHolds == RefereeSpec => []RefereeInv
BY RefereeStarts, RefereeKeeps, PTL DEF RefereeSpec

(* The reports kept are of MaxHashTicks ticks at most, however far a player *)
(* lags behind the others (kMaxHashTicks), and every variable has its type. *)
THEOREM ReportsAreBounded == RefereeSpec => []RefereeTypes
<1>1. RefereeInv => RefereeTypes
  BY DEF RefereeInv, Shapes, Truthful, Table, Bounded, RefereeTypes, Range
<1> QED BY <1>1, RefereeHolds, PTL

-----------------------------------------------------------------------------
(* Accusations.                                                             *)

(* One that is right and is told: the referee's hash was not.               *)
LEMMA AccusedWrongly ==
  ASSUME RefereeInv, NEW c \in Conns, StateHash(c),
         NEW d \in told' \ told, sims[d] = True
  PROVE  /\ refWorld # True
         /\ Cardinality(Live) = 1 \/ \E e \in Conns : sims[e] # True
<1> DEFINE t == due[c]
           h == Reported(c)
<1>1. t < Tick /\ c \in Live BY DEF StateHash
<1>2. t \in Ticks /\ t + 1 \in 1 .. Len(refHash) /\ Table(h) /\ Right(h)
  BY <1>1, ReportIsSound
<1>3. /\ ~ suspect' /\ suspect' = (suspect \/ Crowd(h, t))
      /\ d \in Apart(h, t) \cap Live
  BY DEF StateHash, Reported
<1>4. d \in DOMAIN h[t] /\ h[t][d] = True /\ True # refHash[t + 1]
  BY <1>2, <1>3 DEF Apart, Right
<1>5. refWorld # True
  BY <1>2, <1>4 DEF RefereeInv, Truthful, ReferenceIsRight
<1>6. ASSUME \A e \in Conns : sims[e] = True PROVE Cardinality(Live) = 1
  <2>1. \A e \in DOMAIN h[t] : h[t][e] = True
    BY <1>2, <1>6 DEF Table, Right
  <2>2. Range(h[t]) = {True}
    BY <1>4, <2>1 DEF Range
  <2>3. True \in Worlds \ {refHash[t + 1]}
    BY <1>4, HashAssumption
  <2>4. ~ (Cardinality(Live) >= 2)
    BY <1>3, <2>2, <2>3 DEF Crowd
  <2>5. IsFiniteSet(Live) /\ Live # {}
    <3> DEFINE T == {slotClient[s] : s \in Slots}
    <3>1. slotClient \in Surjection(Slots, T)
      BY DEF Surjection, RefereeInv, Shapes
    <3>2. IsFiniteSet(T)
      BY <3>1, HashAssumption, FS_Surjection
    <3> QED BY <1>1, <3>2, FS_Subset DEF Live
  <2>6. Cardinality(Live) \in Nat /\ Cardinality(Live) # 0
    BY <2>5, FS_CardinalityType, FS_EmptySet
  <2> QED BY <2>4, <2>6
<1> QED BY <1>5, <1>6

(* A player whose simulation is right is told otherwise only by a referee   *)
(* that is wrong, and only while nobody who is right too was there to       *)
(* contradict it (checkHashes).                                             *)
THEOREM TheRightAreSpared == RefereeSpec => HonestAreSpared
<1> DEFINE Spared ==
      \A c \in told' \ told :
        sims[c] = True =>
          /\ refWorld # True
          /\ \/ Cardinality(Live) = 1
             \/ \E d \in Conns : sims[d] # True
<1>1. RefereeInv /\ [RefereeNext]_refereeVars => Spared
  <2> SUFFICES ASSUME RefereeInv, [RefereeNext]_refereeVars PROVE Spared
    OBVIOUS
  <2>1. ASSUME NEW c \in Conns, StateHash(c) PROVE Spared
    BY <2>1, AccusedWrongly
  <2>2. CASE ~ \E c \in Conns : StateHash(c)
    BY <2>2, SettingKeeps DEF RefereeNext
  <2> QED BY <2>1, <2>2
<1> QED BY <1>1, RefereeHolds, PTL DEF RefereeSpec, HonestAreSpared

-----------------------------------------------------------------------------
(* The scripts: the axes, and the flag that lets a tick skip the sweep.     *)

Moving(a) == to[a] # Rest \/ spin[a].now # 0 \/ Ramping(spin[a])

(* The flag is set while anything moves. *)
MotionIsSeen == \A a \in Axes : Moving(a) => anyMotion

SpinStates == [now : {0, 1}, goal : {0, 1}, ramp : {0, 1}]

AxisTypes ==
  /\ pose = [a \in Axes |-> pose[a]] /\ to = [a \in Axes |-> to[a]]
  /\ \A a \in Axes : pose[a] \in Spots(a) /\ to[a] \in Spots(a) \cup {Rest}
  /\ spin \in [Axes -> SpinStates] /\ anyMotion \in BOOLEAN

AxisInv == AxisTypes /\ MotionIsSeen

(* How many sweeps an axis is from where it goes; on the circle, the        *)
(* shorter way.                                                             *)
Between(x, g) == IF x < g THEN g - x ELSE x - g
Around(x, g) == IF (g - x) % Circle <= Circle \div 2 THEN (g - x) % Circle
                ELSE Circle - ((g - x) % Circle)
Left(a) == IF a \in Slides THEN Between(pose[a], to[a]) ELSE Around(pose[a], to[a])

(* An axis that goes somewhere, and does not spin meanwhile, is one unit    *)
(* nearer after every tick's sweep, or there.                               *)
NearerBySweep ==
  [][VmTick => \A a \in Axes :
       to[a] # Rest /\ (a \in Turns => spin'[a].now = 0)
         => to'[a] = Rest \/ Left(a)' = Left(a) - 1]_vmVars

-----------------------------------------------------------------------------
(* On the circle. *)

LEMMA HalfIs ==
  ASSUME NEW n \in Nat \ {0}
  PROVE  n \div 2 \in Nat /\ 2 * (n \div 2) <= n /\ n < 2 * (n \div 2) + 2
OBVIOUS

LEMMA Wraps ==
  ASSUME NEW n \in Nat \ {0}, NEW x \in Int
  PROVE  x % n \in 0 .. (n - 1)
OBVIOUS

LEMMA NoWrap ==
  ASSUME NEW n \in Nat \ {0}, NEW x \in 0 .. (n - 1)
  PROVE  x % n = x
OBVIOUS

LEMMA GapOnCircle ==
  ASSUME NEW n \in Nat \ {0}, NEW x \in 0 .. (n - 1), NEW g \in 0 .. (n - 1)
  PROVE  (g - x) % n = IF x <= g THEN g - x ELSE (g - x) + n
<1> DEFINE z == g - x
<1>1. z \in Int /\ (x <= g => z \in 0 .. (n - 1)) /\ (~ (x <= g) => z \in (-n) .. (-1))
  OBVIOUS
<1> HIDE DEF z
<1>2. z \in 0 .. (n - 1) => z % n = z
  OBVIOUS
<1>3. z \in (-n) .. (-1) => z % n = z + n
  OBVIOUS
<1>4. z % n = IF x <= g THEN z ELSE z + n
  BY <1>1, <1>2, <1>3
<1>5. QED
  BY <1>4 DEF z

LEMMA StepOnCircle ==
  ASSUME NEW n \in Nat \ {0}, NEW x \in 0 .. (n - 1)
  PROVE  /\ (x + 1) % n = IF x + 1 = n THEN 0 ELSE x + 1
         /\ (x - 1) % n = IF x = 0 THEN n - 1 ELSE x - 1
<1> DEFINE u == x + 1
           w == x - 1
<1>1. /\ u \in Int /\ w \in Int /\ (u = n \/ u \in 0 .. (n - 1))
      /\ (x = 0 /\ w = -1) \/ (x # 0 /\ w \in 0 .. (n - 1))
  OBVIOUS
<1> HIDE DEF u, w
<1>2. (u = n => u % n = 0) /\ (u \in 0 .. (n - 1) => u % n = u)
  OBVIOUS
<1>3. (w = -1 => w % n = n - 1) /\ (w \in 0 .. (n - 1) => w % n = w)
  OBVIOUS
<1>4. u % n = (IF u = n THEN 0 ELSE u) /\ w % n = (IF x = 0 THEN n - 1 ELSE w)
  BY <1>1, <1>2, <1>3
<1>5. QED
  BY <1>4 DEF u, w

(* One step the shorter way round is one step less to go. *)
LEMMA OneNearerRound ==
  ASSUME NEW x \in 0 .. (Circle - 1), NEW g \in 0 .. (Circle - 1), x # g
  PROVE  /\ AngTowards(x, g) \in 0 .. (Circle - 1)
         /\ Around(AngTowards(x, g), g) = Around(x, g) - 1
<1> DEFINE n == Circle
           h == n \div 2
           y == AngTowards(x, g)
           d == (g - x) % n
           e == (g - y) % n
<1>1. n \in Nat \ {0} /\ h \in Nat /\ 2 * h <= n /\ n < 2 * h + 2
  BY CobAssumption, HalfIs
<1>2. d = IF x <= g THEN g - x ELSE (g - x) + n
  BY CobAssumption, GapOnCircle
<1>3. (x + 1) % n = IF x + 1 = n THEN 0 ELSE x + 1
  BY CobAssumption, StepOnCircle
<1>4. (x - 1) % n = IF x = 0 THEN n - 1 ELSE x - 1
  BY CobAssumption, StepOnCircle
<1>5. y = IF d <= h THEN (x + 1) % n ELSE (x - 1) % n
  BY DEF AngTowards
<1>6. y \in 0 .. (n - 1)
  BY <1>1, <1>3, <1>4, <1>5
<1>7. e = IF y <= g THEN g - y ELSE (g - y) + n
  <2> HIDE DEF y
  <2>1. QED
    BY <1>6, CobAssumption, GapOnCircle
<1>8. \A z : Around(z, g) = IF (g - z) % n <= h THEN (g - z) % n ELSE n - ((g - z) % n)
  BY DEF Around
<1> HIDE DEF n, h, y, d, e
<1>9. d \in 1 .. (n - 1)
  BY <1>1, <1>2 DEF n
<1>10. /\ d <= h => e = d - 1
       /\ ~ (d <= h) => e = IF d = n - 1 THEN 0 ELSE d + 1
  BY <1>1, <1>2, <1>3, <1>4, <1>5, <1>7, <1>9 DEF n
<1>11. Around(y, g) = Around(x, g) - 1
  <2>1. Around(x, g) = IF d <= h THEN d ELSE n - d
    BY <1>8 DEF d
  <2>2. Around(y, g) = IF e <= h THEN e ELSE n - e
    BY <1>8 DEF e
  <2>3. QED
    BY <1>1, <1>9, <1>10, <2>1, <2>2
<1>12. QED
  BY <1>6, <1>11 DEF y, n

LEMMA OneNearer ==
  ASSUME NEW r \in Nat, NEW x \in 0 .. r, NEW g \in 0 .. r
  PROVE  /\ Towards(x, g) \in 0 .. r
         /\ x # g => Between(Towards(x, g), g) = Between(x, g) - 1
BY DEF Towards, Between

-----------------------------------------------------------------------------
(* A step of the sweep, for one axis. *)
LEMMA StepsNearer ==
  ASSUME AxisTypes, NEW a \in Axes
  PROVE  /\ Stepped(a) \in Spots(a)
         /\ to[a] = Rest => Stepped(a) = pose[a]
         /\ to[a] # Rest /\ pose[a] = to[a] => Stepped(a) = to[a]
         /\ to[a] # Rest /\ pose[a] # to[a] =>
              (IF a \in Slides THEN Between(Stepped(a), to[a]) ELSE Around(Stepped(a), to[a])) = Left(a) - 1
<1>1. pose[a] \in Spots(a) /\ to[a] \in Spots(a) \cup {Rest} /\ Rail \in Nat
  BY CobAssumption DEF AxisTypes
<1>2. CASE to[a] = Rest
  BY <1>1, <1>2 DEF Stepped
<1>3. CASE to[a] # Rest /\ a \in Slides
  <2>1. pose[a] \in 0 .. Rail /\ to[a] \in 0 .. Rail /\ Stepped(a) = Towards(pose[a], to[a])
        /\ Spots(a) = 0 .. Rail /\ Left(a) = Between(pose[a], to[a])
    BY <1>1, <1>3 DEF Spots, Stepped, Left
  <2>2. pose[a] = to[a] => Stepped(a) = to[a]
    BY <2>1 DEF Towards
  <2>3. QED
    BY <1>1, <1>3, <2>1, <2>2, OneNearer
<1>4. CASE to[a] # Rest /\ a \notin Slides
  <2>1. pose[a] \in 0 .. (Circle - 1) /\ to[a] \in 0 .. (Circle - 1)
        /\ Stepped(a) = AngTowards(pose[a], to[a])
        /\ Spots(a) = 0 .. (Circle - 1) /\ Left(a) = Around(pose[a], to[a])
    BY <1>1, <1>4 DEF Spots, Stepped, Left
  <2>2. pose[a] = to[a] => Stepped(a) = to[a]
    BY <2>1 DEF AngTowards
  <2>3. QED
    BY <1>4, <2>1, <2>2, OneNearerRound
<1>5. QED
  BY <1>2, <1>3, <1>4

LEMMA SpunType ==
  ASSUME NEW s \in SpinStates
  PROVE  Spun(s) \in SpinStates
BY DEF Spun, Ramping, SpinStates, Towards

LEMMA SweepKeeps ==
  ASSUME AxisInv, Sweep
  PROVE  AxisInv'
<1>1. CASE ~ anyMotion
  BY <1>1 DEF Sweep, AxisInv, AxisTypes, MotionIsSeen, Moving, Ramping
<1>2. CASE anyMotion
  <2>1. /\ to' = [a \in Axes |-> IF Stepped(a) = to[a] THEN Rest ELSE to[a]]
        /\ spin' = [a \in Axes |-> Spun(spin[a])]
        /\ pose' = [a \in Axes |-> IF a \in Slides THEN Stepped(a)
                                 ELSE (Stepped(a) + spin'[a].now) % Circle]
        /\ anyMotion' = \E a \in Axes : StillBusy(a)
    BY <1>2 DEF Sweep
  <2>2. spin' \in [Axes -> SpinStates]
    BY <2>1, SpunType DEF AxisInv, AxisTypes
  <2>3. ASSUME NEW a \in Axes PROVE pose'[a] \in Spots(a) /\ to'[a] \in Spots(a) \cup {Rest}
    <3>1. Stepped(a) \in Spots(a) /\ to[a] \in Spots(a) \cup {Rest}
      BY StepsNearer DEF AxisInv, AxisTypes
    <3>2. CASE a \in Slides
      BY <2>1, <3>1, <3>2
    <3>3. CASE a \notin Slides
      <4>1. Stepped(a) \in Int /\ spin'[a].now \in Int /\ Circle \in Nat \ {0}
            /\ Spots(a) = 0 .. (Circle - 1)
        BY <2>2, <3>1, <3>3, CobAssumption DEF Spots, SpinStates
      <4>2. (Stepped(a) + spin'[a].now) % Circle \in 0 .. (Circle - 1)
        <5> DEFINE z == Stepped(a) + spin'[a].now
        <5>1. z \in Int
          BY <4>1
        <5> HIDE DEF z
        <5>2. z % Circle \in 0 .. (Circle - 1)
          BY <4>1, <5>1, Wraps
        <5>3. QED
          BY <5>2 DEF z
      <4>3. QED
        BY <2>1, <3>1, <3>3, <4>1, <4>2
    <3>4. QED
      BY <3>2, <3>3
  <2>4. pose' = [a \in Axes |-> pose'[a]] /\ to' = [a \in Axes |-> to'[a]] /\ anyMotion' \in BOOLEAN
    BY <2>1
  <2>5. MotionIsSeen'
    BY <2>1 DEF MotionIsSeen, Moving, StillBusy
  <2>6. QED
    BY <2>2, <2>3, <2>4, <2>5 DEF AxisInv, AxisTypes
<1>3. QED
  BY <1>1, <1>2

LEMMA TargetKeeps ==
  ASSUME AxisInv, NEW a \in Axes, NEW g \in Spots(a), NEW now \in BOOLEAN, Target(a, g, now)
  PROVE  AxisInv'
<1>1. CASE now
  BY <1>1 DEF Target, AxisInv, AxisTypes, MotionIsSeen, Moving
<1>2. CASE ~ now
  BY <1>2 DEF Target, AxisInv, AxisTypes, MotionIsSeen, Moving
<1>3. QED
  BY <1>1, <1>2

LEMMA SpinKeeps ==
  ASSUME AxisInv, NEW a \in Turns, NEW g \in {0, 1}, NEW ramp \in {0, 1}, Spin(a, g, ramp)
  PROVE  AxisInv'
<1>1. a \in Axes /\ spin[a] \in SpinStates
  BY DEF AxisInv, AxisTypes, Axes
<1>2. [now |-> IF ramp = 0 THEN g ELSE spin[a].now, goal |-> g, ramp |-> ramp] \in SpinStates
  BY <1>1 DEF SpinStates
<1>3. spin' \in [Axes -> SpinStates] /\ anyMotion' = TRUE /\ pose' = pose /\ to' = to
  BY <1>1, <1>2 DEF Spin, AxisInv, AxisTypes
<1>4. QED
  BY <1>3 DEF AxisInv, AxisTypes, MotionIsSeen

(* All else leaves the axes as they are. *)
LEMMA AxesStay ==
  ASSUME VmNext
  PROVE  \/ SameAxes
         \/ VmTick /\ Sweep
         \/ \E a \in Axes : \E g \in Spots(a), now \in BOOLEAN : Target(a, g, now)
         \/ \E a \in Turns, g \in {0, 1}, ramp \in {0, 1} : Spin(a, g, ramp)
<1>1. CASE VmTick
  BY <1>1 DEF VmTick
<1>2. CASE Skip \/ Resume \/ EndOfTick \/ Reset \/ \E i \in Ids : Start(i)
  BY <1>2 DEF Skip, Resume, EndOfTick, Reset, Start
<1>3. CASE Step
  BY <1>3 DEF Step, Instruction, StartScript, Signal, SetMask
<1>4. QED
  BY <1>1, <1>2, <1>3 DEF VmNext, VmStep

LEMMA AxisStep ==
  ASSUME AxisInv, [VmNext]_vmVars
  PROVE  AxisInv'
<1>1. CASE SameAxes \/ UNCHANGED vmVars
  BY <1>1 DEF SameAxes, vmVars, AxisInv, AxisTypes, MotionIsSeen, Moving, Ramping
<1>2. QED
  BY <1>1, AxesStay, SweepKeeps, TargetKeeps, SpinKeeps

LEMMA AxisStarts == VmInit => AxisInv
<1> SUFFICES ASSUME VmInit PROVE AxisInv
  OBVIOUS
<1>1. \A a \in Axes : 0 \in Spots(a)
  BY CobAssumption DEF Spots
<1>2. spin \in [Axes -> SpinStates]
  BY DEF VmInit, SpinStates
<1>3. QED
  BY <1>1, <1>2 DEF VmInit, AxisInv, AxisTypes, MotionIsSeen, Moving, Ramping

(* Wherever scripts send or spin them, the axes stay on their rail or       *)
(* circle, and the flag knows of every motion.                              *)
THEOREM AxesHold == VmSpec => []AxisInv
<1>1. AxisInv /\ [VmNext]_vmVars => AxisInv'
  BY AxisStep
<1>2. QED
  BY <1>1, AxisStarts, PTL DEF VmSpec

(* A tick that skips the sweep (anyMotion_, vm.cpp) skips no motion.        *)
THEOREM NoMotionIsHidden == VmSpec => []MotionIsSeen
<1>1. AxisInv => MotionIsSeen
  BY DEF AxisInv
<1>2. QED
  BY <1>1, AxesHold, PTL

LEMMA SweepIsNearer ==
  ASSUME AxisInv, AxisInv', VmTick, NEW a \in Axes,
         to[a] # Rest, a \in Turns => spin'[a].now = 0
  PROVE  to'[a] = Rest \/ Left(a)' = Left(a) - 1
<1>1. anyMotion
  BY DEF AxisInv, MotionIsSeen, Moving
<1>2. /\ to'[a] = IF Stepped(a) = to[a] THEN Rest ELSE to[a]
      /\ pose'[a] = IF a \in Slides THEN Stepped(a) ELSE (Stepped(a) + spin'[a].now) % Circle
  BY <1>1 DEF VmTick, Sweep
<1>3. CASE Stepped(a) = to[a]
  BY <1>2, <1>3
<1>4. CASE Stepped(a) # to[a]
  <2>1. /\ Stepped(a) \in Spots(a) /\ pose[a] # to[a]
        /\ (IF a \in Slides THEN Between(Stepped(a), to[a]) ELSE Around(Stepped(a), to[a])) = Left(a) - 1
    BY <1>4, StepsNearer DEF AxisInv
  <2>2. pose'[a] = Stepped(a)
    <3>1. CASE a \in Slides
      BY <1>2, <3>1
    <3>2. CASE a \notin Slides
      <4>1. Stepped(a) \in 0 .. (Circle - 1) /\ spin'[a].now = 0 /\ Circle \in Nat \ {0}
        BY <2>1, <3>2, CobAssumption DEF Spots, Axes
      <4>2. Stepped(a) + spin'[a].now = Stepped(a)
        BY <4>1
      <4>3. Stepped(a) % Circle = Stepped(a)
        BY <4>1, NoWrap
      <4>4. QED
        BY <1>2, <3>2, <4>2, <4>3
    <3>3. QED
      BY <3>1, <3>2
  <2>3. to'[a] = to[a]
    BY <1>2, <1>4
  <2>4. QED
    BY <2>1, <2>2, <2>3 DEF Left
<1>5. QED
  BY <1>3, <1>4

(* As long as nobody redirects it a motion ends, after as many ticks as it  *)
(* has units to go, and a script that waits for it may go on: no tick skips *)
(* it, and the way round the circle never turns back.                       *)
THEOREM SweepsBringNearer == VmSpec => NearerBySweep
<1>1. AxisInv /\ AxisInv' /\ [VmNext]_vmVars =>
        [VmTick => \A a \in Axes :
           to[a] # Rest /\ (a \in Turns => spin'[a].now = 0)
             => to'[a] = Rest \/ Left(a)' = Left(a) - 1]_vmVars
  BY SweepIsNearer
<1>2. QED
  BY <1>1, AxesHold, PTL DEF VmSpec, NearerBySweep
=============================================================================
