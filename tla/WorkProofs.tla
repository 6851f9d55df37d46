--------------------------------- MODULE WorkProofs ---------------------------------
(***************************************************************************)
(* Proofs about what builders put up and what factories turn out, for any  *)
(* number of builders, spots, sites, units, players and limits.            *)
(*                                                                         *)
(* BuildOrders: the ground and the marks of a tick (IInv).                 *)
(*                                                                         *)
(* Production: unitCount, on which the unit cap is judged, is kept by hand *)
(* and is above the number of living units from a death to the end of the  *)
(* tick.  That it is never below (CountCovers) is what the limits need.    *)
(***************************************************************************)
EXTENDS BuildOrders, Production, FiniteSetTheorems, WellFoundedInduction, TLAPS

---------------------------------------------------------------------------
(* What the operations on a queue return.                                  *)

(* Taking from a queue leaves a queue.                                     *)
LEMMA QueueTaken ==
  ASSUME NEW q \in Queues, NEW job
  PROVE  /\ PopIf(q, job) \in Queues /\ DropUnless(q, job) \in Queues
         /\ q # <<>> => Tail(q) \in Queues /\ Head(q) \in Jobs
<1>1. ASSUME q # <<>> PROVE Tail(q) \in Queues /\ Head(q) \in Jobs
  <2>1. q \in Seq(Jobs) /\ Len(q) <= MaxOrders /\ MaxOrders \in Nat
    BY BuildAssumption DEF Queues
  <2>2. Tail(q) \in Seq(Jobs) /\ Len(Tail(q)) = Len(q) - 1 /\ Head(q) \in Jobs
    BY <1>1, <2>1
  <2>3. Len(q) \in Nat
    BY <2>1
  <2>4. QED
    BY <2>1, <2>2, <2>3 DEF Queues
<1>2. QED
  BY <1>1 DEF PopIf, DropUnless, HeadIs

(* A command's order fits into the queue, and what a redirection keeps of  *)
(* a queue is no longer than it was.                                       *)
LEMMA QueueGiven ==
  ASSUME NEW b \in Builders, orders \in [Builders -> Queues], NEW o \in Jobs,
         NEW queue \in BOOLEAN, Len(orders[b]) < MaxOrders \/ ~queue
  PROVE  Given(b, o, queue) \in Queues /\ KeptLegs(b, queue) \in Queues /\ <<>> \in Queues
<1>1. MaxOrders \in Nat \ {0}
  BY BuildAssumption
<1>2. orders[b] \in Seq(Jobs) /\ Len(orders[b]) <= MaxOrders
  BY DEF Queues
<1>3. Given(b, o, queue) \in Queues
  BY <1>1, <1>2 DEF Given, Queues
<1>4. ASSUME ~queue PROVE KeptLegs(b, queue) \in Queues
  <2> DEFINE L == Legs(orders[b])
  <2>1. L \subseteq 1..Len(orders[b])
    BY <1>2 DEF Legs
  <2>2. IsFiniteSet(1..Len(orders[b])) /\ Cardinality(1..Len(orders[b])) = Len(orders[b])
    BY <1>2, FS_Interval, 0 <= Len(orders[b])
  <2>3. Cardinality(L) \in Nat /\ Cardinality(L) <= Len(orders[b])
    BY <2>1, <2>2, FS_Subset, FS_CardinalityType
  <2>4. Walk \in Jobs
    BY DEF Walk, Jobs
  <2>5. [k \in 1..Cardinality(L) |-> Walk] \in Seq(Jobs)
        /\ Len([k \in 1..Cardinality(L) |-> Walk]) = Cardinality(L)
    BY <2>3, <2>4
  <2>6. QED
    BY <1>1, <1>2, <1>4, <2>3, <2>5 DEF KeptLegs, Queues
<1>5. <<>> \in Queues
  BY <1>1 DEF Queues
<1>6. QED
  BY <1>3, <1>4, <1>5 DEF KeptLegs

---------------------------------------------------------------------------
(* What happens to sites and ground.                                       *)

(* The ways a step can touch a structure or the ground, among all those of *)
(* Next.                                                                   *)
Fading(S) == \A i \in S : site[i].state \in {"site", "lost"}
GroundStep ==
  \/ UNCHANGED <<site, blocked>>
  \/ \E S \in SUBSET Sites : Fading(S) /\ Vanish(S)
  \/ \E b \in Builders, paid \in BOOLEAN : WorkOnSite(b, paid)
  \/ \E i \in Sites : Hit(i)
  \/ Decay
  \/ Sweep
  \/ \E b \in Builders : StartBuild(b)

LEMMA RedirectIsGroundStep ==
  ASSUME NEW b \in Builders, NEW queue \in BOOLEAN, Redirect(b, queue)
  PROVE  \E S \in SUBSET Sites : Fading(S) /\ Vanish(S)
<1>1. CASE queue
  <2>1. Fading({}) /\ Vanish({}) /\ {} \in SUBSET Sites
    BY <1>1 DEF Redirect, Fading
  <2>2. QED
    BY <2>1
<1>2. CASE ~queue
  <2>1. Fading(Ghost(b)) /\ Vanish(Ghost(b)) /\ Ghost(b) \in SUBSET Sites
    BY <1>2 DEF Redirect, Fading, Ghost
  <2>2. QED
    BY <2>1
<1>3. QED
  BY <1>1, <1>2

(* Every step is one of these.                                             *)
LEMMA StepsOnGround ==
  ASSUME [Next]_vars
  PROVE  GroundStep
<1>1. ASSUME NEW b \in Builders, Command(b) PROVE GroundStep
  <2>1. CASE Stop(b)
    BY <2>1, RedirectIsGroundStep DEF Stop, GroundStep
  <2>2. ASSUME NEW queue \in BOOLEAN, Move(b, queue) PROVE GroundStep
    BY <2>2, RedirectIsGroundStep DEF Move, GroundStep
  <2>3. ASSUME NEW queue \in BOOLEAN, NEW s \in Spots, Build(b, s, queue) PROVE GroundStep
    BY <2>3 DEF Build, GroundStep
  <2>4. ASSUME NEW queue \in BOOLEAN, NEW i \in Sites, Assist(b, i, queue) PROVE GroundStep
    BY <2>4, RedirectIsGroundStep DEF Assist, GroundStep
  <2>5. ASSUME NEW queue \in BOOLEAN, NEW f \in Features, Reclaim(b, f, queue) PROVE GroundStep
    BY <2>5, RedirectIsGroundStep DEF Reclaim, GroundStep
  <2>6. QED
    BY <1>1, <2>1, <2>2, <2>3, <2>4, <2>5 DEF Command
<1>2. ASSUME NEW b \in Builders, Construct(b) PROVE GroundStep
  <2>1. CASE NoJob(b) \/ SiteOver(b) \/ WalkToSite(b)
    BY <2>1 DEF NoJob, SiteOver, WalkToSite, GroundStep
  <2>2. CASE AbandonSite(b)
    <3>1. Fading(Ghost(b)) /\ Vanish(Ghost(b)) /\ Ghost(b) \in SUBSET Sites
      BY <2>2 DEF AbandonSite, Fading, Ghost
    <3>2. QED
      BY <3>1 DEF GroundStep
  <2>3. ASSUME NEW paid \in BOOLEAN, WorkOnSite(b, paid) PROVE GroundStep
    BY <2>3 DEF GroundStep
  <2>4. CASE WalkToFeature(b) \/ WorkOnFeature(b) \/ FeatureOver(b)
    BY <2>4 DEF WalkToFeature, WorkOnFeature, FeatureOver, Reclaims, GroundStep
  <2>5. QED
    BY <1>2, <2>1, <2>2, <2>3, <2>4 DEF Construct
<1>3. ASSUME NEW b \in Builders, PathLands(b) \/ Unit(b) PROVE GroundStep
  BY <1>3 DEF PathLands, Unit, GroundStep
<1>4. ASSUME NEW b \in Builders, Due(b) PROVE GroundStep
  BY <1>4 DEF Due, DropBuild, GroundStep
<1>5. CASE StartTick \/ UNCHANGED vars
  BY <1>5 DEF StartTick, vars, GroundStep
<1>6. CASE Decay \/ Sweep \/ \E i \in Sites : Hit(i)
  BY <1>6 DEF GroundStep
<1>7. QED
  BY <1>1, <1>2, <1>3, <1>4, <1>5, <1>6 DEF Next, Tick

(* The part of TypeOK about structures and ground, and what a structure    *)
(* looks like after each kind of step.                                     *)
GroundOK == site \in [Sites -> Structures] /\ blocked \subseteq Spots

LEMMA GoneIsGone ==
  ASSUME NEW r \in Structures
  PROVE  Gone(r) \in Structures /\ Gone(r).spot = r.spot /\ Gone(r).state = "gone"
<1>1. 0 \in 0..MaxHp /\ "gone" \in States
  BY BuildAssumption DEF States
<1>2. QED
  BY <1>1 DEF Gone, Structures

LEMMA AfterVanish ==
  ASSUME GroundOK, NEW S \in SUBSET Sites, Vanish(S)
  PROVE  /\ GroundOK'
         /\ \A i \in Sites : site'[i].spot = site[i].spot
         /\ \A i \in Sites : site'[i].state = IF i \in S THEN "gone" ELSE site[i].state
         /\ blocked' = blocked \ {site[i].spot : i \in S}
<1>1. \A i \in Sites : site'[i] = IF i \in S THEN Gone(site[i]) ELSE site[i]
  BY DEF Vanish
<1>2. \A i \in Sites : site[i] \in Structures
  BY DEF GroundOK
<1>3. QED
  BY <1>1, <1>2, GoneIsGone DEF Vanish, GroundOK

LEMMA AfterWork ==
  ASSUME GroundOK, NEW b \in Builders, NEW paid \in BOOLEAN, WorkOnSite(b, paid),
         buildSite \in [Builders -> Sites \cup {0}]
  PROVE  /\ GroundOK'
         /\ buildSite[b] \in Sites /\ site[buildSite[b]].state = "site"
         /\ \A i \in Sites : site'[i].spot = site[i].spot
         /\ \A i \in Sites : i # buildSite[b] => site'[i] = site[i]
         /\ site'[buildSite[b]].state \in {"site", "done"}
         /\ blocked' = blocked
<1> DEFINE i == buildSite[b]
<1>1. i \in Sites /\ site[i].state = "site"
  BY DEF WorkOnSite, OnSite
<1>2. site[i] \in Structures
  BY <1>1 DEF GroundOK
<1>3. PICK h \in 0..MaxHp, st \in {"site", "done"} :
        site' = [site EXCEPT ![i].begun = TRUE, ![i].hp = h, ![i].state = st]
  <2> DEFINE hp == IF paid THEN site[i].hp + 1 ELSE site[i].hp
             done == paid /\ hp >= MaxHp
  <2>1. (IF hp > MaxHp THEN MaxHp ELSE hp) \in 0..MaxHp
    BY <1>2, BuildAssumption DEF Structures
  <2>2. site' = [site EXCEPT ![i].begun = TRUE, ![i].hp = IF hp > MaxHp THEN MaxHp ELSE hp,
                             ![i].state = IF done THEN "done" ELSE site[i].state]
    BY <1>1 DEF WorkOnSite, GroundOK
  <2> HIDE DEF hp
  <2>3. QED
    BY <1>1, <2>1, <2>2
<1>4. site'[i] = [site[i] EXCEPT !.begun = TRUE, !.hp = h, !.state = st]
  BY <1>1, <1>3 DEF GroundOK
<1>5. site'[i] \in Structures /\ site'[i].spot = site[i].spot /\ site'[i].state = st
  BY <1>2, <1>4 DEF Structures, States
<1>6. \A j \in Sites : j # i => site'[j] = site[j]
  BY <1>1, <1>3 DEF GroundOK
<1>7. site' \in [Sites -> Structures]
  BY <1>3, <1>5, <1>6 DEF GroundOK
<1>8. blocked' = blocked
  BY DEF WorkOnSite
<1>9. QED
  BY <1>1, <1>5, <1>6, <1>7, <1>8 DEF GroundOK

LEMMA AfterHit ==
  ASSUME GroundOK, NEW i \in Sites, Hit(i)
  PROVE  /\ GroundOK' /\ blocked' = blocked
         /\ site[i].hp > 0
         /\ \A j \in Sites : site'[j].spot = site[j].spot /\ site'[j].state = site[j].state
         /\ \A j \in Sites : j # i => site'[j] = site[j]
<1>1. site[i] \in Structures /\ 0 \in 0..MaxHp
  BY BuildAssumption DEF GroundOK
<1>2. site'[i] = [site[i] EXCEPT !.hp = 0] /\ \A j \in Sites : j # i => site'[j] = site[j]
  BY DEF Hit, GroundOK
<1>3. site'[i] \in Structures /\ site'[i].spot = site[i].spot /\ site'[i].state = site[i].state
  BY <1>1, <1>2 DEF Structures
<1>4. site' \in [Sites -> Structures]
  BY <1>2, <1>3 DEF Hit, GroundOK
<1>5. QED
  BY <1>2, <1>3, <1>4 DEF Hit, GroundOK

LEMMA AfterDecay ==
  ASSUME GroundOK, Decay
  PROVE  /\ GroundOK'
         /\ \A i \in Sites : site'[i].spot = site[i].spot
         /\ \A i \in Sites : i \notin Orphans => site'[i] = site[i]
         /\ \A i \in Sites : \/ site'[i].state = site[i].state
                             \/ site'[i].state = "gone" /\ i \in Orphans
         /\ blocked' = blocked \ {site[i].spot : i \in {j \in Sites : site'[j].state # site[j].state}}
<1>1. \A i \in Sites : site[i] \in Structures
  BY DEF GroundOK
<1>2. \A i \in Sites : site'[i] = IF i \in Fallen THEN [Gone(site[i]) EXCEPT !.hp = 0]
                                  ELSE IF i \in Orphans THEN [site[i] EXCEPT !.hp = @ - 1]
                                  ELSE site[i]
  <2>1. \A i \in Sites : [Gone(site[i]) EXCEPT !.hp = 0] = Gone(site[i])
    BY <1>1 DEF Gone, Structures
  <2>2. QED
    BY <2>1 DEF Decay
<1>3. ASSUME NEW i \in Fallen
      PROVE  /\ site'[i] \in Structures /\ site'[i].spot = site[i].spot
             /\ site'[i].state = "gone" /\ site[i].state = "site"
  <2>1. i \in Sites /\ site[i].state = "site" /\ site'[i] = Gone(site[i])
    BY DEF Decay, Fallen, Orphans
  <2>2. QED
    BY <1>1, <2>1, GoneIsGone
<1>4. ASSUME NEW i \in Orphans, i \notin Fallen
      PROVE  /\ site'[i] \in Structures /\ site'[i].spot = site[i].spot
             /\ site'[i].state = site[i].state
  <2>1. i \in Sites /\ site[i] \in Structures /\ site'[i] = [site[i] EXCEPT !.hp = @ - 1]
    BY <1>1, <1>2, <1>4 DEF Orphans
  <2>2. site[i].hp \in 0..MaxHp /\ site[i].hp > 1 /\ MaxHp \in Nat
    BY <1>4, <2>1, BuildAssumption DEF Structures, Fallen
  <2>3. site[i].hp - 1 \in 0..MaxHp
    BY <2>2
  <2>4. QED
    BY <2>1, <2>3 DEF Structures
<1>5. \A i \in Sites : i \notin Orphans => site'[i] = site[i]
  BY <1>2 DEF Fallen
<1>6. site' \in [Sites -> Structures]
  BY <1>1, <1>3, <1>4, <1>5 DEF Decay, Fallen
<1>7. Fallen = {j \in Sites : site'[j].state # site[j].state}
  BY <1>3, <1>4, <1>5 DEF Fallen, Orphans
<1>8. blocked' = blocked \ {site[i].spot : i \in Fallen}
  BY DEF Decay
<1>9. QED
  BY <1>3, <1>4, <1>5, <1>6, <1>7, <1>8 DEF GroundOK, Fallen, Orphans

LEMMA AfterSweep ==
  ASSUME GroundOK, Sweep
  PROVE  /\ GroundOK'
         /\ \A i \in Sites : site'[i].spot = site[i].spot
         /\ \A i \in Sites : \/ site'[i] = site[i]
                             \/ site'[i].state \in {"lost", "gone", "wreck"}
         /\ \A i \in Sites : site'[i] # site[i] => i \in Dying \cup Wrecks
         /\ blocked' = blocked \ {site[i].spot : i \in {j \in Sites :
                                    site'[j] # site[j] /\ site'[j].state # "wreck"}}
<1>1. \A i \in Sites : site[i] \in Structures
  BY DEF GroundOK
<1>2. PICK W \in SUBSET {i \in Dying : site[i].state = "done"}, R \in SUBSET Wrecks :
       /\ site' = [i \in Sites |->
            IF i \in W THEN [site[i] EXCEPT !.state = "wreck"]
            ELSE IF i \in Dying /\ site[i].state = "site" THEN [site[i] EXCEPT !.state = "lost"]
            ELSE IF i \in Dying \cup R THEN Gone(site[i]) ELSE site[i]]
       /\ blocked' = blocked \ {site[i].spot : i \in (Dying \ W) \cup R}
  BY DEF Sweep
<1>3. ASSUME NEW i \in Sites
      PROVE  /\ site'[i] \in Structures /\ site'[i].spot = site[i].spot
             /\ i \in W => site'[i].state = "wreck" /\ site[i].state = "done"
             /\ i \in (Dying \ W) \cup R => /\ site'[i].state \in {"lost", "gone"}
                                            /\ site[i].state \in {"site", "done", "wreck"}
             /\ i \notin Dying \cup R => site'[i] = site[i]
  <2>1. site[i] \in Structures /\ {"wreck", "lost"} \subseteq States
    BY <1>1 DEF States
  <2>2. CASE i \in W
    <3>1. site'[i] = [site[i] EXCEPT !.state = "wreck"] /\ site[i].state = "done" /\ i \in Dying
      BY <1>2, <2>2
    <3>2. i \notin R
      BY <3>1 DEF Wrecks
    <3>3. QED
      BY <2>1, <2>2, <3>1, <3>2 DEF Structures
  <2>3. CASE i \notin W /\ i \in Dying /\ site[i].state = "site"
    <3>1. site'[i] = [site[i] EXCEPT !.state = "lost"]
      BY <1>2, <2>3
    <3>2. QED
      BY <2>1, <2>3, <3>1 DEF Structures
  <2>4. CASE i \notin W /\ i \in Dying \cup R /\ ~(i \in Dying /\ site[i].state = "site")
    <3>1. site'[i] = Gone(site[i])
      BY <1>2, <2>4
    <3>2. site[i].state \in {"site", "done", "wreck"}
      BY <2>4 DEF Dying, Standing, Wrecks
    <3>3. QED
      BY <2>1, <2>4, <3>1, <3>2, GoneIsGone
  <2>5. CASE i \notin Dying \cup R
    BY <1>2, <2>1, <2>5
  <2>6. QED
    BY <2>2, <2>3, <2>4, <2>5
<1>4. (Dying \ W) \cup R = {j \in Sites : site'[j] # site[j] /\ site'[j].state # "wreck"}
  <2>1. ASSUME NEW j \in (Dying \ W) \cup R
        PROVE  j \in Sites /\ site'[j] # site[j] /\ site'[j].state # "wreck"
    <3>1. j \in Sites /\ (j \in R => site[j].state = "wreck") /\ (j \in Dying => Standing(j))
      BY DEF Dying, Wrecks
    <3>2. QED
      BY <1>3, <3>1 DEF Standing
  <2>2. ASSUME NEW j \in Sites, site'[j] # site[j], site'[j].state # "wreck"
        PROVE  j \in (Dying \ W) \cup R
    BY <1>3, <2>2
  <2>3. QED
    BY <2>1, <2>2
<1>5. site' \in [Sites -> Structures]
  BY <1>2, <1>3
<1>6. blocked' = blocked \ {site[i].spot : i \in {j \in Sites :
                                    site'[j] # site[j] /\ site'[j].state # "wreck"}}
  BY <1>2, <1>4
<1>7. QED
  BY <1>3, <1>5, <1>6 DEF GroundOK

LEMMA AfterStart ==
  ASSUME GroundOK, NEW b \in Builders, StartBuild(b), orders \in [Builders -> Queues]
  PROVE  /\ GroundOK'
         /\ \E i \in Sites, s \in Spots :
              /\ CanPlace(s) /\ site[i].state = "unused"
              /\ site'[i] = [spot |-> s, state |-> "site", begun |-> FALSE, hp |-> 1]
              /\ \A j \in Sites : j # i => site'[j] = site[j]
              /\ blocked' = blocked \cup {s}
              /\ buildSite' = [buildSite EXCEPT ![b] = i]
<1> DEFINE s == Head(orders[b]).at
<1>1. HeadIs(orders[b], "build") /\ orders[b] \in Queues /\ orders[b] # <<>>
  BY DEF StartBuild, ComesDue, HeadIs
<1>2. Head(orders[b]) \in Jobs /\ Head(orders[b]).job = "build"
  BY <1>1, QueueTaken DEF HeadIs
<1>3. s \in Spots
  BY <1>2 DEF Jobs
<1>4. PICK i \in Sites :
        /\ site[i].state = "unused"
        /\ site' = [site EXCEPT ![i] = [spot |-> s, state |-> "site", begun |-> FALSE, hp |-> 1]]
        /\ buildSite' = [buildSite EXCEPT ![b] = i]
  BY DEF StartBuild
<1>5. [spot |-> s, state |-> "site", begun |-> FALSE, hp |-> 1] \in Structures
  BY <1>3, BuildAssumption DEF Structures, States
<1>6. CanPlace(s) /\ blocked' = blocked \cup {s}
  BY DEF StartBuild
<1> HIDE DEF s
<1>7. QED
  BY <1>3, <1>4, <1>5, <1>6 DEF GroundOK

---------------------------------------------------------------------------
(* Types.                                                                  *)

(* Whose turn it is stays within the builders, and a pass ends in another. *)
LEMMA TurnTyped ==
  ASSUME NEW b \in Builders, NEW p, NEW next, Turn(b, p, next)
  PROVE  phase' \in {p, next} /\ turn' \in Builders
BY BuildAssumption DEF Turn, Builders

LEMMA CommandTyped ==
  ASSUME TypeOK, NEW b \in Builders, Command(b)
  PROVE  TypeOK'
<1>1. orders[b] \in Queues /\ orders \in [Builders -> Queues] /\ Walk \in Jobs
      /\ Len(orders[b]) \in Nat /\ MaxOrders \in Nat
  BY BuildAssumption DEF TypeOK, Walk, Jobs, Queues
<1>2. UNCHANGED <<living, beingBuilt, due, phase, turn>>
  BY DEF Command
<1>3. ASSUME NEW queue \in BOOLEAN, Redirect(b, queue)
      PROVE  /\ site' \in [Sites -> Structures] /\ blocked' \subseteq Spots
             /\ reclaimId' \in [Builders -> {{}} \cup {{f} : f \in Features}]
  <2>1. PICK S \in SUBSET Sites : Vanish(S)
    BY <1>3, RedirectIsGroundStep
  <2>2. GroundOK'
    BY <2>1, AfterVanish DEF TypeOK, GroundOK
  <2>3. QED
    BY <1>3, <2>2 DEF GroundOK, Redirect, TypeOK
<1>4. CASE Stop(b)
  <2>1. orders' \in [Builders -> Queues]
    BY <1>1, <1>4, QueueGiven DEF Stop
  <2>2. buildSite' \in [Builders -> Sites \cup {0}] /\ features' = features
    BY <1>4 DEF Stop, TypeOK
  <2>3. QED
    BY <1>2, <1>3, <1>4, <2>1, <2>2 DEF Stop, TypeOK
<1>5. ASSUME NEW queue \in BOOLEAN, Len(orders[b]) < MaxOrders \/ ~queue
      PROVE  /\ \A o \in Jobs : Given(b, o, queue) \in Queues
             /\ KeptLegs(b, queue) \in Queues
  BY <1>1, <1>5, QueueGiven
<1>6. ASSUME NEW queue \in BOOLEAN, Len(orders[b]) < MaxOrders \/ ~queue, Move(b, queue)
      PROVE  TypeOK'
  <2>1. orders' \in [Builders -> Queues]
    BY <1>1, <1>5, <1>6 DEF Move
  <2>2. buildSite' \in [Builders -> Sites \cup {0}] /\ features' = features
    BY <1>6 DEF Move, TypeOK
  <2>3. QED
    BY <1>2, <1>3, <1>6, <2>1, <2>2 DEF Move, TypeOK
<1>7. ASSUME NEW queue \in BOOLEAN, Len(orders[b]) < MaxOrders \/ ~queue,
             NEW s \in Spots, Build(b, s, queue)
      PROVE  TypeOK'
  <2>1. [job |-> "build", at |-> s] \in Jobs
    BY DEF Jobs
  <2>2. orders' \in [Builders -> Queues]
    BY <1>1, <1>5, <1>7, <2>1 DEF Build
  <2>3. QED
    BY <1>2, <1>7, <2>2 DEF Build, TypeOK
<1>8. ASSUME NEW queue \in BOOLEAN, Len(orders[b]) < MaxOrders \/ ~queue,
             NEW i \in Sites, Assist(b, i, queue)
      PROVE  TypeOK'
  <2>1. orders' \in [Builders -> Queues]
    BY <1>1, <1>5, <1>8 DEF Assist
  <2>2. buildSite' \in [Builders -> Sites \cup {0}] /\ features' = features
    BY <1>8 DEF Assist, TypeOK
  <2>3. QED
    BY <1>2, <1>3, <1>8, <2>1, <2>2 DEF Assist, TypeOK
<1>9. ASSUME NEW queue \in BOOLEAN, Len(orders[b]) < MaxOrders \/ ~queue,
             NEW f \in Features, Reclaim(b, f, queue)
      PROVE  TypeOK'
  <2>1. [job |-> "reclaim", at |-> f] \in Jobs
    BY DEF Jobs
  <2>2. orders' \in [Builders -> Queues]
    BY <1>1, <1>5, <1>9, <2>1 DEF Reclaim
  <2>3. buildSite' \in [Builders -> Sites \cup {0}] /\ features' = features
    BY <1>9 DEF Reclaim, TypeOK
  <2>4. QED
    BY <1>2, <1>3, <1>9, <2>2, <2>3 DEF Reclaim, TypeOK
<1>10. QED
  BY <1>4, <1>6, <1>7, <1>8, <1>9 DEF Command

LEMMA ConstructTyped ==
  ASSUME TypeOK, NEW b \in Builders, Construct(b)
  PROVE  TypeOK'
<1>1. orders[b] \in Queues
      /\ \A job \in {"build", "reclaim"} : \A q \in Queues :
           PopIf(q, job) \in Queues /\ DropUnless(q, job) \in Queues
  BY QueueTaken DEF TypeOK
<1>2. ASSUME Turn(b, "construct", "decay")
      PROVE  phase' \in {"orders", "construct", "decay", "sweep", "units", "due"}
             /\ turn' \in Builders
  BY <1>2, TurnTyped
<1>3. GroundOK
  BY DEF TypeOK, GroundOK
<1>4. CASE NoJob(b)
  BY <1>2, <1>4 DEF NoJob, TypeOK
<1>5. CASE SiteOver(b)
  BY <1>1, <1>2, <1>5 DEF SiteOver, Job, TypeOK
<1>6. ASSUME OnSite(b)
      PROVE  /\ buildSite[b] \in Sites /\ beingBuilt' \subseteq Sites
             /\ phase' \in {"orders", "construct", "decay", "sweep", "units", "due"}
             /\ turn' \in Builders /\ UNCHANGED <<reclaimId, living, features, due>>
  BY <1>2, <1>6 DEF OnSite, Job, TypeOK
<1>7. CASE WalkToSite(b)
  BY <1>6, <1>7 DEF WalkToSite, TypeOK
<1>8. CASE AbandonSite(b)
  <2>1. GroundOK'
    BY <1>3, <1>8, AfterVanish DEF AbandonSite, Ghost
  <2>2. orders' \in [Builders -> Queues] /\ buildSite' \in [Builders -> Sites \cup {0}]
    BY <1>1, <1>8 DEF AbandonSite, TypeOK
  <2>3. QED
    BY <1>6, <1>8, <2>1, <2>2 DEF AbandonSite, TypeOK, GroundOK
<1>9. ASSUME NEW paid \in BOOLEAN, WorkOnSite(b, paid) PROVE TypeOK'
  <2>1. GroundOK'
    BY <1>3, <1>9, AfterWork DEF TypeOK
  <2>2. OnSite(b)
    BY <1>9 DEF WorkOnSite
  <2>3. orders' \in [Builders -> Queues]
    BY <1>1, <1>9 DEF WorkOnSite, TypeOK
  <2>4. buildSite' \in [Builders -> Sites \cup {0}]
    BY <1>9 DEF WorkOnSite, TypeOK
  <2>5. QED
    BY <1>6, <2>1, <2>2, <2>3, <2>4 DEF TypeOK, GroundOK
<1>10. CASE WalkToFeature(b)
  BY <1>2, <1>10 DEF WalkToFeature, Reclaims, Job, TypeOK
<1>11. CASE WorkOnFeature(b)
  BY <1>1, <1>2, <1>11 DEF WorkOnFeature, Reclaims, Job, TypeOK
<1>12. CASE FeatureOver(b)
  <2>1. orders' \in [Builders -> Queues]
    BY <1>1, <1>12 DEF FeatureOver, TypeOK
  <2>2. QED
    BY <1>2, <1>12, <2>1 DEF FeatureOver, Reclaims, Job, TypeOK
<1>13. QED
  BY <1>4, <1>5, <1>7, <1>8, <1>9, <1>10, <1>11, <1>12 DEF Construct

LEMMA UnitTyped ==
  ASSUME TypeOK, NEW b \in Builders, PathLands(b) \/ Unit(b)
  PROVE  TypeOK'
<1>1. orders[b] \in Queues /\ <<>> \in Queues
  <2>1. MaxOrders \in Nat
    BY BuildAssumption
  <2>2. QED
    BY <2>1 DEF TypeOK, Queues
<1>2. orders[b] # <<>> => /\ Tail(orders[b]) \in Queues /\ Head(orders[b]) \in Jobs
                          /\ <<Walk>> \o Tail(orders[b]) \in Queues
  <2>1. SUFFICES ASSUME orders[b] # <<>>
                 PROVE  /\ Tail(orders[b]) \in Queues /\ Head(orders[b]) \in Jobs
                        /\ <<Walk>> \o Tail(orders[b]) \in Queues
    OBVIOUS
  <2>2. Tail(orders[b]) \in Queues /\ Head(orders[b]) \in Jobs
    BY <1>1, <2>1, QueueTaken
  <2>3. orders[b] \in Seq(Jobs) /\ Tail(orders[b]) \in Seq(Jobs) /\ <<Walk>> \in Seq(Jobs)
        /\ Len(<<Walk>>) = 1 /\ Len(Tail(orders[b])) = Len(orders[b]) - 1
    BY <1>1, <2>1 DEF Queues, Walk, Jobs
  <2>4. <<Walk>> \o Tail(orders[b]) \in Seq(Jobs)
        /\ Len(<<Walk>> \o Tail(orders[b])) = Len(orders[b])
    BY <2>3
  <2>5. QED
    BY <1>1, <2>2, <2>4 DEF Queues
<1>3. CASE PathLands(b)
  BY <1>2, <1>3 DEF PathLands, HeadIs, TypeOK
<1>4. CASE Unit(b)
  <2>1. UNCHANGED <<site, beingBuilt, blocked, features>>
    BY <1>4 DEF Unit
  <2>2. CASE Dies(b)
    BY <1>1, <2>1, <2>2, TurnTyped DEF Dies, TypeOK
  <2>3. CASE Held(b)
    BY <2>1, <2>3, TurnTyped DEF Held, TypeOK
  <2>4. CASE Acts(b)
    <3>1. HeadIs(orders[b], "reclaim") => Head(orders[b]).at \in Features
      BY <1>2 DEF HeadIs, Jobs
    <3>2. reclaimId' \in [Builders -> {{}} \cup {{f} : f \in Features}]
      BY <2>4, <3>1 DEF Acts, TypeOK
    <3>3. orders' \in [Builders -> Queues]
      BY <1>2, <2>4 DEF Acts, TypeOK
    <3>4. due' \subseteq Builders /\ UNCHANGED <<living, buildSite>>
      BY <2>4 DEF Acts, TypeOK
    <3>5. QED
      BY <2>1, <2>4, <3>2, <3>3, <3>4, TurnTyped DEF Acts, TypeOK
  <2>5. QED
    BY <1>4, <2>2, <2>3, <2>4 DEF Unit
<1>5. QED
  BY <1>3, <1>4

LEMMA DueTyped ==
  ASSUME TypeOK, NEW b \in Builders, Due(b)
  PROVE  TypeOK'
<1>1. /\ phase' \in {"orders", "construct", "decay", "sweep", "units", "due"}
      /\ turn' \in Builders /\ due' \subseteq Builders
      /\ UNCHANGED <<reclaimId, living, features>>
  BY TurnTyped DEF Due, TypeOK
<1>2. CASE StartBuild(b)
  <2>1. GroundOK' /\ \E i \in Sites : buildSite' = [buildSite EXCEPT ![b] = i]
    BY <1>2, AfterStart DEF TypeOK, GroundOK
  <2>2. beingBuilt' \subseteq Sites /\ orders' = orders
    BY <1>2 DEF StartBuild, TypeOK
  <2>3. QED
    BY <1>1, <2>1, <2>2 DEF TypeOK, GroundOK
<1>3. CASE DropBuild(b)
  <2>1. orders[b] # <<>> /\ orders[b] \in Queues
    BY <1>3 DEF DropBuild, ComesDue, HeadIs, TypeOK
  <2>2. Tail(orders[b]) \in Queues
    BY <2>1, QueueTaken
  <2>3. QED
    BY <1>1, <1>3, <2>2 DEF DropBuild, TypeOK
<1>4. CASE UNCHANGED <<orders, site, beingBuilt, buildSite, blocked>>
  BY <1>1, <1>4 DEF TypeOK
<1>5. QED
  BY <1>2, <1>3, <1>4 DEF Due

(* Every variable keeps its type through every step.                       *)
LEMMA TypeStep ==
  ASSUME TypeOK, [Next]_vars
  PROVE  TypeOK'
<1>1. GroundOK
  BY DEF TypeOK, GroundOK
<1>2. CASE UNCHANGED vars
  BY <1>2 DEF vars, TypeOK
<1>3. CASE StartTick
  BY <1>3 DEF StartTick, TypeOK
<1>4. CASE Decay
  BY <1>1, <1>4, AfterDecay DEF Decay, GroundOK, TypeOK
<1>5. CASE Sweep
  BY <1>1, <1>5, AfterSweep DEF Sweep, GroundOK, TypeOK
<1>6. ASSUME NEW i \in Sites, Hit(i) PROVE TypeOK'
  BY <1>1, <1>6, AfterHit DEF Hit, GroundOK, TypeOK
<1>7. QED
  BY <1>2, <1>3, <1>4, <1>5, <1>6, CommandTyped, ConstructTyped, UnitTyped, DueTyped
  DEF Next, Tick

---------------------------------------------------------------------------
(* The inductive invariant: besides the properties, that every builder     *)
(* that has had its turn in the construction pass has marked its site.     *)

Marked ==
  /\ phase \in {"orders", "decay", "sweep"} => turn = 1
  /\ \A b \in Builders :
       living[b] /\ buildSite[b] # 0 /\ (phase = "decay" \/ (phase = "construct" /\ b < turn))
         => buildSite[b] \in beingBuilt

IInv == TypeOK /\ Marked /\ GroundIsFreed /\ OneStructurePerSpot

LEMMA InitIInv == Init => IInv
<1> SUFFICES ASSUME Init PROVE IInv
  OBVIOUS
<1>1. 0 \in 0..MaxHp /\ MaxHp \in Nat /\ 1 \in Builders /\ (CHOOSE s \in Spots : TRUE) \in Spots
  BY BuildAssumption DEF Builders
<1>2. <<>> \in Queues
  BY BuildAssumption DEF Queues
<1>3. TypeOK
  BY <1>1, <1>2 DEF Init, TypeOK, Structures, States
<1>4. Marked /\ GroundIsFreed /\ OneStructurePerSpot
  BY <1>1 DEF Init, Marked, GroundIsFreed, OneStructurePerSpot, Standing
<1>5. QED
  BY <1>3, <1>4 DEF IInv

(* A step outside the construction pass cannot start a pass half way, and  *)
(* in the pass each builder marks its site before its turn is over.        *)
LEMMA MarkedStep ==
  ASSUME TypeOK, Marked, [Next]_vars
  PROVE  Marked'
<1>1. CASE UNCHANGED vars
  BY <1>1 DEF vars, Marked
<1>2. CASE StartTick
  BY <1>2, BuildAssumption DEF StartTick, Marked, Builders
<1>3. CASE Decay \/ Sweep
  BY <1>3 DEF Decay, Sweep, Marked
<1>4. ASSUME NEW i \in Sites, Hit(i) PROVE Marked'
  BY <1>4 DEF Hit, Marked
<1>5. ASSUME NEW b \in Builders, Command(b) PROVE Marked'
  BY <1>5 DEF Command, Marked
<1>6. ASSUME NEW b \in Builders, PathLands(b) PROVE Marked'
  BY <1>6 DEF PathLands, Marked
<1>7. ASSUME NEW b \in Builders, NEW p, NEW next, Turn(b, p, next),
             \/ p = "units" /\ next = "due"
             \/ p = "due" /\ next = "orders"
      PROVE  Marked'
  BY <1>7, BuildAssumption DEF Turn, Marked, Builders
<1>8. ASSUME NEW b \in Builders, Unit(b) PROVE Marked'
  BY <1>7, <1>8 DEF Unit, Dies, Held, Acts
<1>9. ASSUME NEW b \in Builders, Due(b) PROVE Marked'
  BY <1>7, <1>9 DEF Due
<1>10. ASSUME NEW b \in Builders, Construct(b) PROVE Marked'
  <2>1. /\ Turn(b, "construct", "decay") /\ living' = living /\ beingBuilt \subseteq beingBuilt'
        /\ \A c \in Builders : c # b => buildSite'[c] = buildSite[c]
        /\ living[b] /\ buildSite'[b] # 0 => buildSite'[b] \in beingBuilt'
    <3>1. CASE NoJob(b)
      BY <3>1 DEF NoJob
    <3>2. CASE SiteOver(b)
      BY <3>2 DEF SiteOver, Job, TypeOK
    <3>3. CASE WalkToSite(b) \/ AbandonSite(b)
      BY <3>3 DEF WalkToSite, AbandonSite, OnSite, Job, TypeOK
    <3>4. ASSUME NEW paid \in BOOLEAN, WorkOnSite(b, paid)
          PROVE  /\ Turn(b, "construct", "decay") /\ living' = living
                 /\ beingBuilt \subseteq beingBuilt'
                 /\ \A c \in Builders : c # b => buildSite'[c] = buildSite[c]
                 /\ living[b] /\ buildSite'[b] # 0 => buildSite'[b] \in beingBuilt'
      BY <3>4 DEF WorkOnSite, OnSite, Job, TypeOK
    <3>5. CASE WalkToFeature(b) \/ WorkOnFeature(b) \/ FeatureOver(b)
      BY <3>5 DEF WalkToFeature, WorkOnFeature, FeatureOver, Reclaims, Job
    <3>6. QED
      BY <1>10, <3>1, <3>2, <3>3, <3>4, <3>5 DEF Construct
  <2>2. phase = "construct" /\ turn = b /\ N \in Nat /\ b \in 1..N
    BY <2>1, BuildAssumption DEF Turn, Builders
  <2>3. CASE b = N
    <3>1. phase' = "decay" /\ turn' = 1
      BY <2>1, <2>3 DEF Turn
    <3>2. \A c \in Builders : c = b \/ c < turn
      BY <2>2, <2>3 DEF Builders
    <3>3. QED
      BY <2>1, <2>2, <3>1, <3>2 DEF Marked
  <2>4. CASE b # N
    <3>1. phase' = "construct" /\ turn' = b + 1
      BY <2>1, <2>4 DEF Turn
    <3>2. \A c \in Builders : c < turn' => c = b \/ c < turn
      BY <2>2, <3>1 DEF Builders
    <3>3. QED
      BY <2>1, <2>2, <3>1, <3>2 DEF Marked
  <2>5. QED
    BY <2>3, <2>4
<1>11. QED
  BY <1>1, <1>2, <1>3, <1>4, <1>5, <1>6, <1>8, <1>9, <1>10 DEF Next, Tick

(* Whatever keeps a spot blocked is still there after the step, or the     *)
(* step has freed the spot.                                                *)
LEMMA FreedStep ==
  ASSUME TypeOK, GroundIsFreed, [Next]_vars
  PROVE  GroundIsFreed'
<1> DEFINE Holds(i) == site[i].state \in {"site", "done", "wreck"}
<1>1. GroundOK /\ GroundStep
  BY StepsOnGround DEF TypeOK, GroundOK
<1>2. CASE UNCHANGED <<site, blocked>>
  BY <1>2 DEF GroundIsFreed
<1>3. ASSUME NEW S \in SUBSET Sites, Vanish(S) PROVE GroundIsFreed'
  <2>1. SUFFICES ASSUME NEW s \in blocked'
                 PROVE  \E i \in Sites : site'[i].spot = s
                          /\ site'[i].state \in {"site", "done", "wreck"}
    BY DEF GroundIsFreed
  <2>2. PICK i \in Sites : site[i].spot = s /\ Holds(i)
    BY <1>1, <1>3, AfterVanish DEF GroundIsFreed
  <2>3. i \notin S
    BY <1>1, <1>3, <2>2, AfterVanish
  <2>4. QED
    BY <1>1, <1>3, <2>2, <2>3, AfterVanish
<1>4. ASSUME NEW b \in Builders, NEW paid \in BOOLEAN, WorkOnSite(b, paid)
      PROVE  GroundIsFreed'
  BY <1>1, <1>4, AfterWork DEF GroundIsFreed, TypeOK
<1>5. ASSUME NEW i \in Sites, Hit(i) PROVE GroundIsFreed'
  BY <1>1, <1>5, AfterHit DEF GroundIsFreed
<1>6. CASE Decay
  <2>1. SUFFICES ASSUME NEW s \in blocked'
                 PROVE  \E i \in Sites : site'[i].spot = s
                          /\ site'[i].state \in {"site", "done", "wreck"}
    BY DEF GroundIsFreed
  <2>2. PICK i \in Sites : site[i].spot = s /\ Holds(i)
    BY <1>1, <1>6, AfterDecay DEF GroundIsFreed
  <2>3. site'[i].state = site[i].state
    BY <1>1, <1>6, <2>2, AfterDecay
  <2>4. QED
    BY <1>1, <1>6, <2>2, <2>3, AfterDecay
<1>7. CASE Sweep
  <2>1. SUFFICES ASSUME NEW s \in blocked'
                 PROVE  \E i \in Sites : site'[i].spot = s
                          /\ site'[i].state \in {"site", "done", "wreck"}
    BY DEF GroundIsFreed
  <2>2. PICK i \in Sites : site[i].spot = s /\ Holds(i)
    BY <1>1, <1>7, AfterSweep DEF GroundIsFreed
  <2>3. site'[i] = site[i] \/ site'[i].state = "wreck"
    BY <1>1, <1>7, <2>2, AfterSweep
  <2>4. QED
    BY <1>1, <1>7, <2>2, <2>3, AfterSweep
<1>8. ASSUME NEW b \in Builders, StartBuild(b) PROVE GroundIsFreed'
  <2>1. PICK i \in Sites, s \in Spots :
              /\ site[i].state = "unused"
              /\ site'[i] = [spot |-> s, state |-> "site", begun |-> FALSE, hp |-> 1]
              /\ \A j \in Sites : j # i => site'[j] = site[j]
              /\ blocked' = blocked \cup {s}
    BY <1>1, <1>8, AfterStart DEF TypeOK
  <2>2. ASSUME NEW j \in Sites, Holds(j) PROVE j # i
    BY <2>1, <2>2
  <2>3. QED
    BY <2>1, <2>2 DEF GroundIsFreed
<1>9. QED
  BY <1>1, <1>2, <1>3, <1>4, <1>5, <1>6, <1>7, <1>8 DEF GroundStep

(* Only a due build puts a structure on a spot, and it looks first.        *)
LEMMA OneStep ==
  ASSUME TypeOK, OneStructurePerSpot, [Next]_vars
  PROVE  OneStructurePerSpot'
<1>1. GroundOK /\ GroundStep
  BY StepsOnGround DEF TypeOK, GroundOK
<1>2. ASSUME \A i \in Sites : /\ site'[i].spot = site[i].spot
                              /\ site'[i].state \in {"site", "done"} => Standing(i)
      PROVE  OneStructurePerSpot'
  <2>1. SUFFICES ASSUME NEW i \in Sites, NEW j \in Sites, Standing(i)', Standing(j)',
                        site'[i].spot = site'[j].spot
                 PROVE  i = j
    BY DEF OneStructurePerSpot
  <2>2. Standing(i) /\ Standing(j)
    BY <1>2, <2>1 DEF Standing
  <2>3. site[i].spot = site[j].spot
    BY <1>2, <2>1
  <2>4. QED
    BY <2>2, <2>3 DEF OneStructurePerSpot
<1>3. CASE UNCHANGED <<site, blocked>>
  BY <1>3 DEF OneStructurePerSpot, Standing
<1>4. ASSUME NEW S \in SUBSET Sites, Vanish(S) PROVE OneStructurePerSpot'
  BY <1>1, <1>2, <1>4, AfterVanish DEF Standing
<1>5. ASSUME NEW b \in Builders, NEW paid \in BOOLEAN, WorkOnSite(b, paid)
      PROVE  OneStructurePerSpot'
  BY <1>1, <1>2, <1>5, AfterWork DEF Standing, TypeOK
<1>6. ASSUME NEW i \in Sites, Hit(i) PROVE OneStructurePerSpot'
  BY <1>1, <1>2, <1>6, AfterHit DEF Standing
<1>7. CASE Decay
  BY <1>1, <1>2, <1>7, AfterDecay DEF Standing
<1>8. CASE Sweep
  BY <1>1, <1>2, <1>8, AfterSweep DEF Standing
<1>9. ASSUME NEW b \in Builders, StartBuild(b) PROVE OneStructurePerSpot'
  <2>1. PICK i \in Sites, s \in Spots :
              /\ CanPlace(s)
              /\ site'[i] = [spot |-> s, state |-> "site", begun |-> FALSE, hp |-> 1]
              /\ \A j \in Sites : j # i => site'[j] = site[j]
    BY <1>1, <1>9, AfterStart DEF TypeOK
  <2>2. \A j \in Sites : Standing(j) => site[j].spot # s
    BY <2>1 DEF CanPlace
  <2>3. QED
    BY <2>1, <2>2 DEF OneStructurePerSpot, Standing
<1>10. QED
  BY <1>1, <1>3, <1>4, <1>5, <1>6, <1>7, <1>8, <1>9 DEF GroundStep

LEMMA Inductive == Spec => []IInv
<1>1. IInv /\ [Next]_vars => IInv'
  BY TypeStep, MarkedStep, FreedStep, OneStep DEF IInv
<1>2. QED
  BY <1>1, InitIInv, PTL DEF Spec

---------------------------------------------------------------------------
(* The variables keep their types, whatever the players order.             *)
THEOREM BuildTypes == Spec => []TypeOK
<1>1. IInv => TypeOK
  BY DEF IInv
<1>2. QED
  BY <1>1, Inductive, PTL

(* Every way a site or structure can end frees its cells.                  *)
THEOREM GroundComesBack == Spec => []GroundIsFreed
<1>1. IInv => GroundIsFreed
  BY DEF IInv
<1>2. QED
  BY <1>1, Inductive, PTL

(* No two structures ever stand on the same spot.                          *)
THEOREM SpotsAreExclusive == Spec => []OneStructurePerSpot
<1>1. IInv => OneStructurePerSpot
  BY DEF IInv
<1>2. QED
  BY <1>1, Inductive, PTL

(* No order and no builder removes a finished structure.                   *)
THEOREM FinishedIsSafe == Spec => FinishedStays
<1> DEFINE A == \A i \in Sites : site[i].state = "done" /\ site[i].hp > 0
                                   => site'[i].state = "done"
<1>1. TypeOK /\ [Next]_vars => [A]_vars
  <2>1. SUFFICES ASSUME TypeOK, [Next]_vars,
                        NEW i \in Sites, site[i].state = "done", site[i].hp > 0
                 PROVE  site'[i].state = "done"
    OBVIOUS
  <2>2. GroundOK /\ GroundStep
    BY <2>1, StepsOnGround DEF TypeOK, GroundOK
  <2>3. ASSUME NEW S \in SUBSET Sites, Fading(S), Vanish(S) PROVE site'[i].state = "done"
    BY <2>1, <2>2, <2>3, AfterVanish DEF Fading
  <2>4. ASSUME NEW b \in Builders, NEW paid \in BOOLEAN, WorkOnSite(b, paid)
        PROVE  site'[i].state = "done"
    BY <2>1, <2>2, <2>4, AfterWork DEF TypeOK
  <2>5. ASSUME NEW j \in Sites, Hit(j) PROVE site'[i].state = "done"
    BY <2>1, <2>2, <2>5, AfterHit
  <2>6. CASE Decay
    BY <2>1, <2>2, <2>6, AfterDecay DEF Orphans
  <2>7. CASE Sweep
    <3>1. i \notin Dying \cup Wrecks
      BY <2>1 DEF Dying, Wrecks
    <3>2. QED
      BY <2>1, <2>2, <2>7, <3>1, AfterSweep
  <2>8. ASSUME NEW b \in Builders, StartBuild(b) PROVE site'[i].state = "done"
    BY <2>1, <2>2, <2>8, AfterStart DEF TypeOK
  <2>9. QED
    BY <2>1, <2>2, <2>3, <2>4, <2>5, <2>6, <2>7, <2>8 DEF GroundStep
<1>2. IInv => TypeOK
  BY DEF IInv
<1>3. QED
  BY <1>1, <1>2, Inductive, PTL DEF Spec, FinishedStays

(* No site falls apart under a living builder that is assigned to it.      *)
THEOREM AssignedIsKept == Spec => AssignedHolds
<1> DEFINE A == \A i \in Sites : phase = "decay" /\ site'[i].hp < site[i].hp
                  => \A b \in Builders : living[b] => buildSite[b] # i
<1>1. IInv /\ [Next]_vars => [A]_vars
  <2>1. SUFFICES ASSUME IInv, [Next]_vars, NEW i \in Sites, phase = "decay",
                        site'[i].hp < site[i].hp,
                        NEW b \in Builders, living[b]
                 PROVE  buildSite[b] # i
    OBVIOUS
  <2>2. GroundOK /\ TypeOK /\ Marked
    BY <2>1 DEF IInv, TypeOK, GroundOK
  <2>3. site'[i] # site[i]
    <3>1. site[i].hp \in Int
      BY <2>2, BuildAssumption DEF GroundOK, Structures
    <3>2. QED
      BY <2>1, <3>1
  <2>4. Decay
    BY <2>1, <2>3 DEF Next, Tick, StartTick, Sweep, Construct, NoJob, SiteOver, WalkToSite,
       AbandonSite, WorkOnSite, WalkToFeature, WorkOnFeature, FeatureOver, Reclaims, OnSite,
       Job, Turn, PathLands, Unit, Due, Command, Hit, vars
  <2>5. i \in Orphans
    BY <2>2, <2>3, <2>4, AfterDecay
  <2>6. QED
    BY <2>1, <2>2, <2>5, 0 \notin Sites DEF Marked, Orphans, Sites
<1>2. QED
  BY <1>1, Inductive, PTL DEF Spec, AssignedHolds

---------------------------------------------------------------------------
(* Training: what a command, a turn, a capture leaves of a unit's line.     *)

UnitRecords == [owner : Players, kind : Kinds, state : {"done", "site", "dead"}]

(* No work is paid for where nothing stands in the queue. *)
Lines ==
  {l \in [queue : Seq(Kinds), work : Levels, repeat : Kinds \cup {NoKind}] :
     l.queue = <<>> => l.work = 0}

(* l becomes m by a step that credits no work to another kind. *)
Honest(l, m) == m \in Lines /\ (InWork(m) # InWork(l) => m.work = 0)

LEMMA EmptyLine ==
  ASSUME NEW l PROVE Honest(l, Empty) /\ Empty \in Lines
BY DEF Honest, Empty, Lines, Levels

LEMMA LineTrained ==
  ASSUME NEW l \in Lines, NEW k \in Kinds
  PROVE  Honest(l, [l EXCEPT !.queue = Append(@, k)])
<1> DEFINE m == [l EXCEPT !.queue = Append(@, k)]
<1>1. m.queue = Append(l.queue, k) /\ m.work = l.work /\ m.repeat = l.repeat
  BY DEF Lines
<1>2. Append(l.queue, k) \in Seq(Kinds) /\ Append(l.queue, k) # <<>>
  BY DEF Lines
<1>3. l.queue # <<>> => Head(Append(l.queue, k)) = Head(l.queue)
  BY DEF Lines
<1>4. m \in [queue : Seq(Kinds), work : Levels, repeat : Kinds \cup {NoKind}]
  BY <1>2 DEF Lines
<1> QED BY <1>1, <1>2, <1>3, <1>4 DEF Honest, Lines, InWork

LEMMA RemovedAt ==
  ASSUME NEW q \in Seq(Kinds), NEW i \in DOMAIN q
  PROVE  /\ RemoveAt(q, i) \in Seq(Kinds)
         /\ i # 1 => RemoveAt(q, i) # <<>> /\ Head(RemoveAt(q, i)) = Head(q)
<1>1. /\ SubSeq(q, 1, i - 1) \in Seq(Kinds) /\ Len(SubSeq(q, 1, i - 1)) = i - 1
      /\ SubSeq(q, i + 1, Len(q)) \in Seq(Kinds)
  OBVIOUS
<1>2. RemoveAt(q, i) \in Seq(Kinds)
  BY <1>1 DEF RemoveAt
<1>3. ASSUME i # 1 PROVE RemoveAt(q, i) # <<>> /\ Head(RemoveAt(q, i)) = Head(q)
  <2>1. Len(SubSeq(q, 1, i - 1)) >= 1 /\ SubSeq(q, 1, i - 1)[1] = q[1]
    BY <1>1, <1>3
  <2> QED BY <1>1, <2>1 DEF RemoveAt
<1> QED BY <1>2, <1>3

LEMMA LineStruck ==
  ASSUME NEW u, line[u] \in Lines, NEW i \in DOMAIN line[u].queue
  PROVE  Honest(line[u], Struck(u, i))
<1> DEFINE l == line[u]
           m == Struck(u, i)
<1>1. /\ m.queue = RemoveAt(l.queue, i) /\ m.work = IF i = 1 THEN 0 ELSE l.work
      /\ m.repeat = l.repeat
  BY DEF Struck, Lines
<1>2. l.queue \in Seq(Kinds) /\ l.queue # <<>> /\ l.work \in Levels /\ 0 \in Levels
  BY DEF Lines, Levels
<1>3. m \in [queue : Seq(Kinds), work : Levels, repeat : Kinds \cup {NoKind}]
  BY <1>2, RemovedAt DEF Struck, Lines
<1>4. i # 1 => RemoveAt(l.queue, i) # <<>> /\ Head(RemoveAt(l.queue, i)) = Head(l.queue)
  BY <1>2, RemovedAt
<1> QED BY <1>1, <1>2, <1>3, <1>4 DEF Honest, Lines, InWork

LEMMA LineRepeated ==
  ASSUME NEW l \in Lines, NEW m, Honest(l, m), NEW r \in Kinds \cup {NoKind}
  PROVE  Honest(l, [m EXCEPT !.repeat = r])
<1> DEFINE n == [m EXCEPT !.repeat = r]
<1>1. m \in Lines
  BY DEF Honest
<1>2. n.queue = m.queue /\ n.work = m.work
  BY <1>1 DEF Lines
<1>3. n \in [queue : Seq(Kinds), work : Levels, repeat : Kinds \cup {NoKind}]
  BY <1>1 DEF Lines
<1> QED BY <1>1, <1>2, <1>3 DEF Honest, Lines, InWork

LEMMA HasLast ==
  ASSUME NEW q \in Seq(Kinds), NEW S \in SUBSET DOMAIN q, S # {}
  PROVE  \E j \in S : \A h \in S : h <= j
<1> DEFINE FromEnd == {Len(q) - j : j \in S}
<1>1. S \subseteq 1 .. Len(q) /\ Len(q) \in Nat
  OBVIOUS
<1>2. FromEnd \subseteq Nat /\ FromEnd # {}
  BY <1>1
<1>3. PICK x \in FromEnd : \A y \in FromEnd : ~ (<<y, x>> \in OpToRel(<, Nat))
  <2> HIDE DEF FromEnd
  <2> QED BY <1>2, NatLessThanWellFounded, WFMin
<1>4. \A y, z \in Nat : <<y, z>> \in OpToRel(<, Nat) <=> y < z
  BY Zenon DEF OpToRel
<1>5. PICK j \in S : x = Len(q) - j
  OBVIOUS
<1>6. \A h \in S : h <= j
  <2> TAKE h \in S
  <2>1. Len(q) - h \in FromEnd /\ Len(q) - h \in Nat /\ x \in Nat
    BY <1>1, <1>2
  <2>2. ~ (Len(q) - h < x)
    <3> HIDE DEF FromEnd
    <3> QED BY <1>3, <1>4, <2>1
  <2> QED BY <1>1, <1>5, <2>2
<1> QED BY <1>6

LEMMA LineDequeued ==
  ASSUME NEW u, line[u] \in Lines, NEW k \in Kinds, NEW as,
         LET i == CHOOSE j \in Places(u, k) : \A h \in Places(u, k) : h <= j
             left == IF Places(u, k) = {} THEN line[u] ELSE Struck(u, i)
         IN as = [left EXCEPT !.repeat = IF @ = k /\ k \notin Range(left.queue)
                                           THEN NoKind ELSE @]
  PROVE  Honest(line[u], as)
<1> DEFINE i == CHOOSE j \in Places(u, k) : \A h \in Places(u, k) : h <= j
           left == IF Places(u, k) = {} THEN line[u] ELSE Struck(u, i)
           r == IF left.repeat = k /\ k \notin Range(left.queue) THEN NoKind ELSE left.repeat
<1>1. line[u].queue \in Seq(Kinds)
  BY DEF Lines
<1>2. Places(u, k) # {} => i \in DOMAIN line[u].queue
  <2>1. Places(u, k) \in SUBSET DOMAIN line[u].queue
    BY DEF Places
  <2> QED BY <1>1, <2>1, HasLast
<1>3. Honest(line[u], left)
  BY <1>2, LineStruck DEF Honest, Lines, InWork
<1>4. left \in Lines /\ r \in Kinds \cup {NoKind}
  BY <1>3 DEF Honest, Lines
<1>5. as = [left EXCEPT !.repeat = r]
  OBVIOUS
<1> QED BY <1>3, <1>4, <1>5, LineRepeated

LEMMA LineOnRepeat ==
  ASSUME NEW l \in Lines, NEW k \in Kinds
  PROVE  Honest(l, IF l.repeat = k THEN Empty
                   ELSE [l EXCEPT !.repeat = k, !.queue = IF @ = <<>> THEN <<k>> ELSE @])
<1> DEFINE m == [l EXCEPT !.repeat = k, !.queue = IF @ = <<>> THEN <<k>> ELSE @]
<1>1. l.queue \in Seq(Kinds) /\ <<k>> \in Seq(Kinds) /\ <<k>> # <<>>
  BY DEF Lines
<1>2. /\ m.queue = (IF l.queue = <<>> THEN <<k>> ELSE l.queue) /\ m.work = l.work
      /\ m \in [queue : Seq(Kinds), work : Levels, repeat : Kinds \cup {NoKind}]
  BY <1>1 DEF Lines
<1>3. Honest(l, m)
  BY <1>1, <1>2 DEF Honest, Lines, InWork
<1> QED BY <1>3, EmptyLine

LEMMA LineWorked ==
  ASSUME NEW l \in Lines, l.queue # <<>>, NEW w \in Levels
  PROVE  Honest(l, [l EXCEPT !.work = w])
<1> DEFINE m == [l EXCEPT !.work = w]
<1>1. /\ m.queue = l.queue
      /\ m \in [queue : Seq(Kinds), work : Levels, repeat : Kinds \cup {NoKind}]
  BY DEF Lines
<1> QED BY <1>1 DEF Honest, Lines, InWork

LEMMA LinePopped ==
  ASSUME NEW u, line[u] \in Lines, line[u].queue # <<>>
  PROVE  Honest(line[u], Popped(u)) /\ Head(line[u].queue) \in Kinds
<1> DEFINE l == line[u]
           rest == Tail(l.queue)
           q == IF rest = <<>> /\ l.repeat # NoKind THEN <<l.repeat>> ELSE rest
<1>1. rest \in Seq(Kinds) /\ l.repeat \in Kinds \cup {NoKind} /\ Head(l.queue) \in Kinds
  BY DEF Lines
<1>2. q \in Seq(Kinds) /\ 0 \in Levels
  BY <1>1 DEF Levels
<1>3. Popped(u) = [l EXCEPT !.work = 0, !.queue = q]
  BY DEF Popped
<1>4. /\ Popped(u).work = 0
      /\ Popped(u) \in [queue : Seq(Kinds), work : Levels, repeat : Kinds \cup {NoKind}]
  BY <1>2, <1>3 DEF Lines
<1> QED BY <1>1, <1>4 DEF Honest, Lines

LEMMA LineEmptied ==
  ASSUME NEW l \in Lines
  PROVE  Honest(l, [l EXCEPT !.queue = <<>>, !.work = 0])
<1> DEFINE m == [l EXCEPT !.queue = <<>>, !.work = 0]
<1>1. <<>> \in Seq(Kinds) /\ 0 \in Levels
  BY DEF Levels
<1>2. /\ m.work = 0
      /\ m \in [queue : Seq(Kinds), work : Levels, repeat : Kinds \cup {NoKind}]
  BY <1>1 DEF Lines
<1> QED BY <1>2 DEF Honest, Lines

LEMMA SeqChanged ==
  ASSUME NEW S, NEW s \in Seq(S), NEW i \in DOMAIN s, NEW x \in S
  PROVE  /\ [s EXCEPT ![i] = x] \in Seq(S) /\ Len([s EXCEPT ![i] = x]) = Len(s)
         /\ DOMAIN [s EXCEPT ![i] = x] = DOMAIN s
         /\ [s EXCEPT ![i] = x][i] = x
         /\ \A j \in DOMAIN s \ {i} : [s EXCEPT ![i] = x][j] = s[j]
OBVIOUS

LEMMA SeqAppended ==
  ASSUME NEW S, NEW s \in Seq(S), NEW x \in S
  PROVE  /\ Append(s, x) \in Seq(S) /\ Len(Append(s, x)) = Len(s) + 1
         /\ DOMAIN Append(s, x) = DOMAIN s \cup {Len(s) + 1} /\ Len(s) + 1 \notin DOMAIN s
         /\ Append(s, x)[Len(s) + 1] = x /\ \A j \in DOMAIN s : Append(s, x)[j] = s[j]
OBVIOUS

---------------------------------------------------------------------------
(* The invariant. *)

ProductionTypes ==
  /\ units \in Seq(UnitRecords)
  /\ line \in Seq(Lines) /\ Len(line) = Len(units)
  /\ unitCount \in [Players -> Nat]
  /\ turns \subseteq Ids
  /\ \A u \in turns : line[u].queue # <<>>
  /\ turns # {} => stage = "units"

(* The count never runs behind those that live. *)
CountCovers == \A p \in Players : Cardinality(Army(p)) <= unitCount[p]

ProductionInv == ProductionTypes /\ CountCovers

(* What LimitsHold and WorkIsFronts say of a step. *)
LimitsKept ==
  Len(units') > Len(units) =>
    LET new == Last(units')
        same == {u \in DOMAIN units' : units'[u].owner = new.owner /\ Alive(u)'}
    IN /\ Cardinality(same) <= UnitCap
       /\ Allowed[new.kind] > 0 =>
            Cardinality({u \in same : units'[u].kind = new.kind}) <= Allowed[new.kind]

WorkKept == \A u \in Ids : InWork(line'[u]) # InWork(line[u]) => line'[u].work = 0

LEMMA SameIds ==
  ASSUME ProductionTypes
  PROVE  Ids = 1 .. Len(units) /\ DOMAIN line = Ids /\ Len(units) \in Nat
BY DEF ProductionTypes, Ids

LEMMA ArmyIsFinite ==
  ASSUME ProductionTypes, NEW p
  PROVE  IsFiniteSet(Army(p)) /\ Cardinality(Army(p)) \in Nat
<1>1. IsFiniteSet(1 .. Len(units))
  BY SameIds, FS_Interval
<1>2. Army(p) \subseteq 1 .. Len(units)
  BY SameIds DEF Army
<1> QED BY <1>1, <1>2, FS_Subset, FS_CardinalityType

(* A step that changes the line of one unit. *)
LEMMA OneLineChanges ==
  ASSUME ProductionTypes, NEW u \in Ids, NEW as, Honest(line[u], as),
         line' = [line EXCEPT ![u] = as]
  PROVE  /\ line' \in Seq(Lines) /\ Len(line') = Len(line)
         /\ line'[u] = as /\ \A v \in Ids \ {u} : line'[v] = line[v]
         /\ WorkKept
<1>1. as \in Lines /\ u \in DOMAIN line /\ line \in Seq(Lines)
  BY SameIds DEF Honest, ProductionTypes
<1>2. /\ line' \in Seq(Lines) /\ Len(line') = Len(line)
      /\ line'[u] = as /\ \A v \in DOMAIN line \ {u} : line'[v] = line[v]
  <2>1. \A i \in DOMAIN line : \A x \in Lines : LET s == [line EXCEPT ![i] = x] IN
          /\ s \in Seq(Lines) /\ Len(s) = Len(line) /\ s[i] = x
          /\ \A j \in DOMAIN line \ {i} : s[j] = line[j]
    <3> HIDE DEF Lines
    <3> QED BY <1>1, SeqChanged
  <2> QED BY <1>1, <2>1
<1> QED BY <1>2, SameIds DEF WorkKept, Honest

(* A step in which nobody comes, goes or changes hands. *)
LEMMA ArmiesStay ==
  ASSUME ProductionInv, UNCHANGED <<units, unitCount>>
  PROVE  units' \in Seq(UnitRecords) /\ unitCount' \in [Players -> Nat] /\ CountCovers' /\ LimitsKept
<1>1. ~ (Len(units) > Len(units))
  BY SameIds DEF ProductionInv
<1> QED BY <1>1 DEF ProductionInv, ProductionTypes, CountCovers, Army, Alive, Ids, LimitsKept

LEMMA CommandStep ==
  ASSUME ProductionInv, NEW u \in Ids, NEW as, Commanded(u, as), Honest(line[u], as)
  PROVE  ProductionInv' /\ LimitsKept /\ WorkKept
<1>1. turns = {} /\ UNCHANGED <<units, unitCount, stage, turns>>
  BY DEF Commanded, ProductionInv, ProductionTypes
<1>2. line' \in Seq(Lines) /\ Len(line') = Len(line) /\ WorkKept
  BY OneLineChanges DEF Commanded, ProductionInv
<1>3. /\ units' \in Seq(UnitRecords) /\ unitCount' \in [Players -> Nat]
      /\ CountCovers' /\ LimitsKept
  BY <1>1, ArmiesStay
<1> QED BY <1>1, <1>2, <1>3 DEF ProductionInv, ProductionTypes

(* A unit comes: nobody is over a limit, and the others keep their lines. *)
LEMMA SpawnStep ==
  ASSUME ProductionInv, NEW p \in Players, NEW k \in Kinds, NEW state \in {"done", "site"},
         NEW lines \in Seq(Lines), Len(lines) = Len(units),
         Spawn(p, k, state, lines), ~ Barred(p, k)
  PROVE  /\ units' \in Seq(UnitRecords) /\ line' \in Seq(Lines) /\ Len(line') = Len(units')
         /\ unitCount' \in [Players -> Nat] /\ CountCovers' /\ LimitsKept
         /\ Ids' = Ids \cup {Len(units) + 1} /\ \A v \in Ids : line'[v] = lines[v]
<1> DEFINE n == Len(units) + 1
           new == [owner |-> p, kind |-> k, state |-> state]
<1>0. ProductionTypes /\ n \in Nat /\ Ids = 1 .. Len(units) /\ n \notin Ids
  BY SameIds DEF ProductionInv
<1>1. /\ units' \in Seq(UnitRecords) /\ Len(units') = n
      /\ DOMAIN units' = Ids \cup {n} /\ units'[n] = new
      /\ \A v \in Ids : units'[v] = units[v]
  <2>1. new \in UnitRecords /\ units \in Seq(UnitRecords) /\ units' = Append(units, new)
    BY <1>0 DEF UnitRecords, Spawn, ProductionTypes
  <2> HIDE DEF new
  <2> QED BY <2>1, SeqAppended DEF Ids
<1>2. /\ line' \in Seq(Lines) /\ Len(line') = n /\ \A v \in Ids : line'[v] = lines[v]
  <2>1. Empty \in Lines /\ DOMAIN lines = Ids /\ line' = Append(lines, Empty)
    BY <1>0, EmptyLine DEF Spawn
  <2> QED BY <2>1, SeqAppended
<1>3. /\ unitCount' \in [Players -> Nat] /\ unitCount'[p] = unitCount[p] + 1
      /\ \A q \in Players \ {p} : unitCount'[q] = unitCount[q]
  BY <1>0 DEF Spawn, Counted, ProductionTypes
<1>4. Army(p)' = Army(p) \cup {n} /\ n \notin Army(p)
  BY <1>0, <1>1 DEF Army, Alive, Ids
<1>5. \A q \in Players \ {p} : Army(q)' = Army(q)
  BY <1>0, <1>1 DEF Army, Alive, Ids
<1>6. IsFiniteSet(Army(p)) /\ Cardinality(Army(p)) \in Nat
  BY <1>0, ArmyIsFinite
<1>7. Cardinality(Army(p)') = Cardinality(Army(p)) + 1
  BY <1>4, <1>6, FS_AddElement
<1>8. CountCovers'
  <2>1. \A q \in Players : Cardinality(Army(q)) <= unitCount[q] /\ unitCount[q] \in Nat
    BY <1>0 DEF ProductionInv, CountCovers, ProductionTypes
  <2>2. \A q \in Players : Cardinality(Army(q)') <= unitCount'[q]
    BY <1>3, <1>5, <1>6, <1>7, <2>1
  <2> QED BY <2>2 DEF CountCovers
<1>9. LimitsKept
  <2> DEFINE same == {u \in DOMAIN units' : units'[u].owner = p /\ Alive(u)'}
             kin == {u \in Army(p) : units[u].kind = k}
  <2>1. Last(units') = new
    BY <1>1 DEF Last
  <2>2. same = Army(p)'
    BY DEF Army, Ids
  <2>3. Cardinality(same) <= UnitCap
    <3>1. unitCount[p] < UnitCap /\ Cardinality(Army(p)) <= unitCount[p] /\ unitCount[p] \in Nat
      BY <1>0, ProductionAssumption DEF Barred, AtUnitCap, ProductionInv, CountCovers, ProductionTypes
    <3>2. UnitCap \in Nat
      BY ProductionAssumption
    <3> HIDE DEF same
    <3> QED BY <1>6, <1>7, <2>2, <3>1, <3>2
  <2>4. {u \in same : units'[u].kind = k} = kin \cup {n} /\ n \notin kin
    BY <1>0, <1>1, <1>4, <2>2 DEF Army
  <2>5. IsFiniteSet(kin) /\ Cardinality(kin) \in Nat
    BY <1>6, FS_Subset, FS_CardinalityType
  <2>6. Cardinality(kin \cup {n}) = Cardinality(kin) + 1
    BY <2>4, <2>5, FS_AddElement
  <2>7. Allowed[k] > 0 => Cardinality({u \in same : units'[u].kind = k}) <= Allowed[k]
    <3>1. Allowed[k] > 0 => Cardinality(kin) < Allowed[k]
      BY <2>5, ProductionAssumption DEF Barred, AtTypeCap
    <3>2. Allowed[k] \in Nat
      BY ProductionAssumption
    <3>3. {u \in same : units'[u].kind = k} = kin \cup {n}
      BY <2>4
    <3>4. Allowed[k] > 0 => Cardinality(kin \cup {n}) <= Allowed[k]
      <4> HIDE DEF kin
      <4> QED BY <2>5, <2>6, <3>1, <3>2
    <3> HIDE DEF kin, same, n
    <3> QED BY <3>3, <3>4
  <2> HIDE DEF same
  <2> QED BY <2>1, <2>3, <2>7 DEF LimitsKept, same
<1> QED BY <1>1, <1>2, <1>3, <1>8, <1>9 DEF Ids

(* A step in which a unit is completed or dies: no army grows. *)
LEMMA StateStep ==
  ASSUME ProductionInv, NEW u \in Ids, NEW state \in {"done", "dead"},
         state = "done" => Alive(u),
         units' = [units EXCEPT ![u].state = state], UNCHANGED unitCount
  PROVE  /\ units' \in Seq(UnitRecords) /\ Len(units') = Len(units) /\ Ids' = Ids
         /\ unitCount' \in [Players -> Nat] /\ CountCovers' /\ LimitsKept
<1> DEFINE unit == [units[u] EXCEPT !.state = state]
<1>0. ProductionTypes /\ units \in Seq(UnitRecords) /\ units[u] \in UnitRecords
  BY DEF ProductionInv, ProductionTypes, Ids
<1>1. unit \in UnitRecords /\ unit.owner = units[u].owner /\ unit.state = state
  BY <1>0 DEF UnitRecords
<1>2. /\ units' \in Seq(UnitRecords) /\ Len(units') = Len(units) /\ Ids' = Ids
      /\ units'[u] = unit /\ \A v \in Ids \ {u} : units'[v] = units[v]
  <2>1. units' = [units EXCEPT ![u] = unit]
    OBVIOUS
  <2> HIDE DEF unit
  <2> QED BY <1>0, <1>1, <2>1, SeqChanged DEF Ids
<1>3. \A p \in Players : Army(p)' \subseteq Army(p)
  <2> HIDE DEF unit
  <2> QED BY <1>1, <1>2 DEF Army, Alive
<1>4. CountCovers'
  <2>1. ASSUME NEW p \in Players PROVE Cardinality(Army(p)') <= unitCount'[p]
    <3>1. Cardinality(Army(p)') <= Cardinality(Army(p)) /\ IsFiniteSet(Army(p)')
      BY <1>0, <1>3, ArmyIsFinite, FS_Subset
    <3>2. Cardinality(Army(p)') \in Nat /\ Cardinality(Army(p)) \in Nat
      BY <1>0, <3>1, ArmyIsFinite, FS_CardinalityType
    <3>3. Cardinality(Army(p)) <= unitCount[p] /\ unitCount[p] \in Nat
      BY <1>0 DEF ProductionInv, CountCovers, ProductionTypes
    <3> QED BY <3>1, <3>2, <3>3
  <2> QED BY <2>1 DEF CountCovers
<1>5. unitCount' \in [Players -> Nat]
  BY <1>0 DEF ProductionTypes
<1>6. Len(units) \in Nat
  BY <1>0
<1> QED BY <1>2, <1>4, <1>5, <1>6 DEF LimitsKept

---------------------------------------------------------------------------
(* The actions. *)

LEMMA ProductionStarts == ProductionInit => ProductionInv
<1> SUFFICES ASSUME ProductionInit PROVE ProductionInv
  OBVIOUS
<1>1. Start \in Seq([owner : Players, kind : Kinds])
  BY ProductionAssumption
<1>2. units \in Seq(UnitRecords) /\ Len(units) = Len(Start)
  <2> DEFINE rec(i) == [owner |-> Start[i].owner, kind |-> Start[i].kind, state |-> "done"]
  <2>1. \A i \in 1 .. Len(Start) : rec(i) \in UnitRecords
    <3> TAKE i \in 1 .. Len(Start)
    <3>1. Start[i] \in [owner : Players, kind : Kinds]
      <4> DEFINE R == [owner : Players, kind : Kinds]
      <4>1. Start \in Seq(R)
        BY <1>1
      <4> HIDE DEF R
      <4>2. Start[i] \in R
        BY <4>1
      <4> QED BY <4>2 DEF R
    <3> QED BY <3>1 DEF UnitRecords
  <2>2. units = [i \in 1 .. Len(Start) |-> rec(i)]
    BY <1>1 DEF ProductionInit
  <2> HIDE DEF rec
  <2> QED BY <1>1, <2>1, <2>2
<1>3. line \in Seq(Lines) /\ Len(line) = Len(Start)
  <2>1. line = [i \in 1 .. Len(Start) |-> Empty] /\ Empty \in Lines
    <3>1. DOMAIN Start = 1 .. Len(Start)
      BY <1>1
    <3>2. line = [i \in 1 .. Len(Start) |-> Empty]
      BY <3>1, Zenon DEF ProductionInit
    <3> QED BY <3>2, EmptyLine
  <2> HIDE DEF Empty
  <2> QED BY <1>1, <2>1
<1>4. turns = {} /\ unitCount = [p \in Players |-> Cardinality(Army(p))]
  BY DEF ProductionInit
<1>5. \A p \in Players : Cardinality(Army(p)) \in Nat
  <2>1. Ids = 1 .. Len(units) /\ Len(units) \in Nat
    BY <1>2 DEF Ids
  <2>2. IsFiniteSet(Ids)
    BY <2>1, FS_Interval
  <2> QED BY <2>2, FS_Subset, FS_CardinalityType DEF Army
<1>6. CountCovers
  BY <1>4, <1>5 DEF CountCovers
<1> QED BY <1>2, <1>3, <1>4, <1>5, <1>6 DEF ProductionInv, ProductionTypes

LEMMA TrainStep ==
  ASSUME ProductionInv, NEW u \in Ids, NEW k \in Trained,
         Train(u, k) \/ Dequeue(u, k) \/ SetRepeat(u, k)
  PROVE  ProductionInv' /\ LimitsKept /\ WorkKept
<1>1. line[u] \in Lines /\ k \in Kinds
  BY SameIds, ProductionAssumption DEF ProductionInv, ProductionTypes
<1>2. CASE Train(u, k)
  BY <1>1, <1>2, LineTrained, CommandStep DEF Train
<1>3. CASE Dequeue(u, k)
  <2> DEFINE i == CHOOSE j \in Places(u, k) : \A h \in Places(u, k) : h <= j
             left == IF Places(u, k) = {} THEN line[u] ELSE Struck(u, i)
             as == [left EXCEPT !.repeat = IF @ = k /\ k \notin Range(left.queue)
                                             THEN NoKind ELSE @]
  <2>1. Commanded(u, as)
    BY <1>3 DEF Dequeue
  <2>2. Honest(line[u], as)
    BY <1>1, LineDequeued
  <2> HIDE DEF as
  <2> QED BY <2>1, <2>2, CommandStep
<1>4. CASE SetRepeat(u, k)
  BY <1>1, <1>4, LineOnRepeat, CommandStep DEF SetRepeat
<1> QED BY <1>2, <1>3, <1>4

(* Commands and turns leave the others' turns and lines alone. *)
LEMMA TurnsAfter ==
  ASSUME ProductionTypes, Ids \subseteq Ids', NEW u,
         turns' = turns \ {u}, stage' = stage, \A v \in Ids \ {u} : line'[v] = line[v]
  PROVE  /\ turns' \subseteq Ids' /\ \A v \in turns' : line'[v].queue # <<>>
         /\ turns' # {} => stage' = "units"
BY DEF ProductionTypes

LEMMA WorksStep ==
  ASSUME ProductionInv, NEW u \in Ids, TickProduction(u), Works(u)
  PROVE  ProductionInv' /\ LimitsKept /\ WorkKept
<1>0. ProductionTypes /\ line[u] \in Lines /\ line[u].queue # <<>> /\ u \in DOMAIN line
      /\ line \in Seq(Lines)
  BY SameIds DEF ProductionInv, ProductionTypes, TickProduction
<1>1. PICK w \in Levels : line' = [line EXCEPT ![u].work = w]
  <2>1. Paid(line[u].work) \subseteq Levels /\ {AllPaid, Overdue} \subseteq Levels
    BY <1>0 DEF Paid, Lines, Levels, AllPaid, Overdue
  <2> QED BY <2>1 DEF Works
<1>2. line' = [line EXCEPT ![u] = [line[u] EXCEPT !.work = w]]
  BY <1>1
<1>3. Honest(line[u], [line[u] EXCEPT !.work = w])
  BY <1>0, LineWorked
<1>4. /\ line' \in Seq(Lines) /\ Len(line') = Len(line) /\ WorkKept
      /\ \A v \in Ids \ {u} : line'[v] = line[v]
  BY <1>0, <1>2, <1>3, OneLineChanges
<1>5. /\ units' \in Seq(UnitRecords) /\ unitCount' \in [Players -> Nat]
      /\ CountCovers' /\ LimitsKept /\ Len(line') = Len(units') /\ Ids' = Ids
  BY <1>0, <1>4, ArmiesStay DEF Works, ProductionTypes, Ids
<1>6. /\ turns' \subseteq Ids' /\ \A v \in turns' : line'[v].queue # <<>>
      /\ turns' # {} => stage' = "units"
  BY <1>0, <1>4, <1>5, TurnsAfter DEF TickProduction
<1> QED BY <1>4, <1>5, <1>6 DEF ProductionInv, ProductionTypes

LEMMA EmergesStep ==
  ASSUME ProductionInv, NEW u \in Ids, TickProduction(u), Emerges(u)
  PROVE  ProductionInv' /\ LimitsKept /\ WorkKept
<1> DEFINE lines == [line EXCEPT ![u] = Popped(u)]
           k == Head(line[u].queue)
<1>0. ProductionTypes /\ line[u] \in Lines /\ line[u].queue # <<>> /\ DOMAIN line = Ids
      /\ line \in Seq(Lines) /\ Len(line) = Len(units) /\ units[u].owner \in Players
  <2>1. ProductionTypes /\ units[u] \in UnitRecords
    BY DEF ProductionInv, ProductionTypes, Ids
  <2>2. units[u].owner \in Players
    BY <2>1 DEF UnitRecords
  <2> QED BY <2>1, <2>2, SameIds DEF ProductionTypes, TickProduction
<1>1. Honest(line[u], Popped(u)) /\ k \in Kinds /\ Popped(u) \in Lines
  BY <1>0, LinePopped DEF Honest
<1>2. /\ lines \in Seq(Lines) /\ Len(lines) = Len(units)
      /\ lines[u] = Popped(u) /\ \A v \in Ids \ {u} : lines[v] = line[v]
  <2>1. Popped(u) \in Lines /\ u \in DOMAIN line
    BY <1>0, <1>1
  <2>2. \A i \in DOMAIN line : \A x \in Lines : LET s == [line EXCEPT ![i] = x] IN
          /\ s \in Seq(Lines) /\ Len(s) = Len(line) /\ s[i] = x
          /\ \A j \in DOMAIN line \ {i} : s[j] = line[j]
    BY <1>0, SeqChanged
  <2> QED BY <1>0, <2>1, <2>2
<1>3. Spawn(units[u].owner, k, "done", lines) /\ ~ Barred(units[u].owner, k)
  BY DEF Emerges
<1>4. /\ units' \in Seq(UnitRecords) /\ line' \in Seq(Lines) /\ Len(line') = Len(units')
      /\ unitCount' \in [Players -> Nat] /\ CountCovers' /\ LimitsKept
      /\ Ids' = Ids \cup {Len(units) + 1} /\ \A v \in Ids : line'[v] = lines[v]
  <2> HIDE DEF lines, k
  <2> QED BY <1>0, <1>1, <1>2, <1>3, SpawnStep
<1>5. WorkKept
  BY <1>1, <1>2, <1>4 DEF WorkKept, Honest
<1>6. /\ turns' \subseteq Ids' /\ \A v \in turns' : line'[v].queue # <<>>
      /\ turns' # {} => stage' = "units"
  BY <1>0, <1>2, <1>4, TurnsAfter DEF TickProduction
<1> QED BY <1>4, <1>5, <1>6 DEF ProductionInv, ProductionTypes

LEMMA CaptureStep ==
  ASSUME ProductionInv, NEW c \in Ids, NEW t \in Ids, CaptureUnit(c, t)
  PROVE  ProductionInv' /\ LimitsKept /\ WorkKept
<1>0. ProductionTypes /\ units \in Seq(UnitRecords) /\ line[t] \in Lines /\ line \in Seq(Lines)
      /\ units[t] \in UnitRecords /\ units[c] \in UnitRecords /\ Len(units) \in Nat
  BY SameIds DEF ProductionInv, ProductionTypes, Ids
<1>1. PICK from \in Players, to \in Players :
        /\ from = units[t].owner /\ to = units[c].owner
        /\ from # to /\ t \in Army(from) /\ t \notin Army(to)
  BY <1>0 DEF CaptureUnit, UnitRecords, Army
<1> DEFINE unit == [units[t] EXCEPT !.owner = to]
<1>2. /\ line' \in Seq(Lines) /\ Len(line') = Len(line) /\ WorkKept
  <2>1. line' = [line EXCEPT ![t] = [line[t] EXCEPT !.queue = <<>>, !.work = 0]]
    BY DEF CaptureUnit
  <2>2. Honest(line[t], [line[t] EXCEPT !.queue = <<>>, !.work = 0])
    BY <1>0, LineEmptied
  <2> QED BY <1>0, <2>1, <2>2, OneLineChanges
<1>3. /\ units' \in Seq(UnitRecords) /\ Len(units') = Len(units) /\ Ids' = Ids
      /\ units'[t] = unit /\ \A v \in Ids \ {t} : units'[v] = units[v]
  <2>1. unit \in UnitRecords /\ units' = [units EXCEPT ![t] = unit]
    BY <1>0, <1>1 DEF CaptureUnit, UnitRecords
  <2> HIDE DEF unit
  <2> QED BY <1>0, <2>1, SeqChanged DEF Ids
<1>4. unit.owner = to /\ unit.state # "dead" /\ units[t].state # "dead"
  BY <1>0 DEF UnitRecords, CaptureUnit, Alive
<1>5. /\ Army(to)' = Army(to) \cup {t} /\ Army(from)' = Army(from) \ {t}
      /\ \A p \in Players \ {from, to} : Army(p)' = Army(p)
  <2> HIDE DEF unit
  <2>2. Army(to)' = Army(to) \cup {t}
    BY <1>1, <1>3, <1>4 DEF Army, Alive
  <2>3. Army(from)' = Army(from) \ {t}
    BY <1>1, <1>3, <1>4 DEF Army, Alive
  <2>4. \A p \in Players \ {from, to} : Army(p)' = Army(p)
    BY <1>1, <1>3, <1>4 DEF Army, Alive
  <2> QED BY <2>2, <2>3, <2>4
<1>6. /\ unitCount' \in [Players -> Nat] /\ unitCount'[to] = unitCount[to] + 1
      /\ unitCount'[from] = (IF unitCount[from] > 0 THEN unitCount[from] - 1 ELSE 0)
      /\ \A p \in Players \ {from, to} : unitCount'[p] = unitCount[p]
  BY <1>0, <1>1 DEF CaptureUnit, Handed, ProductionTypes
<1>7. \A p \in Players : /\ IsFiniteSet(Army(p)) /\ Cardinality(Army(p)) \in Nat
                         /\ Cardinality(Army(p)) <= unitCount[p] /\ unitCount[p] \in Nat
  BY <1>0, ArmyIsFinite DEF ProductionInv, CountCovers, ProductionTypes
<1>8. Cardinality(Army(to)') <= unitCount'[to]
  <2>1. Cardinality(Army(to) \cup {t}) = Cardinality(Army(to)) + 1
    BY <1>1, <1>7, FS_AddElement
  <2> QED BY <1>1, <1>5, <1>6, <1>7, <2>1
<1>9. Cardinality(Army(from)') <= unitCount'[from]
  <2>1. Cardinality(Army(from) \ {t}) = Cardinality(Army(from)) - 1
    BY <1>1, <1>7, FS_RemoveElement
  <2>2. Cardinality(Army(from)) > 0
    BY <1>1, <1>7, FS_EmptySet
  <2> QED BY <1>1, <1>5, <1>6, <1>7, <2>1, <2>2
<1>10. CountCovers'
  <2>1. ASSUME NEW p \in Players PROVE Cardinality(Army(p)') <= unitCount'[p]
    <3>1. CASE p = from
      BY <1>9, <3>1
    <3>2. CASE p = to
      BY <1>8, <3>2
    <3>3. CASE p \notin {from, to}
      BY <1>5, <1>6, <1>7, <3>3
    <3> QED BY <3>1, <3>2, <3>3
  <2> QED BY <2>1 DEF CountCovers
<1>11. LimitsKept /\ turns' = {}
  BY <1>0, <1>3 DEF LimitsKept, CaptureUnit, Fighting
<1> QED BY <1>0, <1>2, <1>3, <1>6, <1>10, <1>11 DEF ProductionInv, ProductionTypes

LEMMA CancelStep ==
  ASSUME ProductionInv, NEW u \in Ids, CancelSite(u)
  PROVE  ProductionInv' /\ LimitsKept /\ WorkKept
<1>1. ProductionTypes /\ turns' = {}
  BY DEF CancelSite, ProductionInv, ProductionTypes
<1>2. line' \in Seq(Lines) /\ Len(line') = Len(line) /\ WorkKept
  BY <1>1, EmptyLine, OneLineChanges DEF CancelSite
<1>3. /\ units' \in Seq(UnitRecords) /\ Len(units') = Len(units) /\ Ids' = Ids
      /\ unitCount' \in [Players -> Nat] /\ CountCovers' /\ LimitsKept
  BY StateStep DEF CancelSite
<1> QED BY <1>1, <1>2, <1>3 DEF ProductionInv, ProductionTypes

LEMMA BecomesStep ==
  ASSUME ProductionInv, NEW u \in Ids, NEW state \in {"done", "dead"}, Becomes(u, state)
  PROVE  ProductionInv' /\ LimitsKept /\ WorkKept
<1>1. ProductionTypes /\ turns' = {}
  BY DEF Becomes, Fighting, ProductionInv
<1>2. line' \in Seq(Lines) /\ Len(line') = Len(line) /\ WorkKept
  <2>1. CASE state = "dead"
    BY <1>1, <2>1, EmptyLine, OneLineChanges DEF Becomes
  <2>2. CASE state = "done"
    BY <1>1, <2>2 DEF Becomes, ProductionTypes, WorkKept
  <2> QED BY <2>1, <2>2
<1>3. /\ units' \in Seq(UnitRecords) /\ Len(units') = Len(units) /\ Ids' = Ids
      /\ unitCount' \in [Players -> Nat] /\ CountCovers' /\ LimitsKept
  BY StateStep DEF Becomes, Alive
<1> QED BY <1>1, <1>2, <1>3 DEF ProductionInv, ProductionTypes

LEMMA PlaceStep ==
  ASSUME ProductionInv, NEW b \in Ids, NEW k \in Placed, PlaceSite(b, k)
  PROVE  ProductionInv' /\ LimitsKept /\ WorkKept
<1>1. ProductionTypes /\ turns' = {} /\ k \in Kinds
  BY ProductionAssumption DEF PlaceSite, ProductionInv, ProductionTypes
<1>2. units[b].owner \in Players
  <2>1. units[b] \in UnitRecords
    BY <1>1 DEF ProductionTypes, Ids
  <2> QED BY <2>1 DEF UnitRecords
<1>3. line \in Seq(Lines) /\ Len(line) = Len(units)
  BY <1>1 DEF ProductionTypes
<1>4. /\ units' \in Seq(UnitRecords) /\ line' \in Seq(Lines) /\ Len(line') = Len(units')
      /\ unitCount' \in [Players -> Nat] /\ CountCovers' /\ LimitsKept
      /\ \A v \in Ids : line'[v] = line[v]
  BY <1>1, <1>2, <1>3, SpawnStep DEF PlaceSite
<1> QED BY <1>1, <1>4 DEF ProductionInv, ProductionTypes, WorkKept

LEMMA OutcomeStep ==
  ASSUME ProductionInv, UpdateOutcome
  PROVE  ProductionInv' /\ LimitsKept /\ WorkKept
<1>1. ProductionTypes /\ turns' = {} /\ UNCHANGED <<units, line>>
  BY DEF UpdateOutcome, ProductionInv, ProductionTypes
<1>2. /\ unitCount' = [p \in Players |-> Cardinality(Army(p))]
      /\ \A p \in Players : Cardinality(Army(p)) \in Nat /\ Army(p)' = Army(p)
  BY <1>1, ArmyIsFinite DEF UpdateOutcome, Army, Alive, Ids
<1>3. unitCount' \in [Players -> Nat] /\ CountCovers'
  <2>1. \A p \in Players : Cardinality(Army(p)') <= unitCount'[p]
    BY <1>2
  <2> QED BY <1>2, <2>1 DEF CountCovers
<1>4. Len(units) \in Nat
  BY <1>1, SameIds
<1> QED BY <1>1, <1>3, <1>4 DEF ProductionInv, ProductionTypes, LimitsKept, WorkKept

LEMMA PassStep ==
  ASSUME ProductionInv, UNCHANGED <<units, line, unitCount>>,
         BeginProduction \/ BeginPlacing \/ UNCHANGED productionVars
  PROVE  ProductionInv' /\ LimitsKept /\ WorkKept
<1>1. /\ units' \in Seq(UnitRecords) /\ unitCount' \in [Players -> Nat]
      /\ CountCovers' /\ LimitsKept
  BY ArmiesStay
<1>2. /\ turns' \subseteq Ids' /\ \A u \in turns' : line'[u].queue # <<>>
      /\ turns' # {} => stage' = "units"
  BY DEF BeginProduction, Producing, BeginPlacing, Fighting, productionVars, ProductionInv,
         ProductionTypes, Ids
<1> QED BY <1>1, <1>2 DEF ProductionInv, ProductionTypes, WorkKept

LEMMA ProductionStep ==
  ASSUME ProductionInv, [ProductionNext]_productionVars
  PROVE  ProductionInv' /\ LimitsKept /\ WorkKept
<1>1. CASE UNCHANGED productionVars
  BY <1>1, PassStep DEF productionVars
<1>2. ASSUME NEW u \in Ids, NEW k \in Trained, Train(u, k) \/ Dequeue(u, k) \/ SetRepeat(u, k)
      PROVE  ProductionInv' /\ LimitsKept /\ WorkKept
  BY <1>2, TrainStep
<1>3. ASSUME NEW u \in Ids, Halt(u) PROVE ProductionInv' /\ LimitsKept /\ WorkKept
  BY <1>3, EmptyLine, CommandStep DEF Halt
<1>4. ASSUME NEW u \in Ids, CancelSite(u) PROVE ProductionInv' /\ LimitsKept /\ WorkKept
  BY <1>4, CancelStep
<1>5. ASSUME NEW u \in Ids, TickProduction(u) PROVE ProductionInv' /\ LimitsKept /\ WorkKept
  BY <1>5, WorksStep, EmergesStep DEF TickProduction
<1>6. ASSUME NEW u \in Ids, Becomes(u, "done") \/ Becomes(u, "dead")
      PROVE  ProductionInv' /\ LimitsKept /\ WorkKept
  BY <1>6, BecomesStep
<1>7. ASSUME NEW c \in Ids, NEW t \in Ids, CaptureUnit(c, t)
      PROVE  ProductionInv' /\ LimitsKept /\ WorkKept
  BY <1>7, CaptureStep
<1>8. ASSUME NEW b \in Ids, NEW k \in Placed, PlaceSite(b, k)
      PROVE  ProductionInv' /\ LimitsKept /\ WorkKept
  BY <1>8, PlaceStep
<1>9. CASE BeginProduction \/ BeginPlacing
  BY <1>9, PassStep DEF BeginProduction, BeginPlacing
<1>10. CASE UpdateOutcome
  BY <1>10, OutcomeStep
<1> QED BY <1>1, <1>2, <1>3, <1>4, <1>5, <1>6, <1>7, <1>8, <1>9, <1>10 DEF ProductionNext

LEMMA ProductionInvariant == ProductionSpec => []ProductionInv
<1>1. ProductionInit => ProductionInv
  BY ProductionStarts
<1>2. ProductionInv /\ [ProductionNext]_productionVars => ProductionInv'
  BY ProductionStep
<1> QED BY <1>1, <1>2, PTL DEF ProductionSpec

(* However many factories, builders and charmers of one player act in a    *)
(* tick: no unit or site is made beyond its owner's limits (atUnitCap,     *)
(* atTypeCap before every spawn).                                          *)
THEOREM LimitsAlwaysHold == ProductionSpec => LimitsHold
<1>1. ProductionInv /\ [ProductionNext]_productionVars => [LimitsKept]_productionVars
  BY ProductionStep
<1>2. LimitsHold <=> [][LimitsKept]_productionVars
  BY DEF LimitsHold, LimitsKept
<1> QED BY <1>1, <1>2, ProductionInvariant, PTL DEF ProductionSpec

(* What was paid for the first of a queue is never credited to another     *)
(* kind (dequeue, setRepeat, stop, tickProduction, captureUnit).           *)
THEOREM WorkStaysWithItsKind == ProductionSpec => WorkIsFronts
<1>1. ProductionInv /\ [ProductionNext]_productionVars => [WorkKept]_productionVars
  BY ProductionStep
<1>2. WorkIsFronts <=> [][WorkKept]_productionVars
  BY DEF WorkIsFronts, WorkKept
<1> QED BY <1>1, <1>2, ProductionInvariant, PTL DEF ProductionSpec
=============================================================================
