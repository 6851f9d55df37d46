---------------------------- MODULE BuildOrders ----------------------------
(***************************************************************************)
(* Builders, their order queues and their construction sites: the commands *)
(* that reach them (sim/matchsetup.cpp, applyCommand) and what one         *)
(* simulation tick does with them (sim/sim.cpp, World::tick), pass by pass *)
(* and builder by builder in the order of their ids.                       *)
(*                                                                         *)
(* A position is a spot a structure fits on; whether a builder is in       *)
(* reach, can pay, arrives, gives up, is held (paralysed, carried) or dies *)
(* is chosen freely.  Hit points are counted in ticks of work, and a hit   *)
(* is fatal or not modelled.  Repair and corpses as targets follow the     *)
(* pattern of reclaiming and are left out, as are patrols, mobile units    *)
(* under construction (they block no ground), and the shift of a wreck.    *)
(***************************************************************************)
EXTENDS Integers, Sequences, FiniteSets

CONSTANTS N,          \* builders, with ids 1..N
          Spots,      \* where a structure can be placed
          Features,   \* what can be reclaimed, at places of their own
          MaxSites,   \* bound: sites ever spawned
          MaxHp,      \* ticks of paid work that finish a site
          MaxOrders   \* bound: orders a builder holds

ASSUME BuildAssumption == /\ {N, MaxHp, MaxOrders} \subseteq Nat \ {0}
                          /\ MaxSites \in Nat /\ Spots # {}

Builders == 1..N
Sites == 1..MaxSites

VARIABLES orders,      \* orders[b]: Unit::orders of builder b
          buildSite,   \* buildSite[b]: Unit::buildSiteId, 0 for none
          reclaimId,   \* reclaimId[b]: the set with the feature being reclaimed, or {}
          living,      \* living[b]
          site,        \* site[i]: the structure with the i-th id given out
          beingBuilt,  \* sites a builder was assigned to in this tick
          blocked,     \* spots whose cells blockFoot has marked
          features,    \* features still there
          due,         \* buildDue_
          phase, turn  \* the pass of the tick and whose turn it is

vars == <<orders, buildSite, reclaimId, living, site, beingBuilt, blocked,
          features, due, phase, turn>>

Jobs == [job : {"move"}, at : {0}] \cup [job : {"build"}, at : Spots]
          \cup [job : {"reclaim"}, at : Features]
Queues == {q \in Seq(Jobs) : Len(q) <= MaxOrders}
Walk == [job |-> "move", at |-> 0]

(* "lost" is dead while underConstruction is still set; "wreck" blocks.    *)
States == {"unused", "site", "done", "lost", "wreck", "gone"}
Structures == [spot : Spots, state : States, begun : BOOLEAN, hp : 0..MaxHp]

TypeOK ==
  /\ orders \in [Builders -> Queues]
  /\ buildSite \in [Builders -> Sites \cup {0}]
  /\ reclaimId \in [Builders -> {{}} \cup {{f} : f \in Features}]
  /\ living \in [Builders -> BOOLEAN]
  /\ site \in [Sites -> Structures]
  /\ beingBuilt \subseteq Sites /\ blocked \subseteq Spots
  /\ features \subseteq Features /\ due \subseteq Builders
  /\ phase \in {"orders", "construct", "decay", "sweep", "units", "due"}
  /\ turn \in Builders

Init ==
  /\ orders = [b \in Builders |-> <<>>]
  /\ buildSite = [b \in Builders |-> 0]
  /\ reclaimId = [b \in Builders |-> {}]
  /\ living = [b \in Builders |-> TRUE]
  /\ site = [i \in Sites |-> [spot |-> CHOOSE s \in Spots : TRUE, state |-> "unused",
                               begun |-> FALSE, hp |-> 0]]
  /\ beingBuilt = {} /\ blocked = {} /\ due = {}
  /\ features = Features
  /\ phase = "orders" /\ turn = 1

Standing(i) == site[i].state \in {"site", "done"}
(* Mutant of CanPlace: only what is finished is in the way.                *)
CanPlace_Finished(s) == \A i \in Sites : site[i].state = "done" => site[i].spot # s
CanPlace(s) == /\ s \notin blocked
               /\ \A i \in Sites : Standing(i) => site[i].spot # s

HeadIs(q, job) == q # <<>> /\ Head(q).job = job
PopIf(q, job) == IF HeadIs(q, job) THEN Tail(q) ELSE q
DropUnless(q, job) == IF q = <<>> \/ HeadIs(q, job) THEN q ELSE Tail(q)

(* Nothing reads how far a structure was that is gone for good.            *)
Gone(s) == [s EXCEPT !.state = "gone", !.hp = 0, !.begun = FALSE]

(* Mutant of Vanish: the footprint stays blocked.                          *)
Vanish_KeepsGround(S) ==
  /\ site' = [i \in Sites |-> IF i \in S THEN Gone(site[i]) ELSE site[i]]
  /\ UNCHANGED blocked

(* Sites removed without a trace; their cells are freed.                   *)
Vanish(S) ==
  /\ site' = [i \in Sites |-> IF i \in S THEN Gone(site[i]) ELSE site[i]]
  /\ blocked' = blocked \ {site[i].spot : i \in S}

---------------------------------------------------------------------------
(* Commands                                                                *)

(* Mutant of Ghost: whatever has become of the site.                       *)
Ghost_Any(b) == {i \in Sites : i = buildSite[b]}

(* The site cancelBuilds removes: one that has not begun, dead or alive.   *)
Ghost(b) == {i \in Sites : /\ i = buildSite[b] /\ ~site[i].begun
                           /\ site[i].state \in {"site", "lost"}}

(* Redirect leaves builds, sites and jobs alone when the order is queued.  *)
Redirect(b, queue) ==
  /\ Vanish(IF queue THEN {} ELSE Ghost(b))
  /\ reclaimId' = [reclaimId EXCEPT ![b] = IF queue THEN @ ELSE {}]
(* ... and otherwise leaves only the plain legs, which are all alike here. *)
Legs(q) == {k \in DOMAIN q : q[k].job = "move"}
KeptLegs(b, queue) ==
  IF queue THEN orders[b] ELSE [k \in 1..Cardinality(Legs(orders[b])) |-> Walk]
Given(b, o, queue) == IF queue THEN Append(orders[b], o) ELSE <<o>>

(* Also reaches a builder that has died since the command was sent: the    *)
(* redirection comes before anything asks whether it lives.  (All that     *)
(* assisting or reclaiming does to a dead builder is this redirection.)    *)
Move(b, queue) ==
  /\ Redirect(b, queue)
  /\ buildSite' = [buildSite EXCEPT ![b] = IF queue THEN @ ELSE 0]
  /\ orders' = [orders EXCEPT ![b] = IF living[b] THEN Given(b, Walk, queue)
                                                 ELSE KeptLegs(b, queue)]
  /\ UNCHANGED features

Stop(b) ==
  /\ Redirect(b, FALSE)
  /\ buildSite' = [buildSite EXCEPT ![b] = 0]
  /\ orders' = [orders EXCEPT ![b] = <<>>]
  /\ UNCHANGED features

(* Nothing asks whether the builder is alive: the dead keep such an order. *)
Build(b, s, queue) ==
  /\ CanPlace(s)
  /\ orders' = [orders EXCEPT ![b] = Given(b, [job |-> "build", at |-> s], queue)]
  /\ UNCHANGED <<buildSite, reclaimId, site, blocked, features>>

(* The redirection may remove the very site the builder is sent to.        *)
Assist(b, i, queue) ==
  /\ living[b] /\ site[i].state # "unused"
  /\ Redirect(b, queue)
  /\ \/ /\ site'[i].state = "site"
        /\ buildSite' = [buildSite EXCEPT ![b] = i]
        /\ orders' = [orders EXCEPT ![b] = Given(b, Walk, queue)]
     \/ /\ site'[i].state # "site"
        /\ buildSite' = [buildSite EXCEPT ![b] = IF queue THEN @ ELSE 0]
        /\ orders' = [orders EXCEPT ![b] = KeptLegs(b, queue)]
  /\ UNCHANGED features

Reclaim(b, f, queue) ==
  /\ living[b]
  /\ Redirect(b, queue)
  /\ buildSite' = [buildSite EXCEPT ![b] = IF queue THEN @ ELSE 0]
  /\ orders' = [orders EXCEPT ![b] = IF f \in features
                                     THEN Given(b, [job |-> "reclaim", at |-> f], queue)
                                     ELSE KeptLegs(b, queue)]
  /\ UNCHANGED features

Command(b) ==
  /\ phase = "orders"
  /\ \/ Stop(b)
     \/ \E queue \in BOOLEAN :
          /\ Len(orders[b]) < MaxOrders \/ ~queue
          /\ \/ Move(b, queue)
             \/ \E s \in Spots : Build(b, s, queue)
             \/ \E i \in Sites : Assist(b, i, queue)
             \/ \E f \in Features : Reclaim(b, f, queue)
  /\ UNCHANGED <<living, beingBuilt, due, phase, turn>>

(* A fatal hit: noticed by the next death sweep.                           *)
Hit(i) ==
  /\ phase = "orders" /\ Standing(i) /\ site[i].hp > 0
  /\ site' = [site EXCEPT ![i].hp = 0]
  /\ UNCHANGED <<orders, buildSite, reclaimId, living, beingBuilt, blocked,
                 features, due, phase, turn>>

---------------------------------------------------------------------------
(* One tick                                                                *)

Turn(b, p, next) ==
  /\ phase = p /\ turn = b
  /\ phase' = IF b = N THEN next ELSE p
  /\ turn' = IF b = N THEN 1 ELSE b + 1

StartTick ==
  /\ phase = "orders"
  /\ beingBuilt' = {}
  /\ phase' = "construct"
  /\ UNCHANGED <<orders, buildSite, reclaimId, living, site, blocked, features, due, turn>>

Job(b) == living[b] /\ Turn(b, "construct", "decay") /\ UNCHANGED <<living, due>>

(* The site is finished or lost: so is the order that is in front.         *)
SiteOver(b) ==
  /\ buildSite[b] # 0 /\ site[buildSite[b]].state # "site"
  /\ Job(b)
  /\ buildSite' = [buildSite EXCEPT ![b] = 0]
  /\ orders' = [orders EXCEPT ![b] = PopIf(@, "build")]
  /\ UNCHANGED <<reclaimId, site, beingBuilt, blocked, features>>

(* Mutant of OnSite: walking there does not count as being assigned.       *)
OnSite_Unmarked(b) == /\ buildSite[b] # 0 /\ site[buildSite[b]].state = "site"
                      /\ Job(b)
                      /\ UNCHANGED <<beingBuilt, reclaimId, features>>
OnSite(b) == /\ buildSite[b] # 0 /\ site[buildSite[b]].state = "site"
             /\ Job(b)
             /\ beingBuilt' = beingBuilt \cup {buildSite[b]}
             /\ UNCHANGED <<reclaimId, features>>

WalkToSite(b) == OnSite(b) /\ UNCHANGED <<orders, buildSite, site, blocked>>

(* Eight seconds without getting nearer.                                   *)
AbandonSite(b) ==
  /\ OnSite(b)
  /\ Vanish(Ghost(b))
  /\ buildSite' = [buildSite EXCEPT ![b] = 0]
  /\ orders' = [orders EXCEPT ![b] = PopIf(@, "build")]

(* In reach; paid says whether there is anything to pay with.              *)
WorkOnSite(b, paid) ==
  LET i == buildSite[b]
      hp == IF paid THEN site[i].hp + 1 ELSE site[i].hp
      done == paid /\ hp >= MaxHp
      approached == DropUnless(orders[b], "build") IN
  /\ OnSite(b)
  /\ site' = [site EXCEPT ![i].begun = TRUE, ![i].hp = IF hp > MaxHp THEN MaxHp ELSE hp,
                          ![i].state = IF done THEN "done" ELSE @]
  /\ buildSite' = [buildSite EXCEPT ![b] = IF done THEN 0 ELSE @]
  /\ orders' = [orders EXCEPT ![b] = IF done THEN PopIf(approached, "build") ELSE approached]
  /\ UNCHANGED blocked

Reclaims(b) == /\ buildSite[b] = 0 /\ reclaimId[b] # {}
               /\ Job(b)
               /\ UNCHANGED <<buildSite, site, beingBuilt, blocked>>

WalkToFeature(b) == Reclaims(b) /\ reclaimId[b] \subseteq features
                    /\ UNCHANGED <<orders, reclaimId, features>>

WorkOnFeature(b) ==
  /\ Reclaims(b) /\ reclaimId[b] \subseteq features
  /\ orders' = [orders EXCEPT ![b] = DropUnless(@, "reclaim")]
  /\ UNCHANGED <<reclaimId, features>>

(* Its last work is done, or someone else has done it.                     *)
FeatureOver(b) ==
  /\ Reclaims(b)
  /\ features' = features \ reclaimId[b]
  /\ reclaimId' = [reclaimId EXCEPT ![b] = {}]
  /\ orders' = [orders EXCEPT ![b] =
       PopIf(IF reclaimId[b] \subseteq features THEN DropUnless(@, "reclaim") ELSE @, "reclaim")]

NoJob(b) ==
  /\ ~living[b] \/ (buildSite[b] = 0 /\ reclaimId[b] = {})
  /\ Turn(b, "construct", "decay")
  /\ UNCHANGED <<orders, buildSite, reclaimId, living, site, beingBuilt, blocked, features, due>>

Construct(b) ==
  \/ NoJob(b) \/ SiteOver(b) \/ WalkToSite(b) \/ AbandonSite(b)
  \/ \E paid \in BOOLEAN : WorkOnSite(b, paid)
  \/ WalkToFeature(b) \/ WorkOnFeature(b) \/ FeatureOver(b)

(* Mutant of Orphans: what has not begun does not decay.                   *)
Orphans_Begun == {i \in Sites : /\ site[i].state = "site" /\ i \notin beingBuilt
                                /\ site[i].begun}
(* Mutant of Fallen: nothing left means exactly nothing.                   *)
Fallen_Exact == {i \in Sites : site[i].state = "site" /\ i \notin beingBuilt
                                 /\ site[i].hp = 1}

(* A site no builder was assigned to in this tick falls apart.             *)
Orphans == {i \in Sites : site[i].state = "site" /\ i \notin beingBuilt}
Fallen == {i \in Orphans : site[i].hp <= 1}
Decay ==
  /\ phase = "decay" /\ phase' = "sweep"
  /\ site' = [i \in Sites |->
       IF i \in Fallen THEN Gone(site[i])
       ELSE IF i \in Orphans THEN [site[i] EXCEPT !.hp = @ - 1] ELSE site[i]]
  /\ blocked' = blocked \ {site[i].spot : i \in Fallen}
  /\ UNCHANGED <<orders, buildSite, reclaimId, living, beingBuilt, features, due, turn>>

(* Death: what was finished may leave a wreck that keeps the ground, until *)
(* it has decomposed or been cleared; what was not leaves nothing.         *)
Dying == {i \in Sites : Standing(i) /\ site[i].hp = 0}
Wrecks == {i \in Sites : site[i].state = "wreck"}
Sweep ==
  /\ phase = "sweep" /\ phase' = "units"
  /\ \E W \in SUBSET {i \in Dying : site[i].state = "done"}, R \in SUBSET Wrecks :
       /\ site' = [i \in Sites |->
            IF i \in W THEN [site[i] EXCEPT !.state = "wreck"]
            ELSE IF i \in Dying /\ site[i].state = "site" THEN [site[i] EXCEPT !.state = "lost"]
            ELSE IF i \in Dying \cup R THEN Gone(site[i]) ELSE site[i]]
       /\ blocked' = blocked \ {site[i].spot : i \in (Dying \ W) \cup R}
  /\ UNCHANGED <<orders, buildSite, reclaimId, living, beingBuilt, features, due, turn>>

(* A route has been found: the leg in front is now that route, with        *)
(* nothing of the order but its flags.                                     *)
PathLands(b) ==
  /\ phase = "units" /\ turn = b /\ living[b] /\ HeadIs(orders[b], "build")
  /\ orders' = [orders EXCEPT ![b] = <<Walk>> \o Tail(@)]
  /\ UNCHANGED <<buildSite, reclaimId, living, site, beingBuilt, blocked,
                 features, due, phase, turn>>

Dies(b) ==
  /\ living[b] /\ Turn(b, "units", "due")
  /\ living' = [living EXCEPT ![b] = FALSE]
  /\ orders' = [orders EXCEPT ![b] = <<>>]
  /\ UNCHANGED <<buildSite, reclaimId, due>>

(* Dead, paralysed or carried: nothing is claimed and nothing walked.      *)
Held(b) ==
  /\ Turn(b, "units", "due")
  /\ UNCHANGED <<orders, living, buildSite, reclaimId, due>>

(* The order in front claims its job; then the unit walks on, and may      *)
(* reach the end of a plain leg or give up any leg as unreachable.         *)
Acts(b) ==
  /\ living[b] /\ Turn(b, "units", "due")
  /\ due' = IF HeadIs(orders[b], "build") /\ buildSite[b] = 0 THEN due \cup {b} ELSE due
  /\ reclaimId' = [reclaimId EXCEPT ![b] =
       IF HeadIs(orders[b], "reclaim") /\ @ = {} THEN {Head(orders[b]).at} ELSE @]
  /\ \/ UNCHANGED orders
     \/ orders[b] # <<>> /\ orders' = [orders EXCEPT ![b] = Tail(@)]
  /\ UNCHANGED <<living, buildSite>>

Unit(b) == /\ Dies(b) \/ Held(b) \/ Acts(b)
           /\ UNCHANGED <<site, beingBuilt, blocked, features>>

(* The builds that came due.  A structure is spawned with the next id.     *)
ComesDue(b) == b \in due /\ living[b] /\ buildSite[b] = 0 /\ HeadIs(orders[b], "build")

StartBuild(b) ==
  LET s == Head(orders[b]).at IN
  /\ ComesDue(b) /\ CanPlace(s)
  /\ \E i \in Sites :
       /\ site[i].state = "unused" /\ \A j \in 1..(i - 1) : site[j].state # "unused"
       /\ site' = [site EXCEPT ![i] = [spot |-> s, state |-> "site", begun |-> FALSE, hp |-> 1]]
       /\ beingBuilt' = beingBuilt \cup {i}
       /\ buildSite' = [buildSite EXCEPT ![b] = i]
  /\ blocked' = blocked \cup {s}
  /\ UNCHANGED orders

(* The spot is taken, somebody stands in the way, or a cap is reached.     *)
DropBuild(b) ==
  /\ ComesDue(b)
  /\ orders' = [orders EXCEPT ![b] = Tail(@)]
  /\ UNCHANGED <<site, beingBuilt, buildSite, blocked>>

Due(b) ==
  /\ Turn(b, "due", "orders")
  /\ \/ StartBuild(b) \/ DropBuild(b)
     \/ ~ComesDue(b) /\ UNCHANGED <<orders, site, beingBuilt, buildSite, blocked>>
  /\ due' = due \ {b}
  /\ UNCHANGED <<reclaimId, living, features>>

Tick == \/ StartTick \/ Decay \/ Sweep
        \/ \E b \in Builders : Construct(b) \/ PathLands(b) \/ Unit(b) \/ Due(b)

Next == Tick \/ (\E b \in Builders : Command(b)) \/ (\E i \in Sites : Hit(i))

(* The simulation keeps ticking; nobody has to give an order or to fire.   *)
Spec == Init /\ [][Next]_vars /\ WF_vars(Tick)

---------------------------------------------------------------------------
(* Properties                                                              *)

(* No ground stays blocked by what is no longer there: every way in which  *)
(* a site or a structure ends (cancelled, given up, fallen apart, killed,  *)
(* its wreck cleared) frees its cells again.                               *)
GroundIsFreed ==
  \A s \in blocked : \E i \in Sites : site[i].spot = s
                                        /\ site[i].state \in {"site", "done", "wreck"}

(* Two builders sent to the same spot never both put a structure there,    *)
(* though both orders were accepted while it was free.                     *)
OneStructurePerSpot ==
  \A i, j \in Sites : Standing(i) /\ Standing(j) /\ site[i].spot = site[j].spot => i = j

(* A finished structure goes only by an enemy's fire: no order to, and no  *)
(* loss of patience by, a builder that still has it as its site removes it.*)
FinishedStays ==
  [][\A i \in Sites : site[i].state = "done" /\ site[i].hp > 0
                        => site'[i].state = "done"]_vars

(* A site falls apart only while no living builder is assigned to it, be   *)
(* it still on its way or unable to pay.                                   *)
AssignedHolds ==
  [][\A i \in Sites : phase = "decay" /\ site'[i].hp < site[i].hp
       => \A b \in Builders : living[b] => buildSite[b] # i]_vars

(* No site stays unassigned for ever: one that has lost its builders is     *)
(* taken up again, or it goes.                                             *)
Orphaned(i) == site[i].state = "site" /\ \A b \in Builders : living[b] => buildSite[b] # i
OrphanGoes == \A i \in Sites : []<>~Orphaned(i)

(* A build order that leaves the queue in the construction pass is the one *)
(* of the site that was worked on (sim.h:1170: build now if the builder is *)
(* free, else queue it; a non-queued order replaces any pending queue).    *)
OrderIsItsJob ==
  [][\A b \in Builders :
       phase = "construct" /\ HeadIs(orders[b], "build") /\ orders'[b] # orders[b]
         => buildSite[b] # 0 /\ site[buildSite[b]].spot = Head(orders[b]).at]_vars
=============================================================================
