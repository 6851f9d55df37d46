----------------------------- MODULE ClientPool -----------------------------
(***************************************************************************)
(* The client's pool (client/threadpool.h): the loops over the animation   *)
(* scripts and over the drawing of units are cut into chunks that the      *)
(* calling thread and all the others pull off a counter.  One condition    *)
(* variable starts a loop, another ends it; every thread, the calling one  *)
(* too, is counted out of each loop.                                       *)
(*                                                                         *)
(* A step is one wait predicate, one fetch_add, one test, one item, one    *)
(* section under the mutex.  A loop too short to share is one call and is  *)
(* left out.                                                               *)
(***************************************************************************)
EXTENDS Naturals, FiniteSets

CONSTANTS Helpers,    \* workers_
          Owner,      \* the thread that calls parallelFor
          Chunk,      \* kChunk
          MaxItems,   \* bound: items of a loop
          MaxLoops    \* bound: loops

ASSUME ClientPoolAssumption ==
  /\ IsFiniteSet(Helpers) /\ Helpers # {} /\ Owner \notin Helpers
  /\ Chunk \in Nat \ {0} /\ {MaxItems, MaxLoops} \subseteq Nat

VARIABLES at,         \* where each thread is
          seenLoop,   \* workerLoop's seen
          from,       \* runChunks: the next item of the chunk
          upto,       \* runChunks: e
          loop,       \* gen_
          body,       \* fn_, as the loop it belongs to, 0 for none
          size,       \* count_
          next,       \* next_
          active,     \* active_
          ended,       \* stop_
          visited     \* history: items of this loop that are done, and how often

poolVars == <<at, seenLoop, from, upto, loop, body, size, next, active, ended, visited>>

All == Helpers \cup {Owner}
ItemIds == 0..(MaxItems - 1)
Go(t, l) == at' = [at EXCEPT ![t] = l]

ClientPoolInit ==
  /\ at = [t \in All |-> IF t = Owner THEN "outside" ELSE "check"]
  /\ seenLoop = [h \in Helpers |-> 0]
  /\ from = [t \in All |-> 0] /\ upto = [t \in All |-> 0]
  /\ loop = 0 /\ body = 0 /\ size = 0 /\ next = 0 /\ active = 0 /\ ended = FALSE
  /\ visited = [i \in ItemIds |-> 0]

----------------------------------------------------------------------------
(* notify_all on cv_.                                                      *)
Woken(then) ==
  at' = [t \in All |-> IF t = Owner THEN then
                       ELSE IF at[t] = "asleep" THEN "check" ELSE at[t]]

(* parallelFor publishes the loop under the mutex.  Mutant of Participants: *)
(* the calling thread is not counted.                                      *)
Participants_Helpers == Cardinality(Helpers)
Participants == Cardinality(All)

Dispatch(n) ==
  /\ at[Owner] = "outside" /\ loop < MaxLoops
  /\ loop' = loop + 1 /\ body' = loop + 1
  /\ size' = n /\ next' = 0 /\ active' = Participants
  /\ visited' = [i \in ItemIds |-> 0]
  /\ Go(Owner, "wake")
  /\ UNCHANGED <<seenLoop, from, upto, ended>>

Wake == /\ at[Owner] = "wake" /\ Woken("claim")
        /\ UNCHANGED <<seenLoop, from, upto, loop, body, size, next, active, ended, visited>>

(* doneCv_.wait.                                                           *)
Await ==
  /\ at[Owner] = "await"
  /\ IF active = 0 THEN Go(Owner, "outside") /\ body' = 0
                   ELSE Go(Owner, "blocked") /\ UNCHANGED body
  /\ UNCHANGED <<seenLoop, from, upto, loop, size, next, active, ended, visited>>

Quit ==
  /\ at[Owner] = "outside"
  /\ ended' = TRUE /\ Go(Owner, "dismiss")
  /\ UNCHANGED <<seenLoop, from, upto, loop, body, size, next, active, visited>>

Dismiss == /\ at[Owner] = "dismiss" /\ Woken("join")
           /\ UNCHANGED <<seenLoop, from, upto, loop, body, size, next, active, ended, visited>>

JoinAll ==
  /\ at[Owner] = "join" /\ \A h \in Helpers : at[h] = "exited"
  /\ Go(Owner, "gone")
  /\ UNCHANGED <<seenLoop, from, upto, loop, body, size, next, active, ended, visited>>

----------------------------------------------------------------------------
(* runChunks.                                                              *)

Claim(t) ==
  /\ at[t] = "claim"
  /\ from' = [from EXCEPT ![t] = next]
  /\ next' = next + Chunk
  /\ Go(t, "test")
  /\ UNCHANGED <<seenLoop, upto, loop, body, size, active, ended, visited>>

EndOf(b) == IF b + Chunk < size THEN b + Chunk ELSE size

Bound(t) ==
  /\ at[t] = "test"
  /\ Go(t, IF from[t] >= size THEN "leave" ELSE "work")
  /\ upto' = [upto EXCEPT ![t] = EndOf(from[t])]
  /\ UNCHANGED <<seenLoop, from, loop, body, size, next, active, ended, visited>>

Work(t) ==
  /\ at[t] = "work"
  /\ IF from[t] = upto[t]
     THEN Go(t, "claim") /\ UNCHANGED <<from, visited>>
     ELSE /\ visited' = [visited EXCEPT ![from[t]] = @ + 1]
          /\ from' = [from EXCEPT ![t] = @ + 1]
          /\ UNCHANGED at
  /\ UNCHANGED <<seenLoop, upto, loop, body, size, next, active, ended>>

(* Counted out under the mutex; the last wakes the caller.                 *)
Leave(t) ==
  /\ at[t] = "leave"
  /\ active' = active - 1
  /\ at' = [u \in All |-> IF u = t THEN IF t = Owner THEN "await" ELSE "check"
                          ELSE IF u = Owner /\ active = 1 /\ at[u] = "blocked" THEN "await"
                          ELSE at[u]]
  /\ UNCHANGED <<seenLoop, from, upto, loop, body, size, next, ended, visited>>

(* The wait of workerLoop and the assignment after it.                     *)
Check(h) ==
  /\ at[h] = "check"
  /\ \/ ended /\ Go(h, "exited") /\ UNCHANGED seenLoop
     \/ ~ended /\ loop # seenLoop[h] /\ Go(h, "claim") /\ seenLoop' = [seenLoop EXCEPT ![h] = loop]
     \/ ~ended /\ loop = seenLoop[h] /\ Go(h, "asleep") /\ UNCHANGED seenLoop
  /\ UNCHANGED <<from, upto, loop, body, size, next, active, ended, visited>>

(* A wait may end for no reason.                                           *)
Stirs(t) ==
  /\ \/ at[t] = "asleep" /\ Go(t, "check")
     \/ at[t] = "blocked" /\ Go(t, "await")
  /\ UNCHANGED <<seenLoop, from, upto, loop, body, size, next, active, ended, visited>>

Runs(t) == Claim(t) \/ Bound(t) \/ Work(t) \/ Leave(t)
OwnerStep == Wake \/ Await \/ Dismiss \/ JoinAll \/ Runs(Owner)
HelperStep(h) == Check(h) \/ Runs(h)

ClientPoolNext ==
  \/ \E n \in 1..MaxItems : Dispatch(n)
  \/ Quit \/ OwnerStep
  \/ \E h \in Helpers : HelperStep(h)
  \/ \E t \in All : Stirs(t)

(* Every thread that can run does.                                         *)
ClientPoolFairness ==
  /\ WF_poolVars(OwnerStep) /\ \A h \in Helpers : WF_poolVars(HelperStep(h))
ClientPoolSpec == ClientPoolInit /\ [][ClientPoolNext]_poolVars /\ ClientPoolFairness

----------------------------------------------------------------------------
InLoop == at[Owner] \notin {"outside", "dismiss", "join", "gone"}

Loop == INSTANCE ParallelFor WITH
          MaxCount <- MaxItems, running <- InLoop,
          todo <- {i \in ItemIds : i < size /\ visited[i] = 0}

(* A loop visits each item, the last and shorter chunk included, and is    *)
(* over only when every visit is; it ends, and so does the pool: no        *)
(* wake-up is lost though a thread may be late by a whole loop, nor does a *)
(* thread carry a chunk, or the function of a loop that is over, into the  *)
(* next.                                                                   *)
LoopIsWhole ==
  /\ Loop!Spec
  /\ [](\A t \in All : at[t] \in {"claim", "test", "work"} => InLoop /\ body = loop)
  /\ [](\A i \in ItemIds : visited[i] <= 1)
  /\ []<>(at[Owner] \in {"outside", "gone"})
=============================================================================
