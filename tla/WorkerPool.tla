----------------------------- MODULE WorkerPool -----------------------------
(***************************************************************************)
(* The server's persistent thread pool (class WorkerPool of server.cpp).   *)
(* run(count, fn) publishes a batch under the mutex, wakes the workers,    *)
(* takes part in the work itself and returns when every worker has left    *)
(* drain().  What drain() touches (cursor_, count_, fn_) it touches with   *)
(* no lock held, so a batch that is replaced while a straggler is still in *)
(* drain() would hand that straggler another batch's items or a dangling   *)
(* callback.                                                               *)
(*                                                                         *)
(* A step is what the mutex or the atomic makes indivisible: evaluating a  *)
(* wait predicate, one fetch_add, one unlocked read, one call of fn.       *)
(***************************************************************************)
EXTENDS Naturals, FiniteSets

CONSTANTS Workers,                    \* the pool's threads (not the caller)
          Caller,                     \* the thread that calls run()
          MaxCount,                   \* largest batch (bound on the input)
          MaxRuns                     \* bound on the number of batches

ASSUME PoolAssumption ==
  /\ IsFiniteSet(Workers) /\ Workers # {}
  /\ Caller \notin Workers
  /\ MaxCount \in Nat /\ MaxRuns \in Nat

VARIABLES
  pc,         \* where each thread is
  seen,       \* workerLoop's local `seen`
  item,       \* drain's local `i`
  gen,        \* gen_
  fn,         \* fn_, as the generation whose callback it points to; 0 = nullptr
  count,      \* count_
  cursor,     \* cursor_
  finished,   \* finished_
  stop,       \* stop_
  calls       \* history: how many calls of fn(i) are over, for the last batch

vars == <<pc, seen, item, gen, fn, count, cursor, finished, stop, calls>>

Threads == Workers \cup {Caller}

Draining  == {"fetch", "test", "call"}
WorkerPcs == {"check", "asleep", "report", "exited"} \cup Draining
CallerPcs == {"outside", "notify", "await", "blocked", "halt", "join", "gone"}
               \cup Draining

Items == 0 .. (MaxCount - 1)

Init ==
  /\ pc = [t \in Threads |-> IF t = Caller THEN "outside" ELSE "check"]
  /\ seen = [w \in Workers |-> 0]
  /\ item = [t \in Threads |-> 0]
  /\ gen = 0 /\ fn = 0 /\ count = 0 /\ cursor = 0 /\ finished = 0
  /\ stop = FALSE
  /\ calls = [i \in Items |-> 0]

Goto(t, l) == pc' = [pc EXCEPT ![t] = l]

(* Mutant of WakeWorkers: notify_one on cvStart_. *)
WakeWorkers_One(next) ==
  LET sleepers == {w \in Workers : pc[w] = "asleep"}
      woken    == IF sleepers = {} THEN {} ELSE {CHOOSE w \in sleepers : TRUE}
  IN pc' = [t \in Threads |->
              IF t = Caller THEN next ELSE IF t \in woken THEN "check" ELSE pc[t]]

(* notify_all on cvStart_: every sleeping worker re-evaluates its predicate. *)
WakeWorkers(next) ==
  pc' = [t \in Threads |->
           IF t = Caller THEN next
           ELSE IF pc[t] = "asleep" THEN "check" ELSE pc[t]]

-----------------------------------------------------------------------------
(* The caller. *)

(* run(n, fn) with n > 0: the batch is published under the mutex.  A run   *)
(* with n = 0 returns at once and changes nothing.                         *)
Publish(n) ==
  /\ pc[Caller] = "outside"
  /\ gen < MaxRuns
  /\ gen' = gen + 1
  /\ fn' = gen + 1
  /\ count' = n
  /\ cursor' = 0
  /\ finished' = 0
  /\ calls' = [i \in Items |-> 0]
  /\ Goto(Caller, "notify")
  /\ UNCHANGED <<seen, item, stop>>

NotifyStart ==
  /\ pc[Caller] = "notify"
  /\ WakeWorkers("fetch")
  /\ UNCHANGED <<seen, item, gen, fn, count, cursor, finished, stop, calls>>

(* Mutants of BatchDone: return when the last item has been handed out;    *)
(* when the last call has ended, though a worker may still be in drain().  *)
BatchDone_Handed == cursor >= count
BatchDone_Called == \A i \in Items : i < count => calls[i] = 1

(* The predicate of cvDone_.wait in run(). *)
BatchDone == finished = Cardinality(Workers)

(* The predicate is evaluated with the mutex held. *)
AwaitDone ==
  /\ pc[Caller] = "await"
  /\ IF BatchDone
       THEN Goto(Caller, "outside") /\ fn' = 0
       ELSE Goto(Caller, "blocked") /\ UNCHANGED fn
  /\ UNCHANGED <<seen, item, gen, count, cursor, finished, stop, calls>>

(* ~WorkerPool(): stop_ is set under the mutex ... *)
Halt ==
  /\ pc[Caller] = "outside"
  /\ stop' = TRUE
  /\ gen' = gen + 1
  /\ Goto(Caller, "halt")
  /\ UNCHANGED <<seen, item, fn, count, cursor, finished, calls>>

(* ... then the workers are woken ... *)
NotifyStop ==
  /\ pc[Caller] = "halt"
  /\ WakeWorkers("join")
  /\ UNCHANGED <<seen, item, gen, fn, count, cursor, finished, stop, calls>>

(* ... and joined. *)
Join ==
  /\ pc[Caller] = "join"
  /\ \A w \in Workers : pc[w] = "exited"
  /\ Goto(Caller, "gone")
  /\ UNCHANGED <<seen, item, gen, fn, count, cursor, finished, stop, calls>>

-----------------------------------------------------------------------------
(* drain(), run by the caller and by every worker. *)

Fetch(t) ==
  /\ pc[t] = "fetch"
  /\ item' = [item EXCEPT ![t] = cursor]
  /\ cursor' = cursor + 1
  /\ Goto(t, "test")
  /\ UNCHANGED <<seen, gen, fn, count, finished, stop, calls>>

(* Mutant of InBatch: one item past the end. *)
InBatch_OffByOne(t) == item[t] <= count

InBatch(t) == item[t] < count

Test(t) ==
  /\ pc[t] = "test"
  /\ Goto(t, IF InBatch(t) THEN "call"
             ELSE IF t = Caller THEN "await" ELSE "report")
  /\ UNCHANGED <<seen, item, gen, fn, count, cursor, finished, stop, calls>>

Call(t) ==
  /\ pc[t] = "call"
  /\ calls' = [calls EXCEPT ![item[t]] = @ + 1]
  /\ Goto(t, "fetch")
  /\ UNCHANGED <<seen, item, gen, fn, count, cursor, finished, stop>>

-----------------------------------------------------------------------------
(* workerLoop(). *)

(* cvStart_.wait: the predicate, and the assignment to seen that follows   *)
(* it, with the mutex held.                                                *)
CheckStart(w) ==
  /\ pc[w] = "check"
  /\ \/ /\ stop
        /\ Goto(w, "exited")
        /\ UNCHANGED seen
     \/ /\ ~ stop /\ gen # seen[w]
        /\ seen' = [seen EXCEPT ![w] = gen]
        /\ Goto(w, "fetch")
     \/ /\ ~ stop /\ gen = seen[w]
        /\ Goto(w, "asleep")
        /\ UNCHANGED seen
  /\ UNCHANGED <<item, gen, fn, count, cursor, finished, stop, calls>>

(* Mutant of LastReport: the count is compared before it is incremented. *)
LastReport_Post == finished = Cardinality(Workers)

LastReport == finished + 1 = Cardinality(Workers)

(* ++finished_ and, by the last worker, notify_all on cvDone_. *)
Report(w) ==
  /\ pc[w] = "report"
  /\ finished' = finished + 1
  /\ pc' = [pc EXCEPT ![w] = "check",
                      ![Caller] = IF LastReport /\ @ = "blocked"
                                    THEN "await" ELSE @]
  /\ UNCHANGED <<seen, item, gen, fn, count, cursor, stop, calls>>

(* A condition variable may wake a sleeper for no reason; the code may not *)
(* rely on it, so it is given no fairness.                                 *)
Spurious(t) ==
  \/ /\ t # Caller /\ pc[t] = "asleep" /\ Goto(t, "check")
     /\ UNCHANGED <<seen, item, gen, fn, count, cursor, finished, stop, calls>>
  \/ /\ t = Caller /\ pc[t] = "blocked" /\ Goto(t, "await")
     /\ UNCHANGED <<seen, item, gen, fn, count, cursor, finished, stop, calls>>

-----------------------------------------------------------------------------
CallerStep == NotifyStart \/ AwaitDone \/ NotifyStop \/ Join

Drain(t) == Fetch(t) \/ Test(t) \/ Call(t)

WorkerStep(w) == CheckStart(w) \/ Report(w)

Next ==
  \/ \E n \in 1 .. MaxCount : Publish(n)
  \/ Halt
  \/ CallerStep
  \/ \E t \in Threads : Drain(t) \/ Spurious(t)
  \/ \E w \in Workers : WorkerStep(w)

(* The operating system keeps running every thread that can run.  Nothing  *)
(* obliges the caller to start a batch or to destroy the pool.             *)
Fairness ==
  /\ WF_vars(CallerStep)
  /\ \A t \in Threads : WF_vars(Drain(t))
  /\ \A w \in Workers : WF_vars(WorkerStep(w))

Spec == Init /\ [][Next]_vars /\ Fairness

-----------------------------------------------------------------------------
(* Every variable has its type; no more reports than workers. *)
TypeOK ==
  /\ pc \in [Threads -> WorkerPcs \cup CallerPcs]
  /\ pc[Caller] \in CallerPcs
  /\ \A w \in Workers : pc[w] \in WorkerPcs
  /\ seen \in [Workers -> Nat]
  /\ item \in [Threads -> Nat]
  /\ gen \in Nat /\ fn \in Nat /\ cursor \in Nat
  /\ finished \in 0 .. Cardinality(Workers)
  /\ count \in 0 .. MaxCount
  /\ stop \in BOOLEAN
  /\ calls \in [Items -> Nat]

(* Outside run() -- before the first batch, between two, at destruction.   *)
Idle == pc[Caller] \in {"outside", "halt", "join", "gone"}

(* When run() has returned, every item of its batch has been called        *)
(* exactly once, and no thread's call is still going on: the room that     *)
(* fn(i) ticks is ticked once per batch, and the caller may read it.       *)
ExactlyOnce ==
  Idle => \A i \in Items : calls[i] = IF i < count THEN 1 ELSE 0

(* At no moment is an item called twice or an item of another batch        *)
(* called: two threads never tick the same room's simulation.              *)
AtMostOnce ==
  /\ \A i \in Items : calls[i] <= 1
  /\ \A t \in Threads : pc[t] = "call" => item[t] < count /\ calls[item[t]] = 0
  /\ \A t, u \in Threads :
       pc[t] = "call" /\ pc[u] = "call" /\ item[t] = item[u] => t = u

(* A thread in drain() works for the batch that is published: fn_ points   *)
(* to the callback of the current run(), never to that of one that has     *)
(* returned (whose captures are gone), and the caller cannot leave run()   *)
(* before the thread has left drain().                                     *)
NoStraggler ==
  \A t \in Threads :
    pc[t] \in Draining =>
      /\ ~ Idle
      /\ fn = gen
      /\ t # Caller => seen[t] = gen

(* No wakeup is lost: a call of run() returns, and a destroyed pool's      *)
(* threads all end.                                                        *)
CallsReturn == []<>(pc[Caller] \in {"outside", "gone"})

(* The pool implements a parallel for loop that knows nothing of threads.  *)
PF == INSTANCE ParallelFor WITH
        running <- ~ Idle,
        todo <- {i \in Items : i < count /\ calls[i] = 0}

ImplementsParallelFor == PF!Spec
=============================================================================
