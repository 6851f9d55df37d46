------------------------------- MODULE ThreadsProofs -------------------------------
(***************************************************************************)
(* Proofs about WorkerPool, for any finite set of workers and any batch,   *)
(* about SimThread, for every hash period, length of the game and moment   *)
(* of leaving it, and about ClientPool, for any threads, chunk and loop.   *)
(*                                                                         *)
(* ExactlyOnce and NoStraggler are not inductive: they say nothing of the  *)
(* counter finished_ run() waits on.  Inv ties that counter to the workers *)
(* that have taken the current generation and are back at the wait         *)
(* (Reported), and the call counts to the cursor and to the indices the    *)
(* threads hold between fetch_add and the end of fn(i) (Holding).          *)
(*                                                                         *)
(* That the simulation thread does what the inline simulation does rests   *)
(* on the jobs being consecutive (InOrder): what is in hand is the tick    *)
(* the world is to be stepped with, what is queued follows it, and what    *)
(* the main thread pushes follows that.                                    *)
(*                                                                         *)
(* That a loop of the client's pool is over when its caller goes on rests  *)
(* on the counter counting those who are late (Late, Counted): in the loop *)
(* or not in it yet.  Chunked follows the items from the counter through   *)
(* the threads.                                                            *)
(***************************************************************************)
EXTENDS WorkerPool, SimThread, ClientPool, FiniteSetTheorems, SequenceTheorems, TLAPS

Reported == {w \in Workers : seen[w] = gen /\ pc[w] \in {"check", "asleep"}}

Holding(t) == pc[t] \in {"test", "call"}

Held(i) == \E t \in Threads : Holding(t) /\ item[t] = i

(* Where the caller is decides where the workers can be. *)
PhaseInv ==
  /\ stop <=> pc[Caller] \in {"halt", "join", "gone"}
  /\ \A w \in Workers : pc[w] = "exited" => stop
  /\ \A w \in Workers : pc[w] \in Draining \cup {"report"} => seen[w] = gen /\ ~ Idle
  /\ pc[Caller] = "outside" => \A w \in Workers : seen[w] = gen
  /\ ~ Idle => fn = gen

(* The counter the caller waits on counts the workers that are done. *)
CountInv == ~ Idle => finished = Cardinality(Reported)

(* Each index below the cursor is held by one thread or its call is over. *)
ItemInv ==
  /\ \A t \in Threads : Holding(t) => item[t] < cursor
  /\ \A t, u \in Threads : Holding(t) /\ Holding(u) /\ item[t] = item[u] => t = u
  /\ \A t \in Threads : pc[t] = "call" => item[t] < count
  /\ \A i \in Items : calls[i] = IF i < cursor /\ i < count /\ ~ Held(i) THEN 1 ELSE 0

(* Whoever has left drain() saw the cursor past the end of the batch. *)
ExhaustedInv ==
  /\ \A w \in Workers : ~ Idle /\ (w \in Reported \/ pc[w] = "report") => cursor >= count
  /\ Idle \/ pc[Caller] \in {"await", "blocked"} => cursor >= count

Inv == TypeOK /\ PhaseInv /\ CountInv /\ ItemInv /\ ExhaustedInv

-----------------------------------------------------------------------------
(* A worker set that has all reported is the whole pool. *)
LEMMA AllReported ==
  ASSUME TypeOK, finished = Cardinality(Reported), BatchDone
  PROVE  Reported = Workers
<1>1. Reported \subseteq Workers  BY DEF Reported
<1> QED  BY <1>1, PoolAssumption, FS_Subset DEF BatchDone

(* The counter never exceeds the number of workers. *)
LEMMA ReportedCard ==
  /\ IsFiniteSet(Reported)
  /\ Cardinality(Reported) \in 0 .. Cardinality(Workers)
  /\ Cardinality(Workers) \in Nat
<1>1. Reported \subseteq Workers  BY DEF Reported
<1> QED  BY <1>1, PoolAssumption, FS_Subset, FS_CardinalityType

THEOREM InitInv == Init => Inv
<1> SUFFICES ASSUME Init PROVE Inv  OBVIOUS
<1> USE PoolAssumption DEF Init, Threads
<1>1. TypeOK
  <2>1. finished \in 0 .. Cardinality(Workers)  BY ReportedCard
  <2>2. pc \in [Threads -> WorkerPcs \cup CallerPcs]
    BY DEF WorkerPcs, CallerPcs
  <2>3. pc[Caller] \in CallerPcs /\ \A w \in Workers : pc[w] \in WorkerPcs
    BY DEF WorkerPcs, CallerPcs
  <2>4. seen \in [Workers -> Nat]  OBVIOUS
  <2>5. item \in [Threads -> Nat]  OBVIOUS
  <2>6. calls \in [Items -> Nat]  OBVIOUS
  <2>7. gen \in Nat /\ fn \in Nat /\ cursor \in Nat OBVIOUS
  <2>8. count \in 0 .. MaxCount OBVIOUS
  <2>9. stop \in BOOLEAN  OBVIOUS
  <2> QED  BY <2>1, <2>2, <2>3, <2>4, <2>5, <2>6, <2>7, <2>8, <2>9, Zenon DEF TypeOK
<1>2. PhaseInv /\ CountInv  BY DEF PhaseInv, CountInv, Idle, Draining
<1>3. ItemInv  BY DEF ItemInv, Holding, Held, Items
<1>4. ExhaustedInv  BY DEF ExhaustedInv, Idle
<1> QED  BY <1>1, <1>2, <1>3, <1>4 DEF Inv
-----------------------------------------------------------------------------
(* Publish: every worker is at the wait with seen = gen, so none has       *)
(* reported for the new generation and none holds an index of the old one. *)
LEMMA PublishInv ==
  ASSUME Inv, NEW n \in 1 .. MaxCount, Publish(n)
  PROVE  Inv'
<1> USE PoolAssumption DEF Inv, TypeOK, Publish, Goto, Threads
<1>1. TypeOK'
  <2>1. pc' \in [Threads -> WorkerPcs \cup CallerPcs]  BY DEF CallerPcs
  <2>2. pc'[Caller] \in CallerPcs  BY DEF CallerPcs
  <2>3. \A w \in Workers : pc'[w] \in WorkerPcs  OBVIOUS
  <2>4. calls' \in [Items -> Nat]  OBVIOUS
  <2>5. finished' \in 0 .. Cardinality(Workers)  BY ReportedCard
  <2>6. /\ gen' \in Nat /\ fn' \in Nat /\ cursor' \in Nat
        /\ count' \in 0 .. MaxCount
    OBVIOUS
  <2> QED  BY <2>1, <2>2, <2>3, <2>4, <2>5, <2>6
<1>2. \A w \in Workers : pc'[w] = pc[w] /\ pc[w] \in {"check", "asleep"} /\ seen[w] = gen
  BY DEF PhaseInv, Idle, WorkerPcs, Draining
<1>3. PhaseInv'  BY <1>2 DEF PhaseInv, Idle, Draining
<1>4. Reported' = {}  BY <1>2 DEF Reported
<1>5. CountInv'  BY <1>4, FS_EmptySet DEF CountInv
<1>6. \A t \in Threads : ~ Holding(t)'  BY <1>2 DEF Holding
<1>7. ItemInv'  BY <1>6 DEF ItemInv, Held, Holding, Items
<1>8. ExhaustedInv'  BY <1>4, <1>2 DEF ExhaustedInv, Idle
<1> QED  BY <1>1, <1>3, <1>5, <1>7, <1>8

(* The caller's other steps move nobody into drain() and leave the batch   *)
(* alone; what they change is where the caller is and which workers wait   *)
(* asleep.                                                                 *)
LEMMA NotifyInv ==
  ASSUME Inv, NotifyStart \/ NotifyStop
  PROVE  Inv'
<1> USE PoolAssumption
        DEF Inv, TypeOK, NotifyStart, NotifyStop, WakeWorkers, Threads
<1>1. \A w \in Workers :
        pc'[w] = pc[w] \/ (pc[w] = "asleep" /\ pc'[w] = "check")
  OBVIOUS
<1>2. \/ pc[Caller] = "notify" /\ pc'[Caller] = "fetch"
      \/ pc[Caller] = "halt" /\ pc'[Caller] = "join"
  OBVIOUS
<1>3. TypeOK'
  <2>1. pc' \in [Threads -> WorkerPcs \cup CallerPcs]
    BY DEF CallerPcs, WorkerPcs, Draining
  <2>2. pc'[Caller] \in CallerPcs  BY <1>2 DEF CallerPcs, Draining
  <2>3. \A w \in Workers : pc'[w] \in WorkerPcs  BY <1>1 DEF WorkerPcs
  <2> QED  BY <2>1, <2>2, <2>3
<1>4. Idle' = Idle  BY <1>2 DEF Idle
<1>5. PhaseInv'  BY <1>1, <1>2, <1>4 DEF PhaseInv, Draining
<1>6. Reported' = Reported  BY <1>1 DEF Reported
<1>7. CountInv'  BY <1>4, <1>6 DEF CountInv
<1>8. \A t \in Threads : Holding(t)' = Holding(t)  BY <1>1, <1>2 DEF Holding
<1>9. \A t \in Threads : (pc[t] = "call")' = (pc[t] = "call")  BY <1>1, <1>2
<1>10. \A i : Held(i)' = Held(i)  BY <1>8 DEF Held
<1>11. ItemInv'  BY <1>8, <1>9, <1>10 DEF ItemInv, Items
<1>12. ExhaustedInv'  BY <1>1, <1>2, <1>4, <1>6 DEF ExhaustedInv
<1> QED  BY <1>3, <1>5, <1>7, <1>11, <1>12

LEMMA AwaitInv ==
  ASSUME Inv, AwaitDone
  PROVE  Inv'
<1> USE PoolAssumption DEF Inv, TypeOK, AwaitDone, Goto, Threads
<1>1. \A w \in Workers : pc'[w] = pc[w]  OBVIOUS
<1>2. pc[Caller] = "await" /\ pc'[Caller] \in {"outside", "blocked"}  OBVIOUS
<1>3. TypeOK'
  <2>1. pc' \in [Threads -> WorkerPcs \cup CallerPcs]  BY DEF CallerPcs
  <2>2. pc'[Caller] \in CallerPcs  BY <1>2 DEF CallerPcs
  <2>3. \A w \in Workers : pc'[w] \in WorkerPcs  BY <1>1
  <2>4. fn' \in Nat  OBVIOUS
  <2> QED  BY <2>1, <2>2, <2>3, <2>4
<1>4. pc'[Caller] = "outside" => Reported = Workers
  BY AllReported, <1>2 DEF CountInv, Idle
<1>5. PhaseInv'
  <2>1. CASE pc'[Caller] = "outside"
    BY <1>1, <1>2, <1>4, <2>1 DEF PhaseInv, Idle, Reported, Draining
  <2>2. CASE pc'[Caller] = "blocked"
    BY <1>1, <1>2, <2>2 DEF PhaseInv, Idle
  <2> QED  BY <1>2, <2>1, <2>2
<1>6. Reported' = Reported  BY <1>1 DEF Reported
<1>7. CountInv'  BY <1>2, <1>6 DEF CountInv, Idle
<1>8. \A t \in Threads : Holding(t)' = Holding(t)  BY <1>1, <1>2 DEF Holding
<1>9. \A t \in Threads : (pc[t] = "call")' = (pc[t] = "call")  BY <1>1, <1>2
<1>10. \A i : Held(i)' = Held(i)  BY <1>8 DEF Held
<1>11. ItemInv'  BY <1>8, <1>9, <1>10 DEF ItemInv, Items
<1>12. ExhaustedInv'  BY <1>1, <1>2, <1>6 DEF ExhaustedInv, Idle
<1> QED  BY <1>3, <1>5, <1>7, <1>11, <1>12

LEMMA HaltInv ==
  ASSUME Inv, Halt \/ Join
  PROVE  Inv'
<1> USE PoolAssumption DEF Inv, TypeOK, Halt, Join, Goto, Threads
<1>1. \A w \in Workers : pc'[w] = pc[w]  OBVIOUS
<1>2. \/ pc[Caller] = "outside" /\ pc'[Caller] = "halt" /\ stop'
      \/ pc[Caller] = "join" /\ pc'[Caller] = "gone" /\ stop' = stop
  OBVIOUS
<1>3. TypeOK'
  <2>1. pc' \in [Threads -> WorkerPcs \cup CallerPcs]  BY DEF CallerPcs
  <2>2. pc'[Caller] \in CallerPcs  BY <1>2 DEF CallerPcs
  <2>3. \A w \in Workers : pc'[w] \in WorkerPcs  BY <1>1
  <2>4. gen' \in Nat  OBVIOUS
  <2>5. stop' \in BOOLEAN  OBVIOUS
  <2> QED  BY <2>1, <2>2, <2>3, <2>4, <2>5
<1>4. Idle /\ Idle'  BY <1>2 DEF Idle
<1>5. PhaseInv'  BY <1>1, <1>2, <1>4 DEF PhaseInv
<1>7. CountInv'  BY <1>4 DEF CountInv
<1>8. \A t \in Threads : Holding(t)' = Holding(t)  BY <1>1, <1>2 DEF Holding
<1>9. \A t \in Threads : (pc[t] = "call")' = (pc[t] = "call")  BY <1>1, <1>2
<1>10. \A i : Held(i)' = Held(i)  BY <1>8 DEF Held
<1>11. ItemInv'  BY <1>8, <1>9, <1>10 DEF ItemInv, Items
<1>12. ExhaustedInv'  BY <1>4 DEF ExhaustedInv
<1> QED  BY <1>3, <1>5, <1>7, <1>11, <1>12

-----------------------------------------------------------------------------
(* drain(): the index a thread takes is the old cursor, which nobody holds. *)
LEMMA FetchInv ==
  ASSUME Inv, NEW t \in Threads, Fetch(t)
  PROVE  Inv'
<1> USE PoolAssumption DEF Inv, TypeOK, Fetch, Goto
<1>1. \A u \in Threads : pc'[u] = IF u = t THEN "test" ELSE pc[u]  OBVIOUS
<1>2. pc[t] = "fetch" /\ ~ Holding(t)  BY DEF Holding
<1>3. item' \in [Threads -> Nat]
      /\ \A u \in Threads : item'[u] = IF u = t THEN cursor ELSE item[u]
  OBVIOUS
<1>4. TypeOK'
  <2>1. pc' \in [Threads -> WorkerPcs \cup CallerPcs]
    BY DEF CallerPcs, WorkerPcs, Draining
  <2>2. pc'[Caller] \in CallerPcs  BY <1>1 DEF CallerPcs, Draining, Threads
  <2>3. \A w \in Workers : pc'[w] \in WorkerPcs
    BY <1>1 DEF WorkerPcs, Draining, Threads
  <2>4. cursor' \in Nat  OBVIOUS
  <2> QED  BY <2>1, <2>2, <2>3, <2>4, <1>3
<1>5. Idle' = Idle  BY <1>1, <1>2 DEF Idle, Threads
<1>6. PhaseInv'
  <2>1. stop' <=> pc'[Caller] \in {"halt", "join", "gone"}
    BY <1>1, <1>2 DEF PhaseInv, Threads
  <2> QED  BY <1>1, <1>2, <1>5, <2>1 DEF PhaseInv, Draining, Threads
<1>7. Reported' = Reported  BY <1>1, <1>2 DEF Reported, Threads
<1>8. CountInv'  BY <1>5, <1>7 DEF CountInv
<1>9. \A u \in Threads : Holding(u)' <=> u = t \/ Holding(u)
  BY <1>1, <1>2 DEF Holding
<1>10. ItemInv'
  <2> USE DEF ItemInv
  <2>1. \A u \in Threads : Holding(u)' => item'[u] < cursor'
    BY <1>3, <1>9
  <2>2. \A u, v \in Threads :
          Holding(u)' /\ Holding(v)' /\ item'[u] = item'[v] => u = v
    BY <1>3, <1>9
  <2>3. \A u \in Threads : pc'[u] = "call" => item'[u] < count'
    BY <1>1, <1>3
  <2>4. \A i \in Items : Held(i)' <=> i = cursor \/ Held(i)
    BY <1>2, <1>3, <1>9 DEF Held
  <2>5. \A i \in Items : calls'[i] = IF i < cursor' /\ i < count' /\ ~ Held(i)' THEN 1 ELSE 0
    BY <2>4 DEF Items
  <2> QED  BY <2>1, <2>2, <2>3, <2>5
<1>11. ExhaustedInv'
  BY <1>1, <1>2, <1>5, <1>7 DEF ExhaustedInv, Threads
<1> QED  BY <1>4, <1>6, <1>8, <1>10, <1>11

(* An index at or past the end of the batch sends its thread out of drain(). *)
LEMMA TestInv ==
  ASSUME Inv, NEW t \in Threads, Test(t)
  PROVE  Inv'
<1> USE PoolAssumption DEF Inv, TypeOK, Test, InBatch, Goto
<1>1. \A u \in Threads : u # t => pc'[u] = pc[u]  OBVIOUS
<1>2. pc[t] = "test" /\ Holding(t)  BY DEF Holding
<1>3. \/ pc'[t] = "call" /\ item[t] < count
      \/ pc'[t] = "await" /\ t = Caller /\ item[t] >= count
      \/ pc'[t] = "report" /\ t \in Workers /\ item[t] >= count
  BY DEF Threads
<1>4. TypeOK'
  <2>1. pc' \in [Threads -> WorkerPcs \cup CallerPcs]
    BY DEF CallerPcs, WorkerPcs, Draining
  <2>2. pc'[Caller] \in CallerPcs
    BY <1>1, <1>3 DEF CallerPcs, Draining, Threads
  <2>3. \A w \in Workers : pc'[w] \in WorkerPcs
    BY <1>1, <1>3 DEF WorkerPcs, Draining, Threads
  <2> QED  BY <2>1, <2>2, <2>3
<1>5. ~ Idle /\ ~ Idle'
  BY <1>1, <1>2, <1>3 DEF Idle, PhaseInv, Draining, Threads
<1>6. PhaseInv'
  <2>1. stop' <=> pc'[Caller] \in {"halt", "join", "gone"}
    BY <1>1, <1>2, <1>3 DEF PhaseInv, Threads
  <2>2. \A w \in Workers : pc'[w] = "exited" => stop'
    BY <1>1, <1>3 DEF PhaseInv, Threads
  <2>3. \A w \in Workers : pc'[w] \in Draining \cup {"report"} => seen'[w] = gen' /\ ~ Idle'
    BY <1>1, <1>2, <1>5 DEF PhaseInv, Draining, Threads
  <2> QED  BY <1>5, <2>1, <2>2, <2>3 DEF PhaseInv, Idle
<1>7. Reported' = Reported  BY <1>1, <1>2, <1>3 DEF Reported, Threads
<1>8. CountInv'  BY <1>5, <1>7 DEF CountInv
<1>9. \A u \in Threads : u # t => Holding(u)' = Holding(u)  BY <1>1 DEF Holding
<1>10. Holding(t)' => pc'[t] = "call"  BY <1>3 DEF Holding
<1>11. cursor > item[t]  BY <1>2 DEF ItemInv
<1>12. ItemInv'
  <2> USE DEF ItemInv
  <2>1. \A i \in Items : i < count => Held(i)' = Held(i)
    BY <1>2, <1>3, <1>9 DEF Held, Holding, Items
  <2>2. \A u \in Threads : pc'[u] = "call" => item'[u] < count'
    BY <1>1, <1>3
  <2>3. \A u \in Threads : Holding(u)' => Holding(u)  BY <1>2, <1>9
  <2> QED  BY <2>1, <2>2, <2>3
<1>13. ExhaustedInv'
  <2>1. item[t] >= count => cursor >= count  BY <1>11 DEF Threads
  <2> QED  BY <1>1, <1>2, <1>3, <1>5, <1>7, <2>1 DEF ExhaustedInv, Threads
<1> QED  BY <1>4, <1>6, <1>8, <1>12, <1>13

(* The end of fn(i) turns a held index into a finished call. *)
LEMMA CallInv ==
  ASSUME Inv, NEW t \in Threads, Call(t)
  PROVE  Inv'
<1> USE PoolAssumption DEF Inv, TypeOK, Call, Goto
<1>1. \A u \in Threads : pc'[u] = IF u = t THEN "fetch" ELSE pc[u]  OBVIOUS
<1>2. pc[t] = "call" /\ Holding(t) /\ ~ Holding(t)'  BY DEF Holding
<1>3. TypeOK'
  <2>1. pc' \in [Threads -> WorkerPcs \cup CallerPcs]
    BY DEF CallerPcs, WorkerPcs, Draining
  <2>2. pc'[Caller] \in CallerPcs  BY <1>1 DEF CallerPcs, Draining, Threads
  <2>3. \A w \in Workers : pc'[w] \in WorkerPcs
    BY <1>1 DEF WorkerPcs, Draining, Threads
  <2>4. calls' \in [Items -> Nat]  BY DEF ItemInv, Items
  <2> QED  BY <2>1, <2>2, <2>3, <2>4
<1>4. Idle' = Idle  BY <1>1, <1>2 DEF Idle, Threads
<1>5. PhaseInv'
  <2>1. stop' <=> pc'[Caller] \in {"halt", "join", "gone"}
    BY <1>1, <1>2 DEF PhaseInv, Threads
  <2> QED  BY <1>1, <1>2, <1>4, <2>1 DEF PhaseInv, Draining, Threads
<1>6. Reported' = Reported  BY <1>1, <1>2 DEF Reported, Threads
<1>7. CountInv'  BY <1>4, <1>6 DEF CountInv
<1>8. \A u \in Threads : u # t => Holding(u)' = Holding(u)  BY <1>1 DEF Holding
<1>9. item[t] \in Items /\ item[t] < count /\ item[t] < cursor
  BY <1>2 DEF ItemInv, Items
<1>10. \A i \in Items : Held(i)' <=> i # item[t] /\ Held(i)
  BY <1>2, <1>8 DEF Held, ItemInv
<1>11. Held(item[t])  BY <1>2 DEF Held
<1>12. ItemInv'
  <2> USE DEF ItemInv
  <2>1. calls[item[t]] = 0  BY <1>9, <1>11
  <2>2. \A i \in Items : calls'[i] = IF i = item[t] THEN 1 ELSE calls[i]
    BY <1>9, <2>1
  <2>3. \A i \in Items : calls'[i] = IF i < cursor' /\ i < count' /\ ~ Held(i)' THEN 1 ELSE 0
    BY <1>9, <1>10, <2>2
  <2>4. \A u \in Threads : Holding(u)' => Holding(u)  BY <1>2, <1>8
  <2>5. \A u \in Threads : pc'[u] = "call" => pc[u] = "call"  BY <1>1
  <2> QED  BY <2>3, <2>4, <2>5
<1>13. ExhaustedInv'
  BY <1>1, <1>2, <1>4, <1>6 DEF ExhaustedInv, Threads
<1> QED  BY <1>3, <1>5, <1>7, <1>12, <1>13

-----------------------------------------------------------------------------
(* workerLoop(): taking a generation, going to sleep, leaving.  A worker   *)
(* that has not reported may go back to sleep only if it has seen nothing  *)
(* new, so Reported never changes here.                                    *)
LEMMA CheckStartInv ==
  ASSUME Inv, NEW w \in Workers, CheckStart(w)
  PROVE  Inv'
<1> USE PoolAssumption DEF Inv, TypeOK, CheckStart, Goto
<1>1. \A u \in Threads : u # w => pc'[u] = pc[u]  OBVIOUS
<1>2. pc[w] = "check" /\ w \in Threads /\ w # Caller  BY DEF Threads
<1>3. \/ pc'[w] = "exited" /\ stop /\ seen' = seen
      \/ /\ pc'[w] = "fetch" /\ ~ stop /\ gen # seen[w]
         /\ seen' = [seen EXCEPT ![w] = gen]
      \/ pc'[w] = "asleep" /\ ~ stop /\ gen = seen[w] /\ seen' = seen
  BY <1>2
<1>4. TypeOK'
  <2>1. pc' \in [Threads -> WorkerPcs \cup CallerPcs]
    BY DEF CallerPcs, WorkerPcs, Draining
  <2>2. pc'[Caller] \in CallerPcs  BY <1>1, <1>2 DEF CallerPcs, Threads
  <2>3. \A v \in Workers : pc'[v] \in WorkerPcs
    BY <1>1, <1>3 DEF WorkerPcs, Draining, Threads
  <2>4. seen' \in [Workers -> Nat]  BY <1>3
  <2> QED  BY <2>1, <2>2, <2>3, <2>4
<1>5. Idle' = Idle /\ pc'[Caller] = pc[Caller]
  BY <1>1, <1>2 DEF Idle, Threads
<1>6. PhaseInv'
  <2> USE DEF PhaseInv
  <2>1. \A v \in Workers : v # w => pc'[v] = pc[v] /\ seen'[v] = seen[v]
    BY <1>1, <1>3 DEF Threads
  <2>2. pc'[w] = "fetch" => seen'[w] = gen /\ ~ Idle
    BY <1>3 DEF Idle
  <2>3. \A v \in Workers : pc'[v] = "exited" => stop'  BY <1>3, <2>1
  <2>4. \A v \in Workers : pc'[v] \in Draining \cup {"report"} => seen'[v] = gen' /\ ~ Idle'
    BY <1>3, <1>5, <2>1, <2>2 DEF Draining
  <2>5. pc'[Caller] = "outside" => \A v \in Workers : seen'[v] = gen'
    BY <1>3, <1>5, <2>1
  <2> QED  BY <1>5, <2>3, <2>4, <2>5
<1>7. CountInv'
  <2>1. CASE stop  BY <2>1, <1>5 DEF CountInv, PhaseInv, Idle
  <2>2. CASE ~ stop
    <3>1. Reported' = Reported
      BY <1>1, <1>2, <1>3, <2>2 DEF Reported, Threads
    <3> QED  BY <3>1, <1>5 DEF CountInv
  <2> QED  BY <2>1, <2>2
<1>8. \A t \in Threads : Holding(t)' = Holding(t)  BY <1>1, <1>2, <1>3 DEF Holding
<1>9. \A t \in Threads : (pc[t] = "call")' = (pc[t] = "call")
  BY <1>1, <1>2, <1>3
<1>10. \A i : Held(i)' = Held(i)  BY <1>8 DEF Held
<1>11. ItemInv'  BY <1>8, <1>9, <1>10 DEF ItemInv, Items
<1>12. ExhaustedInv'
  <2>1. \A v \in Workers : ~ stop /\ v \in Reported' => v \in Reported
    BY <1>1, <1>2, <1>3 DEF Reported, Threads
  <2>2. \A v \in Workers : pc'[v] = "report" => pc[v] = "report"
    BY <1>1, <1>2, <1>3 DEF Threads
  <2>3. stop => Idle  BY DEF PhaseInv, Idle
  <2> QED  BY <1>5, <2>1, <2>2, <2>3 DEF ExhaustedInv
<1> QED  BY <1>4, <1>6, <1>7, <1>11, <1>12

LEMMA ReportInv ==
  ASSUME Inv, NEW w \in Workers, Report(w)
  PROVE  Inv'
<1> USE PoolAssumption DEF Inv, TypeOK, Report
<1>1. \A v \in Workers : pc'[v] = IF v = w THEN "check" ELSE pc[v]
  BY DEF Threads
<1>2. pc[w] = "report" /\ w \in Threads /\ w # Caller  BY DEF Threads
<1>3. pc'[Caller] = pc[Caller] \/ (pc[Caller] = "blocked" /\ pc'[Caller] = "await")
  BY DEF Threads
<1>4. Idle' = Idle /\ ~ Idle  BY <1>2, <1>3 DEF Idle, PhaseInv
<1>5. seen[w] = gen  BY <1>2 DEF PhaseInv
<1>6. Reported' = Reported \cup {w} /\ w \notin Reported
  BY <1>1, <1>2, <1>5 DEF Reported
<1>7. CountInv'
  <2>1. Cardinality(Reported') = Cardinality(Reported) + 1
    BY <1>6, ReportedCard, FS_AddElement
  <2> QED  BY <2>1, <1>4 DEF CountInv
<1>8. TypeOK'
  <2>1. pc' \in [Threads -> WorkerPcs \cup CallerPcs]
    BY DEF CallerPcs, WorkerPcs
  <2>2. pc'[Caller] \in CallerPcs  BY <1>3 DEF CallerPcs
  <2>3. \A v \in Workers : pc'[v] \in WorkerPcs  BY <1>1 DEF WorkerPcs
  <2>4. Reported' \subseteq Workers  BY DEF Reported
  <2>5. finished' \in 0 .. Cardinality(Workers)
    BY <2>4, <1>4, <1>7, FS_Subset, FS_CardinalityType DEF CountInv
  <2> QED  BY <2>1, <2>2, <2>3, <2>5
<1>9. PhaseInv'
  <2> USE DEF PhaseInv
  <2>1. stop' <=> pc'[Caller] \in {"halt", "join", "gone"}  BY <1>3
  <2>2. \A v \in Workers : pc'[v] = "exited" => stop'  BY <1>1
  <2>3. \A v \in Workers : pc'[v] \in Draining \cup {"report"} => seen'[v] = gen' /\ ~ Idle'
    BY <1>1, <1>4 DEF Draining
  <2>4. pc'[Caller] # "outside"  BY <1>4 DEF Idle
  <2> QED  BY <1>4, <2>1, <2>2, <2>3, <2>4
<1>10. \A t \in Threads : Holding(t)' = Holding(t)
  BY <1>1, <1>2, <1>3 DEF Holding, Threads
<1>11. \A t \in Threads : (pc[t] = "call")' = (pc[t] = "call")
  BY <1>1, <1>2, <1>3 DEF Threads
<1>12. \A i : Held(i)' = Held(i)  BY <1>10 DEF Held
<1>13. ItemInv'  BY <1>10, <1>11, <1>12 DEF ItemInv, Items
<1>14. ExhaustedInv'
  <2>1. cursor >= count  BY <1>2, <1>4 DEF ExhaustedInv
  <2> QED  BY <2>1 DEF ExhaustedInv
<1> QED  BY <1>7, <1>8, <1>9, <1>13, <1>14

LEMMA SpuriousInv ==
  ASSUME Inv, NEW t \in Threads, Spurious(t)
  PROVE  Inv'
<1> USE PoolAssumption DEF Inv, TypeOK, Spurious, Goto
<1>1. \A w \in Workers :
        pc'[w] = pc[w] \/ (pc[w] = "asleep" /\ pc'[w] = "check")
  BY DEF Threads
<1>2. pc'[Caller] = pc[Caller] \/ (pc[Caller] = "blocked" /\ pc'[Caller] = "await")
  BY DEF Threads
<1>3. TypeOK'
  <2>1. pc' \in [Threads -> WorkerPcs \cup CallerPcs]
    BY DEF CallerPcs, WorkerPcs
  <2>2. pc'[Caller] \in CallerPcs  BY <1>2 DEF CallerPcs
  <2>3. \A w \in Workers : pc'[w] \in WorkerPcs  BY <1>1 DEF WorkerPcs
  <2> QED  BY <2>1, <2>2, <2>3
<1>4. Idle' = Idle  BY <1>2 DEF Idle
<1>5. PhaseInv'  BY <1>1, <1>2, <1>4 DEF PhaseInv, Draining
<1>6. Reported' = Reported  BY <1>1 DEF Reported
<1>7. CountInv'  BY <1>4, <1>6 DEF CountInv
<1>8. \A u \in Threads : Holding(u)' = Holding(u)
  BY <1>1, <1>2 DEF Holding, Threads
<1>9. \A u \in Threads : (pc[u] = "call")' = (pc[u] = "call")
  BY <1>1, <1>2 DEF Threads
<1>10. \A i : Held(i)' = Held(i)  BY <1>8 DEF Held
<1>11. ItemInv'  BY <1>8, <1>9, <1>10 DEF ItemInv, Items
<1>12. ExhaustedInv'  BY <1>1, <1>2, <1>4, <1>6 DEF ExhaustedInv
<1> QED  BY <1>3, <1>5, <1>7, <1>11, <1>12

LEMMA StutterInv ==
  ASSUME Inv, UNCHANGED vars
  PROVE  Inv'
BY DEF vars, Inv, TypeOK, PhaseInv, CountInv, ItemInv, ExhaustedInv, Idle,
       Reported, Holding, Held, WorkerPcs, CallerPcs

-----------------------------------------------------------------------------
(* Inv is an invariant of the pool. *)
THEOREM PoolInv == Spec => []Inv
<1>1. Inv /\ [Next]_vars => Inv'
  BY PublishInv, NotifyInv, AwaitInv, HaltInv, FetchInv, TestInv, CallInv,
     CheckStartInv, ReportInv, SpuriousInv, StutterInv
  DEF Next, CallerStep, Drain, WorkerStep
<1> QED  BY <1>1, InitInv, PTL DEF Spec

(* Type correctness, the counter's bound included. *)
THEOREM TypeCorrect == Spec => []TypeOK
<1>1. Inv => TypeOK  BY DEF Inv
<1> QED  BY <1>1, PoolInv, PTL

(* When run() has returned, fn was called exactly once on every item of    *)
(* the batch, whatever the number of workers and the size of the batch.    *)
THEOREM RunsEachItemOnce == Spec => []ExactlyOnce
<1>1. Inv => ExactlyOnce
  <2> SUFFICES ASSUME Inv, Idle, NEW i \in Items
               PROVE  calls[i] = IF i < count THEN 1 ELSE 0
    BY DEF ExactlyOnce
  <2>1. \A t \in Threads : ~ Holding(t)
    BY DEF Inv, PhaseInv, Idle, Holding, Threads, Draining
  <2>2. ~ Held(i)  BY <2>1 DEF Held
  <2>3. cursor >= count  BY DEF Inv, ExhaustedInv
  <2> QED  BY <2>2, <2>3 DEF Inv, ItemInv, TypeOK, Items
<1> QED  BY <1>1, PoolInv, PTL

(* No two threads ever tick the same room, and no item is called twice. *)
THEOREM NoItemTwice == Spec => []AtMostOnce
<1>1. Inv => AtMostOnce
  <2> SUFFICES ASSUME Inv PROVE AtMostOnce  OBVIOUS
  <2> USE DEF Inv, ItemInv
  <2>1. \A i \in Items : calls[i] <= 1  OBVIOUS
  <2>2. ASSUME NEW t \in Threads, pc[t] = "call"
        PROVE  item[t] < count /\ calls[item[t]] = 0
    <3>1. item[t] < count  BY <2>2
    <3>2. item[t] \in Items  BY <3>1, PoolAssumption DEF Items, TypeOK
    <3>3. Held(item[t])  BY <2>2 DEF Held, Holding
    <3> QED  BY <3>1, <3>2, <3>3
  <2>3. \A t, u \in Threads :
          pc[t] = "call" /\ pc[u] = "call" /\ item[t] = item[u] => t = u
    BY DEF Holding
  <2> QED  BY <2>1, <2>2, <2>3 DEF AtMostOnce
<1> QED  BY <1>1, PoolInv, PTL

(* A thread inside drain() always works for the batch that is published. *)
THEOREM DrainsCurrentBatch == Spec => []NoStraggler
<1>1. Inv => NoStraggler
  BY DEF Inv, PhaseInv, NoStraggler, Draining, Threads, Idle
<1> QED  BY <1>1, PoolInv, PTL

-----------------------------------------------------------------------------
(* The items of the current batch whose call is not over. *)
Todo == {i \in Items : i < count /\ calls[i] = 0}

(* A step of the pool is a step of the loop it stands for, or invisible. *)
LEMMA StepRefines ==
  ASSUME Inv, Inv', [Next]_vars
  PROVE  [PF!Next]_(PF!vars)
<1> USE PoolAssumption
<1>1. (Idle' = Idle /\ count' = count /\ calls' = calls) => UNCHANGED PF!vars
  BY DEF PF!vars
<1>2. ASSUME NEW n \in 1 .. MaxCount, Publish(n)  PROVE PF!Begin(n)
  <2>1. Idle /\ ~ Idle'
    BY <1>2 DEF Publish, Goto, Idle, Inv, TypeOK, Threads
  <2>2. \A i \in Items : calls'[i] = 0  BY <1>2 DEF Publish
  <2>3. Todo' = {i \in Items : i < n}  BY <1>2, <2>2 DEF Publish, Todo
  <2>4. {i \in Items : i < n} = 0 .. (n - 1)  BY DEF Items
  <2> QED  BY <2>1, <2>3, <2>4 DEF PF!Begin, Todo
<1>3. ASSUME AwaitDone  PROVE [PF!Next]_(PF!vars)
  <2>1. pc[Caller] = "await" /\ pc'[Caller] \in {"outside", "blocked"}
    BY <1>3 DEF AwaitDone, Goto, Inv, TypeOK, Threads
  <2>2. count' = count /\ calls' = calls  BY <1>3 DEF AwaitDone
  <2>3. CASE pc'[Caller] = "blocked"
    BY <2>1, <2>2, <2>3, <1>1 DEF Idle
  <2>4. CASE pc'[Caller] = "outside"
    <3>1. ~ Idle /\ Idle'  BY <2>1, <2>4 DEF Idle
    <3>2. \A t \in Threads : ~ Holding(t)'
      BY <2>4 DEF Inv, PhaseInv, Idle, Holding, Threads, Draining
    <3>3. \A i : ~ Held(i)'  BY <3>2 DEF Held
    <3>4. cursor' >= count'  BY <3>1 DEF Inv, ExhaustedInv
    <3>5. \A i \in Items : i < count' => calls'[i] = 1
      BY <3>3, <3>4 DEF Inv, ItemInv, TypeOK, Items
    <3>6. Todo = {} /\ Todo' = {}  BY <3>5, <2>2 DEF Todo
    <3> QED  BY <3>1, <3>6 DEF PF!Next, PF!Return, Todo
  <2> QED  BY <2>1, <2>3, <2>4
<1>4. ASSUME NEW t \in Threads, Call(t)  PROVE \E i \in Todo : PF!Item(i)
  <2>1. Idle' = Idle
    BY <1>4 DEF Call, Goto, Idle, Inv, TypeOK, Threads
  <2>2. pc[t] = "call" /\ item[t] < count /\ item[t] \in Items
    BY <1>4 DEF Call, Inv, ItemInv, TypeOK, Items
  <2>3. Held(item[t])  BY <2>2 DEF Held, Holding
  <2>4. calls[item[t]] = 0  BY <2>2, <2>3 DEF Inv, ItemInv
  <2>5. calls' = [calls EXCEPT ![item[t]] = @ + 1] /\ count' = count
    BY <1>4 DEF Call
  <2>6. \A i \in Items : calls'[i] = IF i = item[t] THEN 1 ELSE calls[i]
    BY <2>2, <2>4, <2>5 DEF Inv, TypeOK
  <2>7. Todo' = Todo \ {item[t]}  BY <2>5, <2>6 DEF Todo
  <2>8. item[t] \in Todo  BY <2>2, <2>4 DEF Todo
  <2>9. PF!Item(item[t])  BY <2>1, <2>7, <2>8 DEF PF!Item, Todo
  <2> QED  BY <2>8, <2>9 DEF PF!Item
<1>5. ASSUME NotifyStart \/ NotifyStop \/ Halt \/ Join  PROVE UNCHANGED PF!vars
  <2>1. Idle' = Idle
    BY <1>5 DEF NotifyStart, NotifyStop, Halt, Join, WakeWorkers, Goto, Idle,
                Inv, TypeOK, Threads
  <2> QED  BY <1>1, <1>5, <2>1 DEF NotifyStart, NotifyStop, Halt, Join
<1>6. ASSUME NEW t \in Threads, Fetch(t) \/ Test(t) \/ Spurious(t)
      PROVE  UNCHANGED PF!vars
  <2>1. Idle' = Idle
    BY <1>6 DEF Fetch, Test, Spurious, Goto, Idle, Inv, TypeOK, Threads
  <2> QED  BY <1>1, <1>6, <2>1 DEF Fetch, Test, Spurious
<1>7. ASSUME NEW w \in Workers, CheckStart(w) \/ Report(w)
      PROVE  UNCHANGED PF!vars
  <2>1. Idle' = Idle
    BY <1>7 DEF CheckStart, Report, Goto, Idle, Inv, TypeOK, Threads
  <2> QED  BY <1>1, <1>7, <2>1 DEF CheckStart, Report
<1>8. ASSUME UNCHANGED vars  PROVE UNCHANGED PF!vars
  BY <1>1, <1>8 DEF vars, Idle
<1> QED
  BY <1>2, <1>3, <1>4, <1>5, <1>6, <1>7, <1>8
  DEF Next, CallerStep, Drain, WorkerStep, PF!Next, Todo

(* The pool implements the parallel for loop of ParallelFor: safety part. *)
THEOREM PoolRefines == Spec => PF!Safety
<1>1. Init => PF!Init
  BY PoolAssumption DEF Init, PF!Init, Idle, Items, Threads
<1>2. Inv /\ Inv' /\ [Next]_vars => [PF!Next]_(PF!vars)  BY StepRefines
<1> QED  BY <1>1, <1>2, PoolInv, PTL DEF Spec, PF!Safety

-----------------------------------------------------------------------------
Jobs == [tick : Nat, hash : Seq(Nat)]
InHand == {"capture", "write", "report", "store"}

Shapes ==
  /\ main \in {"idle", "frame", "notify", "stop", "joining", "gone"}
  /\ worker \in {"wait", "step", "exited"} \cup InHand
  /\ netTick \in Nat /\ acked \in Nat /\ processed \in Nat
  /\ inbox \in Seq(Nat) /\ world \in Seq(Nat)
  /\ job \in Jobs /\ outbox \in Seq(Jobs) /\ sent \in Seq(Jobs)

Taken == IF worker = "step" THEN Len(world) + 1 ELSE Len(world)

InOrder ==
  /\ \A i \in 1 .. Len(inbox) : inbox[i] = Taken + i - 1
  /\ main \in {"idle", "frame", "notify"} => netTick = Taken + Len(inbox)
  /\ worker = "step" => job.tick = Len(world)
  /\ worker \in InHand => Len(world) > 0 /\ job.tick = Len(world) - 1
  /\ worker \in {"capture", "write"} => world[Len(world)] = job.tick

Behind(tick) == tick = 0 \/ tick < Len(world)

Answered ==
  /\ Behind(acked) /\ Behind(processed)
  /\ \A i \in 1 .. Len(outbox) : Behind(outbox[i].tick)

Buffered ==
  /\ buf \in [Buffers -> Nat \cup {Torn}]
  /\ published \in Buffers /\ writing \in Buffers /\ reading \in Buffers \cup {Unpinned}
  /\ \A b \in Buffers : buf[b] = Torn => worker = "write" /\ b = writing
  /\ worker = "write" => writing # published /\ writing # reading
  /\ buf[published] = Len(Whole)

Leaving == cancel => main \in {"stop", "joining", "gone"}

ThreadInv == Shapes /\ Leaving /\ InOrder /\ Answered /\ Buffered

LEMMA SimStarts == SimInit => ThreadInv
BY SimThreadAssumption
   DEF SimInit, ThreadInv, Shapes, InOrder, Answered, Buffered, InHand, Taken, Behind, Whole, Jobs,
       Buffers, Torn, Unpinned, Leaving

(* Steps of the main thread.                                               *)
LEMMA MainKeeps == ASSUME ThreadInv, Main \/ Deliver PROVE ThreadInv'
<1>1. UNCHANGED workVars \/ SendReports
  BY DEF Main, Deliver, BeginFrame, EndFrame, Push, NotifyWorker, Heartbeat, JoinWorker, Stop
<1>2. UNCHANGED <<worker, job, world, processed, buf, writing, published>>
  BY DEF Main, Deliver, BeginFrame, EndFrame, Push, NotifyWorker, SendReports, Heartbeat,
         JoinWorker, Stop, workVars, frameVars
<1>3. Shapes' /\ Answered'
  <2>1. CASE SendReports
    <3>1. /\ sent' = sent \o outbox /\ outbox' = <<>> /\ outbox # <<>>
          /\ acked' = Later(outbox[Len(outbox)].tick)
          /\ UNCHANGED <<main, netTick, inbox>>
      BY <2>1 DEF SendReports, queueVars
    <3>2. Len(outbox) \in 1 .. Len(outbox) /\ outbox[Len(outbox)] \in Jobs
      BY <3>1 DEF ThreadInv, Shapes
    <3>3. outbox[Len(outbox)].tick \in Nat
      BY <3>2 DEF Jobs
    <3>4. Behind(outbox[Len(outbox)].tick)
      BY <3>2 DEF ThreadInv, Answered
    <3> QED BY <1>2, <3>1, <3>3, <3>4 DEF ThreadInv, Shapes, Answered, Behind, Later
  <2>2. CASE Heartbeat
    BY <1>2, <2>2 DEF Heartbeat, ThreadInv, Shapes, Answered, Behind, Later, AckTick, queueVars, workVars
  <2>3. CASE Push
    BY <1>2, <2>3 DEF Push, ThreadInv, Shapes, Answered, Behind, workVars
  <2>4. CASE BeginFrame \/ EndFrame \/ NotifyWorker \/ JoinWorker \/ Deliver \/ \E drain \in BOOLEAN : Stop(drain)
    <3>1. UNCHANGED <<acked, outbox, sent, netTick>> /\ inbox' \in {inbox, <<>>}
          /\ main' \in {"idle", "frame", "notify", "stop", "joining", "gone"}
      BY <2>4 DEF BeginFrame, EndFrame, NotifyWorker, JoinWorker, Deliver, Stop, queueVars, workVars,
                  ThreadInv, Shapes
    <3>2. inbox' \in Seq(Nat)
      BY <3>1, <<>> \in Seq(Nat) DEF ThreadInv, Shapes
    <3>3. Shapes'
      BY <1>2, <3>1, <3>2 DEF ThreadInv, Shapes
    <3>4. Answered'
      BY <1>2, <3>1 DEF ThreadInv, Answered, Behind
    <3> QED BY <3>3, <3>4
  <2> QED BY <2>1, <2>2, <2>3, <2>4 DEF Main
<1>4. InOrder'
  <2>1. CASE Push
    <3>1. inbox' = Append(inbox, netTick) /\ netTick' = netTick + 1 /\ netTick = Taken + Len(inbox)
      BY <2>1 DEF Push, ThreadInv, InOrder
    <3>2. Taken' = Taken /\ Taken \in Nat
      BY <1>2 DEF Taken, ThreadInv, Shapes
    <3>3. Len(inbox') = Len(inbox) + 1 /\ \A i \in 1 .. Len(inbox') :
            inbox'[i] = IF i = Len(inbox) + 1 THEN netTick ELSE inbox[i]
      BY <3>1 DEF ThreadInv, Shapes
    <3> QED BY <1>2, <3>1, <3>2, <3>3 DEF ThreadInv, Shapes, InOrder
  <2>2. CASE ~Push
    <3>1. UNCHANGED netTick /\ (inbox' = inbox \/ (inbox' = <<>> /\ main' = "stop"))
      BY <2>2 DEF Main, Deliver, BeginFrame, EndFrame, NotifyWorker, SendReports, Heartbeat,
                  JoinWorker, Stop, queueVars
    <3>2. main' \in {"idle", "frame", "notify"} => main \in {"idle", "frame", "notify"}
      BY <2>2 DEF Main, Deliver, BeginFrame, EndFrame, NotifyWorker, SendReports, Heartbeat,
                  JoinWorker, Stop
    <3>3. Taken' = Taken
      BY <1>2 DEF Taken
    <3> QED BY <1>2, <3>1, <3>2, <3>3 DEF ThreadInv, Shapes, InOrder
  <2> QED BY <2>1, <2>2
<1>5. Buffered'
  <2>1. reading' \in {reading, published, Unpinned}
    BY DEF Main, Deliver, BeginFrame, EndFrame, Push, NotifyWorker, SendReports, Heartbeat,
           JoinWorker, Stop, frameVars
  <2>2. Whole' = Whole
    BY <1>2 DEF Whole
  <2> QED BY <1>2, <2>1, <2>2 DEF ThreadInv, Buffered, Buffers, Unpinned
<1>6. Leaving'
  BY DEF Main, Deliver, BeginFrame, EndFrame, Push, NotifyWorker, SendReports, Heartbeat,
         JoinWorker, Stop, queueVars, ThreadInv, Leaving
<1> QED BY <1>3, <1>4, <1>5, <1>6 DEF ThreadInv

(* Steps of the worker.                                                    *)
LEMMA WorkerLeaves == Worker /\ ThreadInv => Leaving'
BY DEF Worker, Sleep, Exit, Take, Simulate, Capture, PublishFrame, PostReport, Store, WorkerRest,
       mainVars, ThreadInv, Leaving

LEMMA SleepOrExitKeeps == ASSUME ThreadInv, Sleep \/ Exit PROVE ThreadInv'
<1>1. /\ UNCHANGED <<main, netTick, acked, processed, world, job, outbox, sent, frameVars, cancel>>
      /\ inbox' = inbox \/ (inbox' = <<>> /\ cancel)
      /\ worker' = worker \/ worker' = "exited"
      /\ worker = "wait"
  BY DEF Sleep, Exit, Leaves, WorkerRest, mainVars, workVars
<1>2. inbox' \in Seq(Nat)
  BY <1>1, <<>> \in Seq(Nat) DEF ThreadInv, Shapes
<1>3. Shapes' /\ Leaving' /\ Answered' /\ Buffered'
  BY <1>1, <1>2 DEF ThreadInv, Shapes, Leaving, Answered, Behind, Buffered, Whole, InHand, frameVars
<1>4. InOrder'
  <2>1. Taken' = Taken /\ Taken \in Nat /\ worker' \notin InHand \cup {"step"}
    BY <1>1 DEF ThreadInv, Shapes, Taken, InHand
  <2>2. CASE inbox' = inbox
    BY <1>1, <2>1, <2>2 DEF ThreadInv, InOrder, InHand
  <2>3. CASE inbox' = <<>> /\ cancel
    <3>1. Len(inbox') = 0 /\ main' \notin {"idle", "frame", "notify"}
      BY <1>1, <2>3 DEF ThreadInv, Leaving
    <3> QED BY <1>1, <2>1, <3>1 DEF InOrder, InHand
  <2> QED BY <1>1, <2>2, <2>3
<1> QED BY <1>3, <1>4 DEF ThreadInv

LEMMA TakeKeeps == ASSUME ThreadInv, Take PROVE ThreadInv'
<1>1. /\ UNCHANGED <<main, netTick, acked, processed, world, outbox, sent, frameVars>>
      /\ worker = "wait" /\ worker' = "step" /\ inbox # <<>>
      /\ inbox' = Tail(inbox) /\ job' = [tick |-> Head(inbox), hash |-> <<>>]
  BY DEF Take, WorkerRest, mainVars
<1>2. /\ Len(inbox) \in Nat \ {0} /\ inbox[1] = Len(world) /\ Head(inbox) = inbox[1]
      /\ inbox' \in Seq(Nat) /\ Len(inbox') = Len(inbox) - 1
      /\ \A i \in 1 .. Len(inbox') : inbox'[i] = inbox[i + 1]
  <2>1. inbox \in Seq(Nat) /\ inbox # <<>>
    BY <1>1 DEF ThreadInv, Shapes
  <2>2. Len(inbox) \in Nat \ {0}
    BY <2>1, EmptySeq
  <2>3. inbox[1] = Len(world) + 1 - 1 /\ Len(world) \in Nat
    BY <1>1, <2>2 DEF ThreadInv, Shapes, InOrder, Taken
  <2>4. inbox' \in Seq(Nat) /\ Len(inbox') = Len(inbox) - 1
    BY <1>1, <2>1, HeadTailProperties
  <2>5. \A i \in 1 .. Len(inbox') : inbox'[i] = inbox[i + 1]
    BY <1>1, <2>1, <2>2, <2>4
  <2>6. Head(inbox) = inbox[1]
    BY <2>1
  <2> QED BY <2>2, <2>3, <2>4, <2>5, <2>6
<1>3. job' \in Jobs /\ job'.tick = Len(world)
  BY <1>1, <1>2 DEF Jobs, ThreadInv, Shapes
<1>4. Taken' = Taken + 1 /\ Taken \in Nat
  BY <1>1 DEF Taken, ThreadInv, Shapes
<1>5. Shapes'
  BY <1>1, <1>2, <1>3 DEF ThreadInv, Shapes
<1>6. InOrder'
  <2>1. \A i \in 1 .. Len(inbox') : inbox'[i] = Taken' + i - 1
    BY <1>2, <1>4 DEF ThreadInv, InOrder
  <2>2. main' \in {"idle", "frame", "notify"} => netTick' = Taken' + Len(inbox')
    BY <1>1, <1>2, <1>4 DEF ThreadInv, InOrder
  <2>3. worker' = "step" => job'.tick = Len(world')
    BY <1>1, <1>3
  <2> QED BY <1>1, <2>1, <2>2, <2>3 DEF InOrder, InHand
<1>7. Answered' /\ Buffered'
  BY <1>1 DEF ThreadInv, Answered, Behind, Buffered, Whole, frameVars
<1>9. Leaving'
  BY WorkerLeaves DEF Worker
<1> QED BY <1>9, <1>5, <1>6, <1>7 DEF ThreadInv

LEMMA SimulateKeeps == ASSUME ThreadInv, Simulate PROVE ThreadInv' /\ Whole' = Whole
<1>1. /\ UNCHANGED <<main, netTick, acked, processed, outbox, sent, inbox, job, frameVars>>
      /\ worker = "step" /\ worker' = "capture" /\ world' = Append(world, job.tick)
  BY DEF Simulate, WorkerRest, mainVars
<1>2. /\ job.tick \in Nat /\ job.tick = Len(world)
      /\ world' \in Seq(Nat) /\ Len(world') = Len(world) + 1 /\ world'[Len(world')] = job.tick
      /\ Len(world) \in Nat
  BY <1>1 DEF ThreadInv, Shapes, InOrder, Jobs
<1>3. Whole' = Whole
  <2>1. SubSeq(world', 1, Len(world') - 1) = world
    BY <1>1, <1>2 DEF ThreadInv, Shapes
  <2> QED BY <1>1, <2>1 DEF Whole
<1>4. Taken' = Taken
  BY <1>1, <1>2 DEF Taken
<1>5. Shapes' /\ InOrder'
  BY <1>1, <1>2, <1>4 DEF ThreadInv, Shapes, InOrder, InHand
<1>6. Answered'
  <2>1. \A i \in 1 .. Len(outbox) : outbox[i].tick \in Nat
    <3>1. \A i \in 1 .. Len(outbox) : outbox[i] \in Jobs
      BY DEF ThreadInv, Shapes
    <3> QED BY <3>1 DEF Jobs
  <2>2. acked \in Nat /\ processed \in Nat
    BY DEF ThreadInv, Shapes
  <2>3. \A tick \in Nat : Behind(tick) => Behind(tick)'
    BY <1>2 DEF Behind
  <2>4. UNCHANGED <<acked, processed, outbox>>
    BY <1>1
  <2> QED BY <2>1, <2>2, <2>3, <2>4 DEF ThreadInv, Answered, Behind
<1>7. Buffered'
  BY <1>1, <1>3 DEF ThreadInv, Buffered, frameVars
<1>9. Leaving'
  BY WorkerLeaves DEF Worker
<1> QED BY <1>9, <1>3, <1>5, <1>6, <1>7 DEF ThreadInv

LEMMA CaptureKeeps == ASSUME ThreadInv, Capture PROVE ThreadInv'
<1>1. /\ UNCHANGED <<main, netTick, acked, processed, outbox, sent, inbox, job, world>>
      /\ worker = "capture" /\ worker' = "write" /\ UNCHANGED <<published, reading>>
  BY DEF Capture, WorkerRest, mainVars
<1>2. PICK w \in Buffers : Spare(w) /\ writing' = w /\ buf' = [buf EXCEPT ![w] = Torn]
  BY DEF Capture
<1>3. Whole' = Whole
  BY <1>1 DEF Whole
<1>4. Shapes' /\ InOrder' /\ Answered'
  BY <1>1 DEF ThreadInv, Shapes, InOrder, Answered, Behind, Taken, InHand
<1>5. Buffered'
  BY <1>1, <1>2, <1>3 DEF ThreadInv, Buffered, Spare, Buffers
<1>9. Leaving'
  BY WorkerLeaves DEF Worker
<1> QED BY <1>9, <1>4, <1>5 DEF ThreadInv

LEMMA PublishKeeps == ASSUME ThreadInv, PublishFrame PROVE ThreadInv'
<1>1. /\ UNCHANGED <<main, netTick, acked, processed, outbox, sent, inbox, world, writing, reading>>
      /\ worker = "write" /\ worker' \in {"report", "store"} /\ published' = writing
      /\ buf' = [buf EXCEPT ![writing] = Len(world)]
      /\ job' = [job EXCEPT !.hash = IF WantHash THEN world ELSE <<>>]
  BY DEF PublishFrame, WorkerRest, mainVars
<1>2. job' \in Jobs /\ job'.tick = job.tick
  <2> DEFINE h == IF WantHash THEN world ELSE <<>>
  <2>1. h \in Seq(Nat)
    BY <<>> \in Seq(Nat) DEF ThreadInv, Shapes
  <2> HIDE DEF h
  <2>2. job \in [tick : Nat, hash : Seq(Nat)] /\ job' = [job EXCEPT !.hash = h]
    BY <1>1 DEF ThreadInv, Shapes, Jobs, h
  <2> QED BY <2>1, <2>2 DEF Jobs
<1>3. Whole' = world
  BY <1>1 DEF Whole
<1>4. Shapes' /\ InOrder' /\ Answered'
  BY <1>1, <1>2 DEF ThreadInv, Shapes, InOrder, Answered, Behind, Taken, InHand
<1>5. Len(world) \in Nat
  BY DEF ThreadInv, Shapes
<1>6. Buffered'
  BY <1>1, <1>3, <1>5 DEF ThreadInv, Buffered, Buffers, Torn
<1>9. Leaving'
  BY WorkerLeaves DEF Worker
<1> QED BY <1>9, <1>4, <1>6 DEF ThreadInv

LEMMA PostKeeps == ASSUME ThreadInv, PostReport PROVE ThreadInv'
<1>1. /\ UNCHANGED <<main, netTick, acked, processed, sent, inbox, job, world, frameVars>>
      /\ worker = "report" /\ worker' = "store" /\ outbox' = Append(outbox, job)
  BY DEF PostReport, WorkerRest, mainVars
<1>2. outbox' \in Seq(Jobs) /\ Len(outbox') = Len(outbox) + 1
      /\ \A i \in 1 .. Len(outbox') : outbox'[i] = IF i = Len(outbox) + 1 THEN job ELSE outbox[i]
  BY <1>1 DEF ThreadInv, Shapes
<1>3. Behind(job.tick)
  BY <1>1 DEF ThreadInv, Shapes, InOrder, InHand, Behind, Jobs
<1>4. Shapes' /\ InOrder'
  BY <1>1, <1>2 DEF ThreadInv, Shapes, InOrder, Taken, InHand
<1>5. Answered'
  BY <1>1, <1>2, <1>3 DEF ThreadInv, Shapes, Answered, Behind
<1>6. Buffered'
  BY <1>1 DEF ThreadInv, Buffered, Whole, frameVars
<1>9. Leaving'
  BY WorkerLeaves DEF Worker
<1> QED BY <1>9, <1>4, <1>5, <1>6 DEF ThreadInv

LEMMA StoreKeeps == ASSUME ThreadInv, Store PROVE ThreadInv'
<1>1. /\ UNCHANGED <<main, netTick, acked, sent, outbox, inbox, job, world, frameVars>>
      /\ worker = "store" /\ worker' = "wait" /\ processed' = job.tick
  BY DEF Store, WorkerRest, mainVars
<1>2. job.tick \in Nat /\ job.tick < Len(world)
  BY <1>1 DEF ThreadInv, Shapes, InOrder, InHand, Jobs
<1>3. Shapes' /\ InOrder' /\ Answered' /\ Buffered'
  BY <1>1, <1>2 DEF ThreadInv, Shapes, InOrder, Answered, Behind, Taken, InHand, Buffered, Whole,
       frameVars
<1>4. Leaving'
  BY WorkerLeaves DEF Worker
<1> QED BY <1>3, <1>4 DEF ThreadInv

LEMMA StepKeeps == ThreadInv /\ [SimNext]_simVars => ThreadInv'
<1> SUFFICES ASSUME ThreadInv, [SimNext]_simVars PROVE ThreadInv'
  OBVIOUS
<1>1. CASE Main \/ Deliver
  BY <1>1, MainKeeps
<1>2. CASE Worker
  BY <1>2, SleepOrExitKeeps, TakeKeeps, SimulateKeeps, CaptureKeeps, PublishKeeps, PostKeeps,
     StoreKeeps DEF Worker
<1>3. CASE UNCHANGED simVars
  BY <1>3 DEF simVars, queueVars, mainVars, workVars, frameVars, ThreadInv, Shapes, InOrder,
     Answered, Behind, Buffered, Whole, Taken, Leaving
<1> QED BY <1>1, <1>2, <1>3 DEF SimNext

(* The invariant the theorems below are drawn from.                        *)
THEOREM ThreadHolds == SimSpec => []ThreadInv
BY SimStarts, StepKeeps, PTL DEF SimSpec

-----------------------------------------------------------------------------
(* A frame is drawn from one whole snapshot (FramesHold), however long the  *)
(* render takes.                                                            *)
THEOREM FramesAlwaysHold == SimSpec => []FramesHold
<1>1. ThreadInv => FramesHold
  BY DEF ThreadInv, Buffered, FramesHold, Unpinned
<1> QED BY <1>1, ThreadHolds, PTL

(* No tick is acknowledged that the world has not been through              *)
(* (AckIsProcessed).                                                        *)
THEOREM AcksAreProcessed == SimSpec => []AckIsProcessed
<1>1. ThreadInv => AckIsProcessed
  BY DEF ThreadInv, Shapes, Answered, Behind, AckIsProcessed
<1> QED BY <1>1, ThreadHolds, PTL

-----------------------------------------------------------------------------
(* The refinement.                                                          *)
Reports == sent \o outbox \o Unposted
Mapped == <<Whole, Reports>>

(* What the inline simulation sees of a step of the main thread: nothing.   *)
LEMMA MainIsInvisible == ASSUME ThreadInv, Main \/ Deliver PROVE UNCHANGED Mapped
<1>1. UNCHANGED <<worker, world, job>>
  BY DEF Main, Deliver, BeginFrame, EndFrame, Push, NotifyWorker, SendReports, Heartbeat,
         JoinWorker, Stop, workVars
<1>2. Whole' = Whole /\ Unposted' = Unposted
  BY <1>1 DEF Whole, Unposted
<1>3. (sent \o outbox)' = sent \o outbox
  <2>1. CASE SendReports
    <3>1. sent' = sent \o outbox /\ outbox' = <<>>
      BY <2>1 DEF SendReports
    <3>2. sent \o outbox \in Seq(Jobs)
      BY DEF ThreadInv, Shapes
    <3> QED BY <3>1, <3>2, ConcatEmptySeq
  <2>2. CASE ~SendReports
    BY <2>2 DEF Main, Deliver, BeginFrame, EndFrame, Push, NotifyWorker, Heartbeat, JoinWorker,
                Stop, workVars
  <2> QED BY <2>1, <2>2
<1> QED BY <1>2, <1>3 DEF Mapped, Reports

LEMMA PostIsInvisible == ASSUME ThreadInv, PostReport PROVE UNCHANGED Mapped
<1>1. /\ worker = "report" /\ worker' = "store" /\ UNCHANGED <<sent, world, job>>
      /\ outbox' = Append(outbox, job)
  BY DEF PostReport, WorkerRest, mainVars
<1>2. Whole' = Whole /\ Unposted = <<job>> /\ Unposted' = <<>>
  BY <1>1 DEF Whole, Unposted
<1>3. sent \in Seq(Jobs) /\ outbox \in Seq(Jobs) /\ job \in Jobs /\ <<job>> \in Seq(Jobs)
  BY DEF ThreadInv, Shapes
<1>4. outbox' = outbox \o <<job>> /\ outbox' \in Seq(Jobs)
  BY <1>1, <1>3, AppendIsConcat, AppendProperties
<1>5. sent \o outbox' = (sent \o outbox) \o <<job>>
  BY <1>3, <1>4, ConcatAssociative
<1>6. (sent \o outbox') \o <<>> = sent \o outbox'
  BY <1>3, <1>4, ConcatEmptySeq, ConcatProperties
<1> QED BY <1>1, <1>2, <1>5, <1>6 DEF Mapped, Reports

(* The step that publishes a tick is the tick of the inline simulation.     *)
LEMMA PublishIsTheTick == ASSUME ThreadInv, PublishFrame PROVE Inline!InlineTick
<1>1. /\ worker = "write" /\ worker' = IF WantHash THEN "report" ELSE "store"
      /\ UNCHANGED <<sent, outbox, world>>
      /\ job' = [job EXCEPT !.hash = IF WantHash THEN world ELSE <<>>]
  BY DEF PublishFrame, WorkerRest, mainVars
<1>2. /\ world \in Seq(Nat) /\ Len(world) \in Nat \ {0} /\ job.tick = Len(world) - 1
      /\ world[Len(world)] = job.tick /\ job.tick \in Nat /\ job \in Jobs
  BY <1>1 DEF ThreadInv, Shapes, InOrder, InHand, Jobs
<1>3. Whole = SubSeq(world, 1, Len(world) - 1) /\ Whole' = world
  BY <1>1 DEF Whole
<1>4. Whole \in Seq(Nat) /\ Len(Whole) = Len(world) - 1
      /\ \A i \in 1 .. Len(Whole) : Whole[i] = world[i]
  <2> DEFINE n == Len(world) - 1
  <2>1. n \in Nat /\ 1 \in Int /\ \A i \in 1 .. n : world[i] \in Nat
    BY <1>2
  <2>2. /\ SubSeq(world, 1, n) \in Seq(Nat) /\ Len(SubSeq(world, 1, n)) = IF 1 <= n THEN n - 1 + 1 ELSE 0
        /\ \A i \in 1 .. n - 1 + 1 : SubSeq(world, 1, n)[i] = world[1 + i - 1]
    BY <2>1, SubSeqProperties
  <2> HIDE DEF n
  <2>3. Len(SubSeq(world, 1, n)) = n
    BY <2>1, <2>2
  <2>4. \A i \in 1 .. n : SubSeq(world, 1, n)[i] = world[i]
    BY <2>1, <2>2
  <2>5. Whole = SubSeq(world, 1, n) /\ n = Len(world) - 1
    BY <1>3 DEF n
  <2> QED BY <2>2, <2>3, <2>4, <2>5
<1>5. world = Append(Whole, Len(Whole))
  <2> DEFINE t == Append(Whole, Len(Whole))
  <2>1. Whole \in Seq(Nat) /\ Len(Whole) \in Nat /\ Len(world) = Len(Whole) + 1
    BY <1>2, <1>4
  <2>2. /\ t \in Seq(Nat) /\ Len(t) = Len(Whole) + 1
        /\ \A i \in 1 .. Len(Whole) : t[i] = Whole[i]
        /\ t[Len(Whole) + 1] = Len(Whole)
    BY <2>1, AppendProperties
  <2> HIDE DEF t
  <2>3. world[Len(Whole) + 1] = Len(Whole) /\ \A i \in 1 .. Len(Whole) : world[i] = Whole[i]
    BY <1>2, <1>4, <2>1
  <2>4. \A i \in 1 .. Len(world) : world[i] = t[i]
    BY <2>1, <2>2, <2>3
  <2>5. world \in Seq(Nat) /\ Len(world) = Len(t)
    BY <1>2, <2>1, <2>2
  <2>6. world = t
    BY <2>2, <2>4, <2>5, SeqEqual
  <2> QED BY <2>6 DEF t
<1>6. Unposted = <<>> /\ Unposted' = Inline!Report(Len(Whole), world)
  <2>1. Unposted = <<>>
    BY <1>1 DEF Unposted
  <2>2. WantHash <=> Len(Whole) % HashPeriod = 0
    BY <1>2, <1>4 DEF WantHash
  <2>3. WantHash => job' = [tick |-> Len(Whole), hash |-> world]
    BY <1>1, <1>2, <1>4 DEF Jobs
  <2> QED BY <1>1, <2>1, <2>2, <2>3 DEF Unposted, Inline!Report
<1>7. (sent \o outbox) \o <<>> = sent \o outbox
  <2>1. sent \o outbox \in Seq(Jobs)
    BY DEF ThreadInv, Shapes
  <2> QED BY <2>1, ConcatEmptySeq
<1> QED BY <1>1, <1>3, <1>5, <1>6, <1>7 DEF Inline!InlineTick

LEMMA OtherIsInvisible ==
  ASSUME ThreadInv, Sleep \/ Exit \/ Take \/ Simulate \/ Capture \/ Store
  PROVE  UNCHANGED Mapped
<1>1. Whole' = Whole
  <2>1. CASE Simulate
    BY <2>1, SimulateKeeps
  <2>2. CASE ~Simulate
    BY <2>2 DEF Sleep, Exit, Leaves, Take, Capture, Store, WorkerRest, workVars, Whole
  <2> QED BY <2>1, <2>2
<1>2. UNCHANGED <<sent, outbox>> /\ Unposted = <<>> /\ Unposted' = <<>>
  BY DEF Sleep, Exit, Leaves, Take, Simulate, Capture, Store, WorkerRest, mainVars, workVars, Unposted
<1> QED BY <1>1, <1>2 DEF Mapped, Reports

LEMMA StepImplements ==
  ThreadInv /\ [SimNext]_simVars => Inline!InlineTick \/ UNCHANGED Mapped
<1> SUFFICES ASSUME ThreadInv, [SimNext]_simVars PROVE Inline!InlineTick \/ UNCHANGED Mapped
  OBVIOUS
<1>1. CASE Main \/ Deliver
  BY <1>1, MainIsInvisible
<1>2. CASE Worker
  BY <1>2, OtherIsInvisible, PublishIsTheTick, PostIsInvisible DEF Worker
<1>3. CASE UNCHANGED simVars
  BY <1>3 DEF simVars, queueVars, mainVars, workVars, Mapped, Reports, Whole, Unposted
<1> QED BY <1>1, <1>2, <1>3 DEF SimNext

LEMMA StartImplements == SimInit => Inline!InlineInit
BY ConcatEmptySeq, EmptySeq DEF SimInit, Inline!InlineInit, Whole, Unposted

(* The threaded simulation does what the inline one does                    *)
(* (ImplementsInline): the bundles are applied in tick order, each once,    *)
(* and the server is sent the hash of the world right after each reported   *)
(* tick, in order, each once.                                               *)
THEOREM ThreadIsInline == SimSpec => ImplementsInline
<1>1. Inline!InlineTick \/ UNCHANGED Mapped => [Inline!InlineTick]_<<Whole, sent \o outbox \o Unposted>>
  BY DEF Mapped, Reports
<1> QED BY <1>1, StartImplements, StepImplements, ThreadHolds, PTL
        DEF SimSpec, ImplementsInline, Inline!InlineSpec

-----------------------------------------------------------------------------
Sharing == {"claim", "test", "work", "leave"}
OwnerPlaces == Sharing \cup {"outside", "wake", "await", "blocked", "dismiss", "join", "gone"}
HelperPlaces == Sharing \cup {"check", "asleep", "exited"}

LoopTypes ==
  /\ at \in [All -> OwnerPlaces \cup HelperPlaces]
  /\ at[Owner] \in OwnerPlaces /\ \A h \in Helpers : at[h] \in HelperPlaces
  /\ seenLoop \in [Helpers -> Nat]
  /\ from \in [All -> Nat] /\ upto \in [All -> Nat]
  /\ {loop, body, size, next, active} \subseteq Nat /\ size <= MaxItems
  /\ ended \in BOOLEAN
  /\ visited \in [ItemIds -> Nat]

(* Who is still to be counted out of the loop: in it, or late for it. *)
Late == {t \in All : \/ at[t] \in Sharing \cup {"wake"}
                     \/ t \in Helpers /\ seenLoop[t] # loop}

(* The counter the owner waits on counts them. *)
Counted == active = Cardinality(Late)

(* Between two loops, and once the pool is being dismissed, it is empty. *)
Phased ==
  /\ \A h \in Helpers : at[h] \in Sharing => seenLoop[h] = loop
  /\ IF InLoop THEN body = loop ELSE Late = {}
  /\ ended <=> at[Owner] \in {"dismiss", "join", "gone"}
  /\ \A h \in Helpers : at[h] = "exited" => ended

(* The items a thread has claimed and not yet done. *)
Has(t, i) ==
  /\ i < size /\ from[t] <= i
  /\ \/ at[t] = "test" /\ i < from[t] + Chunk
     \/ at[t] = "work" /\ i < upto[t]

(* Each item below the counter is with one thread, or done. *)
Chunked ==
  /\ \A t \in All : at[t] = "test" => from[t] + Chunk <= next
  /\ \A t \in All : at[t] = "work" => from[t] <= upto[t] /\ upto[t] <= size /\ upto[t] <= next
  /\ \A t, u \in All, i \in ItemIds : Has(t, i) /\ Has(u, i) => t = u
  /\ \A i \in ItemIds :
       visited[i] = IF i < next /\ ~\E t \in All : Has(t, i) THEN IF i < size THEN 1 ELSE 0 ELSE 0

(* Whoever has left the loop found nothing more to claim. *)
Exhausted == \A t \in All : t \notin Late \/ at[t] = "leave" => size <= next

LoopInv == LoopTypes /\ Counted /\ Phased /\ Chunked /\ Exhausted

-----------------------------------------------------------------------------
LEMMA LateIsFinite ==
  /\ IsFiniteSet(All) /\ IsFiniteSet(Late) /\ Cardinality(Late) \in Nat
  /\ Cardinality(Late) = 0 <=> Late = {}
<1>1. IsFiniteSet(All)
  BY ClientPoolAssumption, FS_AddElement DEF All
<1>2. Late \subseteq All
  BY DEF Late
<1> QED
  BY <1>1, <1>2, FS_Subset, FS_CardinalityType, FS_EmptySet

(* Only the threads in a loop hold items of it. *)
LEMMA HoldersAreLate == \A t \in All, i \in ItemIds : Has(t, i) => t \in Late
BY DEF Has, Late, Sharing

LEMMA LoopsStart == ClientPoolInit => LoopInv
<1> SUFFICES ASSUME ClientPoolInit PROVE LoopInv
  OBVIOUS
<1> USE ClientPoolAssumption DEF ClientPoolInit
<1>1. LoopTypes
  <2>1. at \in [All -> {"outside", "check"}] /\ at[Owner] = "outside"
    BY DEF All
  <2>2. \A h \in Helpers : at[h] = "check"
    BY DEF All
  <2>3. MaxItems \in Nat
    OBVIOUS
  <2>4. at \in [All -> OwnerPlaces \cup HelperPlaces]
    BY <2>1 DEF OwnerPlaces, HelperPlaces
  <2>5. {loop, body, size, next, active} \subseteq Nat /\ size <= MaxItems
    BY <2>3
  <2>6. ended \in BOOLEAN
    OBVIOUS
  <2> QED
    BY <2>1, <2>2, <2>4, <2>5, <2>6 DEF LoopTypes, OwnerPlaces, HelperPlaces
<1>2. Late = {}
  BY DEF Late, Sharing, All
<1>3. Counted
  BY <1>2, FS_EmptySet DEF Counted
<1>4. Phased
  BY <1>2 DEF Phased, Sharing, InLoop, All
<1>5. Chunked
  BY DEF Chunked, Has, All, ItemIds
<1>6. Exhausted
  BY DEF Exhausted, All
<1> QED
  BY <1>1, <1>3, <1>4, <1>5, <1>6 DEF LoopInv

(* A thread that moves between two waits, and no other, changes nothing     *)
(* that is counted.                                                        *)
LEMMA WaitersMove ==
  ASSUME LoopInv, LoopTypes', Phased',
         UNCHANGED <<seenLoop, from, upto, loop, size, next, active, visited>>,
         \A t \in All : at'[t] # at[t] =>
           /\ at'[t] \notin {"test", "work", "leave"} /\ at[t] \notin {"test", "work", "leave"}
           /\ at'[t] \in Sharing \cup {"wake"} => t \in Late
           /\ at[t] \in Sharing \cup {"wake"} => at'[t] \in Sharing \cup {"wake"}
  PROVE  LoopInv'
<1> USE DEF LoopInv
<1>1. Late' = Late
  BY DEF Late
<1>2. Counted'
  BY <1>1 DEF Counted
<1>3. \A t \in All, i \in ItemIds : Has(t, i)' <=> Has(t, i)
  BY DEF Has
<1>4. Chunked'
  BY <1>3 DEF Chunked
<1>5. Exhausted'
  BY <1>1 DEF Exhausted
<1> QED
  BY <1>2, <1>4, <1>5

LEMMA DispatchKeeps == ASSUME LoopInv, NEW n \in 1..MaxItems, Dispatch(n) PROVE LoopInv'
<1> USE ClientPoolAssumption DEF LoopInv, Dispatch, Go, LoopTypes
<1>1. \A t \in All : t \notin Late /\ ~ InLoop
  BY DEF Phased, InLoop
<1>2. /\ \A h \in Helpers : h \in All /\ h # Owner /\ at'[h] = at[h] /\ at[h] \notin Sharing
      /\ at'[Owner] = "wake" /\ \A h \in Helpers : seenLoop[h] = loop
  BY <1>1 DEF All, Late
<1>3. LoopTypes'
  <2>1. at' \in [All -> OwnerPlaces \cup HelperPlaces] /\ at'[Owner] \in OwnerPlaces
    BY DEF OwnerPlaces, All
  <2>2. visited' \in [ItemIds -> Nat] /\ size' \in Nat /\ size' <= MaxItems
    OBVIOUS
  <2>3. Participants \in Nat
    BY LateIsFinite, FS_CardinalityType DEF Participants
  <2> QED
    BY <1>2, <2>1, <2>2, <2>3
<1>4. Late' = All
  BY <1>2 DEF Late, All
<1>5. Counted'
  BY <1>4 DEF Counted, Participants
<1>6. Phased'
  BY <1>2 DEF Phased, InLoop
<1>7. \A t \in All : at'[t] \notin {"test", "work", "leave"}
  BY <1>2 DEF All, Sharing
<1>8. Chunked'
  BY <1>7 DEF Chunked, Has, ItemIds
<1>9. Exhausted'
  BY <1>4, <1>7 DEF Exhausted
<1> QED
  BY <1>3, <1>5, <1>6, <1>8, <1>9

LEMMA WakeKeeps == ASSUME LoopInv, Wake PROVE LoopInv'
<1> USE DEF Wake, Woken
<1>1. LoopTypes'
  BY ClientPoolAssumption DEF LoopInv, LoopTypes, OwnerPlaces, HelperPlaces, Sharing, All
<1>2. Phased'
  BY ClientPoolAssumption DEF LoopInv, Phased, InLoop, Late, LoopTypes, Sharing, All
<1>3. Owner \in Late
  BY DEF Late, All
<1> QED
  BY <1>1, <1>2, <1>3, WaitersMove DEF Sharing

LEMMA AwaitKeeps == ASSUME LoopInv, Await PROVE LoopInv'
<1> USE DEF Await, Go
<1>1. LoopTypes'
  <2>1. at' = [at EXCEPT ![Owner] = at'[Owner]] /\ at'[Owner] \in OwnerPlaces /\ body' \in Nat
    BY DEF LoopInv, LoopTypes, OwnerPlaces, All
  <2> QED
    BY <2>1, ClientPoolAssumption DEF LoopInv, LoopTypes, All
<1>2. Phased'
  <2>1. \A t \in All : t # Owner => at'[t] = at[t]
    BY DEF LoopInv, LoopTypes
  <2>2. Late' = Late
    BY <2>1 DEF Late, Sharing, LoopInv, LoopTypes, All
  <2>3. IF active = 0 THEN at'[Owner] = "outside" /\ Late = {}
        ELSE at'[Owner] = "blocked" /\ body' = body
    BY LateIsFinite DEF LoopInv, LoopTypes, Counted, All
  <2> QED
    BY <2>1, <2>2, <2>3, ClientPoolAssumption DEF LoopInv, Phased, InLoop, All
<1> QED
  BY <1>1, <1>2, WaitersMove DEF Sharing, LoopInv, LoopTypes

LEMMA QuitKeeps == ASSUME LoopInv, Quit \/ Dismiss \/ JoinAll PROVE LoopInv'
<1> USE DEF Quit, Dismiss, JoinAll, Go, Woken
<1>1. LoopTypes'
  BY ClientPoolAssumption DEF LoopInv, LoopTypes, OwnerPlaces, HelperPlaces, All
<1>2. Phased'
  <2>1. Late' = Late
    BY ClientPoolAssumption DEF Late, Sharing, LoopInv, LoopTypes, All
  <2>2. at'[Owner] \in {"dismiss", "join", "gone"} /\ ended' /\ ~InLoop /\ ~InLoop'
    BY ClientPoolAssumption DEF LoopInv, LoopTypes, Phased, InLoop, All
  <2> QED
    BY <2>1, <2>2, ClientPoolAssumption DEF LoopInv, LoopTypes, Phased, Sharing, All
<1> QED
  BY <1>1, <1>2, ClientPoolAssumption, WaitersMove DEF Sharing, LoopInv, LoopTypes, All

LEMMA StirsKeep == ASSUME LoopInv, NEW t \in All, Stirs(t) PROVE LoopInv'
<1> USE DEF Stirs, Go
<1>1. \/ t = Owner /\ at[t] = "blocked" /\ at'[t] = "await"
      \/ t \in Helpers /\ t # Owner /\ at[t] = "asleep" /\ at'[t] = "check"
  BY ClientPoolAssumption DEF LoopInv, LoopTypes, OwnerPlaces, HelperPlaces, Sharing, All
<1>2. LoopTypes'
  BY <1>1, ClientPoolAssumption DEF LoopInv, LoopTypes, OwnerPlaces, HelperPlaces, All
<1>3. Phased'
  <2>1. Late' = Late
    BY <1>1 DEF Late, Sharing, LoopInv, LoopTypes
  <2> QED
    BY <1>1, <2>1, ClientPoolAssumption DEF LoopInv, LoopTypes, Phased, InLoop, Sharing, All
<1> QED
  BY <1>1, <1>2, <1>3, WaitersMove DEF Sharing, LoopInv, LoopTypes

LEMMA CheckKeeps == ASSUME LoopInv, NEW h \in Helpers, Check(h) PROVE LoopInv'
<1> USE ClientPoolAssumption DEF Check, Go
<1>1. /\ h # Owner /\ h \in All /\ at[h] = "check"
      /\ \A t \in All : t # h => at'[t] = at[t]
      /\ \A g \in Helpers : g \in All /\ (g # h => seenLoop'[g] = seenLoop[g])
  BY DEF All, LoopInv, LoopTypes
<1>2. CASE ended /\ at' = [at EXCEPT ![h] = "exited"] /\ UNCHANGED seenLoop
  <2>1. LoopTypes'
    BY <1>1, <1>2 DEF LoopInv, LoopTypes, HelperPlaces
  <2>2. Late' = Late
    BY <1>1, <1>2 DEF Late, Sharing, LoopInv, LoopTypes
  <2>3. Phased'
    BY <1>1, <1>2, <2>2 DEF LoopInv, LoopTypes, Phased, InLoop, Sharing, All
  <2> QED
    BY <1>1, <1>2, <2>1, <2>3, WaitersMove DEF Sharing, LoopInv, LoopTypes
<1>3. CASE ~ended /\ loop = seenLoop[h] /\ at' = [at EXCEPT ![h] = "asleep"] /\ UNCHANGED seenLoop
  <2>1. LoopTypes'
    BY <1>1, <1>3 DEF LoopInv, LoopTypes, HelperPlaces
  <2>2. Late' = Late
    BY <1>1, <1>3 DEF Late, Sharing, LoopInv, LoopTypes
  <2>3. Phased'
    BY <1>1, <1>3, <2>2 DEF LoopInv, LoopTypes, Phased, InLoop, Sharing, All
  <2> QED
    BY <1>1, <1>3, <2>1, <2>3, WaitersMove DEF Sharing, LoopInv, LoopTypes
<1>4. CASE /\ ~ended /\ loop # seenLoop[h] /\ at' = [at EXCEPT ![h] = "claim"]
           /\ seenLoop' = [seenLoop EXCEPT ![h] = loop]
  <2>1. LoopTypes'
    BY <1>1, <1>4 DEF LoopInv, LoopTypes, HelperPlaces, Sharing
  <2>2. h \in Late /\ at'[h] = "claim" /\ seenLoop'[h] = loop
    BY <1>1, <1>4 DEF Late, LoopInv, LoopTypes
  <2>3. Late' = Late
    BY <1>1, <1>4, <2>2 DEF Late, Sharing
  <2>4. Phased'
    BY <1>1, <1>4, <2>2, <2>3 DEF LoopInv, Phased, InLoop, All
  <2>5. \A t \in All, i \in ItemIds : Has(t, i)' <=> Has(t, i)
    BY <1>1, <2>2 DEF Has
  <2>6. Chunked'
    BY <1>1, <2>2, <2>5 DEF LoopInv, Chunked
  <2> QED
    BY <1>1, <2>1, <2>2, <2>3, <2>4, <2>6 DEF LoopInv, Counted, Exhausted
<1> QED
  BY <1>2, <1>3, <1>4

(* Whoever takes a chunk takes what nobody had. *)
LEMMA ClaimKeeps == ASSUME LoopInv, NEW t \in All, Claim(t) PROVE LoopInv'
<1> USE ClientPoolAssumption DEF Claim, Go
<1>1. /\ at[t] = "claim" /\ at'[t] = "test" /\ from'[t] = next /\ next' = next + Chunk
      /\ next \in Nat /\ Chunk \in Nat /\ upto'[t] = upto[t]
      /\ \A u \in All : u # t => at'[u] = at[u] /\ from'[u] = from[u] /\ upto'[u] = upto[u]
  BY DEF LoopInv, LoopTypes
<1>2. LoopTypes'
  <2>1. at' \in [All -> OwnerPlaces \cup HelperPlaces]
    BY DEF LoopInv, LoopTypes, OwnerPlaces, Sharing
  <2>2. at'[Owner] \in OwnerPlaces /\ \A h \in Helpers : at'[h] \in HelperPlaces
    BY <1>1 DEF LoopInv, LoopTypes, OwnerPlaces, HelperPlaces, Sharing, All
  <2> QED
    BY <1>1, <2>1, <2>2 DEF LoopInv, LoopTypes
<1>3. Late' = Late /\ t \in Late
  BY <1>1 DEF Late, Sharing
<1>4. Phased'
  BY <1>1, <1>3 DEF LoopInv, Phased, InLoop, Sharing, All
<1>5. \A u \in All, i \in ItemIds : u # t => (Has(u, i)' <=> Has(u, i)) /\ (Has(u, i) => i < next)
  <2> SUFFICES ASSUME NEW u \in All, NEW i \in ItemIds, u # t
               PROVE  (Has(u, i)' <=> Has(u, i)) /\ (Has(u, i) => i < next)
    OBVIOUS
  <2>1. Has(u, i)' <=> Has(u, i)
    BY <1>1 DEF Has
  <2>2. Has(u, i) => i < next
    BY <1>1 DEF Has, LoopInv, LoopTypes, Chunked, ItemIds
  <2> QED
    BY <2>1, <2>2
<1>6. \A i \in ItemIds : /\ ~ Has(t, i)
                         /\ Has(t, i)' <=> i < size /\ next <= i /\ i < next + Chunk
  BY <1>1 DEF Has
<1>7. Chunked'
  <2>1. \A u \in All : at'[u] = "test" => from'[u] + Chunk <= next'
    BY <1>1 DEF LoopInv, LoopTypes, Chunked
  <2>2. \A u \in All : at'[u] = "work" => from'[u] <= upto'[u] /\ upto'[u] <= size' /\ upto'[u] <= next'
    BY <1>1 DEF LoopInv, LoopTypes, Chunked
  <2>3. \A u, v \in All, i \in ItemIds : Has(u, i)' /\ Has(v, i)' => u = v
    BY <1>1, <1>5, <1>6 DEF LoopInv, Chunked, ItemIds
  <2>4. ASSUME NEW i \in ItemIds
        PROVE  visited'[i] = IF i < next' /\ ~\E u \in All : Has(u, i)'
                             THEN IF i < size' THEN 1 ELSE 0 ELSE 0
    <3>1. CASE i < next
      BY <1>1, <1>5, <1>6, <3>1 DEF LoopInv, Chunked, ItemIds
    <3>2. CASE ~ i < next
      BY <1>1, <1>6, <3>2 DEF LoopInv, Chunked, ItemIds
    <3> QED
      BY <3>1, <3>2
  <2> QED
    BY <2>1, <2>2, <2>3, <2>4 DEF Chunked
<1>8. Exhausted'
  BY <1>1, <1>3 DEF LoopInv, LoopTypes, Exhausted
<1>9. Counted'
  BY <1>3 DEF LoopInv, Counted
<1> QED
  BY <1>2, <1>4, <1>7, <1>8, <1>9 DEF LoopInv

(* The end of a chunk is its size, or that of the loop. *)
LEMMA BoundKeeps == ASSUME LoopInv, NEW t \in All, Bound(t) PROVE LoopInv'
<1> USE ClientPoolAssumption DEF Bound, Go
<1>1. /\ at[t] = "test" /\ from[t] \in Nat /\ Chunk \in Nat /\ size \in Nat /\ next \in Nat
      /\ from[t] + Chunk <= next /\ upto'[t] = EndOf(from[t]) /\ EndOf(from[t]) \in Nat
      /\ at'[t] = IF from[t] >= size THEN "leave" ELSE "work"
      /\ \A u \in All : u # t => at'[u] = at[u] /\ upto'[u] = upto[u]
  BY DEF LoopInv, LoopTypes, Chunked, EndOf
<1>2. LoopTypes'
  <2>1. at' \in [All -> OwnerPlaces \cup HelperPlaces]
    BY DEF LoopInv, LoopTypes, OwnerPlaces, Sharing
  <2>2. at'[Owner] \in OwnerPlaces /\ \A h \in Helpers : at'[h] \in HelperPlaces
    BY <1>1 DEF LoopInv, LoopTypes, OwnerPlaces, HelperPlaces, Sharing, All
  <2> QED
    BY <1>1, <2>1, <2>2 DEF LoopInv, LoopTypes
<1>3. Late' = Late /\ t \in Late
  BY <1>1 DEF Late, Sharing
<1>4. Phased'
  BY <1>1, <1>3 DEF LoopInv, Phased, InLoop, Sharing, All
<1>5. \A u \in All, i \in ItemIds : Has(u, i)' <=> Has(u, i)
  <2> SUFFICES ASSUME NEW u \in All, NEW i \in ItemIds PROVE Has(u, i)' <=> Has(u, i)
    OBVIOUS
  <2>1. CASE u # t
    BY <1>1, <2>1 DEF Has
  <2>2. CASE u = t
    BY <1>1, <2>2 DEF Has, EndOf, ItemIds
  <2> QED
    BY <2>1, <2>2
<1>6. Chunked'
  <2>1. \A u \in All : at'[u] = "test" => from'[u] + Chunk <= next'
    BY <1>1 DEF LoopInv, Chunked
  <2>2. at'[t] = "work" => from'[t] <= upto'[t] /\ upto'[t] <= size' /\ upto'[t] <= next'
    BY <1>1 DEF EndOf
  <2>3. \A u \in All : at'[u] = "work" => from'[u] <= upto'[u] /\ upto'[u] <= size' /\ upto'[u] <= next'
    BY <1>1, <2>2 DEF LoopInv, Chunked
  <2>4. \A u, v \in All, i \in ItemIds : Has(u, i)' /\ Has(v, i)' => u = v
    BY <1>5 DEF LoopInv, Chunked
  <2>5. \A i \in ItemIds : visited'[i] = IF i < next' /\ ~\E u \in All : Has(u, i)'
                                        THEN IF i < size' THEN 1 ELSE 0 ELSE 0
    BY <1>5 DEF LoopInv, Chunked
  <2> QED
    BY <2>1, <2>3, <2>4, <2>5 DEF Chunked
<1>7. Exhausted'
  BY <1>1, <1>3 DEF LoopInv, Exhausted
<1>8. Counted'
  BY <1>3 DEF LoopInv, Counted
<1> QED
  BY <1>2, <1>4, <1>6, <1>7, <1>8 DEF LoopInv

(* One item is done by the one that has it. *)
LEMMA WorkKeeps == ASSUME LoopInv, NEW t \in All, Work(t) PROVE LoopInv'
<1> USE ClientPoolAssumption DEF Work, Go
<1>1. /\ at[t] = "work" /\ from[t] \in Nat /\ upto[t] \in Nat /\ from[t] <= upto[t]
      /\ size \in Nat /\ MaxItems \in Nat /\ next \in Nat
      /\ upto[t] <= size /\ size <= MaxItems /\ upto[t] <= next
      /\ \A u \in All : u # t => at'[u] = at[u] /\ from'[u] = from[u]
  BY DEF LoopInv, LoopTypes, Chunked
<1>2. Late' = Late /\ t \in Late
  BY <1>1 DEF Late, Sharing, LoopInv, LoopTypes
<1>3. Counted'
  BY <1>2 DEF LoopInv, Counted
<1>4. CASE from[t] = upto[t] /\ at' = [at EXCEPT ![t] = "claim"] /\ UNCHANGED <<from, visited>>
  <2>1. at'[t] = "claim"
    BY <1>4 DEF LoopInv, LoopTypes
  <2>2. LoopTypes'
    <3>1. at' \in [All -> OwnerPlaces \cup HelperPlaces]
      BY <1>4 DEF LoopInv, LoopTypes, OwnerPlaces, Sharing
    <3>2. at'[Owner] \in OwnerPlaces /\ \A h \in Helpers : at'[h] \in HelperPlaces
      BY <1>1, <2>1 DEF LoopInv, LoopTypes, OwnerPlaces, HelperPlaces, Sharing, All
    <3> QED
      BY <1>4, <3>1, <3>2 DEF LoopInv, LoopTypes
  <2>3. Phased'
    BY <1>1, <1>2, <2>1 DEF LoopInv, Phased, InLoop, Sharing, All
  <2>4. \A u \in All, i \in ItemIds : Has(u, i)' <=> Has(u, i)
    BY <1>1, <1>4, <2>1 DEF Has, ItemIds
  <2>5. Chunked'
    BY <1>1, <1>4, <2>1, <2>4 DEF LoopInv, Chunked
  <2>6. Exhausted'
    BY <1>1, <1>2, <2>1 DEF LoopInv, Exhausted
  <2> QED
    BY <1>3, <2>2, <2>3, <2>5, <2>6 DEF LoopInv
<1>5. CASE /\ from[t] # upto[t] /\ UNCHANGED at
           /\ visited' = [visited EXCEPT ![from[t]] = @ + 1]
           /\ from' = [from EXCEPT ![t] = @ + 1]
  <2>1. from[t] \in ItemIds /\ from[t] < upto[t] /\ from[t] < size /\ from[t] < next
    BY <1>1, <1>5 DEF ItemIds
  <2>2. from'[t] = from[t] + 1 /\ visited'[from[t]] = visited[from[t]] + 1
    BY <1>5, <2>1 DEF LoopInv, LoopTypes
  <2>3. LoopTypes'
    BY <1>1, <1>5, <2>1 DEF LoopInv, LoopTypes
  <2>4. Phased'
    BY <1>2, <1>5 DEF LoopInv, Phased, InLoop
  <2>5. \A u \in All, i \in ItemIds : u # t => (Has(u, i)' <=> Has(u, i))
    BY <1>1, <1>5 DEF Has
  <2>6. \A i \in ItemIds : Has(t, i)' <=> Has(t, i) /\ i # from[t]
    BY <1>1, <1>5, <2>1, <2>2 DEF Has, ItemIds
  <2>7. Has(t, from[t])
    BY <1>1, <2>1 DEF Has
  <2>8. \A u \in All : Has(u, from[t]) => u = t
    BY <2>1, <2>7 DEF LoopInv, Chunked
  <2>9. Chunked'
    <3>1. \A u \in All : at'[u] = "test" => from'[u] + Chunk <= next'
      BY <1>1, <1>5 DEF LoopInv, Chunked
    <3>2. \A u \in All : at'[u] = "work" =>
             from'[u] <= upto'[u] /\ upto'[u] <= size' /\ upto'[u] <= next'
      BY <1>1, <1>5, <2>1, <2>2 DEF LoopInv, Chunked
    <3>3. \A u, v \in All, i \in ItemIds : Has(u, i)' /\ Has(v, i)' => u = v
      BY <2>5, <2>6 DEF LoopInv, Chunked
    <3>4. ASSUME NEW i \in ItemIds
          PROVE  visited'[i] = IF i < next' /\ ~\E u \in All : Has(u, i)'
                               THEN IF i < size' THEN 1 ELSE 0 ELSE 0
      <4>1. CASE i = from[t]
        BY <2>1, <2>2, <2>5, <2>6, <2>7, <2>8, <4>1 DEF LoopInv, Chunked
      <4>2. CASE i # from[t]
        <5>1. visited'[i] = visited[i]
          BY <1>5, <4>2 DEF LoopInv, LoopTypes
        <5> QED
          BY <2>5, <2>6, <4>2, <5>1 DEF LoopInv, Chunked
      <4> QED
        BY <4>1, <4>2
    <3> QED
      BY <3>1, <3>2, <3>3, <3>4 DEF Chunked
  <2>10. Exhausted'
    BY <1>2, <1>5 DEF LoopInv, Exhausted
  <2> QED
    BY <1>3, <2>3, <2>4, <2>9, <2>10 DEF LoopInv
<1> QED
  BY <1>4, <1>5

(* The counter falls with the one that leaves. *)
LEMMA LeaveKeeps == ASSUME LoopInv, NEW t \in All, Leave(t) PROVE LoopInv'
<1> USE ClientPoolAssumption DEF Leave
<1>1. /\ at[t] = "leave" /\ at'[t] = (IF t = Owner THEN "await" ELSE "check")
      /\ \A u \in All : u # t => at'[u] = at[u]
                              \/ (u = Owner /\ at[u] = "blocked" /\ at'[u] = "await")
  OBVIOUS
<1>2. t \in Late /\ Late' = Late \ {t}
  <2>1. t \in Late /\ (t \in Helpers => seenLoop[t] = loop)
    BY <1>1 DEF Late, Sharing, LoopInv, Phased
  <2>2. t \notin Late'
    BY <1>1, <2>1 DEF Late, Sharing
  <2>3. \A u \in All : u # t => (u \in Late' <=> u \in Late)
    BY <1>1 DEF Late, Sharing
  <2> QED
    BY <2>1, <2>2, <2>3 DEF Late
<1>3. Counted' /\ active' \in Nat
  <2>1. Cardinality(Late') = Cardinality(Late) - 1
    BY <1>2, LateIsFinite, FS_RemoveElement
  <2>2. Cardinality(Late) \in Nat /\ Cardinality(Late) # 0
    BY <1>2, LateIsFinite
  <2> QED
    BY <2>1, <2>2 DEF LoopInv, Counted
<1>4. LoopTypes'
  <2>1. at'[Owner] \in OwnerPlaces /\ \A h \in Helpers : at'[h] \in HelperPlaces
    BY <1>1 DEF LoopInv, LoopTypes, OwnerPlaces, HelperPlaces, Sharing, All
  <2>2. at' \in [All -> OwnerPlaces \cup HelperPlaces]
    BY <2>1 DEF All
  <2> QED
    BY <1>3, <2>1, <2>2 DEF LoopInv, LoopTypes
<1>5. Phased'
  <2>1. InLoop' /\ InLoop
    BY <1>1, <1>2 DEF InLoop, LoopInv, Phased, All
  <2>2. \A h \in Helpers : at'[h] \in Sharing \cup {"exited"} => at[h] = at'[h]
    BY <1>1 DEF Sharing, All
  <2> QED
    BY <1>1, <2>1, <2>2 DEF LoopInv, Phased, InLoop, All
<1>6. \A u \in All, i \in ItemIds : Has(u, i)' <=> Has(u, i)
  BY <1>1 DEF Has
<1>7. \A u \in All : at'[u] \in {"test", "work"} => at[u] = at'[u]
  BY <1>1
<1>8. Chunked'
  BY <1>6, <1>7 DEF LoopInv, Chunked
<1>9. Exhausted'
  BY <1>1, <1>2 DEF LoopInv, Exhausted
<1> QED
  BY <1>3, <1>4, <1>5, <1>8, <1>9 DEF LoopInv

LEMMA LoopStepKeeps == LoopInv /\ [ClientPoolNext]_poolVars => LoopInv'
<1> SUFFICES ASSUME LoopInv, [ClientPoolNext]_poolVars PROVE LoopInv'
  OBVIOUS
<1>1. CASE UNCHANGED poolVars
  BY <1>1 DEF poolVars, LoopInv, LoopTypes, Counted, Late, Phased, InLoop, Chunked, Has, Exhausted
<1>2. \A t \in All : Runs(t) => LoopInv'
  BY ClaimKeeps, BoundKeeps, WorkKeeps, LeaveKeeps DEF Runs
<1>3. OwnerStep => LoopInv'
  BY <1>2, WakeKeeps, AwaitKeeps, QuitKeeps DEF OwnerStep, All
<1>4. \A h \in Helpers : HelperStep(h) => LoopInv'
  BY <1>2, CheckKeeps DEF HelperStep, All
<1> QED
  BY <1>1, <1>3, <1>4, DispatchKeeps, QuitKeeps, StirsKeep DEF ClientPoolNext

THEOREM LoopsHold == ClientPoolSpec => []LoopInv
BY LoopsStart, LoopStepKeeps, PTL DEF ClientPoolSpec

(* Every visit of parallelFor is of the loop that runs and of no other: a   *)
(* thread that comes late by a loop finds nothing of it to do.             *)
THEOREM NobodyIsLate ==
  ClientPoolSpec => [](\A t \in All : at[t] \in {"claim", "test", "work"} => InLoop /\ body = loop)
<1>1. LoopInv => \A t \in All : at[t] \in {"claim", "test", "work"} => InLoop /\ body = loop
  BY DEF LoopInv, Phased, Late, Sharing
<1> QED
  BY <1>1, LoopsHold, PTL

(* No item is visited twice, however the chunks are shared out. *)
THEOREM NoItemIsVisitedTwice == ClientPoolSpec => [](\A i \in ItemIds : visited[i] <= 1)
<1>1. LoopInv => \A i \in ItemIds : visited[i] <= 1
  BY DEF LoopInv, Chunked
<1> QED
  BY <1>1, LoopsHold, PTL

-----------------------------------------------------------------------------
(* The loop, seen by its caller: what is left of it.                        *)
LeftToDo == {i \in ItemIds : i < size /\ visited[i] = 0}
Seen == <<InLoop, LeftToDo>>

LEMMA LoopStartImplements == ClientPoolInit => Loop!Init
BY ClientPoolAssumption DEF ClientPoolInit, Loop!Init, InLoop, All, ItemIds

(* A thread that moves is not seen, unless the owner enters or leaves. *)
LEMMA MovesAreUnseen ==
  ASSUME UNCHANGED <<size, visited>>, InLoop' <=> InLoop
  PROVE  UNCHANGED Seen
BY DEF Seen, LeftToDo, InLoop

LEMMA DispatchBegins ==
  ASSUME LoopInv, NEW n \in 1..MaxItems, Dispatch(n) PROVE Loop!Begin(n)
<1> USE ClientPoolAssumption
<1>1. InLoop = FALSE /\ InLoop' = TRUE
  BY DEF Dispatch, Go, InLoop, LoopInv, LoopTypes, All
<1>2. LeftToDo' = 0..(n - 1)
  BY DEF Dispatch, LeftToDo, ItemIds
<1> QED
  BY <1>1, <1>2 DEF Loop!Begin, LeftToDo

(* The owner goes on when nobody has an item any more. *)
LEMMA AwaitReturns == ASSUME LoopInv, Await, active = 0 PROVE Loop!Return
<1>1. InLoop = TRUE /\ InLoop' = FALSE
  BY DEF Await, Go, InLoop, LoopInv, LoopTypes, All
<1>2. Late = {}
  BY LateIsFinite DEF LoopInv, Counted
<1>3. LeftToDo = {}
  <2> SUFFICES ASSUME NEW i \in ItemIds, i < size PROVE visited[i] # 0
    BY DEF LeftToDo
  <2>1. ~\E t \in All : Has(t, i)
    BY <1>2, HoldersAreLate
  <2>2. size <= next /\ size \in Nat /\ next \in Nat /\ i \in Int
    BY <1>2 DEF LoopInv, LoopTypes, Exhausted, All, ItemIds
  <2> QED
    BY <2>1, <2>2 DEF LoopInv, Chunked
<1>4. LeftToDo' = LeftToDo
  BY DEF Await, LeftToDo
<1> QED
  BY <1>1, <1>3, <1>4 DEF Loop!Return, LeftToDo

LEMMA RunsImplement ==
  ASSUME LoopInv, NEW t \in All, Runs(t) PROVE UNCHANGED Seen \/ \E i \in LeftToDo : Loop!Item(i)
<1> USE ClientPoolAssumption
<1>1. InLoop' <=> InLoop
  <2>1. CASE Leave(t)
    BY <2>1 DEF Leave, InLoop, All
  <2>2. CASE Claim(t) \/ Bound(t) \/ Work(t)
    BY <2>2 DEF Claim, Bound, Work, Go, InLoop, LoopInv, LoopTypes, All
  <2> QED
    BY <2>1, <2>2 DEF Runs
<1>2. CASE Work(t) /\ from[t] # upto[t]
  <2>1. from[t] \in ItemIds /\ Has(t, from[t]) /\ from[t] < size
    BY <1>2 DEF Work, Has, LoopInv, LoopTypes, Chunked, ItemIds
  <2>2. visited[from[t]] = 0
    BY <2>1 DEF LoopInv, Chunked
  <2>3. \A i \in ItemIds : visited'[i] = IF i = from[t] THEN 1 ELSE visited[i]
    BY <1>2, <2>1, <2>2 DEF Work, LoopInv, LoopTypes
  <2>4. LeftToDo' = LeftToDo \ {from[t]} /\ from[t] \in LeftToDo
    BY <1>2, <2>1, <2>2, <2>3 DEF LeftToDo, Work
  <2> QED
    BY <1>1, <2>4 DEF Loop!Item, LeftToDo, InLoop
<1>3. CASE ~ (Work(t) /\ from[t] # upto[t])
  <2>1. UNCHANGED <<size, visited>>
    BY <1>3 DEF Runs, Claim, Bound, Work, Leave
  <2> QED
    BY <1>1, <2>1, MovesAreUnseen
<1> QED
  BY <1>2, <1>3

LEMMA LoopStepImplements ==
  ASSUME LoopInv, [ClientPoolNext]_poolVars PROVE [Loop!Next]_Seen
<1> USE ClientPoolAssumption
<1>1. CASE UNCHANGED poolVars
  BY <1>1, MovesAreUnseen DEF poolVars, InLoop
<1>2. \A n \in 1..MaxItems : Dispatch(n) => Loop!Next
  BY DispatchBegins DEF Loop!Next
<1>3. \A t \in All : Runs(t) => [Loop!Next]_Seen
  BY RunsImplement DEF Loop!Next, LeftToDo
<1>4. Await => [Loop!Next]_Seen
  <2>1. active = 0 \/ (Await => UNCHANGED Seen)
    BY MovesAreUnseen DEF Await, Go, InLoop, LoopInv, LoopTypes, All
  <2> QED
    BY <2>1, AwaitReturns DEF Loop!Next
<1>5. Wake \/ Quit \/ Dismiss \/ JoinAll => UNCHANGED Seen
  BY MovesAreUnseen DEF Wake, Quit, Dismiss, JoinAll, Go, Woken, InLoop, LoopInv, LoopTypes, All
<1>6. \A h \in Helpers : Check(h) => UNCHANGED Seen
  BY MovesAreUnseen DEF Check, Go, InLoop, LoopInv, LoopTypes, All
<1>7. \A t \in All : Stirs(t) => UNCHANGED Seen
  BY MovesAreUnseen DEF Stirs, Go, InLoop, LoopInv, LoopTypes, All, HelperPlaces, Sharing
<1>8. Owner \in All /\ Helpers \subseteq All
  BY DEF All
<1> QED
  BY <1>1, <1>2, <1>3, <1>4, <1>5, <1>6, <1>7, <1>8 DEF ClientPoolNext, OwnerStep, HelperStep

(* What a caller of parallelFor relies on is what WorkerPool's callers do:  *)
(* each item is visited, and the call returns when all visits are over.     *)
THEOREM LoopRefines == ClientPoolSpec => Loop!Safety
<1>1. LoopInv /\ [ClientPoolNext]_poolVars => [Loop!Next]_Seen
  BY LoopStepImplements
<1>2. [Loop!Next]_Seen <=> [Loop!Next]_(Loop!vars)
  BY DEF Seen, LeftToDo, Loop!vars
<1> QED
  BY <1>1, <1>2, LoopStartImplements, LoopsHold, PTL DEF ClientPoolSpec, Loop!Safety
=============================================================================
