----------------------------- MODULE MCThreads -----------------------------
(* What every copy of a running game is made of besides its orders.  Three  *)
(* pieces of code have threads of their own: the server's worker pool, two  *)
(* workers and the calling thread; the client's pool, likewise; and the     *)
(* client's simulation thread.  The referee compares the copies: here two   *)
(* players, of which player 1 has a second connection to come back on.  And *)
(* the interpreter runs the scripts, with two threads, one axis that is     *)
(* moved and one that is turned.  They share no state: a run is of one of   *)
(* them.                                                                    *)
EXTENDS WorkerPool, SimThread, ClientPool, HashReferee, CobVm, TLC

CONSTANTS p1, p2, c1, c2, c3

SeatDef == (c1 :> p1) @@ (c2 :> p2) @@ (c3 :> p1)

FirstDef == (p1 :> c1) @@ (p2 :> c2)

VARIABLE part

threadVars == <<part, vars, simVars, poolVars, refereeVars, vmVars>>

ThreadsInit ==
  /\ part \in {"pool", "client", "loops", "referee", "scripts"}
  /\ Init /\ SimInit /\ ClientPoolInit /\ RefereeInit /\ VmInit

ThreadsNext ==
  \/ part = "pool" /\ Next /\ UNCHANGED <<part, simVars, poolVars, refereeVars, vmVars>>
  \/ part = "client" /\ SimNext /\ UNCHANGED <<part, vars, poolVars, refereeVars, vmVars>>
  \/ part = "loops" /\ ClientPoolNext /\ UNCHANGED <<part, vars, simVars, refereeVars, vmVars>>
  \/ part = "referee" /\ RefereeNext /\ UNCHANGED <<part, vars, simVars, poolVars, vmVars>>
  \/ part = "scripts" /\ VmNext /\ UNCHANGED <<part, vars, simVars, poolVars, refereeVars>>

(* The fairness of each module, asked of a run of its part.                 *)
ThreadsSpec ==
  /\ ThreadsInit /\ [][ThreadsNext]_threadVars
  /\ WF_vars(part = "pool" /\ CallerStep)
  /\ \A t \in Threads : WF_vars(part = "pool" /\ Drain(t))
  /\ \A w \in Workers : WF_vars(part = "pool" /\ WorkerStep(w))
  /\ WF_simVars(part = "client" /\ Worker)
  /\ WF_simVars(part = "client" /\ NotifyWorker)
  /\ WF_simVars(part = "client" /\ JoinWorker)
  /\ WF_poolVars(part = "loops" /\ OwnerStep)
  /\ \A h \in Helpers : WF_poolVars(part = "loops" /\ HelperStep(h))
  /\ WF_refereeVars(part = "referee" /\ CloseTick)
  /\ \A c \in Conns : WF_refereeVars(part = "referee" /\ StateHash(c))
  /\ WF_vmVars(part = "scripts" /\ VmStep)
============================================================================
