---------------------------- MODULE ParallelFor ----------------------------
(***************************************************************************)
(* What a caller of the server's WorkerPool relies on, with no threads in  *)
(* it: run(n, fn) calls fn once on each of 0..n-1, in any order, and       *)
(* returns only when every call has finished.  WorkerPool implements this. *)
(***************************************************************************)
EXTENDS Naturals

CONSTANT MaxCount                     \* largest batch a caller hands over

VARIABLES running,                    \* a call of run() is in progress
          todo                        \* items of it whose call is not over

vars == <<running, todo>>

Init == running = FALSE /\ todo = {}

Begin(n) ==
  /\ ~ running
  /\ running' = TRUE
  /\ todo' = 0 .. (n - 1)

Item(i) ==
  /\ i \in todo
  /\ todo' = todo \ {i}
  /\ UNCHANGED running

Return ==
  /\ running
  /\ todo = {}
  /\ running' = FALSE
  /\ UNCHANGED todo

Next ==
  \/ \E n \in 1 .. MaxCount : Begin(n)
  \/ \E i \in todo : Item(i)
  \/ Return

Safety == Init /\ [][Next]_vars

Spec == Safety /\ WF_vars((\E i \in todo : Item(i)) \/ Return)
=============================================================================
