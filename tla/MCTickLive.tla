----------------------------- MODULE MCTickLive -----------------------------
(* The ticks of a game of two players, one of whom has a second connection  *)
(* to come back on; and the framed connection that carries such a stream.   *)
(* The two share no variable: a run is of one of them.                      *)
EXTENDS MCTickServer, FramedConn

VARIABLE part

liveVars == <<part, vars, framedVars>>

LiveInit == part \in {"game", "frames"} /\ Init /\ FramedInit

LiveNext ==
  \/ part = "game" /\ Next /\ UNCHANGED <<part, framedVars>>
  \/ part = "frames" /\ FramedNext /\ UNCHANGED <<part, vars>>

(* The fairness of each module, asked of a run of its part.                 *)
LiveSpec ==
  /\ LiveInit /\ [][LiveNext]_liveVars
  /\ WF_vars(part = "game" /\ CloseTick) /\ WF_vars(part = "game" /\ Teardown)
  /\ \A s \in Slots : WF_vars(part = "game" /\ Sweep(s))
  /\ \A c \in Conns :
       /\ WF_vars(part = "game" /\ Feed(c))
       /\ WF_vars(part = "game" /\ ReadStart(c))
       /\ WF_vars(part = "game" /\ Consume(c))
       /\ WF_vars(part = "game" /\ Loaded(c))
       /\ WF_vars(part = "game" /\ \E t \in 0 .. MaxTick : StateHash(c, t))
  /\ WF_framedVars(part = "frames" /\ SomeFlush)
  /\ WF_framedVars(part = "frames" /\ ServicePass)
=============================================================================
