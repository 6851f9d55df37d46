----------------------------- MODULE FrameLink ------------------------------
(* What a framed connection promises in one direction: frames come out      *)
(* whole, in the order they were sent and none twice; everything that left  *)
(* the sender before it hung up comes out.                                  *)
EXTENDS Naturals, Sequences

VARIABLES sent,   \* frames given to send
          left,   \* how many of them have left the sender whole
          got,    \* frames that came out
          up      \* the sender has not hung up

linkVars == <<sent, left, got, up>>

LinkInit == sent = <<>> /\ left = 0 /\ got = <<>> /\ up = TRUE

Give == up /\ sent' = Append(sent, Len(sent) + 1) /\ UNCHANGED <<left, got, up>>
Leave == /\ up /\ left < Len(sent)
         /\ left' \in (left + 1)..Len(sent)
         /\ UNCHANGED <<sent, got, up>>
Emerge == /\ Len(got) < left
          /\ got' = Append(got, sent[Len(got) + 1])
          /\ UNCHANGED <<sent, left, up>>
HangUpLink == up /\ up' = FALSE /\ UNCHANGED <<sent, left, got>>

LinkNext == Give \/ Leave \/ Emerge \/ HangUpLink

LinkSpec == LinkInit /\ [][LinkNext]_linkVars /\ WF_linkVars(Leave) /\ WF_linkVars(Emerge)
=============================================================================
