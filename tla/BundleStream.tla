---------------------------- MODULE BundleStream ----------------------------
(***************************************************************************)
(* What lockstep needs of the server, whatever its buffers and cursors:    *)
(* ticks are published in order, and each subscriber -- present from the   *)
(* start, back after a drop, or come to watch -- is sent tick 0, tick 1,   *)
(* ... without a gap, a repetition or an inversion, and in the end all of  *)
(* them.  TickServer implements this.                                      *)
(***************************************************************************)
EXTENDS Naturals, Sequences

CONSTANTS Conns,                      \* connections
          MaxTick                     \* bound on the length of the game

VARIABLES published,                  \* number of ticks closed so far
          member,                     \* connections attached to the game
          stream,                     \* per connection, the ticks sent to it
          over                        \* the game has been torn down

vars == <<published, member, stream, over>>

(* The first n ticks of the game, in order. *)
Ticks(n) == [i \in 1 .. n |-> i - 1]

Init ==
  /\ published = 0
  /\ member \in SUBSET Conns
  /\ stream = [c \in Conns |-> << >>]
  /\ over = FALSE

(* A tick is closed; any subscriber that has all the others may get it now. *)
Publish ==
  /\ ~ over
  /\ published < MaxTick
  /\ published' = published + 1
  /\ \E now \in SUBSET {c \in member : Len(stream[c]) = published} :
       stream' = [c \in Conns |->
                    IF c \in now THEN Append(stream[c], published) ELSE stream[c]]
  /\ UNCHANGED <<member, over>>

(* Part of the past is sent to a subscriber that is behind. *)
CatchUp(c) ==
  /\ c \in member
  /\ \E n \in (Len(stream[c]) + 1) .. published :
       stream' = [stream EXCEPT ![c] = Ticks(n)]
  /\ UNCHANGED <<published, member, over>>

(* A subscriber starts from tick 0. *)
Attach(c) ==
  /\ ~ over
  /\ c \notin member
  /\ member' = member \cup {c}
  /\ stream' = [stream EXCEPT ![c] = << >>]
  /\ UNCHANGED <<published, over>>

(* A subscriber goes, and the record of what it was sent may go with it. *)
Detach(c) ==
  /\ c \in member
  /\ member' = member \ {c}
  /\ stream' \in {stream, [stream EXCEPT ![c] = << >>]}
  /\ UNCHANGED <<published, over>>

Finish ==
  /\ ~ over
  /\ over' = TRUE
  /\ member' = {}
  /\ UNCHANGED <<published, stream>>

Next ==
  \/ Publish
  \/ \E c \in Conns : CatchUp(c) \/ Attach(c) \/ Detach(c)
  \/ Finish

Safety == Init /\ [][Next]_vars

(* A subscriber that stays is sent everything published. *)
Delivered ==
  \A c \in Conns : \A n \in 1 .. MaxTick :
    (c \in member /\ published >= n) ~> (c \notin member \/ Len(stream[c]) >= n)

Spec == Safety /\ \A c \in Conns : WF_vars(CatchUp(c))
=============================================================================
