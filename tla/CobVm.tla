------------------------------- MODULE CobVm --------------------------------
(***************************************************************************)
(* The interpreter of the animation scripts (cob/vm.cpp).  A tick moves    *)
(* what is in motion, unless it knows that nothing is, then gives every    *)
(* thread a slice; a thread runs until it waits for a motion, sleeps,      *)
(* returns or has used up its slice.  A signal ends the other threads that *)
(* have one of its bits in their mask; a thread that is started during a   *)
(* tick is kept aside until its end.                                       *)
(*                                                                         *)
(* The scripts are data and may be anything: a thread's next instruction   *)
(* is chosen freely.  Arithmetic, calls, jumps, sounds and effects change  *)
(* nothing that is kept here, nor do the queries of Vm::call, which only   *)
(* compute.  A motion has one unit of speed, or is done at once; what      *)
(* spins has no more than one.                                             *)
(***************************************************************************)
EXTENDS Integers, Sequences, Functions

CONSTANTS Slides,       \* axes that are moved
          Turns,        \* axes that are turned and spun
          Rail,         \* how far an axis can be moved
          Circle,       \* 65536 units
          SliceOps,     \* bound: instructions of a slice (5000)
          MaxThreads    \* bound: threads at one time

ASSUME CobAssumption ==
  /\ Slides \cap Turns = {} /\ {Rail, Circle} \subseteq Nat \ {0}
  /\ SliceOps \in Nat \ {0} /\ MaxThreads \in Nat

VARIABLES pose,         \* PieceState::move, rot
          to,           \* moveTarget, rotTarget while moving, turning; else Rest
          spin,         \* spin, spinTarget, spinAccel
          anyMotion,    \* anyMotion_
          order,        \* threads_, as the ids of the threads
          pending,      \* pending_
          thread,       \* thread[i]: what it is at, and its signalMask
          running,      \* index in threads_, 0 between ticks
          spent         \* instructions of this slice

vmVars == <<pose, to, spin, anyMotion, order, pending, thread, running, spent>>

Axes == Slides \cup Turns
Spots(a) == IF a \in Slides THEN 0..Rail ELSE 0..(Circle - 1)
Rest == -1
Ids == 1..MaxThreads
Masks == {0, 1}

Ready == [is |-> "ready", axis |-> Rest]
AsleepAt == [is |-> "asleep", axis |-> Rest]
WaitsFor(a) == [is |-> "waits", axis |-> a]
Dead == [is |-> "dead", axis |-> Rest]

VmInit ==
  /\ pose = [a \in Axes |-> 0] /\ to = [a \in Axes |-> Rest]
  /\ spin = [a \in Axes |-> [now |-> 0, goal |-> 0, ramp |-> 0]]
  /\ anyMotion = FALSE
  /\ order = <<>> /\ pending = <<>>
  /\ thread = [i \in Ids |-> [doing |-> Dead, mask |-> 0]]
  /\ running = 0 /\ spent = 0

----------------------------------------------------------------------------
(* The sweep over the pieces.                                              *)

Towards(x, g) == IF x < g THEN x + 1 ELSE IF x > g THEN x - 1 ELSE x

(* The shorter way round.                                                  *)
AngTowards(x, g) ==
  IF x = g THEN x
  ELSE IF (g - x) % Circle <= Circle \div 2 THEN (x + 1) % Circle ELSE (x - 1) % Circle

Stepped(a) ==
  IF to[a] = Rest THEN pose[a]
  ELSE IF a \in Slides THEN Towards(pose[a], to[a]) ELSE AngTowards(pose[a], to[a])

Ramping(s) == s.ramp > 0 /\ s.now # s.goal
Spun(s) == IF Ramping(s) THEN [s EXCEPT !.now = Towards(s.now, s.goal)] ELSE s

(* Mutant of StillBusy: an axis that turns is not looked at.               *)
StillBusy_NotTurns(a) == (a \in Slides /\ to'[a] # Rest) \/ spin'[a].now # 0 \/ Ramping(spin'[a])
StillBusy(a) == to'[a] # Rest \/ spin'[a].now # 0 \/ Ramping(spin'[a])

Sweep ==
  IF ~anyMotion THEN UNCHANGED <<pose, to, spin, anyMotion>>
  ELSE /\ to' = [a \in Axes |-> IF Stepped(a) = to[a] THEN Rest ELSE to[a]]
       /\ spin' = [a \in Axes |-> Spun(spin[a])]
       /\ pose' = [a \in Axes |-> IF a \in Slides THEN Stepped(a)
                                ELSE (Stepped(a) + spin'[a].now) % Circle]
       /\ anyMotion' = \E a \in Axes : StillBusy(a)

----------------------------------------------------------------------------
(* The instructions.                                                       *)

Me == order[running]
Does(i, d) == thread' = [thread EXCEPT ![i].doing = d]
SameThreads == UNCHANGED <<order, pending, thread>>
SameAxes == UNCHANGED <<pose, to, spin, anyMotion>>

(* MOVE, TURN and their _NOW forms.                                        *)
Target(a, g, now) ==
  /\ IF now THEN /\ pose' = [pose EXCEPT ![a] = g] /\ to' = [to EXCEPT ![a] = Rest]
                 /\ UNCHANGED anyMotion
     ELSE to' = [to EXCEPT ![a] = g] /\ anyMotion' = TRUE /\ UNCHANGED pose
  /\ UNCHANGED spin /\ SameThreads

(* SPIN, and STOP_SPIN with g = 0.                                         *)
Spin(a, g, ramp) ==
  /\ spin' = [spin EXCEPT ![a] = [now |-> IF ramp = 0 THEN g ELSE @.now, goal |-> g, ramp |-> ramp]]
  /\ anyMotion' = TRUE
  /\ UNCHANGED <<pose, to>> /\ SameThreads

Unused(i) == i \notin Range(order) \cup Range(pending)

(* START_SCRIPT: the new thread has its parent's mask.                     *)
StartScript(i) ==
  /\ Unused(i)
  /\ thread' = [thread EXCEPT ![i] = [doing |-> Ready, mask |-> thread[Me].mask]]
  /\ pending' = Append(pending, i)
  /\ UNCHANGED order /\ SameAxes

(* SIGNAL: threads that were started during this tick are not reached.     *)
Signal ==
  /\ thread' = [i \in Ids |-> IF i \in Range(order) \ {Me} /\ thread[i].mask = 1
                              THEN [thread[i] EXCEPT !.doing = Dead] ELSE thread[i]]
  /\ UNCHANGED <<order, pending>> /\ SameAxes

SetMask(m) ==
  /\ thread' = [thread EXCEPT ![Me].mask = m]
  /\ UNCHANGED <<order, pending>> /\ SameAxes

Instruction ==
  \/ \E a \in Axes : \E g \in Spots(a), now \in BOOLEAN : Target(a, g, now)
  \/ \E a \in Turns, g \in {0, 1}, ramp \in {0, 1} : Spin(a, g, ramp)
  \/ \E i \in Ids : StartScript(i)
  \/ Signal
  \/ \E m \in Masks : SetMask(m)

(* SLEEP, WAIT_TURN and WAIT_MOVE, RETURN.                                 *)
Yield ==
  \/ Does(Me, AsleepAt)
  \/ \E a \in Axes : Does(Me, WaitsFor(a))
  \/ Does(Me, Dead)

----------------------------------------------------------------------------
(* tick.                                                                   *)

VmTick ==
  /\ running = 0
  /\ Sweep
  /\ running' = 1 /\ spent' = 0
  /\ UNCHANGED <<order, pending, thread>>

(* A thread that may run: a sleep may be over or not.                      *)
Busy(t) == t.doing.is = "waits" /\ to[t.doing.axis] # Rest
Held(t) == t.doing.is = "dead" \/ Busy(t)

Passed == running' = running + 1 /\ spent' = 0

Skip ==
  /\ running \in DOMAIN order
  /\ Held(thread[Me]) \/ thread[Me].doing.is = "asleep"
  /\ Passed /\ SameAxes /\ SameThreads

Resume ==
  /\ running \in DOMAIN order /\ spent = 0
  /\ ~Held(thread[Me]) /\ thread[Me].doing # Ready
  /\ Does(Me, Ready)
  /\ UNCHANGED <<order, pending, running, spent>> /\ SameAxes

Step ==
  /\ running \in DOMAIN order /\ thread[Me].doing = Ready
  /\ \/ spent < SliceOps /\ spent' = spent + 1 /\ Instruction /\ UNCHANGED running
     \/ spent < SliceOps /\ Yield /\ Passed /\ UNCHANGED <<order, pending>> /\ SameAxes
     \/ spent = SliceOps /\ Passed /\ SameAxes /\ SameThreads

(* Threads that were kept aside join, the dead leave.                      *)
EndOfTick ==
  /\ running > Len(order)
  /\ order' = SelectSeq(order \o pending, LAMBDA i : thread[i].doing # Dead)
  /\ pending' = <<>> /\ running' = 0 /\ spent' = 0
  /\ UNCHANGED thread /\ SameAxes

(* Between ticks the host starts a script or ends all.                     *)
Start(i) ==
  /\ running = 0 /\ Unused(i)
  /\ thread' = [thread EXCEPT ![i] = [doing |-> Ready, mask |-> 0]]
  /\ order' = Append(order, i)
  /\ UNCHANGED <<pending, running, spent>> /\ SameAxes

Reset ==
  /\ running = 0 /\ order # <<>>
  /\ order' = <<>>
  /\ thread' = [i \in Ids |-> [thread[i] EXCEPT !.doing = Dead]]
  /\ UNCHANGED <<pending, running, spent>> /\ SameAxes

VmStep == VmTick \/ Skip \/ Resume \/ Step \/ EndOfTick
VmNext == VmStep \/ (\E i \in Ids : Start(i)) \/ Reset

(* The host ticks the interpreter with the frames.                         *)
VmSpec == VmInit /\ [][VmNext]_vmVars /\ WF_vmVars(VmStep)

----------------------------------------------------------------------------
Waiting(i, a) == i \in Range(order) /\ thread[i].doing = WaitsFor(a)

(* A thread that waits for a motion goes on, or is ended by a signal: it   *)
(* waits for ever only for an axis that is given a new target again and    *)
(* again, or that spins against its turn.  The flag that lets a tick skip  *)
(* the sweep never hides a motion that somebody waits for.                 *)
WaitsEnd ==
  \A i \in Ids, a \in Axes :
    <>[]Waiting(i, a) => \/ []<><<to'[a] \notin {to[a], Rest}>>_vmVars
                         \/ []<>(spin[a].now # 0)
=============================================================================
