--------------------------- MODULE AccountsProofs ---------------------------
(***************************************************************************)
(* That an account has one owner, that one a client was told of stays, and *)
(* that guesses are metered, for any clients, names, addresses and         *)
(* thresholds, with the server killed between any two operations.          *)
(*                                                                         *)
(* Who owns an account depends on the whole exchange: the server acts on   *)
(* the name it noted when the login began, with the password of the frame  *)
(* it reads.  Stage lists how far client and server can be with each       *)
(* other; SignInInv adds that nobody is signed in to an account that is    *)
(* still being created (Alone), which a failed save takes back.            *)
(*                                                                         *)
(* That an account stays (OnDisk) is said of the file: but for the account *)
(* being created it has what the store has, and it has what any client was *)
(* told or will be by a frame that is still on its way (Mail).             *)
(***************************************************************************)
EXTENDS Accounts, TLAPS

Passwords == Guests \cup {Typo}

Accs == [Names -> Passwords \cup {Nobody}]

Files == [state : {"absent", "part", "whole"}, acc : Accs]

Phases == {"away", "begun", "deriving", "sent", "verified", "lobby", "failed"}

Welcome == [kind |-> "Welcome"]

Challenge(fresh) == [kind |-> "AuthChallenge", fresh |-> fresh]

Verdict(fresh, pw) ==
  [kind |-> "AuthResult", status |-> IF fresh THEN "Created" ELSE "Ok", sig |-> pw]

Refusals == {"Throttled", "BadPassword", "NameTaken", "ServerError"}

(* What can be on its way to a client at one moment. *)
Batches ==
  {<<>>, <<Welcome>>}
    \cup {<<Challenge(b)>> : b \in BOOLEAN}
    \cup {<<Result(s)>> : s \in Refusals}
    \cup {<<Verdict(b, pw), Welcome>> : b \in BOOLEAN, pw \in Passwords}

GuestRecs ==
  [phase : Phases, user : Names \cup {Nobody}, pw : Passwords \cup {Nobody}, fresh : BOOLEAN]

LoginRecs ==
  [state : {"none", "Auth", "Lobby"}, user : Names \cup {Nobody}, fresh : BOOLEAN,
   account : Names \cup {Nobody}]

AccTypes ==
  /\ guest \in [Guests -> GuestRecs] /\ login \in [Guests -> LoginRecs]
  /\ \A c \in Guests : guest[c].phase # "away" =>
       guest[c].user \in Names /\ guest[c].pw \in Passwords
  /\ upAuth = [c \in Guests |-> upAuth[c]] /\ downAuth \in [Guests -> Batches]
  /\ alive \in BOOLEAN /\ store \in Accs /\ told \in Accs
  /\ disk \in [atomic : BOOLEAN, main : Files, tmp : Files, bak : Files]
  /\ saving \in [for : Guests, step : {"write", "flush", "aside", "replace"}] \cup {Idle}

(* The save in hand is for c. *)
Busy(c) == saving.for = c

Agreed(c) == login[c].user = guest[c].user /\ login[c].fresh = guest[c].fresh

(* From the name asked for to the proof on its way. *)
Asking(c) ==
  \/ /\ guest[c].phase = "begun" /\ downAuth[c] = <<>>
     /\ upAuth[c] = <<[kind |-> "AuthBegin", user |-> guest[c].user]>>
  \/ /\ guest[c].phase = "begun" /\ upAuth[c] = <<>> /\ login[c].user = guest[c].user
     /\ downAuth[c] = <<Challenge(login[c].fresh)>>
  \/ guest[c].phase = "deriving" /\ upAuth[c] = <<>> /\ downAuth[c] = <<>> /\ Agreed(c)
  \/ /\ guest[c].phase = "sent" /\ downAuth[c] = <<>> /\ Agreed(c)
     /\ upAuth[c] = <<[kind |-> IF login[c].fresh THEN "AuthRegister" ELSE "AuthProof",
                       pw |-> guest[c].pw]>>

Rejected(c) ==
  /\ upAuth[c] = <<>>
  /\ \/ guest[c].phase \in {"begun", "sent"} /\ \E s \in Refusals : downAuth[c] = <<Result(s)>>
     \/ guest[c].phase = "failed" /\ downAuth[c] = <<>>

BeingSaved(c) ==
  /\ guest[c].phase = "sent" /\ upAuth[c] = <<>> /\ downAuth[c] = <<>> /\ Agreed(c)
  /\ store[login[c].user] = guest[c].pw
  /\ login[c].account = IF login[c].fresh THEN Nobody ELSE login[c].user

SignedIn(c) ==
  /\ upAuth[c] = <<>>
  /\ login[c].account = guest[c].user /\ store[guest[c].user] = guest[c].pw
  /\ \/ guest[c].phase = "sent" /\ downAuth[c] = <<Verdict(guest[c].fresh, guest[c].pw), Welcome>>
     \/ guest[c].phase = "verified" /\ downAuth[c] = <<Welcome>>
     \/ guest[c].phase = "lobby" /\ downAuth[c] = <<>>

Stage(c) ==
  /\ guest[c].phase = "away" => login[c].state = "none" /\ downAuth[c] = <<>>
  /\ login[c].state = "none" => login[c] = NoLogin /\ ~Busy(c)
  /\ login[c].state = "Auth" /\ ~Busy(c) => login[c].account = Nobody /\ (Asking(c) \/ Rejected(c))
  /\ login[c].state = "Auth" /\ Busy(c) => BeingSaved(c)
  /\ login[c].state = "Lobby" => ~Busy(c) /\ SignedIn(c)

Stages == \A c \in Guests : Stage(c)

(* A server that is down has no logins and nothing to save. *)
Down == ~alive => saving = Idle /\ \A c \in Guests : login[c] = NoLogin

(* The account n is in the store and not yet in the file. *)
Creating(n) == \E c \in Guests : Busy(c) /\ login[c].fresh /\ login[c].user = n

Alone == \A n \in Names : Creating(n) => \A c \in Guests : login[c].account # n

SignInInv == AccTypes /\ Stages /\ Down /\ Alone

-----------------------------------------------------------------------------
(* Facts the steps below need.                                              *)

LEMMA Frames ==
  /\ \A f : Head(<<f>>) = f /\ Tail(<<f>>) = <<>> /\ <<f>> # <<>>
  /\ \A f, g : Head(<<f, g>>) = f /\ Tail(<<f, g>>) = <<g>> /\ <<f, g>> # <<>>
  /\ \A f : <<>> \o <<f>> = <<f>> /\ Append(<<>>, f) = <<f>>
  /\ \A f, g : <<>> \o <<f, g>> = <<f, g>>
OBVIOUS

LEMMA Batched ==
  ASSUME NEW b \in Batches, b # <<>>
  PROVE  /\ Tail(b) \in {<<>>, <<Welcome>>} /\ Tail(b) \in Batches
         /\ Head(b).kind = "AuthChallenge" => \E x \in BOOLEAN : b = <<Challenge(x)>>
         /\ Head(b).kind = "AuthResult" =>
              \/ \E s \in Refusals : b = <<Result(s)>>
              \/ \E x \in BOOLEAN, pw \in Passwords : b = <<Verdict(x, pw), Welcome>>
         /\ Head(b).kind = "Welcome" => b = <<Welcome>>
<1>1. Challenge(TRUE).kind = "AuthChallenge" /\ \A x : Challenge(x).kind = "AuthChallenge"
  BY DEF Challenge
<1>2. Welcome.kind = "Welcome" /\ (\A s : Result(s).kind = "AuthResult")
      /\ (\A x, pw : Verdict(x, pw).kind = "AuthResult")
  BY DEF Welcome, Result, Verdict
<1>3. CASE b = <<Welcome>>
  BY <1>2, <1>3, Frames DEF Batches
<1>4. CASE \E x \in BOOLEAN : b = <<Challenge(x)>>
  BY <1>1, <1>4, Frames DEF Batches
<1>5. CASE \E s \in Refusals : b = <<Result(s)>>
  BY <1>2, <1>5, Frames DEF Batches
<1>6. CASE \E x \in BOOLEAN, pw \in Passwords : b = <<Verdict(x, pw), Welcome>>
  BY <1>2, <1>6, Frames DEF Batches
<1> QED BY <1>3, <1>4, <1>5, <1>6 DEF Batches

LEMMA NobodyElse ==
  /\ Nobody \notin Guests /\ Nobody \notin Names /\ Nobody \notin Passwords
  /\ Idle.for = Nobody /\ Idle.step = "none" /\ ~ \E c \in Guests : Idle.for = c
  /\ NoLogin.state = "none" /\ NoLogin.account = Nobody /\ Away.phase = "away"
  /\ NoLogin \in LoginRecs /\ Away \in GuestRecs
BY AccountsAssumption DEF Idle, Nobody, Passwords, Typo, NoLogin, Away, LoginRecs, GuestRecs, Phases

(* Nothing is different between the server and d. *)
Same(d) ==
  /\ guest'[d] = guest[d] /\ login'[d] = login[d]
  /\ upAuth'[d] = upAuth[d] /\ downAuth'[d] = downAuth[d]

LEMMA SameStage ==
  ASSUME NEW d \in Guests, Stage(d), Same(d), Busy(d)' <=> Busy(d),
         login[d].state = "Lobby" => store'[guest[d].user] = store[guest[d].user],
         Busy(d) => store'[login[d].user] = store[login[d].user]
  PROVE  Stage(d)'
<1>1. (Agreed(d) <=> Agreed(d)') /\ (Asking(d) <=> Asking(d)') /\ (Rejected(d) <=> Rejected(d)')
  BY DEF Same, Agreed, Asking, Rejected
<1>2. Busy(d) => (BeingSaved(d) <=> BeingSaved(d)')
  BY <1>1 DEF Same, BeingSaved
<1>3. login[d].state = "Lobby" => (SignedIn(d) <=> SignedIn(d)')
  BY DEF Same, SignedIn
<1> QED BY <1>1, <1>2, <1>3 DEF Same, Stage

(* Only c moves; the save in hand stays, or is begun or ended for c.        *)
LEMMA OneGuestMoves ==
  ASSUME SignInInv, NEW c \in Guests, \A d \in Guests \ {c} : Same(d),
         \/ saving' = saving /\ store' = store
         \/ /\ (saving = Idle /\ saving'.for = c) \/ (Busy(c) /\ saving' = Idle)
            /\ \A d \in Guests \ {c} : login[d].state = "Lobby" =>
                 store'[guest[d].user] = store[guest[d].user],
         Stage(c)'
  PROVE  Stages'
<1> SUFFICES ASSUME NEW d \in Guests, d # c PROVE Stage(d)'
  BY DEF Stages
<1>1. Stage(d) /\ Same(d)
  BY DEF SignInInv, Stages
<1>2. CASE saving' = saving /\ store' = store
  BY <1>1, <1>2, SameStage DEF Busy
<1>3. CASE /\ (saving = Idle /\ saving'.for = c) \/ (Busy(c) /\ saving' = Idle)
           /\ \A e \in Guests \ {c} : login[e].state = "Lobby" =>
                store'[guest[e].user] = store[guest[e].user]
  <2>1. ~Busy(d) /\ ~Busy(d)'
    BY <1>3, NobodyElse DEF Busy
  <2> QED BY <1>1, <1>3, <2>1, SameStage
<1> QED BY <1>2, <1>3

LEMMA Typed ==
  ASSUME SignInInv, NEW c \in Guests
  PROVE  /\ guest[c] \in GuestRecs /\ login[c] \in LoginRecs /\ downAuth[c] \in Batches
         /\ guest[c].phase \in Phases /\ guest[c].fresh \in BOOLEAN
         /\ guest[c].phase # "away" => guest[c].user \in Names /\ guest[c].pw \in Passwords
         /\ login[c].state \in {"none", "Auth", "Lobby"} /\ login[c].fresh \in BOOLEAN
         /\ login[c].account \in Names \cup {Nobody}
BY DEF SignInInv, AccTypes, GuestRecs, LoginRecs

(* Whoever has an account is signed in to it or being signed in.            *)
LEMMA Accounted ==
  ASSUME SignInInv, NEW c \in Guests, login[c].account # Nobody
  PROVE  /\ store[login[c].account] = guest[c].pw /\ guest[c].pw \in Passwords
         /\ login[c].account = guest[c].user /\ login[c].account \in Names
         /\ login[c].state = "Lobby" \/ Busy(c)
<1>1. Stage(c) BY DEF SignInInv, Stages
<1>2. login[c].state \in {"none", "Auth", "Lobby"} /\ login[c].account \in Names
  BY Typed
<1>3. guest[c].phase # "away" => guest[c].pw \in Passwords
  BY DEF SignInInv, AccTypes
<1> QED BY <1>1, <1>2, <1>3, NobodyElse DEF Stage, BeingSaved, SignedIn, Agreed

-----------------------------------------------------------------------------
(* SignInInv, action by action: the client.                                 *)

LEMMA AccStarts == AccInit => SignInInv
<1> SUFFICES ASSUME AccInit PROVE SignInInv OBVIOUS
<1>1. Nothing \in Accs /\ Absent \in Files
  BY DEF Nothing, Accs, Absent, Files
<1>3. AccTypes
  BY <1>1, NobodyElse, Frames DEF AccInit, AccTypes, Batches
<1>4. \A c \in Guests : ~Busy(c)
  BY NobodyElse DEF AccInit, Busy
<1>5. Stages
  BY <1>4, NobodyElse DEF AccInit, Stages, Stage
<1> QED BY <1>3, <1>4, <1>5 DEF SignInInv, Down, Alone, Creating, AccInit

LEMMA BeginKeeps ==
  ASSUME SignInInv, NEW c \in Guests, NEW n \in Names, NEW pw \in {c, Typo}, Begin(c, n, pw)
  PROVE  SignInInv'
<1>1. /\ alive /\ alive' = alive /\ guest[c].phase = "away"
      /\ guest' = [guest EXCEPT ![c] = [phase |-> "begun", user |-> n, pw |-> pw, fresh |-> FALSE]]
      /\ login' = [login EXCEPT ![c].state = "Auth"]
      /\ upAuth' = [upAuth EXCEPT ![c] = <<[kind |-> "AuthBegin", user |-> n]>>]
      /\ UNCHANGED <<downAuth, store, disk, saving, told>>
  BY DEF Begin, fileVars
<1>2. AccTypes'
  <2>1. /\ guest \in [Guests -> GuestRecs] /\ login \in [Guests -> LoginRecs]
        /\ \A d \in Guests : guest[d].phase # "away" => guest[d].user \in Names /\ guest[d].pw \in Passwords
        /\ upAuth = [d \in Guests |-> upAuth[d]]
    BY DEF SignInInv, AccTypes
  <2>2. [phase |-> "begun", user |-> n, pw |-> pw, fresh |-> FALSE] \in GuestRecs /\ pw \in Passwords
    BY DEF GuestRecs, Passwords, Phases
  <2>3. [login[c] EXCEPT !.state = "Auth"] \in LoginRecs
    BY <2>1 DEF LoginRecs
  <2>4. guest' \in [Guests -> GuestRecs] /\ login' \in [Guests -> LoginRecs]
    BY <1>1, <2>1, <2>2, <2>3
  <2>5. \A d \in Guests : guest'[d].phase # "away" =>
          guest'[d].user \in Names /\ guest'[d].pw \in Passwords
    BY <1>1, <2>1, <2>2
  <2>6. upAuth' = [d \in Guests |-> upAuth'[d]]
    BY <1>1, <2>1
  <2> QED BY <1>1, <2>4, <2>5, <2>6 DEF SignInInv, AccTypes
<1>3. login[c] = NoLogin /\ ~Busy(c) /\ downAuth[c] = <<>>
  BY <1>1 DEF SignInInv, Stages, Stage
<1>4. Stage(c)'
  <2>1. login'[c].state = "Auth" /\ login'[c].account = Nobody
    BY <1>1, <1>3, NobodyElse DEF SignInInv, AccTypes
  <2>2. Asking(c)' BY <1>1, <1>3 DEF SignInInv, AccTypes, Asking
  <2>3. guest'[c].phase # "away" BY <1>1 DEF SignInInv, AccTypes
  <2> QED BY <1>1, <1>3, <2>1, <2>2, <2>3 DEF Stage, Busy
<1>5. \A d \in Guests \ {c} : Same(d)
  BY <1>1 DEF SignInInv, AccTypes, Same
<1>6. Stages' BY <1>1, <1>4, <1>5, OneGuestMoves
<1>7. Alone'
  <2>1. \A d \in Guests : /\ login'[d].account = login[d].account
                          /\ Busy(d) => login'[d] = login[d]
    BY <1>1, <1>3 DEF SignInInv, AccTypes
  <2> QED BY <1>1, <2>1 DEF SignInInv, Alone, Creating, Busy
<1> QED BY <1>1, <1>2, <1>6, <1>7 DEF SignInInv, Down

(* What the client does with a frame, or without one, changes its phase.    *)
LEMMA GuestMoves ==
  ASSUME SignInInv, NEW c \in Guests, \A d \in Guests \ {c} : Same(d),
         GuestRest, AccTypes', Stage(c)'
  PROVE  SignInInv'
<1>1. UNCHANGED <<login, alive, store, saving>> BY DEF GuestRest, fileVars
<1>2. Stages' BY <1>1, OneGuestMoves
<1> QED BY <1>1, <1>2 DEF SignInInv, Down, Alone, Creating, Busy

LEMMA PhaseMoves ==
  ASSUME SignInInv, NEW c \in Guests, NEW p \in Phases \ {"away"}, guest[c].phase # "away",
         guest' = [guest EXCEPT ![c].phase = p]
  PROVE  /\ guest' \in [Guests -> GuestRecs]
         /\ \A d \in Guests : guest'[d].phase # "away" =>
              guest'[d].user \in Names /\ guest'[d].pw \in Passwords
         /\ \A d \in Guests \ {c} : guest'[d] = guest[d]
         /\ guest'[c].phase = p /\ guest'[c].user = guest[c].user
         /\ guest'[c].pw = guest[c].pw /\ guest'[c].fresh = guest[c].fresh
<1>1. guest'[c] = [guest[c] EXCEPT !.phase = p] /\ guest[c] \in GuestRecs
  BY DEF SignInInv, AccTypes
<1>2. \A d \in Guests \ {c} : guest'[d] = guest[d]
  BY DEF SignInInv, AccTypes
<1>3. /\ guest'[c].phase = p /\ guest'[c].user = guest[c].user
      /\ guest'[c].pw = guest[c].pw /\ guest'[c].fresh = guest[c].fresh
      /\ guest'[c] \in GuestRecs
  BY <1>1 DEF GuestRecs
<1> QED BY <1>2, <1>3 DEF SignInInv, AccTypes

(* Of a frame that c reads: it is of what the server sent it, whole.        *)
LEMMA Reads ==
  ASSUME SignInInv, NEW c \in Guests, NEW kind, HasFrame(c, kind), Consume(c),
         \A d \in Guests \ {c} : guest'[d] = guest[d]
  PROVE  /\ GuestRest /\ upAuth' = upAuth
         /\ downAuth[c] # <<>> /\ Head(downAuth[c]).kind = kind
         /\ downAuth'[c] = Tail(downAuth[c]) /\ downAuth' \in [Guests -> Batches]
         /\ guest[c].phase # "away" /\ Stage(c)
         /\ \A d \in Guests \ {c} : Same(d)
         /\ UNCHANGED <<login, alive, store, disk, saving>>
<1>1. /\ downAuth[c] # <<>> /\ Head(downAuth[c]).kind = kind
      /\ downAuth' = [downAuth EXCEPT ![c] = Tail(@)] /\ GuestRest /\ upAuth' = upAuth
  BY DEF HasFrame, Consume
<1>2. UNCHANGED <<login, alive, store, disk, saving>>
  BY <1>1 DEF GuestRest, fileVars
<1>3. Tail(downAuth[c]) \in Batches /\ downAuth \in [Guests -> Batches]
  BY <1>1, Batched DEF SignInInv, AccTypes
<1>4. Stage(c) /\ guest[c].phase # "away"
  BY <1>1 DEF SignInInv, Stages, Stage
<1>5. \A d \in Guests \ {c} : Same(d)
  BY <1>1, <1>2, <1>3 DEF Same
<1> QED BY <1>1, <1>2, <1>3, <1>4, <1>5

(* What c can be told of at a stage of its login. *)
LEMMA Sent ==
  ASSUME SignInInv, NEW c \in Guests, downAuth[c] # <<>>, login[c].state # "none"
  PROVE  \/ /\ login[c].state = "Auth" /\ ~Busy(c) /\ login[c].account = Nobody
            /\ Asking(c) /\ guest[c].phase = "begun" /\ upAuth[c] = <<>>
            /\ login[c].user = guest[c].user /\ downAuth[c] = <<Challenge(login[c].fresh)>>
         \/ /\ login[c].state = "Auth" /\ ~Busy(c) /\ login[c].account = Nobody
            /\ Rejected(c) /\ upAuth[c] = <<>>
            /\ guest[c].phase \in {"begun", "sent"} /\ \E s \in Refusals : downAuth[c] = <<Result(s)>>
         \/ login[c].state = "Lobby" /\ ~Busy(c) /\ SignedIn(c)
<1>1. Stage(c) /\ login[c].state \in {"none", "Auth", "Lobby"}
  BY Typed DEF SignInInv, Stages
<1>2. CASE login[c].state = "Auth" /\ Busy(c)
  BY <1>1, <1>2 DEF Stage, BeingSaved
<1>3. CASE login[c].state = "Auth" /\ ~Busy(c)
  <2>1. login[c].account = Nobody /\ (Asking(c) \/ Rejected(c))
    BY <1>1, <1>3 DEF Stage
  <2> QED BY <1>3, <2>1 DEF Asking, Rejected
<1>4. CASE login[c].state = "Lobby"
  BY <1>1, <1>4 DEF Stage
<1> QED BY <1>1, <1>2, <1>3, <1>4

LEMMA OnChallengeKeeps ==
  ASSUME SignInInv, NEW c \in Guests, OnChallenge(c)
  PROVE  SignInInv'
<1> DEFINE f == Head(downAuth[c])
<1>1. /\ guest[c].phase = "begun" /\ HasFrame(c, "AuthChallenge") /\ Consume(c) /\ UNCHANGED told
      /\ guest' = [guest EXCEPT ![c].phase = "deriving", ![c].fresh = f.fresh]
  BY DEF OnChallenge
<1>2. \A d \in Guests \ {c} : guest'[d] = guest[d]
  BY <1>1 DEF SignInInv, AccTypes
<1>3. /\ GuestRest /\ upAuth' = upAuth
      /\ downAuth[c] # <<>> /\ Head(downAuth[c]).kind = "AuthChallenge"
      /\ downAuth'[c] = Tail(downAuth[c]) /\ downAuth' \in [Guests -> Batches]
      /\ Stage(c) /\ \A d \in Guests \ {c} : Same(d)
      /\ UNCHANGED <<login, alive, store, disk, saving>>
  BY <1>1, <1>2, Reads
<1>4. PICK b \in BOOLEAN : downAuth[c] = <<Challenge(b)>>
  BY <1>3, Batched DEF SignInInv, AccTypes
<1>5. f.fresh = b /\ downAuth'[c] = <<>>
  BY <1>3, <1>4, Frames DEF Challenge
<1>6. guest'[c] = [guest[c] EXCEPT !.phase = "deriving", !.fresh = b]
  BY <1>1, <1>5 DEF SignInInv, AccTypes
<1>7. /\ guest'[c].phase = "deriving" /\ guest'[c].user = guest[c].user
      /\ guest'[c].pw = guest[c].pw /\ guest'[c].fresh = b
  BY <1>6 DEF SignInInv, AccTypes, GuestRecs
<1>8. AccTypes'
  <2>1. guest'[c] \in GuestRecs
    <3>1. guest[c] \in GuestRecs
      BY DEF SignInInv, AccTypes
    <3> QED BY <1>4, <1>6, <3>1 DEF GuestRecs, Phases
  <2> QED BY <1>1, <1>2, <1>3, <1>7, <2>1 DEF SignInInv, AccTypes
<1>9. Stage(c)'
  <2>1. CASE login[c].state = "none"
    BY <1>3, <1>7, <2>1 DEF Stage, Busy
  <2>2. CASE login[c].state # "none"
    <3>1. Result("Throttled").kind = "AuthResult" /\ \A s : Result(s).kind = "AuthResult"
      BY DEF Result
    <3>2. guest[c].phase = "begun" => ~SignedIn(c)
      BY DEF SignedIn
    <3>3. /\ login[c].state = "Auth" /\ ~Busy(c) /\ login[c].account = Nobody
          /\ upAuth[c] = <<>> /\ login[c].user = guest[c].user
          /\ downAuth[c] = <<Challenge(login[c].fresh)>>
      BY <1>1, <1>3, <2>2, <3>1, <3>2, Sent, Frames
    <3>4. login[c].fresh = b
      BY <1>3, <1>4, <1>5, <3>3, Frames DEF Challenge
    <3>5. Asking(c)'
      BY <1>3, <1>5, <1>7, <3>3, <3>4 DEF Asking, Agreed
    <3> QED BY <1>3, <1>7, <3>3, <3>5 DEF Stage, Busy
  <2> QED BY <2>1, <2>2
<1> QED BY <1>3, <1>8, <1>9, GuestMoves

LEMMA PumpDeriveKeeps ==
  ASSUME SignInInv, NEW c \in Guests, PumpDerive(c)
  PROVE  SignInInv'
<1> DEFINE f == [kind |-> IF guest[c].fresh THEN "AuthRegister" ELSE "AuthProof",
                 pw |-> guest[c].pw]
<1>1. /\ guest[c].phase = "deriving"
      /\ guest' = [guest EXCEPT ![c].phase = "sent"]
      /\ upAuth' = [upAuth EXCEPT ![c] = Append(@, f)]
      /\ GuestRest /\ UNCHANGED <<downAuth, told>>
  BY DEF PumpDerive
<1>2. "sent" \in Phases \ {"away"}
  BY DEF Phases
<1>3. /\ guest' \in [Guests -> GuestRecs]
      /\ \A d \in Guests : guest'[d].phase # "away" =>
           guest'[d].user \in Names /\ guest'[d].pw \in Passwords
      /\ \A d \in Guests \ {c} : guest'[d] = guest[d]
      /\ guest'[c].phase = "sent" /\ guest'[c].user = guest[c].user
      /\ guest'[c].pw = guest[c].pw /\ guest'[c].fresh = guest[c].fresh
  BY <1>1, <1>2, PhaseMoves
<1>4. UNCHANGED <<login, alive, store, disk, saving>>
  BY <1>1 DEF GuestRest, fileVars
<1>5. upAuth'[c] = Append(upAuth[c], f) /\ \A d \in Guests \ {c} : Same(d)
  BY <1>1, <1>3, <1>4 DEF SignInInv, AccTypes, Same
<1>6. AccTypes'
  BY <1>1, <1>3, <1>4 DEF SignInInv, AccTypes
<1>7. Stage(c)'
  <2>1. Stage(c) /\ login[c].state \in {"none", "Auth", "Lobby"}
    BY Typed DEF SignInInv, Stages
  <2>2. CASE login[c].state = "none"
    BY <1>3, <1>4, <2>1, <2>2 DEF Stage, Busy
  <2>3. CASE login[c].state # "none"
    <3>1. /\ login[c].state = "Auth" /\ ~Busy(c) /\ login[c].account = Nobody
          /\ upAuth[c] = <<>> /\ downAuth[c] = <<>> /\ Agreed(c)
      BY <1>1, <2>1, <2>3 DEF Stage, BeingSaved, SignedIn, Asking, Rejected
    <3>2. upAuth'[c] = <<f>>
      BY <1>5, <3>1, Frames
    <3>3. Asking(c)'
      BY <1>1, <1>3, <1>4, <3>1, <3>2 DEF Asking, Agreed
    <3> QED BY <1>3, <1>4, <3>1, <3>3 DEF Stage, Busy
  <2> QED BY <2>2, <2>3
<1> QED BY <1>1, <1>5, <1>6, <1>7, GuestMoves

LEMMA OnResultKeeps ==
  ASSUME SignInInv, NEW c \in Guests, OnResult(c)
  PROVE  SignInInv'
<1> DEFINE f == Head(downAuth[c])
           good == /\ f.status \in {"Ok", "Created"} /\ guest[c].phase = "sent"
                   /\ guest[c].fresh = (f.status = "Created") /\ f.sig = guest[c].pw
           p == IF good THEN "verified" ELSE "failed"
<1>1. /\ HasFrame(c, "AuthResult") /\ Consume(c)
      /\ guest' = [guest EXCEPT ![c].phase = p]
      /\ told' = IF good THEN [told EXCEPT ![guest[c].user] = guest[c].pw] ELSE told
  BY DEF OnResult
<1>2. p \in Phases \ {"away"}
  BY DEF Phases
<1>3. \A d \in Guests \ {c} : guest'[d] = guest[d]
  BY <1>1 DEF SignInInv, AccTypes
<1>4. /\ GuestRest /\ upAuth' = upAuth
      /\ downAuth[c] # <<>> /\ f.kind = "AuthResult"
      /\ downAuth'[c] = Tail(downAuth[c]) /\ downAuth' \in [Guests -> Batches]
      /\ guest[c].phase # "away" /\ Stage(c) /\ \A d \in Guests \ {c} : Same(d)
      /\ UNCHANGED <<login, alive, store, disk, saving>>
  BY <1>1, <1>3, Reads
<1>5. /\ guest' \in [Guests -> GuestRecs]
      /\ \A d \in Guests : guest'[d].phase # "away" =>
           guest'[d].user \in Names /\ guest'[d].pw \in Passwords
      /\ guest'[c].phase = p /\ guest'[c].user = guest[c].user
      /\ guest'[c].pw = guest[c].pw /\ guest'[c].fresh = guest[c].fresh
  BY <1>1, <1>2, <1>4, PhaseMoves
<1>6. AccTypes'
  <2>1. told' \in Accs
    BY <1>1, <1>4, Typed DEF SignInInv, AccTypes, Accs
  <2> QED BY <1>4, <1>5, <2>1 DEF SignInInv, AccTypes
<1>7. Stage(c)'
  <2>1. CASE login[c].state = "none"
    BY <1>2, <1>4, <1>5, <2>1 DEF Stage, Busy
  <2>2. CASE login[c].state # "none"
    <3>1. CASE /\ login[c].state = "Auth" /\ ~Busy(c) /\ login[c].account = Nobody
               /\ upAuth[c] = <<>> /\ \E s \in Refusals : downAuth[c] = <<Result(s)>>
      <4>1. downAuth'[c] = <<>> /\ ~good
        BY <1>4, <3>1, Frames DEF Result, Refusals
      <4>2. Rejected(c)'
        BY <1>4, <1>5, <3>1, <4>1 DEF Rejected
      <4> QED BY <1>4, <1>5, <3>1, <4>1, <4>2 DEF Stage, Busy
    <3>2. CASE login[c].state = "Lobby" /\ ~Busy(c) /\ SignedIn(c)
      <4>1. Welcome.kind = "Welcome"
        BY DEF Welcome
      <4>2. /\ guest[c].phase = "sent"
            /\ downAuth[c] = <<Verdict(guest[c].fresh, guest[c].pw), Welcome>>
        BY <1>4, <3>2, <4>1, Frames DEF SignedIn
      <4>3. f = Verdict(guest[c].fresh, guest[c].pw) /\ downAuth'[c] = <<Welcome>>
        BY <1>4, <4>2, Frames
      <4>4. good
        BY <4>2, <4>3, Typed DEF Verdict
      <4>5. SignedIn(c)'
        BY <1>4, <1>5, <3>2, <4>3, <4>4 DEF SignedIn
      <4> QED BY <1>4, <1>5, <3>2, <4>4, <4>5 DEF Stage, Busy
    <3>3. \A x : Challenge(x).kind = "AuthChallenge"
      BY DEF Challenge
    <3> QED BY <1>4, <2>2, <3>1, <3>2, <3>3, Sent, Frames
  <2> QED BY <2>1, <2>2
<1> QED BY <1>4, <1>6, <1>7, GuestMoves

LEMMA OnWelcomeKeeps ==
  ASSUME SignInInv, NEW c \in Guests, OnWelcome(c)
  PROVE  SignInInv'
<1> DEFINE p == IF guest[c].phase = "verified" THEN "lobby" ELSE "failed"
<1>1. /\ HasFrame(c, "Welcome") /\ Consume(c) /\ UNCHANGED told
      /\ guest' = [guest EXCEPT ![c].phase = p]
  BY DEF OnWelcome, SignInInv, AccTypes
<1>2. p \in Phases \ {"away"}
  BY DEF Phases
<1>3. \A d \in Guests \ {c} : guest'[d] = guest[d]
  BY <1>1 DEF SignInInv, AccTypes
<1>4. /\ GuestRest /\ upAuth' = upAuth
      /\ downAuth[c] # <<>> /\ Head(downAuth[c]).kind = "Welcome"
      /\ downAuth'[c] = Tail(downAuth[c]) /\ downAuth' \in [Guests -> Batches]
      /\ guest[c].phase # "away" /\ Stage(c) /\ \A d \in Guests \ {c} : Same(d)
      /\ UNCHANGED <<login, alive, store, disk, saving>>
  BY <1>1, <1>3, Reads
<1>5. /\ guest' \in [Guests -> GuestRecs]
      /\ \A d \in Guests : guest'[d].phase # "away" =>
           guest'[d].user \in Names /\ guest'[d].pw \in Passwords
      /\ guest'[c].phase = p /\ guest'[c].user = guest[c].user
      /\ guest'[c].pw = guest[c].pw /\ guest'[c].fresh = guest[c].fresh
  BY <1>1, <1>2, <1>4, PhaseMoves
<1>6. AccTypes'
  BY <1>1, <1>4, <1>5 DEF SignInInv, AccTypes
<1>7. Stage(c)'
  <2>1. CASE login[c].state = "none"
    BY <1>2, <1>4, <1>5, <2>1 DEF Stage, Busy
  <2>2. CASE login[c].state # "none"
    <3>1. /\ \A x : Challenge(x).kind = "AuthChallenge"
          /\ \A x : Result(x).kind = "AuthResult"
          /\ \A x, y : Verdict(x, y).kind = "AuthResult"
      BY DEF Challenge, Result, Verdict
    <3>2. login[c].state = "Lobby" /\ ~Busy(c) /\ SignedIn(c)
      BY <1>4, <2>2, <3>1, Sent, Frames
    <3>3. guest[c].phase = "verified" /\ downAuth[c] = <<Welcome>>
      BY <1>4, <3>1, <3>2, Frames DEF SignedIn
    <3>4. downAuth'[c] = <<>>
      BY <1>4, <3>3, Frames
    <3>5. SignedIn(c)'
      BY <1>4, <1>5, <3>2, <3>3, <3>4 DEF SignedIn
    <3> QED BY <1>4, <1>5, <3>2, <3>3, <3>5 DEF Stage, Busy
  <2> QED BY <2>1, <2>2
<1> QED BY <1>4, <1>6, <1>7, GuestMoves

LEMMA HangUpKeeps ==
  ASSUME SignInInv, NEW c \in Guests, HangUp(c)
  PROVE  SignInInv'
<1>1. /\ saving.for # c
      /\ guest' = [guest EXCEPT ![c] = Away] /\ login' = [login EXCEPT ![c] = NoLogin]
      /\ upAuth' = [upAuth EXCEPT ![c] = <<>>] /\ downAuth' = [downAuth EXCEPT ![c] = <<>>]
      /\ UNCHANGED <<alive, store, disk, saving, told>>
  BY DEF HangUp, fileVars
<1>2. /\ guest'[c] = Away /\ login'[c] = NoLogin /\ downAuth'[c] = <<>>
      /\ \A d \in Guests \ {c} : Same(d)
  BY <1>1 DEF SignInInv, AccTypes, Same
<1>3. AccTypes'
  <2>1. <<>> \in Batches BY DEF Batches
  <2> QED BY <1>1, <1>2, <2>1, NobodyElse DEF SignInInv, AccTypes
<1>4. Stage(c)'
  BY <1>1, <1>2, NobodyElse DEF Stage, Busy
<1>5. Stages' BY <1>1, <1>2, <1>4, OneGuestMoves
<1>6. Alone'
  BY <1>1, <1>2, NobodyElse DEF SignInInv, Alone, Creating, Busy, Same
<1> QED BY <1>1, <1>2, <1>3, <1>5, <1>6 DEF SignInInv, Down, Same

-----------------------------------------------------------------------------
(* SignInInv, action by action: the server.                                 *)

LEMMA Asks ==
  ASSUME SignInInv, NEW c \in Guests, NEW kind, Asked(c, kind)
  PROVE  /\ alive /\ alive' = alive /\ saving = Idle /\ ~Busy(c)
         /\ login[c].state = "Auth" /\ login[c].account = Nobody
         /\ UNCHANGED <<guest, told>> /\ guest[c].phase # "away"
         /\ downAuth[c] = <<>> /\ upAuth'[c] = <<>>
         /\ upAuth' = [d \in Guests |-> upAuth'[d]]
         /\ \A d \in Guests \ {c} : upAuth'[d] = upAuth[d]
         /\ \/ /\ kind = "AuthBegin" /\ guest[c].phase = "begun"
               /\ Head(upAuth[c]).user = guest[c].user
            \/ /\ kind = IF login[c].fresh THEN "AuthRegister" ELSE "AuthProof"
               /\ guest[c].phase = "sent" /\ Agreed(c) /\ Head(upAuth[c]).pw = guest[c].pw
<1>1. /\ alive /\ alive' = alive /\ saving = Idle /\ login[c].state = "Auth"
      /\ UNCHANGED <<guest, told>>
      /\ upAuth[c] # <<>> /\ Head(upAuth[c]).kind = kind
      /\ upAuth' = [upAuth EXCEPT ![c] = Tail(@)]
  BY DEF Asked
<1>2. ~Busy(c) BY <1>1, NobodyElse DEF Busy
<1>3. login[c].account = Nobody /\ Asking(c)
  BY <1>1, <1>2 DEF SignInInv, Stages, Stage, Rejected
<1>4. /\ upAuth'[c] = Tail(upAuth[c]) /\ upAuth' = [d \in Guests |-> upAuth'[d]]
      /\ \A d \in Guests \ {c} : upAuth'[d] = upAuth[d]
  BY <1>1 DEF SignInInv, AccTypes
<1>5. guest[c].phase # "away" /\ downAuth[c] = <<>>
  BY <1>1, <1>3 DEF Asking
<1>6. upAuth'[c] = <<>>
  <2>1. \E f : upAuth[c] = <<f>>
    BY <1>1, <1>3 DEF Asking
  <2> QED BY <1>4, <2>1, Frames
<1>7. \/ /\ kind = "AuthBegin" /\ guest[c].phase = "begun"
         /\ Head(upAuth[c]).user = guest[c].user
      \/ /\ kind = IF login[c].fresh THEN "AuthRegister" ELSE "AuthProof"
         /\ guest[c].phase = "sent" /\ Agreed(c) /\ Head(upAuth[c]).pw = guest[c].pw
  BY <1>1, <1>3, Frames DEF Asking
<1> QED BY <1>1, <1>2, <1>3, <1>4, <1>5, <1>6, <1>7

LEMMA RefuseKeeps ==
  ASSUME SignInInv, NEW c \in Guests, NEW kind, Asked(c, kind),
         NEW s \in Refusals, Refuse(c, s), UNCHANGED fileVars
  PROVE  SignInInv'
<1>1. /\ alive /\ alive' = alive /\ saving = Idle /\ ~Busy(c)
      /\ login[c].state = "Auth" /\ login[c].account = Nobody
      /\ UNCHANGED <<guest, told>> /\ guest[c].phase \in {"begun", "sent"}
      /\ downAuth[c] = <<>> /\ upAuth'[c] = <<>>
      /\ upAuth' = [d \in Guests |-> upAuth'[d]]
      /\ \A d \in Guests \ {c} : upAuth'[d] = upAuth[d]
  BY Asks
<1>2. /\ UNCHANGED <<login, store, disk, saving>>
      /\ downAuth' = [downAuth EXCEPT ![c] = @ \o <<Result(s)>>]
  BY DEF Refuse, Reply, fileVars
<1>3. /\ downAuth'[c] = <<Result(s)>> /\ downAuth' \in [Guests -> Batches]
      /\ \A d \in Guests \ {c} : downAuth'[d] = downAuth[d]
  <2>1. <<Result(s)>> \in Batches BY DEF Batches
  <2>2. downAuth[c] \o <<Result(s)>> = <<Result(s)>> BY <1>1, Frames
  <2> QED BY <1>2, <2>1, <2>2 DEF SignInInv, AccTypes
<1>4. AccTypes'
  BY <1>1, <1>2, <1>3 DEF SignInInv, AccTypes
<1>5. Stage(c)'
  <2>1. Rejected(c)' BY <1>1, <1>2, <1>3 DEF Rejected
  <2> QED BY <1>1, <1>2, <2>1 DEF Stage, Busy
<1>6. \A d \in Guests \ {c} : Same(d)
  BY <1>1, <1>2, <1>3 DEF Same
<1>7. Stages' BY <1>2, <1>5, <1>6, OneGuestMoves
<1> QED BY <1>1, <1>2, <1>4, <1>7 DEF SignInInv, Down, Alone, Creating, Busy

(* With nothing to save nothing is being created. *)
LEMMA IdleCreates ==
  ASSUME saving = Idle PROVE \A n : ~Creating(n)
BY NobodyElse DEF Creating, Busy

LEMMA AuthBeginKeeps ==
  ASSUME SignInInv, NEW c \in Guests, AuthBegin(c)
  PROVE  SignInInv'
<1> DEFINE n == Head(upAuth[c]).user
           b == store[n] = Nobody
<1>1. /\ Asked(c, "AuthBegin") /\ UNCHANGED fileVars
      /\ IF LoginLocked(c, n)
           THEN Refuse(c, "Throttled")
           ELSE /\ login' = [login EXCEPT ![c].user = n, ![c].fresh = b]
                /\ Reply(c, <<Challenge(b)>>)
  BY DEF AuthBegin, Challenge
<1>2. CASE LoginLocked(c, n)
  BY <1>1, <1>2, RefuseKeeps DEF Refusals
<1>3. CASE ~LoginLocked(c, n)
  <2>1. /\ alive /\ alive' = alive /\ saving = Idle /\ ~Busy(c)
        /\ login[c].state = "Auth" /\ login[c].account = Nobody
        /\ UNCHANGED <<guest, told>> /\ guest[c].phase = "begun" /\ n = guest[c].user
        /\ downAuth[c] = <<>> /\ upAuth'[c] = <<>>
        /\ upAuth' = [d \in Guests |-> upAuth'[d]]
        /\ \A d \in Guests \ {c} : upAuth'[d] = upAuth[d]
    BY <1>1, Asks
  <2>2. /\ UNCHANGED <<store, disk, saving>>
        /\ login' = [login EXCEPT ![c].user = n, ![c].fresh = b]
        /\ downAuth' = [downAuth EXCEPT ![c] = @ \o <<Challenge(b)>>]
    BY <1>1, <1>3 DEF Reply, fileVars
  <2>3. /\ downAuth'[c] = <<Challenge(b)>> /\ downAuth' \in [Guests -> Batches]
        /\ \A d \in Guests \ {c} : downAuth'[d] = downAuth[d]
    <3>1. <<Challenge(b)>> \in Batches
      <4>1. b \in BOOLEAN OBVIOUS
      <4> HIDE DEF b
      <4> QED BY <4>1 DEF Batches
    <3>2. downAuth[c] \o <<Challenge(b)>> = <<Challenge(b)>> BY <2>1, Frames
    <3> QED BY <2>2, <3>1, <3>2 DEF SignInInv, AccTypes
  <2>4. /\ login'[c] = [login[c] EXCEPT !.user = n, !.fresh = b]
        /\ login[c] \in LoginRecs /\ n \in Names
        /\ \A d \in Guests \ {c} : login'[d] = login[d]
    BY <2>1, <2>2, Typed DEF SignInInv, AccTypes
  <2>5. /\ login'[c] \in LoginRecs /\ login'[c].state = "Auth"
        /\ login'[c].account = Nobody /\ login'[c].user = n /\ login'[c].fresh = b
    BY <2>1, <2>4 DEF LoginRecs
  <2>6. AccTypes'
    BY <2>1, <2>2, <2>3, <2>4, <2>5 DEF SignInInv, AccTypes
  <2>7. Stage(c)'
    <3>1. Asking(c)' BY <2>1, <2>3, <2>5 DEF Asking
    <3> QED BY <2>1, <2>2, <2>5, <3>1 DEF Stage, Busy
  <2>8. \A d \in Guests \ {c} : Same(d)
    BY <2>1, <2>2, <2>3, <2>4 DEF Same
  <2>9. Stages' BY <2>2, <2>7, <2>8, OneGuestMoves
  <2>10. Alone' BY <2>1, <2>2, NobodyElse DEF Alone, Creating, Busy
  <2> QED BY <2>1, <2>6, <2>9, <2>10 DEF SignInInv, Down
<1> QED BY <1>2, <1>3

(* The save that a right proof or a new account calls for. *)
LEMMA SaveBegins ==
  ASSUME SignInInv, NEW c \in Guests, NEW kind, Asked(c, kind), StartSave(c),
         UNCHANGED <<disk, downAuth>>, store' \in Accs, login' \in [Guests -> LoginRecs],
         \A d \in Guests \ {c} : login'[d] = login[d], login'[c].state = "Auth",
         \A d \in Guests \ {c} : login[d].state = "Lobby" =>
           store'[guest[d].user] = store[guest[d].user],
         BeingSaved(c)', Alone'
  PROVE  SignInInv'
<1>1. /\ alive /\ alive' = alive /\ saving = Idle /\ UNCHANGED <<guest, told>>
      /\ guest[c].phase # "away"
      /\ upAuth' = [d \in Guests |-> upAuth'[d]]
      /\ \A d \in Guests \ {c} : upAuth'[d] = upAuth[d]
  BY Asks
<1>2. saving' = [for |-> c, step |-> "write"] /\ saving'.for = c /\ Busy(c)'
  BY DEF StartSave, Busy
<1>3. AccTypes'
  BY <1>1, <1>2 DEF SignInInv, AccTypes
<1>4. Stage(c)' BY <1>1, <1>2 DEF Stage
<1>5. \A d \in Guests \ {c} : Same(d) BY <1>1 DEF Same
<1>6. Stages' BY <1>1, <1>2, <1>4, <1>5, OneGuestMoves
<1> QED BY <1>1, <1>3, <1>6 DEF SignInInv, Down

LEMMA AuthProofKeeps ==
  ASSUME SignInInv, NEW c \in Guests, AuthProof(c)
  PROVE  SignInInv'
<1> DEFINE n == login[c].user
<1>1. /\ Asked(c, "AuthProof")
      /\ \/ Refuse(c, "Throttled") /\ UNCHANGED fileVars
         \/ Refuse(c, "BadPassword") /\ UNCHANGED fileVars
         \/ /\ store[n] = Head(upAuth[c]).pw /\ StartSave(c)
            /\ login' = [login EXCEPT ![c].account = n]
            /\ UNCHANGED <<store, disk, downAuth>>
  BY DEF AuthProof
<1>2. CASE Refuse(c, "Throttled") /\ UNCHANGED fileVars
  BY <1>1, <1>2, RefuseKeeps DEF Refusals
<1>3. CASE Refuse(c, "BadPassword") /\ UNCHANGED fileVars
  BY <1>1, <1>3, RefuseKeeps DEF Refusals
<1>4. CASE /\ store[n] = Head(upAuth[c]).pw /\ StartSave(c)
           /\ login' = [login EXCEPT ![c].account = n]
           /\ UNCHANGED <<store, disk, downAuth>>
  <2>1. /\ UNCHANGED guest /\ login[c].state = "Auth" /\ guest[c].phase = "sent"
        /\ "AuthProof" = IF login[c].fresh THEN "AuthRegister" ELSE "AuthProof"
        /\ Agreed(c) /\ Head(upAuth[c]).pw = guest[c].pw
        /\ downAuth[c] = <<>> /\ upAuth'[c] = <<>>
    BY <1>1, Asks
  <2>2. ~login[c].fresh BY <2>1
  <2>3. /\ login[c] \in LoginRecs /\ n \in Names
        /\ login'[c] = [login[c] EXCEPT !.account = n]
        /\ \A d \in Guests \ {c} : login'[d] = login[d]
    BY <1>4, <2>1, Typed DEF SignInInv, AccTypes, Agreed
  <2>4. /\ login'[c] \in LoginRecs /\ login'[c].state = "Auth" /\ login'[c].account = n
        /\ login'[c].user = n /\ login'[c].fresh = login[c].fresh
    BY <2>1, <2>3 DEF LoginRecs
  <2>5. login' \in [Guests -> LoginRecs] /\ store' \in Accs
    BY <1>4, <2>3, <2>4 DEF SignInInv, AccTypes
  <2>6. BeingSaved(c)'
    BY <1>4, <2>1, <2>2, <2>4 DEF BeingSaved, Agreed
  <2>7. \A d \in Guests : Busy(d)' => d = c
    BY <1>4 DEF StartSave, Busy
  <2>8. Alone'
    BY <2>2, <2>4, <2>7 DEF Alone, Creating
  <2>9. /\ store' = store /\ StartSave(c) /\ UNCHANGED <<disk, downAuth>>
    BY <1>4
  <2> QED BY <1>1, <2>3, <2>4, <2>5, <2>6, <2>8, <2>9, SaveBegins
<1> QED BY <1>1, <1>2, <1>3, <1>4

LEMMA AuthRegisterKeeps ==
  ASSUME SignInInv, NEW c \in Guests, AuthRegister(c)
  PROVE  SignInInv'
<1> DEFINE n == login[c].user
<1>1. /\ Asked(c, "AuthRegister")
      /\ \/ Refuse(c, "Throttled") /\ UNCHANGED fileVars
         \/ Refuse(c, "NameTaken") /\ UNCHANGED fileVars
         \/ /\ store[n] = Nobody /\ StartSave(c)
            /\ store' = [store EXCEPT ![n] = Head(upAuth[c]).pw]
            /\ UNCHANGED <<disk, downAuth, login>>
  BY DEF AuthRegister, Taken
<1>2. CASE Refuse(c, "Throttled") /\ UNCHANGED fileVars
  BY <1>1, <1>2, RefuseKeeps DEF Refusals
<1>3. CASE Refuse(c, "NameTaken") /\ UNCHANGED fileVars
  BY <1>1, <1>3, RefuseKeeps DEF Refusals
<1>4. CASE /\ store[n] = Nobody /\ StartSave(c)
           /\ store' = [store EXCEPT ![n] = Head(upAuth[c]).pw]
           /\ UNCHANGED <<disk, downAuth, login>>
  <2>1. /\ UNCHANGED guest /\ login[c].state = "Auth" /\ guest[c].phase = "sent"
        /\ "AuthRegister" = IF login[c].fresh THEN "AuthRegister" ELSE "AuthProof"
        /\ Agreed(c) /\ Head(upAuth[c]).pw = guest[c].pw
        /\ downAuth[c] = <<>> /\ upAuth'[c] = <<>> /\ login[c].account = Nobody
    BY <1>1, Asks
  <2>2. login[c].fresh BY <2>1
  <2>3. n \in Names /\ guest[c].pw \in Passwords
    BY <2>1, Typed DEF Agreed
  <2>4. /\ store' \in Accs /\ store'[n] = guest[c].pw
        /\ \A m \in Names \ {n} : store'[m] = store[m]
    BY <1>4, <2>1, <2>3 DEF SignInInv, AccTypes, Accs
  <2>5. login' \in [Guests -> LoginRecs]
    BY <1>4 DEF SignInInv, AccTypes
  <2>6. BeingSaved(c)'
    BY <1>4, <2>1, <2>2, <2>4 DEF BeingSaved, Agreed
  <2>7. \A d \in Guests : login[d].account # n
    BY <1>4, <2>3, Accounted, NobodyElse
  <2>8. \A d \in Guests : Busy(d)' => d = c
    BY <1>4 DEF StartSave, Busy
  <2>9. Alone'
    BY <1>4, <2>7, <2>8 DEF Alone, Creating
  <2>10. \A d \in Guests \ {c} : login[d].state = "Lobby" =>
           store'[guest[d].user] = store[guest[d].user]
    <3> SUFFICES ASSUME NEW d \in Guests \ {c}, login[d].state = "Lobby"
                 PROVE  store'[guest[d].user] = store[guest[d].user]
      OBVIOUS
    <3>1. SignedIn(d) /\ guest[d].phase # "away"
      BY DEF SignInInv, Stages, Stage, SignedIn
    <3>2. login[d].account = guest[d].user /\ guest[d].user \in Names
      BY <3>1, Typed DEF SignedIn
    <3> QED BY <2>4, <2>7, <3>2
  <2>11. StartSave(c) /\ UNCHANGED <<disk, downAuth>>
    BY <1>4
  <2> QED BY <1>1, <1>4, <2>1, <2>4, <2>5, <2>6, <2>9, <2>10, <2>11, SaveBegins
<1> QED BY <1>1, <1>2, <1>3, <1>4

LEMMA EndSaveKeeps ==
  ASSUME SignInInv, NEW ok \in BOOLEAN, saving # Idle, EndSave(ok), alive,
         disk' \in [atomic : BOOLEAN, main : Files, tmp : Files, bak : Files]
  PROVE  SignInInv'
<1>0. PICK c \in Guests : saving.for = c
  BY DEF SignInInv, AccTypes
<1> DEFINE n == login[c].user
           creating == login[c].fresh
           taken == creating /\ ~ok
<1>1. /\ saving' = Idle /\ UNCHANGED <<guest, upAuth, alive, told>>
      /\ \/ /\ taken /\ store' = [store EXCEPT ![n] = Nobody]
            /\ downAuth' = [downAuth EXCEPT ![c] = @ \o <<Result("ServerError")>>]
            /\ UNCHANGED login
         \/ /\ ~taken /\ UNCHANGED store
            /\ login' = [login EXCEPT ![c].account = n, ![c].state = "Lobby"]
            /\ downAuth' = [downAuth EXCEPT ![c] = @ \o <<Verdict(creating, store[n]), Welcome>>]
  <2>1. saving' = Idle /\ UNCHANGED <<guest, upAuth, alive, told>>
    BY DEF EndSave, SaveRest
  <2>2. CASE taken
    BY <1>0, <2>1, <2>2 DEF EndSave, Refuse, Reply
  <2>3. CASE ~taken
    <3>1. UNCHANGED store /\ login' = [login EXCEPT ![c].account = n, ![c].state = "Lobby"]
      BY <1>0, <2>3 DEF EndSave
    <3>2. Signed(c, IF creating THEN "Created" ELSE "Ok")
      BY <1>0, <2>3 DEF EndSave
    <3>3. downAuth' = [downAuth EXCEPT ![c] = @ \o <<Verdict(creating, store[n]), Welcome>>]
      BY <3>1, <3>2 DEF Signed, Reply, Verdict, Welcome
    <3> QED BY <2>1, <2>3, <3>1, <3>3
  <2> QED BY <2>2, <2>3
<1>2. c \in Guests /\ Busy(c) /\ \A d \in Guests : Busy(d) => d = c
  BY <1>0 DEF Busy
<1>3. login[c].state = "Auth" /\ BeingSaved(c)
  BY <1>2, Typed DEF SignInInv, Stages, Stage
<1>4. /\ guest[c].phase = "sent" /\ upAuth[c] = <<>> /\ downAuth[c] = <<>> /\ Agreed(c)
      /\ store[n] = guest[c].pw /\ n \in Names /\ guest[c].pw \in Passwords
      /\ creating \in BOOLEAN /\ n = guest[c].user /\ creating = guest[c].fresh
  BY <1>2, <1>3, Typed DEF BeingSaved, Agreed
<1>5. \A d \in Guests : ~Busy(d)'
  BY <1>1, NobodyElse DEF Busy
<1>6. Alone' BY <1>5 DEF Alone, Creating
<1>7. ASSUME Stage(c)', AccTypes', \A d \in Guests \ {c} : Same(d),
             \A d \in Guests \ {c} : login[d].state = "Lobby" =>
               store'[guest[d].user] = store[guest[d].user]
      PROVE  SignInInv'
  <2>1. Stages' BY <1>1, <1>2, <1>7, OneGuestMoves
  <2> QED BY <1>1, <1>6, <1>7, <2>1 DEF SignInInv, Down
<1>8. CASE /\ taken /\ store' = [store EXCEPT ![n] = Nobody]
           /\ downAuth' = [downAuth EXCEPT ![c] = @ \o <<Result("ServerError")>>]
           /\ UNCHANGED login
  <2>1. /\ downAuth'[c] = <<Result("ServerError")>> /\ downAuth' \in [Guests -> Batches]
        /\ \A d \in Guests \ {c} : downAuth'[d] = downAuth[d]
    <3>1. <<Result("ServerError")>> \in Batches BY DEF Batches, Refusals
    <3>2. downAuth[c] \o <<Result("ServerError")>> = <<Result("ServerError")>>
      BY <1>4, Frames
    <3> QED BY <1>2, <1>8, <3>1, <3>2 DEF SignInInv, AccTypes
  <2>2. AccTypes'
    <3>1. store' \in Accs BY <1>8 DEF SignInInv, AccTypes, Accs
    <3> QED BY <1>1, <1>8, <2>1, <3>1 DEF SignInInv, AccTypes
  <2>3. login[c].account = Nobody
    BY <1>3, <1>8 DEF BeingSaved
  <2>4. Rejected(c)'
    BY <1>1, <1>4, <2>1 DEF Rejected, Refusals
  <2>5. Stage(c)'
    BY <1>1, <1>2, <1>3, <1>4, <1>5, <1>8, <2>3, <2>4 DEF Stage
  <2>6. \A d \in Guests \ {c} : Same(d)
    BY <1>1, <1>8, <2>1 DEF Same
  <2>7. \A d \in Guests \ {c} : login[d].state = "Lobby" =>
          store'[guest[d].user] = store[guest[d].user]
    <3>1. Creating(n) BY <1>2, <1>8 DEF Creating
    <3>2. \A d \in Guests : login[d].account # n
      BY <1>4, <3>1 DEF SignInInv, Alone
    <3>3. \A d \in Guests : login[d].state = "Lobby" => login[d].account = guest[d].user
      BY DEF SignInInv, Stages, Stage, SignedIn
    <3> QED BY <1>8, <3>2, <3>3 DEF SignInInv, AccTypes, Accs
  <2> QED BY <1>7, <2>2, <2>5, <2>6, <2>7
<1>9. CASE /\ ~taken /\ UNCHANGED store
           /\ login' = [login EXCEPT ![c].account = n, ![c].state = "Lobby"]
           /\ downAuth' = [downAuth EXCEPT ![c] = @ \o <<Verdict(creating, store[n]), Welcome>>]
  <2> DEFINE b == <<Verdict(creating, store[n]), Welcome>>
  <2>1. /\ downAuth'[c] = b /\ downAuth' \in [Guests -> Batches]
        /\ \A d \in Guests \ {c} : downAuth'[d] = downAuth[d]
    <3>1. b \in Batches BY <1>4 DEF Batches
    <3>2. downAuth[c] \o b = b BY <1>4, Frames
    <3> QED BY <1>2, <1>9, <3>1, <3>2 DEF SignInInv, AccTypes
  <2>2. /\ login'[c] = [login[c] EXCEPT !.account = n, !.state = "Lobby"]
        /\ login[c] \in LoginRecs /\ \A d \in Guests \ {c} : login'[d] = login[d]
    BY <1>2, <1>9, Typed DEF SignInInv, AccTypes
  <2>3. login'[c] \in LoginRecs /\ login'[c].state = "Lobby" /\ login'[c].account = n
    BY <1>4, <2>2 DEF LoginRecs
  <2>4. AccTypes'
    BY <1>1, <1>9, <2>1, <2>2, <2>3 DEF SignInInv, AccTypes
  <2>5. SignedIn(c)'
    BY <1>1, <1>4, <1>9, <2>1, <2>3 DEF SignedIn
  <2>6. Stage(c)'
    BY <1>1, <1>2, <1>4, <1>5, <2>3, <2>5 DEF Stage
  <2>7. \A d \in Guests \ {c} : Same(d)
    BY <1>1, <2>1, <2>2 DEF Same
  <2> QED BY <1>7, <1>9, <2>4, <2>6, <2>7
<1> QED BY <1>1, <1>8, <1>9

LEMMA FileTypes ==
  ASSUME SignInInv
  PROVE  Absent \in Files /\ Partial \in Files /\ File(store) \in Files /\ Nothing \in Accs
<1>1. Nothing \in Accs BY DEF Nothing, Accs
<1> QED BY <1>1 DEF SignInInv, AccTypes, Absent, Partial, File, Files

(* A step of a save that does not end it. *)
LEMMA NextStepKeeps ==
  ASSUME SignInInv, saving # Idle, NEW s \in {"flush", "aside", "replace"}, NextStep(s),
         disk' \in [atomic : BOOLEAN, main : Files, tmp : Files, bak : Files]
  PROVE  SignInInv'
<1>1. /\ saving' = [saving EXCEPT !.step = s]
      /\ UNCHANGED <<guest, upAuth, downAuth, login, alive, store, told>>
  BY DEF NextStep, SaveRest
<1>2. /\ saving' \in [for : Guests, step : {"write", "flush", "aside", "replace"}]
      /\ saving'.for = saving.for
  BY <1>1 DEF SignInInv, AccTypes
<1>3. AccTypes' BY <1>1, <1>2 DEF SignInInv, AccTypes
<1>4. Stages'
  <2> SUFFICES ASSUME NEW d \in Guests PROVE Stage(d)' BY DEF Stages
  <2> QED BY <1>1, <1>2, SameStage DEF SignInInv, Stages, Same, Busy
<1>5. alive
  BY DEF SignInInv, Down
<1> QED BY <1>1, <1>2, <1>3, <1>4, <1>5 DEF SignInInv, Down, Alone, Creating, Busy

LEMMA SaveKeeps ==
  ASSUME SignInInv, Save
  PROVE  SignInInv'
<1> DEFINE Disks == [atomic : BOOLEAN, main : Files, tmp : Files, bak : Files]
<1>1. disk \in Disks /\ disk.main \in Files /\ disk.tmp \in Files /\ disk.bak \in Files
  BY DEF SignInInv, AccTypes
<1>2. CASE SaveFails
  <2>1. saving # Idle /\ alive /\ EndSave(FALSE) /\ disk' = [disk EXCEPT !.tmp = Absent]
    BY <1>2, NobodyElse DEF SaveFails
  <2>2. disk' \in Disks BY <1>1, <2>1, FileTypes
  <2> QED BY <2>1, <2>2, EndSaveKeeps
<1>3. CASE SaveOpen
  <2>1. saving # Idle /\ NextStep("flush") /\ disk' = [disk EXCEPT !.tmp = Partial]
    BY <1>3, NobodyElse DEF SaveOpen, Saving, OpenForWrite
  <2>2. disk' \in Disks BY <1>1, <2>1, FileTypes
  <2> QED BY <2>1, <2>2, NextStepKeeps
<1>4. CASE SaveFlush
  <2>1. /\ saving # Idle /\ (NextStep("aside") \/ NextStep("replace"))
        /\ disk' = [disk EXCEPT !.tmp = File(store)]
    BY <1>4, NobodyElse DEF SaveFlush, Saving
  <2>2. disk' \in Disks BY <1>1, <2>1, FileTypes
  <2> QED BY <2>1, <2>2, NextStepKeeps
<1>5. CASE SaveAside
  <2>1. /\ saving # Idle /\ NextStep("replace")
        /\ \/ disk' = [disk EXCEPT !.bak = disk.main, !.main = Absent]
           \/ disk' = [disk EXCEPT !.bak = Absent]
    BY <1>5, NobodyElse DEF SaveAside, Saving
  <2>2. disk' \in Disks BY <1>1, <2>1, FileTypes
  <2> QED BY <2>1, <2>2, NextStepKeeps
<1>6. CASE SaveReplace
  <2>1. saving # Idle /\ alive
    BY <1>6, NobodyElse DEF SaveReplace, Saving
  <2>2. \/ /\ EndSave(TRUE)
           /\ disk' = [disk EXCEPT !.main = disk.tmp, !.tmp = Absent, !.bak = Absent]
        \/ /\ EndSave(FALSE)
           /\ disk' = [disk EXCEPT !.main = IF HadOld THEN disk.bak ELSE @,
                                   !.tmp = Absent, !.bak = Absent]
    BY <1>6 DEF SaveReplace
  <2>3. disk' \in Disks BY <1>1, <2>2, FileTypes
  <2> QED BY <2>1, <2>2, <2>3, EndSaveKeeps
<1> QED BY <1>2, <1>3, <1>4, <1>5, <1>6 DEF Save

LEMMA KillKeeps ==
  ASSUME SignInInv, Kill
  PROVE  SignInInv'
<1>1. /\ alive' = FALSE /\ saving' = Idle /\ store' = Nothing
      /\ login' = [c \in Guests |-> NoLogin] /\ upAuth' = [c \in Guests |-> <<>>]
      /\ UNCHANGED <<guest, downAuth, disk, told>>
  BY DEF Kill
<1>2. AccTypes' BY <1>1, FileTypes, NobodyElse DEF SignInInv, AccTypes
<1>3. \A c \in Guests : login'[c] = NoLogin /\ ~Busy(c)'
  BY <1>1, NobodyElse DEF Busy
<1>4. Stages'
  BY <1>1, <1>3, NobodyElse DEF SignInInv, Stages, Stage
<1> QED BY <1>1, <1>2, <1>3, <1>4 DEF SignInInv, Down, Alone, Creating

LEMMA StartKeeps ==
  ASSUME SignInInv, Start
  PROVE  SignInInv'
<1>1. /\ alive' = TRUE /\ store' = disk.main.acc /\ saving = Idle
      /\ \A c \in Guests : login[c] = NoLogin
      /\ UNCHANGED <<guest, upAuth, downAuth, login, disk, saving, told>>
  BY DEF Start, Loads, SignInInv, Down
<1>2. store' \in Accs BY <1>1 DEF SignInInv, AccTypes, Files
<1>3. AccTypes' BY <1>1, <1>2 DEF SignInInv, AccTypes
<1>4. \A c \in Guests : ~Busy(c)' BY <1>1, NobodyElse DEF Busy
<1>5. Stages'
  BY <1>1, <1>4, NobodyElse DEF SignInInv, Stages, Stage
<1> QED BY <1>1, <1>3, <1>4, <1>5 DEF SignInInv, Down, Alone, Creating

(* Nothing that is spoken of changes: a lockout ends, or nothing happens.   *)
LEMMA RestKeeps ==
  ASSUME SignInInv, UNCHANGED <<guest, upAuth, downAuth, login, alive, fileVars, told>>
  PROVE  SignInInv'
<1>1. UNCHANGED <<store, disk, saving>> BY DEF fileVars
<1>2. AccTypes' BY <1>1 DEF SignInInv, AccTypes
<1>3. Stages'
  BY <1>1 DEF SignInInv, Stages, Stage, Busy, BeingSaved, Agreed, Asking, Rejected, SignedIn
<1> QED BY <1>1, <1>2, <1>3 DEF SignInInv, Down, Alone, Creating, Busy

(* Client and server are at one stage of the exchange with each other, and  *)
(* nobody is signed in to an account that is still being created.           *)
THEOREM SignInHolds == AccSpec => []SignInInv
<1>1. SignInInv /\ [AccNext]_accVars => SignInInv'
  <2> SUFFICES ASSUME SignInInv, [AccNext]_accVars PROVE SignInInv'
    OBVIOUS
  <2>1. ASSUME NEW c \in Guests, NEW n \in Names, NEW pw \in {c, Typo}, Begin(c, n, pw)
        PROVE  SignInInv'
    BY <2>1, BeginKeeps
  <2>2. ASSUME NEW c \in Guests,
               \/ OnChallenge(c) \/ PumpDerive(c) \/ OnResult(c) \/ OnWelcome(c) \/ HangUp(c)
        PROVE  SignInInv'
    BY <2>2, OnChallengeKeeps, PumpDeriveKeeps, OnResultKeeps, OnWelcomeKeeps, HangUpKeeps
  <2>3. ASSUME NEW c \in Guests, AuthBegin(c) \/ AuthProof(c) \/ AuthRegister(c)
        PROVE  SignInInv'
    BY <2>3, AuthBeginKeeps, AuthProofKeeps, AuthRegisterKeeps
  <2>4. CASE Save \/ Kill \/ Start
    BY <2>4, SaveKeeps, KillKeeps, StartKeeps
  <2>5. ASSUME NEW k \in Keys, Wait(k) PROVE SignInInv'
    BY <2>5, RestKeeps DEF Wait
  <2>6. CASE UNCHANGED accVars
    BY <2>6, RestKeeps DEF accVars
  <2> QED BY <2>1, <2>2, <2>3, <2>4, <2>5, <2>6 DEF AccNext
<1> QED BY <1>1, AccStarts, PTL DEF AccSpec

(* Whoever is signed in to an account has its password, and who is in the   *)
(* lobby is signed in under the name it asked for: two who register one     *)
(* name at the same moment do not share it.                                 *)
THEOREM OneOwner == AccSpec => []AccountHasOneOwner
<1>1. SignInInv => AccountHasOneOwner
  <2> SUFFICES ASSUME SignInInv, NEW c \in Guests
               PROVE  /\ login[c].account # Nobody => store[login[c].account] = guest[c].pw
                      /\ login[c].state # "none" /\ guest[c].phase = "lobby"
                           => login[c].account = guest[c].user
    BY DEF AccountHasOneOwner
  <2>1. login[c].account # Nobody => store[login[c].account] = guest[c].pw
    BY Accounted
  <2>2. login[c].state # "none" /\ guest[c].phase = "lobby" => login[c].account = guest[c].user
    BY Typed DEF SignInInv, Stages, Stage, Asking, Rejected, BeingSaved, SignedIn
  <2> QED BY <2>1, <2>2
<1> QED BY <1>1, SignInHolds, PTL

-----------------------------------------------------------------------------
(* OnDisk: what the accounts file holds.                                    *)

(* The file is the store, but for the account that is being created. *)
Matches ==
  alive => \A n \in Names : disk.main.acc[n] = IF Creating(n) THEN Nobody ELSE store[n]

(* Of what a client is being told, the file has the account. *)
Mail(c) ==
  \A b \in BOOLEAN, pw \in Passwords :
    downAuth[c] = <<Verdict(b, pw), Welcome>> =>
      guest[c].user \in Names /\ disk.main.acc[guest[c].user] = pw

OnDisk ==
  /\ disk.bak = Absent /\ disk.main.state \in {"absent", "whole"}
  /\ saving.step # "aside" /\ (saving.step = "replace" => disk.tmp = File(store))
  /\ Matches
  /\ \A n \in Names : told[n] # Nobody => disk.main.acc[n] = told[n]
  /\ \A c \in Guests : Mail(c)

DiskInv == ~Windows => OnDisk

(* Only the last rename changes the accounts file.                          *)
LEMMA DiskStays ==
  ASSUME SignInInv, DiskInv, UNCHANGED <<disk, told>>,
         saving'.step # "aside", saving'.step # "replace", Matches',
         ~Windows => \A c \in Guests : Mail(c) => Mail(c)'
  PROVE  DiskInv'
BY DEF DiskInv, OnDisk, Windows

(* Of one client only: frames are read, or one that is no success is sent.  *)
LEMMA MailStays ==
  ASSUME UNCHANGED disk, NEW c \in Guests,
         \A d \in Guests \ {c} : guest'[d] = guest[d] /\ downAuth'[d] = downAuth[d],
         \A b, pw : downAuth'[c] # <<Verdict(b, pw), Welcome>>
  PROVE  \A d \in Guests : Mail(d) => Mail(d)'
BY DEF Mail

LEMMA NotVerdict ==
  ASSUME NEW b, NEW pw
  PROVE  /\ <<>> # <<Verdict(b, pw), Welcome>>
         /\ \A f : <<f>> # <<Verdict(b, pw), Welcome>>
         /\ \A x \in Batches : x # <<>> => Tail(x) # <<Verdict(b, pw), Welcome>>
<1>1. \A f : <<f>> # <<Verdict(b, pw), Welcome>> /\ <<>> # <<Verdict(b, pw), Welcome>>
  OBVIOUS
<1> QED BY <1>1, Batched

(* While the store, the save in hand and the logins being saved stay.       *)
LEMMA MatchesStay ==
  ASSUME Matches, UNCHANGED <<disk, alive, store, saving>>,
         \A c \in Guests : Busy(c) => login'[c] = login[c]
  PROVE  Matches'
<1>1. \A n : Creating(n)' <=> Creating(n)
  BY DEF Creating, Busy
<1> QED BY <1>1 DEF Matches

(* The client reads a frame, sends a proof or hangs up.                     *)
LEMMA ClientOnDisk ==
  ASSUME SignInInv, DiskInv, NEW c \in Guests,
         UNCHANGED <<alive, store, disk, saving>>,
         \A d \in Guests \ {c} : Same(d), Busy(c) => login'[c] = login[c],
         \A b, pw : downAuth'[c] # <<Verdict(b, pw), Welcome>>,
         ~Windows => \A n \in Names : told'[n] # Nobody => disk.main.acc[n] = told'[n]
  PROVE  DiskInv'
<1>1. ASSUME OnDisk PROVE Matches'
  BY <1>1, MatchesStay DEF OnDisk, Same
<1>2. ASSUME OnDisk PROVE \A d \in Guests : Mail(d)'
  BY <1>2, MailStays DEF OnDisk, Same
<1> QED BY <1>1, <1>2 DEF DiskInv, OnDisk, Windows

LEMMA BeginOnDisk ==
  ASSUME SignInInv, DiskInv, NEW c \in Guests, NEW n \in Names, NEW pw \in {c, Typo},
         Begin(c, n, pw)
  PROVE  DiskInv'
<1>1. /\ UNCHANGED <<downAuth, alive, store, disk, saving, told>>
      /\ guest' = [guest EXCEPT ![c] = [phase |-> "begun", user |-> n, pw |-> pw, fresh |-> FALSE]]
      /\ login' = [login EXCEPT ![c].state = "Auth"]
      /\ upAuth' = [upAuth EXCEPT ![c] = <<[kind |-> "AuthBegin", user |-> n]>>]
      /\ guest[c].phase = "away"
  BY DEF Begin, fileVars
<1>2. downAuth[c] = <<>> /\ ~Busy(c)
  BY <1>1 DEF SignInInv, Stages, Stage
<1>3. \A d \in Guests \ {c} : Same(d)
  BY <1>1 DEF SignInInv, AccTypes, Same
<1>4. UNCHANGED <<alive, store, disk, saving>> /\ told' = told
  BY <1>1
<1>5. \A b, p : downAuth'[c] # <<Verdict(b, p), Welcome>>
  <2>1. downAuth'[c] = <<>>
    BY <1>1, <1>2
  <2> QED BY <2>1, NotVerdict
<1>6. ~Windows => \A m \in Names : told'[m] # Nobody => disk.main.acc[m] = told'[m]
  BY <1>4 DEF DiskInv, OnDisk
<1> QED BY <1>2, <1>3, <1>4, <1>5, <1>6, ClientOnDisk

LEMMA ReadOnDisk ==
  ASSUME SignInInv, DiskInv, NEW c \in Guests, NEW kind, HasFrame(c, kind), Consume(c),
         \A d \in Guests \ {c} : guest'[d] = guest[d],
         ~Windows => \A n \in Names : told'[n] # Nobody => disk.main.acc[n] = told'[n]
  PROVE  DiskInv'
<1>1. /\ downAuth[c] # <<>> /\ downAuth'[c] = Tail(downAuth[c])
      /\ \A d \in Guests \ {c} : Same(d)
      /\ UNCHANGED <<login, alive, store, disk, saving>>
  BY Reads
<1>2. \A b, pw : downAuth'[c] # <<Verdict(b, pw), Welcome>>
  BY <1>1, NotVerdict, Typed
<1> QED BY <1>1, <1>2, ClientOnDisk

LEMMA OnChallengeOnDisk ==
  ASSUME SignInInv, DiskInv, NEW c \in Guests, OnChallenge(c)
  PROVE  DiskInv'
<1>1. /\ HasFrame(c, "AuthChallenge") /\ Consume(c) /\ told' = told
      /\ \A d \in Guests \ {c} : guest'[d] = guest[d]
  BY DEF OnChallenge, SignInInv, AccTypes
<1> QED BY <1>1, ReadOnDisk DEF DiskInv, OnDisk

LEMMA OnWelcomeOnDisk ==
  ASSUME SignInInv, DiskInv, NEW c \in Guests, OnWelcome(c)
  PROVE  DiskInv'
<1>1. /\ HasFrame(c, "Welcome") /\ Consume(c) /\ told' = told
      /\ \A d \in Guests \ {c} : guest'[d] = guest[d]
  BY DEF OnWelcome, SignInInv, AccTypes
<1> QED BY <1>1, ReadOnDisk DEF DiskInv, OnDisk

(* What a client takes for its account is in the file already.              *)
LEMMA OnResultOnDisk ==
  ASSUME SignInInv, DiskInv, NEW c \in Guests, OnResult(c)
  PROVE  DiskInv'
<1> DEFINE f == Head(downAuth[c])
<1>1. /\ HasFrame(c, "AuthResult") /\ Consume(c)
      /\ \A d \in Guests \ {c} : guest'[d] = guest[d]
      /\ \/ told' = told
         \/ /\ told' = [told EXCEPT ![guest[c].user] = guest[c].pw]
            /\ f.status \in {"Ok", "Created"} /\ f.sig = guest[c].pw
  BY DEF OnResult, SignInInv, AccTypes
<1>2. ASSUME OnDisk, NEW n \in Names, told'[n] # Nobody
      PROVE  disk.main.acc[n] = told'[n]
  <2>1. CASE told' = told
    BY <1>2, <2>1 DEF OnDisk
  <2>2. CASE /\ told' = [told EXCEPT ![guest[c].user] = guest[c].pw]
             /\ f.status \in {"Ok", "Created"} /\ f.sig = guest[c].pw
    <3>1. downAuth[c] # <<>> /\ f.kind = "AuthResult"
      BY <1>1 DEF HasFrame
    <3>2. \A s \in Refusals : downAuth[c] # <<Result(s)>>
      BY <2>2, Frames DEF Result, Refusals
    <3>3. PICK b \in BOOLEAN, pw \in Passwords : downAuth[c] = <<Verdict(b, pw), Welcome>>
      BY <3>1, <3>2, Batched, Typed
    <3>4. pw = guest[c].pw
      BY <2>2, <3>3, Frames DEF Verdict
    <3>5. disk.main.acc[guest[c].user] = guest[c].pw
      BY <1>2, <3>3, <3>4 DEF OnDisk, Mail
    <3> QED BY <1>2, <2>2, <3>5 DEF OnDisk, SignInInv, AccTypes, Accs
  <2> QED BY <1>1, <2>1, <2>2
<1> QED BY <1>1, <1>2, ReadOnDisk DEF DiskInv

LEMMA PumpDeriveOnDisk ==
  ASSUME SignInInv, DiskInv, NEW c \in Guests, PumpDerive(c)
  PROVE  DiskInv'
<1>1. /\ UNCHANGED <<downAuth, login, alive, store, disk, saving, told>>
      /\ \A d \in Guests \ {c} : guest'[d] = guest[d]
      /\ guest[c].phase = "deriving" /\ guest'[c].user = guest[c].user
  BY Typed DEF PumpDerive, GuestRest, fileVars, SignInInv, AccTypes, GuestRecs
<1>2. ASSUME OnDisk PROVE Matches' /\ \A d \in Guests : Mail(d)'
  BY <1>1, <1>2, MatchesStay DEF OnDisk, Mail
<1> QED BY <1>1, <1>2 DEF DiskInv, OnDisk, Windows

LEMMA HangUpOnDisk ==
  ASSUME SignInInv, DiskInv, NEW c \in Guests, HangUp(c)
  PROVE  DiskInv'
<1>1. /\ UNCHANGED <<alive, store, disk, saving, told>> /\ ~Busy(c)
      /\ \A d \in Guests \ {c} : Same(d)
      /\ downAuth'[c] = <<>>
  BY DEF HangUp, fileVars, Busy, SignInInv, AccTypes, Same
<1> QED BY <1>1, ClientOnDisk, NotVerdict DEF DiskInv, OnDisk

(* The server answers without a save.                                       *)
LEMMA AnswerOnDisk ==
  ASSUME SignInInv, DiskInv, NEW c \in Guests, NEW kind, Asked(c, kind), UNCHANGED fileVars,
         \A d \in Guests \ {c} : downAuth'[d] = downAuth[d],
         \A b, pw : downAuth'[c] # <<Verdict(b, pw), Welcome>>
  PROVE  DiskInv'
<1>1. saving = Idle /\ UNCHANGED <<guest, told>> /\ alive' = alive
  BY Asks
<1>2. UNCHANGED <<store, disk, saving>> BY DEF fileVars
<1>3. ASSUME OnDisk PROVE Matches'
  BY <1>1, <1>2, <1>3, MatchesStay, NobodyElse DEF OnDisk, Busy
<1>4. ASSUME OnDisk PROVE \A d \in Guests : Mail(d)'
  BY <1>1, <1>2, <1>4, MailStays DEF OnDisk
<1> QED BY <1>1, <1>2, <1>3, <1>4 DEF DiskInv, OnDisk, Windows

LEMMA RefuseOnDisk ==
  ASSUME SignInInv, DiskInv, NEW c \in Guests, NEW kind, Asked(c, kind), NEW s,
         Refuse(c, s), UNCHANGED fileVars
  PROVE  DiskInv'
<1>1. downAuth[c] = <<>> BY Asks
<1>2. downAuth' = [downAuth EXCEPT ![c] = <<Result(s)>>]
  BY <1>1, Frames DEF Refuse, Reply
<1>3. downAuth'[c] = <<Result(s)>> /\ \A d \in Guests \ {c} : downAuth'[d] = downAuth[d]
  BY <1>2 DEF SignInInv, AccTypes
<1> QED BY <1>3, AnswerOnDisk, NotVerdict

LEMMA AuthBeginOnDisk ==
  ASSUME SignInInv, DiskInv, NEW c \in Guests, AuthBegin(c)
  PROVE  DiskInv'
<1>1. Asked(c, "AuthBegin") /\ UNCHANGED fileVars
  BY DEF AuthBegin
<1>2. PICK f : Reply(c, <<f>>)
  BY DEF AuthBegin, Refuse
<1>3. downAuth[c] = <<>> BY <1>1, Asks
<1>4. downAuth' = [downAuth EXCEPT ![c] = <<f>>]
  BY <1>2, <1>3, Frames DEF Reply
<1>5. downAuth'[c] = <<f>> /\ \A d \in Guests \ {c} : downAuth'[d] = downAuth[d]
  BY <1>4 DEF SignInInv, AccTypes
<1> QED BY <1>1, <1>5, AnswerOnDisk, NotVerdict

LEMMA SaveBeginsOnDisk ==
  ASSUME SignInInv, DiskInv, NEW c \in Guests, NEW kind, Asked(c, kind), StartSave(c),
         UNCHANGED <<disk, downAuth>>, OnDisk => Matches'
  PROVE  DiskInv'
<1>1. UNCHANGED <<guest, told>> BY Asks
<1>2. saving'.step = "write" BY DEF StartSave
<1>3. ASSUME OnDisk PROVE \A d \in Guests : Mail(d)'
  BY <1>1, <1>3 DEF OnDisk, Mail
<1> QED BY <1>1, <1>2, <1>3 DEF DiskInv, OnDisk, Windows

LEMMA AuthProofOnDisk ==
  ASSUME SignInInv, DiskInv, NEW c \in Guests, AuthProof(c)
  PROVE  DiskInv'
<1> DEFINE n == login[c].user
<1>1. /\ Asked(c, "AuthProof")
      /\ \/ Refuse(c, "Throttled") /\ UNCHANGED fileVars
         \/ Refuse(c, "BadPassword") /\ UNCHANGED fileVars
         \/ /\ StartSave(c) /\ login' = [login EXCEPT ![c].account = n]
            /\ UNCHANGED <<store, disk, downAuth>>
  BY DEF AuthProof
<1>2. CASE /\ StartSave(c) /\ login' = [login EXCEPT ![c].account = n]
           /\ UNCHANGED <<store, disk, downAuth>>
  <2>1. /\ saving = Idle /\ alive' = alive /\ alive
        /\ "AuthProof" = IF login[c].fresh THEN "AuthRegister" ELSE "AuthProof"
    BY <1>1, Asks
  <2>2. login'[c].fresh = login[c].fresh /\ ~login[c].fresh
    BY <1>2, <2>1, Typed DEF SignInInv, AccTypes, LoginRecs
  <2>3. \A d \in Guests : Busy(d)' => d = c
    BY <1>2 DEF StartSave, Busy
  <2>4. \A m : ~Creating(m)' /\ ~Creating(m)
    BY <2>1, <2>2, <2>3, IdleCreates DEF Creating
  <2>5. Matches => Matches'
    BY <1>2, <2>1, <2>4 DEF Matches
  <2> QED BY <1>1, <1>2, <2>5, SaveBeginsOnDisk DEF OnDisk
<1> QED BY <1>1, <1>2, RefuseOnDisk

LEMMA AuthRegisterOnDisk ==
  ASSUME SignInInv, DiskInv, NEW c \in Guests, AuthRegister(c)
  PROVE  DiskInv'
<1> DEFINE n == login[c].user
<1>1. /\ Asked(c, "AuthRegister")
      /\ \/ Refuse(c, "Throttled") /\ UNCHANGED fileVars
         \/ Refuse(c, "NameTaken") /\ UNCHANGED fileVars
         \/ /\ store[n] = Nobody /\ StartSave(c)
            /\ store' = [store EXCEPT ![n] = Head(upAuth[c]).pw]
            /\ UNCHANGED <<disk, downAuth, login>>
  BY DEF AuthRegister, Taken
<1>2. CASE /\ store[n] = Nobody /\ StartSave(c)
           /\ store' = [store EXCEPT ![n] = Head(upAuth[c]).pw]
           /\ UNCHANGED <<disk, downAuth, login>>
  <2>1. /\ saving = Idle /\ alive' = alive /\ alive
        /\ "AuthRegister" = IF login[c].fresh THEN "AuthRegister" ELSE "AuthProof"
    BY <1>1, Asks
  <2>2. login[c].fresh BY <2>1
  <2>3. \A d \in Guests : Busy(d)' <=> d = c
    BY <1>2 DEF StartSave, Busy
  <2>4. \A m : Creating(m)' <=> m = n
    BY <1>2, <2>2, <2>3 DEF Creating
  <2>5. \A m : ~Creating(m)
    BY <2>1, IdleCreates
  <2>6. \A m \in Names \ {n} : store'[m] = store[m]
    BY <1>2 DEF SignInInv, AccTypes, Accs
  <2>7. Matches => Matches'
    BY <1>2, <2>1, <2>4, <2>5, <2>6 DEF Matches
  <2> QED BY <1>1, <1>2, <2>7, SaveBeginsOnDisk DEF OnDisk
<1> QED BY <1>1, <1>2, RefuseOnDisk

(* A save ends: for the account it created the file has it by now, or the   *)
(* store has it no more.                                                    *)
LEMMA EndSaveOnDisk ==
  ASSUME SignInInv, OnDisk, NEW ok \in BOOLEAN, saving # Idle, alive, EndSave(ok),
         disk'.bak = Absent, disk'.main.state \in {"absent", "whole"},
         IF ok THEN disk'.main.acc = store ELSE disk'.main = disk.main
  PROVE  OnDisk'
<1>1. PICK c \in Guests : saving.for = c
  BY DEF SignInInv, AccTypes
<1> DEFINE n == login[c].user
           creating == login[c].fresh
           taken == creating /\ ~ok
<1>2. /\ saving' = Idle /\ UNCHANGED <<guest, alive, told>>
      /\ \/ /\ taken /\ store' = [store EXCEPT ![n] = Nobody]
            /\ downAuth' = [downAuth EXCEPT ![c] = @ \o <<Result("ServerError")>>]
         \/ /\ ~taken /\ UNCHANGED store
            /\ downAuth' = [downAuth EXCEPT ![c] = @ \o <<Verdict(creating, store[n]), Welcome>>]
  <2>1. saving' = Idle /\ UNCHANGED <<guest, alive, told>>
    BY DEF EndSave, SaveRest
  <2>2. CASE taken
    BY <1>1, <2>1, <2>2 DEF EndSave, Refuse, Reply
  <2>3. CASE ~taken
    <3>1. UNCHANGED store
      BY <1>1, <2>3 DEF EndSave
    <3>2. Signed(c, IF creating THEN "Created" ELSE "Ok")
      BY <1>1, <2>3 DEF EndSave
    <3>3. downAuth' = [downAuth EXCEPT ![c] = @ \o <<Verdict(creating, store[n]), Welcome>>]
      BY <3>1, <3>2 DEF Signed, Reply, Verdict, Welcome
    <3> QED BY <2>1, <2>3, <3>1, <3>3
  <2> QED BY <2>2, <2>3
<1>3. Busy(c) /\ \A d \in Guests : Busy(d) => d = c
  BY <1>1 DEF Busy
<1>4. BeingSaved(c)
  BY <1>3, Typed DEF SignInInv, Stages, Stage
<1>5. /\ downAuth[c] = <<>> /\ store[n] = guest[c].pw /\ guest[c].pw \in Passwords
      /\ n = guest[c].user /\ n \in Names /\ creating \in BOOLEAN
  BY <1>4, Typed DEF BeingSaved, Agreed
<1>6. \A m : Creating(m) <=> creating /\ m = n
  BY <1>3 DEF Creating
<1>7. saving'.step = "none" /\ \A m : ~Creating(m)'
  BY <1>2, NobodyElse DEF Creating, Busy
<1>8. \A m \in Names : disk'.main.acc[m] = store'[m]
  <2>1. CASE ok
    BY <1>2, <2>1
  <2>2. CASE ~ok /\ ~creating
    BY <1>2, <1>6, <2>2 DEF OnDisk, Matches
  <2>3. CASE ~ok /\ creating
    <3>1. \A m \in Names : store'[m] = IF m = n THEN Nobody ELSE store[m]
      BY <1>2, <2>3 DEF SignInInv, AccTypes, Accs
    <3> QED BY <1>6, <2>3, <3>1 DEF OnDisk, Matches
  <2> QED BY <2>1, <2>2, <2>3
(* No account that anybody has is lost. *)
<1>9. \A m \in Names : disk.main.acc[m] # Nobody => disk'.main.acc[m] = disk.main.acc[m]
  BY <1>6 DEF OnDisk, Matches
<1>10. \A m \in Names : told'[m] # Nobody => disk'.main.acc[m] = told'[m]
  BY <1>2, <1>9 DEF OnDisk
<1>11. ASSUME NEW d \in Guests PROVE Mail(d)'
  <2>1. CASE d # c
    <3>1. downAuth'[d] = downAuth[d] /\ guest'[d] = guest[d]
      BY <1>2, <2>1 DEF SignInInv, AccTypes
    <3> SUFFICES ASSUME NEW b \in BOOLEAN, NEW pw \in Passwords,
                        downAuth[d] = <<Verdict(b, pw), Welcome>>
                 PROVE  guest[d].user \in Names /\ disk'.main.acc[guest[d].user] = pw
      BY <3>1 DEF Mail
    <3>2. guest[d].user \in Names /\ disk.main.acc[guest[d].user] = pw
      BY DEF OnDisk, Mail
    <3> QED BY <1>9, <3>2, NobodyElse
  <2>2. CASE d = c /\ downAuth' = [downAuth EXCEPT ![c] = @ \o <<Result("ServerError")>>]
    <3>1. downAuth'[d] = <<Result("ServerError")>>
      BY <1>5, <2>2, Frames DEF SignInInv, AccTypes
    <3> QED BY <3>1, NotVerdict DEF Mail
  <2>3. CASE /\ d = c /\ UNCHANGED store
             /\ downAuth' = [downAuth EXCEPT ![c] = @ \o <<Verdict(creating, store[n]), Welcome>>]
    <3>1. downAuth'[d] = <<Verdict(creating, store[n]), Welcome>>
      BY <1>5, <2>3, Frames DEF SignInInv, AccTypes
    <3>2. disk'.main.acc[guest'[d].user] = store[n] /\ guest'[d].user \in Names
      BY <1>2, <1>5, <1>8, <2>3
    <3>3. \A b, pw : <<Verdict(b, pw), Welcome>> = <<Verdict(creating, store[n]), Welcome>>
            => pw = store[n]
      BY Frames DEF Verdict
    <3> QED BY <3>1, <3>2, <3>3 DEF Mail
  <2> QED BY <1>2, <2>1, <2>2, <2>3
<1> QED BY <1>7, <1>8, <1>10, <1>11 DEF OnDisk, Matches

LEMMA SaveOnDisk ==
  ASSUME SignInInv, DiskInv, Save
  PROVE  DiskInv'
<1>1. /\ disk.atomic \in BOOLEAN /\ disk.main \in Files /\ disk.tmp \in Files /\ disk.bak \in Files
      /\ disk = [atomic |-> disk.atomic, main |-> disk.main, tmp |-> disk.tmp, bak |-> disk.bak]
  BY DEF SignInInv, AccTypes
<1>2. disk'.atomic = disk.atomic
  BY <1>1 DEF Save, SaveFails, SaveOpen, SaveFlush, SaveAside, SaveReplace, OpenForWrite
<1> SUFFICES ASSUME ~Windows, OnDisk PROVE OnDisk'
  BY <1>2 DEF DiskInv, Windows
<1>3. ASSUME NEW s \in {"flush", "replace"}, NextStep(s), disk'.main = disk.main,
             disk'.bak = disk.bak, s = "replace" => disk'.tmp = File(store), saving # Idle
      PROVE  OnDisk'
  <2>1. /\ saving' = [saving EXCEPT !.step = s]
        /\ UNCHANGED <<guest, downAuth, login, alive, store, told>>
    BY <1>3 DEF NextStep, SaveRest
  <2>2. saving'.for = saving.for /\ saving'.step = s
    BY <1>3, <2>1 DEF SignInInv, AccTypes
  <2>3. \A m : Creating(m)' <=> Creating(m)
    BY <2>1, <2>2 DEF Creating, Busy
  <2> QED BY <1>3, <2>1, <2>2, <2>3 DEF OnDisk, Matches, Mail
<1>4. CASE SaveFails
  <2>1. saving # Idle /\ alive /\ EndSave(FALSE) /\ disk' = [disk EXCEPT !.tmp = Absent]
    BY <1>4, NobodyElse DEF SaveFails
  <2>2. disk'.bak = disk.bak /\ disk'.main = disk.main
    BY <1>1, <2>1
  <2> QED BY <2>1, <2>2, EndSaveOnDisk DEF OnDisk
<1>5. CASE SaveOpen
  <2>1. saving # Idle /\ NextStep("flush") /\ disk' = [disk EXCEPT !.tmp = Partial]
    BY <1>5, NobodyElse DEF SaveOpen, Saving, OpenForWrite
  <2>2. disk'.bak = disk.bak /\ disk'.main = disk.main
    BY <1>1, <2>1
  <2> QED BY <1>3, <2>1, <2>2
<1>6. CASE SaveFlush
  <2>1. saving # Idle /\ NextStep("replace") /\ disk' = [disk EXCEPT !.tmp = File(store)]
    BY <1>6, NobodyElse DEF SaveFlush, Saving
  <2>2. disk'.bak = disk.bak /\ disk'.main = disk.main /\ disk'.tmp = File(store)
    BY <1>1, <2>1
  <2> QED BY <1>3, <2>1, <2>2
<1>7. CASE SaveAside
  BY <1>7 DEF SaveAside, Saving, OnDisk
<1>8. CASE SaveReplace
  <2>1. saving # Idle /\ alive /\ disk.tmp = File(store)
    BY <1>8, NobodyElse DEF SaveReplace, Saving, OnDisk
  <2>2. ~HadOld
    BY DEF HadOld, OnDisk, Absent
  <2>3. \/ /\ EndSave(TRUE)
           /\ disk' = [disk EXCEPT !.main = disk.tmp, !.tmp = Absent, !.bak = Absent]
        \/ /\ EndSave(FALSE)
           /\ disk' = [disk EXCEPT !.main = IF HadOld THEN disk.bak ELSE @,
                                   !.tmp = Absent, !.bak = Absent]
    BY <1>8 DEF SaveReplace
  <2>4. CASE /\ EndSave(TRUE)
             /\ disk' = [disk EXCEPT !.main = disk.tmp, !.tmp = Absent, !.bak = Absent]
    <3>1. disk'.bak = Absent /\ disk'.main = File(store)
      BY <1>1, <2>1, <2>4
    <3>2. disk'.main.acc = store /\ disk'.main.state = "whole"
      BY <3>1 DEF File
    <3> QED BY <2>1, <2>4, <3>1, <3>2, EndSaveOnDisk
  <2>5. CASE /\ EndSave(FALSE)
             /\ disk' = [disk EXCEPT !.main = IF HadOld THEN disk.bak ELSE @,
                                     !.tmp = Absent, !.bak = Absent]
    <3>1. disk'.bak = Absent /\ disk'.main = disk.main
      BY <1>1, <2>2, <2>5
    <3> QED BY <2>1, <2>5, <3>1, EndSaveOnDisk DEF OnDisk
  <2> QED BY <2>3, <2>4, <2>5
<1> QED BY <1>4, <1>5, <1>6, <1>7, <1>8 DEF Save

LEMMA KillOnDisk ==
  ASSUME SignInInv, DiskInv, Kill
  PROVE  DiskInv'
<1>1. alive' = FALSE /\ saving' = Idle /\ UNCHANGED <<guest, downAuth, disk, told>>
  BY DEF Kill
<1> QED BY <1>1, NobodyElse DEF DiskInv, OnDisk, Windows, Matches, Mail

(* What a server starts with is what the file has. *)
LEMMA StartOnDisk ==
  ASSUME SignInInv, DiskInv, Start
  PROVE  DiskInv'
<1>1. /\ store' = disk.main.acc /\ saving = Idle
      /\ UNCHANGED <<guest, downAuth, login, disk, saving, told>>
  BY DEF Start, Loads, SignInInv, Down
<1>2. \A m : ~Creating(m)'
  BY <1>1, NobodyElse DEF Creating, Busy
<1> QED BY <1>1, <1>2, NobodyElse DEF DiskInv, OnDisk, Windows, Matches, Mail

LEMMA RestOnDisk ==
  ASSUME DiskInv, UNCHANGED <<guest, upAuth, downAuth, login, alive, fileVars, told>>
  PROVE  DiskInv'
<1>1. UNCHANGED <<store, disk, saving>> BY DEF fileVars
<1>2. \A m : Creating(m)' <=> Creating(m)
  BY <1>1 DEF Creating, Busy
<1> QED BY <1>1, <1>2 DEF DiskInv, OnDisk, Windows, Matches, Mail

(* Where rename replaces a file, what a client was told, or is being told,  *)
(* is its account is in the accounts file, whenever the server is killed.   *)
THEOREM DiskHolds == AccSpec => []DiskInv
<1>1. AccInit => DiskInv
  <2> SUFFICES ASSUME AccInit PROVE OnDisk
    BY DEF DiskInv
  <2>1. \A m : ~Creating(m)
    BY NobodyElse DEF AccInit, Creating, Busy
  <2>2. disk.main = Absent /\ disk.bak = Absent
    BY DEF AccInit
  <2>3. \A c \in Guests : Mail(c)
    BY NotVerdict DEF AccInit, Mail
  <2> QED BY <2>1, <2>2, <2>3, NobodyElse DEF AccInit, OnDisk, Matches, Absent, Nothing
<1>2. SignInInv /\ DiskInv /\ [AccNext]_accVars => DiskInv'
  <2> SUFFICES ASSUME SignInInv, DiskInv, [AccNext]_accVars PROVE DiskInv'
    OBVIOUS
  <2>1. ASSUME NEW c \in Guests, NEW n \in Names, NEW pw \in {c, Typo}, Begin(c, n, pw)
        PROVE  DiskInv'
    BY <2>1, BeginOnDisk
  <2>2. ASSUME NEW c \in Guests,
               \/ OnChallenge(c) \/ PumpDerive(c) \/ OnResult(c) \/ OnWelcome(c) \/ HangUp(c)
        PROVE  DiskInv'
    BY <2>2, OnChallengeOnDisk, PumpDeriveOnDisk, OnResultOnDisk, OnWelcomeOnDisk, HangUpOnDisk
  <2>3. ASSUME NEW c \in Guests, AuthBegin(c) \/ AuthProof(c) \/ AuthRegister(c)
        PROVE  DiskInv'
    BY <2>3, AuthBeginOnDisk, AuthProofOnDisk, AuthRegisterOnDisk
  <2>4. CASE Save \/ Kill \/ Start
    BY <2>4, SaveOnDisk, KillOnDisk, StartOnDisk
  <2>5. ASSUME NEW k \in Keys, Wait(k) PROVE DiskInv'
    BY <2>5, RestOnDisk DEF Wait
  <2>6. CASE UNCHANGED accVars
    BY <2>6, RestOnDisk DEF accVars
  <2> QED BY <2>1, <2>2, <2>3, <2>4, <2>5, <2>6 DEF AccNext
<1> QED BY <1>1, <1>2, SignInHolds, PTL DEF AccSpec

(* What a client was told is its account is known to the server, and to one *)
(* started from the file that a killed server left.                         *)
THEOREM CreatedStays == AccSpec => []WhatWasCreatedStays
<1>1. DiskInv => WhatWasCreatedStays
  <2> SUFFICES ASSUME OnDisk, NEW n \in Names, told[n] # Nobody
               PROVE  IF alive THEN store[n] = told[n] ELSE CanLoad /\ Loads[n] = told[n]
    BY DEF DiskInv, WhatWasCreatedStays, Kept
  <2>1. disk.main.acc[n] = told[n] BY DEF OnDisk
  <2>2. CanLoad BY DEF CanLoad, OnDisk
  <2> QED BY <2>1, <2>2 DEF OnDisk, Matches, Loads
<1> QED BY <1>1, DiskHolds, PTL

-----------------------------------------------------------------------------
(* Metered: a key that is not locked has failed at least as often as it was *)
(* judged, and within its allowance; the answer that locks it is the last.  *)

LockTypes == fails \in [Keys -> Nat] /\ judged \in [Keys -> Nat]

Locked(k) == k \in locked /\ judged[k] <= Free(k) + 1

Unlocked(k) == k \notin locked /\ (judged[k] = 0 \/ (judged[k] <= fails[k] /\ fails[k] <= Free(k)))

Metered == LockTypes /\ \A k \in Keys : Locked(k) \/ Unlocked(k)

LEMMA FreeInNat == \A k \in Keys : Free(k) \in Nat
BY AccountsAssumption DEF Free

(* No key that is locked is judged. *)
LEMMA FailMeters ==
  ASSUME Metered, NEW ks, ks \cap locked = {}, Fail(ks)
  PROVE  Metered'
<1>1. LockTypes' BY DEF Metered, LockTypes, Fail
<1>2. ASSUME NEW k \in Keys PROVE Locked(k)' \/ Unlocked(k)'
  <2>1. Free(k) \in Nat /\ fails[k] \in Nat /\ judged[k] \in Nat
    BY FreeInNat DEF Metered, LockTypes
  <2>2. CASE k \in ks
    <3>1. Unlocked(k) BY <2>2 DEF Metered, Locked
    <3>2. fails'[k] = fails[k] + 1 /\ judged'[k] = judged[k] + 1
      BY <2>2 DEF Fail
    <3>3. k \in locked' <=> fails[k] + 1 > Free(k)
      BY <2>2, <3>1 DEF Fail, Unlocked
    <3> QED BY <2>1, <3>1, <3>2, <3>3 DEF Locked, Unlocked, Free
  <2>3. CASE k \notin ks
    BY <2>3 DEF Metered, Locked, Unlocked, Fail, Free
  <2> QED BY <2>2, <2>3
<1> QED BY <1>1, <1>2 DEF Metered

LEMMA SucceedMeters ==
  ASSUME Metered, NEW n, Succeed(n)
  PROVE  Metered'
<1>1. LockTypes' BY DEF Metered, LockTypes, Succeed
<1>2. ASSUME NEW k \in Keys PROVE Locked(k)' \/ Unlocked(k)'
  BY DEF Metered, LockTypes, Locked, Unlocked, Succeed, Free
<1> QED BY <1>1, <1>2 DEF Metered

LEMMA WaitMeters ==
  ASSUME Metered, NEW n \in Keys, Wait(n)
  PROVE  Metered'
<1>1. LockTypes' BY DEF Metered, LockTypes, Wait
<1>2. ASSUME NEW k \in Keys PROVE Locked(k)' \/ Unlocked(k)'
  BY DEF Metered, LockTypes, Locked, Unlocked, Wait, Free
<1> QED BY <1>1, <1>2 DEF Metered

LEMMA SameMeters ==
  ASSUME Metered, UNCHANGED lockVars
  PROVE  Metered'
BY DEF Metered, LockTypes, Locked, Unlocked, lockVars, Free

LEMMA AuthProofMeters ==
  ASSUME Metered, NEW c \in Guests, AuthProof(c)
  PROVE  Metered'
<1> DEFINE n == login[c].user
<1>1. \/ UNCHANGED lockVars
      \/ Succeed(n)
      \/ ~LockedAtProof(c) /\ Fail({AddressOf[c], n})
  BY DEF AuthProof
<1>2. ~LockedAtProof(c) => {AddressOf[c], n} \cap locked = {}
  BY DEF LockedAtProof, LoginLocked
<1> QED BY <1>1, <1>2, FailMeters, SucceedMeters, SameMeters

LEMMA EndSaveMeters ==
  ASSUME Metered, NEW ok \in BOOLEAN, EndSave(ok)
  PROVE  Metered'
<1>1. UNCHANGED lockVars \/ Succeed(login[saving.for].user)
  BY DEF EndSave
<1> QED BY <1>1, SucceedMeters, SameMeters

(* However many logins one address begins at once, and however the server   *)
(* is restarted, no more answers are judged before a lockout than the       *)
(* throttle allows.                                                         *)
THEOREM MeteredAlways == AccSpec => []Metered
<1>1. AccInit => Metered
  BY DEF AccInit, Metered, LockTypes, Unlocked
<1>2. Metered /\ [AccNext]_accVars => Metered'
  <2> SUFFICES ASSUME Metered, [AccNext]_accVars PROVE Metered'
    OBVIOUS
  <2>1. ASSUME NEW c \in Guests, NEW n \in Names, NEW pw \in {c, Typo}, Begin(c, n, pw)
        PROVE  Metered'
    BY <2>1, SameMeters DEF Begin
  <2>2. ASSUME NEW c \in Guests, OnChallenge(c) \/ OnResult(c) \/ OnWelcome(c)
        PROVE  Metered'
    BY <2>2, SameMeters DEF OnChallenge, OnResult, OnWelcome, Consume, GuestRest
  <2>3. ASSUME NEW c \in Guests, PumpDerive(c) \/ HangUp(c) \/ AuthBegin(c)
        PROVE  Metered'
    BY <2>3, SameMeters DEF PumpDerive, HangUp, AuthBegin, GuestRest
  <2>4. ASSUME NEW c \in Guests, AuthProof(c)
        PROVE  Metered'
    BY <2>4, AuthProofMeters
  <2>5. ASSUME NEW c \in Guests, AuthRegister(c)
        PROVE  Metered'
    <3>1. UNCHANGED lockVars \/ (AddressOf[c] \notin locked /\ Fail({AddressOf[c]}))
      BY <2>5 DEF AuthRegister
    <3> QED BY <3>1, FailMeters, SameMeters
  <2>6. CASE Save
    <3>1. CASE SaveFails
      BY <3>1, EndSaveMeters DEF SaveFails
    <3>2. CASE SaveOpen \/ SaveFlush \/ SaveAside
      BY <3>2, SameMeters DEF SaveOpen, SaveFlush, SaveAside, NextStep
    <3>3. CASE SaveReplace
      BY <3>3, EndSaveMeters DEF SaveReplace
    <3> QED BY <2>6, <3>1, <3>2, <3>3 DEF Save
  <2>7. CASE Kill
    BY <2>7 DEF Kill, Metered, LockTypes, Unlocked
  <2>8. CASE Start
    BY <2>8, SameMeters DEF Start
  <2>9. ASSUME NEW k \in Keys, Wait(k) PROVE Metered'
    BY <2>9, WaitMeters
  <2>10. CASE UNCHANGED accVars
    BY <2>10, SameMeters DEF accVars
  <2> QED
    BY <2>1, <2>2, <2>3, <2>4, <2>5, <2>6, <2>7, <2>8, <2>9, <2>10 DEF AccNext
<1> QED BY <1>1, <1>2, PTL DEF AccSpec

THEOREM GuessesMetered == AccSpec => []GuessesAreMetered
<1>1. Metered => GuessesAreMetered
  <2> SUFFICES ASSUME Metered, NEW k \in Keys PROVE judged[k] <= Free(k) + 1
    BY DEF GuessesAreMetered
  <2>1. Free(k) \in Nat /\ fails[k] \in Nat /\ judged[k] \in Nat
    BY FreeInNat DEF Metered, LockTypes
  <2> QED BY <2>1 DEF Metered, Locked, Unlocked
<1> QED BY <1>1, MeteredAlways, PTL
=============================================================================
