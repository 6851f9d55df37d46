------------------------------ MODULE Accounts ------------------------------
(***************************************************************************)
(* Signing in: the exchange between MpClient and the server's authMsg, the  *)
(* account file the server rewrites whole for every change, and the         *)
(* throttle.  The server serves one frame at a time, but may be killed      *)
(* between any two operations on the file, and so may a client between any  *)
(* two frames.                                                              *)
(*                                                                          *)
(* A password stands for the keys that are derived from it: the proof of a  *)
(* client, the verifier in the file and the server's signature are right    *)
(* when they are of the same password.  Names are folded names.  Salts,     *)
(* nonces and malformed frames are left out; time is only what ends a       *)
(* lockout.                                                                 *)
(***************************************************************************)
EXTENDS Naturals, Sequences

CONSTANTS
  Guests,         \* clients; each has a password of its own
  Names,          \* folded user names
  AddressOf,      \* the address a client dials from
  AddressFree,    \* kAddress.freeAttempts
  AccountFree,    \* kAccount.freeAttempts
  MaxDials,       \* bound on the sign-ins begun
  MaxKills,       \* bound on the server's restarts
  MaxWaits        \* bound on the lockouts waited for

Nobody == "nobody"

ASSUME AccountsAssumption ==
  /\ Nobody \notin Guests \cup Names
  /\ AddressFree \in Nat /\ AccountFree \in Nat
  /\ MaxDials \in Nat /\ MaxKills \in Nat /\ MaxWaits \in Nat

VARIABLES
  guest,      \* MpClient: phase, user, password typed, newAccount
  upAuth, downAuth,   \* frames to and from each client
  login,      \* the server's Client: state, pendAuth, account
  alive,      \* the server runs
  store,      \* byFold_: the password of every account
  disk,       \* the accounts file, its .tmp and its .bak; whether rename replaces a file
  saving,     \* the save in hand: for whom, which handler, the next step
  fails, locked,      \* LoginThrottle's entries
  judged,     \* answers judged since the lockout of a key last ended
  told,       \* what a client was told is its account
  dials, kills, waits

fileVars == <<store, disk, saving>>
lockVars == <<fails, locked, judged>>
accVars ==
  <<guest, upAuth, downAuth, login, alive, fileVars, lockVars, told, dials, kills, waits>>

Windows == ~disk.atomic

Typo == "typo"
Nothing == [n \in Names |-> Nobody]
Absent == [state |-> "absent", acc |-> Nothing]
Partial == [state |-> "part", acc |-> Nothing]
File(acc) == [state |-> "whole", acc |-> acc]
Idle == [for |-> Nobody, step |-> "none"]
NoLogin == [state |-> "none", user |-> Nobody, fresh |-> FALSE, account |-> Nobody]
Away == [phase |-> "away", user |-> Nobody, pw |-> Nobody, fresh |-> FALSE]

Addresses == {AddressOf[c] : c \in Guests}
Keys == Addresses \cup Names
Free(k) == IF k \in Names THEN AccountFree ELSE AddressFree

AccInit ==
  /\ guest = [c \in Guests |-> Away]
  /\ upAuth = [c \in Guests |-> <<>>] /\ downAuth = [c \in Guests |-> <<>>]
  /\ login = [c \in Guests |-> NoLogin] /\ alive = TRUE
  /\ store = Nothing
  /\ disk \in [atomic : BOOLEAN, main : {Absent}, tmp : {Absent}, bak : {Absent}]
  /\ saving = Idle
  /\ fails = [k \in Keys |-> 0] /\ locked = {} /\ judged = [k \in Keys |-> 0]
  /\ told = Nothing /\ dials = 0 /\ kills = 0 /\ waits = 0

-----------------------------------------------------------------------------
(* The client: sendAuthBegin, onAuthChallenge, pumpDerive, onAuthResult.    *)

GuestRest == UNCHANGED <<login, alive, fileVars, lockVars, kills, waits>>

Begin(c, n, pw) ==
  /\ alive /\ guest[c].phase = "away" /\ dials < MaxDials
  /\ guest' = [guest EXCEPT ![c] = [phase |-> "begun", user |-> n, pw |-> pw, fresh |-> FALSE]]
  /\ login' = [login EXCEPT ![c].state = "Auth"]
  /\ upAuth' = [upAuth EXCEPT ![c] = <<[kind |-> "AuthBegin", user |-> n]>>]
  /\ dials' = dials + 1
  /\ UNCHANGED <<downAuth, alive, fileVars, lockVars, told, kills, waits>>

HasFrame(c, kind) == downAuth[c] # <<>> /\ Head(downAuth[c]).kind = kind

Consume(c) == downAuth' = [downAuth EXCEPT ![c] = Tail(@)] /\ UNCHANGED <<upAuth, dials>> /\ GuestRest

OnChallenge(c) ==
  /\ HasFrame(c, "AuthChallenge") /\ guest[c].phase = "begun"
  /\ guest' = [guest EXCEPT ![c].phase = "deriving", ![c].fresh = Head(downAuth[c]).fresh]
  /\ Consume(c) /\ UNCHANGED told

(* The key-derivation worker is done, and poll sends the proof. *)
PumpDerive(c) ==
  /\ guest[c].phase = "deriving"
  /\ guest' = [guest EXCEPT ![c].phase = "sent"]
  /\ upAuth' = [upAuth EXCEPT ![c] = Append(@,
       [kind |-> IF guest[c].fresh THEN "AuthRegister" ELSE "AuthProof", pw |-> guest[c].pw])]
  /\ UNCHANGED <<downAuth, told, dials>> /\ GuestRest

(* A success counts only after a proof was sent, only of the kind that was  *)
(* asked for, and only with the signature of this account's server key.     *)
OnResult(c) ==
  /\ HasFrame(c, "AuthResult")
  /\ LET f == Head(downAuth[c])
         good == /\ f.status \in {"Ok", "Created"} /\ guest[c].phase = "sent"
                 /\ guest[c].fresh = (f.status = "Created") /\ f.sig = guest[c].pw
     IN /\ guest' = [guest EXCEPT ![c].phase = IF good THEN "verified" ELSE "failed"]
        /\ told' = IF good THEN [told EXCEPT ![guest[c].user] = guest[c].pw] ELSE told
  /\ Consume(c)

OnWelcome(c) ==
  /\ HasFrame(c, "Welcome")
  /\ guest' = [guest EXCEPT ![c].phase = IF @ = "verified" THEN "lobby" ELSE "failed"]
  /\ Consume(c) /\ UNCHANGED told

(* The client hangs up, by itself or after a failure, and may dial again.   *)
HangUp(c) ==
  /\ guest[c].phase # "away" /\ saving.for # c
  /\ guest' = [guest EXCEPT ![c] = Away]
  /\ login' = [login EXCEPT ![c] = NoLogin]
  /\ upAuth' = [upAuth EXCEPT ![c] = <<>>] /\ downAuth' = [downAuth EXCEPT ![c] = <<>>]
  /\ UNCHANGED <<alive, fileVars, lockVars, told, dials, kills, waits>>

-----------------------------------------------------------------------------
(* LoginThrottle *)

(* A failure of key k, with the counts before it. *)
Fail(ks) ==
  /\ fails' = [k \in Keys |-> IF k \in ks THEN fails[k] + 1 ELSE fails[k]]
  /\ locked' = locked \cup {k \in ks : fails[k] + 1 > Free(k)}
  /\ judged' = [k \in Keys |-> IF k \in ks THEN judged[k] + 1 ELSE judged[k]]

Succeed(n) ==
  /\ fails' = [fails EXCEPT ![n] = 0] /\ locked' = locked \ {n}
  /\ judged' = [judged EXCEPT ![n] = 0]

(* A lockout ends, or a key that was quiet long enough is forgotten. *)
Wait(k) ==
  /\ waits < MaxWaits /\ waits' = waits + 1
  /\ \/ k \in locked /\ locked' = locked \ {k} /\ UNCHANGED fails
     \/ k \notin locked /\ fails[k] > 0 /\ fails' = [fails EXCEPT ![k] = 0] /\ UNCHANGED locked
  /\ judged' = [judged EXCEPT ![k] = 0]
  /\ UNCHANGED <<guest, upAuth, downAuth, login, alive, fileVars, told, dials, kills>>

LoginLocked(c, n) == AddressOf[c] \in locked \/ n \in locked

-----------------------------------------------------------------------------
(* The server: authMsg. *)

Asked(c, kind) ==
  /\ alive /\ saving = Idle /\ login[c].state = "Auth"
  /\ upAuth[c] # <<>> /\ Head(upAuth[c]).kind = kind
  /\ upAuth' = [upAuth EXCEPT ![c] = Tail(@)]
  /\ UNCHANGED <<guest, alive, told, dials, kills, waits>>

Reply(c, frames) == downAuth' = [downAuth EXCEPT ![c] = @ \o frames]

Result(status) == [kind |-> "AuthResult", status |-> status, sig |-> Nobody]

Refuse(c, status) == Reply(c, <<Result(status)>>) /\ UNCHANGED login

AuthBegin(c) ==
  /\ Asked(c, "AuthBegin")
  /\ LET n == Head(upAuth[c]).user IN
     IF LoginLocked(c, n)
       THEN Refuse(c, "Throttled")
       ELSE /\ login' = [login EXCEPT ![c].user = n, ![c].fresh = store[n] = Nobody]
            /\ Reply(c, <<[kind |-> "AuthChallenge", fresh |-> store[n] = Nobody]>>)
  /\ UNCHANGED <<fileVars, lockVars>>

(* Mutant of LockedAtProof: the lock was looked at when the login began. *)
LockedAtProof_No(c) == FALSE

LockedAtProof(c) == LoginLocked(c, login[c].user)

StartSave(c) == saving' = [for |-> c, step |-> "write"]

AuthProof(c) ==
  /\ Asked(c, "AuthProof")
  /\ LET n == login[c].user IN
     CASE LockedAtProof(c) ->
            Refuse(c, "Throttled") /\ UNCHANGED <<fileVars, lockVars>>
       [] ~LockedAtProof(c) /\ store[n] # Head(upAuth[c]).pw ->
            /\ Fail({AddressOf[c], n}) /\ Refuse(c, "BadPassword")
            /\ UNCHANGED fileVars
       [] OTHER ->
            /\ Succeed(n) /\ login' = [login EXCEPT ![c].account = n]
            /\ StartSave(c)                                    \* noteLogin
            /\ UNCHANGED <<store, disk, downAuth>>

(* Mutant of Taken: the answer at AuthBegin was that the name is free. *)
Taken_AsChallenged(n) == FALSE

(* The name is looked up again when the account is made. *)
Taken(n) == store[n] # Nobody

AuthRegister(c) ==
  /\ Asked(c, "AuthRegister")
  /\ LET n == login[c].user IN
     IF AddressOf[c] \in locked
       THEN Refuse(c, "Throttled") /\ UNCHANGED <<fileVars, lockVars>>
       ELSE /\ Fail({AddressOf[c]})
            /\ IF Taken(n)
                 THEN Refuse(c, "NameTaken") /\ UNCHANGED fileVars
                 ELSE /\ store' = [store EXCEPT ![n] = Head(upAuth[c]).pw]
                      /\ StartSave(c)
                      /\ UNCHANGED <<disk, downAuth, login>>

-----------------------------------------------------------------------------
(* AccountStore::save, one operation on the file system at a time; any of   *)
(* them may fail, and the server may be killed between any two.             *)

Saving(step) == alive /\ saving.step = step

SaveRest == UNCHANGED <<guest, upAuth, alive, told, dials, kills, waits>>

NextStep(step) ==
  /\ saving' = [saving EXCEPT !.step = step]
  /\ UNCHANGED <<store, downAuth, login, lockVars>> /\ SaveRest

Signed(c, status) ==
  Reply(c, <<[kind |-> "AuthResult", status |-> status, sig |-> store'[login[c].user]],
             [kind |-> "Welcome"]>>)

(* The handler goes on where it called save. *)
EndSave(ok) ==
  LET c == saving.for
      n == login[c].user
      creating == login[c].fresh
  IN /\ saving' = Idle
     /\ IF creating /\ ~ok
          THEN /\ store' = [store EXCEPT ![n] = Nobody]
               /\ Refuse(c, "ServerError") /\ UNCHANGED lockVars
          ELSE /\ UNCHANGED store
               /\ login' = [login EXCEPT ![c].account = n, ![c].state = "Lobby"]
               /\ Signed(c, IF creating THEN "Created" ELSE "Ok")
               /\ IF creating THEN Succeed(n) ELSE UNCHANGED lockVars
     /\ SaveRest

SaveFails ==
  /\ saving.step \in {"write", "flush"} /\ alive
  /\ disk' = [disk EXCEPT !.tmp = Absent]
  /\ EndSave(FALSE)

(* Mutant of OpenForWrite: the accounts file is written in place. *)
OpenForWrite_InPlace == disk' = [disk EXCEPT !.tmp = Partial, !.main = Partial]

OpenForWrite == disk' = [disk EXCEPT !.tmp = Partial]

SaveOpen == Saving("write") /\ OpenForWrite /\ NextStep("flush")

SaveFlush ==
  /\ Saving("flush") /\ disk' = [disk EXCEPT !.tmp = File(store)]
  /\ NextStep(IF Windows THEN "aside" ELSE "replace")

(* Windows: the old file moves aside, if there is one and it can. *)
SaveAside ==
  /\ Saving("aside")
  /\ \/ disk' = [disk EXCEPT !.bak = disk.main, !.main = Absent]
     \/ disk' = [disk EXCEPT !.bak = Absent]
  /\ NextStep("replace")

(* rename: refused on Windows while there is a file of that name. *)
Replaceable == Windows => disk.main.state = "absent"

HadOld == disk.bak.state # "absent"

SaveReplace ==
  /\ Saving("replace")
  /\ \/ /\ Replaceable
        /\ disk' = [disk EXCEPT !.main = disk.tmp, !.tmp = Absent, !.bak = Absent]
        /\ EndSave(TRUE)
     \/ /\ disk' = [disk EXCEPT !.main = IF HadOld THEN disk.bak ELSE @,
                                !.tmp = Absent, !.bak = Absent]
        /\ EndSave(FALSE)

Save == SaveFails \/ SaveOpen \/ SaveFlush \/ SaveAside \/ SaveReplace

-----------------------------------------------------------------------------
(* The server is killed; frames it sent are still on their way. *)
Kill ==
  /\ alive /\ kills < MaxKills /\ kills' = kills + 1
  /\ alive' = FALSE /\ saving' = Idle /\ store' = Nothing
  /\ login' = [c \in Guests |-> NoLogin]
  /\ upAuth' = [c \in Guests |-> <<>>]
  /\ fails' = [k \in Keys |-> 0] /\ locked' = {} /\ judged' = [k \in Keys |-> 0]
  /\ UNCHANGED <<guest, downAuth, disk, told, dials, waits>>

(* AccountStore::load: a missing file is an empty store, one that cannot be *)
(* read keeps the server from starting.                                     *)
CanLoad == disk.main.state # "part"

Loads == disk.main.acc

Start ==
  /\ ~alive /\ CanLoad
  /\ alive' = TRUE /\ store' = Loads
  /\ UNCHANGED <<guest, upAuth, downAuth, login, disk, saving, lockVars, told, dials, kills, waits>>

-----------------------------------------------------------------------------
AccNext ==
  \/ \E c \in Guests :
       \/ \E n \in Names, pw \in {c, Typo} : Begin(c, n, pw)
       \/ OnChallenge(c) \/ PumpDerive(c) \/ OnResult(c) \/ OnWelcome(c) \/ HangUp(c)
       \/ AuthBegin(c) \/ AuthProof(c) \/ AuthRegister(c)
  \/ Save \/ Kill \/ Start
  \/ \E k \in Keys : Wait(k)

AccSpec == AccInit /\ [][AccNext]_accVars

-----------------------------------------------------------------------------
(* Whoever is signed in to an account on the server has its password, and   *)
(* a client that is in the lobby was let in under the name it asked for:    *)
(* two players who register one name at the same moment do not share it.    *)
AccountHasOneOwner ==
  alive => \A c \in Guests :
    /\ login[c].account # Nobody => store[login[c].account] = guest[c].pw
    /\ login[c].state # "none" /\ guest[c].phase = "lobby"
         => login[c].account = guest[c].user

Kept ==
  \A n \in Names : told[n] # Nobody =>
    IF alive THEN store[n] = told[n] ELSE CanLoad /\ Loads[n] = told[n]

(* What a client was told is its account is known to the server, and to one *)
(* started from the file that a killed server left.                         *)
WhatWasCreatedStays == ~Windows => Kept

(* However many logins are begun at once, no more answers of one address or *)
(* for one account are judged before a lockout than the throttle allows.    *)
GuessesAreMetered == \A k \in Keys : judged[k] <= Free(k) + 1
=============================================================================
