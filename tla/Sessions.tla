----------------------------- MODULE Sessions -----------------------------
(***************************************************************************)
(* Sign-in, sign-out and the check of a session, over the file of session  *)
(* records and the file with the password and its generation.  Every       *)
(* request runs on a thread of its own; the store's lock spans the reading *)
(* of its file and the writing of what replaces it.  A file is replaced    *)
(* and then synced, and either may fail; the process can be stopped at any *)
(* moment, and with the power, what was not synced may be gone.            *)
(***************************************************************************)
EXTENDS Integers

CONSTANTS Tokens,      \* the tokens create can draw
          Requests,    \* requests served at the same time
          NoToken, Nobody,
          MaxGen,      \* bound: generations of the password
          FreeTries    \* failures that no delay follows yet: 4 in retry_after

ASSUME SessionsAssumption ==
    /\ MaxGen \in Nat \ {0}
    /\ FreeTries \in Nat
    /\ NoToken \notin Tokens /\ Nobody \notin Requests

Gens == 1..MaxGen
Records == [Tokens -> {0} \union Gens]   \* 0: the token has no record

VARIABLES
    file,       \* the session file: the generation in each token's record
    fileDisk,   \* what it may hold after the power has gone
    gen,        \* session_generation in the password file
    genDisk,    \* what that may be after the power has gone
    up,         \* the service runs
    past,       \* tokens whose expiry is past
    req,        \* what each request is doing
    storeLock,  \* the requests that hold SessionStore._lock
    loginLock,  \* main._login_lock
    throttle,   \* the client's failures, and whether a delay is in force
    drawn,      \* history: tokens drawn
    given,      \* history: tokens whose browser was given them
    promised,   \* history: tokens told they are signed in, by a password that is synced
    ended,      \* history: tokens signed out, and told so by the request that did it
    resetTo     \* history: the generation of the last reset that was confirmed

files == <<file, fileDisk, gen, genDisk>>
locks == <<storeLock, loginLock>>
history == <<drawn, given, promised, ended, resetTo>>
sessionVars == <<files, up, past, req, locks, throttle, history>>

NoRequest == [op |-> "none", token |-> NoToken, stage |-> "check",
              loaded |-> [t \in Tokens |-> 0]]
NoFailures == [failures |-> 0, delayed |-> FALSE]

SessionsInit ==
    /\ file = [t \in Tokens |-> 0] /\ fileDisk = {file}
    /\ gen = 1 /\ genDisk = {1}
    /\ up = TRUE
    /\ past = {}
    /\ req = [r \in Requests |-> NoRequest]
    /\ storeLock = {} /\ loginLock = Nobody
    /\ throttle = NoFailures
    /\ drawn = {} /\ given = {} /\ promised = {} /\ ended = {} /\ resetTo = 1

-----------------------------------------------------------------------------
(* The session file *)

\* A record that validate keeps
Live(records, t) == records[t] = gen /\ t \notin past

\* What an operation makes of the records it has loaded
Changed(r) ==
    LET loaded == req[r].loaded
        t == req[r].token
    IN  CASE req[r].stage = "create" -> [loaded EXCEPT ![t] = gen]
          [] req[r].stage = "check"  -> [k \in Tokens |-> IF Live(loaded, k) THEN gen ELSE 0]
          [] req[r].stage = "revoke" -> [loaded EXCEPT ![t] = 0]

\* Faulty variant: requests do not exclude each other
LockFreeAlways(r) == TRUE

\* _lock is free
LockFree(r) == storeLock = {}

\* create, validate and revoke take the lock and read the file
Load(r) ==
    /\ req[r].op # "none"
    /\ req[r].stage \in {"create", "check", "revoke"}
    /\ r \notin storeLock
    /\ LockFree(r)
    /\ storeLock' = storeLock \union {r}
    /\ req' = [req EXCEPT ![r].loaded = file]
    /\ UNCHANGED <<files, up, past, loginLock, throttle, history>>

\* The file cannot be read, or the password's: 503, or no session
NotRead(r) ==
    /\ req[r].op # "none"
    /\ req[r].stage \in {"create", "check", "revoke"}
    /\ r \notin storeLock
    /\ LockFree(r)
    /\ loginLock' = IF loginLock = r THEN Nobody ELSE loginLock
    /\ req' = [req EXCEPT ![r] = NoRequest]
    /\ UNCHANGED <<files, up, past, storeLock, throttle, history>>

\* Faulty variant: the directory is not synced
SavedUnsynced(records) == file' = records /\ fileDisk' = fileDisk \union {records}

\* _publish: replaced and synced, ...
Saved(records) == file' = records /\ fileDisk' = {records}

\* ... or it raised, after the replacement or before it
NotSaved(records) ==
    \/ file' = records /\ fileDisk' = fileDisk \union {records}
    \/ UNCHANGED <<file, fileDisk>>

Unlock(r) == storeLock' = storeLock \ {r}
HoldsStore(r) == r \in storeLock

Goes(r) == req' = [req EXCEPT ![r] = NoRequest]

-----------------------------------------------------------------------------
(* login *)

\* Faulty variant: sign-ins do not wait for each other
LoginUnlocked(r) ==
    /\ up /\ req[r].op = "none"
    /\ ~throttle.delayed
    /\ req' = [req EXCEPT ![r] = [NoRequest EXCEPT !.op = "login", !.stage = "verify"]]
    /\ UNCHANGED <<files, up, past, locks, throttle, history>>

\* A password is looked at when no delay is in force, one at a time
Login(r) ==
    /\ up /\ req[r].op = "none"
    /\ loginLock = Nobody
    /\ ~throttle.delayed
    /\ loginLock' = r
    /\ req' = [req EXCEPT ![r] = [NoRequest EXCEPT !.op = "login", !.stage = "verify"]]
    /\ UNCHANGED <<files, up, past, storeLock, throttle, history>>

\* The password file cannot be read, or the hash not be computed: 503
NotVerified(r) ==
    /\ req[r].op = "login" /\ req[r].stage = "verify"
    /\ loginLock' = Nobody
    /\ Goes(r)
    /\ UNCHANGED <<files, up, past, storeLock, throttle, history>>

\* LoginThrottle.failure; the count stops where it decides nothing more
Failure ==
    throttle' = [failures |-> IF throttle.failures > FreeTries
                              THEN throttle.failures ELSE throttle.failures + 1,
                 delayed |-> throttle.failures + 1 > FreeTries]

WrongPassword(r) ==
    /\ req[r].op = "login" /\ req[r].stage = "verify"
    /\ Failure
    /\ loginLock' = Nobody
    /\ Goes(r)
    /\ UNCHANGED <<files, up, past, storeLock, history>>

RightPassword(r, t) ==
    /\ req[r].op = "login" /\ req[r].stage = "verify"
    /\ t \notin drawn
    /\ drawn' = drawn \union {t}
    /\ req' = [req EXCEPT ![r].stage = "create", ![r].token = t]
    /\ UNCHANGED <<files, up, past, locks, throttle, given, promised, ended, resetTo>>

\* The record is written: the browser gets its cookie.  Or it is not, and the
\* answer is 503.
Create(r) ==
    /\ HoldsStore(r) /\ req[r].stage = "create"
    /\ Unlock(r) /\ loginLock' = Nobody
    /\ Goes(r)
    /\ \/ /\ Saved(Changed(r))
          /\ throttle' = NoFailures
          /\ given' = given \union {req[r].token}
          /\ promised' = IF genDisk = {gen} THEN promised \union {req[r].token} ELSE promised
       \/ /\ NotSaved(Changed(r))
          /\ UNCHANGED <<throttle, given, promised>>
    /\ UNCHANGED <<gen, genDisk, up, past, drawn, ended, resetTo>>

\* The delay passes; a quarter of an hour after the last failure all are forgotten
DelayPasses ==
    /\ throttle.delayed
    /\ throttle' = [throttle EXCEPT !.delayed = FALSE]
    /\ UNCHANGED <<files, up, past, req, locks, history>>

ForgetFailures ==
    /\ throttle.failures > 0 /\ ~throttle.delayed
    /\ throttle' = NoFailures
    /\ UNCHANGED <<files, up, past, req, locks, history>>

-----------------------------------------------------------------------------
(* Requests of a browser that holds a token *)

\* Any request is checked first; a sign-out goes on after that
Request(r, t, op) ==
    /\ up /\ req[r].op = "none"
    /\ t \in given
    /\ req' = [req EXCEPT ![r] = [NoRequest EXCEPT !.op = op, !.token = t]]
    /\ promised' = IF op = "logout" THEN promised \ {t} ELSE promised
    /\ UNCHANGED <<files, up, past, locks, throttle, drawn, given, ended, resetTo>>

\* validate drops what has expired or belongs to another generation, and
\* writes the file if that changed it; a write that fails refuses the session
Check(r) ==
    /\ HoldsStore(r) /\ req[r].stage = "check"
    /\ Unlock(r)
    /\ LET accepted == Live(req[r].loaded, req[r].token)
       IN  \/ /\ IF Changed(r) = req[r].loaded
                 THEN UNCHANGED <<file, fileDisk>>
                 ELSE Saved(Changed(r))
              /\ IF accepted /\ req[r].op = "logout"
                 THEN req' = [req EXCEPT ![r].stage = "revoke"]
                 ELSE Goes(r)
           \/ /\ Changed(r) # req[r].loaded
              /\ NotSaved(Changed(r))
              /\ Goes(r)
    /\ UNCHANGED <<gen, genDisk, up, past, loginLock, throttle, history>>

\* revoke: nothing is written for a token that has no record any more.  A write
\* that fails is answered with 503, and may have ended the session all the same.
Revoke(r) ==
    /\ HoldsStore(r) /\ req[r].stage = "revoke"
    /\ Unlock(r)
    /\ Goes(r)
    /\ \/ /\ Changed(r) = req[r].loaded
          /\ UNCHANGED <<file, fileDisk, ended>>
       \/ /\ Changed(r) # req[r].loaded
          /\ Saved(Changed(r))
          /\ ended' = ended \union {req[r].token}
       \/ /\ Changed(r) # req[r].loaded
          /\ NotSaved(Changed(r))
          /\ UNCHANGED ended
    /\ UNCHANGED <<gen, genDisk, up, past, loginLock, throttle, drawn, given, promised, resetTo>>

\* The record's time is over
Expire(t) ==
    /\ file[t] # 0 /\ t \notin past
    /\ past' = past \union {t}
    /\ promised' = promised \ {t}
    /\ UNCHANGED <<files, up, req, locks, throttle, drawn, given, ended, resetTo>>

-----------------------------------------------------------------------------
(* Stops, starts and the reset of the password *)

\* Requests, locks and the throttle are gone with the process
Stop ==
    /\ up' = FALSE
    /\ req' = [r \in Requests |-> NoRequest]
    /\ storeLock' = {} /\ loginLock' = Nobody
    /\ throttle' = NoFailures

Crash ==
    /\ up
    /\ Stop
    /\ UNCHANGED <<files, past, history>>

PowerLoss ==
    /\ Stop
    /\ file' \in fileDisk /\ fileDisk' = {file'}
    /\ gen' \in genDisk /\ genDisk' = {gen'}
    /\ UNCHANGED <<past, history>>

\* Faulty variant: a new password that could not be synced counts as confirmed
PublishedUnsynced(new) ==
    gen' = new /\ genDisk' = genDisk \union {new} /\ resetTo' = new

\* publish_auth_state: the new password replaced the old one and is synced, ...
Published(new) == gen' = new /\ genDisk' = {new} /\ resetTo' = new

\* ... or it raised after the replacement, which is reported as not confirmed
NotPublished(new) == gen' = new /\ genDisk' = genDisk \union {new} /\ UNCHANGED resetTo

\* _reset, with the service stopped
Reset ==
    /\ ~up /\ gen < MaxGen
    /\ Published(gen + 1) \/ NotPublished(gen + 1)
    /\ promised' = {}
    /\ UNCHANGED <<file, fileDisk, up, past, req, locks, throttle, drawn, given, ended>>

Start ==
    /\ ~up
    /\ up' = TRUE
    /\ UNCHANGED <<files, past, req, locks, throttle, history>>

SessionsNext ==
    \/ \E r \in Requests :
          \/ Load(r) \/ NotRead(r) \/ Login(r) \/ NotVerified(r) \/ WrongPassword(r)
          \/ Create(r) \/ Check(r) \/ Revoke(r)
          \/ \E t \in Tokens :
                RightPassword(r, t) \/ \E op \in {"check", "logout"} : Request(r, t, op)
    \/ DelayPasses \/ ForgetFailures
    \/ \E t \in Tokens : Expire(t)
    \/ Crash \/ PowerLoss \/ Reset \/ Start

SessionsSpec == SessionsInit /\ [][SessionsNext]_sessionVars

-----------------------------------------------------------------------------
(* Properties *)

\* A browser that was told it is signed in stays signed in, through whatever
\* other requests write, fail to write or are cut short of, and through power
\* losses, until it expires, signs out or the password is reset.
StaysSignedIn ==
    \A t \in promised : \A records \in fileDisk, g \in genDisk : records[t] = g

\* A sign-out is for good: no later write of another request and no power loss
\* brings the record back.
SignedOutStays == \A t \in ended : \A records \in fileDisk \union {file} : records[t] = 0

\* A confirmed reset of the password ends every session begun before it, even if
\* a power loss brings back their records.
ResetEndsSessions == \A g \in genDisk \union {gen} : g >= resetTo

\* A password is only looked at while no delay is in force, however many sign-ins
\* are sent at once (_login_lock around retry_after, verification and failure).
DelayHolds == \A r \in Requests : req[r].stage = "verify" => ~throttle.delayed
============================================================================
