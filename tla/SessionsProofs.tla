--------------------------- MODULE SessionsProofs ---------------------------
(***************************************************************************)
(* The safety of Sessions for any number of tokens and requests.  What it  *)
(* rests on is that a thread between its reading and its writing is the    *)
(* only one there, so that what it read is still what the file holds; and  *)
(* that a token being created is known to nobody yet.                      *)
(***************************************************************************)
EXTENDS Sessions, TLAPS

SessionsTypeOK ==
    /\ fileDisk \subseteq Records /\ file \in fileDisk
    /\ genDisk \subseteq Gens /\ gen \in genDisk /\ resetTo \in Gens
    /\ past \subseteq Tokens /\ drawn \subseteq Tokens
    /\ req \in [Requests -> [op: {"none", "login", "check", "logout"},
                             token: Tokens \union {NoToken},
                             stage: {"check", "verify", "create", "revoke"},
                             loaded: Records]]
    /\ storeLock \subseteq Requests
    /\ loginLock \in Requests \union {Nobody}
    /\ throttle \in [failures: Nat, delayed: BOOLEAN]

\* What a request does at each stage
Shape(r) ==
    /\ req[r].stage \in {"verify", "create"} <=> req[r].op = "login"
    /\ req[r].stage = "revoke" => req[r].op = "logout"
    /\ req[r].op \in {"check", "logout"} => req[r].token \in given
    /\ req[r].op = "logout" => req[r].token \notin promised

\* One thread at a time judges a password or creates a session, and one is
\* between its reading and its writing of the file
LoginTurn(r) == req[r].stage \in {"verify", "create"} => loginLock = r
StoreTurn(r) ==
    r \in storeLock => /\ storeLock = {r}
                       /\ req[r].loaded = file
                       /\ req[r].stage # "verify" /\ req[r].op # "none"

\* A token that nobody has yet
Unknown(t) == t \notin given /\ t \notin past /\ \A records \in fileDisk : records[t] = 0

TokensKnown ==
    /\ given \subseteq drawn /\ ended \subseteq given
    /\ promised \subseteq given /\ promised \intersect past = {}
    /\ \A t \in Tokens : t \notin drawn => Unknown(t)
    /\ \A r \in Requests : req[r].stage = "create" => req[r].token \in drawn /\ Unknown(req[r].token)

SessionsInv ==
    /\ SessionsTypeOK
    /\ \A r \in Requests : Shape(r) /\ LoginTurn(r) /\ StoreTurn(r)
    /\ TokensKnown
    /\ StaysSignedIn /\ SignedOutStays /\ ResetEndsSessions /\ DelayHolds
-----------------------------------------------------------------------------
\* The initial state.
LEMMA SessionsStart == SessionsInit => SessionsInv
  <1> SUFFICES ASSUME SessionsInit
               PROVE  SessionsInv
    OBVIOUS
  <1> USE SessionsAssumption DEF SessionsInit, NoRequest, NoFailures
  <1>1. [t \in Tokens |-> 0] \in Records
    BY DEF Records
  <1>2. SessionsTypeOK
    BY <1>1 DEF SessionsTypeOK, Gens
  <1>3. \A r \in Requests : Shape(r) /\ LoginTurn(r) /\ StoreTurn(r)
    BY DEF Shape, LoginTurn, StoreTurn
  <1>4. TokensKnown
    BY DEF TokensKnown, Unknown
  <1>5. StaysSignedIn /\ SignedOutStays /\ ResetEndsSessions /\ DelayHolds
    BY DEF StaysSignedIn, SignedOutStays, ResetEndsSessions, DelayHolds
  <1> QED
    BY <1>2, <1>3, <1>4, <1>5 DEF SessionsInv

-----------------------------------------------------------------------------
(* Steps that write no file *)

\* A thread that reads the file takes its turn with the store.
LEMMA LoadStep ==
    ASSUME SessionsInv, NEW r \in Requests, Load(r)
    PROVE  SessionsInv'
  <1> USE SessionsAssumption DEF SessionsInv, Load, LockFree, files, history
  <1>1. SessionsTypeOK'
    BY DEF SessionsTypeOK
  <1>2. \A q \in Requests : Shape(q)' /\ LoginTurn(q)' /\ StoreTurn(q)'
    BY DEF SessionsTypeOK, Shape, LoginTurn, StoreTurn
  <1>3. TokensKnown'
    BY DEF SessionsTypeOK, TokensKnown, Unknown
  <1>4. (StaysSignedIn /\ SignedOutStays /\ ResetEndsSessions /\ DelayHolds)'
    BY DEF SessionsTypeOK, StaysSignedIn, SignedOutStays, ResetEndsSessions, DelayHolds
  <1> QED
    BY <1>1, <1>2, <1>3, <1>4
\* A file that cannot be read ends the request and changes nothing.
LEMMA NotReadStep ==
    ASSUME SessionsInv, NEW r \in Requests, NotRead(r)
    PROVE  SessionsInv'
  <1> USE SessionsAssumption DEF SessionsInv, NotRead, LockFree, NoRequest, Records, files, history
  <1>1. SessionsTypeOK'
    BY DEF SessionsTypeOK
  <1>2. \A q \in Requests : Shape(q)' /\ LoginTurn(q)' /\ StoreTurn(q)'
    BY DEF SessionsTypeOK, Shape, LoginTurn, StoreTurn, TokensKnown
  <1>3. TokensKnown'
    BY DEF SessionsTypeOK, TokensKnown, Unknown, LoginTurn, Shape
  <1>4. (StaysSignedIn /\ SignedOutStays /\ ResetEndsSessions /\ DelayHolds)'
    BY DEF SessionsTypeOK, StaysSignedIn, SignedOutStays, ResetEndsSessions, DelayHolds,
           LoginTurn, TokensKnown
  <1> QED
    BY <1>1, <1>2, <1>3, <1>4

\* A sign-in takes its turn with the throttle, when no delay is in force.
LEMMA LoginStep ==
    ASSUME SessionsInv, NEW r \in Requests, Login(r)
    PROVE  SessionsInv'
  <1> USE SessionsAssumption DEF SessionsInv, Login, NoRequest, Records, files, history
  <1>1. SessionsTypeOK'
    BY DEF SessionsTypeOK
  <1>2. \A q \in Requests : Shape(q)' /\ LoginTurn(q)' /\ StoreTurn(q)'
    BY DEF SessionsTypeOK, Shape, LoginTurn, StoreTurn, TokensKnown
  <1>3. TokensKnown'
    BY DEF SessionsTypeOK, TokensKnown, Unknown, LoginTurn, Shape
  <1>4. (StaysSignedIn /\ SignedOutStays /\ ResetEndsSessions /\ DelayHolds)'
    BY DEF SessionsTypeOK, StaysSignedIn, SignedOutStays, ResetEndsSessions, DelayHolds,
           LoginTurn, TokensKnown
  <1> QED
    BY <1>1, <1>2, <1>3, <1>4

\* A sign-in that is not judged leaves the throttle as it was.
LEMMA NotVerifiedStep ==
    ASSUME SessionsInv, NEW r \in Requests, NotVerified(r)
    PROVE  SessionsInv'
  <1> USE SessionsAssumption DEF SessionsInv, NotVerified, Goes, NoRequest, Records, files, history
  <1>1. SessionsTypeOK'
    BY DEF SessionsTypeOK
  <1>2. \A q \in Requests : Shape(q)' /\ LoginTurn(q)' /\ StoreTurn(q)'
    BY DEF SessionsTypeOK, Shape, LoginTurn, StoreTurn, TokensKnown
  <1>3. TokensKnown'
    BY DEF SessionsTypeOK, TokensKnown, Unknown, LoginTurn, Shape
  <1>4. (StaysSignedIn /\ SignedOutStays /\ ResetEndsSessions /\ DelayHolds)'
    BY DEF SessionsTypeOK, StaysSignedIn, SignedOutStays, ResetEndsSessions, DelayHolds,
           LoginTurn, TokensKnown
  <1> QED
    BY <1>1, <1>2, <1>3, <1>4

\* A failed sign-in is counted while its thread still has the throttle.
LEMMA WrongPasswordStep ==
    ASSUME SessionsInv, NEW r \in Requests, WrongPassword(r)
    PROVE  SessionsInv'
  <1> USE SessionsAssumption DEF SessionsInv, WrongPassword, Failure, Goes, NoRequest, Records,
               files, history
  <1>1. SessionsTypeOK'
    BY DEF SessionsTypeOK
  <1>2. \A q \in Requests : Shape(q)' /\ LoginTurn(q)' /\ StoreTurn(q)'
    BY DEF SessionsTypeOK, Shape, LoginTurn, StoreTurn, TokensKnown
  <1>3. TokensKnown'
    BY DEF SessionsTypeOK, TokensKnown, Unknown, LoginTurn, Shape
  <1>4. (StaysSignedIn /\ SignedOutStays /\ ResetEndsSessions /\ DelayHolds)'
    BY DEF SessionsTypeOK, StaysSignedIn, SignedOutStays, ResetEndsSessions, DelayHolds,
           LoginTurn, TokensKnown
  <1> QED
    BY <1>1, <1>2, <1>3, <1>4

\* A right password draws a token that nobody has.
LEMMA RightPasswordStep ==
    ASSUME SessionsInv, NEW r \in Requests, NEW t \in Tokens, RightPassword(r, t)
    PROVE  SessionsInv'
  <1> USE SessionsAssumption DEF SessionsInv, RightPassword, locks, files
  <1>1. SessionsTypeOK'
    <2>1. req' = [req EXCEPT ![r].stage = "create", ![r].token = t]
      OBVIOUS
    <2>2. [req[r] EXCEPT !.stage = "create", !.token = t]
             \in [op: {"none", "login", "check", "logout"},
                  token: Tokens \union {NoToken},
                  stage: {"check", "verify", "create", "revoke"},
                  loaded: Records]
      BY DEF SessionsTypeOK
    <2>3. req' \in [Requests -> [op: {"none", "login", "check", "logout"},
                                token: Tokens \union {NoToken},
                                stage: {"check", "verify", "create", "revoke"},
                                loaded: Records]]
      <3> HIDE DEF RightPassword
      <3> QED  BY <2>1, <2>2 DEF SessionsTypeOK
    <2> QED
      BY <2>3 DEF SessionsTypeOK
  <1>2. \A q \in Requests : Shape(q)' /\ LoginTurn(q)' /\ StoreTurn(q)'
    BY DEF SessionsTypeOK, Shape, LoginTurn, StoreTurn, TokensKnown
  <1>3. TokensKnown'
    BY DEF SessionsTypeOK, TokensKnown, Unknown, LoginTurn, Shape
  <1>4. (StaysSignedIn /\ SignedOutStays /\ ResetEndsSessions /\ DelayHolds)'
    BY DEF SessionsTypeOK, StaysSignedIn, SignedOutStays, ResetEndsSessions, DelayHolds,
           LoginTurn, TokensKnown
  <1> QED
    BY <1>1, <1>2, <1>3, <1>4

\* A request comes with a token that was given out.
LEMMA RequestStep ==
    ASSUME SessionsInv, NEW r \in Requests, NEW t \in Tokens, NEW op \in {"check", "logout"},
           Request(r, t, op)
    PROVE  SessionsInv'
  <1> USE SessionsAssumption DEF SessionsInv, Request, NoRequest, Records, locks, files
  <1>1. SessionsTypeOK'
    BY DEF SessionsTypeOK
  <1>2. \A q \in Requests : Shape(q)' /\ LoginTurn(q)' /\ StoreTurn(q)'
    BY DEF SessionsTypeOK, Shape, LoginTurn, StoreTurn, TokensKnown
  <1>3. TokensKnown'
    BY DEF SessionsTypeOK, TokensKnown, Unknown, LoginTurn, Shape
  <1>4. (StaysSignedIn /\ SignedOutStays /\ ResetEndsSessions /\ DelayHolds)'
    BY DEF SessionsTypeOK, StaysSignedIn, SignedOutStays, ResetEndsSessions, DelayHolds,
           LoginTurn, TokensKnown
  <1> QED
    BY <1>1, <1>2, <1>3, <1>4

\* A session that expires is promised no longer.
LEMMA ExpireStep ==
    ASSUME SessionsInv, NEW t \in Tokens, Expire(t)
    PROVE  SessionsInv'
  <1> USE SessionsAssumption DEF SessionsInv, Expire, locks, files
  <1>1. SessionsTypeOK'
    BY DEF SessionsTypeOK
  <1>2. \A q \in Requests : Shape(q)' /\ LoginTurn(q)' /\ StoreTurn(q)'
    BY DEF SessionsTypeOK, Shape, LoginTurn, StoreTurn, TokensKnown
  <1>3. TokensKnown'
    BY DEF SessionsTypeOK, TokensKnown, Unknown, LoginTurn, Shape
  <1>4. (StaysSignedIn /\ SignedOutStays /\ ResetEndsSessions /\ DelayHolds)'
    BY DEF SessionsTypeOK, StaysSignedIn, SignedOutStays, ResetEndsSessions, DelayHolds,
           LoginTurn, TokensKnown
  <1> QED
    BY <1>1, <1>2, <1>3, <1>4

\* A delay that passes lets sign-ins go on.
LEMMA DelayStep ==
    ASSUME SessionsInv, DelayPasses \/ ForgetFailures
    PROVE  SessionsInv'
  <1> USE SessionsAssumption DEF SessionsInv, DelayPasses, ForgetFailures, NoFailures, locks, files,
               history
  <1>1. SessionsTypeOK'
    <2>1. throttle' \in [failures: Nat, delayed: BOOLEAN]
      <3>1. CASE DelayPasses
        BY <3>1 DEF SessionsTypeOK
      <3>2. CASE ForgetFailures
        BY <3>2 DEF SessionsTypeOK
      <3> QED
        BY <3>1, <3>2
    <2>2. UNCHANGED <<file, fileDisk, gen, genDisk, past, req, storeLock, loginLock, drawn, resetTo>>
      OBVIOUS
    <2> QED
      BY <2>1, <2>2 DEF SessionsTypeOK
  <1>2. \A q \in Requests : Shape(q)' /\ LoginTurn(q)' /\ StoreTurn(q)'
    BY DEF SessionsTypeOK, Shape, LoginTurn, StoreTurn, TokensKnown
  <1>3. TokensKnown'
    BY DEF SessionsTypeOK, TokensKnown, Unknown, LoginTurn, Shape
  <1>4. (StaysSignedIn /\ SignedOutStays /\ ResetEndsSessions /\ DelayHolds)'
    BY DEF SessionsTypeOK, StaysSignedIn, SignedOutStays, ResetEndsSessions, DelayHolds,
           LoginTurn, TokensKnown
  <1> QED
    BY <1>1, <1>2, <1>3, <1>4

-----------------------------------------------------------------------------
(* Stops, starts and resets *)

\* A stop or a power loss ends every request, and the file is one it could be.
LEMMA StopStep ==
    ASSUME SessionsInv, Crash \/ PowerLoss
    PROVE  SessionsInv'
  <1> USE SessionsAssumption DEF SessionsInv, Crash, PowerLoss, Stop, NoRequest, NoFailures,
               files, history
  <1>1. SessionsTypeOK'
    <2>1. file' \in fileDisk' /\ fileDisk' \subseteq fileDisk
      BY DEF SessionsTypeOK
    <2>2. gen' \in genDisk' /\ genDisk' \subseteq genDisk
      BY DEF SessionsTypeOK
    <2>3. UNCHANGED <<past, drawn, resetTo>>
      OBVIOUS
    <2>4. req' = [r \in Requests |-> NoRequest] /\ NoRequest.loaded \in Records
      BY DEF Records
    <2>5. storeLock' = {} /\ loginLock' = Nobody /\ throttle' = NoFailures
      OBVIOUS
    <2> HIDE DEF Crash, PowerLoss, Stop
    <2> QED
      BY <2>1, <2>2, <2>3, <2>4, <2>5 DEF SessionsTypeOK
  <1>2. \A q \in Requests : Shape(q)' /\ LoginTurn(q)' /\ StoreTurn(q)'
    BY DEF SessionsTypeOK, Shape, LoginTurn, StoreTurn, TokensKnown
  <1>3. TokensKnown'
    BY DEF SessionsTypeOK, TokensKnown, Unknown, LoginTurn, Shape
  <1>4. (StaysSignedIn /\ SignedOutStays /\ ResetEndsSessions /\ DelayHolds)'
    BY DEF SessionsTypeOK, StaysSignedIn, SignedOutStays, ResetEndsSessions, DelayHolds,
           LoginTurn, TokensKnown
  <1> QED
    BY <1>1, <1>2, <1>3, <1>4

\* A reset of the password leaves the sessions of before it behind.
LEMMA ResetStep ==
    ASSUME SessionsInv, Reset
    PROVE  SessionsInv'
  <1> USE SessionsAssumption DEF SessionsInv, Reset, locks
  <1>1. gen + 1 \in Gens /\ gen' = gen + 1 /\ gen' \in genDisk' /\ resetTo' \in {resetTo, gen + 1}
    BY DEF SessionsTypeOK, Published, NotPublished, Gens
  <1>2. genDisk' \subseteq Gens
    BY <1>1 DEF SessionsTypeOK, Published, NotPublished
  <1>3. SessionsTypeOK'
    BY <1>1, <1>2 DEF SessionsTypeOK
  <1>4. \A q \in Requests : Shape(q)' /\ LoginTurn(q)' /\ StoreTurn(q)'
    BY DEF SessionsTypeOK, Shape, LoginTurn, StoreTurn, TokensKnown
  <1>5. TokensKnown'
    BY DEF SessionsTypeOK, TokensKnown, Unknown, LoginTurn, Shape
  <1>6. (StaysSignedIn /\ SignedOutStays /\ DelayHolds)'
    BY DEF StaysSignedIn, SignedOutStays, DelayHolds
  <1>7. ResetEndsSessions'
    <2> SUFFICES ASSUME NEW g \in genDisk'
                 PROVE  g >= resetTo'
      BY <1>1 DEF ResetEndsSessions
    <2>1. CASE Published(gen + 1)
      BY <2>1 DEF Published, SessionsTypeOK, Gens
    <2>2. CASE NotPublished(gen + 1)
      BY <2>2 DEF NotPublished, SessionsTypeOK, ResetEndsSessions, Gens
    <2> QED
      BY <2>1, <2>2
  <1> QED
    BY <1>3, <1>4, <1>5, <1>6, <1>7

\* A start finds the files as the stop has left them.
LEMMA StartStep ==
    ASSUME SessionsInv, Start
    PROVE  SessionsInv'
  <1> USE SessionsAssumption DEF SessionsInv, Start, locks, files, history
  <1>1. SessionsTypeOK'
    BY DEF SessionsTypeOK
  <1>2. \A q \in Requests : Shape(q)' /\ LoginTurn(q)' /\ StoreTurn(q)'
    BY DEF SessionsTypeOK, Shape, LoginTurn, StoreTurn, TokensKnown
  <1>3. TokensKnown'
    BY DEF SessionsTypeOK, TokensKnown, Unknown, LoginTurn, Shape
  <1>4. (StaysSignedIn /\ SignedOutStays /\ ResetEndsSessions /\ DelayHolds)'
    BY DEF SessionsTypeOK, StaysSignedIn, SignedOutStays, ResetEndsSessions, DelayHolds,
           LoginTurn, TokensKnown
  <1> QED
    BY <1>1, <1>2, <1>3, <1>4
-----------------------------------------------------------------------------
(* Steps that write the session file *)

\* What the holder of the lock makes of the records: those of the file, but for
\* its own token, or without what is over
LEMMA ChangedIs ==
    ASSUME SessionsInv, NEW r \in storeLock
    PROVE  /\ Changed(r) \in Records
           /\ \A t \in Tokens : req[r].stage = "create" =>
                 Changed(r)[t] = IF t = req[r].token THEN gen ELSE file[t]
           /\ \A t \in Tokens : req[r].stage = "check" =>
                 Changed(r)[t] = IF Live(file, t) THEN gen ELSE 0
           /\ \A t \in Tokens : req[r].stage = "revoke" =>
                 Changed(r)[t] = IF t = req[r].token THEN 0 ELSE file[t]
  <1>1. req[r].loaded = file /\ req[r].stage \in {"create", "check", "revoke"}
    BY DEF SessionsInv, SessionsTypeOK, StoreTurn
  <1>2. file \in Records /\ gen \in Gens
    BY DEF SessionsInv, SessionsTypeOK
  <1>3. CASE req[r].stage = "create"
    BY <1>1, <1>2, <1>3 DEF Changed, Records
  <1>4. CASE req[r].stage = "check"
    BY <1>1, <1>2, <1>4 DEF Changed, Records
  <1>5. CASE req[r].stage = "revoke"
    BY <1>1, <1>2, <1>5 DEF Changed, Records
  <1> QED
    BY <1>1, <1>3, <1>4, <1>5

\* What a written file may hold, whether the write was confirmed or not
Wrote(records) ==
    /\ file' \in fileDisk'
    /\ fileDisk' \subseteq fileDisk \union {records}

\* The record written is that of a token nobody had.
LEMMA CreateStep ==
    ASSUME SessionsInv, NEW r \in Requests, Create(r)
    PROVE  SessionsInv'
  <1> DEFINE W == Changed(r)
  <1>1. r \in storeLock /\ req[r].stage = "create" /\ req[r].token \in Tokens /\ Unknown(req[r].token)
    BY DEF Create, HoldsStore, SessionsInv, SessionsTypeOK, TokensKnown
  <1>2. W \in Records /\ \A t \in Tokens : W[t] = IF t = req[r].token THEN gen ELSE file[t]
    BY <1>1, ChangedIs
  <1>3. Wrote(W)
    BY DEF Create, Saved, NotSaved, Wrote, SessionsInv, SessionsTypeOK
  <1>4. \/ promised' = promised
        \/ /\ fileDisk' = {W} /\ genDisk = {gen} /\ promised' = promised \union {req[r].token}
           /\ given' = given \union {req[r].token}
    BY DEF Create, Saved
  <1>5. given' \in {given, given \union {req[r].token}}
    BY DEF Create
  <1>6. throttle' \in {throttle, NoFailures}
    BY DEF Create
  <1>7. /\ storeLock' = {} /\ loginLock' = Nobody
        /\ req' = [req EXCEPT ![r] = NoRequest]
        /\ UNCHANGED <<gen, genDisk, past, drawn, ended, resetTo>>
    BY <1>1 DEF Create, Unlock, Goes, SessionsInv, StoreTurn
  <1>8. NoRequest.loaded \in Records
    BY DEF NoRequest, Records
  <1> HIDE DEF W
  <1>9. SessionsTypeOK'
    <2>1. throttle' \in [failures: Nat, delayed: BOOLEAN]
      <3>1. NoFailures \in [failures: Nat, delayed: BOOLEAN]
        BY DEF NoFailures
      <3>2. throttle \in [failures: Nat, delayed: BOOLEAN]
        BY DEF SessionsInv, SessionsTypeOK
      <3> QED
        BY <1>6, <3>1, <3>2
    <2>2. fileDisk' \subseteq Records /\ file' \in fileDisk'
      BY <1>2, <1>3 DEF SessionsInv, SessionsTypeOK, Wrote
    <2> QED
      BY <2>1, <2>2, <1>7, <1>8 DEF SessionsInv, SessionsTypeOK, NoRequest
  <1>10. \A q \in Requests : Shape(q)' /\ LoginTurn(q)' /\ StoreTurn(q)'
    BY <1>1, <1>4, <1>5, <1>7
    DEF SessionsInv, SessionsTypeOK, Shape, LoginTurn, StoreTurn, TokensKnown, Unknown, NoRequest
  <1>11. TokensKnown'
    BY <1>1, <1>2, <1>3, <1>4, <1>5, <1>7
    DEF SessionsInv, SessionsTypeOK, LoginTurn, TokensKnown, Unknown, Wrote, NoRequest
  <1>12. StaysSignedIn'
    BY <1>1, <1>2, <1>3, <1>4, <1>7
    DEF SessionsInv, SessionsTypeOK, StaysSignedIn, TokensKnown, Unknown, Wrote
  <1>13. SignedOutStays'
    BY <1>1, <1>2, <1>3, <1>7
    DEF SessionsInv, SessionsTypeOK, SignedOutStays, TokensKnown, Unknown, Wrote
  <1>14. ResetEndsSessions' /\ DelayHolds'
    BY <1>1, <1>6, <1>7 DEF SessionsInv, SessionsTypeOK, ResetEndsSessions, DelayHolds,
                          NoRequest, NoFailures
  <1> QED
    BY <1>9, <1>10, <1>11, <1>12, <1>13, <1>14 DEF SessionsInv
\* A check writes only what it has just read.
LEMMA CheckStep ==
    ASSUME SessionsInv, NEW r \in Requests, Check(r)
    PROVE  SessionsInv'
  <1> DEFINE W == Changed(r)
  <1>1. r \in storeLock /\ req[r].stage = "check"
    BY DEF Check, HoldsStore
  <1>2. W \in Records /\ \A t \in Tokens : W[t] = IF Live(file, t) THEN gen ELSE 0
    BY <1>1, ChangedIs
  <1>3. Wrote(W)
    BY DEF Check, Saved, NotSaved, Wrote, SessionsInv, SessionsTypeOK
  <1>4. /\ storeLock' = {}
        /\ UNCHANGED <<gen, genDisk, past, loginLock, throttle, drawn, given, promised, ended, resetTo>>
    BY <1>1 DEF Check, Unlock, history, SessionsInv, StoreTurn
  <1>5. \/ req' = [req EXCEPT ![r] = NoRequest]
        \/ req[r].op = "logout" /\ req' = [req EXCEPT ![r].stage = "revoke"]
    BY DEF Check, Goes
  <1>6. NoRequest.loaded \in Records
    BY DEF NoRequest, Records
  <1> HIDE DEF W
  <1>7. SessionsTypeOK'
    <2>1. req' \in [Requests -> [op: {"none", "login", "check", "logout"},
                                 token: Tokens \union {NoToken},
                                 stage: {"check", "verify", "create", "revoke"},
                                 loaded: Records]]
      BY <1>5, <1>6 DEF SessionsInv, SessionsTypeOK, NoRequest
    <2> QED
      BY <2>1, <1>2, <1>3, <1>4 DEF SessionsInv, SessionsTypeOK, Wrote
  <1>8. \A q \in Requests : Shape(q)' /\ LoginTurn(q)' /\ StoreTurn(q)'
    BY <1>1, <1>4, <1>5
    DEF SessionsInv, SessionsTypeOK, Shape, LoginTurn, StoreTurn, NoRequest
  <1>9. TokensKnown'
    BY <1>1, <1>2, <1>3, <1>4, <1>5, SessionsAssumption
    DEF SessionsInv, SessionsTypeOK, TokensKnown, Unknown, Wrote, NoRequest, Live, Gens
  <1>10. StaysSignedIn'
    BY <1>1, <1>2, <1>3, <1>4
    DEF SessionsInv, SessionsTypeOK, StaysSignedIn, TokensKnown, Unknown, Wrote, Live
  <1>11. SignedOutStays'
    BY <1>1, <1>2, <1>3, <1>4
    DEF SessionsInv, SessionsTypeOK, SignedOutStays, TokensKnown, Wrote, Live, Gens
  <1>12. ResetEndsSessions' /\ DelayHolds'
    BY <1>1, <1>4, <1>5 DEF SessionsInv, SessionsTypeOK, ResetEndsSessions, DelayHolds, NoRequest
  <1> QED
    BY <1>7, <1>8, <1>9, <1>10, <1>11, <1>12 DEF SessionsInv

\* A sign-out takes its record out of the file for good.
LEMMA RevokeStep ==
    ASSUME SessionsInv, NEW r \in Requests, Revoke(r)
    PROVE  SessionsInv'
  <1> DEFINE W == Changed(r)
  <1>1. /\ r \in storeLock /\ req[r].stage = "revoke"
        /\ req[r].token \in given /\ req[r].token \notin promised
    BY DEF Revoke, HoldsStore, SessionsInv, Shape
  <1>2. W \in Records /\ \A t \in Tokens : W[t] = IF t = req[r].token THEN 0 ELSE file[t]
    BY <1>1, ChangedIs
  <1>3. Wrote(W)
    BY DEF Revoke, Saved, NotSaved, Wrote, SessionsInv, SessionsTypeOK
  <1>4. /\ storeLock' = {} /\ req' = [req EXCEPT ![r] = NoRequest]
        /\ UNCHANGED <<gen, genDisk, past, loginLock, throttle, drawn, given, promised, resetTo>>
    BY <1>1 DEF Revoke, Unlock, Goes, SessionsInv, StoreTurn
  <1>5. \/ ended' = ended
        \/ fileDisk' = {W} /\ ended' = ended \union {req[r].token}
    BY DEF Revoke, Saved
  <1>6. NoRequest.loaded \in Records
    BY DEF NoRequest, Records
  <1> HIDE DEF W
  <1>7. SessionsTypeOK'
    BY <1>2, <1>3, <1>4, <1>6 DEF SessionsInv, SessionsTypeOK, Wrote, NoRequest
  <1>8. \A q \in Requests : Shape(q)' /\ LoginTurn(q)' /\ StoreTurn(q)'
    BY <1>1, <1>4 DEF SessionsInv, SessionsTypeOK, Shape, LoginTurn, StoreTurn, NoRequest
  <1>9. TokensKnown'
    BY <1>1, <1>2, <1>3, <1>4, <1>5
    DEF SessionsInv, SessionsTypeOK, TokensKnown, Unknown, Wrote, NoRequest
  <1>10. StaysSignedIn'
    BY <1>1, <1>2, <1>3, <1>4
    DEF SessionsInv, SessionsTypeOK, StaysSignedIn, TokensKnown, Wrote
  <1>11. SignedOutStays'
    BY <1>1, <1>2, <1>3, <1>4, <1>5
    DEF SessionsInv, SessionsTypeOK, SignedOutStays, TokensKnown, Wrote
  <1>12. ResetEndsSessions' /\ DelayHolds'
    BY <1>1, <1>4 DEF SessionsInv, SessionsTypeOK, ResetEndsSessions, DelayHolds, NoRequest
  <1> QED
    BY <1>7, <1>8, <1>9, <1>10, <1>11, <1>12 DEF SessionsInv

-----------------------------------------------------------------------------
\* Every step keeps the invariant.
LEMMA SessionsStep == SessionsInv /\ [SessionsNext]_sessionVars => SessionsInv'
  <1> SUFFICES ASSUME SessionsInv, [SessionsNext]_sessionVars
               PROVE  SessionsInv'
    OBVIOUS
  <1>1. CASE UNCHANGED sessionVars
    BY <1>1 DEF sessionVars, files, locks, history, SessionsInv, SessionsTypeOK, Shape, LoginTurn,
                StoreTurn, TokensKnown, Unknown, StaysSignedIn, SignedOutStays,
                ResetEndsSessions, DelayHolds
  <1>2. CASE SessionsNext
    BY <1>2, LoadStep, NotReadStep, LoginStep, NotVerifiedStep, WrongPasswordStep,
       RightPasswordStep, CreateStep, RequestStep, CheckStep, RevokeStep, ExpireStep, DelayStep,
       StopStep, ResetStep, StartStep
    DEF SessionsNext
  <1> QED
    BY <1>1, <1>2

\* The inductive invariant of sign-in and sign-out, for any number of tokens,
\* requests and resets.
THEOREM SessionsInvariant == SessionsSpec => []SessionsInv
  BY SessionsStart, SessionsStep, PTL DEF SessionsSpec

\* Nobody who was told to be signed in is signed out by another's request, by a
\* write that fails or by a power loss (SessionStore, publish_auth_state).
THEOREM SignedInStays == SessionsSpec => []StaysSignedIn
  <1>1. SessionsInv => StaysSignedIn
    BY DEF SessionsInv
  <1> QED
    BY <1>1, SessionsInvariant, PTL

\* A confirmed sign-out is never undone (SessionStore.revoke).
THEOREM SignOutsStay == SessionsSpec => []SignedOutStays
  <1>1. SessionsInv => SignedOutStays
    BY DEF SessionsInv
  <1> QED
    BY <1>1, SessionsInvariant, PTL

\* A confirmed reset of the password is never undone (publish_auth_state).
THEOREM ResetsEndSessions == SessionsSpec => []ResetEndsSessions
  <1>1. SessionsInv => ResetEndsSessions
    BY DEF SessionsInv
  <1> QED
    BY <1>1, SessionsInvariant, PTL

\* No password is judged while a delay is in force (login, LoginThrottle).
THEOREM DelaysHold == SessionsSpec => []DelayHolds
  <1>1. SessionsInv => DelayHolds
    BY DEF SessionsInv
  <1> QED
    BY <1>1, SessionsInvariant, PTL
=============================================================================
