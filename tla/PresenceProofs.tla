--------------------------- MODULE PresenceProofs ---------------------------
(***************************************************************************)
(* The safety of an owner's sockets, for any number of sockets, tasks and  *)
(* frames.  What it rests on: a socket is the manager's only while its     *)
(* endpoint runs, its queue is the last broadcasts, the only release task  *)
(* is the pending one, and no check passes once the session has ended.     *)
(***************************************************************************)
EXTENDS Presence, TLAPS

\* Where an endpoint runs
Running == {"open", "passed", "refused"}

PresenceTypeOK ==
    /\ signed \in {"in", "revoked", "releasing", "out"}
    /\ endpoint \in [Sockets -> Running \union {"accepting", "gone"}]
    /\ conns \in SUBSET Sockets
    /\ queue \in [Sockets -> Seq(Nat)]
    /\ last \in [Sockets -> Nat]
    /\ frames \in Nat \ {0}
    /\ due \in SUBSET Sockets /\ stale \in SUBSET Sockets
    /\ tasks \in [Tasks -> {"none", "sleeping", "joined"}]
    /\ pending \in Tasks \union {NoTask}

\* The manager's sockets are those of endpoints that run; a new one has been
\* sent nothing
Registered ==
    /\ \A s \in conns : endpoint[s] \in Running
    /\ \A s \in Sockets : endpoint[s] = "accepting" => last[s] = 0

\* The pending release is the only one, and nobody has joined since it was made
OneRelease == \A t \in Tasks : tasks[t] # "none" => tasks[t] = "sleeping" /\ t = pending

\* A socket whose deadline has passed after the session's end is to be checked,
\* or has been refused
Refused ==
    \A s \in stale : /\ signed # "in"
                     /\ \/ endpoint[s] = "open" /\ s \in due
                        \/ endpoint[s] \in {"refused", "gone"}

PresenceInv ==
    /\ PresenceTypeOK /\ Registered /\ OneRelease /\ Refused /\ SentInOrder /\ CheckedInTime

\* The initial state.
LEMMA PresenceInvInit ==
    ASSUME PresenceInit
    PROVE  PresenceInv
BY PresenceAssumption
DEF PresenceInit, PresenceInv, PresenceTypeOK, Registered, OneRelease, Refused, SentInOrder,
    CheckedInTime, Running

-----------------------------------------------------------------------------
(* What a socket is sent *)

\* What SentInOrder says of one socket.
InOrder(waiting, sent, total) ==
    /\ \A i \in DOMAIN waiting : waiting[i] = total - Len(waiting) + i
    /\ sent # 0 => sent = total - Len(waiting)

\* The order holds if it does for every socket.
LEMMA SentInOrderPerSocket ==
    SentInOrder <=> \A s \in conns : InOrder(queue[s], last[s], frames)
BY DEF SentInOrder, InOrder

\* The next broadcast joins the end of the queue.
LEMMA BroadcastKeepsOrder ==
    ASSUME NEW waiting \in Seq(Nat), NEW sent \in Nat, NEW total \in Nat,
           InOrder(waiting, sent, total)
    PROVE  InOrder(Append(waiting, total + 1), sent, total + 1)
<1> DEFINE w == Append(waiting, total + 1)
<1>1. /\ Len(w) = Len(waiting) + 1 /\ Len(waiting) \in Nat
      /\ DOMAIN w = 1..(Len(waiting) + 1) /\ DOMAIN waiting = 1..Len(waiting)
      /\ \A i \in 1..Len(waiting) : w[i] = waiting[i]
      /\ w[Len(waiting) + 1] = total + 1
  OBVIOUS
<1> HIDE DEF w
<1>2. \A i \in DOMAIN w : w[i] = total + 1 - Len(w) + i
  <2> SUFFICES ASSUME NEW i \in 1..(Len(waiting) + 1)
               PROVE  w[i] = total + 1 - Len(w) + i
    BY <1>1
  <2>1. CASE i \in 1..Len(waiting)
    <3>1. waiting[i] = total - Len(waiting) + i
      BY <1>1, <2>1 DEF InOrder
    <3> QED  BY <1>1, <2>1, <3>1
  <2>2. CASE i = Len(waiting) + 1
    BY <1>1, <2>2
  <2> QED  BY <1>1, <2>1, <2>2
<1>3. sent # 0 => sent = total + 1 - Len(w)
  <2>1. sent # 0 => sent = total - Len(waiting)
    BY DEF InOrder
  <2> QED  BY <1>1, <2>1
<1> QED  BY <1>2, <1>3 DEF InOrder, w

\* The frame at its head becomes the last one sent.
LEMMA SendKeepsOrder ==
    ASSUME NEW waiting \in Seq(Nat), waiting # << >>, NEW sent \in Nat, NEW total \in Nat,
           InOrder(waiting, sent, total)
    PROVE  InOrder(Tail(waiting), Head(waiting), total)
<1> DEFINE w == Tail(waiting)
<1>1. /\ Len(w) = Len(waiting) - 1 /\ Len(waiting) \in Nat \ {0}
      /\ DOMAIN w = 1..(Len(waiting) - 1) /\ DOMAIN waiting = 1..Len(waiting)
      /\ \A i \in 1..(Len(waiting) - 1) : w[i] = waiting[i + 1]
      /\ Head(waiting) = waiting[1]
  OBVIOUS
<1> HIDE DEF w
<1>2. \A i \in DOMAIN w : w[i] = total - Len(w) + i
  <2> SUFFICES ASSUME NEW i \in 1..(Len(waiting) - 1)
               PROVE  w[i] = total - Len(w) + i
    BY <1>1
  <2>0. i + 1 \in DOMAIN waiting
    BY <1>1
  <2>1. waiting[i + 1] = total - Len(waiting) + (i + 1)
    BY <2>0 DEF InOrder
  <2> QED  BY <1>1, <2>1
<1>3. waiting[1] = total - Len(waiting) + 1
  BY <1>1 DEF InOrder
<1> QED  BY <1>1, <1>2, <1>3 DEF InOrder, w

\* A socket begins with the snapshot.
LEMMA SnapshotIsFirst ==
    ASSUME NEW total \in Nat
    PROVE  InOrder(<<total>>, 0, total)
BY DEF InOrder

-----------------------------------------------------------------------------
(* The steps *)

\* Of the manager: frames go out in order, to sockets whose endpoint runs.
LEMMA ManagerStep ==
    ASSUME PresenceInv, Broadcast \/ \E s \in Sockets : Send(s) \/ SendFails(s)
    PROVE  PresenceInv'
<1> USE PresenceAssumption DEF PresenceInv, PresenceTypeOK
<1>0. UNCHANGED <<signed, endpoint, checks, release, shell>>
  BY DEF Broadcast, Send, SendFails
<1>1. OneRelease' /\ Refused' /\ CheckedInTime'
  BY <1>0 DEF checks, release, OneRelease, Refused, CheckedInTime
<1>2. CASE Broadcast
  <2>1. frames' = frames + 1 /\ conns' \subseteq conns /\ last' = last
    BY <1>2 DEF Broadcast
  <2>2. queue' \in [Sockets -> Seq(Nat)]
    BY <1>2 DEF Broadcast
  <2>3. \A s \in conns' : queue'[s] = Append(queue[s], frames + 1)
    BY <1>2 DEF Broadcast, Full
  <2>4. SentInOrder'
    <3> SUFFICES ASSUME NEW s \in conns'
                 PROVE  InOrder(queue'[s], last'[s], frames')
      BY DEF SentInOrder, InOrder
    <3>1. InOrder(queue[s], last[s], frames)
      BY <2>1, SentInOrderPerSocket
    <3>2. queue[s] \in Seq(Nat) /\ last[s] \in Nat
      BY <2>1
    <3> HIDE DEF PresenceInv, PresenceTypeOK
    <3>3. frames \in Nat
      BY DEF PresenceInv, PresenceTypeOK
    <3> QED  BY <2>1, <2>3, <3>1, <3>2, <3>3, BroadcastKeepsOrder
  <2>5. PresenceTypeOK' /\ Registered'
    BY <1>0, <2>1, <2>2 DEF checks, release, Registered
  <2> QED  BY <1>1, <2>4, <2>5
<1>3. CASE \E s \in Sockets : Send(s)
  <2>1. PICK s \in Sockets : Send(s)
    BY <1>3
  <2>2. /\ s \in conns /\ queue[s] # << >>
        /\ last' = [last EXCEPT ![s] = Head(queue[s])]
        /\ queue' = [queue EXCEPT ![s] = Tail(queue[s])]
        /\ UNCHANGED <<conns, frames>>
    BY <2>1 DEF Send
  <2>3. queue[s] \in Seq(Nat) /\ last[s] \in Nat /\ frames \in Nat
    OBVIOUS
  <2>4. Head(queue[s]) \in Nat /\ Tail(queue[s]) \in Seq(Nat)
    BY <2>2, <2>3
  <2>5. SentInOrder'
    <3> SUFFICES ASSUME NEW q \in conns
                 PROVE  InOrder(queue'[q], last'[q], frames)
      BY <2>2 DEF SentInOrder, InOrder
    <3>1. InOrder(queue[q], last[q], frames)
      BY SentInOrderPerSocket
    <3>2. CASE q = s
      BY <2>2, <2>3, <3>1, <3>2, SendKeepsOrder
    <3>3. CASE q # s
      BY <2>2, <3>1, <3>3
    <3> QED  BY <3>2, <3>3
  <2>6. PresenceTypeOK'
    BY <1>0, <2>2, <2>4 DEF checks, release
  <2>7. Registered'
    BY <1>0, <2>2 DEF Registered, Running
  <2> QED  BY <1>1, <2>5, <2>6, <2>7
<1>4. CASE \E s \in Sockets : SendFails(s)
  <2>1. PICK s \in Sockets : SendFails(s)
    BY <1>4
  <2>2. conns' = conns \ {s} /\ UNCHANGED <<last, frames>>
    BY <2>1 DEF SendFails, DropAll
  <2>3. /\ queue' \in [Sockets -> Seq(Nat)]
        /\ \A q \in Sockets \ {s} : queue'[q] = queue[q]
    BY <2>1 DEF SendFails, DropAll
  <2>4. SentInOrder'
    BY <2>2, <2>3 DEF SentInOrder
  <2>5. PresenceTypeOK'
    BY <1>0, <2>2, <2>3 DEF checks, release
  <2>6. Registered'
    BY <1>0, <2>2, <2>3 DEF Registered
  <2> QED  BY <1>1, <2>4, <2>5, <2>6
<1> QED  BY <1>2, <1>3, <1>4

\* Of the endpoints: a socket comes, is checked and goes.
LEMMA EndpointStep ==
    ASSUME PresenceInv, NEW s \in Sockets,
           \/ Open(s) \/ AcceptFails(s) \/ Accepted(s) \/ Leave(s)
           \/ Deadline(s) \/ Handle(s) \/ Check(s) \/ Resume(s)
    PROVE  PresenceInv'
<1> USE PresenceAssumption DEF PresenceInv, PresenceTypeOK
<1>1. CASE Open(s)
  <2>1. s \notin conns
    BY <1>1 DEF Open, Registered, Running
  <2>2. PresenceTypeOK'
    BY <1>1 DEF Open, release, Running
  <2>3. Registered' /\ OneRelease' /\ Refused' /\ CheckedInTime'
    BY <1>1, <2>1 DEF Open, release, Registered, OneRelease, Refused, CheckedInTime
  <2>4. SentInOrder'
    BY <1>1, <2>1 DEF Open, SentInOrder
  <2> QED  BY <2>2, <2>3, <2>4
<1>2. CASE Accepted(s)
  <2>1. /\ endpoint[s] = "accepting" /\ endpoint' = [endpoint EXCEPT ![s] = "open"]
        /\ conns' = conns \union {s} /\ queue' = [queue EXCEPT ![s] = <<frames>>]
        /\ UNCHANGED <<signed, last, frames, due, stale, misheard>>
    BY <1>2 DEF Accepted, checks
  <2>2. tasks' = [t \in Tasks |-> "none"] /\ pending' = NoTask
    BY <1>2 DEF Accepted, Joined, Cancelled, OneRelease
  <2>3. PresenceTypeOK'
    BY <2>1, <2>2 DEF Running
  <2>4. Registered' /\ OneRelease' /\ Refused' /\ CheckedInTime'
    BY <2>1, <2>2 DEF Registered, Running, OneRelease, Refused, CheckedInTime
  <2>5. SentInOrder'
    <3> SUFFICES ASSUME NEW q \in conns'
                 PROVE  InOrder(queue'[q], last'[q], frames')
      BY DEF SentInOrder, InOrder
    <3>1. CASE q = s
      BY <2>1, <3>1, SnapshotIsFirst DEF Registered
    <3>2. CASE q # s
      BY <2>1, <3>2, SentInOrderPerSocket
    <3> QED  BY <3>1, <3>2
  <2> QED  BY <2>3, <2>4, <2>5
<1>3. CASE Leave(s)
  <2>1. /\ endpoint' = [endpoint EXCEPT ![s] = "gone"] /\ endpoint[s] \in {"open", "refused"}
        /\ conns' = conns \ {s}
        /\ UNCHANGED <<signed, last, frames, due, stale, misheard>>
    BY <1>3 DEF Leave, DropAll, checks
  <2>2. /\ queue' \in [Sockets -> Seq(Nat)]
        /\ \A q \in Sockets \ {s} : queue'[q] = queue[q]
    BY <1>3 DEF Leave, DropAll
  <2>3. /\ tasks' \in [Tasks -> {"none", "sleeping", "joined"}]
        /\ pending' \in Tasks \union {NoTask}
        /\ OneRelease'
    <3>1. CASE UNCHANGED release
      BY <3>1 DEF release, OneRelease
    <3>2. CASE Schedule
      BY <3>2 DEF Schedule, Cancelled, OneRelease
    <3> QED  BY <1>3, <3>1, <3>2 DEF Leave
  <2>4. PresenceTypeOK'
    BY <2>1, <2>2, <2>3
  <2>5. Registered'
    BY <2>1 DEF Registered
  <2>7. Refused' /\ CheckedInTime'
    BY <2>1 DEF Refused, CheckedInTime
  <2>6. SentInOrder'
    <3> SUFFICES ASSUME NEW q \in conns \ {s}
                 PROVE  InOrder(queue'[q], last'[q], frames')
      BY <2>1 DEF SentInOrder, InOrder
    <3>1. InOrder(queue[q], last[q], frames)
      BY SentInOrderPerSocket
    <3> QED  BY <2>1, <2>2, <3>1
  <2> HIDE DEF PresenceTypeOK
  <2> QED  BY <2>3, <2>4, <2>5, <2>6, <2>7
<1>4. CASE AcceptFails(s) \/ Deadline(s) \/ Handle(s) \/ Check(s) \/ Resume(s)
  <2>1. UNCHANGED <<signed, conns, queue, last, frames, tasks, pending>>
    BY <1>4 DEF AcceptFails, Deadline, Handle, Check, Resume, wires, release
  <2>2. OneRelease' /\ SentInOrder'
    BY <2>1 DEF OneRelease, SentInOrder
  <2>3. PresenceTypeOK'
    BY <1>4, <2>1 DEF AcceptFails, Deadline, Handle, Check, Resume, checks, Running
  <2>4. Registered'
    BY <1>4, <2>1 DEF AcceptFails, Deadline, Handle, Check, Resume, Registered, Running
  <2>5. Refused' /\ CheckedInTime'
    <3>1. CASE AcceptFails(s)
      BY <2>1, <3>1 DEF AcceptFails, checks, Refused, CheckedInTime
    <3>2. CASE Deadline(s)
      BY <2>1, <3>2 DEF Deadline, Refused, CheckedInTime
    <3>3. CASE Handle(s)
      BY <2>1, <3>3 DEF Handle, Refused, CheckedInTime
    <3>4. CASE Check(s)
      BY <2>1, <3>4 DEF Check, checks, Refused, CheckedInTime
    <3>5. CASE Resume(s)
      <4>1. s \notin stale
        BY <3>5 DEF Resume, Refused
      <4>2. Refused'
        BY <2>1, <3>5, <4>1 DEF Resume, Refused
      <4>3. CheckedInTime'
        BY <3>5, <4>1 DEF Resume, CheckedInTime
      <4> QED  BY <4>2, <4>3
    <3> QED  BY <1>4, <3>1, <3>2, <3>3, <3>4, <3>5
  <2> QED  BY <2>2, <2>3, <2>4, <2>5
<1> QED  BY <1>1, <1>2, <1>3, <1>4

\* Of the SSH sessions, the sign-out and the release task.
LEMMA SessionStep ==
    ASSUME PresenceInv,
           \/ RequestConnect \/ Reserve \/ IdleTick
           \/ Revoke \/ CancelRelease \/ ReleaseSignedOut
           \/ \E t \in Tasks : Fire(t)
    PROVE  PresenceInv'
<1> USE PresenceAssumption DEF PresenceInv, PresenceTypeOK
<1>1. UNCHANGED <<endpoint, conns, queue, last, frames, due, stale, misheard>>
  BY DEF RequestConnect, Reserve, IdleTick, Revoke, CancelRelease, ReleaseSignedOut, Fire,
         wires, checks
<1>2. /\ signed' \in {"in", "revoked", "releasing", "out"}
      /\ signed # "in" => signed' # "in"
  BY DEF RequestConnect, Reserve, IdleTick, Revoke, CancelRelease, ReleaseSignedOut, Fire
<1>3. /\ tasks' \in [Tasks -> {"none", "sleeping", "joined"}]
      /\ pending' \in Tasks \union {NoTask}
      /\ OneRelease'
  <2>1. CASE UNCHANGED release
    BY <2>1 DEF release, OneRelease
  <2>2. CASE CancelRelease \/ \E t \in Tasks : Fire(t)
    BY <2>2 DEF CancelRelease, Fire, Cancelled, OneRelease
  <2> QED
    BY <2>1, <2>2 DEF RequestConnect, Reserve, IdleTick, Revoke, ReleaseSignedOut
<1>4. PresenceTypeOK'
  BY <1>1, <1>2, <1>3
<1>5. Registered' /\ Refused' /\ SentInOrder' /\ CheckedInTime'
  BY <1>1, <1>2 DEF Registered, Refused, SentInOrder, CheckedInTime
<1> QED  BY <1>3, <1>4, <1>5

-----------------------------------------------------------------------------
(* The theorems *)

\* An owner's sockets are always in one of the states described above.
THEOREM PresenceInvariant == PresenceSpec => []PresenceInv
<1>1. PresenceInit => PresenceInv
  BY PresenceInvInit
<1>2. PresenceInv /\ [PresenceNext]_presenceVars => PresenceInv'
  <2>1. CASE PresenceInv /\ PresenceNext
    BY <2>1, ManagerStep, EndpointStep, SessionStep DEF PresenceNext
  <2>2. CASE PresenceInv /\ UNCHANGED presenceVars
    BY <2>2
    DEF presenceVars, wires, checks, release, shell, PresenceInv, PresenceTypeOK, Registered,
        OneRelease, Refused, SentInOrder, CheckedInTime
  <2> QED  BY <2>1, <2>2
<1> QED
  BY <1>1, <1>2, PTL DEF PresenceSpec

\* A socket is sent the snapshot it began with and every broadcast after it, in
\* order and without a gap, or is closed.
THEOREM FramesInOrder == PresenceSpec => []SentInOrder
<1>1. PresenceInv => SentInOrder
  BY DEF PresenceInv
<1> QED  BY <1>1, PresenceInvariant, PTL

\* No message of a socket is handled once a deadline for its check has passed
\* after the end of its session.
THEOREM NoLateMessage == PresenceSpec => []CheckedInTime
<1>1. PresenceInv => CheckedInTime
  BY DEF PresenceInv
<1> QED  BY <1>1, PresenceInvariant, PTL

\* An owner who is back within the grace period keeps the SSH sessions: no release
\* task outlives a socket that joins.
THEOREM NoStrayRelease == PresenceSpec => ReturnKeeps
<1>1. PresenceInv /\ [PresenceNext]_presenceVars =>
          [\A t \in Tasks :
              tasks[t] = "joined" /\ tasks'[t] = "none" => ssh' = ssh]_presenceVars
  BY DEF PresenceInv, OneRelease
<1> QED  BY <1>1, PresenceInvariant, PTL DEF PresenceSpec, ReturnKeeps
=============================================================================
