----------------------------- MODULE Presence -----------------------------
(***************************************************************************)
(* The sockets of one owner: how they come, are sent to, are checked again *)
(* and go; and what becomes of the owner's SSH sessions when the last one  *)
(* has gone.  The manager (ws_manager.py) drops a socket that cannot keep  *)
(* up at once, its endpoint (ws_endpoint) learns of it later.  All of this *)
(* runs on the event loop, in steps that end at an await; the release at   *)
(* sign-out and the connects run on threads.                               *)
(***************************************************************************)
EXTENDS Integers, Sequences

CONSTANTS Sockets,
          Tasks,      \* release tasks
          NoTask,
          MaxQueued,  \* frames a socket's queue holds: SOCKET_QUEUE_MAX_BYTES
          MaxFrames   \* bound: broadcasts

ASSUME PresenceAssumption ==
    /\ MaxQueued \in Nat \ {0} /\ MaxFrames \in Nat
    /\ NoTask \notin Tasks

VARIABLES
    signed,    \* the owner's session: "in", "revoked", "releasing" or "out"
    endpoint,  \* where ws_endpoint is for each socket
    conns,     \* the manager's sockets, all of this owner
    queue,     \* queue[s]: frames to send, each as the number of broadcasts it covers
    last,      \* last[s]: the frame sent last, 0 before the first
    frames,    \* broadcasts so far
    due,       \* sockets whose session has to be checked again
    tasks,     \* tasks[t]: a release task: "none", "sleeping", "joined" (history:
               \* sleeping, and a socket has come since it was made)
    pending,   \* _pending_releases
    ssh,       \* the owner's SSH sessions: "none", "kept", or "late": reserved by a
               \* connect that outlived the owner's presence
    dialing,   \* a request to connect is past its check and has not reserved
    stale,     \* history: sockets whose last deadline passed after the session's end
    misheard   \* history: a message of such a socket has been handled

wires == <<queue, last, frames>>
checks == <<due, stale, misheard>>
release == <<tasks, pending>>
shell == <<ssh, dialing>>
presenceVars == <<signed, endpoint, conns, wires, checks, release, shell>>

PresenceInit ==
    /\ signed = "in"
    /\ endpoint = [s \in Sockets |-> "gone"]
    /\ conns = {}
    /\ queue = [s \in Sockets |-> << >>]
    /\ last = [s \in Sockets |-> 0]
    /\ frames = 1
    /\ due = {} /\ stale = {} /\ misheard = FALSE
    /\ tasks = [t \in Tasks |-> "none"]
    /\ pending = NoTask
    /\ ssh = "none" /\ dialing = FALSE

-----------------------------------------------------------------------------
(* The release of an owner *)

\* The tasks with the pending one cancelled (_cancel_pending_release)
Cancelled == [t \in Tasks |-> IF t = pending THEN "none" ELSE tasks[t]]

\* Faulty variant: a task that is replaced goes on sleeping
ScheduleBeside ==
    \E t \in Tasks :
        /\ tasks[t] = "none"
        /\ tasks' = [tasks EXCEPT ![t] = "sleeping"]
        /\ pending' = t

\* A new task takes the place of the pending one
Schedule ==
    \E t \in Tasks :
        /\ Cancelled[t] = "none"
        /\ tasks' = [Cancelled EXCEPT ![t] = "sleeping"]
        /\ pending' = t

\* The grace period is over (_release_after_grace)
Fire(t) ==
    /\ tasks[t] # "none"
    /\ tasks' = [tasks EXCEPT ![t] = "none"]
    /\ pending' = NoTask
    /\ ssh' = IF conns = {} THEN "none" ELSE ssh
    /\ UNCHANGED <<signed, endpoint, conns, wires, checks, dialing>>

-----------------------------------------------------------------------------
(* Frames *)

\* The manager forgets a socket, with what it was to be sent
DropAll(gone) ==
    /\ conns' = conns \ gone
    /\ queue' = [s \in Sockets |-> IF s \in gone THEN << >> ELSE queue[s]]

\* Faulty variant: a frame that does not fit is left out
BroadcastSkips ==
    /\ frames < MaxFrames
    /\ frames' = frames + 1
    /\ queue' = [s \in Sockets |-> IF s \in conns /\ Len(queue[s]) < MaxQueued
                                   THEN Append(queue[s], frames + 1) ELSE queue[s]]
    /\ UNCHANGED <<signed, endpoint, conns, last, checks, release, shell>>

\* Sockets with no room for another frame (_enqueue closes them)
Full == {s \in conns : Len(queue[s]) = MaxQueued}

\* Everyone's queue gets the frame, or the socket is closed
Broadcast ==
    /\ frames < MaxFrames
    /\ frames' = frames + 1
    /\ conns' = conns \ Full
    /\ queue' = [s \in Sockets |-> CASE s \in Full -> << >>
                                     [] s \in conns \ Full -> Append(queue[s], frames + 1)
                                     [] OTHER -> queue[s]]
    /\ UNCHANGED <<signed, endpoint, last, checks, release, shell>>

\* The socket's sender sends the next frame, ...
Send(s) ==
    /\ s \in conns /\ queue[s] # << >>
    /\ last' = [last EXCEPT ![s] = Head(queue[s])]
    /\ queue' = [queue EXCEPT ![s] = Tail(@)]
    /\ UNCHANGED <<signed, endpoint, conns, frames, checks, release, shell>>

\* ... or fails, or takes longer than SOCKET_SEND_DEADLINE
SendFails(s) ==
    /\ s \in conns /\ queue[s] # << >>
    /\ DropAll({s})
    /\ UNCHANGED <<signed, endpoint, last, frames, checks, release, shell>>

-----------------------------------------------------------------------------
(* The endpoint *)

\* A new socket, whose session is valid, is accepted, which takes an await
Open(s) ==
    /\ endpoint[s] = "gone" /\ signed = "in"
    /\ endpoint' = [endpoint EXCEPT ![s] = "accepting"]
    /\ last' = [last EXCEPT ![s] = 0]
    /\ due' = due \ {s}
    /\ UNCHANGED <<signed, conns, queue, frames, stale, misheard, release, shell>>

AcceptFails(s) ==
    /\ endpoint[s] = "accepting"
    /\ endpoint' = [endpoint EXCEPT ![s] = "gone"]
    /\ UNCHANGED <<signed, conns, wires, checks, release, shell>>

\* What joining does to the tasks that go on sleeping
Joined(sleeping) == [t \in Tasks |-> IF sleeping[t] = "none" THEN "none" ELSE "joined"]

\* Faulty variant: a reconnect leaves the pending release alone
AcceptedBeside(s) ==
    /\ endpoint[s] = "accepting"
    /\ endpoint' = [endpoint EXCEPT ![s] = "open"]
    /\ conns' = conns \union {s}
    /\ queue' = [queue EXCEPT ![s] = <<frames>>]
    /\ tasks' = Joined(tasks)
    /\ UNCHANGED <<signed, last, frames, checks, pending, shell>>

\* It is registered, its owner's release cancelled, and the snapshot queued as
\* its first frame, with no await in between
Accepted(s) ==
    /\ endpoint[s] = "accepting"
    /\ endpoint' = [endpoint EXCEPT ![s] = "open"]
    /\ conns' = conns \union {s}
    /\ queue' = [queue EXCEPT ![s] = <<frames>>]
    /\ tasks' = Joined(Cancelled) /\ pending' = NoTask
    /\ UNCHANGED <<signed, last, frames, checks, shell>>

\* WS_REVALIDATE_SECONDS are over
Deadline(s) ==
    /\ endpoint[s] = "open" /\ s \notin due
    /\ due' = due \union {s}
    /\ stale' = IF signed = "in" THEN stale ELSE stale \union {s}
    /\ UNCHANGED <<signed, endpoint, conns, wires, misheard, release, shell>>

\* Faulty variant: messages are handled first, and the check waits for a silence
HandleFirst(s) ==
    /\ endpoint[s] = "open"
    /\ misheard' = (misheard \/ s \in stale)
    /\ UNCHANGED <<signed, endpoint, conns, wires, due, stale, release, shell>>

\* A message that arrives before the check is due is handled
Handle(s) ==
    /\ endpoint[s] = "open" /\ s \notin due
    /\ misheard' = (misheard \/ s \in stale)
    /\ UNCHANGED <<signed, endpoint, conns, wires, due, stale, release, shell>>

\* The check reads the store on a thread
Check(s) ==
    /\ endpoint[s] = "open" /\ s \in due
    /\ endpoint' = [endpoint EXCEPT ![s] = IF signed = "in" THEN "passed" ELSE "refused"]
    /\ UNCHANGED <<signed, conns, wires, checks, release, shell>>

\* The check has passed: a new period begins, and the message that came while
\* it was due, if one did, is handled
Resume(s) ==
    /\ endpoint[s] = "passed"
    /\ endpoint' = [endpoint EXCEPT ![s] = "open"]
    /\ due' = due \ {s}
    /\ \/ misheard' = (misheard \/ s \in stale)
       \/ UNCHANGED misheard
    /\ UNCHANGED <<signed, conns, wires, stale, release, shell>>

\* Faulty variant: a socket the manager has dropped before is not looked at again
LeaveKnown(s) ==
    /\ endpoint[s] \in {"open", "refused"}
    /\ endpoint' = [endpoint EXCEPT ![s] = "gone"]
    /\ DropAll({s})
    /\ IF conns = {s} THEN Schedule ELSE UNCHANGED release
    /\ UNCHANGED <<signed, last, frames, checks, shell>>

\* The endpoint ends: its socket was lost, closed by the manager, or refused
Leave(s) ==
    /\ endpoint[s] \in {"open", "refused"}
    /\ endpoint' = [endpoint EXCEPT ![s] = "gone"]
    /\ DropAll({s})
    /\ IF conns \ {s} = {} THEN Schedule ELSE UNCHANGED release
    /\ UNCHANGED <<signed, last, frames, checks, shell>>

-----------------------------------------------------------------------------
(* SSH sessions and sign-out *)

\* Nothing would release a session reserved now, but the idle tick
Unattended ==
    /\ conns = {} /\ signed # "releasing"
    /\ \A t \in Tasks : tasks[t] = "none"
    /\ \A s \in Sockets : endpoint[s] \in {"accepting", "gone"}

RequestConnect ==
    /\ signed = "in" /\ conns # {} /\ ~dialing
    /\ dialing' = TRUE
    /\ UNCHANGED <<signed, endpoint, conns, wires, checks, release, ssh>>

\* The connecting thread reserves a session for the owner
Reserve ==
    /\ dialing
    /\ dialing' = FALSE
    /\ ssh' = IF Unattended THEN "late" ELSE "kept"
    /\ UNCHANGED <<signed, endpoint, conns, wires, checks, release>>

\* The idle tick ends it
IdleTick ==
    /\ ssh = "late"
    /\ ssh' = "none"
    /\ UNCHANGED <<signed, endpoint, conns, wires, checks, release, dialing>>

\* logout: the session is revoked, or it expires, ...
Revoke ==
    /\ signed = "in"
    /\ signed' \in {"revoked", "out"}
    /\ UNCHANGED <<endpoint, conns, wires, checks, release, shell>>

\* ... then no release is needed, as one is begun, ...
CancelRelease ==
    /\ signed = "revoked"
    /\ signed' = "releasing"
    /\ tasks' = Cancelled /\ pending' = NoTask
    /\ UNCHANGED <<endpoint, conns, wires, checks, shell>>

\* ... which a thread carries out (release_owner)
ReleaseSignedOut ==
    /\ signed = "releasing"
    /\ signed' = "out"
    /\ ssh' = "none"
    /\ UNCHANGED <<endpoint, conns, wires, checks, release, dialing>>

PresenceNext ==
    \/ Broadcast \/ RequestConnect \/ Reserve \/ IdleTick
    \/ Revoke \/ CancelRelease \/ ReleaseSignedOut
    \/ \E t \in Tasks : Fire(t)
    \/ \E s \in Sockets :
          \/ Open(s) \/ AcceptFails(s) \/ Accepted(s) \/ Leave(s)
          \/ Send(s) \/ SendFails(s)
          \/ Deadline(s) \/ Handle(s) \/ Check(s) \/ Resume(s)

PresenceSpec == PresenceInit /\ [][PresenceNext]_presenceVars

\* Sleeps end, threads go on, and an endpoint whose socket the manager has closed
\* does not wait for another message once it is back from a check: that raises
PresenceFairness ==
    /\ \A t \in Tasks : WF_presenceVars(Fire(t))
    /\ WF_presenceVars(ReleaseSignedOut)
    /\ \A s \in Sockets :
          /\ SF_presenceVars(s \notin conns /\ Leave(s))
          /\ WF_presenceVars(Check(s)) /\ WF_presenceVars(Resume(s))

PresenceLiveSpec == PresenceSpec /\ PresenceFairness

-----------------------------------------------------------------------------
(* Properties *)

\* An owner who is back within the grace period keeps the SSH sessions, and has
\* the whole period again after leaving once more: a task never releases what
\* the owner came back for (_cancel_pending_release, in connect and at the end).
ReturnKeeps ==
    [][\A t \in Tasks : tasks[t] = "joined" /\ tasks'[t] = "none" => ssh' = ssh]_presenceVars

\* An owner who stays away is released, however the last socket went: closed by
\* the page, by the manager or by a failed check.
AbsentReleased == (ssh = "kept" /\ conns = {}) ~> (ssh # "kept" \/ conns # {})

\* A socket is sent the snapshot it began with and every broadcast after it, in
\* order; one that cannot keep up is closed and never has a gap.
SentInOrder ==
    \A s \in conns :
        LET waiting == queue[s]
        IN  /\ \A i \in DOMAIN waiting : waiting[i] = frames - Len(waiting) + i
            /\ last[s] # 0 => last[s] = frames - Len(waiting)

\* No message of a socket is handled once the session has ended and a deadline
\* for its check has passed since, whatever arrives meanwhile (ws_endpoint).
CheckedInTime == ~misheard
============================================================================
