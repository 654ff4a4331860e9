----------------------------- MODULE SshBrowsers -----------------------------
(***************************************************************************)
(* SshSlots with the messages its threads push and what the browsers show: *)
(* the status of a device goes to one owner, its lock to everyone.  A push *)
(* only queues; _deliver runs later, on the event loop, and drops a        *)
(* message whose generation has lost its slot.                             *)
(***************************************************************************)
EXTENDS SshSlots, Sequences

CONSTANT MaxBacklog   \* bound: a disconnect that finds the slot empty starts with fewer messages queued

ASSUME BrowsersAssumption == MaxBacklog \in Nat

VARIABLES
    queue,        \* messages pushed and not yet written to the browsers; gen is 0
                  \* for one without the _gen stamp, `to` NoOwner for everyone
    view,         \* view[o][d]: the browser of o shows its own connection to d
    lockView      \* lockView[o][d]: the browser of o shows d locked

browserVars == <<queue, view, lockView>>
vars == <<slotVars, browserVars>>

\* _status and _lock: pushed by one thread, one right after the other
Announcement(d, on, to, gen) ==
    <<[kind |-> "status", dev |-> d, on |-> on, to |-> to, gen |-> gen],
      [kind |-> "lock", dev |-> d, on |-> on, to |-> NoOwner, gen |-> gen]>>

Push(messages) == queue' = queue \o messages

BInit ==
    /\ Init
    /\ queue = << >>
    /\ view = [o \in Owners |-> [d \in Devices |-> FALSE]]
    /\ lockView = [o \in Owners |-> [d \in Devices |-> FALSE]]

\* The end of a connect: connected and locked, stamped with the generation,
\* or idle and unlocked, with no stamp
PushConnect(g) ==
    /\ Announce(g)
    /\ IF pc[g] = "sayConnected"
       THEN Push(Announcement(device[g], TRUE, owner[g], g))
       ELSE Push(Announcement(device[g], FALSE, owner[g], 0))
    /\ UNCHANGED <<view, lockView>>

\* Whom an idle status goes to: the owner a disconnect was asked for, else
\* the owner of the session closed, else the owner of whatever is in the slot
Addressee(c, d) ==
    LET asked == IF job[c].op = "disconnect" THEN job[c].who ELSE NoOwner
        held(g) == IF g = 0 THEN NoOwner ELSE owner[g]
    IN  IF asked # NoOwner THEN asked
        ELSE IF job[c].cur # 0 THEN held(job[c].cur)
        ELSE held(sessions[d])

\* The end of a close: idle and unlocked, with no stamp
PushClosed(c) ==
    /\ AnnounceClosed(c)
    /\ \E d \in job[c].at : Push(Announcement(d, FALSE, Addressee(c, d), 0))
    /\ UNCHANGED <<view, lockView>>

\* Faulty variant: the generation stamp is not looked at
StillCurrentAlways(m) == TRUE

\* _deliver drops a stamped message whose generation no longer holds the
\* slot, and each socket's sender repeats the test; a generation that lost
\* its slot never regains it, so the last test stands for both
StillCurrent(m) == m.gen # 0 => sessions[m.dev] = m.gen

Show(browsers, shown, m) ==
    [o \in Owners |-> IF o \in browsers THEN [shown[o] EXCEPT ![m.dev] = m.on] ELSE shown[o]]

Deliver ==
    LET m == Head(queue)
        browsers == IF ~StillCurrent(m) THEN {}
                    ELSE IF m.to = NoOwner THEN Owners ELSE {m.to}
    IN  /\ Free(Loop)
        /\ queue # << >>
        /\ queue' = Tail(queue)
        /\ view' = IF m.kind = "status" THEN Show(browsers, view, m) ELSE view
        /\ lockView' = IF m.kind = "lock" THEN Show(browsers, lockView, m) ELSE lockView
        /\ UNCHANGED slotVars

\* The init frame of a page that loads or reconnects (owner_ssh_snapshot and
\* locked_device_ids); what is still queued reaches it afterwards
LoadPage(o) ==
    /\ Free(Loop)
    /\ view' = [view EXCEPT ![o] = [d \in Devices |-> Connected(d) /\ owner[sessions[d]] = o]]
    /\ lockView' = [lockView EXCEPT ![o] = [d \in Devices |-> Connected(d)]]
    /\ UNCHANGED <<slotVars, queue>>

BNext ==
    \/ Quiet /\ UNCHANGED browserVars
    \/ \E d \in Devices, o \in Owners \union {NoOwner} :
          /\ sessions[d] = 0 => Len(queue) < MaxBacklog
          /\ Disconnect(d, o)
          /\ UNCHANGED browserVars
    \/ \E g \in Gens : PushConnect(g)
    \/ \E c \in Callers : PushClosed(c)
    \/ Deliver
    \/ \E o \in Owners : LoadPage(o)

BSpec == BInit /\ [][BNext]_vars

-----------------------------------------------------------------------------
(* Properties *)

Settled == AtRest /\ queue = << >>

\* Once everything has finished and been delivered, no browser shows a
\* connection or a lock on a device whose slot is empty: whatever took the
\* last session out announced it, and nothing stale was delivered after it.
NoGhost ==
    Settled => \A d \in Devices : sessions[d] = 0 =>
                   \A o \in Owners : ~view[o][d] /\ ~lockView[o][d]

\* A browser is never told of a connection that is already gone, although
\* the message may be queued long before it is delivered (_deliver).
ShownWhileConnected ==
    [][\A o \in Owners, d \in Devices :
          /\ ~view[o][d] /\ view'[o][d] => Connected(d) /\ owner[sessions[d]] = o
          /\ ~lockView[o][d] /\ lockView'[o][d] => Connected(d)]_vars
=============================================================================
