------------------------------ MODULE SshSlots ------------------------------
(***************************************************************************)
(* The device slots of SSHManager (ssh_manager.py): reserving a slot, the  *)
(* blocking connect, host-key prompts, every way a session is torn down    *)
(* and the owners' idle clocks.  SshBrowsers adds the messages pushed.     *)
(*                                                                         *)
(* A session is named by its generation: connect() makes one session and   *)
(* one generation per call and runs on one executor thread, so that a      *)
(* generation also names a thread (pc).  Everything that closes sessions   *)
(* runs on a caller (job): the event loop, which runs one of these         *)
(* handlers at a time and to its end, or a worker thread that a sign-out   *)
(* hands release_owner to.  A step ends where a lock is released, where a  *)
(* call blocks, or after a write another thread can observe.  Log lines    *)
(* and the idle warning change none of this state and are left out.        *)
(***************************************************************************)
EXTENDS Integers, FiniteSets

CONSTANTS
    Devices,      \* device ids
    Owners,       \* signed-in browser sessions
    MaxGen,       \* bound: connect() calls in a behaviour
    Loop,         \* the event loop
    SignOuts,     \* worker threads that run release_owner for a sign-out
    NoOwner       \* the None owner of a device deletion

Callers == {Loop} \union SignOuts
Gens    == 1..MaxGen

ASSUME SlotsAssumption ==
    /\ Devices # {}
    /\ MaxGen \in Nat
    /\ Loop \notin SignOuts
    /\ NoOwner \notin Owners

VARIABLES
    sessions,     \* sessions[d]: generation in the slot of device d, 0 if none
    genCounter,   \* _gen_counter
    state,        \* _Session.state
    owner,        \* _Session.owner
    device,       \* _Session.device_id
    client,       \* _Session.client is set
    oldSess,      \* oldSess[g]: the session connect g retired, 0 if none
    pc,           \* what the thread of connect g does next
    pending,      \* _pending[d]: generation whose prompt is outstanding, 0 if none
    expired,      \* that prompt is older than HOST_KEY_PENDING_SECONDS
    activity,     \* _owner_activity[o]: absent, fresh, or past the idle limit
    job           \* what each caller is doing

sessVars == <<sessions, genCounter, state, owner, device, oldSess>>
keyVars  == <<pending, expired>>
slotVars == <<sessVars, client, pc, keyVars, activity, job>>

Live  == {"connecting", "connected", "host_key_pending"}
Steps == {"absent", "retire", "dial", "settle", "touch", "sayConnected", "sayIdle", "discard",
          "done"}

Ops    == {"none", "disconnect", "trust", "reject", "release", "sweep", "tick"}
Phases == {"free", "saving", "close", "clear", "shut", "announce", "sweep", "owners",
           "check", "prompts", "unprompt", "forget"}

\* A caller's locals: the handler it runs and how far it is, the owner it runs
\* for, the sessions, devices and owners its loops have left, and the session
\* it has popped (cur, 0 if none) from the device it announces (at)
Start(operation, phase, who) ==
    [op |-> operation, phase |-> phase, who |-> who, todo |-> {}, devs |-> {}, owners |-> {},
     cur |-> 0, at |-> {}]

FreeJob == Start("none", "free", NoOwner)

Jobs == [op: Ops, phase: Phases, who: Owners \union {NoOwner}, todo: SUBSET Gens,
         devs: SUBSET Devices, owners: SUBSET Owners, cur: 0..MaxGen, at: SUBSET Devices]

Free(c) == job[c].phase = "free"

\* _is_current, and the same test under the device lock
Current(g) == sessions[device[g]] = g

\* what the unused rows of `device` hold
SomeDevice == CHOOSE d \in Devices : TRUE

Init ==
    /\ sessions   = [d \in Devices |-> 0]
    /\ genCounter = 0
    /\ state      = [g \in Gens |-> "closed"]
    /\ owner      = [g \in Gens |-> NoOwner]
    /\ device     = [g \in Gens |-> SomeDevice]
    /\ client     = [g \in Gens |-> FALSE]
    /\ oldSess    = [g \in Gens |-> 0]
    /\ pc         = [g \in Gens |-> "absent"]
    /\ pending    = [d \in Devices |-> 0]
    /\ expired    = [d \in Devices |-> FALSE]
    /\ activity   = [o \in Owners |-> "absent"]
    /\ job        = [c \in Callers |-> FreeJob]

-----------------------------------------------------------------------------
(* SSHManager.connect, on the executor thread of generation g. *)

\* Faulty variant: only an established session counts as using its slot
InUseConnected(g) == g # 0 /\ state[g] = "connected"

InUse(g) == g # 0 /\ state[g] \in Live

\* The locked reservation: refuse another owner's live slot, retire this
\* owner's own session, and put a new session of the next generation there
Reserve(d, o) ==
    LET g   == genCounter + 1
        old == sessions[d]
        retires == InUse(old)
    IN  /\ g <= MaxGen
        /\ retires => owner[old] = o
        /\ genCounter' = g
        /\ sessions' = [sessions EXCEPT ![d] = g]
        /\ state' = [h \in Gens |-> IF h = g THEN "connecting"
                                    ELSE IF h = old /\ retires THEN "closed"
                                    ELSE state[h]]
        /\ owner' = [owner EXCEPT ![g] = o]
        /\ device' = [device EXCEPT ![g] = d]
        /\ oldSess' = [oldSess EXCEPT ![g] = IF retires THEN old ELSE 0]
        /\ pc' = [pc EXCEPT ![g] = IF retires THEN "retire" ELSE "dial"]
        /\ UNCHANGED <<client, keyVars, activity, job>>

\* _Session.close: close the client if there is one, which blocks, and clear
\* the attributes
CloseClient(g) == client' = [client EXCEPT ![g] = FALSE]

\* A connect thread closes the session it retired before it dials, and its
\* own when it finds itself superseded
ThreadClose(g) ==
    /\ pc[g] \in {"retire", "discard"}
    /\ CloseClient(IF pc[g] = "retire" THEN oldSess[g] ELSE g)
    /\ pc' = [pc EXCEPT ![g] = IF @ = "retire" THEN "dial" ELSE "done"]
    /\ UNCHANGED <<sessVars, keyVars, activity, job>>

\* sess.connect() succeeds: the attribute is set only now
Dial(g) ==
    /\ pc[g] = "dial"
    /\ client' = [client EXCEPT ![g] = TRUE]
    /\ pc' = [pc EXCEPT ![g] = "settle"]
    /\ UNCHANGED <<sessVars, keyVars, activity, job>>

\* sess.connect() meets an unknown or changed host key: raise a prompt if
\* this session still holds the slot
RaisePrompt(g) ==
    /\ pc[g] = "dial"
    /\ IF Current(g)
       THEN /\ state' = [state EXCEPT ![g] = "host_key_pending"]
            /\ pending' = [pending EXCEPT ![device[g]] = g]
            /\ expired' = [expired EXCEPT ![device[g]] = FALSE]
       ELSE UNCHANGED <<state, keyVars>>
    /\ pc' = [pc EXCEPT ![g] = "done"]
    /\ UNCHANGED <<sessions, genCounter, owner, device, oldSess, client, activity, job>>

\* Faulty variant: the failure is never announced
FailConnectSilent(g) ==
    /\ pc[g] = "dial"
    /\ sessions' = IF Current(g) THEN [sessions EXCEPT ![device[g]] = 0] ELSE sessions
    /\ pc' = [pc EXCEPT ![g] = "done"]
    /\ UNCHANGED <<genCounter, state, owner, device, oldSess, client, keyVars, activity, job>>

\* sess.connect() fails: free the slot if it is still this session's, and
\* announce idle only if a session the browsers know of was retired for it
FailConnect(g) ==
    /\ pc[g] = "dial"
    /\ sessions' = IF Current(g) THEN [sessions EXCEPT ![device[g]] = 0] ELSE sessions
    /\ pc' = [pc EXCEPT ![g] = IF Current(g) /\ oldSess[g] # 0 THEN "sayIdle" ELSE "done"]
    /\ UNCHANGED <<genCounter, state, owner, device, oldSess, client, keyVars, activity, job>>

\* Faulty variant: the promotion does not look at the slot again
PromoteUnchecked(g) ==
    /\ pc[g] = "settle"
    /\ state' = [state EXCEPT ![g] = "connected"]
    /\ pending' = [pending EXCEPT ![device[g]] = 0]
    /\ pc' = [pc EXCEPT ![g] = "touch"]
    /\ UNCHANGED <<sessions, genCounter, owner, device, oldSess, client, expired, activity, job>>

\* The locked promotion of a session that still holds its slot ...
Promote(g) ==
    /\ pc[g] = "settle"
    /\ Current(g)
    /\ state' = [state EXCEPT ![g] = "connected"]
    /\ pending' = [pending EXCEPT ![device[g]] = 0]
    /\ pc' = [pc EXCEPT ![g] = "touch"]
    /\ UNCHANGED <<sessions, genCounter, owner, device, oldSess, client, expired, activity, job>>

\* Faulty variant: a superseded connect returns without closing its client
SupersededReturns(g) ==
    /\ pc[g] = "settle"
    /\ ~Current(g)
    /\ pc' = [pc EXCEPT ![g] = "done"]
    /\ UNCHANGED <<sessVars, client, keyVars, activity, job>>

\* ... and the discarding of one that no longer does
Superseded(g) ==
    /\ pc[g] = "settle"
    /\ ~Current(g)
    /\ pc' = [pc EXCEPT ![g] = "discard"]
    /\ UNCHANGED <<sessVars, client, keyVars, activity, job>>

\* _owner_touch, after the promotion and outside its lock
Touch(g) ==
    /\ pc[g] = "touch"
    /\ activity' = [activity EXCEPT ![owner[g]] = "fresh"]
    /\ pc' = [pc EXCEPT ![g] = "sayConnected"]
    /\ UNCHANGED <<sessVars, client, keyVars, job>>

\* The thread pushes what it has to announce, and returns
Announce(g) ==
    /\ pc[g] \in {"sayConnected", "sayIdle"}
    /\ pc' = [pc EXCEPT ![g] = "done"]
    /\ UNCHANGED <<sessVars, client, keyVars, activity, job>>

\* Every step of connect but the announcement
Connect(g) ==
    \/ ThreadClose(g) \/ Dial(g) \/ RaisePrompt(g) \/ FailConnect(g)
    \/ Promote(g) \/ Superseded(g) \/ Touch(g)

-----------------------------------------------------------------------------
(* Host-key prompts.  Both answers run on the event loop. *)

\* Faulty variant: the prompt's binding to the current session is not tested
ValidPromptUnbound(d, code, o) ==
    /\ pending[d] \in Gens
    /\ sessions[d] # 0
    /\ owner[pending[d]] = o
    /\ code = pending[d]
    /\ ~expired[d]

\* _valid_host_key_pending, under the device lock; a code is as unique as the
\* generation whose connect drew it
ValidPrompt(d, code, o) ==
    /\ pending[d] \in Gens
    /\ sessions[d] = pending[d]
    /\ state[pending[d]] = "host_key_pending"
    /\ owner[pending[d]] = o
    /\ code = pending[d]
    /\ ~expired[d]

\* trust_host_key and reject_host_key spend the prompt under the lock.  A
\* rejection goes on to close the session it was bound to, an approval to
\* write the key file.
AnswerPrompt(d, code, o, trusts) ==
    /\ Free(Loop)
    /\ ValidPrompt(d, code, o)
    /\ pending' = [pending EXCEPT ![d] = 0]
    /\ job' = [job EXCEPT ![Loop] =
                  [Start(IF trusts THEN "trust" ELSE "reject",
                         IF trusts THEN "saving" ELSE "close", o)
                      EXCEPT !.todo = {sessions[d]}]]
    /\ UNCHANGED <<sessVars, client, pc, expired, activity>>

\* The key is saved and the session stays as it is, or it is not and the
\* session is closed
KeyWritten(saved) ==
    /\ job[Loop].phase = "saving"
    /\ job' = [job EXCEPT ![Loop] = IF saved THEN FreeJob ELSE [@ EXCEPT !.phase = "close"]]
    /\ UNCHANGED <<sessVars, client, pc, keyVars, activity>>

-----------------------------------------------------------------------------
(* Teardown, on caller c. *)

\* The locked part of every close: take session g out of its slot
TakeOut(g) ==
    /\ sessions' = [sessions EXCEPT ![device[g]] = 0]
    /\ state' = [state EXCEPT ![g] = "closed"]
    /\ UNCHANGED <<genCounter, owner, device, oldSess>>

\* _close(device_id, sess): only if the slot still holds that very session
Close(c, g) ==
    /\ job[c].phase = "close"
    /\ g \in job[c].todo
    /\ IF Current(g)
       THEN /\ TakeOut(g)
            /\ job' = [job EXCEPT ![c] = [@ EXCEPT !.todo = job[c].todo \ {g}, !.cur = g,
                                             !.at = {device[g]}, !.phase = "clear"]]
       ELSE /\ job' = [job EXCEPT ![c] = [@ EXCEPT !.todo = job[c].todo \ {g}]]
            /\ UNCHANGED sessVars
    /\ UNCHANGED <<client, pc, keyVars, activity>>

\* disconnect(device_id, owner): the owner test and the pop are one section.
\* A device deletion passes no owner and takes the session whoever owns it.
\* With nothing in the slot it goes on to announce idle all the same.
Disconnect(d, o) ==
    LET g == sessions[d]
        call == [Start("disconnect", IF g = 0 THEN "announce" ELSE "clear", o)
                    EXCEPT !.at = {d}, !.cur = g]
    IN  /\ Free(Loop)
        /\ g # 0 /\ o # NoOwner => owner[g] = o
        /\ IF g # 0 THEN TakeOut(g) ELSE UNCHANGED sessVars
        /\ job' = [job EXCEPT ![Loop] = call]
        /\ UNCHANGED <<client, pc, keyVars, activity>>

\* _clear_pending(device_id): by device, in a locked section of its own
ClearPending(c) ==
    /\ job[c].phase = "clear"
    /\ pending' = [d \in Devices |-> IF d \in job[c].at THEN 0 ELSE pending[d]]
    /\ job' = [job EXCEPT ![c] = [@ EXCEPT !.phase = "shut"]]
    /\ UNCHANGED <<sessVars, client, pc, expired, activity>>

ShutPopped(c) ==
    /\ job[c].phase = "shut"
    /\ CloseClient(job[c].cur)
    /\ job' = [job EXCEPT ![c] = [@ EXCEPT !.phase = "announce"]]
    /\ UNCHANGED <<sessVars, pc, keyVars, activity>>

AnnounceClosed(c) ==
    /\ job[c].phase = "announce"
    /\ job' = [job EXCEPT ![c] = [@ EXCEPT !.phase = "close", !.cur = 0, !.at = {}]]
    /\ UNCHANGED <<sessVars, client, pc, keyVars, activity>>

\* Nothing is left to close: go on with the handler that asked for it
Closed(c) ==
    /\ job[c].phase = "close"
    /\ job[c].todo = {}
    /\ job' = [job EXCEPT ![c] = CASE job[c].op = "release" -> [@ EXCEPT !.phase = "prompts"]
                                   [] job[c].op = "sweep"   -> [@ EXCEPT !.phase = "sweep"]
                                   [] job[c].op = "tick"    -> [@ EXCEPT !.phase = "forget"]
                                   [] OTHER                 -> FreeJob]
    /\ UNCHANGED <<sessVars, client, pc, keyVars, activity>>

\* Every step of a close but the announcement
Teardown(c) ==
    \/ \E g \in Gens : Close(c, g)
    \/ ClearPending(c) \/ ShutPopped(c) \/ Closed(c)

-----------------------------------------------------------------------------
(* release_owner: on the loop when a browser disconnects everything or has  *)
(* been gone for the grace period, on a worker thread for a sign-out.       *)

OwnedBy(o) == {g \in Gens : Current(g) /\ owner[g] = o}

ReleaseOwner(c, o) ==
    /\ Free(c)
    /\ job' = [job EXCEPT ![c] = [Start("release", "close", o) EXCEPT !.todo = OwnedBy(o)]]
    /\ UNCHANGED <<sessVars, client, pc, keyVars, activity>>

\* The prompts this owner still has are listed once ...
ListPrompts(c) ==
    /\ job[c].phase = "prompts"
    /\ job' = [job EXCEPT ![c] = [@ EXCEPT !.phase = "unprompt",
                  !.devs = {d \in Devices : pending[d] \in Gens /\ owner[pending[d]] = job[c].who}]]
    /\ UNCHANGED <<sessVars, client, pc, keyVars, activity>>

\* ... and cleared one by one, whatever each has become
ClearListed(c) ==
    /\ job[c].phase = "unprompt"
    /\ \E d \in job[c].devs :
          /\ pending' = [pending EXCEPT ![d] = 0]
          /\ job' = [job EXCEPT ![c] = [@ EXCEPT !.devs = job[c].devs \ {d}]]
    /\ UNCHANGED <<sessVars, client, pc, expired, activity>>

PromptsCleared(c) ==
    /\ job[c].phase = "unprompt"
    /\ job[c].devs = {}
    /\ job' = [job EXCEPT ![c] = [@ EXCEPT !.phase = "forget"]]
    /\ UNCHANGED <<sessVars, client, pc, keyVars, activity>>

\* _owner_pop, the last step of release_owner and of an idle owner's turn
Forget(c) ==
    /\ job[c].phase = "forget"
    /\ activity' = [activity EXCEPT ![job[c].who] = "absent"]
    /\ job' = [job EXCEPT ![c] = IF job[c].op = "tick"
                                 THEN [@ EXCEPT !.phase = "owners", !.who = NoOwner]
                                 ELSE FreeJob]
    /\ UNCHANGED <<sessVars, client, pc, keyVars>>

Release(c) == ListPrompts(c) \/ ClearListed(c) \/ PromptsCleared(c) \/ Forget(c)

-----------------------------------------------------------------------------
(* tick_idle, every two seconds on the event loop. *)

TickIdle ==
    /\ Free(Loop)
    /\ job' = [job EXCEPT ![Loop] = [Start("sweep", "sweep", NoOwner)
                                        EXCEPT !.devs = {d \in Devices : pending[d] # 0}]]
    /\ UNCHANGED <<sessVars, client, pc, keyVars, activity>>

\* One turn of _sweep_expired_host_key_prompts: under the device lock, drop a
\* prompt that has expired and pick the session it was bound to for closing
SweepPrompt(d) ==
    LET g == pending[d]
        due == g \in Gens /\ expired[d]
        bound == due /\ sessions[d] = g /\ state[g] = "host_key_pending"
    IN  /\ job[Loop].phase = "sweep"
        /\ d \in job[Loop].devs
        /\ pending' = IF due THEN [pending EXCEPT ![d] = 0] ELSE pending
        /\ job' = [job EXCEPT ![Loop] = [@ EXCEPT !.devs = job[Loop].devs \ {d},
                                            !.phase = IF bound THEN "close" ELSE "sweep",
                                            !.todo = IF bound THEN {g} ELSE {}]]
        /\ UNCHANGED <<sessVars, client, pc, expired, activity>>

\* The owners with an idle clock are listed once the sweep is over
ListOwners ==
    /\ job[Loop].phase = "sweep"
    /\ job[Loop].devs = {}
    /\ job' = [job EXCEPT ![Loop] = [@ EXCEPT !.op = "tick", !.phase = "owners",
                                        !.owners = {o \in Owners : activity[o] # "absent"}]]
    /\ UNCHANGED <<sessVars, client, pc, keyVars, activity>>

\* One owner's turn lists the sessions it holds; with none, its clock goes
TickOwner(o) ==
    /\ job[Loop].phase = "owners"
    /\ o \in job[Loop].owners
    /\ job' = [job EXCEPT ![Loop] =
                  [@ EXCEPT !.owners = job[Loop].owners \ {o}, !.who = o, !.todo = OwnedBy(o),
                            !.phase = IF OwnedBy(o) = {} THEN "forget" ELSE "check"]]
    /\ UNCHANGED <<sessVars, client, pc, keyVars, activity>>

\* The clock is read after the sessions: only for an owner past the limit are
\* the listed sessions closed
CheckIdle ==
    /\ job[Loop].phase = "check"
    /\ job' = [job EXCEPT ![Loop] =
                  IF activity[job[Loop].who] = "idle"
                  THEN [@ EXCEPT !.phase = "close"]
                  ELSE [@ EXCEPT !.phase = "owners", !.who = NoOwner, !.todo = {}]]
    /\ UNCHANGED <<sessVars, client, pc, keyVars, activity>>

TickDone ==
    /\ job[Loop].phase = "owners"
    /\ job[Loop].owners = {}
    /\ job' = [job EXCEPT ![Loop] = FreeJob]
    /\ UNCHANGED <<sessVars, client, pc, keyVars, activity>>

Tick ==
    \/ TickIdle \/ ListOwners \/ CheckIdle \/ TickDone
    \/ \E d \in Devices : SweepPrompt(d)
    \/ \E o \in Owners : TickOwner(o)

\* _owner_reset, when the owner clicks Stay connected
StayConnected(o) ==
    /\ Free(Loop)
    /\ activity[o] # "absent"
    /\ activity' = [activity EXCEPT ![o] = "fresh"]
    /\ UNCHANGED <<sessVars, client, pc, keyVars, job>>

\* Time passes: an owner's clock runs past IDLE_TIMEOUT_SECONDS, a prompt's
\* past HOST_KEY_PENDING_SECONDS
GrowIdle(o) ==
    /\ activity[o] = "fresh"
    /\ activity' = [activity EXCEPT ![o] = "idle"]
    /\ UNCHANGED <<sessVars, client, pc, keyVars, job>>

ExpirePrompt(d) ==
    /\ pending[d] # 0
    /\ ~expired[d]
    /\ expired' = [expired EXCEPT ![d] = TRUE]
    /\ UNCHANGED <<sessVars, client, pc, pending, activity, job>>

-----------------------------------------------------------------------------
\* Every step but a disconnect request and the announcements
Quiet ==
    \/ \E d \in Devices, o \in Owners : Reserve(d, o)
    \/ \E g \in Gens : Connect(g)
    \/ \E d \in Devices, o \in Owners, code \in Gens, trusts \in BOOLEAN :
           AnswerPrompt(d, code, o, trusts)
    \/ \E saved \in BOOLEAN : KeyWritten(saved)
    \/ \E c \in Callers, o \in Owners : ReleaseOwner(c, o)
    \/ \E c \in Callers : Teardown(c) \/ Release(c)
    \/ Tick
    \/ \E o \in Owners : StayConnected(o) \/ GrowIdle(o)
    \/ \E d \in Devices : ExpirePrompt(d)

Next ==
    \/ Quiet
    \/ \E d \in Devices, o \in Owners \union {NoOwner} : Disconnect(d, o)
    \/ \E g \in Gens : Announce(g)
    \/ \E c \in Callers : AnnounceClosed(c)

Spec == Init /\ [][Next]_slotVars

-----------------------------------------------------------------------------
(* Properties *)

\* Every variable stays within its type: states, steps and phases are those
\* the handlers name, slots and prompts refer to generations handed out.
TypeOK ==
    /\ sessions \in [Devices -> 0..MaxGen]
    /\ genCounter \in 0..MaxGen
    /\ state \in [Gens -> Live \union {"closed"}]
    /\ owner \in [Gens -> Owners \union {NoOwner}]
    /\ device \in [Gens -> Devices]
    /\ client \in [Gens -> BOOLEAN]
    /\ oldSess \in [Gens -> 0..MaxGen]
    /\ pc \in [Gens -> Steps]
    /\ pending \in [Devices -> 0..MaxGen]
    /\ expired \in [Devices -> BOOLEAN]
    /\ activity \in [Owners -> {"absent", "fresh", "idle"}]
    /\ job \in [Callers -> Jobs]

Connected(d) == sessions[d] # 0 /\ state[sessions[d]] = "connected"

\* No connect and no handler is under way
AtRest ==
    /\ \A g \in Gens : pc[g] \in {"absent", "done"}
    /\ \A c \in Callers : Free(c)

\* A session that can run commands or awaits a host-key answer is the one in
\* its device's slot: one device never has two of them, however connects,
\* closes and prompts overlap (the locked sections of connect and _close).
OneLiveSession ==
    \A g \in Gens : state[g] \in {"connected", "host_key_pending"} => Current(g)

\* When everything has finished, the only SSH clients still referred to are
\* those of the sessions in the slots: a connect that was overtaken, retired or
\* closed while it dialled ends up closing the client it made.
ClientReleased ==
    AtRest => \A g \in Gens : client[g] => Current(g)

\* No step puts a session of one owner where another owner's session is: the
\* in_use refusal covers a slot that is connecting or waiting for a host-key
\* answer as well as a connected one (connect).
NeverStolen ==
    [][\A d \in Devices :
          LET g == sessions[d]
              h == sessions'[d]
          IN  g # 0 /\ h # 0 /\ h # g => owner[g] = owner'[h]]_slotVars

\* What an answer to a host-key prompt, or its expiry, tears down is the
\* session waiting at that prompt, never the connection that has replaced it
\* in the meantime (reject_host_key, trust_host_key and the sweep, which leave
\* the device lock before they call _close).
AnswerHarmless ==
    [][\A c \in Callers, g \in Gens :
          /\ job'[c].op \in {"trust", "reject", "sweep"}
          /\ job[c].cur = 0 /\ job'[c].cur = g
          => state[g] = "host_key_pending"]_slotVars

-----------------------------------------------------------------------------
(* The inductive invariant behind OneLiveSession, NeverStolen and            *)
(* AnswerHarmless (SshSlotsProofs).                                          *)

\* Generations are handed out in order (_next_generation)
Unborn ==
    \A g \in Gens : g > genCounter => pc[g] = "absent" /\ state[g] = "closed"

\* A slot holds a session of its own device that is not closed
SlotHoldsLive ==
    \A d \in Devices : sessions[d] # 0 =>
        /\ sessions[d] <= genCounter
        /\ device[sessions[d]] = d
        /\ state[sessions[d]] \in Live

\* What a connect thread may find its session to be
ThreadState ==
    \A g \in Gens :
        /\ pc[g] \in {"retire", "dial", "settle"} =>
               state[g] \in {"connecting", "closed"}
        /\ state[g] = "host_key_pending" => pc[g] = "done"

\* What a prompt's answer or expiry is about to close waits at a prompt or is
\* closed already
DoomedWaits ==
    \A c \in Callers : \A g \in job[c].todo :
        /\ g <= genCounter
        /\ job[c].op \in {"trust", "reject", "sweep"} =>
               state[g] \in {"host_key_pending", "closed"}

\* Only the idle tick takes owners' turns
TickTurns == \A c \in Callers : job[c].phase \in {"owners", "check"} => job[c].op = "tick"

SlotFacts ==
    Unborn /\ SlotHoldsLive /\ ThreadState /\ DoomedWaits /\ TickTurns /\ OneLiveSession

\* What connect, the closes and the handlers keep true together: a slot holds a
\* live session of its device, a connect in progress finds its session
\* connecting or closed, and what an answer is about to close waits at a prompt
SlotInv == TypeOK /\ SlotFacts
=============================================================================
