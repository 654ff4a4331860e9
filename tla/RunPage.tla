------------------------------- MODULE RunPage -------------------------------
(***************************************************************************)
(* A page beside the commands of a session (static/index.html): the state  *)
(* it shows, the run its Stop button would cancel, and the runs it takes   *)
(* to be over, which it learns from the messages the runs push, from the   *)
(* answers to its requests and, when it is loaded, from the init frame.    *)
(* Messages of a session that lost its slot are dropped at delivery by     *)
(* their generation, and what the page shows then is SshBrowsers' matter.  *)
(***************************************************************************)
EXTENDS CommandRun, Sequences

VARIABLES
    msgs,         \* pushed and not yet delivered
    page,         \* what the page holds
    frame         \* the state an init frame being written tells, "none" if none is

pageVars == <<runVars, msgs, page, frame>>

Shown == {"connected", "running"}

PInit ==
    /\ RInit
    /\ msgs = << >>
    /\ page = [shown |-> "connected", known |-> 0, reply |-> 0, over |-> {}]
    /\ frame = "none"

\* _push from a thread of run r, stamped with the session's generation
Push(kind, r, cond) ==
    msgs' = IF cond /\ current THEN Append(msgs, [kind |-> kind, run |-> r]) ELSE msgs

\* The loop is not between the reads of an init frame, nor at the end of a cancel
LoopFree == frame = "none" /\ toClose = 0

-----------------------------------------------------------------------------
(* The steps of CommandRun, with what they push *)

\* The page offers to run a command when it shows the session as connected,
\* and waits for the answer
PRunCommand(needsSudo) ==
    /\ LoopFree
    /\ page.shown = "connected"
    /\ page.reply = 0
    /\ RunCommand(needsSudo)
    /\ page' = [page EXCEPT !.reply = lastRun']
    /\ UNCHANGED <<msgs, frame>>

\* The Stop button, which needs a run to name
PCancel(r) ==
    /\ LoopFree
    /\ page.shown = "running"
    /\ page.known = r
    /\ Cancel(r)
    /\ UNCHANGED <<msgs, page, frame>>

PLoseSlot ==
    /\ LoseSlot
    /\ msgs' = << >>
    /\ UNCHANGED <<page, frame>>

\* Faulty variant: the status that gives the controls back is forgotten
TrailingSilent(r) == Trailing(r) /\ UNCHANGED <<msgs, page, frame>>

PTrailing(r) ==
    /\ Trailing(r)
    /\ Push("connected", 0, still[r])
    /\ UNCHANGED <<page, frame>>

\* The terminal's end is told before the session is let go
PReadToEnd(r) ==
    /\ ReadToEnd(r)
    /\ Push("end", r, started[r])
    /\ UNCHANGED <<page, frame>>

PStarts(r) ==
    /\ Begin(r) \/ PassGate(r)
    /\ Push("start", r, started'[r] /\ ~started[r])
    /\ UNCHANGED <<page, frame>>

PExecStart(r) ==
    /\ ExecStart(r)
    /\ Push("running", 0, client)
    /\ UNCHANGED <<page, frame>>

\* ... and those that push nothing
PSilent ==
    /\ \/ \E r \in Runs :
            \/ \E opens \in BOOLEAN : Open(r, opens)
            \/ Wire(r) \/ RefuseGate(r) \/ ReadSuperseded(r) \/ Finish(r)
            \/ CommandExits(r) \/ TimerExpires(r) \/ ForceStop(r)
            \/ WriterSticks(r) \/ ReportStuck(r)
       \/ CloseCaptured \/ CloseSession
    /\ UNCHANGED <<msgs, page, frame>>

-----------------------------------------------------------------------------
(* The page *)

\* Faulty variant: an answer is believed even if the run is over by then
RememberAny(p, r) == IF r = 0 THEN p ELSE [p EXCEPT !.known = r]

\* rememberRunId and forgetRunId
Remember(p, r) == IF r = 0 \/ r \in p.over THEN p ELSE [p EXCEPT !.known = r]

Forget(p, r) ==
    IF r = 0 THEN p
    ELSE [p EXCEPT !.over = @ \union {r}, !.known = IF @ = r THEN 0 ELSE @]

\* handleSSHStatus: any state but "running" ends the run the page knows
ShowStatus(p, state) ==
    [IF state = "running" THEN p ELSE Forget(p, p.known) EXCEPT !.shown = state]

Deliver ==
    LET m == Head(msgs)
    IN  /\ LoopFree
        /\ msgs # << >>
        /\ msgs' = Tail(msgs)
        /\ page' = CASE m.kind \in Shown  -> ShowStatus(page, m.kind)
                     [] m.kind = "start"  -> Remember(page, m.run)
                     [] m.kind = "end"    -> Forget(page, m.run)
        /\ UNCHANGED <<runVars, frame>>

\* The answer to the page's request to run a command
Answered ==
    /\ LoopFree
    /\ page.reply # 0
    /\ page' = [Remember(page, page.reply) EXCEPT !.reply = 0]
    /\ UNCHANGED <<runVars, msgs, frame>>

\* The page is loaded again.  Its init frame is read in two steps, each under
\* the device lock, with the loop held but not the threads: first the state
\* (owner_ssh_snapshot) ...
ReadStates ==
    /\ LoopFree
    /\ current
    /\ frame' = IF sess.busy THEN "running" ELSE "connected"
    /\ UNCHANGED <<runVars, msgs, page>>

\* ... then the run (owner_terminal_snapshot)
ReadTerminals ==
    /\ frame # "none"
    /\ page' = [shown |-> frame, known |-> IF current THEN sess.run ELSE 0,
                reply |-> 0, over |-> {}]
    /\ frame' = "none"
    /\ UNCHANGED <<runVars, msgs>>

PNext ==
    \/ \E needsSudo \in BOOLEAN : PRunCommand(needsSudo)
    \/ PLoseSlot \/ PSilent
    \/ \E r \in Runs :
          PCancel(r) \/ PExecStart(r) \/ PStarts(r) \/ PReadToEnd(r) \/ PTrailing(r)
    \/ Deliver \/ Answered \/ ReadStates \/ ReadTerminals

PSpec == PInit /\ [][PNext]_pageVars

-----------------------------------------------------------------------------
(* Properties *)

RunsOver == \A r \in Runs : pc[r] \in {"absent", "done"}

\* When every command is over and every message delivered, a page shows a
\* connected session as connected and has its controls back, however the page
\* was loaded in between and whatever the run came to (_finish_exec).  Until
\* then, no late answer makes it offer to stop a run that it knows is over.
PageSettles ==
    /\ RunsOver /\ msgs = << >> /\ current => page.shown = "connected"
    /\ page.known \notin page.over

\* The page never takes the running command to be over: its script keeps
\* "ended run_ids, so a late run reply cannot restore one".  It does, and the
\* Stop button is lost: a run's last "connected" is pushed after the session is
\* free and the writer thread joined, and may follow the start of the next run.
OverIsOver == current /\ sess.busy => sess.run \notin page.over

=============================================================================
