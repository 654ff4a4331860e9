----------------------------- MODULE CommandRun -----------------------------
(***************************************************************************)
(* The commands run on one SSH session (run_command, _exec, read_channel,  *)
(* _finish_exec, cancel and the stop timer).  RunPage adds the page.        *)
(*                                                                         *)
(* A run has a thread (pc), a channel to the device, a writer thread and,  *)
(* once asked to stop, a timer.  They share the session's attributes,      *)
(* which the event loop changes under the device lock and the run's thread *)
(* partly without it.  The session may lose its slot at any time and for   *)
(* good (SshSlots).  Output, the password and input written to the device  *)
(* and log lines are left out, and so is `cancelled`, which only they read. *)
(***************************************************************************)
EXTENDS Integers

CONSTANT MaxRuns      \* bound: runs on the session

ASSUME RunsAssumption == MaxRuns \in Nat

Runs == 1..MaxRuns

VARIABLES
    current,      \* the session still holds its device's slot
    client,       \* the session's SSH client is open
    sess,         \* the session's attributes that belong to a run
    lastRun,      \* runs so far
    sudo,         \* sudo[r]: run r waits for the sudo gate
    pc,           \* pc[r]: where the thread of run r is
    started,      \* started[r]: its term_start has been pushed
    still,        \* still[r]: what _finish_exec found under the lock
    chan,         \* chan[r]: its channel to the device
    writer,       \* writer[r]: its writer thread
    timer,        \* timer[r]: its stop timer
    toClose       \* the channel cancel closes after leaving the lock, 0 if none

threadVars == <<sudo, pc, started, still>>
deviceVars == <<chan, writer, timer>>
runVars == <<current, client, sess, lastRun, threadVars, deviceVars, toClose>>

Active == {"start", "open", "wire", "begin", "read", "finish"}

NoRun == [busy |-> FALSE, run |-> 0, asked |-> FALSE, forced |-> FALSE, auth |-> FALSE,
          channel |-> 0, writer |-> 0, timer |-> 0]

RInit ==
    /\ current = TRUE
    /\ client = TRUE
    /\ sess = NoRun
    /\ lastRun = 0
    /\ sudo = [r \in Runs |-> FALSE]
    /\ pc = [r \in Runs |-> "absent"]
    /\ started = [r \in Runs |-> FALSE]
    /\ still = [r \in Runs |-> FALSE]
    /\ chan = [r \in Runs |-> "none"]
    /\ writer = [r \in Runs |-> "none"]
    /\ timer = [r \in Runs |-> "off"]
    /\ toClose = 0

\* channel.close(): a command that still runs loses its terminal
Shut(r) == chan' = [chan EXCEPT ![r] = IF @ = "open" THEN "closed" ELSE @]

-----------------------------------------------------------------------------
(* The event loop. *)

\* Faulty variant: the busy flag is not looked at
RunCommandBusy(needsSudo) ==
    LET r == lastRun + 1
    IN  /\ r <= MaxRuns
        /\ toClose = 0
        /\ current
        /\ lastRun' = r
        /\ sess' = [sess EXCEPT !.busy = TRUE, !.run = r, !.asked = FALSE, !.forced = FALSE,
                                !.auth = FALSE, !.timer = 0]
        /\ sudo' = [sudo EXCEPT ![r] = needsSudo]
        /\ pc' = [pc EXCEPT ![r] = "start"]
        /\ UNCHANGED <<current, client, started, still, deviceVars, toClose>>

\* run_command: the attributes of the last run are reset under the device lock
\* before the thread is started
RunCommand(needsSudo) ==
    LET r == lastRun + 1
    IN  /\ r <= MaxRuns
        /\ toClose = 0
        /\ current
        /\ ~sess.busy
        /\ lastRun' = r
        /\ sess' = [sess EXCEPT !.busy = TRUE, !.run = r, !.asked = FALSE, !.forced = FALSE,
                                !.auth = FALSE, !.timer = 0]
        /\ sudo' = [sudo EXCEPT ![r] = needsSudo]
        /\ pc' = [pc EXCEPT ![r] = "start"]
        /\ UNCHANGED <<current, client, started, still, deviceVars, toClose>>

\* cancel, for the run the session is at.  A run that takes input is sent
\* Ctrl+C and given a timer, or closed if it has been sent one before;
\* otherwise its channel, if it has one yet, is closed after the lock.
Cancel(r) ==
    LET ready == sess.channel # 0 /\ sess.auth /\ sess.writer # 0
        again == sess.timer # 0
        asked == [sess EXCEPT !.asked = TRUE]
    IN  /\ toClose = 0
        /\ current
        /\ sess.busy
        /\ sess.run = r
        /\ sess' = IF ready /\ again THEN [asked EXCEPT !.forced = TRUE]
                   ELSE IF ready THEN [asked EXCEPT !.timer = r]
                   ELSE asked
        /\ IF ready /\ again THEN Shut(sess.channel) ELSE UNCHANGED chan
        /\ timer' = IF ready /\ ~again THEN [timer EXCEPT ![r] = "armed"] ELSE timer
        /\ toClose' = IF ready THEN 0 ELSE sess.channel
        /\ UNCHANGED <<current, client, lastRun, threadVars, writer>>

CloseCaptured ==
    /\ toClose # 0
    /\ Shut(toClose)
    /\ toClose' = 0
    /\ UNCHANGED <<current, client, sess, lastRun, threadVars, writer, timer>>

\* The session is disconnected or replaced ...
LoseSlot ==
    /\ current
    /\ current' = FALSE
    /\ UNCHANGED <<client, sess, lastRun, threadVars, deviceVars, toClose>>

\* ... and then closed, and with its client every channel
CloseSession ==
    /\ ~current
    /\ client
    /\ client' = FALSE
    /\ sess' = [sess EXCEPT !.channel = 0]
    /\ chan' = [r \in Runs |-> IF chan[r] = "open" THEN "closed" ELSE chan[r]]
    /\ UNCHANGED <<current, lastRun, threadVars, writer, timer, toClose>>

-----------------------------------------------------------------------------
(* _exec, on the thread of run r. *)

Goto(r, step) == pc' = [pc EXCEPT ![r] = step]

\* Announce the run, unless there is no client any more, and honour a cancel
\* that came before the thread did
ExecStart(r) ==
    /\ pc[r] = "start"
    /\ Goto(r, IF client /\ ~sess.asked THEN "open" ELSE "finish")
    /\ UNCHANGED <<current, client, sess, lastRun, sudo, started, still, deviceVars, toClose>>

\* Open the channel and start the command on it, or fail
Open(r, opens) ==
    /\ pc[r] = "open"
    /\ opens => client
    /\ IF opens
       THEN /\ chan' = [chan EXCEPT ![r] = "open"]
            /\ sess' = [sess EXCEPT !.channel = r]
       ELSE UNCHANGED <<chan, sess>>
    /\ Goto(r, IF opens THEN "wire" ELSE "finish")
    /\ UNCHANGED <<current, client, lastRun, sudo, started, still, writer, timer, toClose>>

\* Faulty variant: a cancel that came while the channel was opened is missed
WireUnasked(r) ==
    /\ pc[r] = "wire"
    /\ writer' = [writer EXCEPT ![r] = "alive"]
    /\ sess' = [sess EXCEPT !.writer = r]
    /\ Goto(r, "begin")
    /\ UNCHANGED <<current, client, lastRun, sudo, started, still, chan, timer, toClose>>

\* Start the writer, and look again for a cancel
Wire(r) ==
    /\ pc[r] = "wire"
    /\ writer' = [writer EXCEPT ![r] = "alive"]
    /\ sess' = [sess EXCEPT !.writer = r]
    /\ IF sess.asked THEN Shut(r) ELSE UNCHANGED chan
    /\ Goto(r, "begin")
    /\ UNCHANGED <<current, client, lastRun, sudo, started, still, timer, toClose>>

\* send_start: only once, and only while the session is current
SendStart(r) ==
    IF current /\ ~started[r]
    THEN /\ started' = [started EXCEPT ![r] = TRUE]
         /\ sess' = [sess EXCEPT !.auth = TRUE]
    ELSE UNCHANGED <<started, sess>>

\* Without sudo the terminal starts at once ...
Begin(r) ==
    /\ pc[r] = "begin"
    /\ IF sudo[r] THEN UNCHANGED <<started, sess>> ELSE SendStart(r)
    /\ Goto(r, "read")
    /\ UNCHANGED <<current, client, lastRun, sudo, still, deviceVars, toClose>>

\* ... with sudo when the gate sees its marker in the output
PassGate(r) ==
    /\ pc[r] = "read"
    /\ sudo[r]
    /\ current
    /\ ~started[r]
    /\ SendStart(r)
    /\ UNCHANGED <<current, client, lastRun, sudo, pc, still, deviceVars, toClose>>

\* sudo refuses the password: the channel is closed and nothing started
RefuseGate(r) ==
    /\ pc[r] = "read"
    /\ sudo[r]
    /\ current
    /\ ~started[r]
    /\ Shut(r)
    /\ Goto(r, "finish")
    /\ UNCHANGED <<current, client, sess, lastRun, sudo, started, still, writer, timer, toClose>>

\* The command's output ends because the command did or its channel is closed
ReadToEnd(r) ==
    /\ pc[r] = "read"
    /\ current
    /\ chan[r] # "open"
    /\ Goto(r, "finish")
    /\ UNCHANGED <<current, client, sess, lastRun, sudo, started, still, deviceVars, toClose>>

\* Faulty variant: the command of a lost session is left running
ReadSupersededLeaves(r) ==
    /\ pc[r] = "read"
    /\ ~current
    /\ Goto(r, "finish")
    /\ UNCHANGED <<current, client, sess, lastRun, sudo, started, still, deviceVars, toClose>>

\* The session has lost its slot: stop reading, and stop the command
ReadSuperseded(r) ==
    /\ pc[r] = "read"
    /\ ~current
    /\ Shut(r)
    /\ Goto(r, "finish")
    /\ UNCHANGED <<current, client, sess, lastRun, sudo, started, still, writer, timer, toClose>>

\* The locked part of _finish_exec: close the writer, cancel the timer and,
\* if the session is current, let the next run in
Finish(r) ==
    /\ pc[r] = "finish"
    /\ writer' = IF sess.writer # 0 /\ writer[sess.writer] = "alive"
                 THEN [writer EXCEPT ![sess.writer] = "ended"] ELSE writer
    /\ timer' = IF sess.timer # 0 /\ timer[sess.timer] = "armed"
                THEN [timer EXCEPT ![sess.timer] = "off"] ELSE timer
    /\ sess' = IF current
               THEN [sess EXCEPT !.busy = FALSE, !.run = 0, !.channel = 0, !.writer = 0,
                                 !.timer = 0]
               ELSE [sess EXCEPT !.timer = 0]
    /\ still' = [still EXCEPT ![r] = current]
    /\ Goto(r, "join")
    /\ UNCHANGED <<current, client, lastRun, sudo, started, chan, toClose>>

\* After waiting for the writer thread, little more than a second, it says that
\* the session is connected, if it was
Trailing(r) ==
    /\ pc[r] = "join"
    /\ Goto(r, "done")
    /\ UNCHANGED <<current, client, sess, lastRun, sudo, started, still, deviceVars, toClose>>

Exec(r) ==
    \/ ExecStart(r)
    \/ \E opens \in BOOLEAN : Open(r, opens)
    \/ Wire(r) \/ Begin(r)
    \/ ReadToEnd(r) \/ ReadSuperseded(r)
    \/ Finish(r) \/ Trailing(r)

-----------------------------------------------------------------------------
(* The device, the stop timer and the writer thread. *)

CommandExits(r) ==
    /\ chan[r] = "open"
    /\ chan' = [chan EXCEPT ![r] = "exited"]
    /\ UNCHANGED <<current, client, sess, lastRun, threadVars, writer, timer, toClose>>

\* The grace period is over: the timer's thread goes for the device lock
TimerExpires(r) ==
    /\ timer[r] = "armed"
    /\ timer' = [timer EXCEPT ![r] = "expired"]
    /\ UNCHANGED <<current, client, sess, lastRun, threadVars, chan, writer, toClose>>

\* What a timer or a stuck writer of run r tests under the device lock
StillAt(r) == current /\ sess.run = r /\ sess.channel = r

\* Faulty variant: any run of this session will do
ForceStopAny(r) ==
    /\ timer[r] = "expired"
    /\ timer' = [timer EXCEPT ![r] = "off"]
    /\ IF current /\ sess.busy
       THEN Shut(r) /\ sess' = [sess EXCEPT !.forced = TRUE]
       ELSE UNCHANGED <<chan, sess>>
    /\ UNCHANGED <<current, client, lastRun, threadVars, writer, toClose>>

\* _force_stop
ForceStop(r) ==
    /\ timer[r] = "expired"
    /\ timer' = [timer EXCEPT ![r] = "off"]
    /\ IF StillAt(r)
       THEN Shut(r) /\ sess' = [sess EXCEPT !.forced = TRUE]
       ELSE UNCHANGED <<chan, sess>>
    /\ UNCHANGED <<current, client, lastRun, threadVars, writer, toClose>>

\* The device has taken no input for TERM_WRITE_DEADLINE
WriterSticks(r) ==
    /\ writer[r] = "alive"
    /\ chan[r] = "open"
    /\ writer' = [writer EXCEPT ![r] = "stuck"]
    /\ UNCHANGED <<current, client, sess, lastRun, threadVars, chan, timer, toClose>>

\* _writer_stuck
ReportStuck(r) ==
    /\ writer[r] = "stuck"
    /\ writer' = [writer EXCEPT ![r] = "reported"]
    /\ IF StillAt(r)
       THEN Shut(r) /\ sess' = [sess EXCEPT !.forced = TRUE]
       ELSE UNCHANGED <<chan, sess>>
    /\ UNCHANGED <<current, client, lastRun, threadVars, timer, toClose>>

-----------------------------------------------------------------------------
RNext ==
    \/ \E needsSudo \in BOOLEAN : RunCommand(needsSudo)
    \/ CloseCaptured \/ LoseSlot \/ CloseSession
    \/ \E r \in Runs :
          \/ Cancel(r)
          \/ Exec(r) \/ PassGate(r) \/ RefuseGate(r)
          \/ CommandExits(r)
          \/ TimerExpires(r) \/ ForceStop(r)
          \/ WriterSticks(r) \/ ReportStuck(r)

RSpec == RInit /\ [][RNext]_runVars

\* Threads go on, timers expire and the loop runs; the device need do nothing
RFairness ==
    /\ \A r \in Runs :
          /\ WF_runVars(Exec(r))
          /\ WF_runVars(TimerExpires(r))
          /\ WF_runVars(ForceStop(r))
    /\ WF_runVars(CloseCaptured)

RLiveSpec == RSpec /\ RFairness

-----------------------------------------------------------------------------
(* Properties *)

\* Every variable stays within its type, and the session names a run exactly
\* while it is reserved for one.
RTypeOK ==
    /\ current \in BOOLEAN /\ client \in BOOLEAN
    /\ sess \in [busy: BOOLEAN, run: 0..MaxRuns, asked: BOOLEAN, forced: BOOLEAN,
                 auth: BOOLEAN, channel: 0..MaxRuns, writer: 0..MaxRuns, timer: 0..MaxRuns]
    /\ lastRun \in 0..MaxRuns
    /\ sudo \in [Runs -> BOOLEAN]
    /\ pc \in [Runs -> Active \union {"absent", "join", "done"}]
    /\ started \in [Runs -> BOOLEAN]
    /\ still \in [Runs -> BOOLEAN]
    /\ chan \in [Runs -> {"none", "open", "exited", "closed"}]
    /\ writer \in [Runs -> {"none", "alive", "stuck", "reported", "ended"}]
    /\ timer \in [Runs -> {"off", "armed", "expired"}]
    /\ toClose \in 0..MaxRuns
    /\ sess.busy <=> sess.run # 0

\* While a session holds its slot, a thread that drives a command is that of
\* the run the session is reserved for: two commands never run on one session
\* (the busy flag, set before the thread exists and cleared by the thread).
OneRun == current => \A r \in Runs : pc[r] \in Active => sess.busy /\ sess.run = r

\* A run is reported as stopped by force only if somebody asked to stop that
\* very run or its own writer was stuck: the timer of an earlier run, or its
\* writer, never reaches a later one (_force_stop, _writer_stuck).
ForcedForCause ==
    sess.busy /\ sess.forced =>
        \/ sess.asked
        \/ sess.run \in Runs /\ writer[sess.run] = "reported"

\* A run whose thread has let the session go leaves no command behind on the
\* device: it has ended, or its channel is closed.
NoOrphan == \A r \in Runs : pc[r] \in {"join", "done"} => chan[r] # "open"

\* A cancel that was accepted ends its run, whether it came before the thread,
\* while the channel was being opened, or while the command ran and ignored
\* Ctrl+C.
CancelEnds ==
    \A r \in Runs : (sess.busy /\ sess.run = r /\ sess.asked) ~> (~current \/ sess.run # r)

=============================================================================
