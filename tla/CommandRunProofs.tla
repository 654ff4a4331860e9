--------------------------- MODULE CommandRunProofs ---------------------------
(***************************************************************************)
(* The safety of a session's runs, for any number of them, and what a page *)
(* shows of them.  What it rests on: a thread that drives a command is     *)
(* that of the run the session is reserved for, a run that is not reserved *)
(* yet has left no trace, a timer of the current run exists only because   *)
(* somebody asked to stop it, and a page that shows a running command is   *)
(* still to be told of its end.                                            *)
(***************************************************************************)
EXTENDS RunPage, TLAPS

\* A thread that drives a command has the session for its run
Reserved == \A r \in Runs : pc[r] \in Active => sess.busy /\ sess.run = r

\* A run to come has no thread, channel, writer or timer
Fresh ==
    /\ sess.run <= lastRun
    /\ \A r \in Runs : r > lastRun =>
          pc[r] = "absent" /\ chan[r] = "none" /\ writer[r] = "none" /\ timer[r] = "off"

\* What a thread has made of its channel and writer where it is
Channels ==
    \A r \in Runs :
       /\ pc[r] \in {"start", "open"} => chan[r] = "none"
       /\ pc[r] \in {"start", "open", "wire"} => writer[r] = "none"
       /\ pc[r] \in {"finish", "join", "done"} => chan[r] # "open"

\* The run the session is at has a timer only if somebody asked to stop it
Timers == \A r \in Runs : sess.busy /\ sess.run = r /\ timer[r] # "off" => sess.asked

RunsInv == RTypeOK /\ Reserved /\ Fresh /\ Channels /\ Timers /\ ForcedForCause

SessType == [busy: BOOLEAN, run: 0..MaxRuns, asked: BOOLEAN, forced: BOOLEAN, auth: BOOLEAN,
             channel: 0..MaxRuns, writer: 0..MaxRuns, timer: 0..MaxRuns]

\* The initial state.
LEMMA RunsInvInit ==
    ASSUME RInit
    PROVE  RunsInv
<1> USE RunsAssumption DEF RInit
<1>1. NoRun \in SessType
  BY DEF NoRun, SessType
<1>2. RTypeOK
  BY <1>1 DEF RTypeOK, SessType, NoRun, Active
<1>3. Reserved /\ Fresh /\ Channels /\ Timers /\ ForcedForCause
  BY DEF Reserved, Fresh, Channels, Timers, ForcedForCause, NoRun, Active
<1> QED  BY <1>2, <1>3 DEF RunsInv

-----------------------------------------------------------------------------
(* The steps of the event loop *)

\* An assignment to one of the session's attributes keeps its type.
LEMMA SessUpdates ==
    ASSUME NEW s \in SessType
    PROVE  /\ \A b \in BOOLEAN : /\ [s EXCEPT !.busy = b] \in SessType
                                 /\ [s EXCEPT !.asked = b] \in SessType
                                 /\ [s EXCEPT !.forced = b] \in SessType
                                 /\ [s EXCEPT !.auth = b] \in SessType
           /\ \A n \in 0..MaxRuns : /\ [s EXCEPT !.run = n] \in SessType
                                    /\ [s EXCEPT !.channel = n] \in SessType
                                    /\ [s EXCEPT !.writer = n] \in SessType
                                    /\ [s EXCEPT !.timer = n] \in SessType
BY DEF SessType

\* A new run starts from what no run has touched.
LEMMA RunCommandStep ==
    ASSUME RunsInv, NEW needsSudo \in BOOLEAN, RunCommand(needsSudo)
    PROVE  RunsInv'
<1> USE RunsAssumption DEF RunsInv, RTypeOK
<1> DEFINE n == lastRun + 1
<1>1. n \in Runs /\ n \in 1..MaxRuns /\ n # 0
  BY DEF RunCommand, Runs
<1>2. /\ sess'.busy = TRUE /\ sess'.run = n /\ sess'.asked = FALSE /\ sess'.forced = FALSE
      /\ sess' \in SessType
  <2>1. sess \in SessType
    BY DEF SessType
  <2>2. sess' = [sess EXCEPT !.busy = TRUE, !.run = n, !.asked = FALSE, !.forced = FALSE,
                             !.auth = FALSE, !.timer = 0]
    BY DEF RunCommand
  <2>3. n \in 0..MaxRuns /\ 0 \in 0..MaxRuns
    BY <1>1
  <2> HIDE DEF RunsInv, RTypeOK, n
  <2> QED  BY <2>1, <2>2, <2>3 DEF SessType
<1>3. pc' = [pc EXCEPT ![n] = "start"] /\ lastRun' = n /\ ~sess.busy
      /\ UNCHANGED <<chan, writer, timer, current, client, started, still, toClose>>
      /\ sudo' = [sudo EXCEPT ![n] = needsSudo]
  BY DEF RunCommand, deviceVars
<1>4. RTypeOK'
  BY <1>1, <1>2, <1>3 DEF SessType, Active, Runs
<1>5. Reserved' /\ Fresh' /\ Channels' /\ Timers' /\ ForcedForCause'
  BY <1>1, <1>2, <1>3 DEF Reserved, Fresh, Channels, Timers, ForcedForCause, Runs, Active
<1> QED  BY <1>4, <1>5

\* A cancel asks the session's run to stop before it arms a timer for it.
LEMMA CancelStep ==
    ASSUME RunsInv, NEW r \in Runs, Cancel(r)
    PROVE  RunsInv'
<1> USE RunsAssumption DEF RunsInv, RTypeOK
<1>1. /\ sess'.busy = sess.busy /\ sess'.run = sess.run /\ sess'.asked = TRUE
      /\ sess.busy /\ sess.run = r
      /\ sess' \in SessType
  BY DEF Cancel, SessType, Runs
<1>2. /\ chan' \in [Runs -> {"none", "open", "exited", "closed"}]
      /\ \A q \in Runs : chan'[q] # chan[q] => chan[q] = "open" /\ chan'[q] = "closed"
  BY DEF Cancel, Shut
<1>3. /\ timer' \in [Runs -> {"off", "armed", "expired"}]
      /\ \A q \in Runs : q # r => timer'[q] = timer[q]
  BY DEF Cancel
<1>4. /\ toClose' \in 0..MaxRuns
      /\ UNCHANGED <<current, client, lastRun, sudo, pc, started, still, writer>>
  BY DEF Cancel, threadVars
<1>5. RTypeOK'
  BY <1>1, <1>2, <1>3, <1>4 DEF SessType
<1>6. Reserved' /\ Fresh' /\ Channels' /\ Timers' /\ ForcedForCause'
  BY <1>1, <1>2, <1>3, <1>4 DEF Reserved, Fresh, Channels, Timers, ForcedForCause, Runs
<1> QED  BY <1>5, <1>6

\* Closing a channel or losing the slot leaves the threads where they are.
LEMMA LoopStep ==
    ASSUME RunsInv, CloseCaptured \/ LoseSlot \/ CloseSession
    PROVE  RunsInv'
<1> USE RunsAssumption DEF RunsInv, RTypeOK
<1>1. sess'.busy = sess.busy /\ sess'.run = sess.run /\ sess'.asked = sess.asked
      /\ sess'.forced = sess.forced /\ sess' \in SessType
  BY DEF CloseCaptured, LoseSlot, CloseSession, SessType
<1>2. /\ chan' \in [Runs -> {"none", "open", "exited", "closed"}]
      /\ \A q \in Runs : chan'[q] # chan[q] => chan[q] = "open" /\ chan'[q] = "closed"
  BY DEF CloseCaptured, LoseSlot, CloseSession, Shut, deviceVars
<1>3. /\ toClose' \in 0..MaxRuns /\ current' \in BOOLEAN /\ client' \in BOOLEAN
      /\ UNCHANGED <<lastRun, sudo, pc, started, still, writer, timer>>
  <2>1. CASE CloseCaptured
    BY <2>1 DEF CloseCaptured, threadVars
  <2>2. CASE LoseSlot
    BY <2>2 DEF LoseSlot, threadVars, deviceVars
  <2>3. CASE CloseSession
    BY <2>3 DEF CloseSession, threadVars
  <2> QED  BY <2>1, <2>2, <2>3
<1>4. RTypeOK'
  BY <1>1, <1>2, <1>3 DEF SessType
<1>5. Reserved' /\ Fresh' /\ Channels' /\ Timers' /\ ForcedForCause'
  BY <1>1, <1>2, <1>3 DEF Reserved, Fresh, Channels, Timers, ForcedForCause
<1> QED  BY <1>4, <1>5

-----------------------------------------------------------------------------
(* The steps of the run's thread *)

\* The thread of a run keeps to the run its session is reserved for.
LEMMA ExecStep ==
    ASSUME RunsInv, NEW r \in Runs, Exec(r) \/ PassGate(r) \/ RefuseGate(r)
    PROVE  RunsInv'
<1> USE RunsAssumption DEF RunsInv, RTypeOK
<1>S. ASSUME NEW s \in SessType,
             sess' = s, s.busy = sess.busy, s.run = sess.run, s.asked = sess.asked,
             s.forced = sess.forced,
             UNCHANGED <<current, client, lastRun, sudo, still, timer, toClose>>,
             started' \in [Runs -> BOOLEAN],
             pc' \in [Runs -> Active \union {"absent", "join", "done"}],
             chan' \in [Runs -> {"none", "open", "exited", "closed"}],
             writer' \in [Runs -> {"none", "alive", "stuck", "reported", "ended"}],
             \A q \in Runs : q # r =>
                pc'[q] = pc[q] /\ chan'[q] = chan[q] /\ writer'[q] = writer[q],
             pc[r] \in Active, pc'[r] \in Active,
             pc'[r] \in {"start", "open"} => chan'[r] = "none",
             pc'[r] \in {"start", "open", "wire"} => writer'[r] = "none",
             pc'[r] = "finish" => chan'[r] # "open",
             writer[r] = "reported" => writer'[r] = "reported"
      PROVE  RunsInv'
  <2>1. RTypeOK'
    BY <1>S DEF SessType
  <2>2. Reserved' /\ Timers' /\ ForcedForCause'
    BY <1>S DEF Reserved, Timers, ForcedForCause
  <2>3. Fresh'
    BY <1>S DEF Fresh, Active
  <2>4. Channels'
    BY <1>S DEF Channels, Active
  <2> QED  BY <2>1, <2>2, <2>3, <2>4
<1>0. sess \in SessType
  BY DEF SessType
<1>1. CASE ExecStart(r)
  BY <1>0, <1>1, <1>S DEF ExecStart, Goto, Active, deviceVars, Channels
<1>2. CASE \E opens \in BOOLEAN : Open(r, opens)
  <2>1. sess' \in SessType
    <3>1. r \in 0..MaxRuns  BY DEF Runs
    <3>2. sess' = sess \/ sess' = [sess EXCEPT !.channel = r]
      BY <1>2 DEF Open
    <3> HIDE DEF RunsInv, RTypeOK
    <3> QED  BY <1>0, <3>1, <3>2, SessUpdates
  <2> QED  BY <1>0, <1>2, <1>S, <2>1 DEF Open, Goto, Active, Channels
<1>3. CASE Wire(r)
  <2>1. sess' \in SessType
    <3>1. r \in 0..MaxRuns  BY DEF Runs
    <3> QED  BY <1>0, <1>3, <3>1, SessUpdates DEF Wire
  <2> QED  BY <1>0, <1>3, <1>S, <2>1 DEF Wire, Goto, Active, Shut, Channels
<1>4. CASE Begin(r)
  <2>1. sess' \in SessType
    BY <1>0, <1>4 DEF Begin, SendStart, SessType
  <2> QED  BY <1>0, <1>4, <1>S, <2>1 DEF Begin, SendStart, Goto, Active, deviceVars
<1>5. CASE PassGate(r)
  <2>1. /\ sess' = [sess EXCEPT !.auth = TRUE] /\ started' = [started EXCEPT ![r] = TRUE]
        /\ pc[r] = "read"
        /\ UNCHANGED <<current, client, lastRun, sudo, pc, still, chan, writer, timer, toClose>>
    BY <1>5 DEF PassGate, SendStart, deviceVars
  <2>2. sess' \in SessType
    BY <1>0, <2>1, SessUpdates
  <2>3. /\ sess'.busy = sess.busy /\ sess'.run = sess.run
        /\ sess'.asked = sess.asked /\ sess'.forced = sess.forced
    BY <1>0, <2>1 DEF SessType
  <2>4. started' \in [Runs -> BOOLEAN]
    BY <2>1
  <2>5. pc[r] \in Active /\ pc'[r] = "read"
    BY <2>1 DEF Active
  <2> QED  BY <1>S, <2>1, <2>2, <2>3, <2>4, <2>5
<1>6. CASE RefuseGate(r) \/ ReadToEnd(r) \/ ReadSuperseded(r)
  BY <1>0, <1>6, <1>S
  DEF RefuseGate, ReadToEnd, ReadSuperseded, Goto, Shut, Active, deviceVars
<1>7. CASE Finish(r)
  <2>1. /\ pc' = [pc EXCEPT ![r] = "join"] /\ pc[r] = "finish"
        /\ UNCHANGED <<current, client, lastRun, sudo, started, chan, toClose>>
        /\ still' = [still EXCEPT ![r] = current]
    BY <1>7 DEF Finish, Goto
  <2>2. /\ sess' \in SessType
        /\ sess'.asked = sess.asked /\ sess'.forced = sess.forced
        /\ \/ ~sess'.busy /\ sess'.run = 0
           \/ sess'.busy = sess.busy /\ sess'.run = sess.run
    <3>1. CASE current
      <4>1. sess' = [sess EXCEPT !.busy = FALSE, !.run = 0, !.channel = 0, !.writer = 0,
                                 !.timer = 0]
        BY <1>7, <3>1 DEF Finish
      <4>2. 0 \in 0..MaxRuns  OBVIOUS
      <4> HIDE DEF RunsInv, RTypeOK
      <4> QED  BY <1>0, <4>1, <4>2 DEF SessType
    <3>2. CASE ~current
      <4>1. sess' = [sess EXCEPT !.timer = 0]
        BY <1>7, <3>2 DEF Finish
      <4>2. 0 \in 0..MaxRuns  OBVIOUS
      <4> HIDE DEF RunsInv, RTypeOK
      <4> QED  BY <1>0, <4>1, <4>2 DEF SessType
    <3> QED  BY <3>1, <3>2
  <2>3. /\ writer' \in [Runs -> {"none", "alive", "stuck", "reported", "ended"}]
        /\ \A q \in Runs : writer'[q] # writer[q] => writer[q] = "alive"
    BY <1>7 DEF Finish
  <2>4. /\ timer' \in [Runs -> {"off", "armed", "expired"}]
        /\ \A q \in Runs : timer'[q] # timer[q] => timer'[q] = "off"
    BY <1>7 DEF Finish
  <2>5. RTypeOK'
    BY <2>1, <2>2, <2>3, <2>4 DEF SessType
  <2>6. Reserved'
    BY <2>1, <2>2 DEF Reserved, Active
  <2>7. Fresh' /\ Channels'
    BY <2>1, <2>2, <2>3, <2>4 DEF Fresh, Channels
  <2>8. Timers' /\ ForcedForCause'
    BY <2>1, <2>2, <2>3, <2>4 DEF Timers, ForcedForCause
  <2> QED  BY <2>5, <2>6, <2>7, <2>8
<1>8. CASE Trailing(r)
  <2>1. pc' = [pc EXCEPT ![r] = "done"] /\ pc[r] = "join"
    BY <1>8 DEF Trailing, Goto
  <2>2. UNCHANGED <<current, client, sess, lastRun, sudo, started, still, chan, writer,
                    timer, toClose>>
    BY <1>8 DEF Trailing, deviceVars
  <2>3. RTypeOK'
    BY <2>1, <2>2
  <2>4. Reserved' /\ Fresh' /\ Channels' /\ Timers' /\ ForcedForCause'
    BY <2>1, <2>2 DEF Reserved, Fresh, Channels, Timers, ForcedForCause, Active
  <2> QED  BY <2>3, <2>4
<1> QED
  BY <1>1, <1>2, <1>3, <1>4, <1>5, <1>6, <1>7, <1>8 DEF Exec

-----------------------------------------------------------------------------
(* The steps of the device, the stop timer and the writer *)

\* A timer or a stuck writer forces only the run that has it, and for cause.
LEMMA DeviceStep ==
    ASSUME RunsInv, NEW r \in Runs,
           \/ CommandExits(r) \/ TimerExpires(r) \/ ForceStop(r)
           \/ WriterSticks(r) \/ ReportStuck(r)
    PROVE  RunsInv'
<1> USE RunsAssumption DEF RunsInv, RTypeOK
<1>1. /\ sess'.busy = sess.busy /\ sess'.run = sess.run /\ sess'.asked = sess.asked
      /\ sess' \in SessType
  <2>1. sess \in SessType
    BY DEF SessType
  <2>2. sess' = sess \/ sess' = [sess EXCEPT !.forced = TRUE]
    BY DEF CommandExits, TimerExpires, ForceStop, WriterSticks, ReportStuck
  <2> HIDE DEF RunsInv, RTypeOK
  <2> QED  BY <2>1, <2>2 DEF SessType
<1>2. /\ chan' \in [Runs -> {"none", "open", "exited", "closed"}]
      /\ \A q \in Runs : chan'[q] # chan[q] => chan[q] = "open" /\ chan'[q] # "open"
  BY DEF CommandExits, TimerExpires, ForceStop, WriterSticks, ReportStuck, Shut
<1>3. /\ timer' \in [Runs -> {"off", "armed", "expired"}]
      /\ \A q \in Runs : timer[q] = "off" => timer'[q] = "off"
  BY DEF CommandExits, TimerExpires, ForceStop, WriterSticks, ReportStuck
<1>4. /\ writer' \in [Runs -> {"none", "alive", "stuck", "reported", "ended"}]
      /\ \A q \in Runs : writer'[q] # writer[q] =>
            writer[q] \in {"alive", "stuck"}
  BY DEF CommandExits, TimerExpires, ForceStop, WriterSticks, ReportStuck
<1>5. UNCHANGED <<current, client, lastRun, sudo, pc, started, still, toClose>>
  BY DEF CommandExits, TimerExpires, ForceStop, WriterSticks, ReportStuck, threadVars
<1>6. RTypeOK'
  BY <1>1, <1>2, <1>3, <1>4, <1>5 DEF SessType
<1>7. Reserved' /\ Fresh' /\ Channels' /\ Timers'
  BY <1>1, <1>2, <1>3, <1>4, <1>5 DEF Reserved, Fresh, Channels, Timers
<1>8. ForcedForCause'
  <2>1. CASE sess'.forced = sess.forced
    BY <1>1, <1>4, <2>1 DEF ForcedForCause
  <2>2. CASE ForceStop(r) /\ StillAt(r)
    BY <1>1, <2>2 DEF ForceStop, StillAt, ForcedForCause, Timers
  <2>3. CASE ReportStuck(r) /\ StillAt(r)
    BY <1>1, <2>3 DEF ReportStuck, StillAt, ForcedForCause
  <2> QED
    BY <2>1, <2>2, <2>3 DEF CommandExits, TimerExpires, ForceStop, WriterSticks, ReportStuck
<1> QED  BY <1>6, <1>7, <1>8

-----------------------------------------------------------------------------
(* The theorems *)

\* Every step keeps what the safety of the runs rests on.
LEMMA RunsStep == RunsInv /\ [RNext]_runVars => RunsInv'
<1>1. CASE RunsInv /\ RNext
  BY <1>1, RunCommandStep, CancelStep, LoopStep, ExecStep, DeviceStep DEF RNext
<1>2. CASE RunsInv /\ UNCHANGED runVars
  <2>1. RTypeOK'
    BY <1>2 DEF runVars, threadVars, deviceVars, RunsInv, RTypeOK
  <2>2. (Reserved /\ Fresh /\ Channels /\ Timers /\ ForcedForCause)'
    BY <1>2
    DEF runVars, threadVars, deviceVars, RunsInv, Reserved, Fresh, Channels, Timers,
        ForcedForCause
  <2> QED  BY <2>1, <2>2 DEF RunsInv
<1> QED  BY <1>1, <1>2

\* A session's runs are always in one of the states described above.
THEOREM RunsInvariant == RSpec => []RunsInv
<1> QED  BY RunsInvInit, RunsStep, PTL DEF RSpec

\* Two commands never run on one session: a thread that drives a command is that
\* of the run the session is reserved for (the busy flag of run_command).
THEOREM OneRunAtATime == RSpec => []OneRun
<1>1. RunsInv => OneRun
  BY DEF RunsInv, Reserved, OneRun
<1> QED  BY <1>1, RunsInvariant, PTL

\* A run is reported as stopped by force only if that very run was asked to stop
\* or its own writer was stuck (_force_stop, _writer_stuck).
THEOREM NeverForcedByOthers == RSpec => []ForcedForCause
<1>1. RunsInv => ForcedForCause
  BY DEF RunsInv
<1> QED  BY <1>1, RunsInvariant, PTL

\* A run whose thread has let the session go leaves no command on the device.
THEOREM NothingLeftRunning == RSpec => []NoOrphan
<1>1. RunsInv => NoOrphan
  BY DEF RunsInv, Channels, NoOrphan
<1> QED  BY <1>1, RunsInvariant, PTL

-----------------------------------------------------------------------------
(* The page beside the runs *)

\* A step of the page, of a message or of a thread with what it pushes is a step
\* of the runs or leaves them alone.
LEMMA PageStepIsRunStep ==
    ASSUME PNext
    PROVE  RNext \/ UNCHANGED runVars
<1>1. ASSUME NEW needsSudo \in BOOLEAN, PRunCommand(needsSudo)
      PROVE  RNext
  BY <1>1 DEF PRunCommand, RNext
<1>2. CASE PLoseSlot
  BY <1>2 DEF PLoseSlot, RNext
<1>3. CASE PSilent
  BY <1>3 DEF PSilent, RNext, Exec
<1>4. ASSUME NEW r \in Runs, PCancel(r)
      PROVE  RNext
  BY <1>4 DEF PCancel, RNext
<1>5. ASSUME NEW r \in Runs,
             PExecStart(r) \/ PStarts(r) \/ PReadToEnd(r) \/ PTrailing(r)
      PROVE  RNext
  <2>1. Exec(r) \/ PassGate(r)
    BY <1>5 DEF PExecStart, PStarts, PReadToEnd, PTrailing, Exec
  <2> QED  BY <2>1 DEF RNext
<1>6. CASE Deliver \/ Answered \/ ReadStates \/ ReadTerminals
  BY <1>6 DEF Deliver, Answered, ReadStates, ReadTerminals
<1> QED  BY <1>1, <1>2, <1>3, <1>4, <1>5, <1>6 DEF PNext

\* The runs beside a page are the runs of CommandRun: all that is proved of them
\* holds here.
THEOREM PageRuns == PSpec => RSpec
<1>1. PInit => RInit
  BY DEF PInit
<1>2. [PNext]_pageVars => [RNext]_runVars
  <2>1. ASSUME PNext
        PROVE  [RNext]_runVars
    BY <2>1, PageStepIsRunStep
  <2>2. ASSUME UNCHANGED pageVars
        PROVE  UNCHANGED runVars
    BY <2>2 DEF pageVars
  <2> QED  BY <2>1, <2>2
<1> QED  BY <1>1, <1>2, PTL DEF PSpec, RSpec

\* A session that is reserved for a run has a thread that drives it
Driven == current /\ sess.busy => sess.run \in Runs /\ pc[sess.run] \in Active

Messages == [kind: Shown \union {"start", "end"}, run: 0..MaxRuns]

PageTypes ==
    /\ msgs \in Seq(Messages)
    /\ page \in [shown: Shown, known: 0..MaxRuns, reply: 0..MaxRuns, over: SUBSET Runs]
    /\ frame \in Shown \union {"none"}

\* Some thread has not said "connected" yet, and will
Awaited == \E r \in Runs : pc[r] \in Active \/ (pc[r] = "join" /\ still[r])

\* After the messages in q, a page that has shown b shows "running"
EndsRunning(q, b) ==
    \/ \E i \in 1..Len(q) : /\ q[i].kind = "running"
                            /\ \A j \in (i + 1)..Len(q) : q[j].kind # "connected"
    \/ b = "running" /\ \A j \in 1..Len(q) : q[j].kind # "connected"

\* A page that will show "running", as it is or as its init frame makes it, is
\* still to be told otherwise
Told == current /\ (EndsRunning(msgs, page.shown) \/ EndsRunning(msgs, frame)) => Awaited

PageInv == RunsInv /\ Driven /\ PageTypes /\ page.known \notin page.over /\ Told

\* What a message at the end adds.
LEMMA WordAppended ==
    ASSUME NEW q \in Seq(Messages), NEW m \in Messages, NEW b,
           EndsRunning(Append(q, m), b)
    PROVE  m.kind = "running" \/ (m.kind # "connected" /\ EndsRunning(q, b))
<1> DEFINE a == Append(q, m)
<1>1. /\ Len(a) = Len(q) + 1 /\ a[Len(q) + 1] = m
      /\ \A i \in 1..Len(q) : a[i] = q[i]
      /\ Len(q) \in Nat
  OBVIOUS
<1> HIDE DEF a
<1>2. CASE b = "running" /\ \A j \in 1..Len(a) : a[j].kind # "connected"
  BY <1>1, <1>2 DEF EndsRunning
<1>3. ASSUME NEW i \in 1..Len(a), a[i].kind = "running",
             \A j \in (i + 1)..Len(a) : a[j].kind # "connected"
      PROVE  m.kind = "running" \/ (m.kind # "connected" /\ EndsRunning(q, b))
  <2>1. CASE i = Len(q) + 1
    BY <1>1, <1>3, <2>1
  <2>2. CASE i \in 1..Len(q)
    BY <1>1, <1>3, <2>2 DEF EndsRunning
  <2> QED  BY <1>1, <2>1, <2>2
<1> QED  BY <1>2, <1>3 DEF EndsRunning, a

\* A message is delivered: what it says is taken over by what the page shows.
LEMMA WordDelivered ==
    ASSUME NEW q \in Seq(Messages), q # << >>, NEW b,
           EndsRunning(Tail(q), IF Head(q).kind \in Shown THEN Head(q).kind ELSE b)
    PROVE  EndsRunning(q, b)
<1> DEFINE t == Tail(q)
           c == IF q[1].kind \in Shown THEN q[1].kind ELSE b
<1>1. /\ Len(q) \in Nat \ {0} /\ Len(t) = Len(q) - 1
      /\ \A i \in 1..Len(t) : t[i] = q[i + 1]
      /\ Head(q) = q[1]
  OBVIOUS
<1>2. EndsRunning(t, c)
  BY <1>1
<1> HIDE DEF t
<1>3. \A i \in 2..Len(q) : i - 1 \in 1..Len(t) /\ q[i] = t[i - 1]
  BY <1>1
<1>4. CASE c = "running" /\ \A j \in 1..Len(t) : t[j].kind # "connected"
  <2>1. \A j \in 2..Len(q) : q[j].kind # "connected"
    BY <1>3, <1>4
  <2>2. CASE q[1].kind = "running"
    BY <1>1, <2>1, <2>2 DEF EndsRunning
  <2>3. CASE q[1].kind # "running"
    <3>1. b = "running" /\ q[1].kind # "connected"
      BY <1>4, <2>3 DEF Shown
    <3> QED  BY <1>1, <2>1, <3>1 DEF EndsRunning
  <2> QED  BY <2>2, <2>3
<1>5. ASSUME NEW i \in 1..Len(t), t[i].kind = "running",
             \A j \in (i + 1)..Len(t) : t[j].kind # "connected"
      PROVE  EndsRunning(q, b)
  <2>1. \A j \in (i + 2)..Len(q) : q[j].kind # "connected"
    <3>1. \A j \in (i + 2)..Len(q) : j \in 2..Len(q) /\ j - 1 \in (i + 1)..Len(t)
      BY <1>1
    <3> QED  BY <1>3, <1>5, <3>1
  <2>2. i + 1 \in 1..Len(q) /\ q[i + 1].kind = "running" /\ (i + 1) + 1 = i + 2
    BY <1>1, <1>5
  <2> QED  BY <2>1, <2>2 DEF EndsRunning
<1> QED  BY <1>2, <1>4, <1>5 DEF EndsRunning

\* A thread keeps a reserved session driven, and the loop reserves it for one.
LEMMA DrivenStep ==
    ASSUME RunsInv, Driven, [RNext]_runVars
    PROVE  Driven'
<1>0. /\ sess \in SessType /\ pc \in [Runs -> Active \union {"absent", "join", "done"}]
      /\ lastRun \in 0..MaxRuns /\ MaxRuns \in Nat
      /\ started \in [Runs -> BOOLEAN]
  BY RunsAssumption DEF RunsInv, RTypeOK, SessType
<1>1. ASSUME NEW needsSudo \in BOOLEAN, RunCommand(needsSudo)
      PROVE  Driven'
  <2>1. lastRun + 1 \in Runs /\ sess'.run = lastRun + 1 /\ pc'[lastRun + 1] = "start"
    BY <1>0, <1>1 DEF RunCommand, Runs, SessType
  <2> QED  BY <2>1 DEF Driven, Active
<1>2. CASE CloseCaptured \/ LoseSlot \/ CloseSession
  <2>1. pc' = pc /\ (current' => current) /\ sess'.busy = sess.busy /\ sess'.run = sess.run
    BY <1>0, <1>2 DEF CloseCaptured, LoseSlot, CloseSession, threadVars, SessType
  <2> QED  BY <2>1 DEF Driven
<1>3. ASSUME NEW r \in Runs,
             \/ Cancel(r) \/ PassGate(r)
             \/ CommandExits(r) \/ TimerExpires(r) \/ ForceStop(r)
             \/ WriterSticks(r) \/ ReportStuck(r)
      PROVE  Driven'
  <2>1. pc' = pc /\ current' = current /\ sess'.busy = sess.busy /\ sess'.run = sess.run
    <3>1. CASE Cancel(r)
      BY <1>0, <3>1 DEF Cancel, threadVars, SessType
    <3>2. CASE PassGate(r)
      BY <1>0, <3>2 DEF PassGate, SendStart, SessType
    <3>3. CASE CommandExits(r) \/ TimerExpires(r) \/ WriterSticks(r)
      BY <3>3 DEF CommandExits, TimerExpires, WriterSticks, threadVars
    <3>4. CASE ForceStop(r) \/ ReportStuck(r)
      BY <1>0, <3>4 DEF ForceStop, ReportStuck, threadVars, SessType
    <3> QED  BY <1>3, <3>1, <3>2, <3>3, <3>4
  <2> QED  BY <2>1 DEF Driven
<1>4. ASSUME NEW r \in Runs,
             \/ ExecStart(r) \/ Wire(r) \/ Begin(r)
             \/ \E opens \in BOOLEAN : Open(r, opens)
             \/ ReadToEnd(r) \/ ReadSuperseded(r) \/ RefuseGate(r)
      PROVE  Driven'
  <2>1. /\ pc'[r] \in Active
        /\ \A q \in Runs : q # r => pc'[q] = pc[q]
        /\ current' = current /\ sess'.busy = sess.busy /\ sess'.run = sess.run
    <3>1. CASE ExecStart(r) \/ ReadToEnd(r) \/ ReadSuperseded(r) \/ RefuseGate(r)
      BY <1>0, <3>1 DEF ExecStart, ReadToEnd, ReadSuperseded, RefuseGate, Goto, Active
    <3>2. CASE Wire(r)
      BY <1>0, <3>2 DEF Wire, Goto, SessType, Active
    <3>3. CASE Begin(r)
      BY <1>0, <3>3 DEF Begin, SendStart, Goto, SessType, Active
    <3>4. ASSUME NEW opens \in BOOLEAN, Open(r, opens)
          PROVE  <2>1!1 /\ <2>1!2 /\ <2>1!3
      BY <1>0, <3>4 DEF Open, Goto, SessType, Active
    <3> QED  BY <1>4, <3>1, <3>2, <3>3, <3>4
  <2> QED  BY <2>1 DEF Driven
<1>5. ASSUME NEW r \in Runs, Finish(r)
      PROVE  Driven'
  <2>1. current' => ~sess'.busy
    BY <1>0, <1>5 DEF Finish, SessType
  <2> QED  BY <2>1 DEF Driven
<1>6. ASSUME NEW r \in Runs, Trailing(r)
      PROVE  Driven'
  <2>1. /\ pc[r] = "join" /\ UNCHANGED <<current, sess>>
        /\ \A q \in Runs : q # r => pc'[q] = pc[q]
    BY <1>0, <1>6 DEF Trailing, Goto
  <2> QED  BY <2>1 DEF Driven, Active
<1>7. CASE UNCHANGED runVars
  BY <1>7 DEF Driven, runVars, threadVars
<1> QED  BY <1>1, <1>2, <1>3, <1>4, <1>5, <1>6, <1>7 DEF RNext, Exec

\* Whoever is to say "connected" still is after a step of another, and after its
\* own until it has.
LEMMA AwaitedStep ==
    ASSUME RunsInv, [RNext]_runVars, Awaited, current',
           \A r \in Runs : pc[r] = "join" /\ still[r] => ~Trailing(r)
    PROVE  Awaited'
<1>0. /\ pc \in [Runs -> Active \union {"absent", "join", "done"}]
      /\ still \in [Runs -> BOOLEAN] /\ lastRun \in 0..MaxRuns /\ MaxRuns \in Nat
  BY RunsAssumption DEF RunsInv, RTypeOK
<1> DEFINE Waits(r) == pc[r] \in Active \/ (pc[r] = "join" /\ still[r])
<1>1. PICK w \in Runs : Waits(w)
  BY DEF Awaited
<1>2. SUFFICES pc'[w] \in Active \/ (pc'[w] = "join" /\ still'[w])
  BY DEF Awaited
<1>3. CASE UNCHANGED <<pc, still>>
  BY <1>1, <1>3
<1>4. ASSUME NEW needsSudo \in BOOLEAN, RunCommand(needsSudo)
      PROVE  pc'[w] \in Active \/ (pc'[w] = "join" /\ still'[w])
  <2>1. w # lastRun + 1
    BY <1>0, <1>1 DEF RunsInv, Fresh, Active, Runs
  <2> QED  BY <1>0, <1>1, <1>4, <2>1 DEF RunCommand
<1>5. ASSUME NEW r \in Runs, r # w,
             Exec(r) \/ RefuseGate(r)
      PROVE  pc'[w] = pc[w] /\ still'[w] = still[w]
  BY <1>0, <1>5
  DEF Exec, ExecStart, Open, Wire, Begin, ReadToEnd, ReadSuperseded, RefuseGate, Finish,
      Trailing, Goto
<1>6. CASE Exec(w) \/ RefuseGate(w)
  <2>1. CASE Finish(w)
    BY <1>0, <2>1 DEF Finish, Goto
  <2>2. CASE Trailing(w)
    BY <1>1, <2>2 DEF Trailing, Active
  <2>3. CASE \/ ExecStart(w) \/ Wire(w) \/ Begin(w)
             \/ \E opens \in BOOLEAN : Open(w, opens)
             \/ ReadToEnd(w) \/ ReadSuperseded(w) \/ RefuseGate(w)
    BY <1>0, <2>3
    DEF ExecStart, Open, Wire, Begin, ReadToEnd, ReadSuperseded, RefuseGate, Goto, Active
  <2> QED  BY <1>6, <2>1, <2>2, <2>3 DEF Exec
<1>7. ASSUME NEW r \in Runs,
             \/ Cancel(r) \/ PassGate(r)
             \/ CommandExits(r) \/ TimerExpires(r) \/ ForceStop(r)
             \/ WriterSticks(r) \/ ReportStuck(r)
      PROVE  UNCHANGED <<pc, still>>
  BY <1>7
  DEF Cancel, PassGate, CommandExits, TimerExpires, ForceStop, WriterSticks, ReportStuck,
      threadVars
<1>8. CASE CloseCaptured \/ LoseSlot \/ CloseSession \/ UNCHANGED runVars
  BY <1>3, <1>8 DEF CloseCaptured, LoseSlot, CloseSession, runVars, threadVars
<1> QED  BY <1>1, <1>3, <1>4, <1>5, <1>6, <1>7, <1>8 DEF RNext

\* The initial state of a page beside a connected session.
LEMMA PageInvInit ==
    ASSUME PInit
    PROVE  PageInv
<1>1. RunsInv
  BY RunsInvInit DEF PInit
<1>2. Driven
  BY DEF PInit, RInit, NoRun, Driven
<1>3. msgs = << >> /\ frame = "none"
      /\ page = [shown |-> "connected", known |-> 0, reply |-> 0, over |-> {}]
  BY DEF PInit
<1>4. PageTypes
  BY <1>3, RunsAssumption DEF PageTypes, Shown
<1>5. page.known \notin page.over
  BY <1>3
<1>6. Told
  BY <1>3 DEF Told, EndsRunning
<1> QED  BY <1>1, <1>2, <1>4, <1>5, <1>6 DEF PageInv

\* What a thread pushes is well-formed, and the page does not see it yet.
LEMMA PushTyped ==
    ASSUME PageTypes, NEW kind \in Shown \union {"start", "end"}, NEW r \in 0..MaxRuns,
           NEW cond, Push(kind, r, cond), UNCHANGED <<page, frame>>
    PROVE  PageTypes'
<1>1. [kind |-> kind, run |-> r] \in Messages
  BY DEF Messages
<1> QED  BY <1>1 DEF PageTypes, Push

\* A push of anything but "running" announces nothing new.
LEMMA PushTold ==
    ASSUME PageTypes, Told, NEW kind \in {"connected", "start", "end"}, NEW r \in 0..MaxRuns,
           NEW cond, Push(kind, r, cond), UNCHANGED <<page, frame>>,
           current' => current,
           Awaited /\ current' => Awaited' \/ (kind = "connected" /\ cond)
    PROVE  Told'
<1> SUFFICES ASSUME current', NEW b \in {page.shown, frame}, EndsRunning(msgs', b)
             PROVE  Awaited'
  BY DEF Told
<1>1. current
  OBVIOUS
<1>2. CASE cond
  <2> DEFINE m == [kind |-> kind, run |-> r]
  <2>1. msgs' = Append(msgs, m) /\ m.kind = kind
    BY <1>1, <1>2 DEF Push
  <2>2. m \in Messages /\ msgs \in Seq(Messages)
    BY DEF Messages, PageTypes, Shown
  <2> HIDE DEF m
  <2>3. kind # "connected" /\ EndsRunning(msgs, b)
    BY <2>1, <2>2, WordAppended
  <2> QED  BY <1>1, <2>3 DEF Told
<1>3. CASE ~cond
  BY <1>1, <1>3 DEF Told, Push
<1> QED  BY <1>2, <1>3

\* What holds of the page while a thread only pushes.
LEMMA PagePushes ==
    ASSUME PageInv, NEW r \in Runs,
           PExecStart(r) \/ PStarts(r) \/ PReadToEnd(r) \/ PTrailing(r)
    PROVE  PageTypes' /\ page'.known \notin page'.over /\ Told'
<1>0. RunsInv /\ PageTypes /\ Told /\ page.known \notin page.over
  BY DEF PageInv
<1>1. UNCHANGED <<page, frame>>
  BY DEF PExecStart, PStarts, PReadToEnd, PTrailing
<1>2. r \in 0..MaxRuns /\ 0 \in 0..MaxRuns
  BY RunsAssumption DEF Runs
<1>3. CASE PExecStart(r)
  <2>1. Push("running", 0, client) /\ ExecStart(r)
    BY <1>3 DEF PExecStart
  <2>2. PageTypes'
    BY <1>0, <1>1, <1>2, <2>1, PushTyped DEF Shown
  <2>3. Awaited'
    BY <1>0, <2>1 DEF Awaited, ExecStart, Goto, Active, RunsInv, RTypeOK
  <2> QED  BY <1>0, <1>1, <2>2, <2>3 DEF Told
<1>4. CASE PStarts(r)
  <2> DEFINE cond == started'[r] /\ ~started[r]
  <2>1. Push("start", r, cond) /\ (Exec(r) \/ PassGate(r)) /\ current' = current
    BY <1>4 DEF PStarts, Exec, Begin, PassGate
  <2>2. \A q \in Runs : pc[q] = "join" /\ still[q] => ~Trailing(q)
    BY <1>0, <1>4 DEF PStarts, Begin, PassGate, Trailing, Goto, RunsInv, RTypeOK
  <2>3. Awaited /\ current' => Awaited'
    BY <1>0, <2>1, <2>2, AwaitedStep DEF RNext
  <2> HIDE DEF cond
  <2>4. PageTypes'
    BY <1>0, <1>1, <1>2, <2>1, PushTyped
  <2>5. Told'
    BY <1>0, <1>1, <1>2, <2>1, <2>3, PushTold
  <2> QED  BY <1>0, <1>1, <2>4, <2>5
<1>5. CASE PReadToEnd(r)
  <2>1. Push("end", r, started[r]) /\ Exec(r) /\ current' = current
    BY <1>5 DEF PReadToEnd, Exec, ReadToEnd
  <2>2. \A q \in Runs : pc[q] = "join" /\ still[q] => ~Trailing(q)
    BY <1>0, <1>5 DEF PReadToEnd, ReadToEnd, Trailing, Goto, RunsInv, RTypeOK
  <2>3. Awaited /\ current' => Awaited'
    BY <1>0, <2>1, <2>2, AwaitedStep DEF RNext
  <2>4. PageTypes'
    BY <1>0, <1>1, <1>2, <2>1, PushTyped
  <2>5. Told'
    BY <1>0, <1>1, <1>2, <2>1, <2>3, PushTold
  <2> QED  BY <1>0, <1>1, <2>4, <2>5
<1>6. CASE PTrailing(r)
  <2>1. Push("connected", 0, still[r]) /\ Exec(r) /\ current' = current
    BY <1>6 DEF PTrailing, Exec, Trailing
  <2>2. ASSUME ~still[r], Awaited, current'
        PROVE  Awaited'
    <3>1. \A q \in Runs : pc[q] = "join" /\ still[q] => ~Trailing(q)
      BY <1>0, <1>6, <2>2 DEF PTrailing, Trailing, Goto, RunsInv, RTypeOK
    <3>2. RNext
      BY <2>1 DEF RNext
    <3> QED  BY <1>0, <2>2, <3>1, <3>2, AwaitedStep
  <2>3. Awaited /\ current' => Awaited' \/ ("connected" = "connected" /\ still[r])
    BY <2>2
  <2>4. PageTypes'
    BY <1>0, <1>1, <1>2, <2>1, PushTyped DEF Shown
  <2>5. Told'
    BY <1>0, <1>1, <1>2, <2>1, <2>3, PushTold
  <2> QED  BY <1>0, <1>1, <2>4, <2>5
<1> QED  BY <1>3, <1>4, <1>5, <1>6

\* What a page may hold.
PageType == [shown: Shown, known: 0..MaxRuns, reply: 0..MaxRuns, over: SUBSET Runs]

\* The page's own operations keep it typed, never make it know a run that is
\* over, and leave what it shows to status messages.
LEMMA PageOperations ==
    ASSUME NEW p \in PageType, p.known \notin p.over, NEW r \in 0..MaxRuns
    PROVE  /\ Remember(p, r) \in PageType
           /\ Remember(p, r).known \notin Remember(p, r).over
           /\ Remember(p, r).shown = p.shown
           /\ Forget(p, r) \in PageType
           /\ Forget(p, r).known \notin Forget(p, r).over
           /\ Forget(p, r).shown = p.shown
<1>1. p.over \subseteq Runs /\ p.known \in 0..MaxRuns /\ 0 \in 0..MaxRuns /\ 0 \notin Runs
  BY RunsAssumption DEF PageType, Runs
<1>2. CASE r = 0
  BY <1>2 DEF Remember, Forget
<1>3. CASE r # 0
  <2>1. r \in Runs
    BY <1>3, RunsAssumption DEF Runs
  <2>2. /\ Remember(p, r) \in PageType
        /\ Remember(p, r).known \notin Remember(p, r).over
        /\ Remember(p, r).shown = p.shown
    BY <1>3 DEF Remember, PageType
  <2> DEFINE k == IF p.known = r THEN 0 ELSE p.known
             f == [p EXCEPT !.over = p.over \union {r}, !.known = k]
  <2>3. Forget(p, r) = f
    BY <1>3 DEF Forget
  <2>4. /\ f.over = p.over \union {r} /\ f.known = k /\ f.shown = p.shown
        /\ f \in PageType
    <3>1. p.over \union {r} \in SUBSET Runs /\ k \in 0..MaxRuns
      BY <1>1, <2>1
    <3> HIDE DEF k
    <3> QED  BY <3>1 DEF PageType
  <2>5. k \notin p.over \union {r}
    BY <1>1, <1>3
  <2> QED  BY <2>2, <2>3, <2>4, <2>5
<1> QED  BY <1>2, <1>3

\* A page takes the status it is told, and forgets the run if that is over.
LEMMA StatusShown ==
    ASSUME NEW p \in PageType, p.known \notin p.over, NEW state \in Shown
    PROVE  /\ ShowStatus(p, state) \in PageType
           /\ ShowStatus(p, state).known \notin ShowStatus(p, state).over
           /\ ShowStatus(p, state).shown = state
<1> DEFINE q == IF state = "running" THEN p ELSE Forget(p, p.known)
<1>1. p.known \in 0..MaxRuns
  BY DEF PageType
<1>2. q \in PageType /\ q.known \notin q.over
  BY <1>1, PageOperations
<1>3. ShowStatus(p, state) = [q EXCEPT !.shown = state]
  BY DEF ShowStatus
<1> HIDE DEF q
<1> QED  BY <1>2, <1>3 DEF PageType

\* The oldest message is delivered.
LEMMA DeliverStep ==
    ASSUME PageInv, Deliver
    PROVE  PageTypes' /\ page'.known \notin page'.over /\ Told'
<1> DEFINE m == Head(msgs)
<1>0. PageTypes /\ Told /\ page.known \notin page.over /\ page \in PageType
  BY DEF PageInv, PageTypes, PageType
<1>1. /\ msgs \in Seq(Messages) /\ msgs # << >> /\ msgs' = Tail(msgs)
      /\ frame' = frame /\ frame = "none" /\ UNCHANGED runVars
  BY DEF Deliver, LoopFree, PageInv, PageTypes
<1>2. m \in Messages /\ msgs' \in Seq(Messages)
  BY <1>1
<1>3. m.kind \in Shown \union {"start", "end"} /\ m.run \in 0..MaxRuns
  BY <1>2 DEF Messages
<1>4. page' = CASE m.kind \in Shown  -> ShowStatus(page, m.kind)
                [] m.kind = "start"  -> Remember(page, m.run)
                [] m.kind = "end"    -> Forget(page, m.run)
  BY DEF Deliver
<1> HIDE DEF m
<1>5. /\ page' \in PageType /\ page'.known \notin page'.over
      /\ page'.shown = IF m.kind \in Shown THEN m.kind ELSE page.shown
  <2>1. CASE m.kind \in Shown
    <3>1. page' = ShowStatus(page, m.kind)
      BY <1>4, <2>1 DEF Shown
    <3> QED  BY <1>0, <2>1, <3>1, StatusShown
  <2>2. CASE m.kind = "start"
    <3>1. page' = Remember(page, m.run)
      BY <1>4, <2>2 DEF Shown
    <3> QED  BY <1>0, <1>3, <2>2, <3>1, PageOperations DEF Shown
  <2>3. CASE m.kind = "end"
    <3>1. page' = Forget(page, m.run)
      BY <1>4, <2>3 DEF Shown
    <3> QED  BY <1>0, <1>3, <2>3, <3>1, PageOperations DEF Shown
  <2> QED  BY <1>3, <2>1, <2>2, <2>3
<1>6. PageTypes'
  BY <1>1, <1>2, <1>5 DEF PageTypes, PageType
<1>7. Told'
  <2> SUFFICES ASSUME current', EndsRunning(msgs', page'.shown) \/ EndsRunning(msgs', frame')
               PROVE  Awaited'
    BY DEF Told
  <2>1. EndsRunning(msgs, page.shown) \/ EndsRunning(msgs, frame)
    <3>1. CASE EndsRunning(msgs', page'.shown)
      BY <1>1, <1>5, <3>1, WordDelivered DEF m
    <3>2. CASE EndsRunning(msgs', frame')
      <4>1. EndsRunning(Tail(msgs), IF m.kind \in Shown THEN m.kind ELSE frame)
        BY <1>1, <3>2 DEF EndsRunning
      <4> QED  BY <1>1, <4>1, WordDelivered DEF m
    <3> QED  BY <3>1, <3>2
  <2>2. Awaited /\ UNCHANGED <<pc, still>>
    BY <1>0, <1>1, <2>1 DEF Told, runVars, threadVars
  <2> QED  BY <2>2 DEF Awaited
<1> QED  BY <1>5, <1>6, <1>7

\* An answer arrives, or the page is loaded again.
LEMMA LoadStep ==
    ASSUME PageInv, Answered \/ ReadStates \/ ReadTerminals
    PROVE  PageTypes' /\ page'.known \notin page'.over /\ Told'
<1>0. /\ PageTypes /\ Told /\ page.known \notin page.over /\ page \in PageType
      /\ frame \in Shown \union {"none"} /\ RunsInv /\ Driven
  BY DEF PageInv, PageTypes, PageType
<1>1. msgs' = msgs /\ UNCHANGED <<current, pc, still>>
  BY DEF Answered, ReadStates, ReadTerminals, runVars, threadVars
<1>2. CASE Answered
  <2> DEFINE p == Remember(page, page.reply)
  <2>1. p \in PageType /\ p.known \notin p.over /\ p.shown = page.shown
    BY <1>0, PageOperations DEF PageType
  <2>2. page' = [p EXCEPT !.reply = 0] /\ frame' = frame
    BY <1>2 DEF Answered
  <2> HIDE DEF p
  <2>3. page' \in PageType /\ page'.known \notin page'.over /\ page'.shown = page.shown
    BY <2>1, <2>2, RunsAssumption DEF PageType
  <2> QED  BY <1>0, <1>1, <2>2, <2>3 DEF PageTypes, PageType, Told, Awaited
<1>3. CASE ReadStates
  <2>1. page' = page /\ frame' \in Shown /\ (frame' = "running" => sess.busy) /\ current
    BY <1>3 DEF ReadStates, Shown
  <2>2. ASSUME EndsRunning(msgs, frame'), ~EndsRunning(msgs, page.shown)
        PROVE  Awaited
    <3>1. CASE frame' = "running"
      BY <1>0, <2>1, <3>1 DEF Driven, Awaited
    <3>2. CASE frame' # "running"
      BY <2>2, <3>2 DEF EndsRunning
    <3> QED  BY <3>1, <3>2
  <2>3. Told'
    BY <1>0, <1>1, <2>1, <2>2 DEF Told, Awaited
  <2> QED  BY <1>0, <1>1, <2>1, <2>3 DEF PageTypes
<1>4. CASE ReadTerminals
  <2>1. /\ page' = [shown |-> frame, known |-> IF current THEN sess.run ELSE 0,
                    reply |-> 0, over |-> {}]
        /\ frame' = "none" /\ frame \in Shown
    BY <1>0, <1>4 DEF ReadTerminals
  <2>2. (IF current THEN sess.run ELSE 0) \in 0..MaxRuns
    BY <1>0, RunsAssumption DEF RunsInv, RTypeOK
  <2>3. page' \in PageType /\ page'.known \notin page'.over /\ page'.shown = frame
    BY <2>1, <2>2, RunsAssumption DEF PageType
  <2>4. ~EndsRunning(msgs, "none") \/ EndsRunning(msgs, frame)
    BY DEF EndsRunning
  <2>5. Told'
    BY <1>0, <1>1, <2>1, <2>3, <2>4 DEF Told, Awaited
  <2> QED  BY <1>0, <1>1, <2>1, <2>3, <2>5 DEF PageTypes, PageType
<1> QED  BY <1>2, <1>3, <1>4

\* What is left: commands and cancels a page asks for, a lost slot, and the steps
\* of the runs that push nothing.
LEMMA SilentStep ==
    ASSUME PageInv,
           \/ \E needsSudo \in BOOLEAN : PRunCommand(needsSudo)
           \/ \E r \in Runs : PCancel(r)
           \/ PLoseSlot \/ PSilent
    PROVE  PageTypes' /\ page'.known \notin page'.over /\ Told'
<1>0. /\ PageTypes /\ Told /\ page.known \notin page.over /\ page \in PageType
      /\ RunsInv /\ RTypeOK
  BY DEF PageInv, PageTypes, PageType, RunsInv
<1>1. ASSUME \A q \in Runs : pc[q] = "join" /\ still[q] => ~Trailing(q),
             PNext, Awaited, current'
      PROVE  Awaited'
  BY <1>0, <1>1, PageStepIsRunStep, AwaitedStep
<1>2. ASSUME NEW needsSudo \in BOOLEAN, PRunCommand(needsSudo)
      PROVE  PageTypes' /\ page'.known \notin page'.over /\ Told'
  <2>1. /\ page' = [page EXCEPT !.reply = lastRun'] /\ lastRun' \in 0..MaxRuns
        /\ UNCHANGED <<msgs, frame, current>>
    BY <1>0, <1>2, RunsAssumption DEF PRunCommand, RunCommand, RTypeOK
  <2>2. page' \in PageType /\ page'.known = page.known /\ page'.over = page.over
        /\ page'.shown = page.shown
    BY <1>0, <2>1 DEF PageType
  <2>3. \A q \in Runs : pc[q] = "join" /\ still[q] => ~Trailing(q)
    BY <1>0, <1>2 DEF PRunCommand, RunCommand, Trailing, Goto, RTypeOK, RunsInv, Fresh
  <2>4. Awaited /\ current' => Awaited'
    BY <1>1, <1>2, <2>3 DEF PNext
  <2> QED  BY <1>0, <2>1, <2>2, <2>4 DEF PageTypes, PageType, Told
<1>3. CASE PLoseSlot
  <2>1. msgs' = << >> /\ UNCHANGED <<page, frame>> /\ ~current'
    BY <1>3 DEF PLoseSlot, LoseSlot
  <2> QED  BY <1>0, <2>1 DEF PageTypes, Told
<1>4. ASSUME (\E r \in Runs : PCancel(r)) \/ PSilent
      PROVE  PageTypes' /\ page'.known \notin page'.over /\ Told'
  <2>1. UNCHANGED <<msgs, page, frame>>
    BY <1>4 DEF PCancel, PSilent
  <2>2. current' => current
    BY <1>0, <1>4 DEF PCancel, PSilent, Cancel, Open, Wire, RefuseGate, ReadSuperseded, Finish,
                      CommandExits, TimerExpires, ForceStop, WriterSticks, ReportStuck,
                      CloseCaptured, CloseSession
  <2>3. \A q \in Runs : pc[q] = "join" => pc'[q] = "join"
    <3>1. ASSUME NEW q \in Runs,
                 \/ \E opens \in BOOLEAN : Open(q, opens)
                 \/ Wire(q) \/ RefuseGate(q) \/ ReadSuperseded(q) \/ Finish(q)
          PROVE  \A x \in Runs : pc[x] = "join" => pc'[x] = "join"
      BY <1>0, <3>1 DEF Open, Wire, RefuseGate, ReadSuperseded, Finish, Goto, RTypeOK
    <3>2. ASSUME NEW q \in Runs,
                 \/ Cancel(q) \/ CommandExits(q) \/ TimerExpires(q) \/ ForceStop(q)
                 \/ WriterSticks(q) \/ ReportStuck(q)
          PROVE  pc' = pc
      BY <3>2 DEF Cancel, CommandExits, TimerExpires, ForceStop, WriterSticks, ReportStuck,
                  threadVars
    <3>3. ASSUME CloseCaptured \/ CloseSession
          PROVE  pc' = pc
      BY <3>3 DEF CloseCaptured, CloseSession, threadVars
    <3> QED  BY <1>4, <3>1, <3>2, <3>3 DEF PCancel, PSilent
  <2>4. \A q \in Runs : pc[q] = "join" /\ still[q] => ~Trailing(q)
    BY <1>0, <2>3 DEF Trailing, Goto, RTypeOK
  <2>5. Awaited /\ current' => Awaited'
    BY <1>1, <1>4, <2>4 DEF PNext
  <2> QED  BY <1>0, <2>1, <2>2, <2>5 DEF PageTypes, Told
<1> QED  BY <1>2, <1>3, <1>4

\* A page and the messages on their way to it are always in one of the states
\* described above.
THEOREM PageInvariant == PSpec => []PageInv
<1>1. PInit => PageInv
  BY PageInvInit
<1>2. PageInv /\ [PNext]_pageVars => PageInv'
  <2> SUFFICES ASSUME PageInv, [PNext]_pageVars
               PROVE  PageInv'
    OBVIOUS
  <2>1. [RNext]_runVars
    BY PageStepIsRunStep DEF pageVars
  <2>2. RunsInv' /\ Driven'
    BY <2>1, RunsStep, DrivenStep DEF PageInv
  <2>3. PageTypes' /\ page'.known \notin page'.over /\ Told'
    <3>1. CASE \/ \E needsSudo \in BOOLEAN : PRunCommand(needsSudo)
               \/ \E r \in Runs : PCancel(r)
               \/ PLoseSlot \/ PSilent
      BY <3>1, SilentStep
    <3>2. CASE \E r \in Runs : PExecStart(r) \/ PStarts(r) \/ PReadToEnd(r) \/ PTrailing(r)
      BY <3>2, PagePushes
    <3>3. CASE Deliver \/ Answered \/ ReadStates \/ ReadTerminals
      BY <3>3, DeliverStep, LoadStep
    <3>4. CASE UNCHANGED pageVars
      BY <3>4 DEF pageVars, runVars, threadVars, PageInv, PageTypes, Told, Awaited
    <3> QED  BY <3>1, <3>2, <3>3, <3>4 DEF PNext
  <2> QED  BY <2>2, <2>3 DEF PageInv
<1> QED  BY <1>1, <1>2, PTL DEF PSpec

\* When every command is over and every message delivered, a page of a connected
\* session shows it as connected, and no page offers to stop a run that it knows
\* is over (_finish_exec, the snapshots of the init frame, rememberRunId).
THEOREM PagesSettle == PSpec => []PageSettles
<1>1. PageInv => PageSettles
  <2> SUFFICES ASSUME PageInv, RunsOver, msgs = << >>, current
               PROVE  page.shown = "connected"
    BY DEF PageInv, PageSettles
  <2>1. ~Awaited
    BY DEF RunsOver, Awaited, Active
  <2>2. ~EndsRunning(msgs, page.shown)
    BY <2>1 DEF PageInv, Told
  <2>3. page.shown # "running"
    BY <2>2 DEF EndsRunning
  <2> QED  BY <2>3 DEF PageInv, PageTypes, Shown
<1> QED  BY <1>1, PageInvariant, PTL
=============================================================================
