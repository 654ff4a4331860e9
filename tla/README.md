# Simple Network Dashboard: verification project

TLA+ models of the server in `simple_network_dashboard/` and of the parts of its
page (`static/index.html`) that take part in its protocols.  TLC checks every
model on a small instance; TLAPS proves the theorems for every value of the
constants.  Paths and line numbers are those of the repository.

## 1. The system

One Python process runs an asyncio event loop (FastAPI under uvicorn).  It serves
one page, keeps a WebSocket to every browser tab, polls metrics of the selected
devices, and holds SSH sessions to devices on behalf of signed-in browser
sessions ("owners").  Whatever blocks runs on other threads:

| actor | what it runs |
|---|---|
| the event loop | all HTTP and WebSocket handlers, `tick_idle` every two seconds, the grace-period release, the drain of the delivery queue, the metrics loop |
| an executor thread per connect | `SSHManager.connect` |
| a worker thread per sign-out | `release_owner` (through `asyncio.to_thread`) |
| a thread per run | `SSHManager._exec` |
| a writer thread per run | `TerminalWriter._run` |
| a timer thread per cancelled run | `_force_stop` |
| the page | WebSocket messages, HTTP answers, drawing callbacks |

The threads share `SSHManager.sessions`, `_pending` and the attributes of each
`_Session` under one lock per device, which is never held over a blocking call;
`_owner_activity` under a lock of its own; and the delivery queue under its
condition.  A worker tells the browsers something by queueing a message, which
the loop delivers later; messages carry the generation of their session and are
dropped if another session holds the slot by then.

### Components

| component | source | state | operations | what makes it correct | module |
|---|---|---|---|---|---|
| SSH session slots | `ssh_manager.py`, `ssh_session.py` | `sessions`, `_pending`, `_owner_activity`, generations | connect, disconnect, trust and reject a host key, release an owner, idle tick, stay connected | one live session per device, never another owner's; no client leaked; an answer closes only what it was asked about | SshSlots |
| status and lock messages | `ssh_manager.py`, `main.py`, `static/index.html` | messages queued, what each page shows | push, deliver, load a page | a page shows a session as connected only while it is; no ghost lock | SshBrowsers |
| delivery queue | `delivery_queue.py` | deque, bytes, event, task | push, push_terminal, drain, shutdown | FIFO, once each; no lost wake-up; waiting workers get on | Handoff, DeliveryQueue |
| command execution | `ssh_manager.py`, `terminal_control.py`, `terminal_run.py` | busy, run id, channel, writer, timer, cancel flags | run, cancel, force stop, finish | one run at a time; a cancel ends its run and no other; no orphaned command | CommandRun |
| the page's view of a run | `static/index.html` | `SSH_STATE`, `TERMINAL_RUN_IDS`, `ENDED_RUN_IDS` | answer, status, start, end, init | ends up showing the session as it is | RunPage |
| terminal output | `ssh_manager.py` (emit), `terminal_control.py`, `static/index.html` | history, sent/acked, frames, live terminal | emit, acknowledge, reconnect, reload | nothing missed or out of order; a page cannot stop a command | TerminalStream |
| terminal input and control | `terminal_control.py`, `terminal_run.py` | controller, revision, input queue | claim, input, resize, redraw | only the tab in control types, in order; nothing typed is read by sudo; Ctrl+C goes first | TerminalInput |
| sockets and presence | `ws_manager.py`, `main.py` | sockets, their queues, pending releases | connect, drop, send, check again, release after grace | a reconnect in time keeps the sessions, an absence releases them; no gap in what a socket is sent | Presence |
| sessions and sign-in | `session_manager.py`, `auth.py`, `main.py` | session file, password generation, throttle | login, logout, validate, password reset | a signed-out session never comes back; a session that was given stays; delays hold | Sessions |
| device store | `persistence.py`, `main.py` | file, backup, cache, recovery mode | load, save, edit, retry recovery | nothing that was confirmed is lost; memory is what the file says | DurableList, DeviceStore |
| sudo gate, batcher, history | `terminal_run.py`, `terminal_history.py` | gate, decoder, batch, lines | feed, add, flush | nothing shown before the gate passes, nothing cut, lost or repeated | TerminalText |
| metrics poller | `metrics_poller.py`, `main.py` | cache, error windows | poll, deselect, delete | rates and parsing of one device's answer | not modelled |
| debug log | `debug_log.py` | handler, switch | enable, disable, write | - | not modelled |
| host-key file, configuration, update check, page rendering, installer, uninstaller | `host_keys.py`, `config.py`, `update_check.py`, `static/`, `install.sh`, `uninstall.sh` | files, DOM | - | no state two actors share, or pure I/O | not modelled |

`PROJECT.json` lists the places in this code that a test would hardly reach
(`hazards`), with the properties that cover each.

## 2. The modules

Every module names its variables after the attributes of the code.  A step ends
where the code releases a lock, blocks, awaits, or has written what another
thread can read without a lock.  Definitions introduced by a comment `Faulty
variant` are not part of any specification: each is a bug someone could write in
the definition it precedes, and shows that the property named with it in
`PROJECT.json` would notice.

**SshSlots** - `sessions[d]` is the generation in a device's slot (0 for none).
`connect` draws one generation and makes one session per call, so a generation
names the session and the connecting thread, whose place is `pc[g]`.  Reserve is
the first locked section; ThreadClose the blocking close of the retired session;
Dial, RaisePrompt and FailConnect the outcomes of the blocking connect; Promote
and Superseded the second locked section; Touch and Announce what follows it.
Everything that closes sessions runs on a caller, `job[c]`: the loop, one handler
at a time, or a sign-out's thread.  A close is Close (locked), ClearPending
(locked), ShutPopped (blocking) and AnnounceClosed; release_owner, the prompt
sweep and tick_idle are loops over it.  Time is ExpirePrompt and GrowIdle.

**SshBrowsers** extends SshSlots with the messages pushed by these steps and what
each owner's browser shows: `_push`, the generation test of `_deliver`, the
`ssh_status` and `ssh_lock` handlers, and the snapshot of a page load.

**Handoff** is the abstract line: messages accepted, handed over or dropped, in
order.  **DeliveryQueue** is the queue with its condition, its event, the
`call_soon_threadsafe` between them, the two-level drain loop and shutdown; it
implements Handoff under the mapping in `Line`'s INSTANCE.

**CommandRun** follows one session through consecutive runs: `run_command`,
`cancel` with its three outcomes, `_exec` step by step, the stop timer, the stuck
writer and the loss of the slot.  Attributes that a run leaves behind are reset
only where the code resets them.

**RunPage** extends CommandRun with one page: the HTTP answer of a run, the
messages of both runs, reloads (the two snapshots of the init frame) and the
page's run ids.

**TerminalStream** follows the batches of one run: wait, feed the history, push,
note as sent (four steps, as in `emit`), then the queue, the sockets, the page's
live terminal, and acknowledgements on the way back.  `page[p].rows` are the
console's rows above the terminal and `text` what is in it.

**TerminalInput** follows one run with several tabs of its owner: a tab's claim,
keys and resizes travel to the loop (`up`), news of control to the tab (`down`).
Claim, Input and ResizeRun are the handlers of `ws_endpoint` with the locked
sections they call; nothing in them suspends, so each is one step.  Take, Sent and
SendFails are the writer thread.  A socket the manager has dropped has no socket id
any more, and its endpoint still handles what arrives.  A page that reconnects is a
new socket on a page that has forgotten its control.

**Presence** follows the sockets of one owner.  `conns` is the manager's register
and `endpoint` where `ws_endpoint` is for each socket: the two differ, since the
manager drops a socket that cannot keep up at once and its endpoint learns of it
later.  A step ends at an await that suspends; what follows `ws.accept()` up to the
first `receive_text` does not, so Accepted is one step.  A queue holds frames,
each named by the number of broadcasts it covers.  Check reads the session on a
thread, Resume is what the endpoint does with the answer.  The release tasks of the
grace period are `tasks`, the one in `_pending_releases` is `pending`.  SSH
sessions are "kept" while something will release them, "late" if a connect in
flight reserved one after everything that would have, in which case the idle tick
ends it; SshSlots has the details.

**Sessions** has the session file and the password file, each as what reading it
gives and the set of what it may be after a power loss: a replacement adds to that
set, a sync makes it a singleton.  Each request is a thread: `load` and `publish`
are two steps under the store's lock.  Login runs under `_login_lock`.  A token is
drawn once; generations of the password are numbers.

**DurableList** is the abstract promise of the device store, and **DeviceStore**
the two files, each write as replacement and sync that may fail, the cache, the
start with its repair, and the recovery mode.  Saving runs on the event loop
without an await, so edits do not interleave; what interleaves is a stop, a power
loss or a damaged copy between any two steps.  It implements DurableList under
the mapping in `Promise`'s INSTANCE, in which `possible` is what any copy, or the
backup read at the start, may still bring back.

**TerminalText** reads every output there is, up to a length, in every cut into
chunks and batches: SudoGate.feed, the batcher and the history as operators,
`read_channel` as the actions, the reference definitions (ToShow, and the gate's
meaning of the whole output in GateExact) on the whole of what was read.

## 3. What the runs check

| run | module | bounds | checks |
|---|---|---|---|
| slots | SshSlots | 1 device, 2 owners, 2 connects, 1 sign-out | OneLiveSession, ClientReleased, SlotInv; NeverStolen, AnswerHarmless |
| browsers | SshBrowsers | 1 device, 2 owners, 2 connects, at most 1 message waiting before a new one is pushed by a request | NoGhost; ShownWhileConnected |
| delivery | DeliveryQueue | 2 workers with a batch each, 2 notices, sizes 1 and 2, room for 2 bytes and 2 items of terminal output | BytesExact, NoLostWakeup; ImplementsHandoff, Drained, OfferReturns |
| command | CommandRun | 2 runs | OneRun, ForcedForCause, NoOrphan; CancelEnds |
| page | RunPage | 2 runs | PageSettles |
| stream | TerminalStream | 1 page, 3 batches, at most 1 unacknowledged before the reader pauses, 3 sockets in turn | NoGap, CaughtUp; ReadGoesOn, Reaches |
| input | TerminalInput | 2 tabs, 2 claims, 2 keys or resizes in all, 1 byte of pending input, 2 sizes | OnlyControllers, InOrder, ControlKnown, SizeSettles, PasswordKept, InterruptNext |
| presence | Presence | 2 sockets, 2 release tasks, queues of 2 frames, 3 broadcasts | SentInOrder, CheckedInTime; ReturnKeeps, AbsentReleased |
| sessions | Sessions | 2 tokens, 2 requests at a time, 2 generations of the password, 1 failure without a delay | StaysSignedIn, SignedOutStays, ResetEndsSessions, DelayHolds |
| devices | DeviceStore | 3 devices of which 2 fit, 1 configuration | AlwaysACopy, CacheIsPrimary; ImplementsDurableList |
| text | TerminalText | 7 bytes in chunks of up to 3, words of 3 bytes, 1 line kept, 2 columns | GateExact, OutputWhole |
| page_over | RunPage | 2 runs | OverIsOver, violated |

*Bounds.*  What goes wrong between sessions goes wrong between two of them: the
one in a slot and the one that replaces it, of the same or of another owner.
Devices share nothing but the owners' clocks.  Two runs are the least for which a
timer, a message or an attribute of one can meet the other.  Three batches with
one unacknowledged let the reader pause, stall and go on; three sockets let a
page load, lose its socket and reload.  Two claims and two messages of two tabs are
the least for which input of one claim can meet the next, wait behind another or
find the queue full.  Pages share only the acknowledgement counters.  Two sockets
let one leave while the other comes or stays, and three broadcasts fill a queue of
two behind the snapshot; a release task can be pending, and a second one be made.
Two requests are the least for which one can write over the other, two tokens for
which the write is about someone else.  Three devices, two of which fit, let an
addition be refused.  Seven bytes are the phrase, the mark and a byte of output, or
twice the phrase; the phrase and the mark begin alike, as theirs do, and chunks of
three cut each of them anywhere.  Tabs, tokens, requests and devices are
interchangeable (symmetry, in runs that check no liveness).  Counters are bounded
by MaxGen, MaxBacklog, MaxRuns, MaxBatches, MaxNotices, MaxSeq, MaxConnects,
MaxClaims, MaxTyped, MaxFrames and MaxRead, each a guard of the action that counts.

*Where a run may stop.*  The bounded models end when their connects, runs or
messages are used up; where that is a deadlock to TLC the configuration turns the
deadlock check off.

*Fairness.*  Safety needs none.  DeliveryQueue assumes that the drain task, once
runnable, runs (the loop is never blocked for good) and that a worker in
`push_terminal` is scheduled again (its wait has a timeout of a quarter second).
CommandRun assumes that each worker thread goes on, that timers fire, and that a
closed channel ends its command; not that a command ends by itself, nor that
anybody cancels.  TerminalStream assumes that worker, loop and network go on;
not that a page draws or acknowledges, reconnects or stays.  Presence assumes that
sleeps end, that the thread of a check or of a sign-out's release returns, and
strongly that an endpoint whose socket the manager has closed leaves: a check may
be under way each time, but its next `receive_text` raises.

### Where the code and its comments differ

The run **page_over** checks one statement (OverIsOver) and is expected to violate
it.  The last "connected" of a run is pushed after the next run may have begun; the
page then treats the running command as ended and its Stop button has none to name.

Four more such places are in the models' behaviours, with no run of their own; the
hazards name them:

- An owner's idle clock is dropped after the blocking closes (`ssh_manager.py:810`);
  a connect of the same owner that finished meanwhile stays connected without a
  clock, although the comment at `ssh_manager.py:56` says the clocks' updates do
  not race.
- A close announces idle and unlock, without a generation, after closing the old
  client (`ssh_manager.py:447`), when the same owner's next session may already be
  connected: its page shows it as idle.
- A page loaded while a run's start is still queued is given the history first and
  the start afterwards, which begins the terminal anew (`static/index.html:1464`):
  the first batches are shown twice.  A page that reconnects behind the history,
  after having been restored from it once, also repeats rows.
- A batch is noted as sent after it was pushed (`ssh_manager.py:619`); an
  acknowledgement that arrives in between is ignored, and the reader may pause for
  up to TERM_ACK_STALL_SECONDS with nothing unwritten.

And one in Sessions: a sign-out whose write fails after the replacement, at the sync
of the directory, is answered with 503, on which the page says that the "session is
still active" (`static/index.html:982`), when its record is gone.

## 4. What is proved

All proofs are checked by TLAPS for arbitrary constants that satisfy the
assumptions `SlotsAssumption`, `DeliveryAssumption`, `RunsAssumption`,
`StreamAssumption`, `TextAssumption`, `InputAssumption`, `PresenceAssumption`,
`SessionsAssumption` and `StoreAssumption`, which TLC evaluates too.

**SshSlotsProofs.**  `TypeCorrect`: TypeOK is invariant.  `OneSessionPerDevice`:
OneLiveSession is.  It is not inductive: a promotion could make a session
connected that is closed already, a slot could name a session of another device,
and an answer to a prompt could close a connection.  `SlotInv` adds what rules
this out: generations above the counter are unused (Unborn), a slot holds a
session of its own device that is not closed (SlotHoldsLive), a connecting thread
finds its session connecting or closed (ThreadState), what an answer or an expiry
is about to close waits at a prompt or is closed (DoomedWaits), and only the idle
tick takes owners' turns (TickTurns).  `SlotsInvariant` proves it action by
action; `SlotsNeverStolen` and `AnswersHarmless` prove the action properties from
it.

`ClientsReleased`: ClientReleased is invariant.  At rest no thread is at work, so the
invariant (ClientHeld) names for every client the thread that has still to settle,
discard or close it; a session taken out of its slot has one caller that closes it,
and a retired one the connect that replaced it.  A disconnect request closes one
session and no list of them (Bare), or it could start over.

`NoGhosts` and `ShownAreConnected`, of SshBrowsers.  `BrowsersSlots` carries over all
that holds of the slots.  What a browser shows may be out of date while messages are
queued, so the invariant (Covered) pairs each thing shown with the session in the slot
or with the idle status and unlock that are queued or that some thread has still to
say.  It needs that a session which was promised to its owner was established and
stays so until it is closed (Stamps): otherwise a late "connected" would pass the
generation test of `_deliver`.

**OutputProofs**, of DeliveryQueue.  `WakeupNotLost`: whenever something is queued
while the drain task waits, its event is set or a callback that sets it is on its way.
`QueueImplementsHandoff`: initial states map to initial states and every step to
a step of Handoff or a stutter.  `BytesAreExact`: the bytes counted are those of the
queue.  Their sum is a recursive function; that a message added or taken changes it
by its size is an induction over the length of the queue.

**OutputProofs**, of TerminalText. `GateIsExact` and `OutputIsWhole`: GateExact and
OutputWhole are invariant, for output of any length in chunks and batches of any size.
The gate's words are the model's, of three bytes. Neither says what the gate and the
decoder keep between chunks. What the gate keeps is an end of what was read, and
nothing before it begins a word that could still be completed (Waits); so the words of
what it kept and the next chunk, together, are those of all the output that were not
there before (`WordsJoin`), and the first mark, the requests before it and what
follows it are found as in all the output at once (`GateStep`). What the decoder keeps
is decoded with the next chunk as if there had been no cut (`DecodeJoin`), and the
history takes text in two batches as in one (`FeedJoin`). TextInv then says that what
is to be shown is what the history was fed, followed by what the batcher holds. Decode
and Feed are recursive functions; what they make of one more byte or character
(`DecodeNext`, `FeedNext`) is an induction over the length.

**TerminalInputProofs.**  `ControlIsKnown`: ControlKnown is invariant.  A page may
be out of date while news are on the way, so the inductive invariant speaks of the
last of them (LastNewsTrue): it names the tab that has control now.  It holds
because a claim tells every open socket within one step of the loop, and a socket
opens on a page that has been told nothing (QuietBefore).  `ControllersType`,
`DeviceInOrder`, `SizesSettle`, `PasswordIsKept` and `InterruptIsNext` are the other
five.  What the device gets depends on three places that the input passes, so
WireInv says that requests of the last claim come from the tab in control and carry
keys in the order typed, and QueueInv that what was written, is being written and
waits are in one order (Ordered), each key typed before all its tab has still under
way (TakenTyped), and none before sudo is through (GateInv).  What `clear_input` keeps
(WithoutInput, a recursive function) is characterised by an induction over the
queue: the same items in the same order, less the input.

**CommandRunProofs.**  `OneRunAtATime`, `NeverForcedByOthers` and `NothingLeftRunning`:
OneRun, ForcedForCause and NoOrphan are invariant, for any number of runs.  A thread
that drives a command has the session for its run even after the slot is lost
(Reserved); a run to come has no thread, channel, writer or timer (Fresh); where a
thread is tells what it has made of its channel (Channels); and the run the session
is at has a timer only if somebody asked to stop it (Timers).  Without Timers, an
expired timer could report a force nobody asked for.

`PagesSettle`, of RunPage: PageSettles is invariant, over what `PageRuns` carries over
from the runs.  A session that is reserved has a thread that drives it (Driven), and a
page that shows a running command, or whose init frame on the way will, has a
"connected" among the messages behind it or a thread that has still to say it (Told).

**TerminalStreamProofs.**  `OutputHasNoGap` and `PagesCatchUp`: NoGap and CaughtUp are
invariant, for any number of pages, batches and reconnects.  Neither is inductive: a
console without a gap may be handed a frame that leaves one.  The frames put out have
no holes, and those queued (LineInv) and on the way to a socket (WireOf) are the last
of them, in order; so the number of the next one a page will get (Coming) is known
from lengths alone, and a console, or the init frame before it, has all batches below
that number (Reach).  It rests on the order in `emit`: history, push, note.

**PresenceProofs.**  `FramesInOrder`, `NoLateMessage` and `NoStrayRelease`.  The manager's
sockets are those of endpoints that run, and one being accepted has been sent
nothing (Registered); the pending release is the only one and no socket has joined
since it was made (OneRelease), so the case that ReturnKeeps speaks of needs a task
that escaped its cancellation, and there is none; a socket whose deadline passed
after the session's end is still to be checked or has been refused (Refused).

**SessionsProofs.**  `SignedInStays`, `SignOutsStay`, `ResetsEndSessions` and
`DelaysHold`.  What a thread read of the file must still be what the file holds when it
writes, so the invariant says that a thread between the two is alone with the store
(StoreTurn), as a sign-in that looks at the throttle is with it (LoginTurn).  A token
being created is known to nobody (TokensKnown), or writing it could bring back one
that was ended.

**DeviceStoreProofs.**  `ACopyIsKept`, `MemoryFollowsPrimary` and `KeepsThePromise`: the
store implements DurableList.  The invariant says what each kind of write has done so
far: a save that has replaced the primary has its list in memory, and goes on with
the backup only when some copy survives a power loss (SaveState); a copy that a
repair or a retry has replaced holds its list unless it was damaged (RestoreState),
and then the other holds it (RepairState); what a retry writes is the list retained,
which is the one served (RetryState, RetainedState).  A save's replacement is an
attempt, the sync of its backup the confirmation, a start that finds a list the
abstract start; everything else loses what was not confirmed, or nothing.

Liveness under fairness and ENABLED are beyond the prover and stay with TLC: Drained,
OfferReturns, CancelEnds, ReadGoesOn, Reaches and AbsentReleased.  The library's
induction theorems cannot be used, as they take an operator as a parameter; where a
proof needs one, over the length of a sequence, it is stated for a set of numbers
(NatSetInduction), or of sequences (SeqSetInduction).

## 5. What is abstracted

- SshSlots: log lines, passwords and the idle warning; a blocking connect has one
  of three outcomes (a client, a prompt, a failure).
- DeliveryQueue: messages are records of worker, number and size.
- CommandRun: the text that the sudo gate matches (PassGate, RefuseGate), the
  batches, and the exceptions of closed channels, which end the run the same way.
- TerminalStream: a batch stands for its text; the history keeps every line
  (TERM_HISTORY_MAX_LINES and trim_to_budget are not modelled); full-screen
  redraws and the console's row limit are left out.
- TerminalInput: an input is one byte and a size one number; a send is all or
  nothing; the note to a page whose input was too much is left out; the session
  stays connected (its loss is in CommandRun).
- In TerminalStream a hand-over to a socket is done by the loop in one step; the
  sockets' own queue limit is in Presence.
- Presence: one owner; a queue's limit counts frames where the code counts bytes; a
  snapshot too large for a queue, and the frames sent to one socket only, are left
  out; of an SSH session only whether something will release it.
- Sessions: one client address; password hashing, cookies, CSRF tokens and the
  checks of file modes and shapes (a file that fails them cannot be read); a token
  is never drawn twice.
- DeviceStore: a device's fields are one configuration; a file is a list, missing or
  not readable; both copies of one directory are synced together, as one sync of
  the directory does.  At most one copy is damaged while the other is safe.
- TerminalText: words of three bytes; characters of one or two bytes; an escape
  sequence is one symbol (the history's own automaton reads one character at a
  time, across batches); standard error is part of the one stream; a batch may be
  due at any time.

## 6. Not modelled

- **Metrics poller**: one task of the loop polls the devices in turn.  What can go
  wrong in it is the parsing of a text and arithmetic on counters that restart,
  within one device's poll; a result written for a device that was edited or
  deleted meanwhile is replaced by the next poll.  The selection of devices by
  socket (`set_selected_device`) belongs to it.
- **Debug log**: its races are between two toggles and a write that fails, and cost
  a log line or one request an error.
- **Host-key file, configuration, update check, page rendering, installer and
  uninstaller**: file and network I/O, constants, and the DOM.  What other parts
  depend on is in them: whether a key was saved (SshSlots), run ids, statuses and
  the live terminal (RunPage, SshBrowsers, TerminalStream).
- `trim_to_budget`, which shortens the histories of an init frame, is arithmetic on
  the length of lines.

## 7. Plan

The parts that hold state two actors share are modelled, and every invariant, action
property and refinement that the runs check is proved for every value of the
constants.  What is left to TLC is liveness.
