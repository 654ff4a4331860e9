---------------------------- MODULE TerminalInput ----------------------------
(***************************************************************************)
(* Typing into a running command from several tabs of its owner: the       *)
(* control of the terminal (terminal_control.py and the message loop of    *)
(* ws_endpoint in main.py), the writer thread of the run (TerminalWriter   *)
(* in terminal_run.py) and what the pages know of it (static/index.html).  *)
(*                                                                         *)
(* A tab has control from its claim to the next one; input and resizes     *)
(* carry the revision of the claim they rest on.  The handlers run on the  *)
(* event loop under the device lock; the writer takes one item after the   *)
(* other from a queue of its own and sends it to the device, which may be  *)
(* slow.  One run, whose session stays connected.                          *)
(***************************************************************************)
EXTENDS Integers, SequencesExt

CONSTANTS
    Sockets,      \* sockets of the owner, each used once
    NoSocket,     \* None
    MaxPending,   \* TERM_PENDING_INPUT_MAX_BYTES, an input being one byte
    MaxSize,      \* terminal sizes are 1..MaxSize, and one less for a redraw
    MaxClaims,    \* bound: claims
    MaxTyped      \* bound: inputs typed and resizes asked for

ASSUME InputAssumption ==
    /\ NoSocket \notin Sockets
    /\ MaxPending \in Nat /\ MaxSize \in Nat \ {0}
    /\ MaxClaims \in Nat /\ MaxTyped \in Nat

VARIABLES
    socket,       \* socket[s]: new, open, dropped by the manager, gone
    page,         \* page[s]: what the page on socket s knows of its control
    up,           \* up[s]: messages from the page
    down,         \* down[s]: term_control messages to it
    claims,       \* claims sent so far
    typed,        \* inputs typed and resizes asked for so far
    controller,   \* sess.controller
    rev,          \* sess.control_rev
    auth,         \* sess.auth_complete
    gate,         \* the sudo gate: waiting, password queued, password written
    stopping,     \* sess.stop_timer is set
    over,         \* the run is over: sess.busy is false, the writer closed
    size,         \* sess.cols and sess.rows
    items,        \* TerminalWriter._items
    pending,      \* TerminalWriter._pending_input
    writer,       \* the writer thread
    writing,      \* the item it is sending, in a sequence of at most one
    open,         \* the channel is open
    received,     \* what the device has been sent, resizes left out
    pty           \* the size of the device's terminal

pageVars == <<socket, page, up, down, claims, typed>>
runVars == <<controller, rev, auth, gate, stopping, over, size>>
writerVars == <<items, pending, writer, writing>>
deviceVars == <<open, received, pty>>
inputVars == <<pageVars, runVars, writerVars, deviceVars>>

Item(kind, from, r, n) == [kind |-> kind, from |-> from, rev |-> r, n |-> n]

\* Items nobody typed
Password == Item("password", NoSocket, 0, 0)
Interrupt == Item("interrupt", NoSocket, 0, 0)
Resize(n) == Item("resize", NoSocket, 0, n)

IsInput(item) == item.kind = "input"

\* A page that does not know of any control
NoControl == [yours |-> FALSE, rev |-> 0, claiming |-> FALSE]

IInit ==
    /\ socket = [s \in Sockets |-> "new"]
    /\ page = [s \in Sockets |-> NoControl]
    /\ up = [s \in Sockets |-> << >>]
    /\ down = [s \in Sockets |-> << >>]
    /\ claims = 0 /\ typed = 0
    /\ controller = NoSocket /\ rev = 0
    /\ auth = FALSE /\ gate = "waiting" /\ stopping = FALSE /\ over = FALSE
    /\ size = 1
    /\ items = << >> /\ pending = 0
    /\ writer = "absent" /\ writing = << >>
    /\ open = TRUE /\ received = << >> /\ pty = 1

-----------------------------------------------------------------------------
(* The pages *)

OnPage(s) == socket[s] \in {"open", "dropped"}
Send(s, message) == up' = [up EXCEPT ![s] = Append(up[s], message)]

\* claimTerminalControl
PageClaim(s) ==
    /\ OnPage(s) /\ claims < MaxClaims
    /\ ~page[s].yours /\ ~page[s].claiming
    /\ page' = [page EXCEPT ![s].claiming = TRUE]
    /\ claims' = claims + 1
    /\ Send(s, Item("claim", s, 0, 0))
    /\ UNCHANGED <<socket, down, typed, runVars, writerVars, deviceVars>>

\* The terminal loses the focus: the next one claims again
PageBlur(s) ==
    /\ page[s].claiming
    /\ page' = [page EXCEPT ![s].claiming = FALSE]
    /\ UNCHANGED <<socket, up, down, claims, typed, runVars, writerVars, deviceVars>>

\* sendTerminalInput
PageType(s) ==
    /\ OnPage(s) /\ page[s].yours /\ typed < MaxTyped
    /\ typed' = typed + 1
    /\ Send(s, Item("input", s, page[s].rev, typed + 1))
    /\ UNCHANGED <<socket, page, down, claims, runVars, writerVars, deviceVars>>

\* resizeLiveTerminal
PageResize(s, n) ==
    /\ OnPage(s) /\ page[s].yours /\ typed < MaxTyped
    /\ typed' = typed + 1
    /\ Send(s, Item("resize", s, page[s].rev, n))
    /\ UNCHANGED <<socket, page, down, claims, runVars, writerVars, deviceVars>>

\* updateTerminalControl
PageLearns(s) ==
    /\ down[s] # << >>
    /\ page' = [page EXCEPT ![s] = [yours |-> Head(down[s]).yours, rev |-> Head(down[s]).rev,
                                    claiming |-> FALSE]]
    /\ down' = [down EXCEPT ![s] = Tail(down[s])]
    /\ UNCHANGED <<socket, up, claims, typed, runVars, writerVars, deviceVars>>

-----------------------------------------------------------------------------
(* The event loop.  Control of a terminal is of a socket id, which a socket  *)
(* has while the manager holds it; messages of one that it has dropped are   *)
(* handled until its endpoint has seen the close.                            *)

SocketId(s) == IF socket[s] = "open" THEN s ELSE NoSocket

\* Faulty variant: the redraw ends with the smaller size
OpenShrinks(s, fullscreen) ==
    LET redraws == fullscreen /\ ~over /\ writer # "absent"
    IN  /\ socket[s] = "new"
        /\ socket' = [socket EXCEPT ![s] = "open"]
        /\ items' = IF redraws THEN items \o <<Resize(size), Resize(size - 1)>>
                    ELSE items
        /\ UNCHANGED <<page, up, down, claims, typed, runVars, pending, writer, writing,
                       deviceVars>>

\* A socket opens on a page that does not know yet who has control.  A program
\* that uses the full screen is made to draw itself again, by two resizes.
Open(s, fullscreen) ==
    LET redraws == fullscreen /\ ~over /\ writer # "absent"
    IN  /\ socket[s] = "new"
        /\ socket' = [socket EXCEPT ![s] = "open"]
        /\ items' = IF redraws THEN items \o <<Resize(size - 1), Resize(size)>>
                    ELSE items
        /\ UNCHANGED <<page, up, down, claims, typed, runVars, pending, writer, writing,
                       deviceVars>>

\* The manager gives a socket up that is too slow, what it has sent may still
\* arrive ...
Drop(s) ==
    /\ socket[s] = "open"
    /\ socket' = [socket EXCEPT ![s] = "dropped"]
    /\ UNCHANGED <<page, up, down, claims, typed, runVars, writerVars, deviceVars>>

\* ... and its endpoint ends, as does that of a page that leaves
Leave(s) ==
    /\ socket[s] \in {"open", "dropped"}
    /\ socket' = [socket EXCEPT ![s] = "gone"]
    /\ page' = [page EXCEPT ![s] = NoControl]
    /\ up' = [up EXCEPT ![s] = << >>]
    /\ down' = [down EXCEPT ![s] = << >>]
    /\ UNCHANGED <<claims, typed, runVars, writerVars, deviceVars>>

Consume(s) == up' = [up EXCEPT ![s] = Tail(up[s])]

\* Faulty variant of clear_input: what the last tab typed stays queued
ClearInputNot == UNCHANGED <<items, pending>>

\* Faulty variant of clear_input: the sudo password goes as well
ClearInputAll == items' = SelectSeq(items, LAMBDA i : i.kind = "resize") /\ pending' = 0

\* A queue without what was typed
WithoutInput(q) ==
    LET kept[i \in 0..Len(q)] ==
            IF i = 0 THEN << >>
            ELSE IF IsInput(q[i]) THEN kept[i - 1] ELSE Append(kept[i - 1], q[i])
    IN  kept[Len(q)]

\* clear_input
ClearInput == items' = WithoutInput(items) /\ pending' = 0

\* Faulty variant: only the tab that claims is told
ClaimQuiet(s) ==
    /\ up[s] # << >> /\ Head(up[s]).kind = "claim"
    /\ Consume(s)
    /\ IF over
       THEN UNCHANGED <<controller, rev, items, pending, down>>
       ELSE /\ controller' = SocketId(s)
            /\ rev' = rev + 1
            /\ ClearInput
            /\ down' = IF socket[s] = "open"
                       THEN [down EXCEPT ![s] = Append(down[s], [yours |-> TRUE, rev |-> rev + 1])]
                       ELSE down
    /\ UNCHANGED <<socket, page, claims, typed, auth, gate, stopping, over, size, writer,
                   writing, deviceVars>>

\* claim_terminal, and the news of it to every socket of the owner
Claim(s) ==
    /\ up[s] # << >> /\ Head(up[s]).kind = "claim"
    /\ Consume(s)
    /\ IF over
       THEN UNCHANGED <<controller, rev, items, pending, down>>
       ELSE /\ controller' = SocketId(s)
            /\ rev' = rev + 1
            /\ ClearInput
            /\ down' = [t \in Sockets |->
                           IF socket[t] = "open"
                           THEN Append(down[t], [yours |-> t = SocketId(s), rev |-> rev + 1])
                           ELSE down[t]]
    /\ UNCHANGED <<socket, page, claims, typed, auth, gate, stopping, over, size, writer,
                   writing, deviceVars>>

\* Faulty variant: any tab of the owner may type
MayInputAnyTab(s, m) ==
    ~over /\ auth /\ writer # "absent"

\* Faulty variant: input does not wait for sudo
MayInputEarly(s, m) ==
    ~over /\ controller = SocketId(s) /\ rev = m.rev /\ writer # "absent"

\* What terminal_input and terminal_resize ask of a message
MayInput(s, m) ==
    ~over /\ controller = SocketId(s) /\ rev = m.rev /\ auth /\ writer # "absent"

\* terminal_input: refused, or full, or queued
Input(s) ==
    LET m == Head(up[s])
    IN  /\ up[s] # << >> /\ IsInput(m)
        /\ Consume(s)
        /\ IF MayInput(s, m) /\ pending < MaxPending
           THEN items' = Append(items, m) /\ pending' = pending + 1
           ELSE UNCHANGED <<items, pending>>
        /\ UNCHANGED <<socket, page, down, claims, typed, runVars, writer, writing,
                       deviceVars>>

\* terminal_resize
ResizeRun(s) ==
    LET m == Head(up[s])
    IN  /\ up[s] # << >> /\ m.kind = "resize"
        /\ Consume(s)
        /\ size' = IF MayInput(s, m) THEN m.n ELSE size
        /\ items' = IF MayInput(s, m) THEN Append(items, Resize(m.n)) ELSE items
        /\ UNCHANGED <<socket, page, down, claims, typed, controller, rev, auth, gate, stopping,
                       over, pending, writer, writing, deviceVars>>

\* Faulty variant: Ctrl+C waits its turn
CancelQueued ==
    /\ ~over /\ auth /\ ~stopping
    /\ stopping' = TRUE
    /\ items' = Append(items, Interrupt)
    /\ UNCHANGED <<pageVars, controller, rev, auth, gate, over, size, pending, writer, writing,
                   deviceVars>>

\* cancel of a run that takes input: Ctrl+C first
Cancel ==
    /\ ~over /\ auth /\ ~stopping
    /\ stopping' = TRUE
    /\ items' = <<Interrupt>> \o items
    /\ UNCHANGED <<pageVars, controller, rev, auth, gate, over, size, pending, writer,
                   writing, deviceVars>>

-----------------------------------------------------------------------------
(* The run *)

StartWriter ==
    /\ writer = "absent" /\ ~over
    /\ writer' = "idle"
    /\ UNCHANGED <<pageVars, runVars, items, pending, writing, deviceVars>>

\* sudo asks, and gets the password through the writer
AskPassword ==
    /\ writer # "absent" /\ ~over /\ ~auth
    /\ gate = "waiting"
    /\ gate' = "asked"
    /\ items' = Append(items, Password)
    /\ UNCHANGED <<pageVars, controller, rev, auth, stopping, over, size, pending, writer,
                   writing, deviceVars>>

\* The gate passes, after the password or without one, or there is no gate
PassGate ==
    /\ writer # "absent" /\ ~over /\ ~auth
    /\ gate = "waiting" \/ Contains(received, Password)
    /\ auth' = TRUE
    /\ UNCHANGED <<pageVars, controller, rev, gate, stopping, over, size, writerVars, deviceVars>>

\* The channel closes: the command ends, or is stopped
CloseChannel ==
    /\ open
    /\ open' = FALSE
    /\ UNCHANGED <<pageVars, runVars, writerVars, received, pty>>

\* _finish_exec: the session forgets the writer, which takes nothing more from
\* its queue
Finish ==
    /\ ~over
    /\ ~open
    /\ over' = TRUE
    /\ items' = << >> /\ pending' = 0
    /\ UNCHANGED <<pageVars, controller, rev, auth, gate, stopping, size, writer, writing,
                   deviceVars>>

-----------------------------------------------------------------------------
(* The writer thread *)

\* Faulty variant: the bytes of the item taken still count
TakeUncounted ==
    LET item == Head(items)
    IN  /\ writer = "idle" /\ items # << >> /\ ~over
        /\ items' = Tail(items)
        /\ IF item.kind = "resize"
           THEN pty' = (IF open THEN item.n ELSE pty) /\ UNCHANGED <<writer, writing>>
           ELSE writer' = "sending" /\ writing' = <<item>> /\ UNCHANGED pty
        /\ UNCHANGED <<pageVars, runVars, pending, open, received>>

\* Take the next item; a resize is done at once
Take ==
    LET item == Head(items)
    IN  /\ writer = "idle" /\ items # << >> /\ ~over
        /\ items' = Tail(items)
        /\ pending' = IF IsInput(item) THEN pending - 1 ELSE pending
        /\ IF item.kind = "resize"
           THEN pty' = (IF open THEN item.n ELSE pty) /\ UNCHANGED <<writer, writing>>
           ELSE writer' = "sending" /\ writing' = <<item>> /\ UNCHANGED pty
        /\ UNCHANGED <<pageVars, runVars, open, received>>

\* The device takes it all
Sent ==
    /\ writer = "sending"
    /\ open
    /\ received' = received \o writing
    /\ writing' = << >>
    /\ writer' = "idle"
    /\ UNCHANGED <<pageVars, runVars, items, pending, open, pty>>

\* The channel is closed, or the device takes nothing for TERM_WRITE_DEADLINE
\* and the channel is closed for that
SendFails ==
    /\ writer = "sending"
    /\ open' = FALSE
    /\ writing' = << >>
    /\ writer' = "ended"
    /\ UNCHANGED <<pageVars, runVars, items, pending, received, pty>>

WriterEnds ==
    /\ writer = "idle" /\ over
    /\ writer' = "ended"
    /\ UNCHANGED <<pageVars, runVars, items, pending, writing, deviceVars>>

Writer == Take \/ Sent \/ SendFails \/ WriterEnds

-----------------------------------------------------------------------------
Handle(s) == Claim(s) \/ Input(s) \/ ResizeRun(s)

INext ==
    \/ \E s \in Sockets :
          \/ PageClaim(s) \/ PageBlur(s) \/ PageType(s) \/ PageLearns(s)
          \/ \E n \in 1..MaxSize : PageResize(s, n)
          \/ \E fullscreen \in BOOLEAN : Open(s, fullscreen)
          \/ Drop(s) \/ Leave(s)
          \/ Handle(s)
    \/ Cancel
    \/ StartWriter \/ AskPassword \/ PassGate \/ CloseChannel \/ Finish
    \/ Writer

ISpec == IInit /\ [][INext]_inputVars

-----------------------------------------------------------------------------
(* Properties *)

\* What waits to be written was typed by the tab in control, and since its
\* last claim (claim_terminal clears the rest); and the bytes pending are those,
\* so that a full queue has room again once it has been written or cleared.
OnlyControllers ==
    /\ \A i \in 1..Len(items) :
          IsInput(items[i]) => items[i].rev = rev /\ items[i].from = controller
    /\ pending = Cardinality({i \in 1..Len(items) : IsInput(items[i])})

\* The device gets input in the order of the claims it rests on, and within
\* one in the order typed: once anything of a new tab has arrived, nothing of
\* the one before follows.  None of it arrives while sudo may still be asking
\* for the password, and would take it for that.
InOrder ==
    \A i, j \in 1..Len(received) :
        /\ i < j /\ IsInput(received[i]) /\ IsInput(received[j]) =>
               \/ received[i].rev < received[j].rev
               \/ received[i].rev = received[j].rev /\ received[i].n < received[j].n
        /\ received[i].kind = "password" /\ IsInput(received[j]) => i < j

\* When all messages have arrived, a page that takes itself to be in control
\* of a running command is, and at the revision the server expects.
ControlKnown ==
    \A s \in Sockets :
        ~over /\ socket[s] = "open" /\ down[s] = << >> /\ page[s].yours =>
            controller = s /\ rev = page[s].rev

\* The last resize under way gives the device's terminal the size the session
\* remembers, whatever redraws came between.
SizeSettles ==
    LET resizes == {i \in 1..Len(items) : items[i].kind = "resize"}
    IN  open /\ writer # "ended" /\ ~over =>
            size = IF resizes = {} THEN pty ELSE items[Max(resizes)].n

\* A Ctrl+C is the next thing written after what is being written, whatever was
\* typed before it, and a claim does not take it away.
InterruptNext ==
    stopping /\ open /\ writer # "ended" =>
        \/ Interrupt \in Range(writing) \union Range(received)
        \/ items # << >> /\ Head(items) = Interrupt

\* A password sudo waits for is queued, on its way or written, as long as the
\* channel is open: a claim in between does not take it away.
PasswordKept ==
    gate = "asked" /\ open =>
        Password \in Range(items) \union Range(writing) \union Range(received)
=============================================================================
