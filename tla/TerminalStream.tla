--------------------------- MODULE TerminalStream ---------------------------
(***************************************************************************)
(* The output of one run on its way to the pages of the session's owner,   *)
(* and the acknowledgements on their way back (emit in ssh_manager.py,     *)
(* terminal_control.py, and the live terminal of static/index.html).       *)
(*                                                                         *)
(* Output leaves the worker in numbered batches, each of which goes into   *)
(* the run's history and then into the delivery queue, from which the loop *)
(* copies it to every socket.  A page that loads or reconnects is given    *)
(* the history in its init frame.  The worker reads no more of the device  *)
(* while more than MaxUnacked batches await an acknowledgement.  The       *)
(* session keeps its slot here; batches count one each; the history keeps  *)
(* every line.                                                             *)
(***************************************************************************)
EXTENDS Integers, SequencesExt

CONSTANTS
    Pages,        \* browser tabs of the owner
    MaxUnacked,   \* TERM_UNACKED_MAX_BYTES
    MaxSeq,       \* bound: batches the command puts out
    MaxConnects   \* bound: sockets opened

ASSUME StreamAssumption ==
    /\ MaxUnacked \in Nat
    /\ MaxSeq \in Nat
    /\ MaxConnects \in Nat

VARIABLES
    at,           \* where the worker is
    seq,          \* the batch it is at
    hist,         \* sess.history: the last batch fed to it
    sent,         \* sess.sent_seq
    acked,        \* sess.acked_seq
    unacked,      \* the batches in sess.sent_bytes
    stalled,      \* sess.ack_stalled
    stopping,     \* sess.cancelled
    line,         \* the delivery queue (DeliveryQueue)
    on,           \* on[p]: page p has a socket
    wire,         \* wire[p]: frames queued or under way on that socket
    acks,         \* acks[p]: acknowledgements under way on it
    page,         \* page[p]: its terminal for the run, and what it shows besides
    connects      \* sockets opened so far

workerVars == <<at, seq, hist>>
ackVars == <<sent, acked, unacked, stalled>>
pageVars == <<on, wire, acks, page, connects>>
streamVars == <<workerVars, ackVars, stopping, line, pageVars>>

Frame(kind, n) == [kind |-> kind, seq |-> n]

\* A page: the batches among the rows of its console, and its live terminal
\* below them with the batches in it (last is lastSeq, confirmed ackSentSeq)
NoTerminal == [rows |-> << >>, live |-> FALSE, last |-> -1, confirmed |-> -1, text |-> << >>]

SInit ==
    /\ at = "start" /\ seq = 1 /\ hist = 0
    /\ sent = 0 /\ acked = 0 /\ unacked = {} /\ stalled = FALSE
    /\ stopping = FALSE
    /\ line = << >>
    /\ on = [p \in Pages |-> FALSE]
    /\ wire = [p \in Pages |-> << >>]
    /\ acks = [p \in Pages |-> << >>]
    /\ page = [p \in Pages |-> NoTerminal]
    /\ connects = 0

-----------------------------------------------------------------------------
(* The run's worker *)

\* send_start
StartRun ==
    /\ at = "start"
    /\ line' = Append(line, Frame("start", 0))
    /\ at' = "wait"
    /\ UNCHANGED <<seq, hist, ackVars, stopping, pageVars>>

Watching == \E p \in Pages : on[p]
MayRead  == stopping \/ ~Watching \/ stalled \/ Cardinality(unacked) <= MaxUnacked

\* _wait_for_terminal_ack lets the next batch through ...
WaitOver ==
    /\ at = "wait"
    /\ seq <= MaxSeq
    /\ MayRead
    /\ at' = "feed"
    /\ UNCHANGED <<seq, hist, ackVars, stopping, line, pageVars>>

\* Faulty variant: nothing ends a wait for a page that does not answer
StallNever == FALSE /\ UNCHANGED streamVars

\* ... or has waited TERM_ACK_STALL_SECONDS for an acknowledgement
Stall ==
    /\ at = "wait"
    /\ seq <= MaxSeq
    /\ ~MayRead
    /\ stalled' = TRUE
    /\ at' = "feed"
    /\ UNCHANGED <<seq, hist, sent, acked, unacked, stopping, line, pageVars>>

\* Faulty variant: the history is a batch behind what is pushed
FeedLags ==
    /\ at = "feed"
    /\ hist' = seq - 1
    /\ at' = "push"
    /\ UNCHANGED <<seq, ackVars, stopping, line, pageVars>>

\* emit: into the history, under the device lock ...
Feed ==
    /\ at = "feed"
    /\ hist' = seq
    /\ at' = "push"
    /\ UNCHANGED <<seq, ackVars, stopping, line, pageVars>>

\* ... then to the delivery queue, which has room sooner or later ...
PushBatch ==
    /\ at = "push"
    /\ line' = Append(line, Frame("data", seq))
    /\ at' = "note"
    /\ UNCHANGED <<seq, hist, ackVars, stopping, pageVars>>

\* ... and only then is it noted as sent
NoteSent ==
    /\ at = "note"
    /\ sent' = seq
    /\ unacked' = unacked \union {seq}
    /\ seq' = seq + 1
    /\ at' = "wait"
    /\ UNCHANGED <<hist, acked, stalled, stopping, line, pageVars>>

\* The command is over
EndRun ==
    /\ at = "wait"
    /\ line' = Append(line, Frame("end", 0))
    /\ at' = "finish"
    /\ UNCHANGED <<seq, hist, ackVars, stopping, pageVars>>

\* _finish_exec: the run is over for the server, and its history gone
FinishRun ==
    /\ at = "finish"
    /\ at' = "over"
    /\ UNCHANGED <<seq, hist, ackVars, stopping, line, pageVars>>

Stop ==
    /\ at # "over"
    /\ ~stopping
    /\ stopping' = TRUE
    /\ UNCHANGED <<workerVars, ackVars, line, pageVars>>

-----------------------------------------------------------------------------
(* The event loop *)

\* Copy a message to every socket of the owner
DeliverFrame ==
    /\ line # << >>
    /\ line' = Tail(line)
    /\ wire' = [p \in Pages |-> IF on[p] THEN Append(wire[p], Head(line)) ELSE wire[p]]
    /\ UNCHANGED <<workerVars, ackVars, stopping, on, acks, page, connects>>

\* A socket opens, of a page that is loaded or of one that lost its socket.
\* owner_terminal_snapshot takes all that was sent as acknowledged; the frame
\* carries the history, or nothing once the run is over.
Connect(p, loaded) ==
    /\ ~on[p]
    /\ connects < MaxConnects
    /\ connects' = connects + 1
    /\ on' = [on EXCEPT ![p] = TRUE]
    /\ wire' = [wire EXCEPT ![p] = <<Frame("init", IF at = "over" THEN -1 ELSE hist)>>]
    /\ page' = IF loaded THEN [page EXCEPT ![p] = NoTerminal] ELSE page
    /\ IF at # "over" /\ sent > acked
       THEN acked' = sent /\ unacked' = {} /\ stalled' = FALSE
       ELSE UNCHANGED <<acked, unacked, stalled>>
    /\ UNCHANGED <<workerVars, sent, stopping, line, acks>>

Disconnect(p) ==
    /\ on[p]
    /\ on' = [on EXCEPT ![p] = FALSE]
    /\ wire' = [wire EXCEPT ![p] = << >>]
    /\ acks' = [acks EXCEPT ![p] = << >>]
    /\ UNCHANGED <<workerVars, ackVars, stopping, line, page, connects>>

\* terminal_ack
ReceiveAck(p) ==
    LET n == Head(acks[p])
    IN  /\ acks[p] # << >>
        /\ acks' = [acks EXCEPT ![p] = Tail(acks[p])]
        /\ IF at # "over" /\ n <= sent /\ n > acked
           THEN /\ acked' = n
                /\ stalled' = FALSE
                /\ unacked' = {k \in unacked : k > n}
           ELSE UNCHANGED <<acked, unacked, stalled>>
        /\ UNCHANGED <<workerVars, sent, stopping, line, on, wire, page, connects>>

-----------------------------------------------------------------------------
(* The page *)

Upto(n) == [i \in 1..n |-> i]

\* foldLiveTerminal: what the terminal shows becomes rows of the console
Fold(t) == [NoTerminal EXCEPT !.rows = t.rows \o t.text]

\* restoreLiveTerminal: the history as rows, below them a new terminal, and the
\* history confirmed.  A terminal that was there goes with what it showed, the
\* rows above it stay.
Restore(t, n) ==
    [t EXCEPT !.rows = t.rows \o Upto(n), !.live = TRUE, !.last = n, !.confirmed = n, !.text = << >>]

\* Faulty variant: a terminal that is there already is kept as it is
RebuildKeeps(t, n) ==
    IF n = -1 THEN Fold(t)
    ELSE IF t.live THEN t
    ELSE Restore(t, n)

\* rebuildLiveTerminals, for the history up to batch n
Rebuild(t, n) ==
    IF n = -1 THEN Fold(t)
    ELSE IF t.live /\ t.last >= n THEN t
    ELSE Restore(t, n)

\* startLiveTerminal
StartLive(t) == [Fold(t) EXCEPT !.live = TRUE]

\* Faulty variant: a batch is shown whatever came before it
WriteAny(t, n) ==
    IF t.live THEN [t EXCEPT !.last = n, !.text = Append(t.text, n)] ELSE t

\* writeTerminalData
Write(t, n) ==
    IF t.live /\ n > t.last THEN [t EXCEPT !.last = n, !.text = Append(t.text, n)] ELSE t

Receive(p) ==
    LET f == Head(wire[p])
        t == page[p]
        u == CASE f.kind = "init"  -> Rebuild(t, f.seq)
               [] f.kind = "start" -> StartLive(t)
               [] f.kind = "data"  -> Write(t, f.seq)
               [] f.kind = "end"   -> Fold(t)
    IN  /\ wire[p] # << >>
        /\ wire' = [wire EXCEPT ![p] = Tail(wire[p])]
        /\ page' = [page EXCEPT ![p] = u]
        /\ acks' = IF u.confirmed > t.confirmed
                   THEN [acks EXCEPT ![p] = Append(acks[p], u.confirmed)] ELSE acks
        /\ UNCHANGED <<workerVars, ackVars, stopping, line, on, connects>>

\* acknowledgeTerminalWrite: what has been drawn is confirmed, several batches
\* at once if they are drawn within 50 ms
Confirm(p, n) ==
    /\ on[p]
    /\ page[p].live
    /\ page[p].confirmed < n /\ n <= page[p].last
    /\ page' = [page EXCEPT ![p].confirmed = n]
    /\ acks' = [acks EXCEPT ![p] = Append(acks[p], n)]
    /\ UNCHANGED <<workerVars, ackVars, stopping, line, on, wire, connects>>

-----------------------------------------------------------------------------
Worker == StartRun \/ WaitOver \/ Stall \/ Feed \/ PushBatch \/ NoteSent \/ FinishRun

SNext ==
    \/ Worker \/ EndRun \/ Stop
    \/ DeliverFrame
    \/ \E p \in Pages :
          \/ \E loaded \in BOOLEAN : Connect(p, loaded)
          \/ Disconnect(p) \/ ReceiveAck(p) \/ Receive(p)
          \/ \E n \in 1..MaxSeq : Confirm(p, n)

SSpec == SInit /\ [][SNext]_streamVars

\* The worker, the loop and the network go on; a page need not draw
SFairness ==
    /\ WF_streamVars(Worker)
    /\ WF_streamVars(DeliverFrame)
    /\ \A p \in Pages : WF_streamVars(Receive(p))

SLiveSpec == SSpec /\ SFairness

-----------------------------------------------------------------------------
(* Properties *)

\* A console with a live terminal ends with the run's output from its first
\* batch to the last received, each once and in order, however the page was
\* loaded, reconnected or overtaken by frames queued before its snapshot.
NoGap ==
    \A p \in Pages : page[p].live => IsSuffix(Upto(page[p].last), page[p].rows \o page[p].text)

\* While the run goes on, a connected page whose frames have all arrived shows
\* everything that has been noted as sent: a socket opened at any moment misses
\* nothing between the history it is given and the batches that follow.
CaughtUp ==
    \A p \in Pages :
        on[p] /\ wire[p] = << >> /\ line = << >> /\ at \notin {"start", "finish", "over"} =>
            page[p].live /\ (sent > 0 => page[p].last >= sent)

\* No page can stop a command for good by not drawing its output: the worker
\* goes on as soon as there is room, nobody watches, or it has waited long
\* enough.
ReadGoesOn == (at = "wait" /\ seq <= MaxSeq) ~> (at # "wait")

\* Whatever was sent reaches every page that stays connected.
Reaches ==
    \A p \in Pages, n \in 1..MaxSeq :
        (on[p] /\ sent >= n) ~> (~on[p] \/ at \in {"finish", "over"} \/ page[p].last >= n)
=============================================================================
