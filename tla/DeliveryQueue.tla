---------------------------- MODULE DeliveryQueue ----------------------------
(***************************************************************************)
(* The hand-off of messages from SSH worker threads to the event loop      *)
(* (delivery_queue.py).  Any thread may push a notice, which goes in at    *)
(* once; a command's worker waits for room for a batch of terminal output. *)
(* The queue's condition lock makes each locked section one step.  The     *)
(* drain task runs on the event loop and can be interrupted by callbacks   *)
(* of the loop, and cancelled, only where it awaits.                       *)
(***************************************************************************)
EXTENDS Integers, Sequences

CONSTANTS
    Workers,      \* worker threads that emit terminal output
    Notice,       \* stands for every other thread that pushes
    Sizes,        \* sizes of messages
    TermBytes,    \* what of the queue's capacity in bytes terminal output may use
    TermItems,    \* the same in items
    MaxBatches,   \* bound: batches a worker emits
    MaxNotices    \* bound: notices pushed

ASSUME DeliveryAssumption ==
    /\ Notice \notin Workers
    /\ Sizes \subseteq Nat /\ Sizes # {}
    /\ TermBytes \in Nat /\ TermItems \in Nat \ {0}
    /\ \A size \in Sizes : size <= TermBytes
    /\ MaxBatches \in Nat /\ MaxNotices \in Nat

Senders == Workers \union {Notice}
Items   == [from: Senders, nr: 0..(MaxBatches + MaxNotices), size: Sizes]

VARIABLES
    queue,
    bytes,
    event,        \* the asyncio event the drain task waits for
    wakeup,       \* a call of event.set is scheduled on the loop
    drain,        \* where the drain task is
    inFlight,     \* the message it is delivering: none or one
    shutdown,     \* _shutdown
    cancelling,   \* a call of task.cancel is scheduled on the loop
    worker,       \* worker[w]: between batches, in push_terminal, or ended
    offered,      \* the batch a worker offers
    current,      \* should_continue: the worker's run still holds its session
    sent,         \* sent[s]: messages of s so far
    handed        \* messages delivered, in order

loopVars == <<event, wakeup, drain, inFlight, handed>>
deliveryVars == <<queue, bytes, loopVars, shutdown, cancelling, worker, offered, current, sent>>

DInit ==
    /\ queue = << >> /\ bytes = 0
    /\ event = FALSE /\ wakeup = FALSE
    /\ drain = "wait" /\ inFlight = << >>
    /\ shutdown = FALSE /\ cancelling = FALSE
    /\ worker = [w \in Workers |-> "idle"]
    /\ offered = [w \in Workers |-> CHOOSE size \in Sizes : TRUE]
    /\ current = [w \in Workers |-> TRUE]
    /\ sent = [s \in Senders |-> 0]
    /\ handed = << >>

\* Faulty variant: only a push onto a queue that is not empty wakes the task
EnqueueWakesLate(item) ==
    /\ queue' = Append(queue, item)
    /\ bytes' = bytes + item.size
    /\ wakeup' = (wakeup \/ queue # << >>)

\* Add a message; only the first one onto an empty queue wakes the task
Enqueue(item) ==
    /\ queue' = Append(queue, item)
    /\ bytes' = bytes + item.size
    /\ wakeup' = (wakeup \/ queue = << >>)

\* push: never waits and looks at no limit; ignored after shutdown
Push(size) ==
    /\ sent[Notice] < MaxNotices
    /\ sent' = [sent EXCEPT ![Notice] = @ + 1]
    /\ IF shutdown THEN UNCHANGED <<queue, bytes, wakeup>>
       ELSE Enqueue([from |-> Notice, nr |-> sent[Notice] + 1, size |-> size])
    /\ UNCHANGED <<event, drain, inFlight, handed, shutdown, cancelling, worker, offered, current>>

\* A worker calls push_terminal with its next batch
Offer(w, size) ==
    /\ worker[w] = "idle"
    /\ sent[w] < MaxBatches
    /\ worker' = [worker EXCEPT ![w] = "offering"]
    /\ offered' = [offered EXCEPT ![w] = size]
    /\ sent' = [sent EXCEPT ![w] = @ + 1]
    /\ UNCHANGED <<queue, bytes, loopVars, shutdown, cancelling, current>>

Stopped(w) == shutdown \/ ~current[w]
Fits(size) == bytes + size <= TermBytes /\ Len(queue) + 1 <= TermItems

\* A turn of push_terminal's loop: room is found ...
Admit(w) ==
    /\ worker[w] = "offering"
    /\ ~Stopped(w)
    /\ Fits(offered[w])
    /\ Enqueue([from |-> w, nr |-> sent[w], size |-> offered[w]])
    /\ worker' = [worker EXCEPT ![w] = "idle"]
    /\ UNCHANGED <<event, drain, inFlight, handed, shutdown, cancelling, offered, current, sent>>

\* Faulty variant: a waiting worker looks only at its own session
GiveUpReplaced(w) ==
    /\ worker[w] = "offering"
    /\ ~current[w]
    /\ worker' = [worker EXCEPT ![w] = "ended"]
    /\ UNCHANGED <<queue, bytes, loopVars, shutdown, cancelling, offered, current, sent>>

\* ... or the run is over, or else it waits, for at most a quarter of a
\* second, and takes another turn
GiveUp(w) ==
    /\ worker[w] = "offering"
    /\ Stopped(w)
    /\ worker' = [worker EXCEPT ![w] = "ended"]
    /\ UNCHANGED <<queue, bytes, loopVars, shutdown, cancelling, offered, current, sent>>

\* The session of a worker that is at it is disconnected or replaced
Replace(w) ==
    /\ worker[w] # "ended"
    /\ current[w]
    /\ current' = [current EXCEPT ![w] = FALSE]
    /\ UNCHANGED <<queue, bytes, loopVars, shutdown, cancelling, worker, offered, sent>>

\* The loop runs the scheduled event.set
SetEvent ==
    /\ wakeup
    /\ wakeup' = FALSE
    /\ event' = TRUE
    /\ UNCHANGED <<queue, bytes, drain, inFlight, handed, shutdown, cancelling, worker, offered,
                   current, sent>>

\* _drain: await self._event.wait()
Wake ==
    /\ drain = "wait"
    /\ event
    /\ drain' = "take"
    /\ UNCHANGED <<queue, bytes, event, wakeup, inFlight, handed, shutdown, cancelling, worker,
                   offered, current, sent>>

\* Faulty variant: the bytes of the message taken stay counted
TakeUncounted ==
    /\ drain = "take"
    /\ IF queue = << >>
       THEN /\ event' = FALSE
            /\ drain' = "wait"
            /\ UNCHANGED <<queue, bytes, inFlight>>
       ELSE /\ inFlight' = <<Head(queue)>>
            /\ queue' = Tail(queue)
            /\ drain' = "deliver"
            /\ UNCHANGED <<bytes, event>>
    /\ UNCHANGED <<wakeup, handed, shutdown, cancelling, worker, offered, current, sent>>

\* Take the first message, or clear the event: one locked section
Take ==
    /\ drain = "take"
    /\ IF queue = << >>
       THEN /\ event' = FALSE
            /\ drain' = "wait"
            /\ UNCHANGED <<queue, bytes, inFlight>>
       ELSE /\ inFlight' = <<Head(queue)>>
            /\ queue' = Tail(queue)
            /\ bytes' = bytes - Head(queue).size
            /\ drain' = "deliver"
            /\ UNCHANGED event
    /\ UNCHANGED <<wakeup, handed, shutdown, cancelling, worker, offered, current, sent>>

\* Faulty variant: the message delivered is not let go
DeliverKeeps(ok) ==
    /\ drain = "deliver"
    /\ handed' = IF ok THEN handed \o inFlight ELSE handed
    /\ drain' = "yield"
    /\ UNCHANGED <<queue, bytes, event, wakeup, inFlight, shutdown, cancelling, worker, offered,
                   current, sent>>

\* self._deliver(msg) returns or raises; then the loop is given a turn
Deliver(ok) ==
    /\ drain = "deliver"
    /\ handed' = IF ok THEN handed \o inFlight ELSE handed
    /\ inFlight' = << >>
    /\ drain' = "yield"
    /\ UNCHANGED <<queue, bytes, event, wakeup, shutdown, cancelling, worker, offered, current,
                   sent>>

Resume ==
    /\ drain = "yield"
    /\ drain' = "take"
    /\ UNCHANGED <<queue, bytes, event, wakeup, inFlight, handed, shutdown, cancelling, worker,
                   offered, current, sent>>

Shutdown ==
    /\ ~shutdown
    /\ shutdown' = TRUE
    /\ cancelling' = TRUE
    /\ UNCHANGED <<queue, bytes, loopVars, worker, offered, current, sent>>

\* The loop runs the scheduled task.cancel: the task ends where it awaits
CancelDrain ==
    /\ cancelling
    /\ drain \in {"wait", "deliver", "yield"}
    /\ cancelling' = FALSE
    /\ drain' = "ended"
    /\ inFlight' = << >>
    /\ UNCHANGED <<queue, bytes, event, wakeup, handed, shutdown, worker, offered, current, sent>>

DrainTask == Wake \/ Take \/ (\E ok \in BOOLEAN : Deliver(ok)) \/ Resume

DNext ==
    \/ \E size \in Sizes : Push(size)
    \/ \E w \in Workers, size \in Sizes : Offer(w, size)
    \/ \E w \in Workers : Admit(w) \/ GiveUp(w) \/ Replace(w)
    \/ SetEvent
    \/ DrainTask
    \/ Shutdown
    \/ CancelDrain

DSpec == DInit /\ [][DNext]_deliveryVars

\* The loop runs its callbacks and its task, and a waiting worker's timeout
\* brings it back
DFairness ==
    /\ WF_deliveryVars(SetEvent)
    /\ WF_deliveryVars(DrainTask)
    /\ WF_deliveryVars(CancelDrain)
    /\ \A w \in Workers : WF_deliveryVars(Admit(w) \/ GiveUp(w))

DLiveSpec == DSpec /\ DFairness

-----------------------------------------------------------------------------
(* Properties *)

\* Every variable stays within its type; a message is in flight exactly while
\* the drain task is delivering.
DTypeOK ==
    /\ queue \in Seq(Items)
    /\ bytes \in Int
    /\ event \in BOOLEAN /\ wakeup \in BOOLEAN
    /\ drain \in {"wait", "take", "deliver", "yield", "ended"}
    /\ inFlight \in Seq(Items) /\ Len(inFlight) = IF drain = "deliver" THEN 1 ELSE 0
    /\ shutdown \in BOOLEAN /\ cancelling \in BOOLEAN
    /\ worker \in [Workers -> {"idle", "offering", "ended"}]
    /\ offered \in [Workers -> Sizes]
    /\ current \in [Workers -> BOOLEAN]
    /\ sent \in [Senders -> 0..(MaxBatches + MaxNotices)]
    /\ handed \in Seq(Items)

\* The bytes of a queue's messages
BytesOf(q) ==
    LET sum[i \in 0..Len(q)] == IF i = 0 THEN 0 ELSE sum[i - 1] + q[i].size
    IN  sum[Len(q)]

\* self.bytes is the size of what is queued, whatever was admitted, taken or
\* dropped: the room terminal output waits for neither leaks nor is invented.
BytesExact == bytes = BytesOf(queue)

\* The drain task never sleeps on a queue that holds messages, although only
\* the first push onto an empty queue wakes it: the wake-up is scheduled from
\* another thread while the task is clearing the same event.
NoLostWakeup == queue # << >> /\ drain = "wait" => event \/ wakeup

\* The queue is the line of Handoff: what is being delivered comes first.
Line == INSTANCE Handoff WITH line <- inFlight \o queue, open <- ~shutdown

ImplementsHandoff == Line!HSpec

\* Whatever is queued is taken out, unless the drain task has been cancelled:
\* delivery goes on after a failed message and after an empty queue.
Drained == []<>(queue = << >> \/ drain = "ended")

\* A worker does not wait in push_terminal for ever: there is room at last,
\* or its run is over, or the server shuts down and nobody makes room any more.
OfferReturns == \A w \in Workers : (worker[w] = "offering") ~> (worker[w] # "offering")
=============================================================================
