------------------------------- MODULE Handoff -------------------------------
(***************************************************************************)
(* What delivery_queue.py promises of the messages that worker threads     *)
(* hand to the event loop: one first-in-first-out line, from which each    *)
(* message is delivered at most once, or dropped if its delivery fails,    *)
(* and into which nothing goes once it is closed.                          *)
(***************************************************************************)
EXTENDS Sequences

CONSTANT Items

VARIABLES
    line,         \* accepted and not yet delivered
    handed,       \* delivered, in order
    open

lineVars == <<line, handed, open>>

HInit ==
    /\ line = << >>
    /\ handed = << >>
    /\ open = TRUE

Accept(item) ==
    /\ open
    /\ line' = Append(line, item)
    /\ UNCHANGED <<handed, open>>

Hand ==
    /\ line # << >>
    /\ line' = Tail(line)
    /\ handed' = Append(handed, Head(line))
    /\ UNCHANGED open

Drop ==
    /\ line # << >>
    /\ line' = Tail(line)
    /\ UNCHANGED <<handed, open>>

CloseLine ==
    /\ open
    /\ open' = FALSE
    /\ UNCHANGED <<line, handed>>

HNext ==
    \/ \E item \in Items : Accept(item)
    \/ Hand
    \/ Drop
    \/ CloseLine

HSpec == HInit /\ [][HNext]_lineVars
=============================================================================
