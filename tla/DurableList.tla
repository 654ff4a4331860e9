---------------------------- MODULE DurableList ----------------------------
(***************************************************************************)
(* What the device store promises.  An edit that was confirmed is what     *)
(* every later start finds, until a later edit.  An edit that was not      *)
(* confirmed may be found or not: nobody was told that it was saved.       *)
(***************************************************************************)
CONSTANTS Lists,        \* device lists
          Empty,        \* the list of a new installation
          Unavailable   \* nothing is served: stopped, or no copy can be read

VARIABLES confirmed,    \* the last list whose edit was confirmed
          possible,     \* lists of later edits, not confirmed, that may be found
          served        \* the list the server works with

listVars == <<confirmed, possible, served>>

Init ==
    /\ confirmed = Empty
    /\ possible = {}
    /\ served = Unavailable

\* An edit of the list served has reached a copy, and the server works with it
Attempt(list) ==
    /\ served # Unavailable
    /\ served' = list
    /\ possible' = possible \union ({list} \ {confirmed})
    /\ UNCHANGED confirmed

\* The edit the server works with is in every copy
Confirm ==
    /\ served # Unavailable
    /\ confirmed' = served
    /\ possible' = {}
    /\ UNCHANGED served

\* The server starts: it finds the confirmed list or a later one, or nothing
Start ==
    /\ served = Unavailable
    /\ served' \in {confirmed} \union possible
    /\ UNCHANGED <<confirmed, possible>>

\* The server stops, or a copy is lost: what was not confirmed may be gone
Lose ==
    /\ served' \in {served, Unavailable}
    /\ possible' \subseteq possible
    /\ UNCHANGED confirmed

Next == Start \/ Lose \/ Confirm \/ \E list \in Lists : Attempt(list)

Spec == Init /\ [][Next]_listVars
============================================================================
