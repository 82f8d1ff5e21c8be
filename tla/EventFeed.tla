------------------------------ MODULE EventFeed ------------------------------
(***************************************************************************)
(* What the watchers of a session are promised about its events.  There is *)
(* one log; an event gets a place at its end, for good and at most once.   *)
(* A watcher is shown places of the log, each at most once until it starts *)
(* afresh.  Nothing else shows: no connection, page, retry or restart.     *)
(***************************************************************************)
EXTENDS Naturals, Sequences

CONSTANTS
    Watchers,  \* who watches
    Events,    \* what may happen
    Places     \* the places of the log

VARIABLES
    log,    \* the events, in order
    shown   \* per watcher, how often it shows each place

Blank == [p \in Places |-> 0]

Init ==
    /\ log = << >>
    /\ shown = [w \in Watchers |-> Blank]

Publish(e) ==
    /\ \A p \in 1 .. Len(log) : log[p] # e
    /\ log' = Append(log, e)
    /\ UNCHANGED shown

(* Events may be delivered together, and in any order.                     *)
Deliver(w, S) ==
    /\ S # {}
    /\ \A p \in S : shown[w][p] = 0
    /\ shown' = [shown EXCEPT ![w] = [p \in Places |-> IF p \in S THEN 1 ELSE @[p]]]
    /\ UNCHANGED log

StartAfresh(w) ==
    /\ shown' = [shown EXCEPT ![w] = Blank]
    /\ UNCHANGED log

Next ==
    \/ \E e \in Events : Publish(e)
    \/ \E w \in Watchers : StartAfresh(w) \/ \E S \in SUBSET (1 .. Len(log)) : Deliver(w, S)

Spec == Init /\ [][Next]_<<log, shown>>
=============================================================================
