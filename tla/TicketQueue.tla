---------------------------- MODULE TicketQueue ----------------------------
(***************************************************************************)
(* What the clocked queue of lib/queue.cc promises, whatever the order in  *)
(* which the scheduler runs its callers: a caller of Put or Get draws the  *)
(* next ticket, and is served, at once or later, when the ticket is not    *)
(* above the event count it waits on.  The event count of Put is the size  *)
(* plus the Gets served, that of Get the Puts served.                      *)
(***************************************************************************)
EXTENDS Integers, FiniteSets

CONSTANT Size   \* slots of the ring

VARIABLES p, g,       \* tickets drawn by Put and by Get
          putDone,    \* the Put tickets served
          getDone     \* the Get tickets served
tvars == <<p, g, putDone, getDone>>

Init == p = 0 /\ g = 0 /\ putDone = {} /\ getDone = {}

PutAllowed(t) == t <= Size + Cardinality(getDone)
GetAllowed(t) == t <= Cardinality(putDone)

DrawPut == p' = p + 1 /\ UNCHANGED <<g, putDone, getDone>>
DrawGet == g' = g + 1 /\ UNCHANGED <<p, putDone, getDone>>

ServePut(t) == /\ t \in (1..p) \ putDone /\ PutAllowed(t)
               /\ putDone' = putDone \cup {t}
               /\ UNCHANGED <<p, g, getDone>>

ServeGet(t) == /\ t \in (1..g) \ getDone /\ GetAllowed(t)
               /\ getDone' = getDone \cup {t}
               /\ UNCHANGED <<p, g, putDone>>

\* The caller does not have to wait.
PutAtOnce == /\ PutAllowed(p + 1)
             /\ p' = p + 1 /\ putDone' = putDone \cup {p + 1}
             /\ UNCHANGED <<g, getDone>>

GetAtOnce == /\ GetAllowed(g + 1)
             /\ g' = g + 1 /\ getDone' = getDone \cup {g + 1}
             /\ UNCHANGED <<p, putDone>>

Next == \/ DrawPut \/ DrawGet \/ PutAtOnce \/ GetAtOnce
        \/ \E t \in 1..p : ServePut(t)
        \/ \E t \in 1..g : ServeGet(t)

Spec == Init /\ [][Next]_tvars

TypeOK == /\ p \in Nat /\ g \in Nat
          /\ putDone \subseteq 1..p /\ getDone \subseteq 1..g

(* The buffer never holds more than Size items, and no item is taken that  *)
(* was not put (Queue::Put and Queue::Get, lib/queue.cc:58-79).            *)
Bounded == /\ Cardinality(getDone) <= Cardinality(putDone)
           /\ Cardinality(putDone) <= Size + Cardinality(getDone)
=============================================================================
