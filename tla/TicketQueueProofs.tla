------------------------- MODULE TicketQueueProofs -------------------------
(***************************************************************************)
(* The ticket queue never overfills and never hands out what is not there, *)
(* for every size and every order in which its callers are served.         *)
(***************************************************************************)
EXTENDS TicketQueue, FiniteSetTheorems, TLAPS

\* Bounded counts the tickets served; what an order of service may not do is
\* said by their numbers: each was served below its bound, and the bounds
\* only grow.
TicketInv == /\ TypeOK
             /\ putDone \subseteq 1..(Size + Cardinality(getDone))
             /\ getDone \subseteq 1..Cardinality(putDone)

\* A set of tickets drawn so far is finite, and no larger than a bound on its
\* numbers (Queue::Put and Queue::Get draw tickets from 1 up).
LEMMA TicketsFinite ==
  ASSUME NEW n \in Nat, NEW S \in SUBSET (1..n)
  PROVE  IsFiniteSet(S) /\ Cardinality(S) \in Nat /\ Cardinality(S) <= n
<1>1. IsFiniteSet(1..n) /\ Cardinality(1..n) = n
  BY FS_Interval
<1>2. IsFiniteSet(S) /\ Cardinality(S) <= Cardinality(1..n)
  BY <1>1, FS_Subset
<1>3. Cardinality(S) \in Nat
  BY <1>2, FS_CardinalityType
<1> QED
  BY <1>1, <1>2, <1>3

\* Serving one more ticket does not lower the event count of the other side.
LEMMA OneMore ==
  ASSUME NEW n \in Nat, NEW S \in SUBSET (1..n), NEW t \in 1..n
  PROVE  /\ Cardinality(S) \in Nat /\ Cardinality(S \cup {t}) \in Nat
         /\ Cardinality(S) <= Cardinality(S \cup {t})
<1>1. S \cup {t} \in SUBSET (1..n)
  OBVIOUS
<1>2. IsFiniteSet(S \cup {t})
  BY <1>1, TicketsFinite
<1>3. Cardinality(S) <= Cardinality(S \cup {t})
  BY <1>2, FS_Subset
<1> QED
  BY <1>1, <1>3, TicketsFinite

\* Every step keeps the numbers of the tickets served below the event counts.
LEMMA TicketStep ==
  ASSUME Size \in Nat, TicketInv, [Next]_tvars
  PROVE  TicketInv'
<1> USE DEF TicketInv, TypeOK
<1>0. Cardinality(putDone) \in Nat /\ Cardinality(getDone) \in Nat
  BY TicketsFinite
<1>1. CASE DrawPut
  BY <1>0, <1>1 DEF DrawPut
<1>1a. CASE DrawGet
  BY <1>0, <1>1a DEF DrawGet
<1>2. CASE PutAtOnce
  <2>1. Cardinality(putDone) <= Cardinality(putDone \cup {p + 1}) /\ Cardinality(putDone \cup {p + 1}) \in Nat
    <3>1. putDone \in SUBSET (1..(p + 1)) /\ p + 1 \in 1..(p + 1) /\ p + 1 \in Nat
      OBVIOUS
    <3> QED
      BY <3>1, OneMore
  <2> QED
    BY <1>0, <1>2, <2>1 DEF PutAtOnce, PutAllowed
<1>3. CASE GetAtOnce
  <2>1. Cardinality(getDone) <= Cardinality(getDone \cup {g + 1}) /\ Cardinality(getDone \cup {g + 1}) \in Nat
    <3>1. getDone \in SUBSET (1..(g + 1)) /\ g + 1 \in 1..(g + 1) /\ g + 1 \in Nat
      OBVIOUS
    <3> QED
      BY <3>1, OneMore
  <2> QED
    BY <1>0, <1>3, <2>1 DEF GetAtOnce, GetAllowed
<1>4. ASSUME NEW t \in 1..p, ServePut(t) PROVE TicketInv'
  <2>1. Cardinality(putDone) <= Cardinality(putDone \cup {t}) /\ Cardinality(putDone \cup {t}) \in Nat
    BY OneMore
  <2> QED
    BY <1>0, <1>4, <2>1 DEF ServePut, PutAllowed
<1>5. ASSUME NEW t \in 1..g, ServeGet(t) PROVE TicketInv'
  <2>1. Cardinality(getDone) <= Cardinality(getDone \cup {t}) /\ Cardinality(getDone \cup {t}) \in Nat
    BY OneMore
  <2> QED
    BY <1>0, <1>5, <2>1 DEF ServeGet, GetAllowed
<1>6. CASE UNCHANGED tvars
  BY <1>0, <1>6 DEF tvars
<1> QED
  BY <1>1, <1>2, <1>3, <1>4, <1>5, <1>6, <1>1a DEF Next

\* The buffer of a Queue holds between 0 and Size items at every moment, for
\* every Size and every order of its callers (lib/queue.cc:58-79).
THEOREM BufferBounded == ASSUME Size \in Nat PROVE Spec => []Bounded
<1>1. Init => TicketInv
  BY FS_EmptySet DEF Init, TicketInv, TypeOK
<1>2. TicketInv /\ [Next]_tvars => TicketInv'
  BY TicketStep
<1>3. TicketInv => Bounded
  <2> SUFFICES ASSUME TicketInv PROVE Bounded
    OBVIOUS
  <2>1. Cardinality(putDone) \in Nat /\ Cardinality(getDone) \in Nat
    BY TicketsFinite DEF TicketInv, TypeOK
  <2>2. Cardinality(getDone) <= Cardinality(putDone)
    BY <2>1, TicketsFinite DEF TicketInv
  <2>3. Cardinality(putDone) <= Size + Cardinality(getDone)
    <3>1. Size + Cardinality(getDone) \in Nat
      BY <2>1
    <3> QED
      BY <3>1, TicketsFinite DEF TicketInv
  <2> QED
    BY <2>2, <2>3 DEF Bounded
<1> QED
  BY <1>1, <1>2, <1>3, PTL DEF Spec
=============================================================================
