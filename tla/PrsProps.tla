------------------------------ MODULE PrsProps ------------------------------
EXTENDS PrsProc, FiniteSets

Sons(e) == {s \in DOMAIN circuit.ex : circuit.ex[s].u = e}
HeapEntries(n) == Cardinality({i \in DOMAIN sim.heap : sim.heap[i].value = n})
Leaf(e) == IF circuit.ex[e].type = "var" THEN sim.val[NodeOf(e)] ELSE Value(sim, e)

(* Whatever the order of events, the counts kept in every vertex of every  *)
(* guard are those of its sons' present values, a node that has an event   *)
(* has it in the heap exactly once, the heap is ordered as heap.c:25-37    *)
(* says, and no assertion fails (propagate_up, prs_step, lib/prs.c).       *)
Incremental ==
  /\ \A e \in DOMAIN circuit.ex : LET type == circuit.ex[e].type  sons == Sons(e)  v(s) == Leaf(s) IN
       CASE type \in {"and", "or"} ->
              /\ sim.ev[e] = Cardinality({s \in sons : Leaf(s) = IF type = "and" THEN F ELSE T})
              /\ sim.evx[e] = Cardinality({s \in sons : Leaf(s) = X})
         [] type = "not" -> \A s \in sons : sim.ev[e] = not_table(Leaf(s))
         [] type \in Dirs -> \A s \in sons : sim.ev[e] = Leaf(s)
         [] OTHER -> TRUE
  /\ \A n \in PrsNode : /\ HeapEntries(n) = Tally(sim.queue[n] # NoEvent)
                         /\ ~sim.exq[n]
  /\ \A i \in 2..Len(sim.heap) : sim.heap[i \div 2].key <= sim.heap[i].key
  /\ ~sim.failed

\* Another node of a ring of n that is, or may be, pulled in direction d.
Excluded(d, n) == \E r \in Range(RingsOf(d, n)) : \E m \in Range(r) \ {n} : sim.val[m] # Pulled(Other(d))

(* When no event is left, no node has the value opposite to the one its    *)
(* only true guard asks for, unless an exclusion ring forbids it: the      *)
(* event that was due has not been lost (lib/prs.c:600-800).               *)
Settled ==
  sim.heap = <<>> =>
    \A n \in Canonical, d \in Dirs :
      (GuardVal(sim, d, n) = T /\ GuardVal(sim, Other(d), n) = F /\ ~Excluded(d, n))
        => sim.val[n] # Pulled(Other(d))

Senders   == {i \in Indices : Ports[i].send}
Receivers == Indices \ Senders

(* Through the handshakes of both sides and the circuit between them, the  *)
(* values received are those sent, in order, once each and never ahead of  *)
(* the sender, however a thread is preempted and however far its time is   *)
(* ahead; and MainLoop never goes to sleep while a sender and a receiver   *)
(* are both suspended in a call (lib/prs_proc.cc:97-365).  The circuit is a *)
(* buffer from the one sender to the one receiver.                         *)
HandshakePromise ==
  \A p \in Senders, c \in Receivers :
    /\ IsPrefix(proc.got[c], proc.sent[p])
    /\ proc.pc = "wait" => ~(proc.port[p].susp /\ proc.port[c].susp)
=============================================================================
