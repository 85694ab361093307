----------------------------- MODULE ThreadProps -----------------------------
(***************************************************************************)
(* Where the threads of the asynchronous library are.                      *)
(***************************************************************************)
EXTENDS Channels

\* In the selections of some channels: none of the queues has it.
Selecting(t) == rt.susp[t] /\ ~rt.inq[t] /\ rt.cur # t
\* The queues of the system, and who is where without a queue.
Queues == [ready |-> rt.ready, mutex |-> rt.mutex.q, cond |-> rt.cond,
           count |-> [i \in DOMAIN rt.count.q |-> rt.count.q[i][1]]]
Holders == [run |-> {rt.cur}, ended |-> rt.terminated, freed |-> rt.freed, select |-> {t \in Thread : Selecting(t)}]
Spots(t) == {<<n, "">> : n \in {m \in DOMAIN Queues : t \in Range(Queues[m])}}
            \cup {<<n, "">> : n \in {m \in DOMAIN Holders : t \in Holders[m]}}
            \cup {<<"qs", k>> : k \in {c \in Channel : t \in Range(rt.ch[c].qs)}}
            \cup {<<"qr", k>> : k \in {c \in Channel : t \in Range(rt.ch[c].qr)}}

\* No thread is lost and none is in two places: until it is destroyed it runs,
\* is ready once, has ended, or waits in one queue, once; in_readyq, which
\* decides whether a selection wakes a thread, tells the truth (thread.c,
\* channel.c, mutex.c, count.c).
ThreadsPlaced ==
  ~rt.over =>
    /\ \A t \in Thread : /\ \E p \in Spots(t) : Spots(t) = {p}
                         /\ rt.inq[t] <=> t \in Range(rt.ready)
    /\ \A n \in DOMAIN Queues : IsInjective(Queues[n])
    /\ \A k \in Channel : IsInjective(rt.ch[k].qs) /\ IsInjective(rt.ch[k].qr)
=============================================================================
