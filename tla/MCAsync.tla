------------------------------- MODULE MCAsync -------------------------------
(***************************************************************************)
(* Small instances of the libraries for asynchronous systems.  A behaviour *)
(* runs threads, a circuit, or a circuit with threads around it; the rest  *)
(* does not move.                                                          *)
(***************************************************************************)
EXTENDS ChannelProps, PrsProps

\* Instructions
I(op, ch, n) == [op |-> op, ch |-> ch, n |-> n, chans |-> <<>>]
snd(c) == I("send", c, 0)
rcv(c) == I("recv", c, 0)
del(n) == I("delay", "", n)
do(op) == I(op, "", 1)
sel(cs) == [op |-> "select", ch |-> "", n |-> 0, chans |-> cs]

\* A sender and a receiver at different speeds; the slack varies.
Pair == [a |-> <<snd("c"), del(2), snd("c"), snd("c")>>, b |-> <<rcv("c"), rcv("c"), del(5), rcv("c")>>]
\* A buffer process between them.
Line == [a |-> <<snd("c"), del(3), snd("c")>>, b |-> <<rcv("c"), snd("d"), rcv("c"), snd("d")>>,
         e |-> <<rcv("d"), del(1), rcv("d")>>]
\* Selection among two senders, and a mutex, a condition and a counter.
Choice == [a |-> <<snd("c")>>, b |-> <<del(1), snd("d")>>,
           e |-> <<sel(<<"c", "d">>), rcv("pick"), sel(<<"c", "d">>), rcv("pick")>>]
Monitor == [a |-> <<do("lock"), do("wait"), do("unlock"), do("await")>>,
            b |-> <<do("lock"), do("idle"), do("signal"), do("increment")>>]

Job(prog, order, slack, lat, cycle, traced, fair) ==
  [prog |-> prog, order |-> order, slack |-> slack, lat |-> lat, cycle |-> cycle, traced |-> traced, fair |-> fair]
Two(p, q) == [k \in {"c", "d"} |-> IF k = "c" THEN p ELSE q]
Orders2 == {<<"a", "b">>, <<"b", "a">>}
Orders3 == {<<"a", "b", "e">>, <<"b", "e", "a">>, <<"e", "a", "b">>}

\* A condition may be signalled before anyone waits: no preemption here.
Resting == Job(Monitor, <<"a", "b">>, Two(0, 0), Two(0, 0), Two(0, 0), FALSE, FALSE)
\* The cycle is the latency, or longer: then filled slots delay a message.
TheScenarios ==
  {Job(Pair, o, Two(k, 0), Two(l, 0), Two(c, 0), tr, TRUE) :
     o \in Orders2, k \in 0..2, l \in {0, 3}, c \in {0, 3}, tr \in BOOLEAN}
  \cup {Job(Line, o, Two(k, 1 - k), Two(2, 2), Two(2, 2), tr, TRUE) : o \in Orders3, k \in {0, 1}, tr \in BOOLEAN}
  \cup {Job(Choice, o, Two(0, 0), Two(0, 0), Two(0, 0), tr, TRUE) : o \in Orders3, tr \in BOOLEAN}
  \cup {Resting}

\* The count passes the value awaited without being equal to it.
Jump == [a |-> <<I("await", "", 1)>>, b |-> <<do("idle"), I("increment", "", 2)>>]
Jumping == {Job(Jump, <<"a", "b">>, Two(0, 0), Two(0, 0), Two(0, 0), FALSE, FALSE)}

----------------------------------------------------------------------------
v(n) == [op |-> "var", node |-> n, args |-> <<>>]
no(e) == [op |-> "not", node |-> "", args |-> <<e>>]
both(a, b) == [op |-> "and", node |-> "", args |-> <<a, b>>]
one(a, b) == [op |-> "or", node |-> "", args |-> <<a, b>>]
rule(e, n, d, t) == [kind |-> "rule", expr |-> e, node |-> n, dir |-> d, delay |-> t]
excl(d, ns) == [kind |-> "excl", dir |-> d, nodes |-> ns]
conn(a, b) == [kind |-> "connect", n1 |-> a, n2 |-> b]

CElement == << rule(both(v("a"), v("b")), "c", "up", 1), rule(both(no(v("a")), no(v("b"))), "c", "dn", 1),
               rule(v("c"), "d", "dn", 2), rule(no(v("c")), "d", "up", 2) >>
\* Several rules for one direction, and a connected node.
Gates == << rule(v("a"), "c", "up", 1), rule(both(v("b"), no(v("a"))), "c", "up", 1),
            rule(no(one(v("a"), v("b"))), "c", "dn", 1), rule(v("b"), "d", "dn", 2),
            rule(one(v("a"), v("c")), "d", "dn", 2), rule(both(no(v("c")), no(v("b"))), "d", "up", 1), conn("d", "e") >>
Arbiter == << rule(v("a"), "c", "up", 1), rule(no(v("a")), "c", "dn", 1), rule(v("b"), "d", "up", 2),
              rule(no(v("b")), "d", "dn", 1), excl("up", <<"c", "d">>) >>
\* Both guards may hold.
Clash == << rule(v("a"), "c", "up", 1), rule(v("b"), "c", "dn", 1) >>
\* A one-bit buffer between a, b (the rails sent) and c, d (received).
gate(e, n, d) == rule(e, n, d, 1)
Buffer == << gate(both(no(v("Reset")), both(v("a"), no(v("r")))), "c", "up"), gate(one(v("Reset"), both(no(v("a")), v("r"))), "c", "dn"),
                 gate(both(no(v("Reset")), both(v("b"), no(v("r")))), "d", "up"), gate(one(v("Reset"), both(no(v("b")), v("r"))), "d", "dn"),
                 gate(one(v("c"), v("d")), "e", "up"), gate(both(no(v("c")), no(v("d"))), "e", "dn") >>

TheNetlists == [celement |-> CElement, gates |-> Gates, arbiter |-> Arbiter, clash |-> Clash, buffer |-> Buffer]
TheInputs == [k \in DOMAIN TheNetlists |-> IF k = "buffer" THEN {} ELSE {<<"a", 0>>, <<"b", 0>>, <<"b", 1>>}]
ThePorts == << [send |-> TRUE, d |-> <<"a", "b">>, a |-> <<"e">>], [send |-> FALSE, d |-> <<"r">>, a |-> <<"c", "d">>] >>

----------------------------------------------------------------------------
VARIABLE part
asvars == <<part, chvars, ppvars>>

Parts == {"threads", "circuit", "process"}
Init == /\ part \in Parts
        /\ Start /\ (part # "threads" => job = Resting)
        /\ IF part = "circuit" THEN PrsInit /\ proc = Unstarted ELSE ProcInit
Only(p) == part = p /\ UNCHANGED part
Next == \/ Only("threads") /\ ChNext   /\ UNCHANGED ppvars
        \/ Only("circuit") /\ PrsNext  /\ UNCHANGED <<chvars, proc>>
        \/ Only("process") /\ ProcNext /\ UNCHANGED chvars
\* The fairness of FairChannels.
Turn(t) == Only("threads") /\ t \in Thread /\ Go(t) /\ UNCHANGED ppvars
Spec == Init /\ [][Next]_asvars /\ \A t \in {"a", "b", "e"} : SF_asvars(Turn(t))

(* Every program that cannot deadlock comes to its end: nobody waits for a *)
(* wake-up that was lost by a channel, a selection, a mutex or a condition *)
(* variable (channel.c, mutex.c).  Counters are no part of this: those     *)
(* awaited here are left exactly at the value awaited, see CountsAwaited.  *)
ProgramsEnd == part = "threads" => AllFinish
=============================================================================
