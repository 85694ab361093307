------------------------------ MODULE PrsProc ------------------------------
(***************************************************************************)
(* A circuit as a process, lib/prs_proc.cc: threads send and receive       *)
(* values through dual-rail ports, and the thread of the process plays the *)
(* environment's half of the four-phase handshake on the circuit's nodes,  *)
(* whenever a node it watches changes, a thread calls, or nothing is left  *)
(* to simulate.  One thread uses each port (two would trip the assertions  *)
(* of _Handshake).                                                         *)
(*                                                                         *)
(* proc is a record                                                        *)
(*   pc, k        where MainLoop is: "init" before it starts, "reset" of   *)
(*                port k and then "next", "clear" before each prs_cycle,   *)
(*                "cycle", "check" after it, "wait", or "stopped"          *)
(*   seen         the node prs_cycle returned, "" for none                 *)
(*   stop         PRS_STOP_SIMULATION                                      *)
(*   port[i]      state, va, data, ahead (the caller's time, from now),    *)
(*                susp: a thread is suspended in a call                    *)
(*   calls        how often the thread of each port has called             *)
(*   sent, got    what the threads of each port sent and received          *)
(* MainLoop may be preempted between any two steps (FAIR): prs_step leaves *)
(* interrupts enabled.  It may be also within a pass over the ports that   *)
(* has ended a handshake; such a call is taken to come after the pass.     *)
(***************************************************************************)
EXTENDS Prs

CONSTANTS Ports,      \* sequence of records [send, d, a]: the nodes set and watched
          ProcNet,    \* the netlist
          Bits,       \* the values sent
          Ahead,      \* how far a caller's time may be ahead of the circuit's
          MaxCalls_p  \* bound: calls of each thread

VARIABLE proc
ppvars == <<prsvars, proc>>

Indices == DOMAIN Ports
Rails(p) == Len(p.d) \div 2
SetNow(x, n, v, t) == prs_set_nodetime(x, canonical_name(circuit, n), v, t)
SetAll(x, ns, v) == FoldLeft(LAMBDA y, n : SetNow(y, n, v, 0), x, ns)
ValueOf(x, n) == x.val[canonical_name(circuit, n)]

\* DRSendPort: data rails d, acknowledges a, both count up.  DRRecvPort: the
\* rails are watched, and d, the acknowledges, is low when it is active.
ta(p) == IF p.send THEN Len(p.a) ELSE Len(p.a) \div 2
dr_set_data_zero(x, p) == SetAll(x, p.d, IF p.send THEN F ELSE T)

BitOf(v, i) == (v \div 2^i) % 2
dr_val_to_chan(x, p, q) ==
  LET one(y, i) == SetNow(SetNow(y, p.d[2 * i + 1], IF BitOf(q.data, i) = 1 THEN F ELSE T, q.ahead + 1),
                       p.d[2 * i + 2], IF BitOf(q.data, i) = 1 THEN T ELSE F, q.ahead + 1)
  IN  IF q.state = "data0" THEN FoldLeft(one, x, [i \in 1..Rails(p) |-> i - 1]) ELSE SetAll(x, p.d, F)

\* A bit is one if its first rail is false.
ReadRails(x, p) == FoldLeft(LAMBDA v, i : v + (IF ValueOf(x, p.a[2 * i - 1]) = F THEN 2^(i - 1) ELSE 0),
                            0, [i \in 1..(Len(p.a) \div 2) |-> i])
dr_chan_to_val(x, p, q) == SetAll(x, p.d, IF q.state = "data1" THEN T ELSE F)

\* _PendingEvent: the main loop has something to do for the port.
_PendingEvent(i, q) == \/ q.state \in {"data0", "data1"}
                       \/ q.state = "wait0" /\ q.va = ta(Ports[i])
                       \/ q.state = "wait1" /\ q.va = 0

\* A mutant: the sender goes on without waiting for the acknowledge to fall.
MechanicsEarly(x, i, q) ==
  LET p == Ports[i]
      y == IF p.send THEN dr_val_to_chan(x, p, q) ELSE dr_chan_to_val(x, p, q)
  IN  CASE q.state = "data0" -> [sim |-> y, q |-> [q EXCEPT !.state = "wait0"]]
        [] q.state = "wait0" -> [sim |-> x, q |-> [q EXCEPT !.state = "data1"]]
        [] q.state = "data1" -> [sim |-> y, q |-> [q EXCEPT !.state = "idle", !.susp = FALSE,
                                                            !.data = IF p.send THEN @ ELSE ReadRails(x, p)]]
        [] OTHER -> [sim |-> x, q |-> [q EXCEPT !.state = "idle", !.susp = FALSE]]

_HandshakeMechanics(x, i, q) ==
  LET p == Ports[i]
      y == IF p.send THEN dr_val_to_chan(x, p, q) ELSE dr_chan_to_val(x, p, q)
  IN  CASE q.state = "data0" -> [sim |-> y, q |-> [q EXCEPT !.state = "wait0"]]
        [] q.state = "wait0" -> [sim |-> x, q |-> [q EXCEPT !.state = "data1"]]
        [] q.state = "data1" -> [sim |-> y, q |-> [q EXCEPT !.state = "wait1",
                                                            !.data = IF p.send THEN @ ELSE ReadRails(x, p)]]
        [] OTHER -> [sim |-> x, q |-> [q EXCEPT !.state = "idle", !.susp = FALSE]]

\* update: a node that became unknown ends the program.
update(x, q, n) == [q EXCEPT !.va = IF ValueOf(x, n) = T THEN @ + 1 ELSE IF ValueOf(x, n) = F THEN @ - 1 ELSE @]

----------------------------------------------------------------------------
(* The threads that use the ports.                                         *)

\* _Handshake: the thread starts a handshake and wakes the main loop, or
\* stops prs_cycle, and suspends itself.
_Handshake(i, v, t) ==
  /\ proc.port[i].state = "idle" /\ ~proc.port[i].susp
  /\ proc' = [proc EXCEPT !.port[i] = [@ EXCEPT !.state = "data0", !.data = v, !.ahead = t, !.susp = TRUE],
                          !.pc = IF @ = "wait" THEN "clear" ELSE @,
                          !.stop = @ \/ proc.pc # "wait",
                          !.sent[i] = IF Ports[i].send THEN Append(@, v) ELSE @,
                          !.calls[i] = @ + 1]
  /\ UNCHANGED prsvars

CallPort == \E i \in Indices, t \in Ahead, v \in Bits :
  /\ proc.calls[i] < MaxCalls_p /\ proc.pc # "stopped"
  /\ ~Ports[i].send => v = 0
  /\ _Handshake(i, v, t)

----------------------------------------------------------------------------
(* MainLoop.                                                               *)

At_pc(pcs) == proc.pc \in pcs /\ UNCHANGED <<net, circuit>>

\* A caller's time comes nearer as the circuit's advances.
Later(q, ticks) == [q EXCEPT !.ahead = IF @ > ticks THEN @ - ticks ELSE 0]
ProcStep == sim' = prs_step(sim)
Passed == [i \in Indices |-> Later(proc.port[i], sim.heap[1].key)]

\* prs_cycle, one event at a time, in the constructor and during the reset; it
\* is left early if a thread has called since MainLoop started.
Silent == At_pc({"init", "reset"}) /\ sim.heap # <<>>
          /\ ProcStep
          /\ proc' = [proc EXCEPT !.port = Passed, !.pc = IF proc.stop /\ @ = "reset" THEN "next" ELSE @]

\* The reset of the next port or, with no node of a port unknown, the end of it.
Nodes_p == UNION {Range(Ports[i].d) \cup Range(Ports[i].a) : i \in Indices}
NextReset ==
  /\ At_pc({"init", "reset", "next"}) /\ (proc.pc # "next" => sim.heap = <<>>)
  /\ IF proc.k < Len(Ports)
     THEN /\ sim' = dr_set_data_zero(sim, Ports[proc.k + 1])
          /\ proc' = [proc EXCEPT !.pc = "reset", !.k = @ + 1, !.stop = @ /\ proc.pc # "init"]
     ELSE /\ sim' = SetNow(sim, "Reset", F, 0)
          /\ proc' = [proc EXCEPT !.pc = IF \E n \in Nodes_p : ValueOf(sim, n) = X THEN "stopped" ELSE "clear"]

Clear == At_pc({"clear"}) /\ proc' = [proc EXCEPT !.pc = "cycle", !.stop = FALSE] /\ UNCHANGED sim

Watched(n) == \E i \in Indices : \E a \in Range(Ports[i].a) : canonical_name(circuit, a) = n

\* prs_cycle returns at a watched node, when a thread has called, and when
\* there is nothing left.
Cycle ==
  /\ At_pc({"cycle"})
  /\ \/ /\ sim.heap = <<>>
        /\ proc' = [proc EXCEPT !.pc = "check", !.seen = ""]
        /\ UNCHANGED sim
     \/ LET n == sim.heap[1].value
        IN  /\ sim.heap # <<>>
            /\ ProcStep
            /\ proc' = [proc EXCEPT !.seen = n, !.port = Passed,
                                    !.pc = IF Watched(n) \/ proc.stop THEN "check" ELSE @]

\* One pass over the ports; without anything done after the circuit has come
\* to rest, the thread waits.
Check ==
  LET seen(q, a) == IF canonical_name(circuit, a) = proc.seen THEN update(sim, q, a) ELSE q
      act(r, i) == IF _PendingEvent(i, r.port[i])
                   THEN LET h == _HandshakeMechanics(r.sim, i, r.port[i])
                        IN  [sim |-> h.sim, port |-> [r.port EXCEPT ![i] = h.q], acted |-> TRUE]
                   ELSE r
      node(i, r, a) == act([r EXCEPT !.port[i] = seen(@, a)], i)
      ports(r, i) == IF proc.seen = "" THEN act(r, i)
                     ELSE FoldLeft(LAMBDA s, a : node(i, s, a), r, Ports[i].a)
      r == FoldLeft(ports, [sim |-> sim, port |-> proc.port, acted |-> FALSE], [i \in Indices |-> i])
      back == {i \in Indices : proc.port[i].susp /\ ~r.port[i].susp /\ ~Ports[i].send}
      bad  == proc.seen # "" /\ sim.val[proc.seen] = X /\ Watched(proc.seen)
  IN  /\ At_pc({"check"})
      /\ sim' = r.sim
      /\ proc' = [proc EXCEPT !.port = r.port, !.seen = "",
                    !.got = [i \in Indices |-> IF i \in back THEN Append(@[i], r.port[i].data) ELSE @[i]],
                    !.pc = IF bad THEN "stopped" ELSE IF proc.seen = "" /\ ~r.acted THEN "wait" ELSE "clear"]

Unstarted ==
  [pc |-> "init", k |-> 0, seen |-> "", stop |-> FALSE,
   port |-> [i \in Indices |-> [state |-> "idle", va |-> 0, data |-> 0, ahead |-> 0, susp |-> FALSE]],
   calls |-> [i \in Indices |-> 0], sent |-> [i \in Indices |-> <<>>], got |-> [i \in Indices |-> <<>>]]
ProcInit == /\ net = ProcNet /\ circuit = Circuits[net]
            /\ sim = SetNow(Powered, "Reset", T, 0) /\ proc = Unstarted

ProcNext == CallPort \/ Silent \/ NextReset \/ Clear \/ Cycle \/ Check
=============================================================================
