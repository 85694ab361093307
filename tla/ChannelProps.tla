---------------------------- MODULE ChannelProps ----------------------------
(***************************************************************************)
(* Correctness of the asynchronous library.                                *)
(***************************************************************************)
EXTENDS ThreadProps

----------------------------------------------------------------------------
Over(k, log)   == SelectSeq(log, LAMBDA e : e[1] = k)
Messages(log)  == [i \in 1..Len(log) |-> log[i][2]]
\* All that the threads have put on or got from channel k.
Logged(k, logs) == FlattenSeq(SetToSeq({Messages(Over(k, logs[t])) : t \in Thread}))
\* t is in a send on k that is not over.
SendingOn(t, k) == /\ ~Finished(t) /\ Instr(t).op = "send" /\ ChanOf(t) = k
                   /\ rt.phase[t] \in {"passed", "full", "last"} \/ Contains(rt.ch[k].qs, t)
Offered(k) == Logged(k, rt.put) \o SetToSeq({rt.at[t] : t \in {u \in Thread : SendingOn(u, k)}})

\* Messages arrive once each, in order, and never run ahead of the receiver by
\* more than the slack, on plain and on traced channels, whichever side comes
\* first and wherever a thread is preempted (channel.c:503-860).
Promised == INSTANCE BoundedChannels WITH
  Chan <- Channel, slack <- job.slack, in <- [k \in Channel |-> Offered(k)],
  done <- [k \in Channel |-> Len(Logged(k, rt.put))], out <- [k \in Channel |-> Logged(k, rt.got)]
ChannelPromise == Promised!Spec

----------------------------------------------------------------------------
(* Local time.  When and the operators under it say at what time a program *)
(* without selections gets past each instruction, from the program alone.  *)

Uses(t, i, name, k) == job.prog[t][i].op = name /\ job.prog[t][i].ch = k
Number(t, i, name, k) == Cardinality({h \in 1..i : Uses(t, h, name, k)})
\* Where the n-th send or receive on k stands.
Nth(name, k, n) == CHOOSE p \in {<<t, i>> : t \in Thread, i \in 1..9} :
  p[2] <= Len(job.prog[p[1]]) /\ Uses(p[1], p[2], name, k) /\ Number(p[1], p[2], name, k) = n

RECURSIVE When(_, _)
When(t, i) ==
  IF i = 0 THEN 0
  ELSE LET in == job.prog[t][i]
           n  == Number(t, i, in.op, in.ch)
           other(name, m) == Nth(name, in.ch, m)
           own == When(t, i - 1)
           meet(name) == LET p == other(name, n) IN time_max(own, When(p[1], p[2] - 1))
           past(name, m, d) == LET p == other(name, m) IN time_max(own, When(p[1], p[2]) + d)
       IN  CASE in.op = "delay" -> own + in.n
             [] in.op = "send" /\ job.slack[in.ch] = 0 -> meet("recv")
             [] in.op = "recv" /\ job.slack[in.ch] = 0 -> meet("send")
             [] in.op = "send" /\ job.slack[in.ch] > 0 ->
                  IF n > job.slack[in.ch] THEN past("recv", n - job.slack[in.ch], 0) ELSE own
             [] in.op = "recv" /\ job.slack[in.ch] > 0 -> past("send", n, fifodelay(in.ch))
             [] OTHER -> own

Timed(t) == \A i \in 1..Len(job.prog[t]) : job.prog[t][i].op # "select"
Ops(t, name) == SelectSeq([i \in 1..Len(job.prog[t]) |-> i], LAMBDA i : job.prog[t][i].op = name)

\* A channel whose stamps do not depend on when a call runs: its cycle is its
\* latency, so that filled slots cost nothing, or no slot ever counts as filled
\* when a message is stamped, which is so of a plain channel with one slot and
\* of a traced one with none.
Regular(k) == job.cycle[k] = job.lat[k] \/ job.slack[k] = (IF job.traced THEN 0 ELSE 1)

\* On such channels the local times at which messages are sent and received
\* follow from the program alone: neither preemption nor who comes first to a
\* channel changes them (channel.c:503-700, fifodelay and tm).  On all others
\* the overhead of channel.h:35-40 is charged for the slots that are filled
\* when the call runs, and the times do depend on both.
TimesDeterministic ==
  (\A t \in Thread : Timed(t)) /\ (\A k \in Channel : Regular(k)) =>
    \A t \in Thread :
      /\ \A n \in 1..Len(rt.put[t]) : rt.put[t][n][3] = When(t, Ops(t, "send")[n])
      /\ \A n \in 1..Len(rt.got[t]) : rt.got[t][n][3] = When(t, Ops(t, "recv")[n])

\* A counter lets a thread go when it has reached the value awaited: not
\* before, and nobody is left waiting after (count.c:66-109).
Awaited(i, t) == job.prog[t][i].op = "await" => rt.count.n >= job.prog[t][i].n
CountsAwaited ==
  /\ \A t \in Thread : \A i \in 1..(rt.at[t] - 1) : Awaited(i, t)
  /\ \A i \in 1..Len(rt.count.q) : rt.count.n < rt.count.q[i][2]

\* Every program that cannot deadlock comes to its end: nobody waits for a
\* wake-up that was lost.
AllFinish == <>(rt.over /\ \A t \in Thread : Finished(t))
=============================================================================
