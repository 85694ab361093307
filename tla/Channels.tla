------------------------------ MODULE Channels ------------------------------
(***************************************************************************)
(* The asynchronous library: threads on one ready queue (lib/contexts.c,   *)
(* thread.c), channels with slack between one sender and one receiver      *)
(* (channel.c), mutexes and condition variables (mutex.c), counters        *)
(* (count.c).  Every thread has a local time.                              *)
(*                                                                         *)
(* Whatever a call does between context_disable and context_enable or      *)
(* context_switch is one step.  All state is in the record rt:             *)
(*   ready, cur      the ready queue, current_process                      *)
(*   inq, time       in_readyq, time of each thread                        *)
(*   at, phase       instruction of each thread, and where in it the       *)
(*                   thread waits ("" when it does not)                    *)
(*   ch              the channels: sendid, recvid, qs, qr, ss, tm, msgbuf  *)
(*   susp, pick      the selqueue_t of each thread, the channel it chose   *)
(*   mutex, cond, count                                                    *)
(*   terminated, freed, over   terminated_process, threads destroyed, exit *)
(*   put, got        what each thread has sent and received, for the       *)
(*                   properties: <<channel, message, local time>>          *)
(***************************************************************************)
EXTENDS Integers, Sequences, FiniteSets, SequencesExt

CONSTANTS Scenarios,   \* see Start
          Channel

NoThread == "none"

\* How programs use the library.  A receive on "pick" is on the channel that
\* the selection before it has chosen.
Sends(prog, t, k) == \E i \in DOMAIN prog[t] : prog[t][i].op = "send" /\ prog[t][i].ch = k
Receives(prog, t, k) ==
  \E i \in DOMAIN prog[t] : \/ prog[t][i].op = "recv" /\ prog[t][i].ch = k
                            \/ prog[t][i].op = "select" /\ k \in Range(prog[t][i].chans)
Awaits(prog, t) == \E i \in DOMAIN prog[t] : prog[t][i].op = "await"
WellFormed(ins) ==
  \A n \in DOMAIN ins :
    /\ ins[n].op = "send" => ins[n].ch \in Channel
    /\ ins[n].op = "recv" => ins[n].ch \in Channel \cup {"pick"}
    /\ ins[n].op = "select" => ins[n].ch # "pick" /\ ins[n].chans \in Seq(Channel)
    /\ ins[n].ch = "pick" => n - 1 \in DOMAIN ins /\ ins[n - 1].op = "select"

AtMostOne(ts) == \A t, u \in ts : t = u

\* A channel has one sender and one receiver (ch_t names them, channel.h), a
\* counter one thread that awaits it.
ASSUME ChannelNames == "pick" \notin Channel /\ "" \notin Channel
ASSUME ProgramsUse ==
  \A j \in Scenarios : LET all == DOMAIN j.prog IN
    /\ NoThread \notin all
    /\ j.order \in Seq(all) /\ j.order # <<>> /\ IsInjective(j.order) /\ Range(j.order) = all
    /\ \A t \in all : j.prog[t] \in Seq(Range(j.prog[t])) /\ WellFormed(j.prog[t])
    /\ \A k \in Channel : /\ AtMostOne({t \in all : Sends(j.prog, t, k)})
                          /\ AtMostOne({t \in all : Receives(j.prog, t, k)})
    /\ AtMostOne({t \in all : Awaits(j.prog, t)})

VARIABLES job,   \* the scenario: prog, order, slack, lat, cycle, traced, fair
          rt
chvars == <<job, rt>>

Thread == DOMAIN job.prog
Instr(t) == job.prog[t][rt.at[t]]
Finished(t) == rt.at[t] > Len(job.prog[t])

time_max(a, b) == IF a > b THEN a ELSE b
Distance(c) == IF c.sendid >= c.recvid THEN c.sendid - c.recvid ELSE c.recvid - c.sendid

----------------------------------------------------------------------------
(* Threads.  The operators take a state and give the next one.             *)

Wake(x, t) == [x EXCEPT !.ready = Append(@, t), !.inq[t] = TRUE]
WakeAll(x, ts) == [x EXCEPT !.ready = @ \o ts, !.inq = [t \in Thread |-> @[t] \/ t \in Range(ts)]]

\* context_switch (context_select ()): when nothing is ready the program ends,
\* whoever waits.  A thread that has ended is freed by the next one.
SwitchKeepingHead(x) ==   \* the thread chosen stays in the queue
  IF x.ready = <<>> THEN [x EXCEPT !.cur = NoThread, !.over = TRUE]
  ELSE [x EXCEPT !.cur = Head(x.ready)]
Switch(x) ==
  IF x.ready = <<>>
  THEN [x EXCEPT !.cur = NoThread, !.over = TRUE, !.freed = @ \cup x.terminated, !.terminated = {}]
  ELSE [x EXCEPT !.cur = Head(x.ready), !.ready = Tail(@), !.inq[Head(x.ready)] = FALSE,
                 !.freed = @ \cup x.terminated, !.terminated = {}]

Block(x, t, where) == Switch([x EXCEPT !.phase[t] = where])
Done(x, t) == [x EXCEPT !.phase[t] = "", !.at[t] = @ + 1]

\* thread_idle, and what an interrupt does at the end of a time slice
context_timeout(x) == Switch(Wake(x, x.cur))
context_exit(x)    == Switch([x EXCEPT !.terminated = {x.cur}])

----------------------------------------------------------------------------
(* Channels.                                                               *)

Place(n, k) == n % (job.slack[k] + 1)
sendslot(x, k)  == Place(x.ch[k].sendid, k)
nextslot(x, k)  == Place(x.ch[k].sendid + 1, k)
recvslot(x, k)  == Place(x.ch[k].recvid, k)
fifodelay(k)    == job.slack[k] * job.lat[k]
delay(c, k)     == Distance(c) * (job.cycle[k] - job.lat[k]) + fifodelay(k)

\* The time of t is at least that of the slot, which is then set from it.
Meet(x, t, k, i) == [x EXCEPT !.time[t] = time_max(@, x.ch[k].tm[i])]
Stamp(x, k, i, v) == [x EXCEPT !.ch[k].tm[i] = v]
Both(x, t, u, k) == IF job.slack[k] # 0 THEN x
                    ELSE [x EXCEPT !.time[t] = time_max(x.time[t], x.time[u]), !.time[u] = time_max(x.time[t], x.time[u])]

Sent(x, t, k, m)     == [x EXCEPT !.put[t] = Append(@, <<k, m, x.time[t]>>)]
Received(x, t, k, m) == [x EXCEPT !.got[t] = Append(@, <<k, m, x.time[t]>>)]

SELECTION_skipped(x, k) == [x EXCEPT !.ch[k].ss = <<>>]   \* clears the list, wakes nobody
\* DO_SELECTION: whoever waits in a selection on the channel looks again.
DO_SELECTION(x, k) ==
  LET ss == x.ch[k].ss
      again[n \in 0..Len(ss)] ==
        IF n = 0 THEN <<>>
        ELSE LET t == ss[n] IN IF x.susp[t] /\ ~x.inq[t] /\ t \notin Range(again[n - 1])
                               THEN Append(again[n - 1], t) ELSE again[n - 1]
  IN  WakeAll([x EXCEPT !.ch[k].ss = <<>>], again[Len(ss)])

\* The time of a message sent by t, and of the slot it goes to.
StampSend(x, t, k) == LET y == Meet(x, t, k, nextslot(x, k))
                      IN  Stamp(y, k, sendslot(x, k), y.time[t] + delay(x.ch[k], k))
StampRecv(x, t, k) == LET y == Meet(x, t, k, recvslot(x, k)) IN Stamp(y, k, recvslot(x, k), y.time[t])
Fill(x, k, m) == [x EXCEPT !.ch[k].msgbuf[sendslot(x, k)] = m]

\* _ch_fsend, _ch_fsendul: the message is passed to a waiting receiver.
fsend(x0, t, k, m) ==
  LET x == Fill(x0, k, m)
      r == Head(x.ch[k].qr)
      y == Both(StampSend(x, t, k), t, r, k)
      z == StampRecv(Wake([y EXCEPT !.ch[k].qr = <<>>], r), r, k)
  IN  IF x.ch[k].qr # <<>>
      THEN Sent(Received(Done([z EXCEPT !.ch[k].recvid = @ + 1, !.ch[k].sendid = @ + 1], t), r, k, m), t, k, m)
      ELSE IF Distance(x.ch[k]) = job.slack[k]
      THEN Block(DO_SELECTION([x EXCEPT !.ch[k].qs = <<t>>], k), t, "sending")
      ELSE LET w == StampSend(x, t, k) IN Sent(Done([w EXCEPT !.ch[k].sendid = @ + 1], t), t, k, m)

\* _ch_frecv, _ch_frecvul: a waiting sender is let go, its message takes the
\* place of the one received.
frecvNoStamp(x, t, k) ==   \* the released sender keeps its time
  LET m == x.ch[k].msgbuf[recvslot(x, k)]
      u == Head(x.ch[k].qs)
      y == Both(StampRecv(x, t, k), t, u, k)
      z == Wake([y EXCEPT !.ch[k].qs = <<>>, !.ch[k].recvid = @ + 1], u)
      v == Stamp(z, k, sendslot(z, k), z.time[u] + delay(z.ch[k], k))
  IN  IF x.ch[k].qs # <<>>
      THEN Sent(Received(Done([v EXCEPT !.ch[k].sendid = @ + 1], t), t, k, m), u, k, v.ch[k].msgbuf[sendslot(v, k)])
      ELSE IF x.ch[k].sendid = x.ch[k].recvid
      THEN Block(DO_SELECTION([x EXCEPT !.ch[k].qr = <<t>>], k), t, "receiving")
      ELSE LET w == StampRecv(x, t, k) IN Received(Done([w EXCEPT !.ch[k].recvid = @ + 1], t), t, k, m)
frecv(x, t, k) ==
  LET m == x.ch[k].msgbuf[recvslot(x, k)]
      u == Head(x.ch[k].qs)
      y == Both(StampRecv(x, t, k), t, u, k)
      z == Wake([y EXCEPT !.ch[k].qs = <<>>, !.ch[k].recvid = @ + 1], u)
      v == StampSend(z, u, k)
  IN  IF x.ch[k].qs # <<>>
      THEN Sent(Received(Done([v EXCEPT !.ch[k].sendid = @ + 1], t), t, k, m), u, k, v.ch[k].msgbuf[sendslot(v, k)])
      ELSE IF x.ch[k].sendid = x.ch[k].recvid
      THEN Block(DO_SELECTION([x EXCEPT !.ch[k].qr = <<t>>], k), t, "receiving")
      ELSE LET w == StampRecv(x, t, k) IN Received(Done([w EXCEPT !.ch[k].recvid = @ + 1], t), t, k, m)

\* The traced channels, _ch_tsend and _ch_trecv: each side does its own part
\* and hands over to the other one.  The thread at the end of the call lets a
\* waiting partner go.
Release(x, k, q) == IF x.ch[k][q] = <<>> THEN x ELSE Wake([x EXCEPT !.ch[k][q] = <<>>], Head(x.ch[k][q]))
Wait(x, t, k, q, where) == Block([x EXCEPT !.ch[k][q] = Append(@, t)], t, where)

CountSend(x, k) == [x EXCEPT !.ch[k].sendid = @ + 1]
CountRecv(x, t, k, i) == Received([x EXCEPT !.ch[k].recvid = @ + 1], t, k, x.ch[k].msgbuf[i])

tsend(x0, t, k, m) ==
  LET x == Fill(x0, k, m)
      r == Head(x.ch[k].qr)
      y == Both(StampSend(x, t, k), t, r, k)
  IN  IF x.ch[k].qr # <<>> THEN Wait(Release(y, k, "qr"), t, k, "qs", "passed")
      ELSE IF Distance(x.ch[k]) = job.slack[k]
      THEN Block(DO_SELECTION([x EXCEPT !.ch[k].qs = <<t>>], k), t, "full")
      ELSE Sent(Done(Release(CountSend(StampSend(x, t, k), k), k, "qr"), t), t, k, m)

\* ... after the switch
tsend_back_early(x, t, k, m) ==   \* does not wait for the receiver that took its place
  IF x.phase[t] = "full" THEN Sent(Done(CountSend(StampSend(x, t, k), k), t), t, k, m)
  ELSE Sent(Done(Release(CountSend(x, k), k, "qr"), t), t, k, m)
tsend_back(x, t, k, m) ==
  IF x.phase[t] = "passed" THEN Sent(Done(Release(CountSend(x, k), k, "qr"), t), t, k, m)
  ELSE IF x.phase[t] = "full"
  THEN LET y == CountSend(StampSend(x, t, k), k)
       IN  IF y.ch[k].qr = <<>> THEN Sent(Done(y, t), t, k, m)
           ELSE Wait(Release(y, k, "qr"), t, k, "qs", "last")
  ELSE Sent(Done(x, t), t, k, m)

trecv(x, t, k) ==
  LET u == Head(x.ch[k].qs)
      y == Both(StampRecv(x, t, k), t, u, k)
  IN  IF x.ch[k].qs # <<>> THEN Wait(Release(y, k, "qs"), t, k, "qr", "taken")
      ELSE IF x.ch[k].sendid = x.ch[k].recvid
      THEN Block(DO_SELECTION([x EXCEPT !.ch[k].qr = <<t>>], k), t, "empty")
      ELSE Done(Release(CountRecv(StampRecv(x, t, k), t, k, recvslot(x, k)), k, "qs"), t)

trecv_back(x, t, k) ==
  IF x.phase[t] = "taken" THEN Done(Release(CountRecv(x, t, k, recvslot(x, k)), k, "qs"), t)
  ELSE IF x.phase[t] = "empty"
  THEN LET y == CountRecv(StampRecv(x, t, k), t, k, recvslot(x, k))
       IN  IF y.ch[k].qs = <<>> THEN Done(y, t) ELSE Wait(Release(y, k, "qs"), t, k, "qr", "last")
  ELSE Done(x, t)

----------------------------------------------------------------------------
(* Selection among receives.                                               *)

ch_rprobe(x, k) == x.ch[k].sendid # x.ch[k].recvid \/ x.ch[k].qs # <<>>
ch_linksel(x, t, ks) ==
  [x EXCEPT !.ch = [k \in Channel |-> IF k \in ks THEN [x.ch[k] EXCEPT !.ss = Append(@, t)] ELSE x.ch[k]]]
ch_clearsel(x, t) == [x EXCEPT !.ch = [k \in Channel |-> [x.ch[k] EXCEPT !.ss = RemoveFirst(@, t)]],
                               !.susp[t] = FALSE, !.pick[t] = ""]

\* The probe that succeeds moves the time of the thread up to that of the
\* message.
ch_selectprobe(x, t, k) ==
  LET since == IF x.ch[k].sendid = x.ch[k].recvid THEN x.time[Head(x.ch[k].qs)] ELSE x.ch[k].tm[recvslot(x, k)]
  IN  [x EXCEPT !.time[t] = time_max(@, since), !.pick[t] = k]

----------------------------------------------------------------------------
(* Mutexes, condition variables, counters.                                 *)

mutex_lock(x, t) ==
  IF x.mutex.busy THEN Block([x EXCEPT !.mutex.q = Append(@, t)], t, "locking")
  ELSE Done([x EXCEPT !.mutex.busy = TRUE], t)

\* An unlock of a mutex that is not locked ends the program, exit (1).
Locked(x, y) == IF x.mutex.busy THEN y ELSE [x EXCEPT !.over = TRUE, !.cur = NoThread]
mutex_unlock_safe(x) ==
  LET y == [x EXCEPT !.mutex.busy = FALSE]
  IN  IF x.mutex.q = <<>> THEN y ELSE Wake([y EXCEPT !.mutex.q = Tail(@)], Head(x.mutex.q))
mutex_unlock(x, t) == Locked(x, Done(mutex_unlock_safe(x), t))

cond_wait(x, t) == Locked(x, Block([mutex_unlock_safe(x) EXCEPT !.cond = Append(@, t)], t, "waiting"))
\* The mutex stays with the thread that is woken.
cond_signal(x, t) == IF x.cond = <<>> THEN mutex_unlock(x, t)
                     ELSE Done(Wake([x EXCEPT !.cond = Tail(@)], Head(x.cond)), t)

count_await(x, t, v) ==
  IF x.count.n < v THEN Block([x EXCEPT !.count.q = Append(@, <<t, v>>)], t, "awaiting") ELSE Done(x, t)

\* The first waiter whose value is not below the count is woken (the opposite
\* of count_await, see CountsAwaited); putting it in the ready queue ends its
\* list, so those behind it are no longer on it.
count_increment(x, n) ==
  LET y == [x EXCEPT !.count.n = @ + n]
      fits == {i \in 1..Len(y.count.q) : y.count.q[i][2] >= y.count.n}
      i == CHOOSE j \in fits : \A h \in fits : j <= h
  IN  IF n = 0 \/ fits = {} THEN y
      ELSE Wake([y EXCEPT !.count.q = SubSeq(@, 1, i - 1)], y.count.q[i][1])

----------------------------------------------------------------------------
EmptyChannel(k, slack) ==
  [sendid |-> 0, recvid |-> 0, qs |-> <<>>, qr |-> <<>>, ss |-> <<>>,
   tm |-> [i \in 0..slack |-> 0], msgbuf |-> [i \in 0..slack |-> 0]]

\* The threads are created in some order; simulate starts the first one.
Start == \E j \in Scenarios : LET all(v) == [t \in DOMAIN j.prog |-> v] IN
  /\ job = j
  /\ rt = [ready |-> Tail(j.order), cur |-> Head(j.order), inq |-> [all(TRUE) EXCEPT ![Head(j.order)] = FALSE],
          time |-> all(0), at |-> all(1), phase |-> all(""),
          ch |-> [k \in Channel |-> EmptyChannel(k, j.slack[k])],
          susp |-> all(FALSE), pick |-> all(""),
          mutex |-> [busy |-> FALSE, q |-> <<>>], cond |-> <<>>, count |-> [n |-> 0, q |-> <<>>],
          terminated |-> {}, freed |-> {}, over |-> FALSE, put |-> all(<<>>), got |-> all(<<>>)]

Runs(t, phases) == rt.cur = t /\ ~Finished(t) /\ rt.phase[t] \in phases /\ UNCHANGED job
Op(t, name) == Runs(t, {""}) /\ Instr(t).op = name
ChanOf(t) == IF Instr(t).ch = "pick" THEN rt.pick[t] ELSE Instr(t).ch

\* A message is the number of the instruction that sends it.
Send(t) == Op(t, "send") /\ rt' = IF job.traced THEN tsend(rt, t, ChanOf(t), rt.at[t]) ELSE fsend(rt, t, ChanOf(t), rt.at[t])
Recv(t) == Op(t, "recv") /\ rt' = IF job.traced THEN trecv(rt, t, ChanOf(t)) ELSE frecv(rt, t, ChanOf(t))

\* The statement as chp2c++ would emit it around the probes: the first guard
\* that is true is taken, or the thread waits in the selections of all the
\* channels and looks again.
Select(t) ==
  /\ Op(t, "select")
  /\ LET x  == ch_clearsel(rt, t)
         ks == Instr(t).chans
         open == {i \in DOMAIN ks : ch_rprobe(x, ks[i])}
     IN  rt' = IF open # {} THEN Done(ch_selectprobe(x, t, ks[Min(open)]), t)
               ELSE Switch([ch_linksel(x, t, Range(ks)) EXCEPT !.susp[t] = TRUE])

Lock(t)   == Op(t, "lock")   /\ rt' = mutex_lock(rt, t)
Unlock(t) == Op(t, "unlock") /\ rt' = mutex_unlock(rt, t)
CondWait(t) == Op(t, "wait") /\ rt' = cond_wait(rt, t)
Signal(t) == Op(t, "signal") /\ rt' = cond_signal(rt, t)
Await(t)  == Op(t, "await")  /\ rt' = count_await(rt, t, Instr(t).n)
Increment(t) == Op(t, "increment") /\ rt' = Done(count_increment(rt, Instr(t).n), t)
Delay(t)  == Op(t, "delay")  /\ rt' = Done([rt EXCEPT !.time[t] = @ + Instr(t).n], t)
Idle(t)   == Op(t, "idle")   /\ rt' = context_timeout(Done(rt, t))
Exit(t)   == rt.cur = t /\ Finished(t) /\ rt' = context_exit(rt) /\ UNCHANGED job

\* The thread goes on behind its context_switch.
Back(t) ==
  \/ /\ Runs(t, {"passed", "full", "last", "taken", "empty"})
     /\ rt' = IF Instr(t).op = "send" THEN tsend_back(rt, t, ChanOf(t), rt.at[t]) ELSE trecv_back(rt, t, ChanOf(t))
  \/ Runs(t, {"sending", "receiving", "waiting", "awaiting"}) /\ rt' = Done(rt, t)
  \/ Runs(t, {"locking"}) /\ rt' = Done([rt EXCEPT !.mutex.busy = TRUE], t)

\* interrupt_handler outside critical sections, or at the end of one.
Preempt(t) == job.fair /\ rt.cur = t /\ rt' = context_timeout(rt) /\ UNCHANGED job

Go(t) == \/ Send(t) \/ Recv(t) \/ Select(t) \/ Back(t)
         \/ Lock(t) \/ Unlock(t) \/ CondWait(t) \/ Signal(t) \/ Await(t) \/ Increment(t)
         \/ Delay(t) \/ Idle(t) \/ Exit(t)
ChNext == \E t \in Thread : Go(t) \/ Preempt(t)

\* A time slice is longer than a call: the timer goes off twice before an
\* interrupt preempts (contexts.c:112-128).
ChSpec == Start /\ [][ChNext]_chvars
FairChannels == ChSpec /\ \A t \in UNION {DOMAIN j.prog : j \in Scenarios} : SF_chvars(t \in Thread /\ Go(t))
=============================================================================
