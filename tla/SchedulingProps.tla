-------------------------- MODULE SchedulingProps --------------------------
(***************************************************************************)
(* What the run-time library promises, stated over Scheduling.             *)
(***************************************************************************)
EXTENDS Scheduling

Gone  == {"absent", "finished"}
Kinds == Gone \cup {"new", "run", "put", "get", "woken", "chk", "saved"}
Alive(t) == at[t].k \notin Gone

\* Every field has its type; slots and counters stay in range.
Pointers   == Task \cup {NULL}
Faults     == {"", "curtask->count >= etime.count", "etime.tasklist == t", "pointer missing from list???",
               "Wakeupcall without an alarm??", "Woke up too early?"}
Schedulers == [head : [Lists -> Pointers], next : [Task -> Pointers], cnt : [Task -> Nat],
               count : [Lists -> Nat], hint : Pointers, cur : Pointers, fault : Faults]
Queues     == [p : Nat, g : Nat, put : 0..(Size - 1), get : 0..(Size - 1),
               putCount : Nat, getCount : Nat]
Places     == [k : Kinds, l : Lists, v : Nat]
Slots      == [0..(Size - 1) -> Nat]
TypeOK ==
  /\ scene \in Scenarios /\ s \in Schedulers /\ at \in [Task -> Places]
  /\ step \in [Workers -> Nat] /\ queue \in Queues /\ slot \in Slots
  /\ alarms \in Seq([ec : Shared, time : Nat])
  /\ saved = <<>> \/ saved = <<File>>
  /\ life \in {1, 2}

\* A task that is created and not finished is in exactly one place: running,
\* or once on one list, that of time or of the event it waits for; any other
\* task is nowhere.  The hint of
\* find_next_task (tasking.cc:106), the splice of advance (264), the removal
\* of the wake-up task (wakeupcall.cc:149) and a restart may lose one.
NoTaskLost ==
  LET on(l) == Range(Waiting(s, l))
  IN  s.fault = "" =>
        /\ ((UNION {on(l) : l \in Lists}) \cup {s.cur}) \ {NULL} = {t \in Task : Alive(t)}
        /\ \A l \in Lists : /\ s.cur \notin on(l)
                           /\ on(l) # {} => s.next[Last(Waiting(s, l))] = NULL
        /\ \A l, m \in Lists : l # m => on(l) \cap on(m) = {}
        /\ \A l \in EC : \A t \in on(l) : at[t].l = l

\* The time list is in the order of time and nobody on it is overdue; a task
\* on another list waits for a count not reached yet, in the order of counts;
\* the hint is a task of the time list (tasking.cc:89-142, 251-277).
Sorted(q) == \A i, j \in 1..Len(q) : i < j => s.cnt[q[i]] <= s.cnt[q[j]]
ListsOrdered ==
  s.fault = "" =>
    /\ \A l \in Lists : Sorted(Waiting(s, l))
    /\ \A l \in Lists : \A i \in 1..Len(Waiting(s, l)) :
         LET c == s.cnt[Waiting(s, l)[i]]
         IN  IF l = Time THEN c >= s.count[Time] ELSE c > s.count[l]
    /\ s.hint # NULL => \E i \in 1..Len(Waiting(s, Time)) : Waiting(s, Time)[i] = s.hint

\* While alarms are pending the wake-up task is due exactly at the first of
\* them, or is firing one: future_advance moves it when the new alarm is the
\* first (wakeupcall.cc:147-152), wakeupcall sleeps until the next (192).
AlarmArmed ==
  (alarms # <<>> /\ s.fault = "") =>
    \/ s.cur = Wake
    \/ /\ s.cnt[Wake] = alarms[1].time
       /\ \A i \in 1..Len(alarms) : alarms[i].time >= s.count[Time]

\* No assertion of tasking.cc or wakeupcall.cc fails, except the one the
\* wake-up task meets when it is the only task left to run.
AssertionsHold ==
  s.fault # "" => /\ s.fault = "Wakeupcall without an alarm??"
                  /\ s.count[Time] = Never /\ s.head[Time] = NULL

\* The buffer holds the items put and not taken, the k-th of them in the slot
\* of its number, and isEmpty and isFull tell the truth in a process that was
\* not restarted (queue.cc:58-89).
SlotsInOrder ==
  LET puts == s.count[GetEC]
      gets == s.count[PutEC] - Size
      itemOf(i) == {k \in (gets + 1)..puts : (k - 1) % Size = i}
  IN  /\ \A i \in 0..(Size - 1) : slot[i] = IF itemOf(i) = {} THEN 0
                                            ELSE CHOOSE k \in itemOf(i) : TRUE
      /\ gets <= puts /\ puts - gets <= Size
      /\ queue.put = puts % Size /\ queue.get = gets % Size
      /\ life = 1 => queue.putCount = puts /\ queue.getCount = gets

\* A task goes on only when what it waited for has come: an event count that
\* reached its value, or the exact time of its pause, never later
\* (await, tasking.cc:218-239).  The wake-up task is the one whose time others
\* change; the pauses of the checkpoint task are not on record.
ResumedWhenDue ==
  [][(s'.cur # s.cur /\ s'.cur \notin {NULL, Wake, Chk} /\ life' = life /\ at'[s'.cur] = at[s'.cur]) =>
       LET a == at[s'.cur]
       IN  IF a.l = Time /\ a.k = "run" THEN s'.count[Time] = a.v ELSE s'.count[a.l] >= a.v]_vars

\* Put and Get are the ticket queue of TicketQueue: a ticket is served once,
\* and only when the event count has reached it.  Restart and the restoring
\* of a checkpoint set the queue back.
Pending(k) == {at[w].v : w \in {x \in Workers : at[x].k = k}}
TQ == INSTANCE TicketQueue WITH p <- queue.p, g <- queue.g,
        putDone <- (1..queue.p) \ Pending("put"), getDone <- (1..queue.g) \ Pending("get")
SetBack == life' # life \/ at'[Chk] # at[Chk]
QueuePromise == TQ!Init /\ [][SetBack \/ TQ!Next \/ UNCHANGED TQ!tvars]_vars

\* A task that waits for a time, or for an event that has come, runs again,
\* unless the process is restarted from a checkpoint and is set back.
Due(w) == Alive(w) /\ s.cur # w /\ (at[w].l = Time \/ s.count[at[w].l] >= at[w].v)
DueTaskRuns == \A w \in Workers : Due(w) ~> s.cur = w \/ (life = 2 /\ at[Chk] = Finished)

----------------------------------------------------------------------------
(* Why these properties hold: the inductive invariant, as far as possible  *)
(* in terms that a checkpoint on file satisfies too: the lists as          *)
(* sequences q, the counts waited for, the event counts and where tasks    *)
(* are suspended.                                                          *)

\* Every task is at most once on a list, lists are in order, and nobody on
\* them is overdue.
OnePlace(q) == \A l, m \in Lists : \A i \in 1..Len(q[l]), j \in 1..Len(q[m]) :
                 q[l][i] = q[m][j] => l = m /\ i = j
InOrder(q, cnt) == \A l \in Lists : \A i, j \in 1..Len(q[l]) :
                     i < j => cnt[q[l][i]] <= cnt[q[l][j]]
Ahead(q, cnt, count) == \A l \in Lists : \A i \in 1..Len(q[l]) :
  IF l = Time THEN cnt[q[l][i]] >= count[Time] ELSE cnt[q[l][i]] > count[l]
Arranged(q, cnt, count) == /\ q \in [Lists -> Seq(Task)]
                           /\ OnePlace(q) /\ InOrder(q, cnt) /\ Ahead(q, cnt, count)

\* The pointers from p on are the list q.
Chained(next, p, q) ==
  /\ p = IF q = <<>> THEN NULL ELSE q[1]
  /\ \A i \in 1..Len(q) : next[q[i]] = IF i = Len(q) THEN NULL ELSE q[i + 1]

ListsSound(sc) ==
  LET q == [l \in Lists |-> Waiting(sc, l)]
  IN  /\ Arranged(q, sc.cnt, sc.count)
      /\ \A l \in Lists : Chained(sc.next, sc.head[l], q[l])
      /\ sc.hint \in Range(q[Time]) \cup {NULL}

\* The tasks on each list.
OnLists(q) == [l \in Lists |-> Range(q[l])]
On(sc)     == OnLists([l \in Lists |-> Waiting(sc, l)])

\* The tasks alive are those on a list and the one that runs.  One on the list
\* of an event count waits for it; one that runs, or is on the time list, has
\* what it waited for, or will have it when its time comes.
Placed(on, cnt, count, cur, pos) ==
  /\ \A l \in Lists : cur \notin on[l]
  /\ \A t \in Task : pos[t].k \notin Gone <=> t = cur \/ \E l \in Lists : t \in on[l]
  /\ \A l \in EC : \A t \in on[l] : pos[t].l = l /\ pos[t].v = cnt[t]
  /\ \A t \in on[Time] : (pos[t].l = Time /\ pos[t].k = "run") => cnt[t] = pos[t].v
  /\ \A t \in on[Time] \cup ({cur} \cap Task) : pos[t].l \in EC => count[pos[t].l] >= pos[t].v

\* What a task of each kind may be suspended in.
Roles(pos) ==
  /\ \A w \in Workers : /\ pos[w].k \in Gone \cup {"new", "run", "put", "get"}
                        /\ pos[w].k = "new" => pos[w].l = Time /\ pos[w].v = 0
                        /\ pos[w].k = "put" => pos[w].l = PutEC
                        /\ pos[w].k = "get" => pos[w].l = GetEC
  /\ pos[Wake].k \in {"absent", "new", "woken"} /\ pos[Wake].l = Time
  /\ pos[Chk].k \in Gone \cup {"new", "chk", "saved"} /\ pos[Chk].l = Time

\* The tickets of the callers inside a call named k, and those served, of the
\* n tickets drawn.
InCall(pos, k)    == {w \in Workers : pos[w].k = k}
Served(pos, k, n) == (1..n) \ {pos[w].v : w \in InCall(pos, k)}

\* A ticket is drawn by one caller; the event counts are the numbers of calls
\* served, each with a ticket below the bound of its time.
Tickets(pos, count, p, g) ==
  LET putDone == Served(pos, "put", p)
      getDone == Served(pos, "get", g)
  IN  /\ {p, g} \subseteq Nat
      /\ \A v, w \in InCall(pos, "put") : pos[w].v \in 1..p /\ (v # w => pos[v].v # pos[w].v)
      /\ \A v, w \in InCall(pos, "get") : pos[w].v \in 1..g /\ (v # w => pos[v].v # pos[w].v)
      /\ count[GetEC] = Cardinality(putDone) /\ count[PutEC] = Size + Cardinality(getDone)
      /\ putDone \subseteq 1..count[PutEC] /\ getDone \subseteq 1..count[GetEC]

\* The ring holds the items put and not taken, each in the slot of its number.
ItemOf(count, i) == {k \in (count[PutEC] - Size + 1)..count[GetEC] : (k - 1) % Size = i}
Ring(count, sl, put, get) ==
  /\ put = count[GetEC] % Size /\ get = (count[PutEC] - Size) % Size
  /\ \A i \in 0..(Size - 1) : IF ItemOf(count, i) = {} THEN sl[i] = 0
                              ELSE ItemOf(count, i) = {sl[i]}

\* A checkpoint is taken by a task that runs, of a state like the present one.
FileSound ==
  LET q     == [l \in Lists |-> File.lists[l].tasks]
      count == [l \in Lists |-> File.lists[l].count]
  IN  /\ File.cnt \in [Task -> Nat] /\ count \in [Lists -> Nat]
      /\ File.at \in [Task -> Places] /\ File.step \in [Workers -> Nat] /\ File.slot \in Slots
      /\ {File.put, File.get} \subseteq 0..(Size - 1)
      /\ Arranged(q, File.cnt, count)
      /\ Placed(OnLists(q), File.cnt, count, Chk, File.at) /\ Roles(File.at)
      /\ Tickets(File.at, count, File.p, File.g)
      /\ Ring(count, File.slot, File.put, File.get)

\* The event counts only count what the two counters of the queue count too.
Counters == life = 1 => /\ queue.putCount = s.count[GetEC]
                        /\ queue.getCount = s.count[PutEC] - Size

SchedulingInv ==
  /\ TypeOK
  /\ s.fault = "" => ListsSound(s) /\ Placed(On(s), s.cnt, s.count, s.cur, at)
  /\ Roles(at) /\ Tickets(at, s.count, queue.p, queue.g)
  /\ Ring(s.count, slot, queue.put, queue.get) /\ Counters
  /\ saved # <<>> => FileSound
  /\ life = 2 => saved # <<>>

\* No state was restored yet.  The next two hold until then: a checkpoint has
\* neither the alarms nor the hint.
Unrestored == life = 1 \/ at[Chk].k # "finished"

\* Alarms are in order, the wake-up task that does not run is due at the first
\* one, and the one that runs is not too early.
AlarmInv ==
  /\ \A i, j \in 1..Len(alarms) : i < j => alarms[i].time <= alarms[j].time
  /\ alarms # <<>> => at[Wake].k = "woken"
  /\ (at[Wake].k = "woken" /\ s.fault = "") =>
       IF s.cur = Wake THEN s.count[Time] >= NextWake(alarms) ELSE s.cnt[Wake] = NextWake(alarms)
  /\ s.fault \in {"", "Wakeupcall without an alarm??"}

\* The hint outlives the restoring of a checkpoint: it has to be a task of the
\* time list restored.
HintFits == (Running(Chk) /\ at[Chk].k = "chk" /\ life = 2) =>
              s.hint \in Range(File.lists[Time].tasks) \cup {NULL}

\* The wake-up task runs first in programs that set alarms, and no task is due
\* when time ends.
WakeFirst == \A sc \in Scenarios :
  (Wake \in Range(sc.boot) \/ \E w \in Workers : \E i \in 1..Len(sc.program[w]) :
                               \E c \in sc.program[w][i] : c[1] = "alarm") => sc.boot[1] = Wake
TimeLeft == s.count[Time] <= Never /\ \A t \in Task \ {Wake} : s.cnt[t] < Never

\* What the proofs assume of a program, beside WakeFirst: the hint never
\* outlives a checkpoint, and time does not run out (tasking.cc:106-109, 177;
\* wakeupcall.cc:192).
ProgramFits == HintFits /\ TimeLeft
=============================================================================
