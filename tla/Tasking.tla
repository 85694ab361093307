------------------------------ MODULE Tasking ------------------------------
(***************************************************************************)
(* The task library of lib/tasking.cc: tasks linked on the list of the     *)
(* event count they wait for, one list per event count and one, etime's,   *)
(* for time.  The lists are the pointers of the code, not sequences,       *)
(* because the insertion into the time list may start at the remembered    *)
(* task "hint" instead of at the head.                                     *)
(*                                                                         *)
(* A scheduler state is a record                                           *)
(*   head[l]   first task of list l          (eventcount.tasklist)         *)
(*   next[t]   successor of task t           (task.tasklist)               *)
(*   cnt[t]    value task t waits for        (task.count)                  *)
(*   count[l]  current value of event l; count[Time] is the clock          *)
(*   hint      last task inserted inside the time list, or NULL            *)
(*   cur       the running task, NULL once the process has exited          *)
(*   fault     the assertion that failed, "" as long as none did           *)
(* and an operation maps a state to a state; the operators are named for   *)
(* the functions they translate.                                           *)
(***************************************************************************)
EXTENDS Integers, Sequences, FiniteSets, SequencesExt

CONSTANTS Task,      \* every task structure the process ever has
          EC,        \* the event counts other than etime
          Time,      \* etime
          NULL

ASSUME TaskingAssumption == NULL \notin Task /\ Time \notin EC /\ IsFiniteSet(Task)

Lists == EC \cup {Time}

(* The tasks reached from p, p first, by following the list pointers; no   *)
(* list has more tasks than there are.                                     *)
Follow(next, p) ==
  LET walk[n \in 0..Cardinality(Task)] ==
        [t \in Task \cup {NULL} |-> IF n = 0 \/ t = NULL THEN <<>>
                                   ELSE <<t>> \o walk[n - 1][next[t]]]
  IN  walk[Cardinality(Task)][p]

Waiting(s, l) == Follow(s.next, s.head[l])

(* Where a loop that walks the tasks q stops: at the last task before the  *)
(* first one, other than the task it starts from, that is in S.            *)
Stop(q, S) == Min({i \in 1..Len(q) : i = Len(q) \/ q[i + 1] \in S})

(* The while loop of find_next_task: from p on, the last task before the   *)
(* first one whose count is greater than v.                                *)
InsertAfter(s, p, v) == LET q == Follow(s.next, p)
                        IN  q[Stop(q, {t \in Task : v < s.cnt[t]})]

(* A mutant: the hint is used whatever the value to insert. *)
HintUnchecked(s, l, v) ==
  LET h  == s.head[l]
      p  == InsertAfter(s, IF l = Time /\ s.hint # NULL THEN s.hint ELSE h, v)
      in == IF h = NULL \/ v < s.cnt[h]
            THEN [s EXCEPT !.head[l] = s.cur, !.next[s.cur] = h]
            ELSE [s EXCEPT !.next = [@ EXCEPT ![p] = s.cur, ![s.cur] = s.next[p]],
                           !.hint = IF l = Time THEN s.cur ELSE @]
  IN  [in EXCEPT !.cnt[s.cur] = v]

(* First half of find_next_task: put the running task on list l.           *)
SaveCurrent(s, l, v) ==
  LET h     == s.head[l]
      start == IF l = Time /\ s.hint # NULL /\ v >= s.cnt[s.hint] THEN s.hint ELSE h
      p     == InsertAfter(s, start, v)
      in    == IF h = NULL \/ v < s.cnt[h]
               THEN [s EXCEPT !.head[l] = s.cur, !.next[s.cur] = h]
               ELSE [s EXCEPT !.next = [@ EXCEPT ![p] = s.cur, ![s.cur] = s.next[p]],
                              !.hint = IF l = Time THEN s.cur ELSE @]
  IN  [in EXCEPT !.cnt[s.cur] = v]

(* A mutant: the clock is not set to the time of the next task. *)
DispatchKeepingTime(s) ==
  LET c == s.head[Time]
  IN  IF c = NULL THEN [s EXCEPT !.cur = NULL, !.hint = NULL]
      ELSE [s EXCEPT !.cur = c, !.head[Time] = s.next[c],
                     !.hint = IF @ = c THEN NULL ELSE @]

(* A mutant: the hint still names the task that goes on to run. *)
DispatchKeepingHint(s) ==
  LET c == s.head[Time]
  IN  IF c = NULL THEN [s EXCEPT !.cur = NULL, !.hint = NULL]
      ELSE [s EXCEPT !.cur = c, !.head[Time] = s.next[c], !.count[Time] = s.cnt[c]]

(* Second half: run the first task of the time list at its time; without   *)
(* one the process exits.                                                  *)
Dispatch(s) ==
  LET c == s.head[Time]
  IN  IF c = NULL THEN [s EXCEPT !.cur = NULL, !.hint = NULL]
      ELSE [s EXCEPT !.cur = c, !.head[Time] = s.next[c], !.count[Time] = s.cnt[c],
                     !.hint = IF @ = c THEN NULL ELSE @]

FindNextTask(s, l, v) ==
  LET in == SaveCurrent(s, l, v)
      c  == in.head[Time]
  IN  IF c # NULL /\ in.cnt[c] < in.count[Time]
      THEN [in EXCEPT !.fault = "curtask->count >= etime.count"]
      ELSE Dispatch(in)

Await(s, l, v) == IF s.count[l] >= v THEN s ELSE FindNextTask(s, l, v)

(* epause's shortcut: nobody on the time list is due before the caller, so *)
(* it goes on running and only the clock moves.                            *)
Epause(s, n) ==
  LET h == s.head[Time]
      v == s.count[Time] + n
  IN  IF h = NULL \/ v <= s.cnt[h] THEN [s EXCEPT !.count[Time] = v]
      ELSE Await(s, Time, v)

(* The waiters whose count is reached move, in their order, to the front   *)
(* of the time list, due now.  The first is compared with <=, the others   *)
(* with =.                                                                 *)
Reached(s, p, c) == LET q == Follow(s.next, p)
                    IN  SubSeq(q, 1, Stop(q, {t \in Task : s.cnt[t] # c}))

(* A mutant: the moved waiters keep the count they waited for. *)
MoveKeepingCount(s, l, woken) ==
  [s EXCEPT !.next[Last(woken)] = s.head[Time],
            !.head = [@ EXCEPT ![Time] = woken[1], ![l] = s.next[Last(woken)]]]

(* A mutant: the rest of the time list is dropped when waiters are moved. *)
MoveDroppingTimeList(s, l, woken) ==
  [s EXCEPT !.cnt = [t \in Task |-> IF t \in Range(woken) THEN s.count[Time] ELSE @[t]],
            !.next[Last(woken)] = NULL,
            !.head = [@ EXCEPT ![Time] = woken[1], ![l] = s.next[Last(woken)]]]

MoveToTime(s, l, woken) ==
  [s EXCEPT !.cnt = [t \in Task |-> IF t \in Range(woken) THEN s.count[Time] ELSE @[t]],
            !.next[Last(woken)] = s.head[Time],
            !.head = [@ EXCEPT ![Time] = woken[1], ![l] = s.next[Last(woken)]]]

Advance(s, l) ==
  LET up == [s EXCEPT !.count[l] = @ + 1]
      h  == s.head[l]
  IN  IF h = NULL \/ s.cnt[h] > up.count[l] THEN up
      ELSE MoveToTime(up, l, Reached(up, h, up.count[l]))

CreateTask(s, t) ==
  [s EXCEPT !.cnt[t] = s.count[Time], !.next[t] = s.head[Time], !.head[Time] = t]

RemoveLastTask(s, t) ==
  IF s.head[Time] # t THEN [s EXCEPT !.fault = "etime.tasklist == t"]
  ELSE [s EXCEPT !.head[Time] = s.next[t], !.next[t] = NULL]

(* remove_cell and sorted_insert_cell of lib/wakeupcall.cc on a task list:  *)
(* a task is inserted before those of its own time.                        *)
Before(s, p, t) == LET q == Follow(s.next, p) IN q[Stop(q, {t})]

RemoveTask(s, t) ==
  IF t \notin Range(Waiting(s, Time)) THEN [s EXCEPT !.fault = "pointer missing from list???"]
  ELSE IF s.head[Time] = t THEN [s EXCEPT !.head[Time] = s.next[t]]
  ELSE [s EXCEPT !.next[Before(s, s.head[Time], t)] = s.next[t]]

LastSooner(s, p, v) == LET q == Follow(s.next, p)
                       IN  q[Stop(q, {t \in Task : s.cnt[t] >= v})]

SortedInsertTask(s, t) ==
  LET h == s.head[Time]
      p == LastSooner(s, h, s.cnt[t])
  IN  IF h = NULL \/ s.cnt[h] >= s.cnt[t]
      THEN [s EXCEPT !.next[t] = h, !.head[Time] = t]
      ELSE [s EXCEPT !.next = [@ EXCEPT ![t] = s.next[p], ![p] = t]]

(* SaveQueueState and RestoreQueueState of lib/checkpoint.cc, the latter   *)
(* for the queues of all lists: their tasks are linked again, in order.    *)
SaveQueueState(s, l) == [count |-> s.count[l], tasks |-> Waiting(s, l)]

Successor(q, t) == LET i == CHOOSE i \in 1..Len(q) : q[i] = t
                   IN  IF i = Len(q) THEN NULL ELSE q[i + 1]

RestoreQueueStates(s, lists) ==
  LET on(t) == {l \in Lists : t \in Range(lists[l].tasks)}
  IN  [s EXCEPT !.count = [l \in Lists |-> lists[l].count],
                !.head  = [l \in Lists |-> IF lists[l].tasks = <<>> THEN NULL
                                           ELSE lists[l].tasks[1]],
                !.next  = [t \in Task |-> IF on(t) = {} THEN @[t]
                                          ELSE Successor(lists[CHOOSE l \in on(t) : TRUE].tasks, t)]]
=============================================================================
