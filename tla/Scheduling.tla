---------------------------- MODULE Scheduling ----------------------------
(***************************************************************************)
(* Tasks of the simulator's run-time library at work: the scheduler of     *)
(* lib/tasking.cc, the wake-up task and its alarms of lib/wakeupcall.cc,   *)
(* one clocked queue of lib/queue.cc, object tasks of lib/sim.cc, and the  *)
(* checkpoint and restart tasks of lib/checkpoint.cc.                      *)
(*                                                                         *)
(* Scheduling is cooperative, so a step is what the running task does      *)
(* between two points where another one may run.  A scenario is the tasks  *)
(* main creates, in the order they first run, and each worker's program: a *)
(* sequence of sets of calls, of which it makes any one at each step.      *)
(***************************************************************************)
EXTENDS Tasking

CONSTANTS Workers, Wake, Chk,    \* tasks
          Scenarios,     \* records [boot, program]
          PutEC, GetEC,  \* the event counts of the queue
          Size,          \* its number of slots
          Never,         \* wakeupcall's max_time
          ChkTime,       \* CheckPoint::chkpoint_time
          MaxSaves       \* bound: checkpoints taken by one process

\* The calls of a worker: the event counts of the queue are private to it.
Shared == EC \ {PutEC, GetEC}
Calls == ({"pause"} \X Nat) \cup ({"await"} \X EC \X Nat) \cup ({"advance"} \X Shared)
           \cup ({"create"} \X Workers \X BOOLEAN) \cup ({"alarm"} \X Shared \X Nat)
           \cup {<<"put">>, <<"get">>}

ASSUME SchedulingAssumption ==
  /\ Task = Workers \cup {Wake, Chk} /\ Wake \notin Workers /\ Chk \notin Workers /\ Wake # Chk
  /\ PutEC \in EC /\ GetEC \in EC /\ PutEC # GetEC /\ Size \in Nat \ {0}
  /\ {Never, ChkTime, MaxSaves} \subseteq Nat

ASSUME ScenarioAssumption ==
  \A sc \in Scenarios :
    /\ sc.boot \in Seq(Task) \ {<<>>}
    /\ \A i, j \in 1..Len(sc.boot) : sc.boot[i] = sc.boot[j] => i = j
    /\ sc.program \in [Workers -> Seq(SUBSET Calls)]

VARIABLES scene,    \* the scenario, which never changes
          s,        \* the scheduler state (Tasking)
          at,       \* at[t]: where t is suspended and what it waits for
          step,     \* step[w]: calls of its program that w has begun
          queue,    \* the members of class Queue
          slot,     \* the number of the item in each slot, 0 for none
          alarms,   \* Alarm_List
          saved,    \* the checkpoint file: <<>> or one checkpoint
          life      \* 1: the first process, 2: the one restarted from the file
vars == <<scene, s, at, step, queue, slot, alarms, saved, life>>

Where(k, l, v) == [k |-> k, l |-> l, v |-> v]
Created  == Where("new", Time, 0)
Absent   == Where("absent", Time, 0)
Finished == Where("finished", Time, 0)

Boot == scene.boot
Program(w) == scene.program[w]
Booted == {Boot[i] : i \in 1..Len(Boot)}

\* The process when main calls simulate(): no task has run yet, and
\* context_select takes the first one off the time list.
Fresh == Dispatch(
  [head  |-> [l \in Lists |-> IF l = Time THEN Boot[1] ELSE NULL],
   next  |-> [t \in Task |-> IF \E i \in 1..(Len(Boot) - 1) : Boot[i] = t
                             THEN Boot[1 + CHOOSE i \in 1..(Len(Boot) - 1) : Boot[i] = t]
                             ELSE NULL],
   cnt   |-> [t \in Task |-> 0],
   count |-> [l \in Lists |-> IF l = PutEC THEN Size ELSE 0],
   hint  |-> NULL, cur |-> NULL, fault |-> ""])

Begin == [t \in Task |-> IF t \in Booted THEN Created ELSE Absent]

NewQueue == [p |-> 0, g |-> 0, put |-> 0, get |-> 0, putCount |-> 0, getCount |-> 0]

Start == /\ s      = Fresh
         /\ at     = Begin
         /\ step   = [w \in Workers |-> 0]
         /\ queue  = NewQueue
         /\ slot   = [i \in 0..(Size - 1) |-> 0]
         /\ alarms = <<>>

Init == scene \in Scenarios /\ Start /\ saved = <<>> /\ life = 1

----------------------------------------------------------------------------
(* Worker calls.  A worker that called await is resumed with the event     *)
(* reached and goes on with its program; one inside Put or Get completes   *)
(* the call first.                                                         *)

Running(w) == s.cur = w /\ s.fault = ""

\* The calls named k that w may make next.
Call(w, k) == IF Running(w) /\ at[w].k \in {"new", "run"} /\ step[w] < Len(Program(w))
              THEN {c \in Program(w)[step[w] + 1] : c[1] = k} ELSE {}

\* What every call leaves as it is.
Begun(w) == step' = [step EXCEPT ![w] = @ + 1] /\ UNCHANGED <<scene, saved, life>>

Pause(w) == \E c \in Call(w, "pause") :
  /\ Begun(w) /\ UNCHANGED <<queue, slot, alarms>>
  /\ s'  = Epause(s, c[2])
  /\ at' = [at EXCEPT ![w] = Where("run", Time, s.count[Time] + c[2])]

AwaitEvent(w) == \E c \in Call(w, "await") :
  /\ Begun(w) /\ UNCHANGED <<queue, slot, alarms>>
  /\ s'  = Await(s, c[2], c[3])
  /\ at' = [at EXCEPT ![w] = Where("run", c[2], c[3])]

AdvanceEvent(w) == \E c \in Call(w, "advance") :
  /\ Begun(w) /\ UNCHANGED <<queue, slot, alarms>>
  /\ s'  = Advance(s, c[2])
  /\ at' = [at EXCEPT ![w].k = "run"]

\* SimCreateTask: a task whose object is not ready is taken off again.
Create(w) == \E c \in Call(w, "create") : LET t == c[2]  ready == c[3] IN
  /\ Begun(w) /\ UNCHANGED <<queue, slot, alarms>>
  /\ at[t] = Absent
  /\ s'  = IF ready THEN CreateTask(s, t) ELSE RemoveLastTask(CreateTask(s, t), t)
  /\ at' = [at EXCEPT ![w].k = "run", ![t] = IF ready THEN Created ELSE @]

\* The alarm goes in front of the alarms of its own time.  If it is the
\* first one the wake-up task is moved to its time.
Sooner(a, as) == Cardinality({i \in 1..Len(as) : \A j \in 1..i : as[j].time < a.time})

WakeAt(t) == SortedInsertTask([RemoveTask(s, Wake) EXCEPT !.cnt[Wake] = t], Wake)

FutureAdvance(w) == \E c \in Call(w, "alarm") :
  LET alarm == [ec |-> c[2], time |-> s.count[Time] + c[3]]
      n     == Sooner(alarm, alarms)
  IN  /\ Begun(w) /\ UNCHANGED <<queue, slot>>
      /\ alarms' = InsertAt(alarms, n + 1, alarm)
      /\ s'  = IF n = 0 THEN WakeAt(alarm.time) ELSE s
      /\ at' = [at EXCEPT ![w].k = "run"]

\* Queue::Put after its await: claim a slot and fill it, wake a taker.
PutSlotWrapsLate(q, sc) ==  \* a mutant: the ring is one slot too long
  /\ queue' = [q EXCEPT !.putCount = @ + 1, !.put = (@ + 1) % (Size + 1)]
  /\ slot'  = [slot EXCEPT ![q.put] = sc.count[GetEC] + 1]
  /\ s'     = Advance(sc, GetEC)

PutSlot(q, sc) ==
  /\ queue' = [q EXCEPT !.putCount = @ + 1, !.put = (@ + 1) % Size]
  /\ slot'  = [slot EXCEPT ![q.put] = sc.count[GetEC] + 1]
  /\ s'     = Advance(sc, GetEC)

GetSlotUncounted(q, sc) ==  \* a mutant: the item taken is not counted
  /\ queue' = [q EXCEPT !.get = (@ + 1) % Size]
  /\ slot'  = [slot EXCEPT ![q.get] = 0]
  /\ s'     = Advance(sc, PutEC)

GetSlot(q, sc) ==
  /\ queue' = [q EXCEPT !.getCount = @ + 1, !.get = (@ + 1) % Size]
  /\ slot'  = [slot EXCEPT ![q.get] = 0]
  /\ s'     = Advance(sc, PutEC)

\* A mutant: a caller of Put that has to wait gives its ticket back, so the
\* next one waits for the same count.
PutLateTicket(w) == \E c \in Call(w, "put") :
  LET q == [queue EXCEPT !.p = @ + 1]
  IN  /\ Begun(w) /\ UNCHANGED alarms
      /\ \/ /\ s.count[PutEC] >= q.p
            /\ PutSlot(q, s)
            /\ at' = [at EXCEPT ![w].k = "run"]
         \/ /\ s.count[PutEC] < q.p
            /\ s' = Await(s, PutEC, q.p)
            /\ queue' = queue /\ slot' = slot
            /\ at' = [at EXCEPT ![w] = Where("put", PutEC, q.p)]

Put(w) == \E c \in Call(w, "put") :
  LET q == [queue EXCEPT !.p = @ + 1]
  IN  /\ Begun(w) /\ UNCHANGED alarms
      /\ \/ /\ s.count[PutEC] >= q.p
            /\ PutSlot(q, s)
            /\ at' = [at EXCEPT ![w].k = "run"]
         \/ /\ s.count[PutEC] < q.p
            /\ s' = Await(s, PutEC, q.p)
            /\ queue' = q /\ slot' = slot
            /\ at' = [at EXCEPT ![w] = Where("put", PutEC, q.p)]

Get(w) == \E c \in Call(w, "get") :
  LET q == [queue EXCEPT !.g = @ + 1]
  IN  /\ Begun(w) /\ UNCHANGED alarms
      /\ \/ /\ s.count[GetEC] >= q.g
            /\ GetSlot(q, s)
            /\ at' = [at EXCEPT ![w].k = "run"]
         \/ /\ s.count[GetEC] < q.g
            /\ s' = Await(s, GetEC, q.g)
            /\ queue' = q /\ slot' = slot
            /\ at' = [at EXCEPT ![w] = Where("get", GetEC, q.g)]

PutResumed(w) == /\ Running(w) /\ at[w].k = "put"
                 /\ PutSlot(queue, s)
                 /\ at' = [at EXCEPT ![w].k = "run"]
                 /\ UNCHANGED <<scene, step, alarms, saved, life>>

GetResumed(w) == /\ Running(w) /\ at[w].k = "get"
                 /\ GetSlot(queue, s)
                 /\ at' = [at EXCEPT ![w].k = "run"]
                 /\ UNCHANGED <<scene, step, alarms, saved, life>>

\* MainLoop returns: Thread_Stub deletes the object, context_stub switches
\* to the next task and this one is on no list any more.
Finish(w) == /\ Running(w) /\ at[w].k \in {"new", "run"} /\ step[w] = Len(Program(w))
             /\ s' = Dispatch(s)
             /\ at' = [at EXCEPT ![w] = Finished]
             /\ UNCHANGED <<scene, step, queue, slot, alarms, saved, life>>

Worker(w) == \/ Pause(w) \/ AwaitEvent(w) \/ AdvanceEvent(w) \/ Create(w) \/ FutureAdvance(w)
             \/ Put(w) \/ Get(w) \/ PutResumed(w) \/ GetResumed(w) \/ Finish(w)

----------------------------------------------------------------------------
(* The wake-up task.                                                       *)

\* wakeupcall begins: there is no alarm it knows of.
WakeStart == /\ Running(Wake) /\ at[Wake].k = "new"
             /\ s' = Await(s, Time, Never)
             /\ at' = [at EXCEPT ![Wake] = Where("woken", Time, Never)]
             /\ UNCHANGED <<scene, step, queue, slot, alarms, saved, life>>

NextWake(as) == IF as = <<>> THEN Never ELSE as[1].time

\* Its two assertions.
WakeFault == IF alarms = <<>> THEN "Wakeupcall without an alarm??"
             ELSE IF s.count[Time] < alarms[1].time THEN "Woke up too early?" ELSE ""

\* A mutant: the wake-up task goes back to sleep without looking at the
\* rest of the alarms.
WakeTurnForgets ==
  /\ Running(Wake) /\ at[Wake].k = "woken" /\ WakeFault = ""
  /\ alarms' = Tail(alarms)
  /\ s' = Await(Advance(s, alarms[1].ec), Time, Never)
  /\ at' = [at EXCEPT ![Wake] = Where("woken", Time, Never)]
  /\ UNCHANGED <<scene, step, queue, slot, saved, life>>

\* One turn of its loop: fire the first alarm, sleep until the next one.
WakeTurn ==
  LET rest == Tail(alarms)
      sc   == Advance(s, alarms[1].ec)
  IN  /\ Running(Wake) /\ at[Wake].k = "woken" /\ WakeFault = ""
      /\ alarms' = rest
      /\ s' = Await(sc, Time, NextWake(rest))
      /\ at' = [at EXCEPT ![Wake] = Where("woken", Time, NextWake(rest))]
      /\ UNCHANGED <<scene, step, queue, slot, saved, life>>

WakeFails == /\ Running(Wake) /\ at[Wake].k = "woken" /\ WakeFault # ""
             /\ s' = [s EXCEPT !.fault = WakeFault]
             /\ UNCHANGED <<scene, at, step, queue, slot, alarms, saved, life>>

----------------------------------------------------------------------------
(* Checkpoint and restart.  Both are SimObject tasks; Chk is the           *)
(* CheckPoint in the first process and the UnCheckPoint in the second.     *)

\* PAUSE(x) is epause(x << 1).
ChkPause == /\ Running(Chk) /\ at[Chk].k \in {"new", "saved"}
            /\ at[Chk].v < MaxSaves
            /\ s' = Epause(s, IF life = 1 THEN 2 * ChkTime ELSE 2)
            /\ at' = [at EXCEPT ![Chk].k = "chk"]
            /\ UNCHANGED <<scene, step, queue, slot, alarms, saved, life>>

\* CheckPoint::MainLoop writes every object's task and its own state (here
\* the queue and the event counts), then the time list.  The file has 32 bits
\* for a count (count_write): a checkpoint here is one whose counts fit.
SaveState == /\ Running(Chk) /\ at[Chk].k = "chk" /\ life = 1
             /\ saved' = <<[cnt |-> s.cnt, at |-> at, step |-> step, slot |-> slot,
                          p |-> queue.p, g |-> queue.g, put |-> queue.put, get |-> queue.get,
                          lists |-> [l \in Lists |-> SaveQueueState(s, l)]]>>
             /\ at' = [at EXCEPT ![Chk] = Where("saved", Time, at[Chk].v + 1)]
             /\ UNCHANGED <<scene, s, step, queue, slot, alarms, life>>

\* The process dies after a checkpoint and is started again; the program is
\* the same, so every task begins at its beginning.
Restart == /\ life = 1 /\ saved # <<>>
           /\ s' = Fresh
           /\ at' = Begin
           /\ step' = [w \in Workers |-> 0]
           /\ queue' = NewQueue
           /\ slot' = [i \in 0..(Size - 1) |-> 0]
           /\ alarms' = <<>>
           /\ life' = 2 /\ UNCHANGED <<scene, saved>>

\* UnCheckPoint::MainLoop after its PAUSE(1).  The tasks' contexts come back
\* (checkpoint kind SaveCtxt), the lists are built again.  putCount,
\* getCount and hint are not in the file.
File == saved[1]
Restored(sc) ==
  RestoreQueueStates([sc EXCEPT !.next = [t \in Task |-> IF t = Chk THEN @[t] ELSE NULL],
                                !.cnt  = [t \in Task |-> IF t = Chk THEN @[t] ELSE File.cnt[t]]],
                     File.lists)

RestoreState == /\ Running(Chk) /\ at[Chk].k = "chk" /\ life = 2
                /\ s' = Dispatch(Restored(s))
                /\ at' = [File.at EXCEPT ![Chk] = Finished]
                /\ step' = File.step
                /\ slot' = File.slot
                /\ queue' = [queue EXCEPT !.p = File.p, !.g = File.g,
                                          !.put = File.put, !.get = File.get]
                /\ UNCHANGED <<scene, alarms, saved, life>>

\* The CheckPoint stops when no other object is left; MaxSaves bounds the
\* checkpoints of a process whose tasks are all blocked.
ChkFinish == /\ Running(Chk) /\ at[Chk].k = "saved"
             /\ at[Chk].v = MaxSaves \/ \A w \in Workers : at[w].k \in {"absent", "finished"}
             /\ s' = Dispatch(s)
             /\ at' = [at EXCEPT ![Chk] = Finished]
             /\ UNCHANGED <<scene, step, queue, slot, alarms, saved, life>>

Next == \/ \E w \in Workers : Worker(w)
        \/ WakeStart \/ WakeTurn \/ WakeFails
        \/ ChkPause \/ SaveState \/ ChkFinish \/ Restart \/ RestoreState

Spec     == Init /\ [][Next]_vars
FairSpec == Spec /\ WF_vars(Next)
=============================================================================
