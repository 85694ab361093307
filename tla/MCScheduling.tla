---------------------------- MODULE MCScheduling ----------------------------
(***************************************************************************)
(* Scenarios for TLC.                                                      *)
(***************************************************************************)
EXTENDS SchedulingProps

pause(n)    == <<"pause", n>>
alarm(e, n) == <<"alarm", e, n>>
puts == {<<"put">>}
gets == {<<"get">>}

\* Pauses, events and alarms against each other; the wake-up task is created
\* last, so it runs first.
Timed == [boot |-> <<"wake", "a", "b", "c">>,
          program |-> [w \in Workers |->
            IF w = "a" THEN <<{pause(1), pause(2), alarm("e", 1), <<"await", "e", 1>>},
                              {pause(1), alarm("e", 1), alarm("e", 0)}, {pause(1)}>>
            ELSE IF w = "b" THEN <<{pause(2), pause(3), <<"await", "e", 1>>},
                                   {pause(0), pause(2), <<"advance", "e">>}, {pause(1), alarm("e", 2)}>>
            ELSE IF w = "c" THEN <<{pause(2), <<"await", "e", 2>>}, {pause(1), <<"create", "d", TRUE>>, <<"create", "d", FALSE>>}>>
            ELSE <<{pause(1)}>>]]

\* Two producers and two consumers, with pauses between their calls.
Buffer == [boot |-> <<"a", "b", "c", "d">>,
           program |-> [w \in Workers |->
             IF w \in {"a", "b"} THEN <<puts, puts \cup {pause(0), pause(1)}, puts, puts \cup {pause(1)}>>
             ELSE <<gets \cup {pause(1), pause(2)}, gets, gets, gets \cup {pause(1)}>>]]

\* A checkpoint and a restart while tasks wait on the queue.  A checkpoint
\* cannot be taken once a task has finished (checkpoint.cc:79-81), so a, b and
\* c end waiting for an event nobody advances.  d is the last one to enter the
\* time list before its state is restored, and is there in the checkpoint too:
\* otherwise the hint is stale, see Waits.
forever == {<<"await", "e", 9>>}
Saved == [boot |-> <<"a", "b", "c", "d", "chk">>,
          program |-> [w \in Workers |->
            IF w = "a" THEN <<puts, puts, puts \cup gets, forever>>
            ELSE IF w = "b" THEN <<gets, puts, forever>>
            ELSE IF w = "c" THEN <<{pause(1), pause(3)}, gets, gets, forever>>
            ELSE <<{pause(9)}, puts \cup {pause(1)}, puts>>]]

SomeScenarios == {Timed, Buffer, Saved}

\* At the checkpoint c waits on the queue; in the process restarted from it c
\* is the last task inserted in the time list before its state is restored.
Waits == [boot |-> <<"a", "b", "c", "chk">>,
          program |-> [w \in Workers |->
            IF w = "a" THEN <<{pause(4)}, {pause(4)}, {pause(4)}>>
            ELSE IF w = "b" THEN <<{pause(5)}, {pause(5)}>>
            ELSE IF w = "c" THEN <<{pause(2)}, gets>> ELSE <<{pause(1)}>>]]
HintScenarios == {Waits}

ASSUME AlarmsNeedTheWakeUpTask == WakeFirst
=============================================================================
