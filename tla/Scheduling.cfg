SPECIFICATION FairSpec
CONSTANTS
  Workers = {"a", "b", "c", "d"}
  Wake = "wake"
  Chk = "chk"
  Task = {"a", "b", "c", "d", "wake", "chk"}
  EC = {"e", "q.put", "q.get"}
  Time = "etime"
  PutEC = "q.put"
  GetEC = "q.get"
  NULL = "NULL"
  Size = 2
  Never = 40
  ChkTime = 1
  MaxSaves = 1
  Scenarios <- SomeScenarios
INVARIANTS SchedulingInv ProgramFits NoTaskLost ListsOrdered AlarmArmed AssertionsHold SlotsInOrder
PROPERTIES ResumedWhenDue QueuePromise DueTaskRuns
CHECK_DEADLOCK FALSE
