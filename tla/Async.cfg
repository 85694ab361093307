SPECIFICATION Spec
CONSTANTS
  Scenarios <- TheScenarios
  Channel = {"c", "d"}
  PrsNode = {"a", "b", "c", "d", "e", "r", "Reset"}
  Netlists <- TheNetlists
  Inputs <- TheInputs
  Ports <- ThePorts
  ProcNet = "buffer"
  Bits = {0,1}
  Ahead = {0,2}
  MaxCalls_p = 2
INVARIANTS Incremental Settled HandshakePromise ThreadsPlaced TimesDeterministic
PROPERTIES ChannelPromise ProgramsEnd
CHECK_DEADLOCK FALSE
