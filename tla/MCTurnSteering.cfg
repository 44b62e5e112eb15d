SPECIFICATION Spec
CONSTANTS
  User <- TwoUsers
  Machine <- OneMachine
INVARIANTS MachineInputRead SendOrder StoppedStaysParked
PROPERTIES MessageFate
CHECK_DEADLOCK FALSE
