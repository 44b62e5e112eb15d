SPECIFICATION Spec
CONSTANTS
  User <- TwoUsers
  Machine <- NoMachine
INVARIANTS NeverDropped
CHECK_DEADLOCK FALSE
