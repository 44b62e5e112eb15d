SPECIFICATION FairSpec
CONSTANTS
  User <- TwoUsers
  Machine <- NoMachine
PROPERTIES HandedOver
CHECK_DEADLOCK FALSE
