SPECIFICATION Spec
CONSTANTS
  Item <- TwoItems
  Waited = {1}
  Caller = {a}
  None = None
INVARIANTS CancelledNeverStarts NoLeakedClaim NoForgottenWaiter
PROPERTIES PromptDelivery PromptLine
CHECK_DEADLOCK FALSE
