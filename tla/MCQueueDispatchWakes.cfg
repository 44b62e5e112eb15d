SPECIFICATION FairSpec
CONSTANTS
  Item <- OneItem
  Waited = {}
  Caller = {a, b}
  None = None
PROPERTIES StaysQuiet DrainWakes WakesAnswered
CHECK_DEADLOCK FALSE
