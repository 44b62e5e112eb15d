SPECIFICATION Spec
CONSTANTS
  i1 = i1  i2 = i2  i3 = i3
  c1 = c1  c2 = c2
  q1 = q1  k1 = k1
  Item = {i1, i2, i3}
  Claim = {c1, c2}
  Turn = {t1}
  Token = {p1}
  Request = {q1}
  Key = {k1}
  Source = {"api", "cron"}
  None = None
  Input <- MCInput
SYMMETRY Symmetry
CHECK_DEADLOCK FALSE
INVARIANTS OneClaim PauseNeedsWork FactsTellTheQueue RequestUnique
PROPERTIES OrderOnlyOnRequest ClaimedNotOvertaken PromptLine
