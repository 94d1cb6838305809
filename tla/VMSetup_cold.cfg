SPECIFICATION Spec
CONSTANTS
  Callers = {m, t1, t2}
  Main = m
  m = m
  t1 = t1
  t2 = t2
  NULL = NULL
  NumFrames = 5
  Starts = {FALSE}
INVARIANT InitBeforeUse
