\* With nobody at the keyboard the shell may sleep in sigsuspend for ever.
SPECIFICATION FairSpec
CONSTANTS
  p1 = p1
  Pids = {p1}
  MAXJOBS = 1
  JidBound = 2
  Keys = {}
PROPERTIES
  WaitfgReturns
CHECK_DEADLOCK FALSE
