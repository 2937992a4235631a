SPECIFICATION FairSpec
CONSTANTS
  p1 = p1
  Pids = {p1}
  MAXJOBS = 1
  JidBound = 2
  Keys = {"INT"}
PROPERTIES
  ZombiesReaped
  PromptReturns
