SPECIFICATION Spec
CONSTANTS
  p1 = p1
  p2 = p2
  Pids = {p1, p2}
  MAXJOBS = 2
  JidBound = 3
  Keys = {"INT"}
SYMMETRY PidSymmetry
INVARIANTS
  JobsAreChildren
  ChildrenListed
  ForegroundAwaited
  PromptUnmasked
PROPERTIES
  JobTransitions
