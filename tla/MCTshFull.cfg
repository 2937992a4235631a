SPECIFICATION Spec
CONSTANTS
  p1 = p1
  p2 = p2
  Pids = {p1, p2}
  MAXJOBS = 1
  JidBound = 2
  Keys = {"TSTP", "QUIT"}
SYMMETRY PidSymmetry
INVARIANTS
  ListEditExclusive
  BackgroundUnharmed
  IInv
  NoLostSigchld
