SPECIFICATION Spec
CONSTANTS
  p1 = p1
  p2 = p2
  p3 = p3
  NoPid = NoPid
  Shell = Shell
  Pids <- TwoPids
  MaxJid = 3
  Disturbances = {"forkfail", "earlystop", "extcont"}
SYMMETRY PidSymmetry
\* A child that takes the terminal late leaves the shell stopped by SIGTTIN.
CHECK_DEADLOCK FALSE
INVARIANTS
  NoLostChild
  JidsIncrease
  BackgroundNeverHoldsTerminal
  ExitSparesOnlyNew
