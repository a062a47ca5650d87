SPECIFICATION Spec
CONSTANTS
  p1 = p1
  p2 = p2
  p3 = p3
  NoPid = NoPid
  Shell = Shell
  Pids <- ThreePids
  MaxJid = 4
  Disturbances = {"extcont"}
SYMMETRY PidSymmetry
INVARIANTS
  TypeOK
  OneEntryPerChild
  ListAgrees
  TerminalExclusive
  ForegroundOwnsTerminal
