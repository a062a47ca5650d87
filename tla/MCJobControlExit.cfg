SPECIFICATION Spec
CONSTANTS
  p1 = p1
  p2 = p2
  p3 = p3
  NoPid = NoPid
  Shell = Shell
  Pids <- TwoPids
  MaxJid = 2
  Disturbances = {}
INVARIANT
  ExitKillsEveryJob
