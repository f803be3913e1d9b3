CONSTANTS
  MAX_PROCS = 6
  RSips = 0
  Users = 2
  Listeners = {9}
  Calls = {"recv", "yield", "exit", "spawn", "wait", "ring"}
  Targets = {0}
  Acceptors = {}
  SpawnMayFail = TRUE
  Words = {1}
  MaxPid = 7
SPECIFICATION Spec
INVARIANTS TableAgrees UniquePids
CHECK_DEADLOCK FALSE
