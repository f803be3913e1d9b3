CONSTANTS
  MAX_PROCS = 6
  RSips = 0
  Users = 2
  Listeners = {9}
  Calls = {}
  Targets = {4}
  Acceptors = {4}
  SpawnMayFail = FALSE
  Words = {1}
  MaxPid = 7
SPECIFICATION Spec
INVARIANT NoLostAccept
