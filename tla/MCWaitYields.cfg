CONSTANTS
  MAX_PROCS = 6
  RSips = 0
  Users = 2
  Listeners = {}
  Calls = {"spawn", "wait"}
  Targets = {}
  Acceptors = {}
  SpawnMayFail = FALSE
  Words = {1}
  MaxPid = 7
SPECIFICATION FairSpec
PROPERTY WaitYields
