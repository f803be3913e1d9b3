CONSTANTS
  MAX_PROCS = 6
  RSips = 1
  Users = 2
  Listeners = {9}
  Calls = {"recv", "ring"}
  Targets = {2}
  Acceptors = {4, 5}
  SpawnMayFail = FALSE
  Words = {1}
  MaxPid = 0
SPECIFICATION FairSpec
INVARIANTS Resumable NeverFallsThrough NoLostAccept
PROPERTIES FairDispatch
