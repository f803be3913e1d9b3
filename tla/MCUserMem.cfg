SPECIFICATION Spec
CONSTANTS
  MAX_PROCS = 2
  NumPages = 12
  Candidates <- Lowest
  LEVELS = 1
  ENTRIES = 2
  SPAN = 3
  PAGE_SIZE = 2
  ElfPages = 1
  StackPages = 1
  Boots <- Machines
  Breaks = {4, 17}
  Lengths = {1, 7}
  GrantVAs = {1, 6}
INVARIANTS TablesPrivate Isolated NothingHeld VmaTiles
