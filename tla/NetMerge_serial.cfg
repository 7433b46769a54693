\* One request thread; every two of four nets match; no request dies.
CONSTANTS
  Threads = {t1}
  NetIds = {1, 2, 3, 4}
  FirstNets <- CliqueOfFour
  GroupLimit = 4
  MaxFaults = 0
  MayDrop = FALSE
SPECIFICATION Spec
INVARIANTS ApprovedTogether
PROPERTIES ImplementsMergeGroups QueueIsComplete
