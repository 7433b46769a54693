\* Two threads, a chain of three nets.
CONSTANTS
  Threads = {t1, t2}
  NetIds = {1, 2, 3}
  FirstNets <- ChainOfThree
  GroupLimit = 3
  MaxFaults = 0
  MayDrop = FALSE
SPECIFICATION Spec
INVARIANT ApprovedTogether
