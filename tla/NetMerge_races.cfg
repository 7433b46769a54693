\* Two threads, a chain of three nets; two faults: a request dies or the table is dropped.
CONSTANTS
  Threads = {t1, t2}
  NetIds = {1, 2, 3}
  FirstNets <- ChainOfThree
  GroupLimit = 3
  MaxFaults = 2
  MayDrop = TRUE
SPECIFICATION FairSpec
INVARIANTS TypeOK NoUnaskedMerge NeverAboveBirth
PROPERTIES AlertsAreDecided
