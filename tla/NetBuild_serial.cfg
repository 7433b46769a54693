\* One thread; no run dies.
CONSTANTS
  Threads = {t1}
  Reports <- DistinctEmitters
  TokenRank <- Ranks
  MaxFaults = 0
  MayDie = FALSE
  MayDelete = FALSE
  MayDrop = FALSE
SPECIFICATION Spec
INVARIANTS BuildTypeOK CountsMatchLog IntervalCovers StationsApart
