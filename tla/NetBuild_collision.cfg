\* One thread: two reports of one emitter, folded by one run.
CONSTANTS
  Threads = {t1}
  Reports <- TwiceHeard
  TokenRank <- Ranks
  MaxFaults = 0
  MayDie = FALSE
  MayDelete = FALSE
  MayDrop = FALSE
SPECIFICATION Spec
PROPERTY HistoryOnlyGrows
