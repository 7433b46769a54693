\* Two threads; no request dies.
CONSTANTS
  Threads = {t1, t2}
  Reports <- TwoStations
  TokenRank <- Ranks
  NetIds = {100001, 100002}
  GroupLimit = 4
  MaxFaults = 0
  MayDie = FALSE
  MayDelete = FALSE
  MayDrop = FALSE
SPECIFICATION Spec
PROPERTY OnlyDecisionsRegroup
