\* Two threads; no run dies, the table of nets is dropped once.
CONSTANTS
  Threads = {t1, t2}
  Reports <- TwoStations
  TokenRank <- Ranks
  MaxFaults = 1
  MayDie = FALSE
  MayDelete = FALSE
  MayDrop = TRUE
SPECIFICATION FairSpec
PROPERTIES ReportsAreLogged
