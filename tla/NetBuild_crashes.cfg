\* One thread; two runs may die, reports may be deleted.
CONSTANTS
  Threads = {t1}
  Reports <- TwiceHeard
  TokenRank <- Ranks
  MaxFaults = 2
  MayDie = TRUE
  MayDelete = TRUE
  MayDrop = FALSE
SPECIFICATION FairSpec
INVARIANTS LoggedIsCounted SpawnedOnce
PROPERTIES ReportsAreLogged
