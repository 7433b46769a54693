\* One thread; one fault: a request dies or the table of nets is dropped.
CONSTANTS
  Threads = {t1}
  Reports <- ChainAndTwice
  TokenRank <- Ranks
  NetIds = {100001, 100002, 100003, 100004}
  GroupLimit = 4
  MaxFaults = 1
  MayDie = TRUE
  MayDelete = FALSE
  MayDrop = TRUE
SPECIFICATION Spec
INVARIANTS GroupsMatchDecisions NothingMergedUnasked
PROPERTIES OnlyDecisionsRegroup
