\* One thread changes two rows; the schema is loaded after the service starts.
CONSTANTS
  KeyspaceAtStart = FALSE
  LevelKnown = TRUE
  MaxMisses = 1
  Workers = {w1}
  Keys = {1, 2}
  Values = {v}
  Null = Null
  Omitted = Omitted
  PageSizes = {1, 2}
  Dashed = {2}
SPECIFICATION FairSpec
INVARIANTS ResourceTypeOK OneClusterOpen WalkIsComplete CreatedRowsStay ReadyFindsSession
PROPERTIES ServiceComesUp
