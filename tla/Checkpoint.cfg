\* Two nodes, two nightly rounds, one fault.
CONSTANTS
  Nodes = {1, 2}
  Tags = {1, 2}
  Rotten <- RottenInSecond
  ByHand = {}
  Exposed <- FirstCopy
  MaxExports = 2
  MaxFaults = 1
SPECIFICATION FairSpec
INVARIANTS CheckpointTypeOK CompleteMeansRestorable DrillCoversPoint NoSnapshotLeft
PROPERTIES RoundsComplete
