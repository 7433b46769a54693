\* One process; two runs are killed or cannot write.
CONSTANTS
  Processes = {p1}
  Batches <- Files
  Bad <- Unreadable
  MaxFaults = 2
SPECIFICATION Spec
INVARIANTS WorkbookTypeOK WorkbookBalances AcknowledgedIsLogged CopyNeverAhead
PROPERTIES ImplementsLedger RerunIsNoOp
