CONSTANTS
  Accounts = {a1, a2, a3}
  SenderCap <- MCSenderCap
  TxPerBatch <- MCTxPerBatch
  Duration = 3
  BatchDelay <- MCBatchDelay
  Timeout <- MCTimeout
  MaxTime = 5
  MaxHeight <- MCMaxHeight
  InitNonces = {0}
  PriorPending = {}
  Unreliable = FALSE

SPECIFICATION Spec

PROPERTY ClosedLoopRate
