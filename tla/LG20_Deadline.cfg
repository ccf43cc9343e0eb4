CONSTANTS
  Accounts = {a1, a2, a3}
  SenderCap <- MCSenderCap
  TxPerBatch <- MCTxPerBatch
  Duration <- MCDuration
  BatchDelay <- MCBatchDelay
  Timeout <- MCTimeout
  MaxTime <- MCMaxTime
  MaxHeight <- MCMaxHeight
  InitNonces = {0}
  PriorPending = {}
  Unreliable = FALSE

SPECIFICATION Spec20k

PROPERTY BatchesWithinDeadline
