CONSTANTS
  Accounts = {a1, a2, a3}
  SenderCap <- MCSenderCap
  TxPerBatch <- MCTxPerBatch
  Duration <- MCDuration
  BatchDelay <- MCBatchDelay
  Timeout <- MCTimeout
  MaxTime <- MCMaxTime
  MaxHeight <- MCMaxHeight
  InitNonces = {0, 1}
  PriorPending = {a1, a2, a3}
  Unreliable = FALSE
  Loops = {"fixed", "original"}
  OriginalHistory = TRUE

SPECIFICATION LoopSpec

INVARIANT NoNonceRejection
