CONSTANTS
  Accounts = {a1, a2, a3}
  SenderCap <- MCSenderCap
  TxPerBatch <- MCTxPerBatch
  Duration <- MCDuration
  BatchDelay <- MCBatchDelay
  Timeout <- MCTimeout
  MaxTime <- MCMaxTime
  MaxHeight <- MCMaxHeight
  InitNonces <- MCInitNonces
  PriorPending = {}
  Unreliable = TRUE
  Loops = {"fixed", "20k", "original"}
  OriginalHistory = FALSE

SPECIFICATION LoopSpec

INVARIANT LoopTypeOK
INVARIANT NoNonceRejection
INVARIANT DrainedCounters
PROPERTY NonceReservation
