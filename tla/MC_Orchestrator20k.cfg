CONSTANTS
  Accounts = {a1, a2}
  InitNonces = {0}
  PriorPending = {}
  Unreliable = TRUE
  SenderCap <- MCSenderCap
  TxPerBatch <- MCTxPerBatch
  Duration <- MCDuration
  BatchDelay <- MCBatchDelay
  Timeout <- MCTimeout
  PollTicks <- MCPollTicks
  MsPerTick <- MCMsPerTick
  BaselineDuration <- MCBaselineDuration
  MonitorDuration <- MCMonitorDuration
  MaxTime <- MCMaxTime
  MaxHeight <- MCMaxHeight
  TargetMs <- MCTargetMs
  AcceptableMs <- MCAcceptableMs
  TargetSent <- MCTargetSent
  AcceptableSent <- MCAcceptableSent

SPECIFICATION FairSpec20k

 
PROPERTY RunEnds
