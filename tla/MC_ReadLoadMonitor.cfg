CONSTANTS
  Accounts = {a1}
  InitNonces = {0}
  PriorPending = {}
  BurstSize <- MCBurstSize
  NumMethods <- MCNumMethods
  MonDuration <- MCMonDuration
  PollTicks <- MCPollTicks
  LoadSleepTicks <- MCLoadSleepTicks
  Timeout <- MCTimeout
  MsPerTick <- MCMsPerTick
  MaxTime <- MCMaxTime
  MaxHeight <- MCMaxHeight

SPECIFICATION FairSpec

INVARIANT RlTypeOK
INVARIANT ErrorsWithinRequests
PROPERTY MainReturns
