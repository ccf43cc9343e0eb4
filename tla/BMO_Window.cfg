CONSTANTS
  Accounts = {a1}
  InitNonces = {0}
  PriorPending = {}
  MonDuration <- MCMonDuration
  PollTicks <- MCPollTicks
  MsPerTick <- MCMsPerTick
  Timeout <- MCTimeout
  MaxTime <- MCMaxTime
  MaxHeight <- MCMaxHeight

SPECIFICATION OrigSpec

INVARIANT WindowAccounted
