CONSTANTS
  Accounts = {f}
  InitNonces = {0, 1}
  PriorPending = {f}
  Unreliable = TRUE
  NumTargets <- MCNumTargets
  BatchSize <- MCBatchSize
  MaxHeight <- MCMaxHeight
  MaxTime <- MCMaxTime

SPECIFICATION FundSpec

INVARIANT FundTypeOK
INVARIANT FundingAccounted
INVARIANT DistinctFundingNonces
