------------------------ MODULE MC_Orchestrator20k ------------------------
(***************************************************************************)
(* Model-checking instance of Orchestrator20k, with the bounds of       *)
(* MC_Orchestrator: a one-tick baseline monitor, then a load phase of    *)
(* two ticks (one sender of one transaction per                          *)
(* batch, over two accounts) beside a three-tick monitor, on a chain of  *)
(* up to two blocks.  One tick is 50 ms, so a one-tick block interval    *)
(* meets the 85 ms target, a two-tick one (100 ms) only the 100 ms tier *)
(* and a three-tick one fails: every verdict tier is reachable.          *)
(* Two transactions sent meet the target rate, one the minimum rate.     *)
(***************************************************************************)
EXTENDS Orchestrator20k

MCSenderCap == 1
MCTxPerBatch == 1
MCDuration == 2
MCBatchDelay == 1
MCTimeout == 1
MCPollTicks == 1
MCMsPerTick == 50
MCBaselineDuration == 1
MCMonitorDuration == 3
(* As in MC_Orchestrator: each phase is over by its monitor's bound,      *)
(* duration - 1 + PollTicks + Timeout after it starts; the paced load     *)
(* (a batch may leave at the deadline tick and wait one timeout) ends     *)
(* within the loaded monitor's.                                           *)
MCMaxTime ==
  (MCBaselineDuration - 1 + MCPollTicks + MCTimeout)
    + (MCMonitorDuration - 1 + MCPollTicks + MCTimeout)
MCMaxHeight == 2
MCTargetMs == 85
MCAcceptableMs == 100
MCTargetSent == 2
MCAcceptableSent == 1
=============================================================================
