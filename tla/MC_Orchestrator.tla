------------------------- MODULE MC_Orchestrator -------------------------
(***************************************************************************)
(* Model-checking instance of Orchestrator: a one-tick baseline monitor, *)
(* then a load phase of two ticks (one sender of one transaction per     *)
(* batch, over two accounts) beside a three-tick monitor, on a chain of  *)
(* up to two blocks.  One tick is 50 ms, so a one-tick block interval    *)
(* meets the 85 ms target, a two-tick one (100 ms) only the 100 ms tier *)
(* and a three-tick one fails: every verdict tier is reachable.          *)
(***************************************************************************)
EXTENDS Orchestrator

MCSenderCap == 1
MCTxPerBatch == 1
MCDuration == 2
MCBatchDelay == 1
MCTimeout == 1
MCPollTicks == 1
MCMsPerTick == 50
MCBaselineDuration == 1
MCMonitorDuration == 3
(* Each monitor_blocks call starts its last sleep before its deadline, at *)
(* mStart + duration - 1 at the latest, then sleeps and polls once more:  *)
(* the run must be over by the sum of both phases' bounds.  The load task *)
(* (2 ticks, one sleep, one timeout) ends inside the loaded phase's.      *)
MCMaxTime ==
  (MCBaselineDuration - 1 + MCPollTicks + MCTimeout)
    + (MCMonitorDuration - 1 + MCPollTicks + MCTimeout)
MCMaxHeight == 2
MCTargetMs == 85
MCAcceptableMs == 100
MCTargetSent == 1
=============================================================================
