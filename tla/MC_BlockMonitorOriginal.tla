---------------------- MODULE MC_BlockMonitorOriginal ----------------------
(* Model-checking instance of BlockMonitorOriginal, bounds as MC_BlockMonitor. *)
EXTENDS BlockMonitorOriginal

MCMonDuration == 5
MCPollTicks == 1
MCMsPerTick == 20
MCTimeout == 1
MCMaxTime == MCMonDuration + MCPollTicks + MCTimeout
MCMaxHeight == 3
=============================================================================
