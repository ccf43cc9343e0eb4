------------------------- MODULE MC_ReadLoadMonitor -------------------------
(***************************************************************************)
(* Model-checking instance of ReadLoadMonitor: two phases of a two-tick   *)
(* monitor polling every tick; in the loaded phase bursts of two calls    *)
(* over three methods, one tick apart.  A tick is 500 ms, so one block may *)
(* share the head's one-second timestamp (the 85 ms substitute) or not. *)
(***************************************************************************)
EXTENDS ReadLoadMonitor

MCBurstSize == 2
MCNumMethods == 3
MCMonDuration == 2
MCPollTicks == 1
MCLoadSleepTicks == 1
MCTimeout == 1
MCMsPerTick == 500
(* Per phase: the first read, then the last sleep begun before the        *)
(* deadline, its poll period and its read.                                *)
MCMaxTime == 2 * (MCTimeout + MCMonDuration - 1 + MCPollTicks + MCTimeout)
MCMaxHeight == 1
=============================================================================
