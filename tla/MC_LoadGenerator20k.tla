------------------------ MODULE MC_LoadGenerator20k ------------------------
(***************************************************************************)
(* Model-checking instance of LoadGenerator20k with the bounds of         *)
(* MC_LoadGenerator: three accounts, two senders of one transaction each, *)
(* a two-tick phase and a one-tick batch interval.  The first batch waits *)
(* one interval, so a second batch happens only when the first gather     *)
(* ends at once; then it is paced to the deadline tick itself.            *)
(***************************************************************************)
EXTENDS LoadGenerator20k

MCSenderCap == 2
MCTxPerBatch == 2
MCDuration == 2
MCBatchDelay == 1
MCTimeout == 1
MCMaxTime == MCDuration + MCTimeout + MCBatchDelay
MCMaxHeight == 2
MCInitNonces == {0, 1}
=============================================================================
