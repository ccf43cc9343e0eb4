-------------------------- MODULE MC_LoadGenerator --------------------------
(***************************************************************************)
(* Model-checking instance of LoadGenerator: three accounts, two senders  *)
(* per batch, one transaction per sender, a load phase of two ticks with *)
(* a one-tick batch delay, so two or three batches run and every account  *)
(* is reused by a later batch.                                            *)
(***************************************************************************)
EXTENDS LoadGenerator

MCSenderCap == 2
MCTxPerBatch == 2
MCDuration == 2
MCBatchDelay == 1
MCTimeout == 1
MCMaxTime == MCDuration + MCTimeout + MCBatchDelay
MCMaxHeight == 2
MCInitNonces == {0, 1}
=============================================================================
