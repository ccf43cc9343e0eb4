---------------------------- MODULE MC_Funding ----------------------------
(***************************************************************************)
(* Model-checking instance of Funding: either script, one funder with an *)
(* executed count of 0 or 1 and possibly a transaction left pending by an *)
(* earlier run, three test accounts, batches of two (a full batch and a   *)
(* short one), and up to two blocks executing between or during sends.    *)
(***************************************************************************)
EXTENDS Funding

MCNumTargets == 3
MCBatchSize == 2
MCMaxHeight == 2
MCMaxTime == 0
=============================================================================
