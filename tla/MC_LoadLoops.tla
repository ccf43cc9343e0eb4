--------------------------- MODULE MC_LoadLoops ---------------------------
(***************************************************************************)
(* The load loops in one check: loop picks, at Init, which script's      *)
(* load phase runs, stress_test_transactions of the fixed or original     *)
(* variant or stress_test_transactions_optimized of the 20k variant, and *)
(* the run keeps it; Loops, given by the cfg, is the choice.  The bounds *)
(* are those of MC_LoadGenerator, except for a batch of three: three     *)
(* accounts, two senders of 3 // 2 = 1 transaction each (the remainder   *)
(* is dropped), a two-tick phase with a one-tick batch delay,             *)
(* initial nonce counts {0, 1}, up to two blocks.                        *)
(***************************************************************************)
EXTENDS LoadGenerator20k

CONSTANTS
  Loops,            \* the loops a run may pick: "fixed", "20k", "original"
  OriginalHistory   \* may the original variant's accounts have sent before?

VARIABLE loop

MCSenderCap == 2
MCTxPerBatch == 3
MCDuration == 2
MCBatchDelay == 1
MCTimeout == 1
MCMaxTime == MCDuration + MCTimeout + MCBatchDelay
MCMaxHeight == 2
MCInitNonces == {0, 1}

(* Without OriginalHistory the original variant runs on accounts that    *)
(* have never sent, the only ones its seed at 0 fits.                     *)
LoopInit ==
  /\ Init /\ loop \in Loops
  /\ loop = "original" /\ ~OriginalHistory => confirmed = [a \in Accounts |-> 0]

LoopNext ==
  /\ UNCHANGED loop
  /\ \/ loop = "fixed" /\ Next
     \/ loop = "20k" /\ Next20k
     \/ loop = "original" /\ NextOriginal

LoopSpec == LoopInit /\ [][LoopNext]_<<vars, loop>>

(* The type invariant of whichever loop runs.                             *)
LoopTypeOK == IF loop = "20k" THEN LgTypeOK20k ELSE LgTypeOK
=============================================================================
