-------------------------- MODULE LoadGenerator20k --------------------------
(***************************************************************************)
(* stress_test_transactions_optimized of src/stress_test_20k_tps.py.  The *)
(* batch tasks (send_transaction_batch_optimized) post and count exactly  *)
(* as in LoadGenerator; what differs is the loop: last_batch_time is set  *)
(* before the loop and after every gather, and each turn first tests the  *)
(* deadline, then sleeps until last_batch_time + batch_interval, and only *)
(* then dispatches.  wakeAt holds last_batch_time + batch_interval.       *)
(***************************************************************************)
EXTENDS LoadGenerator

(* Nonces from get_transaction_count, start_time and last_batch_time.     *)
Seed20k ==
  /\ lgPc = "seed"
  /\ nonceCounters' = confirmed
  /\ lgStart' = now
  /\ wakeAt' = now + BatchDelay
  /\ lgPc' = "loop"
  /\ UNCHANGED <<tasks, sent, failed, batchStart>>
  /\ UNCHANGED chainVars

(* Mutant: the local counters are re-read from the chain for each batch. *)
Batch20kResync == BatchFrom(confirmed, PerSender)

(* Mutant: a counter advances one short of txs_per_account.               *)
Batch20kShort == BatchFrom(nonceCounters, PerSender - 1)

(* random.sample of concurrent_senders accounts, txs_per_account each.    *)
Batch20k == BatchFrom(nonceCounters, PerSender)

(* The deadline test passes and the window is still closed: sleep.  The  *)
(* window is always closed here: last_batch_time was taken just before   *)
(* the test and batch_interval > 0, so the branch that skips the sleep   *)
(* is not reachable and has no action.                                   *)
Pace ==
  /\ lgPc = "loop"
  /\ now - lgStart < Duration
  /\ now < wakeAt
  /\ lgPc' = "pace"
  /\ UNCHANGED <<nonceCounters, tasks, sent, failed, lgStart, batchStart, wakeAt>>
  /\ UNCHANGED chainVars

(* The sleep ends: dispatch, with no second look at the deadline.         *)
Resume ==
  /\ lgPc = "pace"
  /\ now >= wakeAt
  /\ Batch20k

(* Mutant: the outer gather is not awaited.                               *)
EndGather20kNoWait ==
  /\ lgPc = "gather"
  /\ wakeAt' = now + BatchDelay
  /\ lgPc' = "loop"
  /\ UNCHANGED <<nonceCounters, tasks, sent, failed, lgStart, batchStart>>
  /\ UNCHANGED chainVars

(* The gather returns: last_batch_time = time.time(), back to the test.   *)
EndGather20k ==
  /\ lgPc = "gather"
  /\ \A i \in DOMAIN tasks : tasks[i].counted
  /\ wakeAt' = now + BatchDelay
  /\ lgPc' = "loop"
  /\ UNCHANGED <<nonceCounters, tasks, sent, failed, lgStart, batchStart>>
  /\ UNCHANGED chainVars

-----------------------------------------------------------------------------
LgSuspended20k ==
  \/ lgPc = "pace" /\ now < wakeAt
  \/ lgPc = "gather" /\ LgSuspended
  \/ lgPc = "done"

LgStep20k ==
  \/ Pace \/ Resume \/ StopLoad
  \/ \E i \in DOMAIN tasks, j \in Slots : Submit(i, j)
  \/ \E i \in DOMAIN tasks : CountTask(i)
  \/ EndGather20k

LgNext20k == Seed20k \/ LgStep20k

Tick20k == AdvanceClock /\ LgSuspended20k /\ UNCHANGED lgVars

Next20k == LgNext20k \/ Tick20k \/ Block \/ Terminated

Spec20k == Init /\ [][Next20k]_vars

-----------------------------------------------------------------------------
LgTypeOK20k == LgDataOK /\ lgPc \in {"seed", "loop", "pace", "gather", "done"}

(* Spec 5, cancellation: on the deadline no new submission is started.   *)
(* Every batch leaves within duration_seconds of start_time.              *)
BatchesWithinDeadline ==
  [][lgPc # "gather" /\ lgPc' = "gather" => now - lgStart < Duration]_vars
=============================================================================
