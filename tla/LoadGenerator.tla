--------------------------- MODULE LoadGenerator ---------------------------
(***************************************************************************)
(* The transaction load phase: stress_test_transactions and               *)
(* send_transaction_batch of src/stress_test_blocktime_fixed.py.          *)
(*                                                                         *)
(* Every tick of the loop samples Senders accounts, reserves PerSender    *)
(* nonces from each one's counter and gathers one batch task per account; *)
(* each task posts its PerSender transactions concurrently, and counts    *)
(* their outcomes into tx_results once all of them have resolved.  The    *)
(* loop waits for all tasks (asyncio.gather) and then sleeps batch_delay. *)
(*                                                                         *)
(* Time: code between two awaits takes no time; the clock only advances   *)
(* while the coroutine waits on the network or on asyncio.sleep, and a    *)
(* pending request resolves (answer or aiohttp timeout) within Timeout.   *)
(***************************************************************************)
EXTENDS Chain, SequencesExt, FiniteSetsExt

CONSTANTS
  SenderCap,      \* the 50 of min(50, len(self.accounts))
  TxPerBatch,     \* transactions_per_batch (1000)
  Duration,       \* duration_seconds, in ticks
  BatchDelay,     \* batch_delay = transactions_per_batch / tps_target, in ticks
  Timeout,        \* ticks within which a posted request resolves
  Unreliable      \* may the transport fail or lose a reply?

ASSUME SenderCap \in Nat \ {0} /\ TxPerBatch \in Nat
ASSUME Duration \in Nat /\ BatchDelay \in Nat /\ Timeout \in Nat \ {0}
ASSUME Unreliable \in BOOLEAN

VARIABLES
  lgPc,           \* where stress_test_transactions is
  nonceCounters,  \* nonce_counters
  tasks,          \* every batch task created in this phase, in order
  sent,           \* self.tx_results['sent']
  failed,         \* self.tx_results['failed']
  lgStart,        \* start_time
  batchStart,     \* when the current batch was dispatched
  wakeAt          \* end of the asyncio.sleep(batch_delay)

lgVars == <<lgPc, nonceCounters, tasks, sent, failed, lgStart, batchStart, wakeAt>>
vars == <<chainVars, lgVars>>

(* min(50, len(self.accounts)) and transactions_per_batch // len(...)     *)
Senders == IF SenderCap < Cardinality(Accounts) THEN SenderCap ELSE Cardinality(Accounts)
PerSender == TxPerBatch \div Senders
Slots == 0..(PerSender - 1)

Outcomes == {"Pending", "Accepted", "Rejected", "TransportError"}

Nonce(i, j) == tasks[i].start + j

-----------------------------------------------------------------------------
LgInit ==
  /\ lgPc = "seed"
  /\ nonceCounters = [a \in Accounts |-> 0]
  /\ tasks = <<>>
  /\ sent = 0 /\ failed = 0
  /\ lgStart = 0 /\ batchStart = 0 /\ wakeAt = 0

(* "Get initial nonces for all accounts": get_transaction_count, whose    *)
(* default block is 'latest', i.e. the executed count, pending excluded.  *)
SeedFromChain ==
  /\ lgPc = "seed"
  /\ nonceCounters' = confirmed
  /\ lgStart' = now
  /\ lgPc' = "loop"
  /\ UNCHANGED <<tasks, sent, failed, batchStart, wakeAt>>
  /\ UNCHANGED chainVars

(* stress_test_blocktime.py, the original variant: start_time, then      *)
(* nonce_counters = {address: 0}, whatever the accounts' history.         *)
SeedZero ==
  /\ lgPc = "seed"
  /\ nonceCounters' = [a \in Accounts |-> 0]
  /\ lgStart' = now
  /\ lgPc' = "loop"
  /\ UNCHANGED <<tasks, sent, failed, batchStart, wakeAt>>
  /\ UNCHANGED chainVars

(* The batch itself: random.sample picks Senders distinct accounts, and  *)
(* each gets a batch task that starts at base[a]; its counter is then set *)
(* to base[a] + advance; the tasks are gathered.                          *)
BatchFrom(base, advance) ==
  /\ \E S \in kSubset(Senders, Accounts) :
       LET order == SetToSeq(S)
           NewTask(a) == [acct |-> a, start |-> base[a],
                          out |-> [j \in Slots |-> "Pending"], counted |-> FALSE]
       IN  /\ tasks' = tasks \o [i \in 1..Senders |-> NewTask(order[i])]
           /\ nonceCounters' = [a \in Accounts |->
                                  IF a \in S THEN base[a] + advance
                                  ELSE nonceCounters[a]]
  /\ batchStart' = now
  /\ lgPc' = "gather"
  /\ UNCHANGED <<sent, failed, lgStart, wakeAt>>
  /\ UNCHANGED chainVars

(* One turn of the while loop: the deadline test, then at once the batch. *)
DispatchFrom(base, advance) ==
  /\ lgPc = "loop"
  /\ now - lgStart < Duration
  /\ BatchFrom(base, advance)

(* Mutant: each batch re-reads the chain's transaction count instead of   *)
(* the local counter, so nonces still pending are handed out again.       *)
DispatchResync == DispatchFrom(confirmed, PerSender)

(* Mutant: the counter advances by one less than the batch it handed out. *)
DispatchShort == DispatchFrom(nonceCounters, PerSender - 1)

(* Mutant: the counter advances by the share rounded up, the remainder    *)
(* spread over the senders, while each task still sends the floor.        *)
DispatchCeil == DispatchFrom(nonceCounters, (TxPerBatch + Senders - 1) \div Senders)

(* The loop reserves from nonce_counters and advances it by the batch.    *)
Dispatch == DispatchFrom(nonceCounters, PerSender)

(* The while condition fails: the coroutine returns.                      *)
StopLoad ==
  /\ lgPc = "loop"
  /\ now - lgStart >= Duration
  /\ lgPc' = "done"
  /\ UNCHANGED <<nonceCounters, tasks, sent, failed, lgStart, batchStart, wakeAt>>
  /\ UNCHANGED chainVars

SetOutcome(i, j, o) == tasks' = [tasks EXCEPT ![i].out[j] = o]

(* One session.post of the gather resolves.  The ledger admits or rejects *)
(* the transaction; an unreliable transport may drop the request, or      *)
(* lose the reply of an admitted one, and the task sees an exception.     *)
Submit(i, j) ==
  LET a == tasks[i].acct
      n == Nonce(i, j)
  IN
  /\ lgPc = "gather"
  /\ tasks[i].out[j] = "Pending"
  /\ \/ /\ Admissible(a, n)
        /\ pool' = pool \cup {<<a, n>>}
        /\ SetOutcome(i, j, "Accepted")
     \/ /\ ~Admissible(a, n)
        /\ SetOutcome(i, j, "Rejected")
        /\ UNCHANGED pool
     \/ /\ Unreliable
        /\ pool' \in {pool} \cup (IF Admissible(a, n) THEN {pool \cup {<<a, n>>}} ELSE {})
        /\ SetOutcome(i, j, "TransportError")
  /\ UNCHANGED <<now, bornAt, confirmed>>
  /\ UNCHANGED <<lgPc, nonceCounters, sent, failed, lgStart, batchStart, wakeAt>>

Accepted(i) == {j \in Slots : tasks[i].out[j] = "Accepted"}

Resolved(i) == \A j \in Slots : tasks[i].out[j] # "Pending"

(* Mutant: the failure count subtracts the wrong way round.               *)
CountTaskSwapped(i) ==
  /\ lgPc = "gather"
  /\ ~tasks[i].counted
  /\ Resolved(i)
  /\ sent' = sent + Cardinality(Accepted(i))
  /\ failed' = failed + (Cardinality(Accepted(i)) - PerSender)
  /\ tasks' = [tasks EXCEPT ![i].counted = TRUE]
  /\ UNCHANGED <<lgPc, nonceCounters, lgStart, batchStart, wakeAt>>
  /\ UNCHANGED chainVars

(* After its gather, a task walks the responses: a result counts as sent, *)
(* an exception or an error reply as failed.                              *)
CountTask(i) ==
  /\ lgPc = "gather"
  /\ ~tasks[i].counted
  /\ Resolved(i)
  /\ sent' = sent + Cardinality(Accepted(i))
  /\ failed' = failed + (PerSender - Cardinality(Accepted(i)))
  /\ tasks' = [tasks EXCEPT ![i].counted = TRUE]
  /\ UNCHANGED <<lgPc, nonceCounters, lgStart, batchStart, wakeAt>>
  /\ UNCHANGED chainVars

(* Mutant: fire-and-forget dispatch; the loop does not await the tasks.   *)
EndGatherNoWait ==
  /\ lgPc = "gather"
  /\ wakeAt' = now + BatchDelay
  /\ lgPc' = "sleep"
  /\ UNCHANGED <<nonceCounters, tasks, sent, failed, lgStart, batchStart>>
  /\ UNCHANGED chainVars

(* The outer gather returns once every task has counted; then             *)
(* asyncio.sleep(batch_delay).                                            *)
EndGather ==
  /\ lgPc = "gather"
  /\ \A i \in DOMAIN tasks : tasks[i].counted
  /\ wakeAt' = now + BatchDelay
  /\ lgPc' = "sleep"
  /\ UNCHANGED <<nonceCounters, tasks, sent, failed, lgStart, batchStart>>
  /\ UNCHANGED chainVars

Wake ==
  /\ lgPc = "sleep"
  /\ now >= wakeAt
  /\ lgPc' = "loop"
  /\ UNCHANGED <<nonceCounters, tasks, sent, failed, lgStart, batchStart, wakeAt>>
  /\ UNCHANGED chainVars

-----------------------------------------------------------------------------
(* Time passes only while the coroutine is suspended: on the sleep, or on *)
(* requests that are still within their timeout.                          *)
LgSuspended ==
  \/ lgPc = "sleep" /\ now < wakeAt
  \/ /\ lgPc = "gather"
     /\ now < batchStart + Timeout
     /\ \A i \in DOMAIN tasks : ~tasks[i].counted => ~Resolved(i)
     /\ \E i \in DOMAIN tasks : ~tasks[i].counted
  \/ lgPc = "done"

Tick == AdvanceClock /\ LgSuspended /\ UNCHANGED lgVars

Block == ProduceBlock /\ UNCHANGED lgVars

Terminated == lgPc = "done" /\ UNCHANGED vars

LgStep ==
  \/ Dispatch \/ StopLoad
  \/ \E i \in DOMAIN tasks, j \in Slots : Submit(i, j)
  \/ \E i \in DOMAIN tasks : CountTask(i)
  \/ EndGather \/ Wake

LgNext == SeedFromChain \/ LgStep

Next == LgNext \/ Tick \/ Block \/ Terminated

(* stress_test_transactions of the original variant: the same loop,      *)
(* seeded at 0.                                                           *)
NextOriginal == SeedZero \/ LgStep \/ Tick \/ Block \/ Terminated

Init == ChainInit /\ LgInit

Spec == Init /\ [][Next]_vars

-----------------------------------------------------------------------------
LgDataOK ==
  /\ ChainTypeOK
  /\ nonceCounters \in [Accounts -> Nat]
  /\ tasks \in Seq([acct : Accounts, start : Nat, out : [Slots -> Outcomes],
                    counted : BOOLEAN])
  /\ sent \in Nat /\ failed \in Nat
  /\ {lgStart, batchStart, wakeAt} \subseteq Nat

LgTypeOK == LgDataOK /\ lgPc \in {"seed", "loop", "gather", "sleep", "done"}

(* The nonce table of stress_test_transactions implements AccountPool:    *)
(* seeded once, then each dispatch hands every sampled account the next   *)
(* PerSender nonces of its counter, never one handed out before.          *)
Reserved == {<<tasks[i].acct, Nonce(i, j)>> : i \in DOMAIN tasks, j \in Slots}

AP == INSTANCE AccountPool WITH
        nonce <- nonceCounters, reserved <- Reserved, seeded <- lgPc # "seed",
        MaxReserve <- PerSender

NonceReservation == AP!Spec

(* The ledger never rejects a transaction of the load phase: the counters *)
(* start at the chain's transaction count and no two reservations of      *)
(* stress_test_transactions overlap, even across batches, lost replies    *)
(* and blocks executing in between.                                       *)
NoNonceRejection ==
  \A i \in DOMAIN tasks, j \in Slots : tasks[i].out[j] # "Rejected"

(* When stress_test_transactions returns, tx_results accounts for every   *)
(* transaction it built: each one counted exactly once, as sent or failed *)
(* (the phase drained before the counters are read).                      *)
DrainedCounters ==
  lgPc = "done" => sent + failed = Len(tasks) * PerSender

(* Spec 4.2 step 3, the closed-loop rate: the next batch starts           *)
(* batch_delay after the previous one started, or at once if dispatching  *)
(* took longer than that.  The gather ended at wakeAt - BatchDelay.       *)
ClosedLoopRate ==
  [][lgPc = "loop" /\ lgPc' = "gather" /\ tasks # <<>>
       => now <= Max({batchStart + BatchDelay, wakeAt - BatchDelay})]_vars
=============================================================================
