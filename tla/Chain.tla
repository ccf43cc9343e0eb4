------------------------------- MODULE Chain -------------------------------
(***************************************************************************)
(* The ledger behind the RPC endpoint, as the harness sees it through     *)
(* eth_blockNumber, eth_getTransactionCount and eth_sendRawTransaction.   *)
(* It is an external collaborator, not code of this repository: the       *)
(* module is the environment the harness modules run against.             *)
(*                                                                         *)
(*   now        the monotonic clock (time.perf_counter / time.time), in   *)
(*              ticks                                                     *)
(*   bornAt     bornAt[h] is the tick at which block h was produced; the  *)
(*              chain height is Len(bornAt)                               *)
(*   confirmed  per account, the transaction count of the latest block    *)
(*              (the next nonce the ledger will execute)                  *)
(*   pool       the pending pool: <<account, nonce>> pairs accepted but   *)
(*              not yet executed, including ones left by a prior run      *)
(***************************************************************************)
EXTENDS Naturals, Sequences, FiniteSets

CONSTANTS
  Accounts,       \* the test accounts of stress_test_accounts.json
  MaxHeight,      \* bound: blocks produced in one behaviour
  MaxTime,        \* bound: ticks in one behaviour
  InitNonces,     \* transaction counts an account may have at start
  PriorPending    \* accounts a prior run may have left a transaction pending on

ASSUME MaxHeight \in Nat /\ MaxTime \in Nat
ASSUME InitNonces \subseteq Nat /\ InitNonces # {}
ASSUME PriorPending \subseteq Accounts

VARIABLES now, bornAt, confirmed, pool

chainVars == <<now, bornAt, confirmed, pool>>

Height == Len(bornAt)

ChainInit ==
  /\ now = 0
  /\ bornAt = <<>>
  /\ confirmed \in [Accounts -> InitNonces]
  /\ pool \in SUBSET {<<a, confirmed[a]>> : a \in PriorPending}

(* The ledger admits a transaction into its pool when its nonce is not    *)
(* already executed and no pending transaction holds the same nonce       *)
(* ("nonce too low", "already known", "replacement underpriced").         *)
Admissible(a, n) == n >= confirmed[a] /\ <<a, n>> \notin pool

(* The first nonce at or after n that has no pending transaction: a block *)
(* executes an account's pending transactions up to the first gap.        *)
RECURSIVE FirstGap(_, _)
FirstGap(a, n) == IF <<a, n>> \in pool THEN FirstGap(a, n + 1) ELSE n

ProduceBlock ==
  /\ Height < MaxHeight
  /\ bornAt' = Append(bornAt, now)
  /\ confirmed' = [a \in Accounts |-> FirstGap(a, confirmed[a])]
  /\ pool' = {tx \in pool : tx[2] >= confirmed'[tx[1]]}
  /\ UNCHANGED now

AdvanceClock ==
  /\ now < MaxTime
  /\ now' = now + 1
  /\ UNCHANGED <<bornAt, confirmed, pool>>

ChainTypeOK ==
  /\ now \in 0..MaxTime
  /\ bornAt \in Seq(0..MaxTime) /\ Height <= MaxHeight
  /\ confirmed \in [Accounts -> Nat]
  /\ pool \subseteq Accounts \X Nat
=============================================================================
