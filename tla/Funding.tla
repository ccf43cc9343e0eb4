------------------------------- MODULE Funding -------------------------------
(***************************************************************************)
(* The account-funding scripts: one funder account sends one transfer to  *)
(* each test account, with nonces counted from get_transaction_count.     *)
(*                                                                         *)
(* Either script may be the one run (script):                             *)
(*   "seq"    src/fund_stress_test_accounts.py: main calls fund_account   *)
(*            for each account in turn, with nonce + i; each send is a    *)
(*            blocking web3 call.                                          *)
(*   "batch"  src/fund_stress_test_accounts_20k.py: fund_all_accounts     *)
(*            posts batches of BatchSize transfers concurrently, counts   *)
(*            them after the gather and advances the nonce by the batch   *)
(*            length.                                                      *)
(*                                                                         *)
(* Test accounts are the indices 0..NumTargets-1, in file order.          *)
(***************************************************************************)
EXTENDS Chain, FiniteSetsExt

CONSTANTS
  NumTargets,     \* NUM_ACCOUNTS
  BatchSize,      \* batch_size = 20 of the batched funder
  Unreliable      \* may a send fail in transport, before or after admission?

ASSUME Cardinality(Accounts) = 1
ASSUME NumTargets \in Nat /\ BatchSize \in Nat \ {0} /\ Unreliable \in BOOLEAN

Funder == CHOOSE a \in Accounts : TRUE

Targets == 0..(NumTargets - 1)

VARIABLES
  script,         \* which funding script runs: "seq" or "batch"
  fPc,            \* where the script is
  nonce,          \* nonce (the funder's next nonce, as the script counts it)
  idx,            \* the next test account to fund
  txNonce,        \* the nonce each test account's transfer was built with
  outcome,        \* per test account: "None", "Pending", "Ok", "Fail"
  successful,     \* successful / total_successful
  failed          \* failed / total_failed

fundVars == <<script, fPc, nonce, idx, txNonce, outcome, successful, failed>>
vars == <<chainVars, fundVars>>

-----------------------------------------------------------------------------
FundInit ==
  /\ script \in {"seq", "batch"}
  /\ fPc = "balance"
  /\ nonce = 0 /\ idx = 0
  /\ txNonce = [t \in Targets |-> 0]
  /\ outcome = [t \in Targets |-> "None"]
  /\ successful = 0 /\ failed = 0

Init == ChainInit /\ FundInit

(* get_balance against the required total: return early, or go on.       *)
CheckBalance ==
  /\ fPc = "balance"
  /\ fPc' \in {"seed", "insufficient"}
  /\ UNCHANGED <<script, nonce, idx, txNonce, outcome, successful, failed>>
  /\ UNCHANGED chainVars

(* nonce = w3.eth.get_transaction_count(funder_address): 'latest'.       *)
SeedNonceFrom(count) ==
  /\ fPc = "seed"
  /\ nonce' = count
  /\ fPc' = "loop"
  /\ UNCHANGED <<script, idx, txNonce, outcome, successful, failed>>
  /\ UNCHANGED chainVars

(* Mutant: the count read as the last used nonce.                         *)
SeedNonceLast == SeedNonceFrom(confirmed[Funder] - 1)

SeedNonce == SeedNonceFrom(confirmed[Funder])

(* The node's answer to a transfer with nonce n: admitted, refused (an    *)
(* RPC error, which web3 raises), or a transport failure after which the  *)
(* node either never saw it or admitted it.  res is "Ok" or "Fail".       *)
Send(n, res) ==
  \/ /\ Admissible(Funder, n)
     /\ pool' = pool \cup {<<Funder, n>>}
     /\ res = "Ok"
  \/ /\ ~Admissible(Funder, n)
     /\ UNCHANGED pool
     /\ res = "Fail"
  \/ /\ Unreliable
     /\ pool' \in {pool} \cup (IF Admissible(Funder, n) THEN {pool \cup {<<Funder, n>>}} ELSE {})
     /\ res = "Fail"

-----------------------------------------------------------------------------
(* Sequential funder: fund_account(address, amount, nonce + i); a result  *)
(* counts as successful, None (the exception path) as failed.            *)
FundOne ==
  /\ fPc = "loop"
  /\ idx < NumTargets
  /\ LET n == nonce + idx IN
     \E res \in {"Ok", "Fail"} :
       /\ Send(n, res)
       /\ outcome' = [outcome EXCEPT ![idx] = res]
       /\ successful' = successful + (IF res = "Ok" THEN 1 ELSE 0)
       /\ failed' = failed + (IF res = "Fail" THEN 1 ELSE 0)
       /\ txNonce' = [txNonce EXCEPT ![idx] = n]
  /\ idx' = idx + 1
  /\ UNCHANGED <<script, fPc, nonce, now, bornAt, confirmed>>

(* The loop is over: the receipt waits and balance reads only print.      *)
FundSeqEnd ==
  /\ fPc = "loop"
  /\ idx = NumTargets
  /\ fPc' = "done"
  /\ UNCHANGED <<script, nonce, idx, txNonce, outcome, successful, failed>>
  /\ UNCHANGED chainVars

-----------------------------------------------------------------------------
(* Batched funder.  One call of fund_accounts_batch(batch, nonce, len):   *)
(* the batch's transfers are built with nonce + i and posted together.   *)
BatchLen == Min({BatchSize, NumTargets - idx})

Batch == idx..(idx + BatchLen - 1)

PostBatch ==
  /\ fPc = "loop"
  /\ idx < NumTargets
  /\ txNonce' = [t \in Targets |-> IF t \in Batch THEN nonce + (t - idx) ELSE txNonce[t]]
  /\ outcome' = [t \in Targets |-> IF t \in Batch THEN "Pending" ELSE outcome[t]]
  /\ fPc' = "gather"
  /\ UNCHANGED <<script, nonce, idx, successful, failed>>
  /\ UNCHANGED chainVars

(* One post of the gather resolves, in any order.                         *)
Resolve(t) ==
  /\ fPc = "gather"
  /\ outcome[t] = "Pending"
  /\ \E res \in {"Ok", "Fail"} :
       /\ Send(txNonce[t], res)
       /\ outcome' = [outcome EXCEPT ![t] = res]
  /\ UNCHANGED <<script, fPc, nonce, idx, txNonce, successful, failed, now, bornAt, confirmed>>

(* Mutant: the gather returns on the first completed post.                *)
BatchDrainedAny == \E t \in Batch : outcome[t] # "Pending"

(* asyncio.gather over the posts, with return_exceptions=True, returns    *)
(* once every post has an answer or an exception.                         *)
BatchDrained == \A t \in Batch : outcome[t] # "Pending"

(* The gather returned: the responses are counted, totals updated and     *)
(* nonce += len(batch), whatever the outcomes.                            *)
EndBatchBy(advance) ==
  /\ fPc = "gather"
  /\ BatchDrained
  /\ successful' = successful + Cardinality({t \in Batch : outcome[t] = "Ok"})
  /\ failed' = failed + Cardinality({t \in Batch : outcome[t] = "Fail"})
  /\ nonce' = nonce + advance
  /\ idx' = idx + BatchLen
  /\ fPc' = "loop"
  /\ UNCHANGED <<script, txNonce, outcome>>
  /\ UNCHANGED chainVars

(* Mutant: the nonce advances by one less than the batch.                 *)
EndBatchShort == EndBatchBy(BatchLen - 1)

EndBatch == EndBatchBy(BatchLen)

-----------------------------------------------------------------------------
Block == ProduceBlock /\ UNCHANGED fundVars

Terminated == fPc \in {"done", "insufficient"} /\ UNCHANGED vars

FundSeqNext ==
  \/ CheckBalance \/ SeedNonce \/ FundOne \/ FundSeqEnd \/ Block \/ Terminated

FundBatchNext ==
  \/ CheckBalance \/ SeedNonce \/ PostBatch \/ (\E t \in Targets : Resolve(t))
  \/ EndBatch \/ FundSeqEnd \/ Block \/ Terminated

FundNext ==
  \/ script = "seq" /\ FundSeqNext
  \/ script = "batch" /\ FundBatchNext

FundSpec == Init /\ [][FundNext]_vars

-----------------------------------------------------------------------------
FundTypeOK ==
  /\ ChainTypeOK
  /\ script \in {"seq", "batch"}
  /\ fPc \in {"balance", "seed", "loop", "gather", "done", "insufficient"}
  /\ nonce \in Nat /\ idx \in 0..NumTargets
  /\ txNonce \in [Targets -> Nat]
  /\ outcome \in [Targets -> {"None", "Pending", "Ok", "Fail"}]
  /\ successful \in Nat /\ failed \in Nat

(* Every transfer the script reports successful can execute: each funder *)
(* nonce between the chain's executed count and its own is held by a      *)
(* pending transaction, so no gap strands it.  ("Accounts are ready for   *)
(* stress testing!")  It is asked whenever no post is in flight: inside a *)
(* gather the posts of one batch land in any order.                       *)
NoStrandedFunding ==
  fPc # "gather" =>
  \A t \in Targets :
    outcome[t] = "Ok" =>
      \A n \in confirmed[Funder]..(txNonce[t] - 1) : <<Funder, n>> \in pool

(* The totals the script prints account for every test account it has    *)
(* handled exactly once, lost posts included: between batches, successful *)
(* plus failed is the number handled, and successful the number answered  *)
(* with a result (fund_all_accounts, fund_accounts_batch's result loop).  *)
FundingAccounted ==
  fPc # "gather" =>
    /\ successful + failed = idx
    /\ successful = Cardinality({t \in Targets : outcome[t] = "Ok"})

(* Across batches no two transfers are built with the same nonce: the    *)
(* nonce carried from one fund_accounts_batch call to the next covers     *)
(* exactly the nonces the previous batch used, whatever their outcomes.   *)
DistinctFundingNonces ==
  \A s, t \in Targets :
    s # t /\ outcome[s] # "None" /\ outcome[t] # "None" => txNonce[s] # txNonce[t]
=============================================================================
