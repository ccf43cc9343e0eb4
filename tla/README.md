# TLA+ models of the CryptosChain block-time stress harness

This directory holds TLA+ models of the Python harness under `src/`, the TLC
configurations that check them, and `PROJECT.json`, which maps every modelled
definition to the source lines it translates and lists runs, mutants, findings
and hazards.

## The system

The harness drives transaction load against a ledger's JSON-RPC endpoint while
it samples how fast blocks appear, then turns the samples into a verdict. It
comes in three variants of one class, plus side scripts:

| file | what it is |
|---|---|
| `stress_test_blocktime_fixed.py` | The "fixed" variant. Nonces are seeded from the chain. The monitor uses perf_counter and spreads each interval over the Δ blocks it covers (Δ-attribution). |
| `stress_test_blocktime.py` | The "original" variant. Nonces are seeded at 0. The monitor uses chain timestamps. |
| `stress_test_20k_tps.py` | The 20k variant. It uses the fixed monitor and a paced loop; its verdict includes throughput. |
| `simple_blocktime_test.py` | A read-only load plus a timestamp monitor. |
| `fund_stress_test_accounts*.py` | Scripts that fund the test accounts from one funder account. |
| `diagnose_stress_test.py` | One-shot probes. |

These components and their interactions are all inside one asyncio event loop:

- **AccountPool (nonce table).** Stored in `nonce_counters`. It is seeded once. Each batch reserves a contiguous nonce range per sampled account.
- **LoadGenerator.** Runs `stress_test_transactions` / `..._optimized`, a loop until the deadline:
  1. sample the senders;
  2. create one batch task per sender;
  3. each task posts its transactions concurrently, gathers them and counts the outcomes into `tx_results`;
  4. gather all the tasks;
  5. sleep.
- **BlockMonitor.** Runs `monitor_blocks`, which reads the height, then polls until its deadline. It turns each height advance into interval samples in `self.block_times`.
- **StatsAggregator.** The `statistics.mean/stdev/quantiles` calls inside `run_full_test`.
- **Orchestrator.** `run_full_test` runs in this order:
  1. the connection check;
  2. phase 1, a baseline `monitor_blocks(30)`;
  3. a reset of `block_times`;
  4. phase 2, the load task and a fresh monitor task run concurrently under `asyncio.gather`;
  5. phase 3, mean, percentiles and the verdict.
- **The ledger** is not code of this repository. The models treat it as an environment (`Chain.tla`). The monitor and the load task share nothing but this ledger and the process clock, plus `self.block_times` (monitor) and `self.tx_results` (load), which the orchestrator reads.

### Inventory

| component | state | operations | hard behaviours | properties |
|---|---|---|---|---|
| AccountPool | `nonce_counters` | seed; reserve a range per account | collisions with pending transactions of earlier runs; overlap across batches while blocks execute | refinement of `AccountPool`; no nonce rejection |
| LoadGenerator | pc, tasks and their outcomes, `tx_results`, start, last batch | seed, dispatch, submit, count, end gather, sleep, stop | concurrent posts, lost requests, lost replies, blocks in between; pacing and deadline | nonce safety, drained counters, closed-loop rate, deadline |
| BlockMonitor | `last_block`, `last_block_time`, `block_times` | begin, first read, sleep, poll, finish; failing reads | several blocks between polls, failing polls, a stalled chain, coarse timestamps | samples account for the window |
| StatsAggregator | none (pure) | mean, stdev, quantiles, tiers | empty sample list; boundary ties | verdict tiers |
| Orchestrator | phase, verdict | connect, baseline, reset, loaded gather, abort, analyse | the two phase-2 tasks interleave; exception propagation | loaded window only; analysis after drain; a verdict always |
| Funding | funder nonce, per-account outcome, totals | balance check, seed, send (sequential); post batch, resolve, end batch (batched) | failures that still advance the nonce; posts of a batch landing out of order | no stranded success, distinct nonces, totals accounted |
| Read-load monitor | `request_count`, `error_count`, `block_times`, the load task and its burst | first read, sleep, poll, stop and cancel; build, start, resolve and end a burst; reset between phases | the method choice reads a counter the burst has not yet moved; ids shared by interleaved calls; an endless task ended only by cancel | distinct ids, main returns, mixed bursts |

## Modules

Build order; each module EXTENDS or INSTANCEs the ones above it.

| module | models | composes |
|---|---|---|
| `Chain` | The ledger, as the environment. It holds the clock `now`, the block birth ticks `bornAt` (height = length), the executed nonce count `confirmed`, and the pending `pool`. A block executes each account's pending transactions up to the first gap (`FirstGap`, recursive). | — |
| `AccountPool` | The abstract promise of the nonce table: seeded once, then reservations of ranges that never overlap. | — |
| `LoadGenerator` | The fixed load phase (`stress_test_transactions`, `send_transaction_batch`). The original variant's loop is the same with `SeedZero` (`NextOriginal`). | Chain; refines AccountPool |
| `LoadGenerator20k` | The 20k loop: deadline test, then the pacing sleep, then dispatch; `last_batch_time` is set after each gather. | LoadGenerator |
| `BlockMonitor` | `monitor_blocks` of the fixed and 20k variants, which are identical code. | Chain |
| `BlockMonitorOriginal` | The timestamp monitor of the original variant. | BlockMonitor |
| `Orchestrator` | `run_full_test` of the fixed variant. | INSTANCE LoadGenerator, INSTANCE BlockMonitor (once per phase duration) |
| `Orchestrator20k` | `run_full_test` of the 20k variant. | Orchestrator, INSTANCE LoadGenerator20k |
| `ReadLoadMonitor` | `simple_blocktime_test.py`: `main`'s two phases and the counter reset; `monitor_block_production` with one-second timestamps (`Ts`) and the 85 ms substitute; the load task `generate_read_load`, whose burst coroutines are created (`BuildBurst`, the method fixed from `request_count`), started in one turn of the event loop (`StartBurst`, each taking the next id), resolved in any order and gathered; the cancel in `finally` (`MonStop`). | Chain |
| `Funding` | Both funding scripts, as one spec `FundSpec` in which the variable `script` picks the one that runs. `"seq"` is `fund_stress_test_accounts.py`: one blocking send per account, with `nonce + i`. `"batch"` is `fund_stress_test_accounts_20k.py`: concurrent posts per batch, then `nonce += len(batch)`. The funder is the single account of `Chain`. | Chain |

`MC_*` modules give the constants for TLC. `MC_LoadLoops` also adds the variable `loop`, which picks at Init which of the two load loops runs, so that both are checked in one run.

### How the models correspond to the code

- **Atomicity.** asyncio is cooperative and single-threaded: code between two awaits runs without interruption. Each action is one such stretch. Examples:
  - `Dispatch` is the sampling and counter updates of one loop turn, up to the gather;
  - `CountTask` is the loop over the responses of one batch task (its `await response.json()` calls only read already received bodies);
  - `PollFixed` is the handling of one height answer.
- **Time.** `now` advances by `Tick` only while every coroutine is suspended, i.e. in one of these states:
  - on `asyncio.sleep` before its end;
  - on a request that has not yet resolved within `Timeout`;
  - finished.

  Code between awaits takes no time. `time.time()` and `time.perf_counter()` are both `now`.
- **Requests.** A posted request resolves in one of four ways:
  - accepted (the node admits the nonce);
  - rejected (the nonce is executed or already pending);
  - with `Unreliable`, a transport error after which the node either never saw the transaction or admitted it (lost reply).
- **Samples** are exact rationals `<<num, den>>` in ms. `statistics.mean` is compared exactly (`MeanAtMost`).
- **Block production** (`Block`) may happen at any moment up to `MaxHeight` blocks, including several between two polls, or none at all.

## Runs

| run | cfg | expect | shows |
|---|---|---|---|
| lg_loops | MC_LoadLoops.cfg | pass | The load loops in one run: `loop` picks at Init, from `Loops`, the fixed variant's `stress_test_transactions`, the 20k variant's paced `stress_test_transactions_optimized`, or the original variant's loop (`NextOriginal`). The original seeds at 0, so with `OriginalHistory` FALSE it runs on accounts that have never sent. Under lost requests and replies, with blocks executing in between, each loop never has a nonce rejected (`NoNonceRejection`), returns with every transaction counted once (`DrainedCounters`), and keeps a nonce table that refines `AccountPool` (`NonceReservation`). The batch is three transactions over two senders, so the remainder of `transactions_per_batch // len(sending_accounts)` is dropped, and the counter must advance by the same floored share. 5.6 M states in under 3 minutes. |
| lg_prior_pending | LG_PriorPending.cfg | violation | Nonce collisions on a second run against the same node, in two variants. In the fixed variant, a transaction left pending by an earlier run makes the first batch collide, because the 'latest' count excludes pending transactions. In the original variant, which seeds at 0, an account that has sent before is enough. Each variant was also checked alone and violates the property; the original passes on accounts that have never sent. |
| lg_rate | LG_Rate.cfg | violation | Batches start `batch_delay` after the previous gather *ended*, not after the previous batch started. |
| lg20_deadline | LG20_Deadline.cfg | violation | The 20k loop dispatches a batch after the deadline. |
| bmo_window | BMO_Window.cfg | violation | The timestamp monitor loses the first block and emits one sample per detection. |
| orch_fixed | MC_Orchestrator.cfg | pass | Across the phases, the loaded statistics contain only the loaded window (`LoadedWindowAccounted`). The analysis reads `tx_results` only after the load drained (`AnalysisAfterDrain`). Under `FairSpec`, the run always ends, done, aborted or unreachable (`RunEnds`). Δ-attribution of `monitor_blocks` is checked here too, as the loaded window's accounting. |
| orch_no_verdict | OR_NoVerdict.cfg | violation | With no block in the loaded window, `run_full_test` finishes and prints neither a verdict nor a 'no data' result (`VerdictGiven`), against spec 4.3 and 7. |
| orch_20k | MC_Orchestrator20k.cfg | pass | Under `FairSpec20k`, the 20k `run_full_test` always ends by the worst-case tick (`RunEnds`), although its paced loop may still dispatch at the deadline. The verdict depends on `tx_results['sent']` through `actual_tps`, and it is computed only after the paced loop returned with every batch task counted (`AnalysisAfterDrain`). About 2 minutes. |
| fund_lossy | MC_Funding.cfg | pass | Either funding script runs, under lost posts and replies, with posts landing in any order and blocks in between. The printed totals count each handled account exactly once (`FundingAccounted`). Across a full and a short batch, no nonce is used twice (`DistinctFundingNonces`). |
| rl_load | MC_ReadLoadMonitor.cfg | pass | The monitor's polls and the burst calls move the shared `request_count` and `error_count` in any order, and `main` resets both between the phases. The printed Load Test Stats still never report more failed requests than requests (`ErrorsWithinRequests`). A same-second block is recorded as 85 ms, never 0 (`RlTypeOK`). Under `FairSpec`, `main` returns from both phases although the load task never ends by itself (`MainReturns`). |
| rl_burst_mix | RL_BurstMix.cfg | violation | Every burst sends a single read method: the method is chosen from `request_count` before any call of the burst has run. |
| fund_stranded | FU_Stranded.cfg | violation | One send lost in transport strands every later transfer, which is still counted successful (`NoStrandedFunding`), in both scripts. |

Every property of a passing run has a mutant in `PROJECT.json`: a plausible bug in the mapped code (a counter that advances one short, counters re-read from the chain, a gather that is not awaited, a missing reset, a dropped rate test) under which TLC finds the property violated.

### Bounds and why they suffice

  - 3 accounts, 2 senders per batch, 1 transaction per sender (in lg_loops a batch of 3, so the floor division drops a remainder of 1);
  - 3 accounts, 2 senders per batch, 1 transaction per sender;
  - a 2-tick phase with a 1-tick batch delay, so 2–3 batches run and every account is reused by a later batch;
  - initial nonce counts {0, 1};
  - up to 2 blocks, which can execute a batch's transactions before the next batch is reserved;
  - these cover overlap across batches, execution in between, and both loss modes.
- **Monitor:** a 5-tick window polled every tick, with up to 3 blocks. Several blocks can land between two polls, a poll can fail, and a window can see no block at all.
- **Orchestrator:**
  - a 1-tick baseline, and a 3-tick loaded monitor beside a 2-tick load phase, so the monitor can outlive the load or finish first;
  - 50 ms ticks, so a one-, two- or three-tick interval falls in the target, acceptable or failing tier respectively;
  - two blocks; every verdict tier is reachable, which was checked during development.
- **Orchestrator clock:** `MaxTime` is 6, the latest tick at which a run can still be going. Each phase ends at worst `duration - 1 + PollTicks + Timeout` ticks after it starts: the last sleep begins just before the deadline, and its poll then takes the full timeout. A run still going at `MaxTime` stops there (`ClockExhausted`), so an overrun shows as a violation of `RunEnds`, not as a deadlock. TLC explores 1.15 M states in about 2 minutes. The 20k orchestrator has the same bound, found by checking `now <= k` over non-terminal states with a larger clock: its load loop ends within 3 ticks of the loaded phase's start, inside the loaded monitor's 4.

- **Read-load monitor:**
  - bursts of 2 calls over 3 methods, so a mixed burst is possible in principle;
  - a 2-tick monitor window polled every tick, with a 1-tick load sleep, so bursts and polls interleave;
  - 500 ms ticks and one block, which lands in the head's second (recorded as 85 ms) or a later one;
  - `MaxTime` is `2 * (Timeout + MonDuration - 1 + PollTicks + Timeout)` = 8: per phase, the first read plus the worst case above.
- **Funding:**
  - 3 test accounts and batches of 2, so there is one full batch and one short batch;
  - a funder with executed count 0 or 1, possibly with a transaction left pending by an earlier run;
  - up to 2 blocks, which may execute between sends or inside a gather;
  - the scripts never sleep on a deadline, so the clock is not used (`MaxTime` 0).
- **Names of the bounds:**
  - `MaxTime` and `MaxHeight` bound the clock and the chain;
  - `Duration`, `MonDuration`, `BaselineDuration` and `MonitorDuration` are the code's deadlines, in ticks.

### Fairness

`Orchestrator` (`FairSpec`), `Orchestrator20k` (`FairSpec20k`) and `ReadLoadMonitor` (`FairSpec`) state fairness. It puts weak fairness on each coroutine's steps (the orchestrator, each monitor, the load task) and on `Tick`. This is justified by the code's scheduling:
- asyncio's ready queue is FIFO, so a coroutine that stays ready is run;
- aiohttp answers or raises within the timeout, which the `Tick` guards enforce;
- time does pass while everyone sleeps.

Block production gets no fairness, because a stalled chain is a legal environment that the harness must handle.

Fixing `OSuspended` while writing the liveness check was a real model correction. Time must not pass while a monitor that has just failed is still to be observed by `run_full_test`: that coroutine is ready, not suspended. Both orchestrators now require this.

## Findings

The `findings` entry of `PROJECT.json` lists each violation run with the line where it bites:

- nonce seeding from the 'latest' count, and the original variant's seeding at 0;
- a full sleep instead of the remainder;
- the lossy timestamp monitor;
- burst methods that never mix (`simple_blocktime_test.py:56`);
- no verdict after a stalled loaded window (`stress_test_blocktime_fixed.py:274`; the 20k variant's line 304 is the same code);
- a dispatch after the deadline (20k variant);
- funding transfers stranded behind a lost send, in both funding scripts.

One more disagreement is visible directly in the code but is not given a run of its own, because every run the project can hold is in use:
- The fixed variant's verdict tiers test only block times (`stress_test_blocktime_fixed.py:300`). The target tier is awarded even when nothing was sent, although spec 4.5 ties the verdict to the throughput target.

## Not modelled (yet)

- `simple_blocktime_test.py`'s final statistics (mean, median, stdev, percentiles and the printed tables). They are output only.
- In the funding scripts: account generation, the JSON file, receipt waits and balance prints. The balance check is a nondeterministic early return. The 20k funder's unguarded `w3.eth.chain_id` read (line 66) can raise and end the script; that crash is not modelled.
- The uniqueness of the JSON-RPC ids in `simple_blocktime_test.py`. Each call reads and increments `request_count` before its first await (lines 27-29), so no interleaving can give two calls one id.
- stdev, quantiles and the sorted-copy percentiles. These are only printed; a pure-operator module checked against a reference definition is planned.
- The event loop blocked by signing and synchronous web3 calls.
- `diagnose_stress_test.py`, account generation and the JSON account file. These are I/O only.

## Plan for later sittings

1. A `Stats` module with the percentile and quantile operators, checked against reference definitions on bounded sample lists (e.g. min ≤ p95 ≤ max).
2. The checks are held to twelve runs, so a `Stats` run has to share a slot, e.g. with a passing run whose properties can move elsewhere.
