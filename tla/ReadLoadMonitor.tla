--------------------------- MODULE ReadLoadMonitor ---------------------------
(***************************************************************************)
(* src/simple_blocktime_test.py: BlockTimeMonitor.  main runs             *)
(* monitor_block_production twice, without and then with read load,       *)
(* resetting the counters in between.  The monitor polls the latest block *)
(* and turns chain timestamps, which have one-second resolution, into     *)
(* block times.  With load, a task runs generate_read_load, an endless    *)
(* loop of bursts of BurstSize read calls gathered together, until the    *)
(* monitor's finally cancels it.  Every make_rpc_call, the monitor's and  *)
(* the burst's, takes its JSON-RPC id from the shared request_count and   *)
(* increments it before its first await.                                  *)
(***************************************************************************)
EXTENDS Chain

CONSTANTS
  BurstSize,      \* range(10): requests per burst
  NumMethods,     \* len(methods)
  MonDuration,    \* duration_seconds, in ticks
  PollTicks,      \* asyncio.sleep(0.02), in ticks
  LoadSleepTicks, \* asyncio.sleep(delay * 10), in ticks
  Timeout,        \* ticks within which a posted call answers or raises
  MsPerTick       \* milliseconds per tick, for the block timestamps

ASSUME BurstSize \in Nat \ {0} /\ NumMethods \in Nat \ {0}
ASSUME MonDuration \in Nat /\ {PollTicks, LoadSleepTicks, Timeout, MsPerTick} \subseteq Nat \ {0}

VARIABLES
  mainPc,         \* main: "phase1", "phase2" (the call under way), "end"
  rPc,            \* where monitor_block_production is
  start,          \* start_time
  wake,           \* when the current sleep ends / the current call was posted
  lastBlock,      \* last_block_number
  lastTs,         \* last_timestamp (seconds)
  blockTimes,     \* self.block_times (ms)
  requestCount,   \* self.request_count
  errorCount,     \* self.error_count
  loadPc,         \* the load task: "none", "build", "gather", "sleep", "cancelled"
  loadWake,       \* when the load task's sleep ends
  burst           \* the calls of the current burst: request_count when the
                  \* coroutine was created, state, and when it was posted

rlVars == <<mainPc, rPc, start, wake, lastBlock, lastTs, blockTimes,
            requestCount, errorCount, loadPc, loadWake, burst>>
vars == <<chainVars, rlVars>>

(* int(result['timestamp'], 16): the block's time in whole seconds; the   *)
(* head the monitor starts from was produced at time 0.                   *)
Ts(h) == IF h = 0 THEN 0 ELSE (bornAt[h] * MsPerTick) \div 1000

(* make_rpc_call up to its first await: the payload takes id              *)
(* request_count, then request_count += 1.                                *)
IssueId == requestCount' = requestCount + 1

(* The except branch of make_rpc_call: an exception counts an error; an   *)
(* answer without 'result' does not.                                      *)
CountError(exc) == errorCount' = errorCount + (IF exc THEN 1 ELSE 0)

-----------------------------------------------------------------------------
RlInit ==
  /\ mainPc = "phase1" /\ rPc = "idle"
  /\ start = 0 /\ wake = 0 /\ lastBlock = 0 /\ lastTs = 0 /\ blockTimes = <<>>
  /\ requestCount = 0 /\ errorCount = 0
  /\ loadPc = "none" /\ loadWake = 0 /\ burst = <<>>

Init == ChainInit /\ RlInit

(* The first eth_getBlockByNumber("latest") is posted.                    *)
MonBegin ==
  /\ rPc = "idle"
  /\ IssueId
  /\ wake' = now
  /\ rPc' = "first"
  /\ UNCHANGED <<mainPc, start, lastBlock, lastTs, blockTimes, errorCount, loadPc, loadWake, burst>>
  /\ UNCHANGED chainVars

(* It answers: the head and its timestamp are kept, start_time is taken,  *)
(* and in the loaded phase the load task is created.                      *)
FirstAnswer ==
  /\ rPc = "first"
  /\ lastBlock' = Height /\ lastTs' = Ts(Height)
  /\ start' = now
  /\ loadPc' = IF mainPc = "phase2" THEN "build" ELSE "none"
  /\ rPc' = "loop"
  /\ UNCHANGED <<mainPc, wake, blockTimes, requestCount, errorCount, loadWake, burst>>
  /\ UNCHANGED chainVars

(* No result: "ERROR: Cannot connect", return before the try.             *)
FirstFails ==
  /\ rPc = "first"
  /\ \E exc \in BOOLEAN : CountError(exc)
  /\ rPc' = "unreachable"
  /\ UNCHANGED <<mainPc, start, wake, lastBlock, lastTs, blockTimes, requestCount, loadPc, loadWake, burst>>
  /\ UNCHANGED chainVars

(* Mutant: the deadline test admits one more poll.                        *)
MonSleepLate ==
  /\ rPc = "loop" /\ now - start <= MonDuration
  /\ wake' = now + PollTicks /\ rPc' = "sleep"
  /\ UNCHANGED <<mainPc, start, lastBlock, lastTs, blockTimes, requestCount, errorCount, loadPc, loadWake, burst>>
  /\ UNCHANGED chainVars

(* The while test passes: await asyncio.sleep(0.02).                      *)
MonSleep ==
  /\ rPc = "loop" /\ now - start < MonDuration
  /\ wake' = now + PollTicks /\ rPc' = "sleep"
  /\ UNCHANGED <<mainPc, start, lastBlock, lastTs, blockTimes, requestCount, errorCount, loadPc, loadWake, burst>>
  /\ UNCHANGED chainVars

(* The sleep ends and the next eth_getBlockByNumber is posted.            *)
MonPoll ==
  /\ rPc = "sleep" /\ now >= wake
  /\ IssueId
  /\ wake' = now /\ rPc' = "poll"
  /\ UNCHANGED <<mainPc, start, lastBlock, lastTs, blockTimes, errorCount, loadPc, loadWake, burst>>
  /\ UNCHANGED chainVars

(* It answers.  On a new block, block_time_ms is the timestamp difference *)
(* in ms, or sameSecond when the timestamps are equal; last_block and     *)
(* last_timestamp move to the block read.                                 *)
PollAnswerWith(sameSecond) ==
  /\ rPc = "poll"
  /\ IF Height > lastBlock
       THEN LET ms == (Ts(Height) - lastTs) * 1000
            IN  /\ blockTimes' = Append(blockTimes, IF ms = 0 THEN sameSecond ELSE ms)
                /\ lastBlock' = Height /\ lastTs' = Ts(Height)
       ELSE UNCHANGED <<blockTimes, lastBlock, lastTs>>
  /\ rPc' = "loop"
  /\ UNCHANGED <<mainPc, start, wake, requestCount, errorCount, loadPc, loadWake, burst>>
  /\ UNCHANGED chainVars

(* Mutant: the zero difference is kept, without the 85 ms substitute.     *)
PollAnswerRaw == PollAnswerWith(0)

(* "Sometimes timestamps might be the same for very fast blocks": 85.     *)
PollAnswer == PollAnswerWith(85)

(* No result: continue.                                                   *)
PollFails ==
  /\ rPc = "poll"
  /\ \E exc \in BOOLEAN : CountError(exc)
  /\ rPc' = "loop"
  /\ UNCHANGED <<mainPc, start, wake, lastBlock, lastTs, blockTimes, requestCount, loadPc, loadWake, burst>>
  /\ UNCHANGED chainVars

(* The while test fails; finally: load_task.cancel() and await it.  The   *)
(* cancellation reaches the load task at its await: a gather in flight    *)
(* cancels its calls (CancelledError is not an Exception: nothing is     *)
(* counted), a burst not yet started never runs.  Then the statistics are *)
(* printed.                                                               *)
MonStop ==
  /\ rPc = "loop" /\ now - start >= MonDuration
  /\ loadPc' = IF loadPc = "none" THEN "none" ELSE "cancelled"
  /\ burst' = <<>>
  /\ rPc' = "done"
  /\ UNCHANGED <<mainPc, start, wake, lastBlock, lastTs, blockTimes, requestCount, errorCount, loadWake>>
  /\ UNCHANGED chainVars

(* Mutant: error_count is not reset with request_count.                   *)
ResetPhaseKeepErrors ==
  /\ mainPc = "phase1" /\ rPc \in {"done", "unreachable"}
  /\ mainPc' = "phase2" /\ rPc' = "idle"
  /\ blockTimes' = <<>> /\ requestCount' = 0
  /\ UNCHANGED <<start, wake, lastBlock, lastTs, errorCount, loadPc, loadWake, burst>>
  /\ UNCHANGED chainVars

(* main, after phase 1: block_times, request_count and error_count are    *)
(* reset, and phase 2 calls the monitor again, with load.                 *)
ResetPhase ==
  /\ mainPc = "phase1" /\ rPc \in {"done", "unreachable"}
  /\ mainPc' = "phase2" /\ rPc' = "idle"
  /\ blockTimes' = <<>> /\ requestCount' = 0 /\ errorCount' = 0
  /\ UNCHANGED <<start, wake, lastBlock, lastTs, loadPc, loadWake, burst>>
  /\ UNCHANGED chainVars

MainEnd ==
  /\ mainPc = "phase2" /\ rPc \in {"done", "unreachable"}
  /\ mainPc' = "end"
  /\ UNCHANGED <<rPc, start, wake, lastBlock, lastTs, blockTimes, requestCount, errorCount, loadPc, loadWake, burst>>
  /\ UNCHANGED chainVars
-----------------------------------------------------------------------------
(* generate_read_load, one turn of while True: BurstSize coroutines of     *)
(* make_rpc_call are created, each with methods[request_count %           *)
(* len(methods)]; none runs yet, so none moves request_count.  Then the   *)
(* gather is awaited.                                                      *)
BuildBurst ==
  /\ loadPc = "build"
  /\ burst' = [i \in 1..BurstSize |-> [seen |-> requestCount, st |-> "created", at |-> now]]
  /\ loadPc' = "gather"
  /\ UNCHANGED <<mainPc, rPc, start, wake, lastBlock, lastTs, blockTimes, requestCount, errorCount, loadWake>>
  /\ UNCHANGED chainVars

(* The gather's tasks start, in creation order, in one turn of the event  *)
(* loop: each takes the next id and posts.                                *)
StartBurst ==
  /\ loadPc = "gather"
  /\ \A i \in DOMAIN burst : burst[i].st = "created"
  /\ burst' = [i \in DOMAIN burst |-> [burst[i] EXCEPT !.st = "posted", !.at = now]]
  /\ requestCount' = requestCount + Len(burst)
  /\ UNCHANGED <<mainPc, rPc, start, wake, lastBlock, lastTs, blockTimes, errorCount, loadPc, loadWake>>
  /\ UNCHANGED chainVars

(* One call of the burst answers or raises.                               *)
ResolveCall(i) ==
  /\ loadPc = "gather" /\ burst[i].st = "posted"
  /\ burst' = [burst EXCEPT ![i].st = "done"]
  /\ \E exc \in BOOLEAN : CountError(exc)
  /\ UNCHANGED <<mainPc, rPc, start, wake, lastBlock, lastTs, blockTimes, requestCount, loadPc, loadWake>>
  /\ UNCHANGED chainVars

(* The gather returns: await asyncio.sleep(delay * 10).                   *)
EndBurst ==
  /\ loadPc = "gather" /\ \A i \in DOMAIN burst : burst[i].st = "done"
  /\ burst' = <<>>
  /\ loadWake' = now + LoadSleepTicks /\ loadPc' = "sleep"
  /\ UNCHANGED <<mainPc, rPc, start, wake, lastBlock, lastTs, blockTimes, requestCount, errorCount>>
  /\ UNCHANGED chainVars

LoadWake ==
  /\ loadPc = "sleep" /\ now >= loadWake
  /\ loadPc' = "build"
  /\ UNCHANGED <<mainPc, rPc, start, wake, lastBlock, lastTs, blockTimes, requestCount, errorCount, loadWake, burst>>
  /\ UNCHANGED chainVars

-----------------------------------------------------------------------------
(* Time passes only while both coroutines are suspended: on a sleep       *)
(* before its end, or on posted calls that are not yet overdue.           *)
MonitorSuspended ==
  \/ rPc = "sleep" /\ now < wake
  \/ rPc \in {"first", "poll"} /\ now < wake + Timeout
  \/ mainPc = "end"

LoadSuspended ==
  \/ loadPc \in {"none", "cancelled"}
  \/ loadPc = "sleep" /\ now < loadWake
  \/ /\ loadPc = "gather"
     /\ \E i \in DOMAIN burst : burst[i].st = "posted"
     /\ \A i \in DOMAIN burst : burst[i].st = "done" \/ (burst[i].st = "posted" /\ now < burst[i].at + Timeout)

MonitorStep ==
  \/ MonBegin \/ FirstAnswer \/ FirstFails \/ MonSleep \/ MonPoll \/ PollAnswer
  \/ PollFails \/ MonStop \/ ResetPhase \/ MainEnd

LoadStep ==
  \/ BuildBurst \/ StartBurst \/ (\E i \in DOMAIN burst : ResolveCall(i)) \/ EndBurst \/ LoadWake

Tick == AdvanceClock /\ MonitorSuspended /\ LoadSuspended /\ UNCHANGED rlVars

Block == ProduceBlock /\ UNCHANGED rlVars

Terminated == mainPc = "end" /\ UNCHANGED vars

(* The clock bound MaxTime is reached: the behaviour stops here.  MaxTime *)
(* is the latest tick by which main must have returned (see MainReturns). *)
ClockExhausted == now = MaxTime /\ UNCHANGED vars

Next == MonitorStep \/ LoadStep \/ Tick \/ Block \/ Terminated \/ ClockExhausted

Spec == Init /\ [][Next]_vars

(* main and the monitor are one coroutine, the load task another; the     *)
(* event loop runs each ready one in turn and aiohttp answers or raises   *)
(* within the timeout.  Block production gets no fairness.                *)
Fairness == WF_vars(MonitorStep) /\ WF_vars(LoadStep) /\ WF_vars(Tick)

FairSpec == Spec /\ Fairness

-----------------------------------------------------------------------------
(* Type invariant: a recorded block time is never zero, since equal       *)
(* one-second timestamps are recorded as the 85 ms target.               *)
RlTypeOK ==
  /\ ChainTypeOK
  /\ mainPc \in {"phase1", "phase2", "end"}
  /\ rPc \in {"idle", "first", "loop", "sleep", "poll", "done", "unreachable"}
  /\ loadPc \in {"none", "build", "gather", "sleep", "cancelled"}
  /\ {start, wake, lastBlock, lastTs, requestCount, errorCount, loadWake} \subseteq Nat
  /\ blockTimes \in Seq(Nat \ {0})
  /\ burst \in Seq([seen : Nat, st : {"created", "posted", "done"}, at : Nat])

(* The Load Test Stats, printed when the monitor ends (lines 186-189),     *)
(* never report more failed requests than RPC requests: the monitor, the   *)
(* burst calls and main's reset between the phases all move the shared    *)
(* request_count and error_count, calls fail before an answer, a first    *)
(* read fails and returns, and cancelled calls are not counted.            *)
ErrorsWithinRequests == errorCount <= requestCount

(* The calls of a burst mix the read methods, as the comment "Mix of      *)
(* different read operations" and the rotation through                    *)
(* request_count % len(methods) intend.                                   *)
BurstMixesMethods ==
  loadPc = "gather" =>
    \E i, j \in DOMAIN burst : burst[i].seen % NumMethods # burst[j].seen % NumMethods

(* Both phases end by their deadlines: although the load task never       *)
(* leaves its while True and polls may fail, main returns by MaxTime.     *)
MainReturns == <>(mainPc = "end")
=============================================================================
