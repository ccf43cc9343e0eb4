---------------------------- MODULE Orchestrator ----------------------------
(***************************************************************************)
(* run_full_test of src/stress_test_blocktime_fixed.py: a baseline        *)
(* monitor_blocks alone, then self.block_times is reset and the load      *)
(* phase (LoadGenerator) and a fresh monitor_blocks (BlockMonitor) run as *)
(* two tasks under one asyncio.gather; then the loaded samples are        *)
(* reduced to a mean and a verdict.  The two tasks share the chain and    *)
(* the clock; the monitor owns self.block_times, the load task tx_results. *)
(***************************************************************************)
EXTENDS Naturals, Sequences, FiniteSets

CONSTANTS
  Accounts, MaxHeight, MaxTime, InitNonces, PriorPending,
  SenderCap, TxPerBatch, Duration, BatchDelay, Timeout, Unreliable,
  PollTicks, MsPerTick,
  BaselineDuration,   \* monitor_blocks(30)
  MonitorDuration,    \* monitor_duration (45)
  TargetMs,           \* 85
  AcceptableMs,       \* 100
  TargetSent          \* sent count of the target throughput over Duration

VARIABLES
  now, bornAt, confirmed, pool,
  lgPc, nonceCounters, tasks, sent, failed, lgStart, batchStart, wakeAt,
  mPc, mStart, lastBlock, lastTime, mWake, blockTimes, firstBlock, firstTime,
  oPc,                \* where run_full_test is
  verdict             \* the VERDICT printed, "none" if none

chainVars == <<now, bornAt, confirmed, pool>>
lgVars == <<lgPc, nonceCounters, tasks, sent, failed, lgStart, batchStart, wakeAt>>
monVars == <<mPc, mStart, lastBlock, lastTime, mWake, blockTimes, firstBlock, firstTime>>
oVars == <<oPc, verdict>>
vars == <<chainVars, lgVars, monVars, oVars>>

LG == INSTANCE LoadGenerator
MON(d) == INSTANCE BlockMonitor WITH MonDuration <- d

Verdicts == {"none", "target", "acceptable", "failing"}

(* statistics.mean(self.block_times), compared exactly: mean <= x iff the *)
(* sum of the num/den samples is at most x times their number.           *)
MeanAtMost(x) ==
  LET s == MON(MonitorDuration)!SumMs(blockTimes)
  IN  s[1] <= x * Len(blockTimes) * s[2]

-----------------------------------------------------------------------------
OInit ==
  /\ LG!ChainInit /\ LG!LgInit /\ MON(BaselineDuration)!MonInit
  /\ oPc = "connect" /\ verdict = "none"

(* web3.is_connected(): on success phase 1 begins; otherwise it returns.  *)
Connect ==
  /\ oPc = "connect"
  /\ oPc' \in {"baseline", "unreachable"}
  /\ UNCHANGED <<chainVars, lgVars, monVars, verdict>>

(* A step of monitor_blocks(30), phase 1.                                 *)
BaselineMonitorStep ==
  /\ oPc = "baseline"
  /\ MON(BaselineDuration)!MonNext
  /\ UNCHANGED <<lgVars, oVars>>

(* A step of monitor_blocks(monitor_duration), phase 2.                   *)
LoadedMonitorStep ==
  /\ oPc = "loaded"
  /\ MON(MonitorDuration)!MonNext
  /\ UNCHANGED <<lgVars, oVars>>

(* A step of the load task, during phase 2 only.                          *)
LoadStep ==
  /\ oPc = "loaded"
  /\ LG!LgNext
  /\ UNCHANGED <<monVars, oVars>>

(* Phase 1 returned: self.block_times = [] and both phase-2 tasks are     *)
(* created; the second monitor_blocks call starts with fresh locals.       *)
StartLoadedFrom(kept) ==
  /\ oPc = "baseline" /\ mPc = "done"
  /\ mPc' = "idle"
  /\ mStart' = 0 /\ lastBlock' = 0 /\ lastTime' = 0 /\ mWake' = 0
  /\ firstBlock' = 0 /\ firstTime' = 0
  /\ blockTimes' = kept
  /\ oPc' = "loaded"
  /\ UNCHANGED <<chainVars, lgVars, verdict>>

(* Mutant: the "Reset for stress test" line is missing.                   *)
StartLoadedNoReset == StartLoadedFrom(blockTimes)

StartLoaded == StartLoadedFrom(<<>>)

(* Mutant: only the monitor task is awaited.                              *)
EndLoadedMonitorOnly ==
  /\ oPc = "loaded" /\ mPc = "done"
  /\ oPc' = "analysis"
  /\ UNCHANGED <<chainVars, lgVars, monVars, verdict>>

(* asyncio.gather(stress_task, monitor_task) returns once both are done.  *)
EndLoaded ==
  /\ oPc = "loaded" /\ lgPc = "done" /\ mPc = "done"
  /\ oPc' = "analysis"
  /\ UNCHANGED <<chainVars, lgVars, monVars, verdict>>

(* A monitor's first read raised: the exception leaves run_full_test.     *)
Abort ==
  /\ oPc \in {"baseline", "loaded"} /\ mPc = "failed"
  /\ oPc' = "aborted"
  /\ UNCHANGED <<chainVars, lgVars, monVars, verdict>>

(* Phase 3: only if self.block_times is non-empty, the verdict on the    *)
(* mean block time alone.                                                 *)
Analyze ==
  /\ oPc = "analysis"
  /\ verdict' = IF blockTimes = <<>> THEN "none"
                ELSE IF MeanAtMost(TargetMs) THEN "target"
                ELSE IF MeanAtMost(AcceptableMs) THEN "acceptable"
                ELSE "failing"
  /\ oPc' = "done"
  /\ UNCHANGED <<chainVars, lgVars, monVars>>

-----------------------------------------------------------------------------
(* Time passes only while run_full_test awaits: a phase's tasks are all   *)
(* suspended and the gather has neither returned nor raised (a failed    *)
(* monitor raises at once).                                               *)
OSuspended ==
  \/ oPc \in {"unreachable", "aborted", "done"}
  \/ oPc = "baseline" /\ MON(BaselineDuration)!MonSuspended /\ mPc \notin {"done", "failed"}
  \/ oPc = "loaded" /\ MON(MonitorDuration)!MonSuspended /\ LG!LgSuspended
     /\ mPc # "failed" /\ ~(lgPc = "done" /\ mPc = "done")

Tick == LG!AdvanceClock /\ OSuspended /\ UNCHANGED <<lgVars, monVars, oVars>>

Block == LG!ProduceBlock /\ UNCHANGED <<lgVars, monVars, oVars>>

Terminated == oPc \in {"unreachable", "aborted", "done"} /\ UNCHANGED vars

(* The model's clock has reached its bound MaxTime: the behaviour stops.  *)
(* MaxTime is the latest tick by which the code must have returned, so a  *)
(* run still going here has overrun its deadlines (see RunEnds).          *)
ClockExhausted == now = MaxTime /\ UNCHANGED vars

ONext ==
  \/ Connect \/ BaselineMonitorStep \/ LoadedMonitorStep \/ LoadStep \/ StartLoaded \/ EndLoaded \/ Abort
  \/ Analyze \/ Tick \/ Block \/ Terminated \/ ClockExhausted

Spec == OInit /\ [][ONext]_vars

(* One event loop runs every ready coroutine in turn (FIFO), so each of   *)
(* run_full_test, the monitor task and the load task gets weak fairness;  *)
(* time passes once all of them are suspended; aiohttp bounds each        *)
(* request by its timeout (the Tick guards).  Block production gets none: *)
(* a stalled chain is a legal environment.                                *)
Fairness ==
  /\ WF_vars(Connect \/ StartLoaded \/ EndLoaded \/ Abort \/ Analyze)
  /\ WF_vars(BaselineMonitorStep) /\ WF_vars(LoadedMonitorStep)
  /\ WF_vars(LoadStep) /\ WF_vars(Tick)

FairSpec == Spec /\ Fairness

-----------------------------------------------------------------------------
OTypeOK ==
  /\ LG!LgTypeOK
  /\ MON(MonitorDuration)!MonTypeOK
  /\ oPc \in {"connect", "baseline", "loaded", "analysis", "done", "unreachable", "aborted"}
  /\ verdict \in Verdicts

(* The loaded statistics come from the loaded window only: once phase 2  *)
(* runs, self.block_times holds one sample per block the phase-2 monitor *)
(* saw, adding up to its observed time; no baseline sample carries over. *)
LoadedWindowAccounted ==
  oPc \in {"loaded", "analysis", "done"} => MON(MonitorDuration)!WindowAccounted

(* Spec 5: tx_results is read only after the load task drained: when the *)
(* analysis runs, the loop has returned and every batch task has counted. *)
AnalysisAfterDrain ==
  oPc = "analysis" =>
    /\ lgPc = "done"
    /\ \A i \in DOMAIN tasks : tasks[i].counted

(* run_full_test returns within its deadlines: whether the chain stalls, *)
(* polls fail or requests are lost, it reaches a verdict, an abort or the *)
(* unreachable exit by MaxTime, the sum over both phases of the monitor's *)
(* duration, one last poll period and one request timeout (spec 4.3).     *)
RunEnds == <>(oPc \in {"done", "aborted", "unreachable"})

(* Spec 4.3 and 7: a stalled chain is a reportable outcome and the        *)
(* harness never exits without a verdict.  run_full_test, once both       *)
(* phases have finished, always reports one, "no data" included.          *)
VerdictGiven == oPc = "done" => verdict # "none"
=============================================================================
