-------------------------- MODULE Orchestrator20k --------------------------
(***************************************************************************)
(* run_full_test of src/stress_test_20k_tps.py: the phases of            *)
(* Orchestrator with the load task of LoadGenerator20k, and a verdict    *)
(* that also requires the achieved rate, sent / stress_duration.  The    *)
(* rate thresholds are given as sent counts over the load phase.          *)
(***************************************************************************)
EXTENDS Orchestrator

CONSTANT AcceptableSent   \* sent count of 15000 TPS over stress_duration

LG20 == INSTANCE LoadGenerator20k

LoadStep20k ==
  /\ oPc = "loaded"
  /\ LG20!LgNext20k
  /\ UNCHANGED <<monVars, oVars>>

(* Phase 3: if self.block_times is non-empty, the verdict on the mean     *)
(* and on actual_tps, the tiers tested in order.                          *)
Analyze20k ==
  /\ oPc = "analysis"
  /\ verdict' = IF blockTimes = <<>> THEN "none"
                ELSE IF MeanAtMost(TargetMs) /\ sent >= TargetSent THEN "target"
                ELSE IF MeanAtMost(AcceptableMs) /\ sent >= AcceptableSent THEN "acceptable"
                ELSE "failing"
  /\ oPc' = "done"
  /\ UNCHANGED <<chainVars, lgVars, monVars>>

OSuspended20k ==
  \/ oPc \in {"unreachable", "aborted", "done"}
  \/ oPc = "baseline" /\ MON(BaselineDuration)!MonSuspended /\ mPc \notin {"done", "failed"}
  \/ oPc = "loaded" /\ MON(MonitorDuration)!MonSuspended /\ LG20!LgSuspended20k
     /\ mPc # "failed" /\ ~(lgPc = "done" /\ mPc = "done")

Tick20k == LG!AdvanceClock /\ OSuspended20k /\ UNCHANGED <<lgVars, monVars, oVars>>

ONext20k ==
  \/ Connect \/ BaselineMonitorStep \/ LoadedMonitorStep \/ LoadStep20k
  \/ StartLoaded \/ EndLoaded \/ Abort \/ Analyze20k \/ Tick20k \/ Block
  \/ Terminated \/ ClockExhausted

Spec20k == OInit /\ [][ONext20k]_vars

(* The fairness of Orchestrator, with the paced load loop and its clock.  *)
Fairness20k ==
  /\ WF_vars(Connect \/ StartLoaded \/ EndLoaded \/ Abort \/ Analyze20k)
  /\ WF_vars(BaselineMonitorStep) /\ WF_vars(LoadedMonitorStep)
  /\ WF_vars(LoadStep20k) /\ WF_vars(Tick20k)

FairSpec20k == Spec20k /\ Fairness20k

=============================================================================
