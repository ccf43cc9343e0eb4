------------------------ MODULE BlockMonitorOriginal ------------------------
(***************************************************************************)
(* monitor_blocks of src/stress_test_blocktime.py: the same polling loop  *)
(* as BlockMonitor, but a detected advance fetches the new block's chain  *)
(* timestamp (whole seconds) and appends a single sample, the timestamp   *)
(* difference in ms, or 85 when both blocks fall in the same second; no  *)
(* sample is taken until a first timestamp is known.                      *)
(***************************************************************************)
EXTENDS BlockMonitor

VARIABLE lastTs   \* last_timestamp; 0 stands for None (both are falsy)

(* Chain timestamps are whole epoch seconds, int(block['timestamp'], 16); *)
(* the model's epoch starts at second 1, so a timestamp is never 0.       *)
Timestamp(h) == 1 + (bornAt[h] * MsPerTick) \div 1000

(* On any advance, get_block_by_number(current) gives its timestamp; if   *)
(* last_timestamp is set one sample is appended.  blocks_produced grows   *)
(* by one whatever the advance.  lastTime is history only here.           *)
PollOriginal ==
  /\ mPc = "poll"
  /\ IF Height > lastBlock
       THEN LET ts == Timestamp(Height)
                ms == IF ts - lastTs = 0 THEN 85 ELSE (ts - lastTs) * 1000
            IN  /\ blockTimes' = IF lastTs > 0
                                   THEN Append(blockTimes, <<ms, 1>>)
                                   ELSE blockTimes
                /\ lastBlock' = Height
                /\ lastTs' = ts
                /\ lastTime' = now
       ELSE UNCHANGED <<blockTimes, lastBlock, lastTs, lastTime>>
  /\ mPc' = "loop"
  /\ UNCHANGED <<mStart, mWake, firstBlock, firstTime>>
  /\ UNCHANGED chainVars

Shared ==
  \/ MonBegin \/ FirstHeight \/ FirstHeightFails
  \/ MonSleep \/ MonFinish \/ MonPoll \/ PollFails
  \/ Tick \/ Block \/ Terminated

OrigNext == (Shared /\ UNCHANGED lastTs) \/ PollOriginal

OrigInit == Init /\ lastTs = 0

OrigSpec == OrigInit /\ [][OrigNext]_<<vars, lastTs>>
=============================================================================
