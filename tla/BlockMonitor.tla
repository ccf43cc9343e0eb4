---------------------------- MODULE BlockMonitor ----------------------------
(***************************************************************************)
(* The block-cadence sampler: monitor_blocks of                           *)
(* src/stress_test_blocktime_fixed.py (the same code is in                *)
(* src/stress_test_20k_tps.py).  The timestamp-based monitor of           *)
(* src/stress_test_blocktime.py is BlockMonitorOriginal.                  *)
(*                                                                         *)
(* The monitor reads the height once, then until its deadline sleeps one  *)
(* poll period and reads the height again.  On a height advance of Delta  *)
(* blocks it appends Delta samples, each the time since the previous      *)
(* detection divided by Delta.  A failed poll is swallowed; a failed      *)
(* first read escapes monitor_blocks.                                     *)
(*                                                                         *)
(* A sample is kept exactly, as a pair <<num, den>> meaning num/den ms.   *)
(***************************************************************************)
EXTENDS Chain, SequencesExt

CONSTANTS
  MonDuration,    \* duration_seconds, in ticks
  PollTicks,      \* asyncio.sleep(0.02), in ticks
  MsPerTick,      \* milliseconds per tick
  Timeout         \* ticks within which a poll resolves (answer or error)

ASSUME MonDuration \in Nat /\ PollTicks \in Nat \ {0} /\ Timeout \in Nat \ {0}
ASSUME MsPerTick \in Nat \ {0} /\ 1000 % MsPerTick = 0

VARIABLES
  mPc,            \* where monitor_blocks is
  mStart,         \* start_time
  lastBlock,      \* last_block
  lastTime,       \* last_block_time (perf_counter at the last detection)
  mWake,          \* when the current sleep ends / the current read was posted
  blockTimes,     \* self.block_times
  firstBlock,     \* history: the height read first
  firstTime       \* history: when it was read

monVars == <<mPc, mStart, lastBlock, lastTime, mWake, blockTimes,
             firstBlock, firstTime>>
vars == <<chainVars, monVars>>

-----------------------------------------------------------------------------
MonInit ==
  /\ mPc = "idle"
  /\ mStart = 0 /\ lastBlock = 0 /\ lastTime = 0 /\ mWake = 0
  /\ blockTimes = <<>>
  /\ firstBlock = 0 /\ firstTime = 0

(* start_time = time.time(), then the first get_block_height is posted.   *)
MonBegin ==
  /\ mPc = "idle"
  /\ mStart' = now
  /\ mWake' = now
  /\ mPc' = "first"
  /\ UNCHANGED <<lastBlock, lastTime, blockTimes, firstBlock, firstTime>>
  /\ UNCHANGED chainVars

(* The first read answers: last_block and last_block_time are set.       *)
FirstHeight ==
  /\ mPc = "first"
  /\ lastBlock' = Height /\ firstBlock' = Height
  /\ lastTime' = now /\ firstTime' = now
  /\ mPc' = "loop"
  /\ UNCHANGED <<mStart, mWake, blockTimes>>
  /\ UNCHANGED chainVars

(* The first read is outside the try: its exception escapes the monitor.  *)
FirstHeightFails ==
  /\ mPc = "first"
  /\ mPc' = "failed"
  /\ UNCHANGED <<mStart, lastBlock, lastTime, mWake, blockTimes, firstBlock, firstTime>>
  /\ UNCHANGED chainVars

(* Mutant: the deadline test admits one more poll.                        *)
MonSleepLate ==
  /\ mPc = "loop"
  /\ now - mStart <= MonDuration
  /\ mWake' = now + PollTicks
  /\ mPc' = "sleep"
  /\ UNCHANGED <<mStart, lastBlock, lastTime, blockTimes, firstBlock, firstTime>>
  /\ UNCHANGED chainVars

(* The while test passes: await asyncio.sleep(poll period).               *)
MonSleep ==
  /\ mPc = "loop"
  /\ now - mStart < MonDuration
  /\ mWake' = now + PollTicks
  /\ mPc' = "sleep"
  /\ UNCHANGED <<mStart, lastBlock, lastTime, blockTimes, firstBlock, firstTime>>
  /\ UNCHANGED chainVars

(* The while test fails: monitor_blocks returns blocks_produced.          *)
MonFinish ==
  /\ mPc = "loop"
  /\ now - mStart >= MonDuration
  /\ mPc' = "done"
  /\ UNCHANGED <<mStart, lastBlock, lastTime, mWake, blockTimes, firstBlock, firstTime>>
  /\ UNCHANGED chainVars

(* The sleep ends and get_block_height is posted.                         *)
MonPoll ==
  /\ mPc = "sleep"
  /\ now >= mWake
  /\ mPc' = "poll"
  /\ UNCHANGED <<mStart, lastBlock, lastTime, mWake, blockTimes, firstBlock, firstTime>>
  /\ UNCHANGED chainVars

(* Mutant: last_block_time is not moved to the detection.                *)
PollFixedStale ==
  /\ mPc = "poll"
  /\ IF Height > lastBlock
       THEN LET diff == Height - lastBlock
            IN  /\ blockTimes' = blockTimes \o [k \in 1..diff |-> <<(now - lastTime) * MsPerTick, diff>>]
                /\ lastBlock' = Height
       ELSE UNCHANGED <<blockTimes, lastBlock>>
  /\ mPc' = "loop"
  /\ UNCHANGED <<mStart, mWake, firstBlock, firstTime, lastTime>>
  /\ UNCHANGED chainVars

(* Mutant: the elapsed time is taken the wrong way round.                 *)
PollFixedSwapped ==
  /\ mPc = "poll"
  /\ IF Height > lastBlock
       THEN LET diff == Height - lastBlock
            IN  /\ blockTimes' = blockTimes \o [k \in 1..diff |-> <<(lastTime - now) * MsPerTick, diff>>]
                /\ lastBlock' = Height
                /\ lastTime' = now
       ELSE UNCHANGED <<blockTimes, lastBlock, lastTime>>
  /\ mPc' = "loop"
  /\ UNCHANGED <<mStart, mWake, firstBlock, firstTime>>
  /\ UNCHANGED chainVars

(* Fixed variant: the height answers.  On an advance of blocks_diff, the  *)
(* elapsed time since the previous detection is attributed evenly: that  *)
(* many samples of time_diff_ms / blocks_diff each.                       *)
PollFixed ==
  /\ mPc = "poll"
  /\ IF Height > lastBlock
       THEN LET diff == Height - lastBlock
                sample == <<(now - lastTime) * MsPerTick, diff>>
            IN  /\ blockTimes' = blockTimes \o [k \in 1..diff |-> sample]
                /\ lastBlock' = Height
                /\ lastTime' = now
       ELSE UNCHANGED <<blockTimes, lastBlock, lastTime>>
  /\ mPc' = "loop"
  /\ UNCHANGED <<mStart, mWake, firstBlock, firstTime>>
  /\ UNCHANGED chainVars

(* A poll raises (transport error, error reply): printed and swallowed.   *)
PollFails ==
  /\ mPc = "poll"
  /\ mPc' = "loop"
  /\ UNCHANGED <<mStart, lastBlock, lastTime, mWake, blockTimes, firstBlock, firstTime>>
  /\ UNCHANGED chainVars

-----------------------------------------------------------------------------
(* The clock advances only while the monitor is suspended: asleep, or     *)
(* waiting on a read that has not yet timed out.                          *)
MonSuspended ==
  \/ mPc = "sleep" /\ now < mWake
  \/ mPc \in {"first", "poll"} /\ now < mWake + Timeout
  \/ mPc \in {"done", "failed"}

MonNext ==
  \/ MonBegin \/ FirstHeight \/ FirstHeightFails
  \/ MonSleep \/ MonFinish \/ MonPoll
  \/ PollFixed \/ PollFails

Tick == AdvanceClock /\ MonSuspended /\ UNCHANGED monVars

Block == ProduceBlock /\ UNCHANGED monVars

Terminated == mPc \in {"done", "failed"} /\ UNCHANGED vars

Next == MonNext \/ Tick \/ Block \/ Terminated

Init == ChainInit /\ MonInit

Spec == Init /\ [][Next]_vars

-----------------------------------------------------------------------------
MonTypeOK ==
  /\ ChainTypeOK
  /\ mPc \in {"idle", "first", "loop", "sleep", "poll", "done", "failed"}
  /\ {mStart, lastBlock, lastTime, mWake, firstBlock, firstTime} \subseteq Nat
  /\ blockTimes \in Seq(Nat \X (Nat \ {0}))

(* Exact sum of num/den pairs, as a pair.                                 *)
AddRat(r, s) == <<r[1] * s[2] + s[1] * r[2], r[2] * s[2]>>
SumMs(seq) == FoldLeft(AddRat, <<0, 1>>, seq)

(* The samples account for the observed window exactly: one sample per    *)
(* block between the first height read and the last detected height, and  *)
(* together they add up to the time between that first read and the last *)
(* detection, so their mean is elapsed time over blocks even when polls   *)
(* skip blocks or fail (monitor_blocks, the blocks_diff loop).            *)
WindowAccounted ==
  mPc \in {"loop", "sleep", "poll", "done"} =>
    /\ Len(blockTimes) = lastBlock - firstBlock
    /\ LET s == SumMs(blockTimes)
       IN  s[1] = (lastTime - firstTime) * MsPerTick * s[2]
=============================================================================
