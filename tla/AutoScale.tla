------------------------------ MODULE AutoScale ------------------------------
(***************************************************************************)
(* The sizing rule of the server's thread pool: when thread_pool_auto_scale *)
(* grows or shrinks the pool and to which size.  Pure operators, shared by   *)
(* the pool itself (ThreadPool) and by the study of the rule at the real     *)
(* limits (AutoScaleLoad).                                                   *)
(***************************************************************************)
EXTENDS Naturals

CONSTANTS MinThreads,   \* THREAD_POOL_MIN_SIZE
          MaxThreads,   \* THREAD_POOL_MAX_SIZE
          HighWater,    \* THREAD_POOL_QUEUE_HIGH_WATER
          LowWater      \* THREAD_POOL_QUEUE_LOW_WATER

ASSUME LimitsAssumption ==
    /\ MinThreads \in Nat \ {0}
    /\ MaxThreads \in Nat
    /\ MinThreads <= MaxThreads
    /\ HighWater \in Nat
    /\ LowWater \in Nat

AtMost(n, limit)  == IF n > limit THEN limit ELSE n
AtLeast(n, limit) == IF n < limit THEN limit ELSE n

(***************************************************************************)
(* load_ratio > 0.6.  The quotient is a float and the threshold a double: a  *)
(* ratio of exactly 3/5 is rounded to 0.60000002384..., which is greater     *)
(* than 0.6, so the test holds from 60% on and not only above it.            *)
(***************************************************************************)
LoadAbove(active, count) == 5 * active >= 3 * count

(* A slip for the mutation runs: the shrink threshold above the growth one.  *)
LoadBelowEighty(active, count) == 10 * active < 8 * count

(* load_ratio < 0.3; 3/10 is rounded upwards too, so this one is strict.     *)
LoadBelow(active, count) == 10 * active < 3 * count

ScaleUp(count, active, queued) ==
    /\ LoadAbove(active, count)
    /\ queued > HighWater
    /\ count < MaxThreads

ScaleDown(count, active, queued) ==
    /\ ~ ScaleUp(count, active, queued)
    /\ LoadBelow(active, count)
    /\ queued < LowWater
    /\ count > MinThreads

----------------------------------------------------------------------------
(* Slips in the thresholds and size formulas, for the mutation runs.         *)
UncappedGrowth(count) == ((count * 3) + 1) \div 2
UncappedDoubling(count) == count * 2
GrowthByEighth(count) == AtMost((count * 9) \div 8, MaxThreads)
ShrinkByTenth(count) == AtLeast(((count * 9) + 9) \div 10, MinThreads)
----------------------------------------------------------------------------

(* Scale up by 50%, rounded up, and never past the maximum.                  *)
GrownCount(count) == AtMost(((count * 3) + 1) \div 2, MaxThreads)

(* Scale down by 25% and never below the minimum.                            *)
ShrunkCount(count) == AtLeast(((count * 3) + 1) \div 4, MinThreads)

=============================================================================
