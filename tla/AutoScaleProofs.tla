--------------------------- MODULE AutoScaleProofs ---------------------------
(***************************************************************************)
(* Facts about the sizing rule, for every value of its parameters.           *)
(***************************************************************************)
EXTENDS AutoScale, TLAPS

(* The sizes the rule computes stay within the limits: growth does not pass  *)
(* the maximum, shrinking does not pass the minimum (GrownCount and          *)
(* ShrunkCount of thread_pool_auto_scale).                                   *)
LEMMA SizesWithinLimits ==
    ASSUME NEW count \in MinThreads .. MaxThreads
    PROVE  /\ GrownCount(count) \in count .. MaxThreads
           /\ ShrunkCount(count) \in MinThreads .. count
  BY LimitsAssumption DEF GrownCount, ShrunkCount, AtMost, AtLeast

(* A load that makes a check grow the pool, to the full new size or to what  *)
(* the system had threads for, is not low enough for the next check to       *)
(* shrink it (the thresholds of thread_pool_auto_scale).                     *)
LEMMA GrowthIsNotUndone ==
    ASSUME NEW count \in MinThreads .. MaxThreads, NEW active \in Nat,
           LoadAbove(active, count),
           NEW new \in count .. GrownCount(count)
    PROVE  ~ LoadBelow(active, new)
  BY LimitsAssumption DEF LoadAbove, LoadBelow, GrownCount, AtMost

(* A load that makes a check shrink the pool is not high enough for the next *)
(* check to grow it.                                                         *)
LEMMA ShrinkingIsNotUndone ==
    ASSUME NEW count \in MinThreads .. MaxThreads, NEW active \in Nat,
           count > MinThreads,
           LoadBelow(active, count)
    PROVE  ~ LoadAbove(active, ShrunkCount(count))
  BY LimitsAssumption DEF LoadAbove, LoadBelow, ShrunkCount, AtLeast
=============================================================================
