------------------------- MODULE AutoScaleLoadProofs -------------------------
(***************************************************************************)
(* The safety properties of AutoScaleLoad for every value of the limits, the *)
(* water marks and the load.                                                 *)
(***************************************************************************)
EXTENDS AutoScaleLoad, AutoScaleProofs

Inv == /\ WithinLimits
       /\ active_threads \in Nat
       /\ queue_size \in Nat

LEMMA InvHolds == Spec => []Inv
<1>1. Init => Inv
  BY LimitsAssumption, LoadAssumption DEF Init, Inv, WithinLimits
<1>2. Inv /\ [Next]_vars => Inv'
  <2> SUFFICES ASSUME Inv, [Next]_vars PROVE Inv'
    OBVIOUS
  <2> USE LimitsAssumption, LoadAssumption DEF Inv, WithinLimits
  <2>1. CASE Arrive \/ TakeUp \/ Complete \/ BecomeSteady \/ Replace
    BY <2>1 DEF Arrive, TakeUp, Complete, BecomeSteady, Replace, Submit
  <2>2. CASE TooEarly \/ Keep
    BY <2>2 DEF TooEarly, Keep, Check
  <2>3. CASE Grow
    BY <2>3, SizesWithinLimits DEF Grow, Check
  <2>4. CASE Shrink
    BY <2>4, SizesWithinLimits DEF Shrink, Check
  <2>5. CASE UNCHANGED vars
    BY <2>5 DEF vars
  <2> QED
    BY <2>1, <2>2, <2>3, <2>4, <2>5 DEF Next, MakeCheck
<1> QED
  BY <1>1, <1>2, PTL DEF Spec

(* The pool stays within its limits under every history of the load          *)
(* (thread_pool_auto_scale).                                                 *)
THEOREM PoolWithinLimits == Spec => []WithinLimits
<1>1. Inv => WithinLimits
  BY DEF Inv
<1> QED
  BY <1>1, InvHolds, PTL

(* A check is never undone by the next one at the same load, whatever the    *)
(* limits (thread_pool_auto_scale).                                          *)
THEOREM ChecksDoNotFlap == Spec => NoFlapping
<1> DEFINE Steady == /\ (thread_count' > thread_count) =>
                          ~ ScaleDown(thread_count', active_threads', queue_size')
                     /\ (thread_count' < thread_count) =>
                          ~ LoadAbove(active_threads', thread_count')
<1>1. Inv /\ [Next]_vars => [Steady]_vars
  <2> SUFFICES ASSUME Inv, Next PROVE Steady
    OBVIOUS
  <2> USE LimitsAssumption DEF Inv, WithinLimits
  <2>1. CASE Arrive \/ TakeUp \/ Complete \/ BecomeSteady \/ Replace
    BY <2>1 DEF Arrive, TakeUp, Complete, BecomeSteady, Replace, Submit
  <2>2. CASE TooEarly \/ Keep
    BY <2>2 DEF TooEarly, Keep, Check
  <2>3. CASE Grow
    BY <2>3, SizesWithinLimits, GrowthIsNotUndone
       DEF Grow, Check, ScaleUp, ScaleDown
  <2>4. CASE Shrink
    BY <2>4, SizesWithinLimits, ShrinkingIsNotUndone
       DEF Shrink, Check, ScaleDown
  <2> QED
    BY <2>1, <2>2, <2>3, <2>4 DEF Next, MakeCheck
<1> QED
  BY <1>1, InvHolds, PTL DEF Spec, NoFlapping
=============================================================================
