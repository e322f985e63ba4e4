---------------------------- MODULE AutoScaleLoad ----------------------------
(***************************************************************************)
(* The sizing rule under a changing load, at the pool's real limits          *)
(* (4..32 threads).  The state is what thread_pool_auto_scale reads: the     *)
(* size of the pool, how many of its threads are active and how many         *)
(* connections are queued.  The rule has no timer of its own: the only call  *)
(* of thread_pool_auto_scale is the last statement of thread_pool_add_task,  *)
(* so a check belongs to a submission and there is none without one.         *)
(* ThreadPool interleaves the same checks with the workers one by one, on a  *)
(* small pool.                                                               *)
(***************************************************************************)
EXTENDS AutoScale

CONSTANTS InitialThreads,  \* THREAD_POOL_INITIAL_SIZE
          MaxQueued        \* bound on the connections queued at once

ASSUME LoadAssumption ==
    /\ InitialThreads \in MinThreads .. MaxThreads
    /\ MaxQueued \in Nat

VARIABLES thread_count, active_threads, queue_size,
          check_due,  \* thread_pool_add_task has unlocked and is about to check
          steady      \* every connection that completes is replaced by a new one

vars == <<thread_count, active_threads, queue_size, check_due, steady>>

Init == /\ thread_count = InitialThreads
        /\ active_threads = 0
        /\ queue_size = 0
        /\ check_due = FALSE
        /\ steady = FALSE

(* thread_pool_add_task up to its unlock.  One thread submits, and it makes  *)
(* the check before it submits again.                                        *)
Submit == /\ ~ check_due
          /\ queue_size' = queue_size + 1
          /\ check_due' = TRUE

Arrive == /\ ~ steady
          /\ queue_size < MaxQueued
          /\ Submit
          /\ UNCHANGED <<thread_count, active_threads, steady>>

(* A worker picks up a queued connection.                                    *)
TakeUp == /\ queue_size > 0
          /\ active_threads < thread_count
          /\ active_threads' = active_threads + 1
          /\ queue_size' = queue_size - 1
          /\ UNCHANGED <<thread_count, check_due, steady>>

Complete == /\ ~ steady
            /\ active_threads > 0
            /\ active_threads' = active_threads - 1
            /\ UNCHANGED <<thread_count, queue_size, check_due, steady>>

(* From here on the server has the same number of clients.                   *)
BecomeSteady == /\ ~ steady
                /\ steady' = TRUE
                /\ UNCHANGED <<thread_count, active_threads, queue_size, check_due>>

(* Under a steady load a connection is served and its client submits the     *)
(* next.  Serving takes longer than picking up: no idle worker is left       *)
(* beside a queued connection meanwhile.                                     *)
Replace == /\ steady
           /\ active_threads > 0
           /\ queue_size = 0 \/ active_threads >= thread_count
           /\ active_threads' = active_threads - 1
           /\ Submit
           /\ UNCHANGED <<thread_count, steady>>

----------------------------------------------------------------------------
(* thread_pool_auto_scale.                                                   *)

Check == /\ check_due
         /\ check_due' = FALSE
         /\ UNCHANGED <<active_threads, queue_size, steady>>

(* The last check is less than THREAD_POOL_SCALE_INTERVAL ago.               *)
TooEarly == Check /\ UNCHANGED thread_count

(* pthread_create may fail for one of the new threads, and the loop then     *)
(* stops at the threads created so far.                                      *)
Grow == /\ ScaleUp(thread_count, active_threads, queue_size)
        /\ thread_count' \in thread_count .. GrownCount(thread_count)
        /\ Check

GrowFully == Grow /\ thread_count' = GrownCount(thread_count)

Shrink == /\ ScaleDown(thread_count, active_threads, queue_size)
          /\ thread_count' = ShrunkCount(thread_count)
          /\ Check

Keep == /\ ~ ScaleUp(thread_count, active_threads, queue_size)
        /\ ~ ScaleDown(thread_count, active_threads, queue_size)
        /\ UNCHANGED thread_count
        /\ Check

MakeCheck == Grow \/ Shrink \/ Keep

Next == Arrive \/ TakeUp \/ Complete \/ BecomeSteady \/ Replace \/ TooEarly \/ MakeCheck

Spec == Init /\ [][Next]_vars

(* Workers run, clients of a steady load come back, the main thread makes    *)
(* the check it is about to make, and of the checks that submissions keep    *)
(* bringing some fall after the interval; pthread_create does not fail at    *)
(* every growth.  Nothing makes a check happen without a submission.         *)
FairSpec == /\ Spec
            /\ WF_vars(TakeUp) /\ WF_vars(Replace)
            /\ WF_vars(TooEarly \/ MakeCheck) /\ SF_vars(MakeCheck)
            /\ []<><<Grow>>_vars => []<><<GrowFully>>_vars
----------------------------------------------------------------------------

(* Whatever the history of the load, the rule keeps the pool within the      *)
(* limits of config.h (4 to 32 threads).                                     *)
WithinLimits == thread_count \in MinThreads .. MaxThreads

(* No flapping: a check that grew the pool is not followed, at the same load, *)
(* by one that shrinks it, and the other way round.  The rounding of both    *)
(* size formulas and the gap between the two thresholds decide this.         *)
NoFlapping ==
    [][ /\ (thread_count' > thread_count) =>
               ~ ScaleDown(thread_count', active_threads', queue_size')
        /\ (thread_count' < thread_count) =>
               ~ LoadAbove(active_threads', thread_count') ]_vars

(* Under a steady load the resizing ends: neither size formula has a fixed   *)
(* point short of its limit at which checks would grow or shrink the pool    *)
(* for ever, and no two checks of the turnover, which see one connection     *)
(* more or less in the queue, undo each other.                               *)
Settles == <>[][steady => ~ (Grow \/ Shrink)]_vars

(* One client at a time, coming back again and again, brings the pool to its *)
(* minimum, and a load that keeps more than HighWater connections queued     *)
(* even on a full pool brings it to its maximum.                             *)
ReachesItsLimits ==
    /\ [](steady /\ active_threads + queue_size = 1
             => <>[](thread_count = MinThreads))
    /\ [](steady /\ active_threads + queue_size > MaxThreads + HighWater
             => <>[](thread_count = MaxThreads))

=============================================================================
