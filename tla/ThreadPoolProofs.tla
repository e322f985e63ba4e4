--------------------------- MODULE ThreadPoolProofs ---------------------------
(***************************************************************************)
(* Proofs about the thread pool, for every set of threads and connections    *)
(* and every value of the limits.                                            *)
(***************************************************************************)
EXTENDS ThreadPoolRefinement, AutoScaleProofs, SequenceTheorems, FiniteSetTheorems

(* A cancelled thread is one the pool created: pthread_cancel is only called *)
(* on counted slots.                                                         *)
CancelledWereCreated == \A t \in cancelled : pc[t] # "none"

(* The main thread is past its loop, or a thread past the pool's end, only   *)
(* after shutdown.                                                           *)
ShutdownKnown ==
    /\ main \in {"join", "freed"} => shutdown
    /\ \A t \in Threads : pc[t] = "wild" => shutdown

IInv == /\ TypeOK
        /\ ThreadCountWithinLimits
        /\ WorkersAccountedFor
        /\ CancelledWereCreated
        /\ ShutdownKnown
        /\ NoLostWakeup

----------------------------------------------------------------------------
(* pthread_cond_signal changes nothing but one waiter, and it finds one if   *)
(* there is one.                                                             *)
LEMMA SignalWakesOneWaiter ==
    ASSUME NEW w \in [Threads -> WorkerStates],
           NEW v \in Signalled(w)
    PROVE  /\ v \in [Threads -> WorkerStates]
           /\ \A t \in Threads :
                 v[t] = w[t] \/ (w[t] = "wait" /\ v[t] = "woken")
           /\ (\E t \in Threads : w[t] = "wait") =>
                 \E t \in Threads : v[t] = "woken"
<1> DEFINE waiting == {t \in Threads : w[t] = "wait"}
<1>1. CASE waiting = {}
  BY <1>1 DEF Signalled
<1>2. CASE waiting # {}
  <2>1. PICK s \in waiting : v = [w EXCEPT ![s] = "woken"]
    BY <1>2 DEF Signalled
  <2> QED
    BY <2>1 DEF WorkerStates
<1> QED
  BY <1>1, <1>2

LEMMA BroadcastWakesWaiters ==
    ASSUME NEW w \in [Threads -> WorkerStates]
    PROVE  /\ Broadcast(w) \in [Threads -> WorkerStates]
           /\ \A t \in Threads : \/ Broadcast(w)[t] = w[t]
                                 \/ w[t] = "wait" /\ Broadcast(w)[t] = "woken"
  BY DEF Broadcast, WorkerStates

(* How the slots 0 .. m - 1 and m .. n - 1 make up the slots 0 .. n - 1.     *)
LEMMA SlotRanges ==
    ASSUME NEW m \in Nat, NEW n \in Nat, m <= n
    PROVE  /\ 0 .. m - 1 \subseteq 0 .. n - 1
           /\ m .. n - 1 \subseteq 0 .. n - 1
           /\ \A i \in 0 .. m - 1 : i \notin m .. n - 1
           /\ \A i \in 0 .. n - 1 : i \in 0 .. m - 1 \/ i \in m .. n - 1
<1>1. 0 .. m - 1 \subseteq 0 .. n - 1
  OBVIOUS
<1>2. m .. n - 1 \subseteq 0 .. n - 1
  OBVIOUS
<1>3. \A i \in 0 .. m - 1 : i \notin m .. n - 1
  OBVIOUS
<1>4. \A i \in 0 .. n - 1 : i \in 0 .. m - 1 \/ i \in m .. n - 1
  OBVIOUS
<1> QED
  BY <1>1, <1>2, <1>3, <1>4

(* Steps that leave the slots alone keep them accounted for as long as no    *)
(* thread appears or disappears and no uncancelled worker ends before        *)
(* shutdown.                                                                 *)
LEMMA SlotsUntouched ==
    ASSUME TypeOK, WorkersAccountedFor, CancelledWereCreated,
           UNCHANGED <<threads, thread_count, cancelled>>,
           shutdown => shutdown',
           \A t \in Threads : pc'[t] = "none" <=> pc[t] = "none",
           \A t \in Threads \ cancelled :
              pc'[t] = "terminated" => pc[t] = "terminated" \/ shutdown'
    PROVE  WorkersAccountedFor' /\ CancelledWereCreated'
  BY DEF TypeOK, WorkersAccountedFor, CancelledWereCreated

(* Before shutdown the worker of slot 0 is alive and was not cancelled.      *)
LEMMA SomeWorkerLives ==
    ASSUME TypeOK, ThreadCountWithinLimits, WorkersAccountedFor, ShutdownKnown,
           ~ shutdown
    PROVE  \E t \in Threads \ cancelled :
              pc[t] \in {"ready", "wait", "woken", "serve", "account"}
<1>1. 0 \in 0 .. thread_count - 1
  BY LimitsAssumption DEF ThreadCountWithinLimits
<1>2. /\ threads[0] \in Threads \ cancelled
      /\ pc[threads[0]] \notin {"none", "terminated"}
  BY <1>1 DEF WorkersAccountedFor
<1>3. pc[threads[0]] \in WorkerStates \ {"none", "terminated", "wild"}
  BY <1>2 DEF TypeOK, ShutdownKnown
<1> QED
  BY <1>2, <1>3 DEF WorkerStates
LEMMA InitEstablishes == Init => IInv
<1> SUFFICES ASSUME Init PROVE IInv
  OBVIOUS
<1>1. PICK created \in Injection(0 .. InitialThreads - 1, Threads) :
        /\ threads = [i \in Slots |->
                        IF i < InitialThreads THEN created[i] ELSE NoThread]
        /\ pc = [t \in Threads |-> IF t \in Range(created) THEN "ready"
                                   ELSE "none"]
  BY DEF Init
<1>2. /\ created \in [0 .. InitialThreads - 1 -> Threads]
      /\ \A i, j \in 0 .. InitialThreads - 1 : created[i] = created[j] => i = j
      /\ \A i \in 0 .. InitialThreads - 1 : created[i] \in Range(created)
      /\ \A t \in Range(created) :
            \E i \in 0 .. InitialThreads - 1 : created[i] = t
  BY DEF Injection, IsInjective, Range
<1>3. \A i \in 0 .. InitialThreads - 1 : i \in Slots /\ threads[i] = created[i]
  BY <1>1, LimitsAssumption, PoolAssumption DEF Slots
<1>4. TypeOK /\ ThreadCountWithinLimits
  <2>1. threads \in [Slots -> Threads \cup {NoThread}]
    BY <1>1, <1>2, LimitsAssumption, PoolAssumption DEF Slots
  <2>2. pc \in [Threads -> WorkerStates]
    BY <1>1 DEF WorkerStates
  <2>3. queue \in Seq(Conns)
    BY DEF Init
  <2>4. thread_count \in Nat /\ ThreadCountWithinLimits
    BY LimitsAssumption, PoolAssumption DEF Init, ThreadCountWithinLimits
  <2>5. /\ perf \in [completed : Nat, total : Nat, min : Nat, max : Nat]
        /\ task \in [Threads -> Conns \cup {NoConn}]
        /\ conn \in [Conns -> ConnStates]
    BY DEF Init, ConnStates
  <2>6. /\ main \in MainStates /\ joined \in Nat /\ cancelled \subseteq Threads
        /\ queue_size \in Int /\ active_threads \in Int
    BY DEF Init, MainStates
  <2>7. {running, shutdown, interval_over} \subseteq BOOLEAN
    BY Zenon DEF Init
  <2> QED
    BY <2>1, <2>2, <2>3, <2>4, <2>5, <2>6, <2>7, Zenon DEF TypeOK
<1>5. WorkersAccountedFor
  <2>1. thread_count = InitialThreads /\ cancelled = {}
    BY DEF Init
  <2>2. \A i \in 0 .. InitialThreads - 1 :
          threads[i] \in Threads /\ pc[threads[i]] = "ready"
    BY <1>1, <1>2, <1>3
  <2>3. \A t \in Threads : pc[t] # "none" => t \in Range(created)
    BY <1>1
  <2> QED
    BY <1>2, <1>3, <2>1, <2>2, <2>3 DEF WorkersAccountedFor
<1>6. CancelledWereCreated /\ ShutdownKnown /\ NoLostWakeup
  BY <1>1 DEF Init, CancelledWereCreated, ShutdownKnown, NoLostWakeup
<1> QED
  BY <1>4, <1>5, <1>6 DEF IInv

(* Types and limits, action by action.                                       *)
LEMMA TypesKept ==
    ASSUME IInv, [Next]_vars
    PROVE  TypeOK' /\ ThreadCountWithinLimits'
<1> USE DEF IInv, TypeOK, ThreadCountWithinLimits, MainStates, WorkerStates,
            ConnStates, poolVars, workerVars
<1>1. CASE CheckRunning
  BY <1>1 DEF CheckRunning
<1>2. CASE PollNothing
  BY <1>2 DEF PollNothing
<1>3. CASE PollFails
  BY <1>3 DEF PollFails
<1>4. ASSUME NEW c \in Conns, RefuseConnection(c) PROVE TypeOK' /\ ThreadCountWithinLimits'
  BY <1>4 DEF RefuseConnection
<1>5. ASSUME NEW c \in Conns, AddTask(c) PROVE TypeOK' /\ ThreadCountWithinLimits'
  BY <1>5, SignalWakesOneWaiter DEF AddTask
<1>6. CASE ScaleNotDue
  BY <1>6 DEF ScaleNotDue
<1>7. CASE ScaleKeep
  BY <1>7 DEF ScaleKeep
<1>8. CASE GrowPool
  <2>1. PICK new \in thread_count .. GrownCount(thread_count) :
          \E created \in Injection(thread_count .. new - 1, In("none")) :
             /\ thread_count' = new
             /\ threads' = [i \in Slots |->
                              IF i \in thread_count .. new - 1 THEN created[i]
                              ELSE threads[i]]
             /\ pc' = [t \in Threads |-> IF t \in Range(created) THEN "ready"
                                          ELSE pc[t]]
    BY <1>8 DEF GrowPool
  <2>2. new \in MinThreads .. MaxThreads
    BY SizesWithinLimits, LimitsAssumption
  <2>3. PICK created \in Injection(thread_count .. new - 1, In("none")) :
          /\ threads' = [i \in Slots |->
                           IF i \in thread_count .. new - 1 THEN created[i]
                           ELSE threads[i]]
          /\ pc' = [t \in Threads |-> IF t \in Range(created) THEN "ready"
                                       ELSE pc[t]]
    BY <2>1
  <2>4. created \in [thread_count .. new - 1 -> Threads]
    BY DEF Injection, In
  <2>5. threads' \in [Slots -> Threads \cup {NoThread}]
    BY <2>3, <2>4
  <2>6. pc' \in [Threads -> WorkerStates]
    BY <2>3
  <2>7. thread_count' \in MinThreads .. MaxThreads /\ thread_count' \in Nat
    BY <2>1, <2>2, LimitsAssumption
  <2> QED
    BY <1>8, <2>5, <2>6, <2>7 DEF GrowPool
<1>9. CASE ShrinkPool
  <2>1. thread_count' \in MinThreads .. thread_count
    BY <1>9, SizesWithinLimits DEF ShrinkPool
  <2>2. \A i \in thread_count' .. thread_count - 1 : threads[i] \in Threads
    <3>1. \A i \in thread_count' .. thread_count - 1 :
            i \in 0 .. thread_count - 1
      BY <2>1, LimitsAssumption
    <3> QED
      BY <3>1 DEF WorkersAccountedFor
  <2>3. thread_count' \in MinThreads .. MaxThreads /\ thread_count' \in Nat
    BY <2>1, LimitsAssumption
  <2>4. cancelled' \subseteq Threads
    BY <1>9, <2>2 DEF ShrinkPool
  <2> QED
    BY <1>9, <2>3, <2>4 DEF ShrinkPool
<1>10. CASE BeginDestroy
  BY <1>10, BroadcastWakesWaiters DEF BeginDestroy
<1>11. CASE JoinThread
  BY <1>11 DEF JoinThread
<1>12. CASE FreePool
  BY <1>12 DEF FreePool
<1>13. CASE Exit
  BY <1>13 DEF Exit
<1>14. ASSUME NEW t \in Threads, BlockForTask(t) PROVE TypeOK' /\ ThreadCountWithinLimits'
  BY <1>14 DEF BlockForTask
<1>15. ASSUME NEW t \in Threads, TakeTask(t) PROVE TypeOK' /\ ThreadCountWithinLimits'
  <2>1. Head(queue) \in Conns /\ Tail(queue) \in Seq(Conns)
    BY <1>15 DEF TakeTask
  <2> QED
    BY <1>15, <2>1 DEF TakeTask
<1>16. ASSUME NEW t \in Threads, LeaveOnShutdown(t) PROVE TypeOK' /\ ThreadCountWithinLimits'
  BY <1>16 DEF LeaveOnShutdown
<1>17. ASSUME NEW t \in Threads, Serve(t) PROVE TypeOK' /\ ThreadCountWithinLimits'
  BY <1>17 DEF Serve
<1>18. ASSUME NEW t \in Threads, Account(t) PROVE TypeOK' /\ ThreadCountWithinLimits'
  <2>1. perf' \in [completed : Nat, total : Nat, min : Nat, max : Nat]
    BY <1>18, PoolAssumption DEF Account, Counted
  <2> QED
    BY <1>18, <2>1 DEF Account
<1>19. ASSUME NEW t \in Threads, CancelWaiting(t) PROVE TypeOK' /\ ThreadCountWithinLimits'
  BY <1>19 DEF CancelWaiting
<1>20. ASSUME NEW t \in Threads, CancelWoken(t) PROVE TypeOK' /\ ThreadCountWithinLimits'
  <2>1. [pc EXCEPT ![t] = "terminated"] \in [Threads -> WorkerStates]
    BY <1>20 DEF CancelWoken, WorkerStates
  <2> QED
    BY <1>20, <2>1, SignalWakesOneWaiter DEF CancelWoken
<1>21. ASSUME NEW t \in Threads, UseFreedPool(t) PROVE TypeOK' /\ ThreadCountWithinLimits'
  BY <1>21 DEF UseFreedPool
<1>22. ASSUME NEW t \in Threads, SpuriousWakeup(t) PROVE TypeOK' /\ ThreadCountWithinLimits'
  BY <1>22 DEF SpuriousWakeup
<1>23. CASE StopSignal
  BY <1>23 DEF StopSignal
<1>24. CASE IntervalElapses
  BY <1>24 DEF IntervalElapses
<1>25. CASE UNCHANGED vars
  BY <1>25 DEF vars, poolVars, workerVars
<1> QED
  BY <1>1, <1>2, <1>3, <1>4, <1>5, <1>6, <1>7, <1>8, <1>9, <1>10, <1>11, <1>12, <1>13,
     <1>14, <1>15, <1>16, <1>17, <1>18, <1>19, <1>20, <1>21, <1>22, <1>23, <1>24, <1>25
     DEF Next, MainStep, WorkerStep, Ended

(* What the pool does with its slots, its cancellations and its shutdown     *)
(* flag, action by action.                                                   *)
LEMMA SlotsKept ==
    ASSUME IInv, [Next]_vars
    PROVE  WorkersAccountedFor' /\ CancelledWereCreated'
<1> DEFINE Goal == WorkersAccountedFor' /\ CancelledWereCreated'
<1> USE DEF IInv, poolVars, workerVars
<1>1. CASE UNCHANGED <<poolVars, workerVars>>
  BY <1>1, SlotsUntouched
<1>2. ASSUME NEW c \in Conns, AddTask(c) PROVE Goal
  <2>1. \A t \in Threads : pc'[t] = pc[t] \/ (pc[t] = "wait" /\ pc'[t] = "woken")
    BY <1>2, SignalWakesOneWaiter DEF AddTask, TypeOK
  <2> QED
    BY <1>2, <2>1, SlotsUntouched DEF AddTask
<1>3. CASE ScaleKeep
  BY <1>3, SlotsUntouched DEF ScaleKeep
<1>4. CASE GrowPool
  <2>1. PICK new \in thread_count .. GrownCount(thread_count) :
          \E created \in Injection(thread_count .. new - 1, In("none")) :
             /\ thread_count' = new
             /\ threads' = [i \in Slots |->
                              IF i \in thread_count .. new - 1 THEN created[i]
                              ELSE threads[i]]
             /\ pc' = [t \in Threads |-> IF t \in Range(created) THEN "ready"
                                          ELSE pc[t]]
    BY <1>4 DEF GrowPool
  <2>2. PICK created \in Injection(thread_count .. new - 1, In("none")) :
          /\ threads' = [i \in Slots |->
                           IF i \in thread_count .. new - 1 THEN created[i]
                           ELSE threads[i]]
          /\ pc' = [t \in Threads |-> IF t \in Range(created) THEN "ready"
                                       ELSE pc[t]]
    BY <2>1
  <2>3. /\ \A i \in thread_count .. new - 1 :
              /\ created[i] \in Threads
              /\ pc[created[i]] = "none"
              /\ created[i] \in Range(created)
        /\ \A i, j \in thread_count .. new - 1 : created[i] = created[j] => i = j
        /\ \A t \in Range(created) :
              \E i \in thread_count .. new - 1 : created[i] = t
    BY DEF Injection, IsInjective, Range, In
  <2>31. /\ thread_count' = new
         /\ cancelled' = cancelled /\ shutdown' = shutdown
    BY <1>4, <2>1 DEF GrowPool
  <2>32. /\ thread_count \in Nat /\ new \in Nat /\ MaxThreads \in Nat
         /\ thread_count <= new /\ new <= MaxThreads
    BY SizesWithinLimits, LimitsAssumption DEF ThreadCountWithinLimits
  <2>33. /\ thread_count .. new - 1 \subseteq 0 .. new - 1
         /\ 0 .. thread_count - 1 \subseteq 0 .. new - 1
         /\ \A i \in 0 .. thread_count - 1 : i \notin thread_count .. new - 1
         /\ \A i \in 0 .. new - 1 :
               i \in 0 .. thread_count - 1 \/ i \in thread_count .. new - 1
         /\ 0 .. new - 1 \subseteq Slots
    BY <2>32, SlotRanges DEF Slots
  <2>4. \A i \in 0 .. new - 1 :
          threads'[i] = IF i \in thread_count .. new - 1 THEN created[i]
                        ELSE threads[i]
    BY <2>2, <2>33
  <2>5. \A t \in Threads : /\ t \in Range(created) => pc'[t] = "ready"
                           /\ t \notin Range(created) => pc'[t] = pc[t]
    BY <2>2
  <2>6. \A i \in 0 .. thread_count - 1 : threads[i] \notin Range(created)
    BY <2>3 DEF WorkersAccountedFor
  <2>7. \A i \in 0 .. new - 1 :
          /\ threads'[i] \in Threads \ cancelled'
          /\ pc'[threads'[i]] # "none"
          /\ shutdown' \/ pc'[threads'[i]] # "terminated"
    <3> SUFFICES ASSUME NEW i \in 0 .. new - 1
                 PROVE  /\ threads'[i] \in Threads \ cancelled'
                        /\ pc'[threads'[i]] # "none"
                        /\ shutdown' \/ pc'[threads'[i]] # "terminated"
      OBVIOUS
    <3>1. CASE i \in thread_count .. new - 1
      <4>1. threads'[i] = created[i]
        BY <2>4, <3>1
      <4>2. pc'[created[i]] = "ready" /\ created[i] \notin cancelled
        BY <2>3, <2>5, <3>1 DEF CancelledWereCreated
      <4> QED
        BY <2>3, <2>31, <3>1, <4>1, <4>2
    <3>2. CASE i \notin thread_count .. new - 1
      <4>1. i \in 0 .. thread_count - 1 /\ threads'[i] = threads[i]
        BY <2>4, <2>33, <3>2
      <4> QED
        BY <2>5, <2>6, <2>31, <4>1 DEF WorkersAccountedFor
    <3> QED
      BY <3>1, <3>2
  <2>8. \A i, j \in 0 .. new - 1 : threads'[i] = threads'[j] => i = j
    <3> SUFFICES ASSUME NEW i \in 0 .. new - 1, NEW j \in 0 .. new - 1,
                        threads'[i] = threads'[j]
                 PROVE  i = j
      OBVIOUS
    <3>1. \A k \in thread_count .. new - 1 : created[k] \in Range(created)
      BY <2>3
    <3>2. CASE i \in thread_count .. new - 1 /\ j \in thread_count .. new - 1
      BY <2>3, <2>4, <3>2
    <3>3. CASE i \in 0 .. thread_count - 1 /\ j \in 0 .. thread_count - 1
      BY <2>4, <2>33, <3>3 DEF WorkersAccountedFor
    <3>4. CASE i \in thread_count .. new - 1 /\ j \in 0 .. thread_count - 1
      BY <2>4, <2>6, <2>33, <3>1, <3>4
    <3>5. CASE i \in 0 .. thread_count - 1 /\ j \in thread_count .. new - 1
      BY <2>4, <2>6, <2>33, <3>1, <3>5
    <3> QED
      BY <2>33, <3>2, <3>3, <3>4, <3>5
  <2>9. \A t \in Threads : pc'[t] # "none" =>
          \/ t \in cancelled'
          \/ \E i \in 0 .. new - 1 : threads'[i] = t
    <3> SUFFICES ASSUME NEW t \in Threads, pc'[t] # "none", t \notin cancelled
                 PROVE  \E i \in 0 .. new - 1 : threads'[i] = t
      BY <2>31
    <3>1. CASE t \in Range(created)
      BY <2>3, <2>4, <2>33, <3>1
    <3>2. CASE t \notin Range(created)
      BY <2>4, <2>5, <2>31, <2>33, <3>2 DEF WorkersAccountedFor
    <3> QED
      BY <3>1, <3>2
  <2>10. CancelledWereCreated'
    BY <2>3, <2>5, <2>31 DEF CancelledWereCreated, TypeOK
  <2> QED
    BY <2>31, <2>7, <2>8, <2>9, <2>10 DEF WorkersAccountedFor
<1>5. CASE ShrinkPool
  <2>1. /\ thread_count' \in MinThreads .. thread_count
        /\ cancelled' = cancelled \cup
                          {threads[i] : i \in thread_count' .. thread_count - 1}
        /\ UNCHANGED <<threads, pc, shutdown>>
    BY <1>5, SizesWithinLimits DEF ShrinkPool, ThreadCountWithinLimits
  <2>2. /\ 0 .. thread_count' - 1 \subseteq 0 .. thread_count - 1
        /\ thread_count' .. thread_count - 1 \subseteq 0 .. thread_count - 1
        /\ \A i \in 0 .. thread_count' - 1 : i \notin thread_count' .. thread_count - 1
        /\ \A i \in 0 .. thread_count - 1 :
              i \in 0 .. thread_count' - 1 \/ i \in thread_count' .. thread_count - 1
    <3>1. /\ thread_count \in Nat /\ thread_count' \in Nat
          /\ thread_count' <= thread_count
      BY <2>1, LimitsAssumption DEF ThreadCountWithinLimits
    <3> QED
      BY <3>1, SlotRanges
  <2>3. \A i \in 0 .. thread_count' - 1 : threads[i] \notin cancelled'
    <3> SUFFICES ASSUME NEW i \in 0 .. thread_count' - 1
                 PROVE  threads[i] \notin cancelled'
      OBVIOUS
    <3>1. threads[i] \notin cancelled
      BY <2>2 DEF WorkersAccountedFor
    <3>2. ASSUME NEW j \in thread_count' .. thread_count - 1,
                 threads[i] = threads[j]
          PROVE  FALSE
      <4>1. i = j
        BY <2>2, <3>2 DEF WorkersAccountedFor
      <4> QED
        BY <2>2, <4>1
    <3> QED
      BY <2>1, <3>1, <3>2
  <2>4. \A t \in Threads : pc[t] # "none" =>
          \/ t \in cancelled'
          \/ \E i \in 0 .. thread_count' - 1 : threads[i] = t
    BY <2>1, <2>2 DEF WorkersAccountedFor
  <2>5. CancelledWereCreated'
    <3>1. \A i \in thread_count' .. thread_count - 1 : pc[threads[i]] # "none"
      BY <2>2 DEF WorkersAccountedFor
    <3> QED
      BY <2>1, <3>1, Zenon DEF CancelledWereCreated
  <2> QED
    BY <2>1, <2>2, <2>3, <2>4, <2>5 DEF WorkersAccountedFor
<1>6. CASE BeginDestroy
  <2>1. \A t \in Threads : pc'[t] = pc[t] \/ (pc[t] = "wait" /\ pc'[t] = "woken")
    BY <1>6, BroadcastWakesWaiters DEF BeginDestroy, TypeOK
  <2> QED
    BY <1>6, <2>1, SlotsUntouched DEF BeginDestroy
<1>7. CASE FreePool
  BY <1>7, SlotsUntouched DEF FreePool
<1>8. ASSUME NEW t \in Threads, BlockForTask(t) PROVE Goal
  BY <1>8, SlotsUntouched DEF BlockForTask, AtQueue, TypeOK
<1>9. ASSUME NEW t \in Threads, TakeTask(t) PROVE Goal
  BY <1>9, SlotsUntouched DEF TakeTask, AtQueue, TypeOK
<1>10. ASSUME NEW t \in Threads, LeaveOnShutdown(t) PROVE Goal
  BY <1>10, SlotsUntouched DEF LeaveOnShutdown, AtQueue, TypeOK
<1>11. ASSUME NEW t \in Threads, Serve(t) PROVE Goal
  BY <1>11, SlotsUntouched DEF Serve, TypeOK
<1>12. ASSUME NEW t \in Threads, Account(t) PROVE Goal
  BY <1>12, SlotsUntouched DEF Account, TypeOK
<1>13. ASSUME NEW t \in Threads, CancelWaiting(t) PROVE Goal
  BY <1>13, SlotsUntouched DEF CancelWaiting, TypeOK
<1>14. ASSUME NEW t \in Threads, CancelWoken(t) PROVE Goal
  <2> DEFINE w == [pc EXCEPT ![t] = "terminated"]
  <2>1. w \in [Threads -> WorkerStates] /\ pc' \in Signalled(w)
    BY <1>14 DEF CancelWoken, WorkerStates, TypeOK
  <2>2. \A s \in Threads : pc'[s] = w[s] \/ (w[s] = "wait" /\ pc'[s] = "woken")
    BY <2>1, SignalWakesOneWaiter
  <2>3. \A s \in Threads : \/ pc'[s] = pc[s]
                           \/ pc[s] = "wait" /\ pc'[s] = "woken"
                           \/ s = t /\ pc'[s] = "terminated"
    <3>1. \A s \in Threads : w[s] = IF s = t THEN "terminated" ELSE pc[s]
      BY DEF TypeOK
    <3> HIDE DEF w
    <3> QED
      BY <2>2, <3>1
  <2>4. pc[t] = "woken" /\ t \in cancelled
    BY <1>14 DEF CancelWoken
  <2> QED
    BY <1>14, <2>3, <2>4, SlotsUntouched DEF CancelWoken
<1>15. ASSUME NEW t \in Threads, UseFreedPool(t) PROVE Goal
  BY <1>15, SlotsUntouched DEF UseFreedPool, TypeOK
<1>16. ASSUME NEW t \in Threads, SpuriousWakeup(t) PROVE Goal
  BY <1>16, SlotsUntouched DEF SpuriousWakeup, TypeOK
<1>17. CASE IntervalElapses
  BY <1>17, SlotsUntouched DEF IntervalElapses
<1>18. CASE CheckRunning \/ PollNothing \/ PollFails \/ ScaleNotDue
            \/ JoinThread \/ Exit \/ StopSignal \/ UNCHANGED vars
            \/ \E c \in Conns : RefuseConnection(c)
  BY <1>1, <1>18
     DEF CheckRunning, PollNothing, PollFails, ScaleNotDue, JoinThread, Exit,
         StopSignal, RefuseConnection, vars
<1> QED
  BY <1>2, <1>3, <1>4, <1>5, <1>6, <1>7, <1>8, <1>9, <1>10, <1>11, <1>12, <1>13,
     <1>14, <1>15, <1>16, <1>17, <1>18
     DEF Next, MainStep, WorkerStep, Ended

LEMMA ShutdownKept ==
    ASSUME IInv, [Next]_vars
    PROVE  ShutdownKnown'
<1> USE DEF IInv, ShutdownKnown, poolVars, workerVars
<1>1. CASE MainStep
  <2>1. CASE \E c \in Conns : RefuseConnection(c) \/ AddTask(c)
    <3>1. PICK c \in Conns : RefuseConnection(c) \/ AddTask(c)
      BY <2>1
    <3>2. CASE RefuseConnection(c)
      BY <3>2 DEF RefuseConnection
    <3>3. CASE AddTask(c)
      <4>1. \A t \in Threads : pc'[t] = "wild" => pc[t] = "wild"
        BY <3>3, SignalWakesOneWaiter DEF AddTask, TypeOK
      <4> QED
        BY <3>3, <4>1 DEF AddTask
    <3> QED
      BY <3>1, <3>2, <3>3
  <2>2. CASE GrowPool
    BY <2>2 DEF GrowPool
  <2>3. CASE BeginDestroy
    BY <2>3, Zenon DEF BeginDestroy
  <2> QED
    BY <1>1, <2>1, <2>2, <2>3
       DEF MainStep, CheckRunning, PollNothing, PollFails, ScaleNotDue, ScaleKeep,
           ShrinkPool, JoinThread, FreePool, Exit
<1>2. ASSUME NEW t \in Threads, WorkerStep(t) \/ SpuriousWakeup(t)
      PROVE  ShutdownKnown'
  <2>1. CASE CancelWoken(t)
    <3> DEFINE w == [pc EXCEPT ![t] = "terminated"]
    <3>1. w \in [Threads -> WorkerStates] /\ pc' \in Signalled(w)
      BY <2>1 DEF CancelWoken, WorkerStates, TypeOK
    <3>2. \A s \in Threads : pc'[s] = "wild" => w[s] = "wild"
      BY <3>1, SignalWakesOneWaiter
    <3>3. \A s \in Threads : w[s] = "wild" => pc[s] = "wild"
      BY DEF TypeOK
    <3> QED
      BY <2>1, <3>2, <3>3 DEF CancelWoken
  <2>2. CASE UseFreedPool(t)
    BY <2>2 DEF UseFreedPool, TypeOK
  <2> QED
    BY <1>2, <2>1, <2>2
       DEF WorkerStep, BlockForTask, TakeTask, LeaveOnShutdown, Serve, Account,
           CancelWaiting, SpuriousWakeup, TypeOK
<1>3. CASE StopSignal \/ IntervalElapses \/ UNCHANGED vars
  BY <1>3 DEF StopSignal, IntervalElapses, vars
<1> QED
  BY <1>1, <1>2, <1>3 DEF Next, Ended

(* The threads that are going to look at the queue without being signalled.  *)
Attentive == {"ready", "woken", "serve", "account"}

(* A step after which some attentive thread is still attentive cannot lose a *)
(* wake-up unless it queues a task.                                          *)
LEMMA AttentionKept ==
    ASSUME NoLostWakeup, queue' # << >> => queue # << >>, shutdown => shutdown',
           \A t \in Threads : pc[t] \in Attentive => pc'[t] \in Attentive
    PROVE  NoLostWakeup'
  BY DEF NoLostWakeup, Attentive

(* A thread blocks only on an empty queue, and a thread that takes a task is *)
(* going to look at the queue again; a signal lost to a dying thread is      *)
(* passed on, and if nobody waits then nobody sleeps: before shutdown the    *)
(* worker of slot 0 lives.                                                   *)
LEMMA WakeupKept ==
    ASSUME IInv, [Next]_vars
    PROVE  NoLostWakeup'
<1> USE DEF IInv, poolVars, workerVars, Attentive
<1>1. ASSUME NEW c \in Conns, AddTask(c) PROVE NoLostWakeup'
  <2>1. pc \in [Threads -> WorkerStates] /\ pc' \in Signalled(pc)
    BY <1>1 DEF AddTask, TypeOK
  <2>2. PICK t \in Threads : pc[t] \in Attentive \cup {"wait"}
    BY <1>1, SomeWorkerLives DEF AddTask
  <2>3. CASE \E s \in Threads : pc[s] = "wait"
    BY <2>1, <2>3, SignalWakesOneWaiter DEF NoLostWakeup
  <2>4. CASE \A s \in Threads : pc[s] # "wait"
    <3>1. pc' = pc
      BY <2>1, <2>4 DEF Signalled
    <3> QED
      BY <2>2, <2>4, <3>1 DEF NoLostWakeup
  <2> QED
    BY <2>3, <2>4
<1>2. CASE GrowPool
  <2>1. \A t \in Threads : pc'[t] = "ready" \/ pc'[t] = pc[t]
    BY <1>2 DEF GrowPool
  <2> QED
    BY <1>2, <2>1, AttentionKept DEF GrowPool
<1>3. CASE BeginDestroy \/ FreePool
  BY <1>3, Zenon DEF BeginDestroy, FreePool, NoLostWakeup
<1>4. ASSUME NEW t \in Threads, BlockForTask(t) PROVE NoLostWakeup'
  BY <1>4, Zenon DEF BlockForTask, NoLostWakeup
<1>5. ASSUME NEW t \in Threads, TakeTask(t) PROVE NoLostWakeup'
  BY <1>5, AttentionKept DEF TakeTask, TypeOK
<1>6. ASSUME NEW t \in Threads, LeaveOnShutdown(t) PROVE NoLostWakeup'
  BY <1>6, Zenon DEF LeaveOnShutdown, NoLostWakeup
<1>7. ASSUME NEW t \in Threads, Serve(t) PROVE NoLostWakeup'
  BY <1>7, AttentionKept DEF Serve, TypeOK
<1>8. ASSUME NEW t \in Threads, Account(t) PROVE NoLostWakeup'
  BY <1>8, AttentionKept DEF Account, TypeOK
<1>9. ASSUME NEW t \in Threads, CancelWaiting(t) PROVE NoLostWakeup'
  BY <1>9, AttentionKept DEF CancelWaiting, TypeOK
<1>10. ASSUME NEW t \in Threads, CancelWoken(t), queue # << >>, ~ shutdown
       PROVE  \E s \in Threads : pc'[s] \in Attentive
  <2> DEFINE w == [pc EXCEPT ![t] = "terminated"]
  <2>1. w \in [Threads -> WorkerStates] /\ pc' \in Signalled(w)
    BY <1>10 DEF CancelWoken, WorkerStates, TypeOK
  <2>2. \A s \in Threads : w[s] = IF s = t THEN "terminated" ELSE pc[s]
    BY DEF TypeOK
  <2>3. PICK s \in Threads : s # t /\ pc[s] \in Attentive \cup {"wait"}
    BY <1>10, SomeWorkerLives DEF CancelWoken
  <2>4. w[s] \in Attentive \cup {"wait"}
    BY <2>2, <2>3
  <2> HIDE DEF w
  <2>5. CASE \E u \in Threads : w[u] = "wait"
    BY <2>1, <2>5, SignalWakesOneWaiter
  <2>6. CASE \A u \in Threads : w[u] # "wait"
    <3>1. pc' = w
      BY <2>1, <2>6 DEF Signalled
    <3> QED
      BY <2>4, <2>6, <3>1
  <2> QED
    BY <2>5, <2>6
<1>11. ASSUME NEW t \in Threads, UseFreedPool(t) PROVE NoLostWakeup'
  BY <1>11 DEF UseFreedPool, ShutdownKnown, NoLostWakeup
<1>12. ASSUME NEW t \in Threads, SpuriousWakeup(t) PROVE NoLostWakeup'
  BY <1>12, AttentionKept DEF SpuriousWakeup, TypeOK
<1>13. CASE CheckRunning \/ PollNothing \/ PollFails \/ ScaleNotDue
            \/ ScaleKeep \/ ShrinkPool \/ JoinThread \/ Exit \/ StopSignal
            \/ IntervalElapses \/ UNCHANGED vars
            \/ \E c \in Conns : RefuseConnection(c)
  <2>1. UNCHANGED <<queue, shutdown, pc>>
    BY <1>13
       DEF CheckRunning, PollNothing, PollFails, ScaleNotDue, ScaleKeep, ShrinkPool,
           JoinThread, Exit, StopSignal, IntervalElapses, RefuseConnection, vars
  <2> QED
    BY <2>1, AttentionKept
<1>14. ASSUME NEW t \in Threads, CancelWoken(t) PROVE NoLostWakeup'
  <2>1. UNCHANGED <<queue, shutdown>>
    BY <1>14 DEF CancelWoken
  <2> QED
    BY <1>10, <1>14, <2>1 DEF NoLostWakeup
<1> QED
  BY <1>1, <1>2, <1>3, <1>4, <1>5, <1>6, <1>7, <1>8, <1>9, <1>11, <1>12, <1>13,
     <1>14
     DEF Next, MainStep, WorkerStep, Ended

LEMMA NextPreserves == IInv /\ [Next]_vars => IInv'
  BY TypesKept, SlotsKept, ShutdownKept, WakeupKept DEF IInv

(* The inductive invariant of the pool.                                      *)
THEOREM InvHolds == Spec => []IInv
  BY InitEstablishes, NextPreserves, PTL DEF Spec

(* Every variable keeps its type: in particular only created threads are     *)
(* ever cancelled, so pthread_cancel is never given an unused slot.          *)
THEOREM TypesHold == Spec => []TypeOK
<1>1. IInv => TypeOK
  BY DEF IInv
<1> QED
  BY <1>1, InvHolds, PTL

(* The number of threads stays between the configured minimum and maximum    *)
(* through every sequence of growth, failed growth and shrinking of          *)
(* thread_pool_auto_scale.                                                   *)
THEOREM PoolStaysWithinLimits == Spec => []ThreadCountWithinLimits
<1>1. IInv => ThreadCountWithinLimits
  BY DEF IInv
<1> QED
  BY <1>1, InvHolds, PTL

(* The counted slots of pool->threads are exactly the workers that were not  *)
(* cancelled, each counted once and alive until shutdown, although           *)
(* thread_pool_auto_scale reuses the slots of threads that still run.        *)
THEOREM SlotsHoldTheWorkers == Spec => []WorkersAccountedFor
<1>1. IInv => WorkersAccountedFor
  BY DEF IInv
<1> QED
  BY <1>1, InvHolds, PTL

(* No task is left in the queue with every worker asleep: the one signal of  *)
(* thread_pool_add_task is never lost, not even to a worker that is being    *)
(* cancelled.                                                                *)
THEOREM QueuedTaskIsSeen == Spec => []NoLostWakeup
<1>1. IInv => NoLostWakeup
  BY DEF IInv
<1> QED
  BY <1>1, InvHolds, PTL

----------------------------------------------------------------------------
(* What Append and Tail do to the connections in the queue.                  *)
LEMMA AppendedQueue ==
    ASSUME NEW S, NEW s \in Seq(S), NEW e \in S
    PROVE  /\ Range(Append(s, e)) = Range(s) \cup {e}
           /\ /\ e \notin Range(s)
              /\ \A i, j \in 1 .. Len(s) : s[i] = s[j] => i = j
              => LET a == Append(s, e)
                 IN  \A i, j \in 1 .. Len(a) : a[i] = a[j] => i = j
<1> DEFINE a == Append(s, e)
<1>1. /\ Len(s) \in Nat
      /\ DOMAIN s = 1 .. Len(s)
  BY LenProperties
<1>2. /\ a \in Seq(S)
      /\ Len(a) = Len(s) + 1
      /\ \A i \in 1 .. Len(s) : a[i] = s[i]
      /\ a[Len(s) + 1] = e
  BY AppendProperties
<1>3. DOMAIN a = 1 .. Len(s) + 1
  BY <1>2, LenProperties
<1> HIDE DEF a
<1>4. \A i \in 1 .. Len(s) + 1 : i \in 1 .. Len(s) \/ i = Len(s) + 1
  BY <1>1
<1>41. /\ 1 .. Len(s) \subseteq 1 .. Len(s) + 1
       /\ Len(s) + 1 \in 1 .. Len(s) + 1
  BY <1>1
<1>5. Range(a) = Range(s) \cup {e}
  BY <1>1, <1>2, <1>3, <1>4, <1>41 DEF Range
<1>6. \A i \in 1 .. Len(s) : s[i] \in Range(s)
  BY <1>1 DEF Range
<1>7. ASSUME e \notin Range(s),
             \A i, j \in 1 .. Len(s) : s[i] = s[j] => i = j,
             NEW i \in 1 .. Len(s) + 1, NEW j \in 1 .. Len(s) + 1, a[i] = a[j]
      PROVE  i = j
  BY <1>2, <1>4, <1>6, <1>7
<1> QED
  BY <1>2, <1>5, <1>7 DEF a

(* What Head and Tail do to them.                                            *)
LEMMA HeadTaken ==
    ASSUME NEW S, NEW s \in Seq(S), s # << >>,
           \A i, j \in 1 .. Len(s) : s[i] = s[j] => i = j
    PROVE  /\ Head(s) \in Range(s)
           /\ Range(Tail(s)) = Range(s) \ {Head(s)}
           /\ \A i, j \in 1 .. Len(Tail(s)) : Tail(s)[i] = Tail(s)[j] => i = j
<1> DEFINE t == Tail(s)
<1>1. /\ Len(s) \in Nat \ {0}
      /\ DOMAIN s = 1 .. Len(s)
  BY LenProperties, EmptySeq
<1>2. /\ t \in Seq(S)
      /\ Len(t) = Len(s) - 1
      /\ \A i \in 1 .. Len(s) - 1 : t[i] = s[i + 1]
      /\ Head(s) = s[1]
  BY HeadTailProperties, <1>1
<1>3. DOMAIN t = 1 .. Len(s) - 1
  BY <1>2, LenProperties
<1> HIDE DEF t
<1>4. 1 \in 1 .. Len(s) /\ Head(s) \in Range(s)
  BY <1>1, <1>2 DEF Range
<1>5. \A i \in 1 .. Len(s) - 1 : i + 1 \in 1 .. Len(s) /\ i + 1 # 1
  BY <1>1
<1>6. \A i \in 1 .. Len(s) : i # 1 => i - 1 \in 1 .. Len(s) - 1 /\ (i - 1) + 1 = i
  BY <1>1
<1>7. ASSUME NEW x \in Range(t) PROVE x \in Range(s) \ {Head(s)}
  <2>1. PICK i \in 1 .. Len(s) - 1 : x = s[i + 1]
    BY <1>2, <1>3 DEF Range
  <2> QED
    BY <1>1, <1>2, <1>4, <1>5, <2>1 DEF Range
<1>8. ASSUME NEW x \in Range(s), x # Head(s) PROVE x \in Range(t)
  <2>1. PICK i \in 1 .. Len(s) : x = s[i]
    BY <1>1 DEF Range
  <2>2. i - 1 \in 1 .. Len(s) - 1 /\ t[i - 1] = x
    BY <1>2, <1>6, <1>8, <2>1
  <2> QED
    BY <1>3, <2>2 DEF Range
<1>9. ASSUME NEW i \in 1 .. Len(t), NEW j \in 1 .. Len(t), t[i] = t[j]
      PROVE  i = j
  <2>1. s[i + 1] = s[j + 1] /\ i + 1 \in 1 .. Len(s) /\ j + 1 \in 1 .. Len(s)
    BY <1>2, <1>5, <1>9
  <2>2. i + 1 = j + 1
    BY <2>1
  <2> QED
    BY <2>2
<1> QED
  BY <1>4, <1>7, <1>8, <1>9 DEF t

(* Steps that touch neither queue nor connections nor the tasks in service.  *)
LEMMA OwnersUntouched ==
    ASSUME EachOpenConnectionHasOneOwner,
           UNCHANGED <<queue, conn>>, Serving' = Serving,
           \A t \in Serving : task'[t] = task[t]
    PROVE  EachOpenConnectionHasOneOwner'
  BY DEF EachOpenConnectionHasOneOwner, Conn

(* pthread_cond_signal does not touch a worker with a task.                  *)
LEMMA SignalSparesBusyWorkers ==
    ASSUME NEW w \in [Threads -> WorkerStates], NEW v \in Signalled(w)
    PROVE  \A t \in Threads : /\ v[t] = "serve" <=> w[t] = "serve"
                              /\ v[t] = "account" <=> w[t] = "account"
  BY SignalWakesOneWaiter

(* The steps that take, serve or count no task leave the workers that have   *)
(* one alone.                                                                *)
QuietStep ==
    \/ CheckRunning \/ PollNothing \/ PollFails
    \/ \E c \in Conns : RefuseConnection(c) \/ AddTask(c)
    \/ ScaleNotDue \/ ScaleKeep \/ GrowPool \/ ShrinkPool
    \/ BeginDestroy \/ JoinThread \/ FreePool \/ Exit
    \/ \E t \in Threads : \/ BlockForTask(t) \/ LeaveOnShutdown(t)
                           \/ CancelWaiting(t) \/ CancelWoken(t)
                           \/ SpuriousWakeup(t)
    \/ StopSignal \/ IntervalElapses \/ UNCHANGED vars

(* Under a quiet step the workers that serve or count a task stay the same,  *)
(* with the same tasks.                                                      *)
LEMMA BusyWorkersUntouched ==
    ASSUME IInv, QuietStep
    PROVE  /\ Serving' = Serving
           /\ Counting' = Counting
           /\ UNCHANGED <<task, active_threads, perf>>
<1> USE DEF IInv, TypeOK, poolVars, workerVars, In, Serving, Counting
<1>1. CASE \E c \in Conns : RefuseConnection(c) \/ AddTask(c)
  BY <1>1, SignalSparesBusyWorkers DEF RefuseConnection, AddTask
<1>2. CASE GrowPool
  <2>1. \A t \in Threads : pc'[t] = pc[t] \/ (pc[t] = "none" /\ pc'[t] = "ready")
    BY <1>2 DEF GrowPool, Injection, Range
  <2>2. UNCHANGED <<task, active_threads, perf>>
    BY <1>2 DEF GrowPool
  <2> QED
    BY <2>1, <2>2
<1>3. CASE BeginDestroy
  <2>1. /\ pc' = Broadcast(pc) /\ pc \in [Threads -> WorkerStates]
        /\ UNCHANGED <<task, active_threads, perf>>
    BY <1>3 DEF BeginDestroy
  <2>2. \A t \in Threads : /\ pc'[t] = "serve" <=> pc[t] = "serve"
                           /\ pc'[t] = "account" <=> pc[t] = "account"
    BY <2>1, BroadcastWakesWaiters
  <2> QED
    BY <2>1, <2>2
<1>4. ASSUME NEW t \in Threads, CancelWoken(t)
      PROVE  Serving' = Serving /\ Counting' = Counting
             /\ UNCHANGED <<task, active_threads, perf>>
  <2> DEFINE w == [pc EXCEPT ![t] = "terminated"]
  <2>1. w \in [Threads -> WorkerStates] /\ pc' \in Signalled(w)
    BY <1>4 DEF CancelWoken, WorkerStates
  <2>2. \A s \in Threads : /\ w[s] = "serve" <=> pc[s] = "serve"
                           /\ w[s] = "account" <=> pc[s] = "account"
    BY <1>4 DEF CancelWoken
  <2> HIDE DEF w
  <2>3. \A s \in Threads : /\ pc'[s] = "serve" <=> pc[s] = "serve"
                           /\ pc'[s] = "account" <=> pc[s] = "account"
    BY <2>1, <2>2, SignalSparesBusyWorkers
  <2> QED
    BY <1>4, <2>3 DEF CancelWoken
<1>5. ASSUME NEW t \in Threads,
             BlockForTask(t) \/ LeaveOnShutdown(t) \/ CancelWaiting(t) \/ SpuriousWakeup(t)
      PROVE  Serving' = Serving /\ Counting' = Counting
             /\ UNCHANGED <<task, active_threads, perf>>
  BY <1>5 DEF BlockForTask, LeaveOnShutdown, CancelWaiting, SpuriousWakeup, AtQueue
<1>6. CASE \/ CheckRunning \/ PollNothing \/ PollFails \/ ScaleNotDue \/ ScaleKeep
           \/ ShrinkPool \/ JoinThread \/ FreePool \/ Exit \/ StopSignal
           \/ IntervalElapses \/ UNCHANGED vars
  BY <1>6
     DEF CheckRunning, PollNothing, PollFails, ScaleNotDue, ScaleKeep, ShrinkPool,
         JoinThread, FreePool, Exit, StopSignal, IntervalElapses, vars
<1> QED
  BY <1>1, <1>2, <1>3, <1>4, <1>5, <1>6 DEF QuietStep

(* The steps that leave the queue and the connections alone as well.         *)
LEMMA OwnersKept ==
    ASSUME IInv, EachOpenConnectionHasOneOwner, [Next]_vars
    PROVE  EachOpenConnectionHasOneOwner'
<1> USE DEF IInv, poolVars, workerVars
<1>1. ASSUME NEW c \in Conns, AddTask(c)
      PROVE  EachOpenConnectionHasOneOwner'
  <2>1. /\ Serving' = Serving
        /\ UNCHANGED task
    BY <1>1, BusyWorkersUntouched DEF QuietStep
  <2>2. /\ conn[c] = "new"
        /\ conn' = [conn EXCEPT ![c] = "open"]
        /\ queue' = Append(queue, c)
        /\ queue \in Seq(Conns)
    BY <1>1 DEF AddTask, TypeOK
  <2>3. Conn("open")' = Conn("open") \cup {c}
    BY <2>2 DEF Conn, TypeOK
  <2>4. c \notin Range(queue) /\ c \notin {task[t] : t \in Serving}
    BY <2>2 DEF EachOpenConnectionHasOneOwner, Conn
  <2>5. /\ Range(queue') = Range(queue) \cup {c}
        /\ \A i, j \in 1 .. Len(queue') : queue'[i] = queue'[j] => i = j
    BY <2>2, <2>4, AppendedQueue DEF EachOpenConnectionHasOneOwner
  <2> QED
    BY <2>1, <2>3, <2>4, <2>5 DEF EachOpenConnectionHasOneOwner
<1>2. CASE FreePool
  <2>1. Serving' = Serving /\ UNCHANGED task
    BY <1>2, BusyWorkersUntouched DEF QuietStep
  <2>2. /\ conn' = [c \in Conns |-> IF c \in Range(queue) THEN "abandoned"
                                    ELSE conn[c]]
        /\ queue' = << >>
    BY <1>2 DEF FreePool
  <2>3. Conn("open")' = Conn("open") \ Range(queue)
    BY <2>2 DEF Conn
  <2>4. Len(queue') = 0 /\ Range(queue') = {}
    BY <2>2, EmptySeq DEF Range
  <2> QED
    BY <2>1, <2>3, <2>4 DEF EachOpenConnectionHasOneOwner
<1>3. ASSUME NEW t \in Threads, TakeTask(t)
      PROVE  EachOpenConnectionHasOneOwner'
  <2>1. /\ queue \in Seq(Conns) /\ queue # << >>
        /\ queue' = Tail(queue)
        /\ conn' = conn
        /\ task' = [task EXCEPT ![t] = Head(queue)]
        /\ pc[t] # "serve" /\ pc' = [pc EXCEPT ![t] = "serve"]
    BY <1>3 DEF TakeTask, AtQueue, TypeOK
  <2>2. /\ Head(queue) \in Range(queue)
        /\ Range(queue') = Range(queue) \ {Head(queue)}
        /\ \A i, j \in 1 .. Len(queue') : queue'[i] = queue'[j] => i = j
    BY <2>1, HeadTaken DEF EachOpenConnectionHasOneOwner
  <2>3. /\ Serving' = Serving \cup {t} /\ t \notin Serving
        /\ task'[t] = Head(queue)
        /\ \A s \in Serving : task'[s] = task[s]
    BY <2>1 DEF Serving, In, TypeOK
  <2>4. Conn("open")' = Conn("open")
    BY <2>1 DEF Conn
  <2>5. \A s \in Serving : task[s] \notin Range(queue)
    BY DEF EachOpenConnectionHasOneOwner
  <2>6. \A s, u \in Serving' : task'[s] = task'[u] => s = u
    BY <2>2, <2>3, <2>5 DEF EachOpenConnectionHasOneOwner
  <2>7. {task'[s] : s \in Serving'} = {task[s] : s \in Serving} \cup {Head(queue)}
    BY <2>3
  <2> QED
    BY <2>2, <2>3, <2>4, <2>5, <2>6, <2>7 DEF EachOpenConnectionHasOneOwner
<1>4. ASSUME NEW t \in Threads, Serve(t)
      PROVE  EachOpenConnectionHasOneOwner'
  <2>1. /\ t \in Serving
        /\ conn' = [conn EXCEPT ![task[t]] = "served"]
        /\ pc' = [pc EXCEPT ![t] = "account"]
        /\ UNCHANGED <<queue, task>>
    BY <1>4 DEF Serve, Serving, In
  <2>2. Serving' = Serving \ {t}
    BY <2>1 DEF Serving, In, TypeOK
  <2>3. task[t] \in Conns /\ Conn("open")' = Conn("open") \ {task[t]}
    BY <2>1 DEF EachOpenConnectionHasOneOwner, Conn, TypeOK
  <2>4. \A s \in Serving \ {t} : task[s] # task[t]
    BY <2>1 DEF EachOpenConnectionHasOneOwner
  <2>5. task[t] \notin Range(queue)
    BY <2>1 DEF EachOpenConnectionHasOneOwner
  <2> QED
    BY <2>1, <2>2, <2>3, <2>4, <2>5 DEF EachOpenConnectionHasOneOwner
<1>5. ASSUME NEW t \in Threads, Account(t) \/ UseFreedPool(t)
      PROVE  EachOpenConnectionHasOneOwner'
  <2>1. /\ UNCHANGED <<queue, conn>> /\ Serving' = Serving
        /\ \A s \in Serving : task'[s] = task[s]
    BY <1>5 DEF Account, UseFreedPool, Serving, In, TypeOK
  <2> QED
    BY <2>1, OwnersUntouched
<1>6. ASSUME NEW c \in Conns, RefuseConnection(c)
      PROVE  EachOpenConnectionHasOneOwner'
  <2>1. UNCHANGED <<queue, task, pc>> /\ Serving' = Serving
    BY <1>6 DEF RefuseConnection, Serving, In
  <2>2. Conn("open")' = Conn("open")
    BY <1>6 DEF RefuseConnection, Conn, TypeOK
  <2> QED
    BY <2>1, <2>2 DEF EachOpenConnectionHasOneOwner
<1>7. CASE /\ QuietStep
           /\ UNCHANGED <<queue, conn>>
  BY <1>7, BusyWorkersUntouched, OwnersUntouched
<1>8. CASE \/ CheckRunning \/ PollNothing \/ PollFails \/ ScaleNotDue \/ ScaleKeep
           \/ GrowPool \/ ShrinkPool \/ BeginDestroy \/ JoinThread \/ Exit
           \/ \E t \in Threads : \/ BlockForTask(t) \/ LeaveOnShutdown(t)
                                  \/ CancelWaiting(t) \/ CancelWoken(t)
                                  \/ SpuriousWakeup(t)
           \/ StopSignal \/ IntervalElapses \/ UNCHANGED vars
  <2>1. UNCHANGED <<queue, conn>>
    BY <1>8
       DEF CheckRunning, PollNothing, PollFails, ScaleNotDue, ScaleKeep, GrowPool,
           ShrinkPool, BeginDestroy, JoinThread, Exit, BlockForTask, LeaveOnShutdown,
           CancelWaiting, CancelWoken, SpuriousWakeup, StopSignal, IntervalElapses,
           vars
  <2>2. QuietStep
    BY <1>8 DEF QuietStep
  <2> QED
    BY <1>7, <2>1, <2>2
<1> QED
  BY <1>1, <1>2, <1>3, <1>4, <1>5, <1>6, <1>8 DEF Next, MainStep, WorkerStep, Ended

(* There is no connection in the beginning.                                  *)
LEMMA InitOwned == Init => EachOpenConnectionHasOneOwner
<1> SUFFICES ASSUME Init PROVE EachOpenConnectionHasOneOwner
  OBVIOUS
<1>1. Len(queue) = 0 /\ Range(queue) = {}
  BY EmptySeq DEF Init, Range
<1>2. Serving = {} /\ Conn("open") = {}
  BY DEF Init, Serving, In, Conn
<1> QED
  BY <1>1, <1>2 DEF EachOpenConnectionHasOneOwner

(* No request is lost, queued twice or served by two threads, for any number *)
(* of threads and connections (thread_pool_add_task, thread_pool_worker).    *)
THEOREM OneOwnerPerConnection == Spec => []EachOpenConnectionHasOneOwner
<1>1. IInv /\ EachOpenConnectionHasOneOwner /\ [Next]_vars
        => EachOpenConnectionHasOneOwner'
  BY OwnersKept
<1> QED
  BY <1>1, InitOwned, InvHolds, PTL DEF Spec

----------------------------------------------------------------------------
(* The counters.  What they count is finite, for it grows from nothing one   *)
(* by one: no bound on the threads or connections of the system is needed.   *)
Busy == Serving \cup Counting

(* The counters are exact, and the workers with a task are finitely many.    *)
CountersInv == /\ MetricsExact
               /\ PoolExists => IsFiniteSet(Busy) /\ IsFiniteSet(Conn("served"))

(* Quiet steps move no task and change no counter.                           *)
LEMMA CountersKeptByQuietSteps ==
    ASSUME IInv, CountersInv, QuietStep
    PROVE  CountersInv'
<1> USE DEF IInv, poolVars, workerVars
<1>1. SUFFICES ASSUME PoolExists' PROVE CountersInv'
  BY DEF CountersInv, MetricsExact
<1>2. /\ Busy' = Busy /\ Counting' = Counting
      /\ UNCHANGED <<active_threads, perf>>
  BY BusyWorkersUntouched DEF Busy
<1>3. ASSUME PoolExists,
             Conn("served")' = Conn("served"),
             queue_size = Len(queue) => queue_size' = Len(queue')
      PROVE  CountersInv'
  BY <1>2, <1>3 DEF CountersInv, MetricsExact, Busy
<1>4. ASSUME NEW c \in Conns, AddTask(c)
      PROVE  CountersInv'
  <2>1. Conn("served")' = Conn("served")
    BY <1>4 DEF AddTask, Conn, TypeOK
  <2>2. Len(queue') = Len(queue) + 1 /\ queue_size' = queue_size + 1
    BY <1>4, AppendProperties DEF AddTask, TypeOK
  <2>3. PoolExists
    BY <1>4 DEF AddTask, PoolExists
  <2> QED
    BY <1>3, <2>1, <2>2, <2>3
<1>5. ASSUME NEW c \in Conns, RefuseConnection(c)
      PROVE  CountersInv'
  <2>1. Conn("served")' = Conn("served")
    BY <1>5 DEF RefuseConnection, Conn, TypeOK
  <2>2. PoolExists /\ UNCHANGED <<queue, queue_size>>
    BY <1>5 DEF RefuseConnection, PoolExists
  <2> QED
    BY <1>3, <2>1, <2>2
<1>6. CASE FreePool
  BY <1>1, <1>6 DEF FreePool, PoolExists
<1>7. CASE \/ CheckRunning \/ PollNothing \/ PollFails \/ ScaleNotDue \/ ScaleKeep
           \/ GrowPool \/ ShrinkPool \/ BeginDestroy \/ JoinThread \/ Exit
           \/ \E t \in Threads : \/ BlockForTask(t) \/ LeaveOnShutdown(t)
                                  \/ CancelWaiting(t) \/ CancelWoken(t)
                                  \/ SpuriousWakeup(t)
           \/ StopSignal \/ IntervalElapses \/ UNCHANGED vars
  <2>1. UNCHANGED <<queue, queue_size, conn>>
    BY <1>7
       DEF CheckRunning, PollNothing, PollFails, ScaleNotDue, ScaleKeep, GrowPool,
           ShrinkPool, BeginDestroy, JoinThread, Exit, BlockForTask, LeaveOnShutdown,
           CancelWaiting, CancelWoken, SpuriousWakeup, StopSignal, IntervalElapses,
           vars
  <2>2. PoolExists
    BY <1>1, <1>7
       DEF CheckRunning, PollNothing, PollFails, ScaleNotDue, ScaleKeep, GrowPool,
           ShrinkPool, BeginDestroy, JoinThread, Exit, BlockForTask, LeaveOnShutdown,
           CancelWaiting, CancelWoken, SpuriousWakeup, StopSignal, IntervalElapses,
           vars, PoolExists, AtQueue
  <2> QED
    BY <1>3, <2>1, <2>2 DEF Conn
<1> QED
  BY <1>4, <1>5, <1>6, <1>7 DEF QuietStep

(* A task moves from the queue to a worker, from being served to being       *)
(* counted and from there to the completed ones, each time with its counter. *)
LEMMA CountersKept ==
    ASSUME IInv, EachOpenConnectionHasOneOwner, CountersInv, [Next]_vars
    PROVE  CountersInv'
<1> USE DEF IInv, poolVars, workerVars
<1>1. ASSUME NEW t \in Threads, TakeTask(t)
      PROVE  CountersInv'
  <2>1. /\ PoolExists /\ t \notin Busy
        /\ queue \in Seq(Conns) /\ queue # << >> /\ queue' = Tail(queue)
        /\ queue_size' = queue_size - 1
        /\ active_threads' = active_threads + 1
        /\ UNCHANGED <<perf, conn>>
    BY <1>1 DEF TakeTask, AtQueue, TypeOK, Busy, Serving, Counting, In
  <2>2. Busy' = Busy \cup {t} /\ Counting' = Counting
    BY <1>1 DEF TakeTask, AtQueue, TypeOK, Busy, Serving, Counting, In
  <2>3. Len(queue') = Len(queue) - 1
    BY <2>1, HeadTailProperties
  <2>4. IsFiniteSet(Busy') /\ Cardinality(Busy') = Cardinality(Busy) + 1
    BY <2>1, <2>2, FS_AddElement DEF CountersInv
  <2> QED
    BY <2>1, <2>2, <2>3, <2>4 DEF CountersInv, MetricsExact, Conn, Busy
<1>2. ASSUME NEW t \in Threads, Serve(t), PoolExists
      PROVE  CountersInv'
  <2>1. /\ t \in Serving /\ t \notin Counting
        /\ conn' = [conn EXCEPT ![task[t]] = "served"]
        /\ UNCHANGED <<queue, queue_size, active_threads, perf>>
    BY <1>2 DEF Serve, Serving, Counting, In
  <2>2. Busy' = Busy /\ Counting' = Counting \cup {t}
    BY <1>2 DEF Serve, TypeOK, Busy, Serving, Counting, In
  <2>3. task[t] \in Conns /\ conn[task[t]] = "open"
    BY <2>1 DEF EachOpenConnectionHasOneOwner, Conn
  <2>4. /\ Conn("served")' = Conn("served") \cup {task[t]}
        /\ task[t] \notin Conn("served")
    BY <2>1, <2>3 DEF Conn, TypeOK
  <2>5. /\ IsFiniteSet(Conn("served")')
        /\ Cardinality(Conn("served")') = Cardinality(Conn("served")) + 1
    BY <1>2, <2>4, FS_AddElement DEF CountersInv
  <2>6. IsFiniteSet(Counting) /\ Cardinality(Counting) \in Nat
    BY <1>2, FS_Subset, FS_CardinalityType DEF CountersInv, Busy
  <2>7. Cardinality(Counting') = Cardinality(Counting) + 1
    BY <2>1, <2>2, <2>6, FS_AddElement
  <2>8. perf.completed \in Nat
    BY DEF TypeOK
  <2>9. perf.completed + Cardinality(Counting') = Cardinality(Conn("served")')
    BY <1>2, <2>5, <2>6, <2>7, <2>8 DEF CountersInv, MetricsExact
  <2> QED
    BY <1>2, <2>1, <2>2, <2>5, <2>9 DEF CountersInv, MetricsExact, Busy
<1>3. ASSUME NEW t \in Threads, Account(t)
      PROVE  CountersInv'
  <2>1. /\ PoolExists /\ t \in Counting /\ t \in Busy
        /\ active_threads' = active_threads - 1
        /\ UNCHANGED <<queue, queue_size, conn>>
    BY <1>3 DEF Account, Busy, Counting, In
  <2>2. Busy' = Busy \ {t} /\ Counting' = Counting \ {t}
    BY <1>3 DEF Account, TypeOK, Busy, Serving, Counting, In
  <2>3. perf'.completed = perf.completed + 1 /\ perf.completed \in Nat
    BY <1>3 DEF Account, Counted, TypeOK
  <2>4. /\ IsFiniteSet(Counting) /\ Cardinality(Counting) \in Nat
        /\ IsFiniteSet(Busy) /\ Cardinality(Busy) \in Nat
    BY <2>1, FS_Subset, FS_CardinalityType DEF CountersInv, Busy
  <2>5. /\ IsFiniteSet(Busy') /\ Cardinality(Busy') = Cardinality(Busy) - 1
        /\ Cardinality(Counting') = Cardinality(Counting) - 1
    BY <2>1, <2>2, <2>4, FS_RemoveElement
  <2>6. Conn("served")' = Conn("served")
    BY <2>1 DEF Conn
  <2> QED
    BY <2>1, <2>3, <2>4, <2>5, <2>6 DEF CountersInv, MetricsExact, Busy
<1>4. ASSUME ~ PoolExists'
      PROVE  CountersInv'
  BY <1>4 DEF CountersInv, MetricsExact
<1>5. ASSUME NEW t \in Threads, Serve(t), ~ PoolExists
      PROVE  ~ PoolExists'
  BY <1>5 DEF Serve, PoolExists
<1>6. ASSUME NEW t \in Threads, UseFreedPool(t)
      PROVE  ~ PoolExists'
  BY <1>6 DEF UseFreedPool, PoolExists
<1>7. CASE QuietStep
  BY <1>7, CountersKeptByQuietSteps
<1> QED
  BY <1>1, <1>2, <1>3, <1>4, <1>5, <1>6, <1>7
     DEF Next, MainStep, WorkerStep, Ended, QuietStep

(* The counters thread_pool_auto_scale and thread_pool_get_metrics read are  *)
(* exact whenever the mutex is free, cancelled workers included.             *)
THEOREM CountersAreExact == Spec => []MetricsExact
<1>1. Init => EachOpenConnectionHasOneOwner /\ CountersInv
  <2> SUFFICES ASSUME Init PROVE CountersInv
    BY InitOwned
  <2>1. /\ Len(queue) = 0 /\ queue_size = 0 /\ active_threads = 0
        /\ perf.completed = 0
    BY EmptySeq DEF Init
  <2>2. Busy = {} /\ Serving \cup Counting = {} /\ Counting = {} /\ Conn("served") = {}
    BY DEF Init, Busy, Serving, Counting, In, Conn
  <2>3. IsFiniteSet({}) /\ Cardinality({}) = 0
    BY FS_EmptySet
  <2>4. MetricsExact
    <3>1. queue_size = Len(queue)
      BY <2>1
    <3>2. active_threads = Cardinality(Serving \cup Counting)
      BY <2>1, <2>2, <2>3
    <3>3. perf.completed + Cardinality(Counting) = Cardinality(Conn("served"))
      BY <2>1, <2>2, <2>3
    <3> QED
      BY <3>1, <3>2, <3>3 DEF MetricsExact
  <2> QED
    BY <2>2, <2>3, <2>4 DEF CountersInv
<1>2. /\ IInv /\ EachOpenConnectionHasOneOwner /\ CountersInv
      /\ [Next]_vars
      => CountersInv'
  BY CountersKept
<1>3. CountersInv => MetricsExact
  BY DEF CountersInv
<1> QED
  BY <1>1, <1>2, <1>3, InvHolds, OneOwnerPerConnection, PTL DEF Spec

----------------------------------------------------------------------------
(* The refinement of WorkQueue.                                              *)

(* Nothing is submitted or scaled once shutdown is set.                      *)
ShutdownEndsTheLoop == shutdown => main \in {"join", "freed", "exited", "crashed"}

(* Only the stop of the pool sets shutdown, and it is the end of the loop.   *)
LEMMA ShutdownEndsTheLoopKept ==
    ASSUME ShutdownEndsTheLoop, [Next]_vars
    PROVE  ShutdownEndsTheLoop'
<1> USE DEF ShutdownEndsTheLoop, poolVars, workerVars
<1>1. CASE MainStep
  BY <1>1
     DEF MainStep, CheckRunning, PollNothing, PollFails, RefuseConnection, AddTask,
         ScaleNotDue, ScaleKeep, GrowPool, ShrinkPool, BeginDestroy, JoinThread,
         FreePool, Exit
<1>2. ASSUME NEW t \in Threads, WorkerStep(t) \/ SpuriousWakeup(t)
      PROVE  ShutdownEndsTheLoop'
  BY <1>2
     DEF WorkerStep, BlockForTask, TakeTask, LeaveOnShutdown, Serve, Account,
         CancelWaiting, CancelWoken, UseFreedPool, SpuriousWakeup
<1>3. CASE StopSignal \/ IntervalElapses \/ UNCHANGED vars
  BY <1>3 DEF StopSignal, IntervalElapses, vars
<1> QED
  BY <1>1, <1>2, <1>3 DEF Next, Ended

RefinementInv == IInv /\ EachOpenConnectionHasOneOwner /\ ShutdownEndsTheLoop

(* One step per action of the work queue, and the stutters.                  *)
LEMMA StepsOfTheQueue ==
    ASSUME RefinementInv, [Next]_vars
    PROVE  [Queue!Next]_(Queue!vars)
<1> DEFINE served == {task[t] : t \in Serving}
<1> USE DEF RefinementInv, IInv, poolVars, workerVars
<1>1. ASSUME QuietStep PROVE served' = served
  BY <1>1, BusyWorkersUntouched
<1>2. ASSUME NEW c \in Conns, AddTask(c)
      PROVE  Queue!Accept(c)
  <2>1. served' = served
    BY <1>1, <1>2 DEF QuietStep
  <2> QED
    BY <1>2, <2>1 DEF AddTask, Queue!Accept
<1>3. ASSUME NEW c \in Conns, RefuseConnection(c)
      PROVE  Queue!Refuse(c)
  <2>1. served' = served
    BY <1>1, <1>3 DEF QuietStep
  <2>2. ~ shutdown
    BY <1>3 DEF RefuseConnection, ShutdownEndsTheLoop
  <2> QED
    BY <1>3, <2>1, <2>2 DEF RefuseConnection, Queue!Refuse
<1>4. CASE BeginDestroy
  <2>1. served' = served
    BY <1>1, <1>4 DEF QuietStep
  <2>2. ~ shutdown
    BY <1>4 DEF BeginDestroy, ShutdownEndsTheLoop
  <2>3. Queue!Stop
    BY <1>4, <2>1, <2>2 DEF BeginDestroy, Queue!Stop
  <2> QED
    BY <2>3 DEF Queue!Next
<1>5. CASE FreePool
  <2>1. served' = served
    BY <1>1, <1>5 DEF QuietStep
  <2>2. shutdown /\ shutdown' = shutdown
    BY <1>5 DEF FreePool, ShutdownKnown
  <2>3. CASE queue = << >>
    <3>1. Range(queue) = {}
      BY <2>3 DEF Range
    <3>2. conn' = conn /\ queue' = queue
      BY <1>5, <2>3, <3>1 DEF FreePool, TypeOK
    <3> QED
      BY <2>1, <2>2, <3>2 DEF Queue!vars
  <2>4. CASE queue # << >>
    <3>1. Queue!Abandon
      BY <1>5, <2>1, <2>2, <2>4 DEF FreePool, Queue!Abandon, Range, Queue!Range
    <3> QED
      BY <3>1 DEF Queue!Next
  <2> QED
    BY <2>3, <2>4
<1>6. ASSUME NEW t \in Threads, TakeTask(t)
      PROVE  Queue!StartOldest
  <2>1. /\ queue \in Seq(Conns) /\ queue # << >>
        /\ queue' = Tail(queue) /\ ~ shutdown
        /\ UNCHANGED <<conn, shutdown>>
    BY <1>6 DEF TakeTask, TypeOK
  <2>2. Head(queue) \notin served
    BY <2>1, HeadTaken DEF EachOpenConnectionHasOneOwner
  <2>3. /\ Serving' = Serving \cup {t} /\ t \notin Serving
        /\ task'[t] = Head(queue)
        /\ \A s \in Serving : task'[s] = task[s]
    BY <1>6 DEF TakeTask, AtQueue, Serving, In, TypeOK
  <2>4. served' = served \cup {Head(queue)}
    BY <2>3
  <2> QED
    BY <2>1, <2>2, <2>4 DEF Queue!StartOldest
<1>7. ASSUME NEW t \in Threads, Serve(t)
      PROVE  \E r \in Conns : Queue!Finish(r)
  <2>1. /\ t \in Serving
        /\ conn' = [conn EXCEPT ![task[t]] = "served"]
        /\ UNCHANGED <<queue, task, shutdown>>
    BY <1>7 DEF Serve, Serving, In
  <2>2. Serving' = Serving \ {t}
    BY <1>7 DEF Serve, Serving, In, TypeOK
  <2>3. task[t] \in Conns /\ conn[task[t]] = "open"
    BY <2>1 DEF EachOpenConnectionHasOneOwner, Conn
  <2>4. \A s \in Serving : task[s] = task[t] => s = t
    BY <2>1 DEF EachOpenConnectionHasOneOwner
  <2>5. served' = served \ {task[t]}
    BY <2>1, <2>2, <2>4
  <2>6. PICK r \in Conns : r = task[t]
    BY <2>3
  <2>7. Queue!Finish(r)
    BY <2>1, <2>3, <2>5, <2>6 DEF Queue!Finish
  <2> QED
    BY <2>7
<1>8. ASSUME NEW t \in Threads, Account(t) \/ UseFreedPool(t)
      PROVE  UNCHANGED Queue!vars
  <2>1. /\ UNCHANGED <<queue, conn, shutdown>> /\ Serving' = Serving
        /\ \A s \in Serving : task'[s] = task[s]
    BY <1>8 DEF Account, UseFreedPool, Serving, In, TypeOK
  <2>2. served' = served
    BY <2>1
  <2> QED
    BY <2>1, <2>2 DEF Queue!vars
<1>9. CASE \/ CheckRunning \/ PollNothing \/ PollFails \/ ScaleNotDue \/ ScaleKeep
           \/ GrowPool \/ ShrinkPool \/ JoinThread \/ Exit
           \/ \E t \in Threads : \/ BlockForTask(t) \/ LeaveOnShutdown(t)
                                  \/ CancelWaiting(t) \/ CancelWoken(t)
                                  \/ SpuriousWakeup(t)
           \/ StopSignal \/ IntervalElapses \/ UNCHANGED vars
  <2>1. UNCHANGED <<queue, conn, shutdown>>
    BY <1>9
       DEF CheckRunning, PollNothing, PollFails, ScaleNotDue, ScaleKeep, GrowPool,
           ShrinkPool, JoinThread, Exit, BlockForTask, LeaveOnShutdown,
           CancelWaiting, CancelWoken, SpuriousWakeup, StopSignal, IntervalElapses,
           vars
  <2>2. served' = served
    BY <1>1, <1>9 DEF QuietStep
  <2> QED
    BY <2>1, <2>2 DEF Queue!vars
<1>10. ASSUME NEW c \in Conns, AddTask(c) \/ RefuseConnection(c)
       PROVE  Queue!Next
  BY <1>2, <1>3, <1>10 DEF Queue!Next
<1>11. ASSUME NEW t \in Threads, TakeTask(t)
       PROVE  Queue!Next
  BY <1>6, <1>11 DEF Queue!Next
<1>12. ASSUME NEW t \in Threads, Serve(t)
       PROVE  Queue!Next
  <2>1. \E c \in Conns : Queue!Finish(c)
    BY <1>7, <1>12
  <2>2. \E c \in Conns : Queue!Accept(c) \/ Queue!Refuse(c) \/ Queue!Finish(c)
    BY <2>1
  <2> QED
    BY <2>2 DEF Queue!Next
<1> QED
  BY <1>4, <1>5, <1>8, <1>9, <1>10, <1>11, <1>12
     DEF Next, MainStep, WorkerStep, Ended

(* For every number of threads and connections, the pool with its scaling,   *)
(* cancelled threads and shutdown is a first-come-first-started queue that   *)
(* serves each connection at most once.                                      *)
THEOREM PoolImplementsWorkQueue == Spec => ImplementsWorkQueue
<1>1. Init => Queue!Init /\ ShutdownEndsTheLoop
  BY DEF Init, Queue!Init, ShutdownEndsTheLoop, Serving, In
<1>2. RefinementInv /\ [Next]_vars => [Queue!Next]_(Queue!vars)
  BY StepsOfTheQueue
<1>3. ShutdownEndsTheLoop /\ [Next]_vars => ShutdownEndsTheLoop'
  BY ShutdownEndsTheLoopKept
<1> QED
  BY <1>1, <1>2, <1>3, InvHolds, OneOwnerPerConnection, PTL
     DEF Spec, ImplementsWorkQueue, Queue!Spec, RefinementInv
=============================================================================
