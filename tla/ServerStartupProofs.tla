-------------------------- MODULE ServerStartupProofs --------------------------
(***************************************************************************)
(* Proofs about ServerStartup for any number of threads: whichever step of   *)
(* init_server fails, nothing is left, and no thread outlives what it uses.  *)
(***************************************************************************)
EXTENDS ServerStartup, TLAPS

LEMMA StepsAre == Len(Steps) = 13 /\ DOMAIN Steps = 1 .. 13
  BY DEF Steps

(* The step after one but the last stands next to it.                        *)
LEMMA StepAfterIsNext ==
  ASSUME NEW s \in Range(Steps) \ {"create"}
  PROVE  \E i \in 1 .. 12 : s = Steps[i] /\ StepAfter(s) = Steps[i + 1]
<1> DEFINE i == CHOOSE i \in DOMAIN Steps : Steps[i] = s
<1>1. i \in 1 .. 13 /\ Steps[i] = s
  BY StepsAre DEF Range
<1>2. Steps[13] = "create"
  BY DEF Steps
<1>3. i \in 1 .. 12
  BY <1>1, <1>2
<1>4. StepAfter(s) = Steps[i + 1]
  BY DEF StepAfter
<1> HIDE DEF i
<1> QED
  BY <1>1, <1>3, <1>4

StepNames == {"curl", "server_fd", "options", "nonblocking", "bind", "listen",
              "epoll_fd", "epoll_ctl", "pool", "threads", "mutex", "cond", "create"}

LEMMA StepNamesAre == Range(Steps) = StepNames
  BY StepsAre DEF Range, Steps, StepNames

(* The order of the steps, one by one.                                       *)
LEMMA StepOrder ==
  /\ StepAfter("curl") = "server_fd"
  /\ StepAfter("server_fd") = "options"
  /\ StepAfter("options") = "nonblocking"
  /\ StepAfter("nonblocking") = "bind"
  /\ StepAfter("bind") = "listen"
  /\ StepAfter("listen") = "epoll_fd"
  /\ StepAfter("epoll_fd") = "epoll_ctl"
  /\ StepAfter("epoll_ctl") = "pool"
  /\ StepAfter("pool") = "threads"
  /\ StepAfter("threads") = "mutex"
  /\ StepAfter("mutex") = "cond"
  /\ StepAfter("cond") = "create"
<1>1. StepAfter("curl") = "server_fd"
  BY StepAfterIsNext, StepNamesAre DEF Steps, StepNames
<1>2. StepAfter("server_fd") = "options"
  BY StepAfterIsNext, StepNamesAre DEF Steps, StepNames
<1>3. StepAfter("options") = "nonblocking"
  BY StepAfterIsNext, StepNamesAre DEF Steps, StepNames
<1>4. StepAfter("nonblocking") = "bind"
  BY StepAfterIsNext, StepNamesAre DEF Steps, StepNames
<1>5. StepAfter("bind") = "listen"
  BY StepAfterIsNext, StepNamesAre DEF Steps, StepNames
<1>6. StepAfter("listen") = "epoll_fd"
  BY StepAfterIsNext, StepNamesAre DEF Steps, StepNames
<1>7. StepAfter("epoll_fd") = "epoll_ctl"
  BY StepAfterIsNext, StepNamesAre DEF Steps, StepNames
<1>8. StepAfter("epoll_ctl") = "pool"
  BY StepAfterIsNext, StepNamesAre DEF Steps, StepNames
<1>9. StepAfter("pool") = "threads"
  BY StepAfterIsNext, StepNamesAre DEF Steps, StepNames
<1>10. StepAfter("threads") = "mutex"
  BY StepAfterIsNext, StepNamesAre DEF Steps, StepNames
<1>11. StepAfter("mutex") = "cond"
  BY StepAfterIsNext, StepNamesAre DEF Steps, StepNames
<1>12. StepAfter("cond") = "create"
  BY StepAfterIsNext, StepNamesAre DEF Steps, StepNames
<1> QED
  BY <1>1, <1>2, <1>3, <1>4, <1>5, <1>6, <1>7, <1>8, <1>9, <1>10, <1>11, <1>12

(* What a failure would release is what is held: a step acquires what its    *)
(* own failure branch does not release and that of the next one does.        *)
LEMMA ReleaseFollowsSteps ==
  ASSUME NEW s \in StepNames \ {"create"}
  PROVE  ReleasedOnFailure(StepAfter(s)) = ReleasedOnFailure(s) \cup ({s} \cap Resources)
         /\ s \notin ReleasedOnFailure(s)
<1> USE StepOrder DEF ReleasedOnFailure, Resources, Sockets
<1>1. CASE s \in {"curl"}
  BY <1>1
<1>2. CASE s \in {"server_fd"}
  BY <1>2
<1>3. CASE s \in {"options", "nonblocking", "bind", "listen"}
  BY <1>3
<1>4. CASE s \in {"epoll_fd"}
  BY <1>4
<1>5. CASE s \in {"epoll_ctl"}
  BY <1>5
<1>6. CASE s \in {"pool"}
  BY <1>6
<1>7. CASE s \in {"threads"}
  BY <1>7
<1>8. CASE s \in {"mutex"}
  BY <1>8
<1>9. CASE s \in {"cond"}
  BY <1>9
<1> QED
  BY <1>1, <1>2, <1>3, <1>4, <1>5, <1>6, <1>7, <1>8, <1>9 DEF StepNames

Holding(resources) == held = [r \in Resources |-> IF r \in resources THEN 1 ELSE 0]

HeldByStep ==
    /\ main \in StepNames \cup {"broadcast", "join", "running", "failed"}
    /\ main \in StepNames => Holding(ReleasedOnFailure(main))
    /\ main \in {"broadcast", "join", "running"} => Holding(ReleasedOnFailure("create"))
    /\ main = "failed" => Holding({})

(* The workers are those created; the joined ones have ended.                *)
WorkersByIndex ==
    /\ created \in Nat /\ joined \in Nat /\ joined <= created
    /\ pc \in [Workers -> {"none", "start", "test", "block", "wait", "woken", "terminated"}]
    /\ main \in StepNames \ {"create"} => created = 0
    /\ main \notin {"join", "failed"} => joined = 0
    /\ \A w \in Workers : pc[w] # "none" => w < created
    /\ \A w \in Workers : w < joined => pc[w] = "terminated"
    /\ main = "failed" => joined = created

IInv == HeldByStep /\ WorkersByIndex

LEMMA HeldKept ==
  ASSUME HeldByStep, [Next]_vars
  PROVE  HeldByStep'
<1> USE DEF HeldByStep
<1>1. CASE StepSucceeds
  <2>1. main \in StepNames \ {"create"}
    BY <1>1, StepNamesAre DEF StepSucceeds
  <2>2. main' = StepAfter(main) /\ main' \in StepNames
    BY <1>1, <2>1, StepOrder DEF StepSucceeds, StepNames
  <2>3. held' = [r \in Resources |-> IF r = main THEN held[r] + 1 ELSE held[r]]
    BY <1>1 DEF StepSucceeds
  <2>4. held' = [r \in Resources |-> IF r \in ReleasedOnFailure(main') THEN 1 ELSE 0]
    <3>1. Holding(ReleasedOnFailure(main))
      BY <2>1
    <3>2. /\ ReleasedOnFailure(main') = ReleasedOnFailure(main) \cup ({main} \cap Resources)
          /\ main \notin ReleasedOnFailure(main)
      BY <2>1, <2>2, ReleaseFollowsSteps
    <3> QED
      BY <2>3, <3>1, <3>2 DEF Holding
  <2> QED
    BY <2>2, <2>4 DEF Holding, StepNames
<1>2. CASE StepFails
  <2>1. Holding(ReleasedOnFailure(main)) /\ Release(ReleasedOnFailure(main))
    BY <1>2, StepNamesAre DEF StepFails
  <2>2. main' = "failed"
    BY <1>2 DEF StepFails
  <2>3. Holding({})'
    BY <2>1 DEF Holding, Release
  <2> QED
    BY <2>2, <2>3 DEF StepNames
<1>3. CASE CreateThread
  BY <1>3 DEF CreateThread, Holding, StepNames
<1>4. CASE AllCreated
  BY <1>4 DEF AllCreated, Holding, StepNames
<1>5. CASE CreateFails
  BY <1>5 DEF CreateFails, Holding, StepNames
<1>6. CASE BroadcastShutdown
  BY <1>6 DEF BroadcastShutdown, Holding, StepNames
<1>7. CASE JoinCreated
  BY <1>7 DEF JoinCreated, Holding, StepNames
<1>8. CASE GiveUp
  <2>1. Holding(ReleasedOnFailure("create")) /\ Release(ReleasedOnFailure("create"))
    BY <1>8 DEF GiveUp
  <2>2. main' = "failed"
    BY <1>8 DEF GiveUp
  <2>3. Holding({})'
    BY <2>1 DEF Holding, Release
  <2> QED
    BY <2>2, <2>3 DEF StepNames
<1>9. ASSUME NEW w \in Workers, WorkerStep(w) \/ SpuriousWakeup(w) PROVE HeldByStep'
  BY <1>9 DEF WorkerStep, Lock, TestShutdown, Block, SpuriousWakeup, Holding
<1>10. CASE UNCHANGED vars
  BY <1>10 DEF vars, Holding
<1> QED
  BY <1>1, <1>2, <1>3, <1>4, <1>5, <1>6, <1>7, <1>8, <1>9, <1>10
  DEF Next, MainStep, Ended

LEMMA WorkersKept ==
  ASSUME HeldByStep, WorkersByIndex, [Next]_vars
  PROVE  WorkersByIndex'
<1> USE StartupAssumption DEF WorkersByIndex
<1>1. CASE StepSucceeds
  <2>1. main \in StepNames \ {"create"} /\ main' = StepAfter(main)
    BY <1>1, StepNamesAre DEF StepSucceeds
  <2>2. main' \in StepNames
    BY <2>1, StepOrder DEF StepNames
  <2> QED
    BY <1>1, <2>1, <2>2 DEF StepSucceeds, StepNames
<1>2. CASE StepFails
  <2>1. main \in StepNames \ {"create"}
    BY <1>2, StepNamesAre DEF StepFails
  <2> QED
    BY <1>2, <2>1 DEF StepFails, StepNames
<1>3. CASE CreateThread
  BY <1>3 DEF CreateThread, Workers, StepNames
<1>4. CASE AllCreated
  BY <1>4 DEF AllCreated, StepNames
<1>5. CASE CreateFails
  BY <1>5 DEF CreateFails, StepNames
<1>6. CASE BroadcastShutdown
  BY <1>6 DEF BroadcastShutdown, StepNames
<1>7. CASE JoinCreated
  BY <1>7 DEF JoinCreated, StepNames, Workers
<1>8. CASE GiveUp
  BY <1>8 DEF GiveUp, StepNames
<1>9. ASSUME NEW w \in Workers, WorkerStep(w) \/ SpuriousWakeup(w) PROVE WorkersByIndex'
  BY <1>9 DEF WorkerStep, Lock, TestShutdown, Block, SpuriousWakeup
<1>10. CASE UNCHANGED vars
  BY <1>10 DEF vars
<1> QED
  BY <1>1, <1>2, <1>3, <1>4, <1>5, <1>6, <1>7, <1>8, <1>9, <1>10
  DEF Next, MainStep, Ended

LEMMA IInvHolds == Spec => []IInv
<1>1. Init => IInv
  BY StartupAssumption
  DEF Init, IInv, HeldByStep, Holding, ReleasedOnFailure, WorkersByIndex, StepNames, Workers
<1>2. IInv /\ [Next]_vars => IInv'
  BY HeldKept, WorkersKept DEF IInv
<1> QED
  BY <1>1, <1>2, PTL DEF Spec

(* For any number of threads and whichever of the thirteen steps fails, all  *)
(* that was acquired is given back and no thread is left (main.c:33-158,      *)
(* thread_pool.c:157-245).                                                   *)
THEOREM FailingLeavesNothing == Spec => []FailureLeavesNothing
<1>1. IInv => FailureLeavesNothing
  BY DEF IInv, HeldByStep, Holding, WorkersByIndex, FailureLeavesNothing
<1> QED
  BY <1>1, IInvHolds, PTL

(* The clean-up after a failed pthread_create never destroys the mutex or    *)
(* the condition variable of a thread that runs (thread_pool.c:231-242).      *)
THEOREM ThreadsKeepTheirMutex == Spec => []SynchronisationOutlivesWorkers
<1>1. IInv => SynchronisationOutlivesWorkers
  <2> SUFFICES ASSUME IInv, NEW w \in Workers, pc[w] \notin {"none", "terminated"}
               PROVE  \A r \in {"mutex", "cond", "pool"} : held[r] = 1
    BY DEF SynchronisationOutlivesWorkers
  <2>1. w \in Nat /\ w < created /\ ~(w < joined)
    BY StartupAssumption DEF IInv, WorkersByIndex, Workers
  <2>2. main \notin (StepNames \ {"create"}) \cup {"failed"}
    BY <2>1 DEF IInv, WorkersByIndex
  <2>3. Holding(ReleasedOnFailure("create"))
    BY <2>2 DEF IInv, HeldByStep, StepNames
  <2> QED
    BY <2>3 DEF Holding, ReleasedOnFailure, Resources
<1> QED
  BY <1>1, IInvHolds, PTL
----------------------------------------------------------------------------

(* What TypeOK adds to IInv.                                                 *)
RestTyped == /\ held \in [Resources -> Int]
             /\ created <= InitialThreads
             /\ shutdown \in BOOLEAN
             /\ mutex \in Workers \cup {Free}

LEMMA RestTypedKept ==
  ASSUME IInv, RestTyped, [Next]_vars
  PROVE  RestTyped'
<1> USE StartupAssumption DEF RestTyped
<1>1. CASE StepSucceeds \/ StepFails
  BY <1>1 DEF StepSucceeds, StepFails, Release
<1>2. CASE CreateThread
  BY <1>2 DEF CreateThread, IInv, WorkersByIndex
<1>3. CASE AllCreated \/ CreateFails \/ BroadcastShutdown
  BY <1>3 DEF AllCreated, CreateFails, BroadcastShutdown
<1>4. CASE JoinCreated \/ GiveUp
  BY <1>4 DEF JoinCreated, GiveUp, Release
<1>5. ASSUME NEW w \in Workers, WorkerStep(w) \/ SpuriousWakeup(w) PROVE RestTyped'
  BY <1>5 DEF WorkerStep, Lock, TestShutdown, Block, SpuriousWakeup
<1>6. CASE UNCHANGED vars
  BY <1>6 DEF vars
<1> QED
  BY <1>1, <1>2, <1>3, <1>4, <1>5, <1>6 DEF Next, MainStep, Ended

(* The indices i and j of thread_pool_create_with_limits stay in the array,  *)
(* and no other than a worker or nobody holds its mutex.                     *)
THEOREM StartupTypes == Spec => []TypeOK
<1>1. Init => RestTyped
  <2>1. Init => created <= InitialThreads
    BY StartupAssumption DEF Init
  <2>2. Init => shutdown \in BOOLEAN
    BY DEF Init
  <2>3. Init => held \in [Resources -> Int] /\ mutex \in Workers \cup {Free}
    BY DEF Init
  <2> QED
    BY <2>1, <2>2, <2>3, Zenon DEF RestTyped
<1>2. IInv /\ RestTyped /\ [Next]_vars => RestTyped'
  BY RestTypedKept
<1>3. IInv /\ RestTyped => TypeOK
  <2> SUFFICES ASSUME IInv, RestTyped PROVE TypeOK
    OBVIOUS
  <2>1. main \in Range(Steps) \cup {"broadcast", "join", "running", "failed"}
    BY StepNamesAre DEF IInv, HeldByStep
  <2>2. created \in 0 .. InitialThreads /\ joined \in 0 .. created
    BY StartupAssumption DEF IInv, WorkersByIndex, RestTyped
  <2>3. pc \in [Workers -> {"none", "start", "test", "block", "wait", "woken",
                            "terminated"}]
    BY DEF IInv, WorkersByIndex
  <2> QED
    BY <2>1, <2>2, <2>3 DEF RestTyped, TypeOK
<1> QED
  BY <1>1, <1>2, <1>3, IInvHolds, PTL DEF Spec
=============================================================================
