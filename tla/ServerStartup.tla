----------------------------- MODULE ServerStartup -----------------------------
(***************************************************************************)
(* init_server of main.c and thread_pool_create(_with_limits) of             *)
(* thread_pool.c: resources are acquired one by one, and a failure gives     *)
(* back those acquired before.  The clean-up after a failed pthread_create   *)
(* runs while the threads created so far are starting, and it touches        *)
(* `shutdown` and queue_cond without the mutex: here the mutex is explicit   *)
(* and a worker's test of its loop condition and its wait are two steps.     *)
(***************************************************************************)
EXTENDS Integers, Sequences, Functions

CONSTANT InitialThreads   \* THREAD_POOL_INITIAL_SIZE

ASSUME StartupAssumption == InitialThreads \in Nat \ {0}

VARIABLES main,      \* the step init_server is at
          held,      \* how often it holds each resource
          created,   \* loop index i of thread_pool_create_with_limits
          joined,    \* loop index j of its clean-up
          shutdown,  \* pool->shutdown
          mutex,     \* holder of queue_mutex
          pc         \* the workers created so far

vars == <<main, held, created, joined, shutdown, mutex, pc>>

Workers == 0 .. InitialThreads - 1
Free    == InitialThreads   \* no worker holds the mutex

Resources == {"curl", "server_fd", "epoll_fd", "pool", "threads", "mutex", "cond"}

(* The steps before the threads, in order; those that are resources are      *)
(* acquired by it.                                                           *)
Steps == <<"curl", "server_fd", "options", "nonblocking", "bind", "listen",
           "epoll_fd", "epoll_ctl", "pool", "threads", "mutex", "cond", "create">>

StepAfter(s) == LET i == CHOOSE i \in DOMAIN Steps : Steps[i] = s
                IN  Steps[i + 1]

Sockets == {"curl", "server_fd", "epoll_fd"}

(* Slip: the pool's failure branch leaves the epoll descriptor open.         *)
ReleasedLeakingEpoll(s) ==
    CASE s = "curl" -> {}
      [] s = "server_fd" -> {"curl"}
      [] s \in {"options", "nonblocking", "bind", "listen", "epoll_fd"}
           -> {"curl", "server_fd"}
      [] s = "epoll_ctl" -> Sockets
      [] s = "pool" -> {"curl", "server_fd"}
      [] s = "threads" -> Sockets \cup {"pool"}
      [] s = "mutex" -> Sockets \cup {"pool", "threads"}
      [] s = "cond" -> Sockets \cup {"pool", "threads", "mutex"}
      [] s = "create" -> Sockets \cup {"pool", "threads", "mutex", "cond"}

(* What the failure branch of each step releases: those inside of            *)
(* thread_pool_create by its own branches and then by that of init_server.   *)
ReleasedOnFailure(s) ==
    CASE s = "curl" -> {}
      [] s = "server_fd" -> {"curl"}
      [] s \in {"options", "nonblocking", "bind", "listen", "epoll_fd"}
           -> {"curl", "server_fd"}
      [] s \in {"epoll_ctl", "pool"} -> Sockets
      [] s = "threads" -> Sockets \cup {"pool"}
      [] s = "mutex" -> Sockets \cup {"pool", "threads"}
      [] s = "cond" -> Sockets \cup {"pool", "threads", "mutex"}
      [] s = "create" -> Sockets \cup {"pool", "threads", "mutex", "cond"}

Release(resources) ==
    held' = [r \in Resources |-> IF r \in resources THEN held[r] - 1 ELSE held[r]]

Init == /\ main = "curl"
        /\ held = [r \in Resources |-> 0]
        /\ created = 0
        /\ joined = 0
        /\ shutdown = FALSE
        /\ mutex = Free
        /\ pc = [w \in Workers |-> "none"]

----------------------------------------------------------------------------

StepSucceeds ==
    /\ main \in Range(Steps) \ {"create"}
    /\ held' = [r \in Resources |-> IF r = main THEN held[r] + 1 ELSE held[r]]
    /\ main' = StepAfter(main)
    /\ UNCHANGED <<created, joined, shutdown, mutex, pc>>

StepFails ==
    /\ main \in Range(Steps) \ {"create"}
    /\ Release(ReleasedOnFailure(main))
    /\ main' = "failed"
    /\ UNCHANGED <<created, joined, shutdown, mutex, pc>>

(* Slip: one thread too many.                                                *)
CreateThreadTooMany ==
    /\ main = "create"
    /\ created <= InitialThreads
    /\ pc' = [pc EXCEPT ![created] = "start"]
    /\ created' = created + 1
    /\ UNCHANGED <<main, held, joined, shutdown, mutex>>

CreateThread ==
    /\ main = "create"
    /\ created < InitialThreads
    /\ pc' = [pc EXCEPT ![created] = "start"]
    /\ created' = created + 1
    /\ UNCHANGED <<main, held, joined, shutdown, mutex>>

(* init_server returns 0 and run_server takes over.                          *)
AllCreated ==
    /\ main = "create"
    /\ created = InitialThreads
    /\ main' = "running"
    /\ UNCHANGED <<held, created, joined, shutdown, mutex, pc>>

(* pthread_create fails: pool->shutdown = 1, without the mutex.              *)
CreateFails ==
    /\ main = "create"
    /\ created < InitialThreads
    /\ shutdown' = TRUE
    /\ main' = "broadcast"
    /\ UNCHANGED <<held, created, joined, mutex, pc>>

(* Slip: pthread_cond_signal in place of pthread_cond_broadcast.             *)
SignalShutdown ==
    /\ main = "broadcast"
    /\ LET waiting == {w \in Workers : pc[w] = "wait"}
       IN  \/ waiting = {} /\ UNCHANGED pc
          \/ \E w \in waiting : pc' = [pc EXCEPT ![w] = "woken"]
    /\ main' = "join"
    /\ UNCHANGED <<held, created, joined, shutdown, mutex>>

BroadcastShutdown ==
    /\ main = "broadcast"
    /\ pc' = [w \in Workers |-> IF pc[w] = "wait" THEN "woken" ELSE pc[w]]
    /\ main' = "join"
    /\ UNCHANGED <<held, created, joined, shutdown, mutex>>

(* Slip: the join loop is left out.                                          *)
JoinNoOne ==
    /\ main = "join"
    /\ joined < created
    /\ joined' = joined + 1
    /\ UNCHANGED <<main, held, created, shutdown, mutex, pc>>

JoinCreated ==
    /\ main = "join"
    /\ joined < created
    /\ pc[joined] = "terminated"
    /\ joined' = joined + 1
    /\ UNCHANGED <<main, held, created, shutdown, mutex, pc>>

GiveUp ==
    /\ main = "join"
    /\ joined = created
    /\ Release(ReleasedOnFailure("create"))
    /\ main' = "failed"
    /\ UNCHANGED <<created, joined, shutdown, mutex, pc>>

MainStep == \/ StepSucceeds \/ StepFails
            \/ CreateThread \/ AllCreated \/ CreateFails
            \/ BroadcastShutdown \/ JoinCreated \/ GiveUp

----------------------------------------------------------------------------
(* thread_pool_worker while the queue is empty.                              *)

Lock(w) ==
    /\ pc[w] \in {"start", "woken"}
    /\ mutex = Free
    /\ mutex' = w
    /\ pc' = [pc EXCEPT ![w] = "test"]
    /\ UNCHANGED <<main, held, created, joined, shutdown>>

(* while (queue_head == NULL && !shutdown)                                   *)
TestShutdown(w) ==
    /\ pc[w] = "test"
    /\ IF shutdown
         THEN mutex' = Free /\ pc' = [pc EXCEPT ![w] = "terminated"]
         ELSE UNCHANGED mutex /\ pc' = [pc EXCEPT ![w] = "block"]
    /\ UNCHANGED <<main, held, created, joined, shutdown>>

(* pthread_cond_wait releases the mutex and starts to wait in one step.      *)
Block(w) ==
    /\ pc[w] = "block"
    /\ mutex' = Free
    /\ pc' = [pc EXCEPT ![w] = "wait"]
    /\ UNCHANGED <<main, held, created, joined, shutdown>>

SpuriousWakeup(w) ==
    /\ pc[w] = "wait"
    /\ pc' = [pc EXCEPT ![w] = "woken"]
    /\ UNCHANGED <<main, held, created, joined, shutdown, mutex>>

WorkerStep(w) == Lock(w) \/ TestShutdown(w) \/ Block(w)

Ended == main = "failed" /\ UNCHANGED vars

Next == \/ MainStep
        \/ \E w \in Workers : WorkerStep(w) \/ SpuriousWakeup(w)
        \/ Ended

Spec == Init /\ [][Next]_vars

(* The scheduler runs every thread that can run; SF for the mutex, which a   *)
(* worker gets in the end however often others take it.                      *)
FairSpec == /\ Spec
            /\ WF_vars(MainStep)
            /\ \A w \in Workers : SF_vars(WorkerStep(w))
----------------------------------------------------------------------------

TypeOK == /\ main \in Range(Steps) \cup {"broadcast", "join", "running", "failed"}
          /\ held \in [Resources -> Int]
          /\ created \in 0 .. InitialThreads
          /\ joined \in 0 .. created
          /\ shutdown \in BOOLEAN
          /\ mutex \in Workers \cup {Free}
          /\ pc \in [Workers -> {"none", "start", "test", "block", "wait", "woken",
                                 "terminated"}]

(* Whichever step fails, everything acquired before it has been given back   *)
(* when init_server returns, and given back once: the pool's own clean-up    *)
(* and the one of init_server that follows it do not overlap.  No thread is  *)
(* left behind in a pool that was freed.                                     *)
FailureLeavesNothing ==
    main = "failed" => /\ \A r \in Resources : held[r] = 0
                       /\ \A w \in Workers : pc[w] \in {"none", "terminated"}

(* The mutex and the condition variable are never destroyed under a worker.  *)
SynchronisationOutlivesWorkers ==
    (\E w \in Workers : pc[w] \notin {"none", "terminated"})
        => \A r \in {"mutex", "cond", "pool"} : held[r] = 1

(* When no worker is between its test of `shutdown` and its wait while the    *)
(* clean-up broadcasts (thread_pool.c:230-231), init_server returns.  A       *)
(* worker that is there misses the broadcast, for it is sent without the     *)
(* mutex, and pthread_join waits for it for ever.                            *)
InitReturnsUnlessBroadcastMissed ==
    \/ <>(main \in {"running", "failed"})
    \/ <>(main = "join" /\ \E w \in Workers : pc[w] = "block")
=============================================================================
