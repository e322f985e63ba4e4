------------------------ MODULE ThreadPoolProperties ------------------------
(***************************************************************************)
(* What the thread pool has to guarantee, and what the comments say of it.   *)
(***************************************************************************)
EXTENDS ThreadPool

Alive(t)   == pc[t] \notin {"none", "terminated"}
Serving    == In("serve")
Counting   == In("account")
Conn(state) == {c \in Conns : conn[c] = state}

TypeOK ==
    /\ main \in MainStates
    /\ running \in BOOLEAN
    /\ joined \in Nat
    /\ threads \in [Slots -> Threads \cup {NoThread}]
    /\ thread_count \in Nat
    /\ queue \in Seq(Conns)
    /\ queue_size \in Int
    /\ active_threads \in Int
    /\ shutdown \in BOOLEAN
    /\ interval_over \in BOOLEAN
    /\ perf \in [completed : Nat, total : Nat, min : Nat, max : Nat]
    /\ pc \in [Threads -> WorkerStates]
    /\ task \in [Threads -> Conns \cup {NoConn}]
    /\ cancelled \subseteq Threads
    /\ conn \in [Conns -> ConnStates]

(* The pool never leaves the range of its configuration, whatever the mix of *)
(* growth, failed thread creation and shrinking (thread_pool_auto_scale).    *)
ThreadCountWithinLimits == thread_count \in MinThreads .. MaxThreads

(* The counted slots hold distinct workers that were not cancelled and, until *)
(* shutdown, are alive; every other thread ever created is one the pool      *)
(* cancelled.  The slots of cancelled threads are reused while those threads *)
(* may still be running.                                                     *)
WorkersAccountedFor ==
    /\ \A i \in 0 .. thread_count - 1 :
          /\ threads[i] \in Threads \ cancelled
          /\ pc[threads[i]] # "none"
          /\ shutdown \/ pc[threads[i]] # "terminated"
    /\ \A i, j \in 0 .. thread_count - 1 : threads[i] = threads[j] => i = j
    /\ \A t \in Threads : pc[t] # "none" =>
          \/ t \in cancelled
          \/ \E i \in 0 .. thread_count - 1 : threads[i] = t

(* A queued task is never forgotten: while the pool works, some thread is    *)
(* about to look at the queue or will when its request is done.  Signals go  *)
(* to any one waiter, a cancelled one included, and a cancelled waiter can   *)
(* die with the signal.                                                      *)
NoLostWakeup ==
    queue # << >> /\ ~ shutdown =>
        \E t \in Threads : pc[t] \in {"ready", "woken", "serve", "account"}

(* The counters that drive the scaling agree with the pool while it exists:  *)
(* queue_size with the queue, active_threads with the threads holding a      *)
(* task (cancelled ones included), the completed tasks with the connections  *)
(* served.                                                                   *)
MetricsExact ==
    PoolExists =>
        /\ queue_size = Len(queue)
        /\ active_threads = Cardinality(Serving \cup Counting)
        /\ perf.completed + Cardinality(Counting) = Cardinality(Conn("served"))

(* No request is lost or served twice: an open connection is queued once or  *)
(* served by one thread, never both, and no closed connection is queued or   *)
(* served.                                                                   *)
EachOpenConnectionHasOneOwner ==
    /\ \A i, j \in 1 .. Len(queue) : queue[i] = queue[j] => i = j
    /\ \A s, t \in Serving : task[s] = task[t] => s = t
    /\ \A t \in Serving : task[t] \notin Range(queue)
    /\ Conn("open") = Range(queue) \cup {task[t] : t \in Serving}

(* Every accepted connection is served, unless the server is stopped first:  *)
(* neither a cancelled worker nor a worker starved by newer connections      *)
(* keeps a request from being served.                                        *)
AcceptedIsServed ==
    \A c \in Conns : conn[c] = "open" ~> (conn[c] = "served" \/ shutdown)

(* A stop signal ends the server: the join loop of thread_pool_destroy never *)
(* waits for a worker that nobody wakes.                                     *)
StopEndsServer == ~ running ~> main \in {"exited", "crashed"}

----------------------------------------------------------------------------
(* A statement of the comments that the code does not meet.                  *)

(* main.c:171, "Destroy thread pool (waits for all threads to finish)", and  *)
(* thread_pool.c:491, "Wait for all threads to finish": when the pool is     *)
(* freed no thread is left.                                                  *)
AllThreadsFinished ==
    main \in {"freed", "exited"} => \A t \in Threads : ~ Alive(t)
=============================================================================
