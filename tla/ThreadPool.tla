------------------------------ MODULE ThreadPool ------------------------------
(***************************************************************************)
(* The server's main thread and its thread pool (thread_pool.c, the event    *)
(* loop and clean-up of main.c, accept_new_connection of network.c).         *)
(*                                                                           *)
(* One main thread accepts connections, queues each as a task and runs the   *)
(* scaling check after every submission; the workers take tasks from the     *)
(* queue.  All pool state is guarded by queue_mutex, so a critical section   *)
(* is one action; the condition variable queue_cond is the set of threads    *)
(* in "wait", and a signal moves one of them to "woken", from where it has   *)
(* to reacquire the mutex.  pthread_cancel is deferred and enabled only      *)
(* around the wait: a cancelled thread dies in pthread_cond_wait or, if it   *)
(* never blocks there, goes on serving.                                      *)
(***************************************************************************)
EXTENDS AutoScale, Sequences, FiniteSets, Functions

CONSTANTS Threads,         \* the threads the system can create
          Conns,           \* client connections
          InitialThreads,  \* THREAD_POOL_INITIAL_SIZE
          Durations,       \* possible running times of a task, in ms
          NoThread,        \* contents of an unused slot of pool->threads
          NoConn           \* a worker that holds no task

ASSUME PoolAssumption ==
    /\ InitialThreads \in MinThreads .. MaxThreads
    /\ NoThread \notin Threads
    /\ NoConn \notin Conns
    /\ Durations \subseteq Nat

VARIABLES
    main,            \* control state of the main thread
    running,         \* g_server.running, cleared by the signal handler
    joined,          \* loop index i of thread_pool_destroy
    threads,         \* pool->threads
    thread_count,    \* pool->thread_count
    queue,           \* the list from queue_head to queue_tail
    queue_size,      \* pool->queue_size
    active_threads,  \* pool->active_threads
    shutdown,        \* pool->shutdown
    interval_over,   \* now - last_scale_time >= THREAD_POOL_SCALE_INTERVAL
    perf,            \* the performance counters of the pool
    pc,              \* control state of each worker
    task,            \* the connection a worker handles
    cancelled,       \* threads on which pthread_cancel was called
    conn             \* what became of each connection

poolVars == <<threads, thread_count, queue, queue_size, active_threads, shutdown,
              interval_over, perf>>
workerVars == <<pc, task, cancelled>>
vars == <<main, running, joined, poolVars, workerVars, conn>>

Slots == 0 .. MaxThreads - 1

(* main: "check" the loop condition, "poll" in epoll_wait, "scale" in        *)
(* thread_pool_auto_scale, "cleanup" after the loop, "join" in               *)
(* thread_pool_destroy, "freed" once the pool is gone, "exited" at return    *)
(* from main; "crashed" when a use of the freed pool brought it down.        *)
MainStates == {"check", "poll", "scale", "cleanup", "join", "freed", "exited",
               "crashed"}

(* pc: "none" not created, "ready" about to lock the mutex for a task,       *)
(* "wait" blocked on queue_cond, "woken" signalled and about to relock,      *)
(* "serve" running the task, "account" about to lock to count it,            *)
(* "terminated", or "wild" after it touched the freed pool.                  *)
WorkerStates == {"none", "ready", "wait", "woken", "serve", "account",
                 "terminated", "wild"}

(* conn: "new" not accepted, "open" queued or being served, "served" closed  *)
(* by the worker, "refused" closed by the main thread, "abandoned" its task  *)
(* freed from the queue with the socket left open.                           *)
ConnStates == {"new", "open", "served", "refused", "abandoned"}

Init ==
    /\ main = "check"
    /\ running = TRUE
    /\ joined = 0
    /\ thread_count = InitialThreads
    /\ \E created \in Injection(0 .. InitialThreads - 1, Threads) :
          /\ threads = [i \in Slots |->
                          IF i < InitialThreads THEN created[i] ELSE NoThread]
          /\ pc = [t \in Threads |->
                     IF t \in Range(created) THEN "ready" ELSE "none"]
    /\ queue = << >>
    /\ queue_size = 0
    /\ active_threads = 0
    /\ shutdown = FALSE
    /\ interval_over = FALSE
    /\ perf = [completed |-> 0, total |-> 0, min |-> 0, max |-> 0]
    /\ task = [t \in Threads |-> NoConn]
    /\ cancelled = {}
    /\ conn = [c \in Conns |-> "new"]

ProcessAlive == main \notin {"exited", "crashed"}
PoolExists   == main \notin {"freed", "exited", "crashed"}

In(state) == {t \in Threads : pc[t] = state}

(* pthread_cond_signal, applied to the worker states `w`: one of the waiters *)
(* becomes woken, if there is one.                                           *)
Signalled(w) ==
    LET waiting == {t \in Threads : w[t] = "wait"}
    IN  IF waiting = {} THEN {w}
        ELSE {[w EXCEPT ![t] = "woken"] : t \in waiting}

(* pthread_cond_broadcast                                                    *)
Broadcast(w) == [t \in Threads |-> IF w[t] = "wait" THEN "woken" ELSE w[t]]

----------------------------------------------------------------------------
(* The main thread: run_server and accept_new_connection.                    *)

CheckRunning ==
    /\ main = "check"
    /\ main' = IF running THEN "poll" ELSE "cleanup"
    /\ UNCHANGED <<running, joined, poolVars, workerVars, conn>>

(* epoll_wait times out or is interrupted, or accept finds no connection.    *)
PollNothing ==
    /\ main = "poll"
    /\ main' = "check"
    /\ UNCHANGED <<running, joined, poolVars, workerVars, conn>>

(* epoll_wait fails for another reason than EINTR: the loop is left.         *)
PollFails ==
    /\ main = "poll"
    /\ main' = "cleanup"
    /\ UNCHANGED <<running, joined, poolVars, workerVars, conn>>

(* accept_new_connection with a failing malloc, its own or that of           *)
(* thread_pool_add_task: the connection is closed.                           *)
RefuseConnection(c) ==
    /\ main = "poll"
    /\ conn[c] = "new"
    /\ conn' = [conn EXCEPT ![c] = "refused"]
    /\ main' = "check"
    /\ UNCHANGED <<running, joined, poolVars, workerVars>>

(* Slip: the task is queued without a signal.                                *)
AddTaskWithoutSignal(c) ==
    /\ main = "poll"
    /\ conn[c] = "new"
    /\ ~ shutdown
    /\ conn' = [conn EXCEPT ![c] = "open"]
    /\ queue' = Append(queue, c)
    /\ queue_size' = queue_size + 1
    /\ main' = "scale"
    /\ UNCHANGED <<running, joined, threads, thread_count, active_threads,
                   shutdown, interval_over, perf, workerVars>>

(* accept_new_connection and thread_pool_add_task up to its unlock.          *)
AddTask(c) ==
    /\ main = "poll"
    /\ conn[c] = "new"
    /\ ~ shutdown
    /\ conn' = [conn EXCEPT ![c] = "open"]
    /\ queue' = Append(queue, c)
    /\ queue_size' = queue_size + 1
    /\ pc' \in Signalled(pc)
    /\ main' = "scale"
    /\ UNCHANGED <<running, joined, threads, thread_count, active_threads,
                   shutdown, interval_over, perf, task, cancelled>>

----------------------------------------------------------------------------
(* thread_pool_auto_scale, called by the main thread after each submission.  *)

ScaleNotDue ==
    /\ main = "scale"
    /\ ~ interval_over
    /\ main' = "check"
    /\ UNCHANGED <<running, joined, poolVars, workerVars, conn>>

(* The check finds nothing to do and restarts the interval.                  *)
ScaleKeep ==
    /\ main = "scale"
    /\ interval_over
    /\ ~ ScaleUp(thread_count, active_threads, queue_size)
    /\ ~ ScaleDown(thread_count, active_threads, queue_size)
    /\ interval_over' = FALSE
    /\ main' = "check"
    /\ UNCHANGED <<running, joined, threads, thread_count, queue, queue_size,
                   active_threads, shutdown, perf, workerVars, conn>>

(* Slots thread_count .. new - 1 get freshly created threads, in order; when *)
(* pthread_create fails the loop stops at `new` short of GrownCount.         *)
GrowPool ==
    /\ main = "scale"
    /\ interval_over
    /\ ScaleUp(thread_count, active_threads, queue_size)
    /\ \E new \in thread_count .. GrownCount(thread_count) :
       \E created \in Injection(thread_count .. new - 1, In("none")) :
          /\ thread_count' = new
          /\ threads' = [i \in Slots |->
                           IF i \in thread_count .. new - 1 THEN created[i]
                           ELSE threads[i]]
          /\ pc' = [t \in Threads |-> IF t \in Range(created) THEN "ready"
                                       ELSE pc[t]]
    /\ interval_over' = FALSE
    /\ main' = "check"
    /\ UNCHANGED <<running, joined, queue, queue_size, active_threads, shutdown,
                   perf, task, cancelled, conn>>

(* Slip: the cancellation loop runs one slot too far.                        *)
ShrinkPoolOneTooFar ==
    /\ main = "scale"
    /\ interval_over
    /\ ScaleDown(thread_count, active_threads, queue_size)
    /\ thread_count' = ShrunkCount(thread_count)
    /\ cancelled' = cancelled \cup
                      {threads[i] : i \in thread_count' - 1 .. thread_count - 1}
    /\ interval_over' = FALSE
    /\ main' = "check"
    /\ UNCHANGED <<running, joined, threads, queue, queue_size, active_threads,
                   shutdown, perf, pc, task, conn>>

(* The threads of the slots given up are cancelled; they stay in the array.  *)
ShrinkPool ==
    /\ main = "scale"
    /\ interval_over
    /\ ScaleDown(thread_count, active_threads, queue_size)
    /\ thread_count' = ShrunkCount(thread_count)
    /\ cancelled' = cancelled \cup
                      {threads[i] : i \in thread_count' .. thread_count - 1}
    /\ interval_over' = FALSE
    /\ main' = "check"
    /\ UNCHANGED <<running, joined, threads, queue, queue_size, active_threads,
                   shutdown, perf, pc, task, conn>>

----------------------------------------------------------------------------
(* cleanup_server and thread_pool_destroy.                                   *)

(* Slip: shutdown is set and the waiters are not woken.                      *)
DestroyWithoutBroadcast ==
    /\ main = "cleanup"
    /\ running' = FALSE
    /\ shutdown' = TRUE
    /\ joined' = 0
    /\ main' = "join"
    /\ UNCHANGED <<threads, thread_count, queue, queue_size, active_threads,
                   interval_over, perf, workerVars, conn>>

BeginDestroy ==
    /\ main = "cleanup"
    /\ running' = FALSE
    /\ shutdown' = TRUE
    /\ pc' = Broadcast(pc)
    /\ joined' = 0
    /\ main' = "join"
    /\ UNCHANGED <<threads, thread_count, queue, queue_size, active_threads,
                   interval_over, perf, task, cancelled, conn>>

(* pthread_join of the next of the first thread_count slots.                 *)
JoinThread ==
    /\ main = "join"
    /\ joined < thread_count
    /\ pc[threads[joined]] = "terminated"
    /\ joined' = joined + 1
    /\ UNCHANGED <<main, running, poolVars, workerVars, conn>>

(* The tasks left in the queue are freed and then the pool itself.  Only the *)
(* task is freed: its argument, the socket, is not closed.  queue_size keeps *)
(* its value, as the pool is gone.                                           *)
FreePool ==
    /\ main = "join"
    /\ joined = thread_count
    /\ conn' = [c \in Conns |-> IF c \in Range(queue) THEN "abandoned"
                                ELSE conn[c]]
    /\ queue' = << >>
    /\ main' = "freed"
    /\ UNCHANGED <<running, joined, threads, thread_count, queue_size,
                   active_threads, shutdown, interval_over, perf, workerVars>>

(* The rest of cleanup_server and the return from main, which ends every     *)
(* thread of the process.                                                    *)
Exit ==
    /\ main = "freed"
    /\ main' = "exited"
    /\ UNCHANGED <<running, joined, poolVars, workerVars, conn>>

MainStep ==
    \/ CheckRunning \/ PollNothing \/ PollFails
    \/ \E c \in Conns : RefuseConnection(c) \/ AddTask(c)
    \/ ScaleNotDue \/ ScaleKeep \/ GrowPool \/ ShrinkPool
    \/ BeginDestroy \/ JoinThread \/ FreePool \/ Exit

----------------------------------------------------------------------------
(* The worker threads: thread_pool_worker.                                   *)

(* A worker at the top of its loop, or back from pthread_cond_wait, looks at *)
(* the queue with the mutex held.                                            *)
AtQueue(t) == PoolExists /\ pc[t] \in {"ready", "woken"}

BlockForTask(t) ==
    /\ AtQueue(t)
    /\ queue = << >>
    /\ ~ shutdown
    /\ pc' = [pc EXCEPT ![t] = "wait"]
    /\ UNCHANGED <<main, running, joined, poolVars, task, cancelled, conn>>

(* Slips: the task stays at the head of the queue; the queue is looked at    *)
(* before shutdown.                                                          *)
PeekTask(t) ==
    /\ AtQueue(t)
    /\ queue # << >>
    /\ ~ shutdown
    /\ active_threads' = active_threads + 1
    /\ task' = [task EXCEPT ![t] = Head(queue)]
    /\ pc' = [pc EXCEPT ![t] = "serve"]
    /\ UNCHANGED <<main, running, joined, threads, thread_count, queue,
                   queue_size, shutdown, interval_over, perf, cancelled, conn>>

TakeTaskDuringShutdown(t) ==
    /\ AtQueue(t)
    /\ queue # << >>
    /\ queue' = Tail(queue)
    /\ queue_size' = queue_size - 1
    /\ active_threads' = active_threads + 1
    /\ task' = [task EXCEPT ![t] = Head(queue)]
    /\ pc' = [pc EXCEPT ![t] = "serve"]
    /\ UNCHANGED <<main, running, joined, threads, thread_count, shutdown,
                   interval_over, perf, cancelled, conn>>

TakeTask(t) ==
    /\ AtQueue(t)
    /\ queue # << >>
    /\ ~ shutdown
    /\ queue' = Tail(queue)
    /\ queue_size' = queue_size - 1
    /\ active_threads' = active_threads + 1
    /\ task' = [task EXCEPT ![t] = Head(queue)]
    /\ pc' = [pc EXCEPT ![t] = "serve"]
    /\ UNCHANGED <<main, running, joined, threads, thread_count, shutdown,
                   interval_over, perf, cancelled, conn>>

(* Tasks still queued do not matter: shutdown is looked at first.            *)
LeaveOnShutdown(t) ==
    /\ AtQueue(t)
    /\ shutdown
    /\ pc' = [pc EXCEPT ![t] = "terminated"]
    /\ UNCHANGED <<main, running, joined, poolVars, task, cancelled, conn>>

(* task->function: handle_client_task serves the connection and closes it.   *)
(* It does not touch the pool, so it can run while the pool is being freed.  *)
Serve(t) ==
    /\ ProcessAlive
    /\ pc[t] = "serve"
    /\ conn' = [conn EXCEPT ![task[t]] = "served"]
    /\ pc' = [pc EXCEPT ![t] = "account"]
    /\ UNCHANGED <<main, running, joined, poolVars, task, cancelled>>

(* Slip: the counter of completed tasks is decremented.                      *)
CountedDown(p, ms) ==
    [completed |-> p.completed - 1,
     total     |-> p.total + ms,
     min       |-> IF p.min = 0 \/ ms < p.min THEN ms ELSE p.min,
     max       |-> IF ms > p.max THEN ms ELSE p.max]

(* The counters after a task of `ms` milliseconds; 0 stands for "no minimum  *)
(* yet" as well as for a task of less than a millisecond.                    *)
Counted(p, ms) ==
    [completed |-> p.completed + 1,
     total     |-> p.total + ms,
     min       |-> IF p.min = 0 \/ ms < p.min THEN ms ELSE p.min,
     max       |-> IF ms > p.max THEN ms ELSE p.max]

(* Slip: the thread stays counted as active.                                 *)
AccountStillActive(t) ==
    /\ PoolExists
    /\ pc[t] = "account"
    /\ \E ms \in Durations : perf' = Counted(perf, ms)
    /\ task' = [task EXCEPT ![t] = NoConn]
    /\ pc' = [pc EXCEPT ![t] = "ready"]
    /\ UNCHANGED <<main, running, joined, threads, thread_count, queue,
                   queue_size, active_threads, shutdown, interval_over,
                   cancelled, conn>>

Account(t) ==
    /\ PoolExists
    /\ pc[t] = "account"
    /\ \E ms \in Durations : perf' = Counted(perf, ms)
    /\ active_threads' = active_threads - 1
    /\ task' = [task EXCEPT ![t] = NoConn]
    /\ pc' = [pc EXCEPT ![t] = "ready"]
    /\ UNCHANGED <<main, running, joined, threads, thread_count, queue,
                   queue_size, shutdown, interval_over, cancelled, conn>>

(* Cancellation acts in pthread_cond_wait: on a thread that is blocked ...   *)
CancelWaiting(t) ==
    /\ PoolExists
    /\ pc[t] = "wait"
    /\ t \in cancelled
    /\ pc' = [pc EXCEPT ![t] = "terminated"]
    /\ UNCHANGED <<main, running, joined, poolVars, task, cancelled, conn>>

(* Slip: a cancelled thread dies with the signal it was given.               *)
CancelWokenWithSignal(t) ==
    /\ PoolExists
    /\ pc[t] = "woken"
    /\ t \in cancelled
    /\ pc' = [pc EXCEPT ![t] = "terminated"]
    /\ UNCHANGED <<main, running, joined, poolVars, task, cancelled, conn>>

(* ... or, before it returns, on one that was signalled: the signal is then  *)
(* passed on to another waiter.  Instead the thread may return and look at   *)
(* the queue like any other.                                                 *)
CancelWoken(t) ==
    /\ PoolExists
    /\ pc[t] = "woken"
    /\ t \in cancelled
    /\ pc' \in Signalled([pc EXCEPT ![t] = "terminated"])
    /\ UNCHANGED <<main, running, joined, poolVars, task, cancelled, conn>>

(* pthread_cond_wait may return without a signal.                            *)
SpuriousWakeup(t) ==
    /\ PoolExists
    /\ pc[t] = "wait"
    /\ pc' = [pc EXCEPT ![t] = "woken"]
    /\ UNCHANGED <<main, running, joined, poolVars, task, cancelled, conn>>

(* A thread that outlived the pool locks a mutex in freed memory: it may     *)
(* bring the process down or go on in any way.                               *)
UseFreedPool(t) ==
    /\ main = "freed"
    /\ pc[t] \in {"ready", "woken", "account"}
    /\ \/ /\ main' = "crashed"
          /\ UNCHANGED pc
       \/ /\ pc' = [pc EXCEPT ![t] = "wild"]
          /\ UNCHANGED main
    /\ UNCHANGED <<running, joined, poolVars, task, cancelled, conn>>

WorkerStep(t) ==
    \/ BlockForTask(t) \/ TakeTask(t) \/ LeaveOnShutdown(t)
    \/ Serve(t) \/ Account(t)
    \/ CancelWaiting(t) \/ CancelWoken(t)
    \/ UseFreedPool(t)

----------------------------------------------------------------------------
(* The environment.                                                          *)

(* signal_handler                                                            *)
StopSignal ==
    /\ ProcessAlive
    /\ running
    /\ running' = FALSE
    /\ UNCHANGED <<main, joined, poolVars, workerVars, conn>>

(* THREAD_POOL_SCALE_INTERVAL seconds have passed since the last scaling.    *)
IntervalElapses ==
    /\ PoolExists
    /\ ~ interval_over
    /\ interval_over' = TRUE
    /\ UNCHANGED <<main, running, joined, threads, thread_count, queue,
                   queue_size, active_threads, shutdown, perf, workerVars, conn>>

Ended == ~ ProcessAlive /\ UNCHANGED vars

Next ==
    \/ MainStep
    \/ \E t \in Threads : WorkerStep(t) \/ SpuriousWakeup(t)
    \/ StopSignal \/ IntervalElapses
    \/ Ended

Spec == Init /\ [][Next]_vars

(* The main thread keeps running (epoll_wait times out after a second), the  *)
(* mutex does not starve a worker, and every request is served or given up   *)
(* in bounded time (RequestHandler); time passes.  Nothing is assumed of     *)
(* clients, signals or spurious wake-ups.                                    *)
FairSpec == /\ Spec
            /\ WF_vars(MainStep)
            /\ \A t \in Threads : WF_vars(WorkerStep(t))
            /\ WF_vars(IntervalElapses)
=============================================================================
