------------------------ MODULE ThreadPoolRefinement ------------------------
(***************************************************************************)
(* The thread pool implements the work queue: what is served is what the     *)
(* threads in "serve" hold, whether the pool still counts them or cancelled  *)
(* them.                                                                     *)
(***************************************************************************)
EXTENDS ThreadPoolProperties

Queue == INSTANCE WorkQueue
           WITH Requests <- Conns,
                waiting  <- queue,
                serving  <- {task[t] : t \in Serving},
                outcome  <- conn,
                stopped  <- shutdown

(* Every behaviour of the main thread and the workers, cancelled threads and *)
(* use of the freed pool included, is one of the work queue: first come      *)
(* first started, at most once, nothing started after the shutdown and       *)
(* nothing abandoned before it.                                              *)
ImplementsWorkQueue == Queue!Spec
=============================================================================
