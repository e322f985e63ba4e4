------------------------------ MODULE WorkQueue ------------------------------
(***************************************************************************)
(* What the pool promises to the rest of the server, without threads,        *)
(* signals, scaling or counters: connections are started in the order of     *)
(* their arrival, each at most once; once the queue is stopped no further    *)
(* connection is started, and only then may waiting ones be abandoned.       *)
(***************************************************************************)
EXTENDS Sequences, Functions

CONSTANT Requests

VARIABLES waiting,  \* accepted and not started, oldest first
          serving,  \* started and not finished
          outcome,  \* of each request, "open" while it waits or is served
          stopped

vars == <<waiting, serving, outcome, stopped>>

Init == /\ waiting = << >>
        /\ serving = {}
        /\ outcome = [r \in Requests |-> "new"]
        /\ stopped = FALSE

Accept(r) == /\ outcome[r] = "new"
             /\ ~ stopped
             /\ waiting' = Append(waiting, r)
             /\ outcome' = [outcome EXCEPT ![r] = "open"]
             /\ UNCHANGED <<serving, stopped>>

Refuse(r) == /\ outcome[r] = "new"
             /\ ~ stopped
             /\ outcome' = [outcome EXCEPT ![r] = "refused"]
             /\ UNCHANGED <<waiting, serving, stopped>>

StartOldest == /\ waiting # << >>
               /\ ~ stopped
               /\ Head(waiting) \notin serving
               /\ serving' = serving \cup {Head(waiting)}
               /\ waiting' = Tail(waiting)
               /\ UNCHANGED <<outcome, stopped>>

Finish(r) == /\ r \in serving
             /\ outcome[r] = "open"
             /\ serving' = serving \ {r}
             /\ outcome' = [outcome EXCEPT ![r] = "served"]
             /\ UNCHANGED <<waiting, stopped>>

Stop == /\ ~ stopped
        /\ stopped' = TRUE
        /\ UNCHANGED <<waiting, serving, outcome>>

Abandon == /\ stopped
           /\ waiting # << >>
           /\ waiting' = << >>
           /\ outcome' = [r \in Requests |-> IF r \in Range(waiting)
                                             THEN "abandoned" ELSE outcome[r]]
           /\ UNCHANGED <<serving, stopped>>

Next == \/ \E r \in Requests : Accept(r) \/ Refuse(r) \/ Finish(r)
        \/ StartOldest \/ Stop \/ Abandon

Spec == Init /\ [][Next]_vars
=============================================================================
