----------------------------- MODULE MCThreadPool -----------------------------
(***************************************************************************)
(* Small instances of the thread pool for TLC.                               *)
(***************************************************************************)
EXTENDS ThreadPoolRefinement, TLC

(* Threads and connections are interchangeable in the safety properties.     *)
Symmetric == Permutations(Threads) \cup Permutations(Conns)
=============================================================================
