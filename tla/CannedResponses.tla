--------------------------- MODULE CannedResponses ---------------------------
(***************************************************************************)
(* test_response_<language> of utils.c: the canned answers of one language   *)
(* are taken in turn, the place kept in a static int that every worker reads *)
(* and advances without a lock.  The compiled i++ is a load and a store, so  *)
(* another worker may come in between; int wraps when it overflows.          *)
(***************************************************************************)
EXTENDS Integers

CONSTANTS Workers,     \* threads that may be in the function
          TableSize,   \* length of test_string, 10
          MaxInt       \* largest value of an int

ASSUME CannedAssumption == /\ TableSize \in Nat \ {0}
                           /\ MaxInt \in Nat

VARIABLES counter,   \* static int i
          loaded,    \* what a worker has loaded from it and not yet stored back
          given      \* calls so far; stays at MaxInt + 2, it is a count for the properties

cannedVars == <<counter, loaded, given>>

None   == MaxInt + 1                  \* not inside the function
MinInt == -MaxInt - 1

(* The remainder of C, which has the sign of the dividend.                   *)
Remainder(a, b) == IF a >= 0 THEN a % b ELSE -((-a) % b)

(* Slip: the entries are counted from one.                                   *)
EntryFromOne(i) == Remainder(i, TableSize) + 1

(* test_string[i++ % 10]                                                     *)
Entry(i) == Remainder(i, TableSize)

Incremented(i) == IF i = MaxInt THEN MinInt ELSE i + 1

CannedInit == /\ counter = 0
              /\ loaded = [w \in Workers |-> None]
              /\ given = 0

Load(w) ==
    /\ loaded[w] = None
    /\ loaded' = [loaded EXCEPT ![w] = counter]
    /\ given' = IF given > MaxInt + 1 THEN given ELSE given + 1
    /\ UNCHANGED counter

Store(w) ==
    /\ loaded[w] # None
    /\ counter' = Incremented(loaded[w])
    /\ loaded' = [loaded EXCEPT ![w] = None]
    /\ UNCHANGED given

CannedNext == \E w \in Workers : Load(w) \/ Store(w)
----------------------------------------------------------------------------

CannedTypeOK == /\ counter \in MinInt .. MaxInt
                /\ loaded \in [Workers -> MinInt .. None]
                /\ given \in 0 .. MaxInt + 2

InTable(i) == Entry(i) \in 0 .. TableSize - 1

(* However the workers' loads and stores mix, repeating or skipping entries  *)
(* and even setting the counter back, the entry taken lies in the table, as  *)
(* long as the counter has not been advanced beyond an int: the first        *)
(* MaxInt + 1 answers in a language are safe, the next may not be.           *)
EntriesInTable ==
    given <= MaxInt + 1 => \A w \in Workers : loaded[w] # None => InTable(loaded[w])
=============================================================================
