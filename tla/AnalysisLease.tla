--------------------------- MODULE AnalysisLease ---------------------------
(***************************************************************************)
(* What claiming a scan promises: the analysis of a scan is a lease that   *)
(* one process holds at a time and that ends in a stored result or in      *)
(* nothing, and a result is stored at most once.                           *)
(*                                                                         *)
(* ScanLifecycle implements this with a status column, an age and an       *)
(* atomic UPDATE, under redelivered, lost and retried messages.            *)
(***************************************************************************)
CONSTANT Workers

VARIABLES
    holders,    \* the processes that hold the lease: none or one
    stored      \* a result has been stored

vars == <<holders, stored>>

Init ==
    /\ holders = {}
    /\ stored = FALSE

\* A free lease of an unfinished scan is taken.
Acquire(w) ==
    /\ holders = {} /\ ~stored
    /\ holders' = {w}
    /\ UNCHANGED stored

\* The holder stores its result, and with it gives the lease up for good.
Publish(w) ==
    /\ holders = {w}
    /\ stored' = TRUE
    /\ holders' = {}

\* The holder fails, is killed or hands the scan back.
Release(w) ==
    /\ holders = {w}
    /\ holders' = {}
    /\ UNCHANGED stored

Next == \E w \in Workers : Acquire(w) \/ Publish(w) \/ Release(w)

Spec == Init /\ [][Next]_vars
=============================================================================
