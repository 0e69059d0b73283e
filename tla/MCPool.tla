------------------------------- MODULE MCPool -------------------------------
(***************************************************************************)
(* Pool with a few writers, more than a pool has connections.              *)
(***************************************************************************)
EXTENDS Pool, TLC

CONSTANTS t1, t2, t3, t4, q1, q2, q3, q4

\* Nobody waits for anything: the process may rest here.
Rest == (\A t \in Tasks : pc[t] \in {"done", "failed"}) /\ current = None /\ UNCHANGED vars
MCSpec == Init /\ [][Next \/ Rest]_vars /\ Fairness
=============================================================================
