----------------------------- MODULE MCRunStore -----------------------------
(***************************************************************************)
(* RunStore on small instances: a live run and an API run of one job that  *)
(* may both be repairs, another API run of it, and a stamp of the job.     *)
(***************************************************************************)
EXTENDS RunStore, TLC

CONSTANTS r1, a1, a2, j1, n1

\* Every run belongs to the one job.
SameJobOf == [r \in Runs |-> j1]

\* Every stamp is about the one job.
SameNoteJob == [n \in Notes |-> j1]

\* Everything that was opened is settled: the system may rest here.
Rested ==
  /\ \A r \in Runs : /\ host[r] \in {"closed", "lost"}
                     /\ startPc[r] \notin StartPending
                     /\ finPc[r] \notin FinPending
  /\ \A n \in Notes : notePc[n] \in {"done", "dropped"}
  /\ old = {r \in Runs : created[r] # 0}

\* Spec with a step for the rest, so that a deadlock is a task nobody can go on with.
Rest == Rested /\ UNCHANGED vars
MCSpec == Init /\ [][Next \/ Rest]_vars
MCFairSpec == MCSpec /\ Fairness
=============================================================================
