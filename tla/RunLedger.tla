----------------------------- MODULE RunLedger -----------------------------
(***************************************************************************)
(* What the `runs` and `steps` tables promise a reader (the report, the    *)
(* rules, the judge), whatever order the writers' statements land in:      *)
(*                                                                         *)
(*   - a run's row appears once, either as `running` or already final;     *)
(*   - a running row may become final, a final row never goes back;        *)
(*   - a run's steps are added once, and only under a final row;           *)
(*   - a row names its parent when it appears, the parent's row is already *)
(*     there, and the link never changes.                                  *)
(*                                                                         *)
(* RunStore, the writers of store.py, implements this specification.       *)
(***************************************************************************)
EXTENDS Naturals

CONSTANTS
  Runs,   \* run ids
  None    \* SQL NULL

\* NULL is no run id: what the theorems of RunLedgerProofs assume of the constants.
NoneIsNull == None \notin Runs

VARIABLES
  status,   \* status[r]: "absent", "running" or "final"
  parent,   \* parent[r]: parent_run_id, None when NULL
  steps     \* steps[r]: how many times the run's step rows were inserted

vars == <<status, parent, steps>>

Present == {r \in Runs : status[r] # "absent"}

TypeOK ==
  /\ status \in [Runs -> {"absent", "running", "final"}]
  /\ parent \in [Runs -> Runs \cup {None}]
  /\ steps \in [Runs -> Nat]

Init ==
  /\ status = [r \in Runs |-> "absent"]
  /\ parent = [r \in Runs |-> None]
  /\ steps = [r \in Runs |-> 0]

\* The row of r is inserted, linked to a row that is already stored or to none.
Appear(r) ==
  /\ status[r] = "absent"
  /\ \E s \in {"running", "final"} : status' = [status EXCEPT ![r] = s]
  /\ \E p \in Present \cup {None} : parent' = [parent EXCEPT ![r] = p]
  /\ UNCHANGED steps

\* The row of r gets its final columns.
Finish(r) ==
  /\ status[r] = "running"
  /\ status' = [status EXCEPT ![r] = "final"]
  /\ UNCHANGED <<parent, steps>>

\* The steps of r are stored, once.
RecordSteps(r) ==
  /\ status[r] = "final"
  /\ steps[r] = 0
  /\ steps' = [steps EXCEPT ![r] = 1]
  /\ UNCHANGED <<status, parent>>

Next == \E r \in Runs : Appear(r) \/ Finish(r) \/ RecordSteps(r)

Spec == Init /\ [][Next]_vars

-----------------------------------------------------------------------------
\* A link leads to a stored row, and an absent run has no link (the foreign key
\* of schema.sql, line 12).
LinksStored ==
  \A r \in Runs : parent[r] # None => /\ status[r] # "absent"
                                      /\ status[parent[r]] # "absent"

\* No run is its own ancestor: every non-empty set of runs has a member whose
\* parent is outside the set, so following parent_run_id always ends.
Acyclic ==
  \A S \in SUBSET Runs : S # {} => \E r \in S : parent[r] \notin S
=============================================================================
