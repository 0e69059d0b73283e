----------------------------- MODULE GradedRuns -----------------------------
(***************************************************************************)
(* The tables the rule packs (rules.py) and the judge (judge.py) work on:  *)
(* stressless.runs and stressless.steps as the writers fill them, and      *)
(* stressless.scores and stressless.findings, which both write.            *)
(*                                                                         *)
(* Runs are stored in steps: the start row, the final row, the steps. What *)
(* a row or its steps may come to say is a constant; rows come in any      *)
(* order, whatever their created_at, and may come late. A session that is  *)
(* captured again replaces both, an import that is repeated adds steps.    *)
(***************************************************************************)
EXTENDS Naturals, Sequences, FiniteSets

CONSTANTS
  Runs,
  Facts,      \* Facts[r]: what is fixed from the start: kind, repair and the writer, from
  RowForms,   \* RowForms[r]: what the columns of its final row may be
  StepForms,  \* StepForms[r]: what its steps may amount to
  Created,    \* Created[r]: its place in the order of created_at
  MaxAge,     \* ages run from 0 to MaxAge
  Tools,
  Sweeps,     \* the places a sweep can run at: the cron's, the operator's
  Judges,     \* the places a batch of the judge can run at
  None        \* SQL NULL

\* A table has finitely many rows; the loops of a run are groups of its steps.
ASSUME FactsAssumption ==
  /\ IsFiniteSet(Runs)
  /\ MaxAge \in Nat
  /\ Created \in [Runs -> Nat]
  /\ \A r \in Runs : \A x \in StepForms[r] : x.loops \in Nat

VARIABLES
  stored,     \* stored[r]: "absent", "running", "final" (the row) or "whole" (its steps too)
  columns,    \* columns[r]: the columns of its row that the rules read
  steps,      \* steps[r]: what the rules find in its steps
  age,        \* age[r]: how many of the windows' borders its created_at has passed
  \* the scores table: only history tells which process inserted a row
  rows,       \* rows[s][f]: the INSERTs of s with rule scores of flag f, by their size
  verdicts,   \* verdicts[j][v]: the judge scores v, a run and a label, of batch place j
  findings    \* findings[f]: occurrences of the row with fingerprint f

runVars == <<stored, columns, steps, age>>
scoreVars == <<rows, verdicts>>
tableVars == <<stored, columns, steps, age, rows, verdicts, findings>>

\* A rule score is about a run and has one of the names.
ScoreNames == {"abnormal_stop", "budget_proximity", "semantic_loop", "cache_cold"}
Flags == Runs \X ScoreNames

\* The model may answer off the schema: json.loads takes any verdict.
Marks == {"correct", "incorrect", "unknown"}
Labels == Marks \cup {"other"}

\* Until the final row the columns are NULL, and without steps nothing is found.
NullRow == [status |-> "running", subtype |-> None, near |-> FALSE, cold |-> FALSE,
            sonnet |-> FALSE, priced |-> FALSE]
NoSteps == [loops |-> 0, oversized |-> [t \in Tools |-> 0], errs |-> [t \in Tools |-> 0]]

TablesTypeOK ==
  /\ stored \in [Runs -> {"absent", "running", "final", "whole"}]
  /\ DOMAIN columns = Runs /\ \A r \in Runs : columns[r] \in RowForms[r] \cup {NullRow}
  /\ DOMAIN steps = Runs /\ \A r \in Runs : steps[r] \in StepForms[r] \cup {NoSteps}
  /\ age \in [Runs -> 0..MaxAge]
  /\ rows \in [Sweeps -> [Flags -> Seq(Nat)]]
  /\ verdicts \in [Judges -> [Runs \X Labels -> Nat]]

TablesInit ==
  /\ stored = [r \in Runs |-> "absent"]
  /\ columns = [r \in Runs |-> NullRow]
  /\ steps = [r \in Runs |-> NoSteps]
  /\ age = [r \in Runs |-> 0]
  /\ rows = [s \in Sweeps |-> [f \in Flags |-> <<>>]]
  /\ verdicts = [j \in Judges |-> [v \in Runs \X Labels |-> 0]]
  /\ findings = [f \in {} |-> 0]

Whole(r) == stored[r] = "whole"

-----------------------------------------------------------------------------
(* The writers, seen from the tables. A run comes from a live one (run()   *)
(* and query()), a call (wrap_anthropic), an import (backfill) or a        *)
(* session (cma); only a live one has a start row.                         *)

StoreStart(r) ==
  /\ stored[r] = "absent"
  /\ Facts[r].from = "live"
  /\ stored' = [stored EXCEPT ![r] = "running"]
  /\ UNCHANGED <<columns, steps, age, scoreVars, findings>>

\* The final row. That of a session may be there, and may have its steps: those of an
\* earlier capture before the DELETE, or of one at the same time.
StoreRow(r) ==
  /\ stored[r] \in {"absent", "running"} \/ Facts[r].from = "session"
  /\ \E c \in RowForms[r] : columns' = [columns EXCEPT ![r] = c]
  /\ stored' = [stored EXCEPT ![r] = IF Whole(r) THEN "whole" ELSE "final"]
  /\ UNCHANGED <<steps, age, scoreVars, findings>>

\* The steps. A repeated import brings those the file has grown by.
StoreSteps(r) ==
  /\ \/ stored[r] = "final"
     \/ Whole(r) /\ Facts[r].from \in {"import", "session"}
  /\ \E x \in StepForms[r] : steps' = [steps EXCEPT ![r] = x]
  /\ stored' = [stored EXCEPT ![r] = "whole"]
  /\ UNCHANGED <<columns, age, scoreVars, findings>>

\* The DELETE a session is captured again with: its row stays without steps meanwhile.
DeleteSteps(r) ==
  /\ Whole(r)
  /\ Facts[r].from = "session"
  /\ steps' = [steps EXCEPT ![r] = NoSteps]
  /\ stored' = [stored EXCEPT ![r] = "final"]
  /\ UNCHANGED <<columns, age, scoreVars, findings>>

\* Time passes: created_at of r falls behind one more border, older runs before it.
Age(r) ==
  /\ age[r] < MaxAge
  /\ \A q \in Runs : Created[q] < Created[r] => age[q] > age[r]
  /\ age' = [age EXCEPT ![r] = @ + 1]
  /\ UNCHANGED <<stored, columns, steps, scoreVars, findings>>

TablesNext ==
  \E r \in Runs :
    StoreStart(r) \/ StoreRow(r) \/ StoreSteps(r) \/ DeleteSteps(r) \/ Age(r)

-----------------------------------------------------------------------------
\* Mutated form: the window is one border too short.
WindowShort(days) == {r \in Runs : stored[r] # "absent" /\ age[r] + 1 < days}

\* `created_at > now() - $1::interval`, now() being that of the statement.
Window(days) == {r \in Runs : stored[r] # "absent" /\ age[r] < days}

\* INSERT INTO findings ... ON CONFLICT (fingerprint) DO UPDATE
Upserted(f, n) ==
  [g \in DOMAIN findings \cup {f} |-> IF g = f THEN n ELSE findings[g]]

Occurrences(f) == IF f \in DOMAIN findings THEN findings[f] ELSE 0

\* GROUP BY: the size of each group of the rows key has a fingerprint for.
Groups(key) ==
  {<<f, Cardinality({r \in DOMAIN key : key[r] = f})>> : f \in {key[r] : r \in DOMAIN key}}

\* Mutated form: a group of exactly n is left out.
HavingMore(G, n) == {g \in G : g[2] > n}

\* HAVING count(*) >= n
Having(G, n) == {g \in G : g[2] >= n}
=============================================================================
