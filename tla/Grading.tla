------------------------------ MODULE Grading ------------------------------
(***************************************************************************)
(* The graders at work: sweeps of the rule packs and batches of the judge, *)
(* started by cron or by hand, on tables the writers keep filling.         *)
(***************************************************************************)
EXTENDS Rules, Judge

CONSTANT MaxFailures    \* bound: how many sweeps and batches fail

VARIABLE failures

vars == <<tableVars, sweepVars, judgeVars, failures>>

TypeOK == TablesTypeOK /\ SweepTypeOK /\ JudgeTypeOK /\ failures \in Nat

Init == TablesInit /\ SweepInit /\ JudgeInit /\ failures = 0

Sweep(s) == SweepStep(s) /\ UNCHANGED <<judgeVars, failures>>
Batch(j) == JudgeStep(j) /\ UNCHANGED <<sweepVars, failures>>

\* A run that a writer changes is no longer one that a sweep on its way can rely on.
Write ==
  /\ TablesNext
  /\ base' = [s \in Sweeps |->
                {r \in base[s] : Whole(r)' /\ columns'[r] = columns[r] /\ steps'[r] = steps[r]}]
  /\ UNCHANGED <<at, todo, pending, judgeVars, failures>>

\* A failed sweep or batch is not retried: the next one starts from the tables.
Fail ==
  /\ failures < MaxFailures
  /\ failures' = failures + 1
  /\ \/ \E s \in Sweeps : FailSweep(s) /\ UNCHANGED judgeVars
     \/ \E j \in Judges : AbortBatch(j) /\ UNCHANGED sweepVars

Next ==
  \/ Write
  \/ \E s \in Sweeps : Sweep(s)
  \/ \E j \in Judges : Batch(j)
  \/ Fail

Spec == Init /\ [][Next]_vars

\* The cron starts each grader again and again, and a started one goes on: its
\* process does not stop between two statements for ever without failing.
Fairness ==
  /\ \A s \in Sweeps : WF_vars(Sweep(s))
  /\ \A j \in Judges : WF_vars(Batch(j))

FairSpec == Spec /\ Fairness

-----------------------------------------------------------------------------
\* A verdict of the judge stays, whatever the sweeps delete: it was paid for, and it
\* is what keeps its run from being judged again.
VerdictsStay ==
  [][\A j \in Judges, v \in Runs \X Labels : verdicts'[j][v] >= verdicts[j][v]]_vars

\* Type correctness, and what each grader relies on.
GradersInv == TypeOK /\ SweepInv /\ SweepProgress /\ JudgeInv

\* The quality findings are the judge's alone, and backed when it upserts them.
QualityInv ==
  /\ CountsAreBacked
  /\ QualityIsBacked
  /\ \A k \in Kinds : Occurrences(<<"judge_quality", k>>) \in Nat
  /\ DOMAIN todo = Sweeps
  /\ \A s \in Sweeps : \A g \in todo[s] : g[1][1] # "judge_quality"

\* The inductive invariant.
IInv == GradersInv /\ QualityInv

\* A stored call that failed is judged, unless it gets too old first, when no more
\* calls wait than a batch reads; aborted batches only delay it.
FailureIsJudged ==
  \A r \in Runs :
    Whole(r) /\ Facts[r].from = "call" /\ Failed(r) /\ Gradable(r)
      ~> Judged(r) \/ age[r] >= JudgeDays

\* How often a flag can be there.
FlagCounts(f) ==
  {HitsIn(f[2], c, x) : c \in RowForms[f[1]], x \in StepForms[f[1]]} \ {0}

\* A stored run gets the scores of all its flags, as many as they are, unless it is
\* captured again or gets too old first; the sweeps that fail after their DELETE only
\* delay it.
FlaggedIsScored ==
  \A f \in Flags : \A n \in FlagCounts(f) :
    Whole(f[1]) /\ Hits(f) = n
      ~> \/ \E s \in Sweeps : rows[s][f] = <<n>>
         \/ ~Whole(f[1]) \/ Hits(f) # n
         \/ \A s \in Sweeps : age[f[1]] >= Days[s]

\* Runs that ended badly in the same way, as many as make a cluster, come to a
\* finding, unless one of them gets too old first.
ClusterIsReported ==
  \A s \in Sweeps, k \in Kinds, x \in {c.status : c \in UNION {RowForms[r] : r \in Runs}} \ {"succeeded"} :
    LET cluster == {r \in FailedRuns(Window(Days[s])) :
                      Facts[r].kind = k /\ columns[r].status = x}
    IN  Cardinality(cluster) >= MinCount
          ~> \/ <<"failure_cluster", k, "status", x>> \in DOMAIN findings
             \/ Cardinality(cluster) < MinCount
=============================================================================
