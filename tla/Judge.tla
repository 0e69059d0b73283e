------------------------------- MODULE Judge -------------------------------
(***************************************************************************)
(* The continuous judge: judge_recent() of judge.py.                       *)
(*                                                                         *)
(* A batch selects unjudged captured calls, asks the judge model about     *)
(* each, stores each verdict as it comes, and at its end upserts a finding *)
(* for each kind with too many incorrect ones. Nothing is locked: another  *)
(* batch may select the same calls, and an exception of the client or the  *)
(* database ends the batch with its verdicts stored and its counts lost.   *)
(***************************************************************************)
EXTENDS GradedRuns

CONSTANTS
  JudgeDays,    \* how many ages its window takes in
  Rubrics,      \* the agent kinds that have a rubric
  Limit,        \* limit: how many calls a batch judges
  ScanFactor,   \* 4: a batch reads limit * 4 candidates
  MinIncorrect, \* 3: a finding takes that many incorrect verdicts
  Tenths        \* 10: and more than one in so many

VARIABLES
  judgePc,    \* judgePc[j]: "idle", "ask", "record" or "report"
  picked,     \* picked[j]: the calls still to judge
  label,      \* label[j]: the verdict just got
  bucket,     \* bucket[j][<<kind, mark>>]: the counts of the batch
  reports     \* reports[j]: the kinds whose finding is still to upsert

judgeVars == <<judgePc, picked, label, bucket, reports>>

Kinds == {Facts[r].kind : r \in Runs}
NoCounts == [b \in Kinds \X Marks |-> 0]

JudgeTypeOK ==
  /\ judgePc \in [Judges -> {"idle", "ask", "record", "report"}]
  /\ picked \in [Judges -> SUBSET Runs]
  /\ label \in [Judges -> Labels]
  /\ bucket \in [Judges -> [Kinds \X Marks -> Nat]]

JudgeInit ==
  /\ judgePc = [j \in Judges |-> "idle"]
  /\ picked = [j \in Judges |-> {}]
  /\ label = [j \in Judges |-> "unknown"]
  /\ bucket = [j \in Judges |-> NoCounts]
  /\ reports = [j \in Judges |-> {}]

-----------------------------------------------------------------------------
(* The selection.                                                          *)

\* EXISTS (SELECT 1 FROM scores WHERE run_id = r AND source = 'judge')
Judged(r) == \E j \in Judges, l \in Labels : verdicts[j][<<r, l>>] > 0

\* Mutated form: the selection without its NOT EXISTS.
CandidatesJudgedOrNot == {r \in Window(JudgeDays) : Whole(r) /\ Facts[r].from = "call"}

\* A captured call has an llm step with its input: the runs of wrap_anthropic alone.
Candidates == {r \in Window(JudgeDays) :
                 Whole(r) /\ Facts[r].from = "call" /\ Facts[r].kind # "judge" /\ ~Judged(r)}

\* ORDER BY created_at DESC LIMIT n
Newest(S, n) == {r \in S : Cardinality({q \in S : Created[q] > Created[r]}) < n}

Failed(r) == columns[r].status # "succeeded"
Gradable(r) == Facts[r].kind \in Rubrics

\* Mutated form: failures are sampled like successes.
PicksSampledOnly(scanned) ==
  {Newest(sample, Limit) : sample \in SUBSET {r \in scanned : Gradable(r)}}

\* The failures, and whichever successes the dice choose, up to the limit.
Picks(scanned) ==
  LET gradable == {r \in scanned : Gradable(r)}
      failures == {r \in gradable : Failed(r)}
  IN  {Newest(failures \cup sample, Limit) : sample \in SUBSET (gradable \ failures)}

StartBatch(j) ==
  /\ judgePc[j] = "idle"
  /\ picked' \in {[picked EXCEPT ![j] = P] : P \in Picks(Newest(Candidates, Limit * ScanFactor))}
  /\ judgePc' = [judgePc EXCEPT ![j] = "ask"]
  /\ bucket' = [bucket EXCEPT ![j] = NoCounts]
  /\ UNCHANGED <<label, reports, tableVars>>

-----------------------------------------------------------------------------
(* The loop over the picked calls.                                         *)

\* One call of the client. Text that is no JSON is "unknown".
Ask(j) ==
  /\ judgePc[j] = "ask"
  /\ picked[j] # {}
  /\ \E l \in Labels : label' = [label EXCEPT ![j] = l]
  /\ judgePc' = [judgePc EXCEPT ![j] = "record"]
  /\ UNCHANGED <<picked, bucket, reports, tableVars>>

\* Mutated form of the mark: whatever is not correct is incorrect.
MarkOfStrict(l) == IF l = "correct" THEN "correct" ELSE "incorrect"

\* verdict.label if verdict.label in bucket else "unknown"
MarkOf(l) == IF l \in Marks THEN l ELSE "unknown"

\* record_score, then the count; the loop goes on with the next newest call.
Record(j) ==
  /\ judgePc[j] = "record"
  /\ \E r \in Newest(picked[j], 1) :
       /\ verdicts' = [verdicts EXCEPT ![j][<<r, label[j]>>] = @ + 1]
       /\ bucket' = [bucket EXCEPT ![j][<<Facts[r].kind, MarkOf(label[j])>>] = @ + 1]
       /\ picked' = [picked EXCEPT ![j] = @ \ {r}]
  /\ label' = [label EXCEPT ![j] = "unknown"]
  /\ judgePc' = [judgePc EXCEPT ![j] = "ask"]
  /\ UNCHANGED <<reports, runVars, rows, findings>>

-----------------------------------------------------------------------------
(* The findings.                                                           *)

\* bucket["incorrect"] >= 3 and bucket["incorrect"] / graded > 0.10
Alarming(counts, kind) ==
  LET incorrect == counts[<<kind, "incorrect">>]
  IN  /\ incorrect >= MinIncorrect
      /\ Tenths * incorrect > counts[<<kind, "correct">>] + incorrect

Counted(j) ==
  /\ judgePc[j] = "ask"
  /\ picked[j] = {}
  /\ reports' = [reports EXCEPT ![j] = {k \in Kinds : Alarming(bucket[j], k)}]
  /\ judgePc' = [judgePc EXCEPT ![j] = "report"]
  /\ UNCHANGED <<picked, label, bucket, tableVars>>

Report(j) ==
  /\ judgePc[j] = "report"
  /\ \E k \in reports[j] :
       /\ findings' = Upserted(<<"judge_quality", k>>, bucket[j][<<k, "incorrect">>])
       /\ reports' = [reports EXCEPT ![j] = @ \ {k}]
  /\ UNCHANGED <<judgePc, picked, label, bucket, runVars, scoreVars>>

EndBatch(j) ==
  /\ judgePc[j] = "report"
  /\ reports[j] = {}
  /\ judgePc' = [judgePc EXCEPT ![j] = "idle"]
  /\ bucket' = [bucket EXCEPT ![j] = NoCounts]
  /\ UNCHANGED <<picked, label, reports, tableVars>>

\* The client, json or the database raised, or the process ended.
AbortBatch(j) ==
  /\ judgePc[j] # "idle"
  /\ judgePc' = [judgePc EXCEPT ![j] = "idle"]
  /\ picked' = [picked EXCEPT ![j] = {}]
  /\ label' = [label EXCEPT ![j] = "unknown"]
  /\ bucket' = [bucket EXCEPT ![j] = NoCounts]
  /\ reports' = [reports EXCEPT ![j] = {}]
  /\ UNCHANGED tableVars

JudgeStep(j) ==
  StartBatch(j) \/ Ask(j) \/ Record(j) \/ Counted(j) \/ Report(j) \/ EndBatch(j)

JudgeNext == \E j \in Judges : JudgeStep(j) \/ AbortBatch(j)

-----------------------------------------------------------------------------
\* One place judges a run at most once, over all its batches, finished and aborted:
\* only two batches at a time give a run two verdicts.
JudgedOnce ==
  \A j \in Judges, r \in Runs, l \in Labels :
    /\ verdicts[j][<<r, l>>] <= 1
    /\ \A m \in Labels \ {l} : verdicts[j][<<r, l>>] + verdicts[j][<<r, m>>] <= 1

\* The inductive form: what j is still to judge has no verdict of j.
JudgeInv ==
  /\ JudgedOnce
  /\ \A j \in Judges, r \in Runs, l \in Labels :
       r \in picked[j] => verdicts[j][<<r, l>>] = 0

\* The calls of a kind that j has a stored incorrect verdict about.
FoundIncorrect(j, k) ==
  {r \in Runs : Facts[r].kind = k /\ verdicts[j][<<r, "incorrect">>] > 0}

\* Every call a quality finding counts has a stored verdict that says so, and none is
\* counted twice, whatever batch and however many of them wrote it last.
QualityIsBacked ==
  \A k \in Kinds :
    Occurrences(<<"judge_quality", k>>) <=
      Cardinality(UNION {FoundIncorrect(j, k) : j \in Judges})

\* What it rests on: the counts of a batch on its way are backed by its own verdicts.
CountsAreBacked ==
  \A j \in Judges, k \in Kinds :
    bucket[j][<<k, "incorrect">>] <= Cardinality(FoundIncorrect(j, k))

\* "judge all recent failures" (judge.py, line 219): a batch that picks fewer calls
\* than its limit leaves no failure unpicked.
RoomIsUsed ==
  [][\A j \in Judges :
       StartBatch(j) /\ Cardinality(picked'[j]) < Limit
         => {r \in Candidates : Gradable(r) /\ Failed(r)} \subseteq picked'[j]]_<<judgeVars, tableVars>>
=============================================================================
