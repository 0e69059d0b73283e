------------------------------- MODULE Rules -------------------------------
(***************************************************************************)
(* The rule packs: sweep() of rules.py, statement by statement.            *)
(*                                                                         *)
(* A sweep deletes the rule scores of its window, runs its rules one after *)
(* the other (a rule is one SELECT, whose rows become score rows kept in   *)
(* memory and findings upserted at once, one by one), and inserts all the  *)
(* score rows at the end. It is no transaction: other sweeps (the cron and *)
(* a hand-run one, with windows of their own) and the writers of the runs  *)
(* work between any two statements, and a statement that raises ends it.   *)
(***************************************************************************)
EXTENDS GradedRuns, FiniteSetsExt

CONSTANTS
  Days,       \* Days[s]: how many ages the window of s takes in
  MinCount,   \* 3: the HAVING count(*) >= 3 of the clusters
  Volume      \* raw items in the window, 0 when the static-config finding is off

ASSUME WindowsAssumption == Days \in [Sweeps -> Nat]

VARIABLES
  at,         \* at[s]: 0 idle, the next rule of RuleOrder, or LastAt: the final INSERT
  todo,       \* todo[s]: the findings selected and not yet upserted
  pending,    \* pending[s][f]: how many of its score_rows are those of flag f
  base        \* base[s]: the runs whole since s deleted, and not written to (history)

sweepVars == <<at, todo, pending, base>>

RuleOrder == <<"abnormal_stop", "failed", "budget_proximity", "semantic_loop",
               "oversized", "cache_cold", "tool_errors", "routing", "repair">>
LastAt == Len(RuleOrder) + 1

\* The score rows for a row and its steps: one for each loop, else one if any.
HitsIn(name, row, found) ==
  CASE name = "abnormal_stop"    -> IF row.subtype # None THEN 1 ELSE 0
    [] name = "budget_proximity" -> IF row.near THEN 1 ELSE 0
    [] name = "semantic_loop"    -> found.loops
    [] name = "cache_cold"       -> IF row.cold THEN 1 ELSE 0

Hits(f) == HitsIn(f[2], columns[f[1]], steps[f[1]])

NoRows == [f \in Flags |-> 0]

SweepTypeOK ==
  /\ at \in [Sweeps -> 0..LastAt]
  /\ pending \in [Sweeps -> [Flags -> Nat]]
  /\ base \in [Sweeps -> SUBSET Runs]

SweepInit ==
  /\ at = [s \in Sweeps |-> 0]
  /\ todo = [s \in Sweeps |-> {}]
  /\ pending = [s \in Sweeps |-> NoRows]
  /\ base = [s \in Sweeps |-> {}]

-----------------------------------------------------------------------------
(* What the SELECT of each rule finds in the window W.                     *)

\* The score rows of a rule.
Selected(rule, W) ==
  {f \in Flags : f[1] \in W /\ f[2] = rule /\ Hits(f) > 0}

\* abnormal_stop: one finding for each kind and subtype, of any size.
AbnormalStops(W) ==
  Groups([r \in {q \in W : columns[q].subtype # None} |->
            <<"failure_cluster", Facts[r].kind, columns[r].subtype>>])

\* failed: status NOT IN ('succeeded', 'running'), by kind and status.
FailedRuns(W) == {r \in W : columns[r].status \notin {"succeeded", "running"}}
FailedClusters(W) ==
  Having(Groups([r \in FailedRuns(W) |->
                   <<"failure_cluster", Facts[r].kind, "status", columns[r].status>>]),
         MinCount)

\* The ids counted are those of the looping groups: a run with two counts twice.
LoopFindings(W) ==
  LET looping == {r \in W : steps[r].loops > 0}
      Of(kind) == {r \in looping : Facts[r].kind = kind}
  IN  {<<<<"loop", kind>>, MapThenSumSet(LAMBDA r : steps[r].loops, Of(kind))>> :
         kind \in {Facts[r].kind : r \in looping}}

\* count(*) of the matching steps of a tool and kind; found[r][t] are those of run r.
StepCount(found, W, kind, t) ==
  MapThenSumSet(LAMBDA r : found[r][t], {r \in W : Facts[r].kind = kind})

\* One finding for each tool and kind that has n matching steps, n at least least.
StepFindings(name, found, W, least) ==
  Having({<<<<name, kind, t>>, StepCount(found, W, kind, t)>> :
            kind \in {Facts[r].kind : r \in W}, t \in Tools}, least)

ColdRuns(W) ==
  Groups([r \in {q \in W : columns[q].cold} |-> <<"cache_miss", Facts[r].kind>>])

\* The measured prefilter calls, or the estimate from the static configuration when
\* there are none; both have the one fingerprint.
RoutingFindings(W) ==
  LET calls == {r \in W : Facts[r].kind = "prefilter" /\ columns[r].sonnet}
      n == IF calls = {} THEN Volume
           ELSE IF \E r \in calls : columns[r].priced THEN Cardinality(calls) ELSE 0
  IN  IF n > 0 THEN {<<<<"model_routing">>, n>>} ELSE {}

\* mode is set by the start row.
RepairFindings(W) ==
  LET repairs == {r \in W : Facts[r].kind = "item_processor" /\ Facts[r].repair}
  IN  IF repairs # {} THEN {<<<<"repair_rate">>, Cardinality(repairs)>>} ELSE {}

Found(rule, W) ==
  CASE rule = "abnormal_stop"    -> AbnormalStops(W)
    [] rule = "failed"           -> FailedClusters(W)
    [] rule = "budget_proximity" -> {}
    [] rule = "semantic_loop"    -> LoopFindings(W)
    [] rule = "oversized"        ->
         StepFindings("oversized", [r \in Runs |-> steps[r].oversized], W, 1)
    [] rule = "cache_cold"       -> ColdRuns(W)
    [] rule = "tool_errors"      ->
         StepFindings("tool_errors", [r \in Runs |-> steps[r].errs], W, MinCount)
    [] rule = "routing"          -> RoutingFindings(W)
    [] rule = "repair"           -> RepairFindings(W)

-----------------------------------------------------------------------------
(* The statements.                                                         *)

\* Mutated forms of the DELETE: it is left out; it forgets source = 'rule'.
DeletedNever(s) == {}
VerdictsWithoutSource(s) ==
  [j \in Judges |->
     [v \in Runs \X Labels |-> IF v[1] \in Window(Days[s]) THEN 0 ELSE verdicts[j][v]]]

\* DELETE ... WHERE source = 'rule' AND run_id IN (the window), whoever inserted them.
Deleted(s) == Window(Days[s])
VerdictsAfterDelete(s) == verdicts

StartSweep(s) ==
  /\ at[s] = 0
  /\ at' = [at EXCEPT ![s] = 1]
  /\ base' = [base EXCEPT ![s] = {r \in Window(Days[s]) : Whole(r)}]
  /\ rows' = [t \in Sweeps |->
                [f \in Flags |-> IF f[1] \in Deleted(s) THEN <<>> ELSE rows[t][f]]]
  /\ verdicts' = VerdictsAfterDelete(s)
  /\ UNCHANGED <<todo, pending, runVars, findings>>

SelectRule(s) ==
  /\ at[s] \in 1..Len(RuleOrder)
  /\ todo[s] = {}
  /\ LET rule == RuleOrder[at[s]]
         W == Window(Days[s])
     IN  /\ pending' = [pending EXCEPT ![s] =
                           [f \in Flags |-> IF f \in Selected(rule, W) THEN @[f] + Hits(f)
                                                                      ELSE @[f]]]
         /\ todo' = [todo EXCEPT ![s] = Found(rule, W)]
  /\ at' = [at EXCEPT ![s] = @ + 1]
  /\ UNCHANGED <<base, tableVars>>

UpsertFinding(s) ==
  /\ \E g \in todo[s] :
       /\ findings' = Upserted(g[1], g[2])
       /\ todo' = [todo EXCEPT ![s] = @ \ {g}]
  /\ UNCHANGED <<at, pending, base, runVars, scoreVars>>

\* Mutated form of the INSERT: the score rows of an earlier sweep are kept in memory.
PendingAfterInsertKept(s) == pending[s]

PendingAfterInsert(s) == NoRows

\* executemany is one transaction; without rows it is not called.
InsertScores(s) ==
  /\ at[s] = LastAt
  /\ todo[s] = {}
  /\ rows' = [rows EXCEPT ![s] =
                [f \in Flags |-> IF pending[s][f] > 0 THEN Append(@[f], pending[s][f])
                                                      ELSE @[f]]]
  /\ pending' = [pending EXCEPT ![s] = PendingAfterInsert(s)]
  /\ base' = [base EXCEPT ![s] = {}]
  /\ at' = [at EXCEPT ![s] = 0]
  /\ UNCHANGED <<todo, runVars, verdicts, findings>>

\* A statement raised, or the process ended: what is written stays written.
FailSweep(s) ==
  /\ at[s] # 0
  /\ at' = [at EXCEPT ![s] = 0]
  /\ todo' = [todo EXCEPT ![s] = {}]
  /\ pending' = [pending EXCEPT ![s] = NoRows]
  /\ base' = [base EXCEPT ![s] = {}]
  /\ UNCHANGED tableVars

SweepStep(s) ==
  StartSweep(s) \/ SelectRule(s) \/ UpsertFinding(s) \/ InsertScores(s)

SweepNext == \E s \in Sweeps : SweepStep(s) \/ FailSweep(s)

-----------------------------------------------------------------------------
\* A sweep never adds to what it scored before, whatever other sweeps and failures
\* came in between: its rows of a flag are those of one INSERT. Two sweeps at once may
\* both insert theirs, and the flag has two rows then.
RescoredNotAdded == \A s \in Sweeps, f \in Flags : Len(rows[s][f]) <= 1

\* The inductive form: while s is on its way, the table has none of its rows for the
\* flags it will insert, nor for the runs still in its window, and no rows at all for
\* a run that is not stored.
SweepInv ==
  \A s \in Sweeps, f \in Flags :
    /\ Len(rows[s][f]) <= 1
    /\ at[s] # 0 /\ (pending[s][f] > 0 \/ f[1] \in Window(Days[s])) => rows[s][f] = <<>>
    /\ at[s] = 0 => pending[s][f] = 0
    /\ stored[f[1]] = "absent" => pending[s][f] = 0 /\ rows[s][f] = <<>>

\* The rule of this name has been run by s.
Ran(s, name) == \E i \in 1..(at[s] - 1) : RuleOrder[i] = name

\* What the next property rests on: the rules s has run have found every flag of the
\* runs in its base, as often as it is there, unless the run has left the window.
SweepProgress ==
  \A s \in Sweeps :
    /\ \A r \in base[s] : Whole(r)
    /\ \A f \in Flags :
         f[1] \in base[s] \cap Window(Days[s])
           => pending[s][f] = IF Ran(s, f[2]) THEN Hits(f) ELSE 0

\* A sweep that comes to its end has scored the flags of the runs that were whole when
\* it began, are still in its window and were not captured again meanwhile, each as
\* often as it is there and no other, whatever was stored meanwhile.
SweepIsComplete ==
  [][\A s \in Sweeps : InsertScores(s) =>
       \A f \in Flags : f[1] \in base[s] /\ f[1] \in Window(Days[s])
         => rows'[s][f] = IF Hits(f) > 0 THEN <<Hits(f)>> ELSE <<>>]_<<at, rows, pending>>
=============================================================================
