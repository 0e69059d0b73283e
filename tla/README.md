# A formal model of stressless

stressless is a flight recorder for LLM agents. A host program imports it, wraps its
agent calls, and stressless stores one row per run and one row per step in Postgres;
rule packs, a judge and reports read those rows. Its promise is that it never disturbs
the host ("fail open") and that what it stored can be trusted.

The hard part is in the second half of that promise. Every write is a task of its own,
sent statement by statement over pooled autocommit connections; several tasks write the
same row; nobody waits for them and nobody retries them. A context variable decides
which run a message belongs to. Two capture paths share one row. Unit tests run these
pieces one at a time against a quiet database. The modules here run them against each
other.

## 1. Inventory

| Component | State it keeps | Operations | Interacts with |
|---|---|---|---|
| **store: writers** (`store.py` 90-302) | the rows of `stressless.runs` and `stressless.steps`; the set of pending tasks | `fire`, `insert_run_start`, `insert_run_complete`, `finalize_run`, `note_outcome` | called by collector, anthropic_wrap, cma, backfill; read by rules, judge, report |
| **store: pool** (`store.py` 51-79) | `_pool` | `get_pool`, `close_pool` | every statement |
| **collector: RunHandle** (`collector.py` 58-429) | steps, pending tool calls by id, per-tool counts, flags, tokens, cost, status of one run | `observe_message`, `finish`, `finish_row`, `step_rows` | filled by the tee, read by `finalize_run` |
| **collector: run() and tee** (`collector.py` 432-503) | `current_run`, a context variable; one handle per run | `run`, `tee_query_stream` | fires the store's writers |
| **anthropic_wrap** (`anthropic_wrap.py`) | none between calls | the wrapped `messages.create` | `insert_run_complete` |
| **cma** (`cma.py`) | one `CMASessionHandle` per capture; the row, steps and scores of the session's run | `tee_session_stream`, `ingest_session`, `_persist` | `finalize_run`, Anthropic's events API |
| **backfill** (`backfill.py`) | the runs open while a trace file is read | `parse_trace_file`, `backfill` | `insert_run_complete` |
| **rules** (`rules.py`) | the rule scores and the findings | `sweep` | reads runs and steps |
| **judge** (`judge.py`) | the judge's scores and findings | `judge_recent` | reads runs and steps, writes scores and findings |
| **report, web, pricing, CLI, schema** | none | SQL aggregates, HTML, a price table, argument parsing, DDL | read only, except `dataset-add-run` |

What is hard in each, and what would make it correct:

- **Writers.** The start insert and the finalize of one run race: the update may find
  no row, the fallback upsert may come before or after the insert. A repair looks its
  parent up in one statement and stores the link in the next. A stamp
  (`note_outcome`) may come before, between or after all of these. The process may end
  anywhere. *Correct* means: a final row never becomes running again, steps are stored
  once and under a final row, links lead to stored rows and form no circle, a task that
  came to its end left a whole run, a stamp is not lost.
- **RunHandle.** Results without a call, two results for one call, ids that come
  again, an observation that raises halfway and is swallowed, several results per run.
  *Correct* means: the counts in the row agree with the steps stored under it, an answer
  goes to the latest call with its id, the first `finish` decides.
- **run() and tee.** Bodies nest, tasks inherit the context, streams outlive the body
  they were opened in, bodies may be left out of order or in another context than they
  were entered in, and a tee that is cancelled while it awaits `aclose()` skips its
  finalize. *Correct* means: the ambient run is the innermost body of the task, whatever
  ends is finalized, a failure is stored as one, what was observed is stored. The first
  holds for tasks that leave their bodies in order; the second but for two ways to end;
  the last does not hold (see the findings).
- **cma.** A tee sees a part of the session, an ingest all of it; both write the same
  row with four kinds of statements, of which the update and the upsert keep some columns
  of what was there. Results may link to no call. *Correct* means: the stored steps are
  those of one capture, each once, captured again without a trace of the one before, and
  each result belongs to its call. Overlapping captures break the first, and any second
  capture leaves the scores of the one before.
- **backfill.** Importing again, items that start twice, files that end early, outcomes
  that come before or after the run they are about, from two sources. *Correct* means:
  what is imported twice is stored once, no run is dropped, an outcome goes to one run, a
  structured one, and that of `raw_items` wins. Of these the code keeps one: no run is
  dropped.
- **pool.** Tasks meet at a lock; `close_pool` awaits before it forgets the pool, and the
  command line closes it while fired writers are still pending; a `close()` that raises
  leaves a terminated pool behind. *Correct* means: one pool that is not closed, which is
  the one in `_pool`, no more connections than one pool has, and an answer for everybody
  who asks.
- **rules.** A sweep is a dozen statements on a window whose border moves, against other
  sweeps, against writers that add runs and replace their steps, and against its own
  failure between DELETE and INSERT. *Correct* means: it replaces what was scored before
  and never adds to it, it misses nothing that was stored when it began and stayed as it
  was, what it leaves undone the next one does, and it leaves the judge's verdicts alone.
  Two sweeps at once add to each other.
- **judge.** A batch selects once and stores verdict by verdict, and may be aborted.
  *Correct* means: no run is judged twice, failures are judged, findings
  count no more than the verdicts say. The first holds for the batches of one place only.

`PROJECT.json` lists these as hazards, each at the line where it bites, with the
properties about it.

## 2. Modules

| Module | Models | Composition |
|---|---|---|
| `RunLedger` | abstract specification: what the tables promise a reader | - |
| `RunLedgerProofs` | what follows from the promise: links are stored and acyclic | extends RunLedger |
| `RunStore` | the writers, statement by statement | `Ledger == INSTANCE RunLedger WITH status <- status, ...`: the ledger's tables are RunStore's, without the outcomes and the tasks |
| `RunStoreProofs` | the inductive invariant; RunStore implements RunLedger | extends RunStore, instantiates RunLedgerProofs |
| `RunHandle` | the handle as a value: observe, finish | - |
| `Collector` | run() and the tee over tasks and contexts | extends RunHandle |
| `CollectorProofs` | contexts are chains, in order or tangled; the ambient run; what ended is finalized; what every handle keeps, whatever it observes | extends Collector, DataLemmas |
| `CmaHandle` | the session handle as a value | - |
| `CmaCapture` | a tee and an ingest of one session, and `_persist` | extends CmaHandle |
| `CmaCaptureProofs` | what persists that do not overlap leave in the tables; pending calls and answers in sessions of any length | extends CmaCapture, DataLemmas |
| `TraceParse` | `parse_trace_file`, line by line, beside what the lines say the runs are | - |
| `Backfill` | a growing file imported again and again, statement by statement | extends TraceParse |
| `BackfillProofs` | the parser finds the runs of every trace and gives them their outcomes; what imports keep | extends Backfill, DataLemmas |
| `DataLemmas` | induction, least and greatest elements, sequences of elements of a set | - |
| `Pool` | `get_pool`, its lock, `close_pool`, and writers on the pool | - |
| `PoolProofs` | one pool that is not closed, bounded connections | extends Pool |
| `GradedRuns` | the tables the graders share: runs as the writers fill them, scores, findings | - |
| `Rules` | a sweep of the rule packs, statement by statement | extends GradedRuns |
| `Judge` | a batch of `judge_recent`, statement by statement | extends GradedRuns |
| `Grading` | any number of sweeps and batches on one set of tables | extends Rules and Judge |
| `GradingProofs` | sweeps replace and complete their scores beside writers that change the runs; verdicts are given once and stay; quality findings are backed | extends Grading |
| `MCRunStore`, `MCCollector`, `MCCmaCapture`, `MCBackfill`, `MCPool`, `MCGrading` | the instances TLC checks | extend the above |

### RunStore

One step is one SQL statement, because the connections are autocommit and nothing holds
a transaction over two of them. A fired task is a program counter naming the statement
it sends next; `OpenRun`, `CloseRun`, `CallApi`, `ReturnApi` and `CallNote` are the
places of the host that call `fire`.

| Variable | In the code |
|---|---|
| `host[r]` | where the host is with run r: in the body of `run()`, in `messages.create`, past it |
| `clock`, `created` | `created_at`, as the order the runs were opened in |
| `old` | rows that fail `created_at > now() - interval '6 hours'` of `note_outcome` |
| `startPc`, `found` | the task of `insert_run_start` / `insert_run_complete`, and what its parent SELECT returned |
| `finPc` | the task of `finalize_run`: update, upsert if the update matched nothing, steps |
| `notePc` | the task of `note_outcome` |
| `status`, `outcome`, `parent`, `steps` | the columns of `runs`, and how many times the run's steps were inserted |

`succeeded` and `failed` are both `final` here; what tells them apart is in Collector.
`DropStart`, `DropFinalize` and `DropNote` are a failing statement or pool, which `fire`
logs and forgets; `Crash` ends the process or its loop between any two statements;
`AbandonRun` is a body whose `finally` raised before the finalize was fired.

### RunHandle and Collector

`RunHandle` has no state: `ObserveParts(h, m, k)` is what the first k parts of message m
make of handle h, so that an observation that raises halfway (the tee swallows it) is a
smaller k. `ObserveBlocks` goes through the blocks as a recursive function on their
number. `Finish` keeps the first status. `Collector` has the tasks of the host, each
with its context: `ambient[t]` is `current_run` there, `Spawn` copies it as
`create_task` does, `EnterRun` and `ExitRun` set and reset it. `ExitRun` leaves any open
body of the task: an async generator around one can be closed inside a later one, and
`reset(token)` takes any token of its context (`tangled` remembers which tasks did that).
`ExitRunElsewhere` is a body left in another context, where `reset` raises and the rest of
the `finally` is skipped. An action is what runs between two awaits or yields. The end of
a tee is therefore two: `CloseStream` up to the `await` of `aclose()`, and then either
`FinishStream` (it returned, or raised an exception, which is suppressed: finish and
finalize) or `LoseStream` (it was cancelled, and nothing more happens). `row[h]` is what
`finalize_run` was given, and is where RunStore takes over.

### CmaHandle and CmaCapture

`ObserveEvent` is `observe_event`, `ObserveEvents` the loop of `ingest_session` around it.
`ObserveHalfway` is an `observe_event` that raises: at once, or, for a result, when it
takes the duration, after the pending call was removed and marked and before its error is
counted; the tee swallows it. The session is external: it calls with fresh ids, and its
results name any call, once more, before it was made, or none. A tee opens anywhere and
closes anywhere; an ingest reads what is there. `_persist` is `DeleteSteps`, `UpdateRow`,
`UpsertRow`, `InsertSteps` and `InsertScore`, each of which may be the last one.

`row` says of which capture the columns are, in three groups: those only an INSERT sets
(`identity`: agent_kind, external_ref, created_at), the model, which the update
COALESCEs and the upsert overwrites, and those both set (`rest`). `session_id` is the same
in all captures. `HasModel` are the captures that know the model. `last` and `overlapped`
are history.

### TraceParse and Backfill

`ParseLine` is one round of the parser's loop on its dictionaries (`open_items` and
`open_structured`, `open_subcalls` and `open_surface`, `executor_status`, `runs`),
`Parsed` is the parser after the first n lines, and `ParsedRuns` adds what is open at the
end of the file. A run id is a hash
of one line's time stamp, and is modelled by that line's number: ids are the same in
every import because the file only grows. `RunsOf` says what the runs of a trace are
without any dictionary, by what comes between, before and after a line: a start leads to
a run unless its flow starts again before it ends; the run has the tool messages in
between. It leaves the outcomes aside, since what the code does with them is not what its
comment at line 226 says: an executor line stamps the run of the item that ended last, of
the item flow too, and the structured run that ends next takes the same outcome once more.
`OutcomesAreOfTheItem` states what does hold of them. `Backfill` sends
the rows and the steps of the parsed runs as separate statements, each of which may raise
(`SkipRun`) or be the last (`Interrupt`), while the host goes on writing (`Log`).
`StampOutcomes` is the UPDATE at the end, on the outcome and on the source in `meta`
(`sources`). The parent that the row of an imported repair is stored with is RunStore's
matter and left out. Several files have ids of their own and share nothing, so there is
one.

### Pool

An action is what a task does between two awaits: `Ask` runs from the call of `get_pool`
to its return or to the lock, `Created` from the end of `create_pool` to the return,
`CloseBegin` and `CloseEnd` lie before and after the `await` of `close_pool`. The lock's
queue is first come, first served. asyncpg is external and modelled by what the code
relies on: a closing pool refuses new requests, lets queued ones through or not, and is
closed when its connections are released. A `close()` that raises or is cancelled
terminates the pool and skips `_pool = None` (`CloseRaises`): `get_pool` hands out a pool
that refuses everything, until `close_pool` is called once more (`CloseAgain`). `fire`
turns every failure into `"failed"`.

### GradedRuns, Rules, Judge and Grading

What is fixed of a run from its start is a constant (`Facts`), as is what its row and its
steps may come to say (`RowForms`, `StepForms`); what they say now is a state (`columns`,
`steps`), and so is how far it is stored (`stored`), since the graders read rows that are
still being written. `age` counts which windows a run has left: `now()` is another one in
every statement, so a run may leave between two statements of one sweep. RunStore is not
instantiated here: `TablesNext` is what the writers' statements look like to a reader. A
live run comes as `RunLedger` promises (absent, running, final, with its steps); a call has
no start row; an import may bring other steps when it is repeated; a session that is
captured again (`DeleteSteps`, then `StoreRow` and `StoreSteps`) loses its steps, gets
other columns and other steps, and captures that overlap do so in any order.

`StartSweep` is the DELETE, `SelectRule` one rule's SELECT with what Python makes of the
rows, `UpsertFinding` one INSERT ... ON CONFLICT, `InsertScores` the final `executemany`.
`FailSweep` is an exception or the end of the process anywhere between. Score rows and
verdicts carry the place that inserted them, which the tables do not: it is history, used by
the properties only, and the DELETE and the judge's NOT EXISTS ignore it. `base`, the runs
that were whole at the DELETE and that no writer touched since, is history too. `StartBatch`
is the judge's SELECT with its picks (which of the successes the dice choose is a choice),
`Ask` its call of the model, `Record` one verdict, `Report` one finding.

A flag is a run and the name of a score; `Hits` is how many rows the flag is worth, more
than one only for a run that loops in several groups of calls.

## 3. What is checked

| Run | Instance | Shows |
|---|---|---|
| `store_writers` | a live run and an API run of one job that may be repairs of each other, another API run, one stamp; fairness | the ledger is implemented, the inductive invariant holds, no cyclic links, a finished task left a whole run, a running row was not finalized; only the fallback upsert erases a stamp; a finalize that is not dropped lands |
| `store_stamp_kept` | one live run, one stamp | **violated**: the fallback upsert erases a stamp |
| `collector` | two tasks, two runs, two streams of one message | the open bodies of a task form one chain along their tokens and the ambient run is the innermost body, as long as the task leaves them in order, and never another task's otherwise; whatever ended was finalized once, save elsewhere or cancelled; whatever raised is failed; error counts agree with error steps; an answer goes to the latest open call of its id |
| `collector_unrecorded` | the same | **violated**: a tee cancelled in `aclose()` never finalizes its implicit run, and its query is in no row |
| `cma_session` | a tee, an ingest, sessions of up to three events with two calls | what persists that do not overlap leave in the tables, by an invariant on how far a persist came; pending calls are the unanswered ones; each result finds its call until one comes that has none |
| `backfill_traces` | every trace of up to five lines about one item, two imports | the parser finds the runs the lines say there are, each once; the executor's last word reaches the run that ended last; what an import counted is stored with its steps, whatever was left undone before; what is stored stays |
| `backfill_reimport` | up to three lines, two imports | **violated**: the second import of a file stores the steps again |
| `backfill_raw` | as `backfill_traces` | **violated**: the outcome of the trace stays over that of `raw_items` |
| `pool` | three writers of two statements, pools of two connections, closes at any moment that return or raise | the inductive invariant; the pool in `_pool` is the only one not closed; connections stay bounded over all pools; everybody who queues is answered, also behind a task whose `create_pool` raised |
| `rules_sweeps` | two sweeps with windows of one and two borders, a live run and a session that is captured again, both failed; one failure of a sweep; fairness | the inductive invariant; a sweep's rows are replaced, never added to; it scores all that was whole when it began, was not written to and is still in its window; each flag is scored, as often as it is there, and each cluster reported in the end, unless too old or captured again |
| `grading` | a judge and a sweep, a failed call and a successful one; one failure; fairness | verdicts are given once and survive the sweeps; a quality finding counts no more than is stored; a failure is judged in the end, unless too old |
| `judge_failures` | one failed call, four newer calls of a kind without a rubric | **violated**: a batch with room leaves the failure unjudged |

Five runs end in a counterexample that contradicts a sentence of the repository; each is
under "findings" with that sentence. Every property of a passing run has a mutant: a
plausible slip in one mapped definition that makes TLC report the property.

### Bounds, and why they suffice

- *A live run, two API runs, one stamp.* A circle of links or a lookup that goes stale
  needs two runs that look each other up: the API run, and the live one, whose row the
  fallback upsert may store before its start task looks for a parent. The third run is
  another stored row to choose. What the runs cost, and which job they belong to, does not
  enter a statement except through "same job". The proofs below remove this bound for the
  safety properties.
- *Two tasks, two runs, two streams.* Enough for nesting, inheriting, a stream attached
  across tasks and an implicit run beside an ambient one. Each stream delivers one message
  of up to two blocks, and two streams may meet in one handle: four blocks with one id reach
  a repeated call, a repeated answer and a late one.
- *Three events per session*, two call ids: call, call, result is the shortest session
  in which a result could go to the wrong call, with or without a link. A longer one
  repeats it.
- *Five lines per trace.* An outcome that a run should have taken and a later run gets
  needs five (executor, start, end, start, end); a call answered twice needs three, a
  run that starts twice and ends, with a message, four. The lines are about one item:
  every dictionary is keyed by the item. Two imports: one of a part of the file, one of
  more of it, each interrupted anywhere.
- *Three writers on pools of two connections* (three in the code): one more than a pool
  has; four pool objects, since a closed one that nobody refers to is used again. Each
  writer sends two statements, so that a close can come between them.
- *Two sweeps, two runs.* The cron's and a hand-run one, with windows that a run leaves one
  after the other (`MaxAge` is the number of borders). What overlapping statements do to a
  score they do to each flag alone; two runs make a cluster, for which `MinCount` is scaled
  from 3 to 2. One run is a session that loops in two groups of calls, which is the flag
  that needs the steps, and loses its steps whenever it is captured again; the other has a
  start row and no flag.
  The rules for the other flags and clusters (abnormal stops, budgets, cold caches, tool
  errors, sizes, repairs) run in every sweep and find nothing in these runs, but the calls of
  `grading` make the routing finding, both ways.
- *Two calls for the judge*, one that failed and is older. `Limit` is scaled from 50 to 2
  (1 in `judge_failures`), `MinIncorrect` from 3 to 2, so that one batch can fill both.
  `ScanFactor` is the code's 4.
- `MaxFailures` is 1: one sweep or batch fails, anywhere, and the next one of its place must
  repair what it left. That only finitely many fail is what the liveness properties of the
  graders assume; the proofs have no such bound.
- `MaxMessages`, `MaxEvents`, `MaxLines`, `MaxImports`, `MaxAge` and `MaxFailures` are
  guards of `Deliver`, `Happen`, `Log`, `BeginImport`, `Age` and `Fail`. RunStore and Pool
  need no bound of their own: runs, stamps and writers are used once.

Deadlock is checked for RunStore, Pool and Grading: `MCRunStore` and `MCPool` add a step for
a state in which everything is settled, and sweeps can always start again. Collector,
CmaCapture and Backfill may stop anywhere: streams need not be consumed to their end, and a
file need not be imported again.

### Fairness

`store_writers` assumes weak fairness of the start, finalize and stamp task of
each run. A task that `create_task` scheduled is resumed by the event loop, and each
statement either answers or raises: that is an assumption on the server and the driver,
since the pool is created without a `command_timeout`. Being dropped is among the fair
steps (a failing statement, or a task the collector took because `fire` keeps no
reference to it), so fairness does not promise success. The host is under no
fairness: it need not close what it opened. `FinalizeLands` therefore says only that a
finalize, once fired, ends with a final row or is dropped.

`pool` assumes the same of each writer, and that the `close()` somebody awaits returns once
the connections are released, or raises. Nobody need close the pool, or close it again
after that, and `create_pool` may raise every time.

The graders are weakly fair as a whole: a sweep or a batch that was started sends its next
statement or fails, and a place that is idle starts again, which is cron ("Run via
`python -m stressless rules` or the 30-min cron", `rules.py` line 5; "Designed for cron",
`judge.py` line 221). The writers and the passing of time are under no fairness.

## 4. What is proved

All by the TLA+ proof system, for any sets of runs, jobs, stamps, tasks, streams, messages,
captures, items and lines, under the assumption each module makes on its constants:

- `ConstantsAssumption` (RunStore): the two kinds of runs are disjoint, NULL is no id,
  `JobOf` and `NoteJob` are functions to jobs.
- `HandleConstants` and `CollectorConstants`: NULL is no name, id, number, task or handle,
  a budget is a number, and the blocks of a message are blocks there are (`BlockRecords`).
- `CmaHandleConstants` and `CmaCaptureConstants`: NULL is no id and no capture, and events
  carry the fields the handle reads (`WellFormed`).
- `BackfillConstants`: a line of the trace carries what the parser reads from it
  (`Legible`). Lines the parser cannot read are those with `ev` `"other"`.
- `PoolAssumption`: finitely many tasks, at least one connection, NULL is neither a pool nor
  a task.
- `FactsAssumption` and `WindowsAssumption`: counts, times and windows are numbers, and
  there are finitely many runs, since `Occurrences` counts them.

The assumptions on messages, events and lines describe the abstraction, not the
program's input: what the code would skip or read a default from is one of the listed
forms. TLC evaluates all of them in every run.

| Theorem | States |
|---|---|
| `RunStoreProofs!Invariance` | `Spec => []IInv` |
| `RunStoreProofs!TypeCorrect` | `Spec => []TypeOK` |
| `RunStoreProofs!FinishedTasksStore` | a task that ended without being dropped left a final row with its steps |
| `RunStoreProofs!RunningRowsAreUnfinalized` | a row shown as running was not finalized |
| `RunStoreProofs!StampsErasedByFallbackOnly` | the only step that turns an outcome to NULL is the fallback upsert |
| `RunStoreProofs!ImplementsLedger` | `Spec => Ledger!Spec`: every statement is a step of the ledger or a stutter |
| `RunStoreProofs!ParentsAreAcyclic` | no run is its own ancestor |
| `RunLedgerProofs!TypeCorrect`, `LinksAreStored`, `LinksAreAcyclic` | the same facts for anything that implements the ledger, if NULL is no run id |
| `CollectorProofs!ContextsAreChains` | the bodies of each task and their tokens form one chain, exactly so as long as the task leaves them in order |
| `CollectorProofs!AmbientRunIsInnermost` | the ambient run of a task that leaves its bodies in order is its innermost one; in any order, it is one of its own, inherited, or over |
| `CollectorProofs!EndedRunsAreFinalized` | what ended was finalized exactly once, but for bodies left elsewhere and tees cancelled in `aclose()`, and nothing else was |
| `CollectorProofs!RaisedRunsAreFailed` | a run whose body or stream raised is stored as failed |
| `CollectorProofs!ErrorCountsAddUp` | error counts and flags agree with the error steps, for messages of any length and observations that raise anywhere |
| `CollectorProofs!ResultsAnswerLatestCall` | the step pending under an id is the latest call with it and has no answer |
| `CollectorProofs!CollectorTypeOK` | `Spec => []TypeOK` |
| `CmaCaptureProofs!ResultsFindTheirOwnCalls` | until a stray result comes, a capture gives each result to its call |
| `CmaCaptureProofs!PendingCallsAreUnanswered` | the pending calls are those without an answer, in order; error counts agree with error steps unless an observation raised, and never exceed them |
| `CmaCaptureProofs!CmaCaptureTypeOK` | `Spec => []TypeOK` |
| `CmaCaptureProofs!PersistsKeepTables` | `Spec => []PersistInv` |
| `CmaCaptureProofs!SerialPersistsReplaceWhole` | if no two persists overlapped, the steps are one capture's, and after the last one the steps and the columns that every finalize sets are its own; a known model is not forgotten |
| `PoolProofs!PoolInvariant` | `Spec => []PoolInv` |
| `PoolProofs!OnlyLivePool` | the pool in `_pool` is the one pool that is not closed |
| `PoolProofs!ConnectionsAreBounded` | no more than `MaxSize` writers are on a connection, over all pools |
| `GradingProofs!GradingInvariant` | `Spec => []IInv` |
| `GradingProofs!ScoresAreReplaced` | no sweep adds to rows it inserted before |
| `GradingProofs!SweepsComeToTheirEnd` | a sweep that ends has scored every flag of the runs it began with, as often as it is there, unless too old or written to meanwhile |
| `GradingProofs!JudgedAtMostOnce` | one place judges a run at most once |
| `GradingProofs!VerdictsAreKept` | no step takes a verdict out of the table |
| `GradingProofs!QualityFindingsAreBacked` | a quality finding counts no more calls than have a stored incorrect verdict |
| `BackfillProofs!ImportInvariant` | `Spec => []ImportInv` |
| `BackfillProofs!ParserFindsEveryRun` | the parser yields the runs the lines say there are, outcomes aside, each once, under an id of its own |
| `BackfillProofs!OutcomesReachTheirItem` | the executor's last word on an item reaches its run that ended last before; an outcome is one the executor gave the item |
| `BackfillProofs!CountedRunsAreStored` | what an import counted has its row, and steps if it has any |
| `BackfillProofs!StoredRunsAreKept` | no import takes back or changes what is stored, but for an outcome that was NULL and the source, from `raw_items` |
| `BackfillProofs!BackfillTypeOK` | `Spec => []TypeOK` |

**The inductive invariant.** None of the properties is inductive: that a late insert does
not revert a row depends on what each program counter says of the row. `IInv` is
`TypeOK` and `TasksMatchRows`, which relates the counters of a run's tasks to its
columns: a parent that was found is stored (rows are never deleted), a run whose row is
absent has no link and no steps, a finalize that waits for its steps has a final row and
none yet, an insert that is done left a row, and so on. Each action changes the tasks and
row of one run, so the proof has a step per action and the other runs carry over.

**Refinement.** `StartInsert` implements `Appear` when the row is absent, and the link it
stores is allowed because `found` leads to a stored row; it is a stutter otherwise. The
update is `Finish`, the upsert is `Appear` or `Finish`, both step inserts are
`RecordSteps`, whose guard (final, no steps yet) is the part the invariant is needed
for.

**Acyclicity.** Two lookups may find each other's runs only if both rows were stored when
they looked, and a row is inserted after its own lookup; so a new row's link leads to a
row stored before it. In the ledger this is: no stored row links to an absent one, hence
`Appear` cannot close a circle (`AppearKeepsAcyclic`, on any non-empty set of runs).
RunStore has the property because it implements the ledger.

**Contexts.** That `ExitRun` restores the enclosing run is a fact about the tokens of the
bodies that are open in the task: `ContextsChain` says that a run is open in one task and
at one place only, and that each body's token holds what was ambient around it (the body
it is in, or what the task inherited), or a run that no reset took out of the context.
`EnterRun` extends the chain at its end; `Spawn` starts an empty chain with its creator's
ambient run; a body left elsewhere is taken out of its chain, and what was ambient inside
it is the exception `Unreset` names. `ExitRun` shortens the chain at its end, or anywhere:
then the task is `tangled`, and all that stays true of its tokens and of its ambient run
is that they are one of its bodies, what it inherited, or a run that is over (`Around`).
That much holds of every task. Which handle was finalized how often is a second,
independent invariant.

**One persist at a time.** As long as no two persists were under way at once, only the last
one to begin can be at its statements, and `PersistInv` says what the tables hold at each
of them: no steps after the DELETE, its own columns after the update or the upsert, its own
steps after the insert, and a model as soon as a capture that knows one has written the
row. A dropped persist leaves the tables anywhere in between, and the next one repairs
them from there: its DELETE takes all steps, whoever inserted them. Everything else leaves
the tables alone.

**One pool.** A pool is created by the holder of the lock, and there is none while it
holds it (`CreatorIsHolder`: `_pool` is looked at again under the lock); a pool that is
being closed, or whose `close()` raised, is still the one in `_pool`, so nobody can open a
second one before it is closed. Then all writers that are on a connection are on that
pool, whose own limit bounds them.

**Sweeps.** `SweepInv` says that while a sweep is on its way the table has none of its own
rows for the flags it will insert, nor for the runs still in its window. Both halves are
needed: a run may leave the window after the DELETE, and then only its rows being gone
already protects it; a run that comes in while the sweep runs was not in the DELETE, and has
no rows because it was not stored. Other sweeps and failures only take rows away.
`SweepProgress` counts the rules that have run: each found all its flags, with their counts,
among the runs that were whole at the DELETE and have not been written to since (`base`); a
session that is captured again leaves that set with its first statement. When all have run,
and every score name belongs to a rule (`EveryFlagHasItsRule`), the INSERT is complete.

**Verdicts.** What a batch has still to judge has no verdict from its own place
(`JudgeInv`): the SELECT took only runs without any, and each `Record` takes its run out of
the batch together with storing the verdict. Two places can judge one run at the same time;
the theorem does not say otherwise.

**Handles.** A handle is a value, so its invariants are proved of the operators first and
carried to the specifications after: `HandleInv` (RunHandle) and `CmaInv` (CmaHandle) hold
of a new handle and are kept by one block or one event, hence by any number of them
(`DataLemmas!SetInduction` over the recursive function), and by `finish`. `HandleInv` has
one part per id (`Awaits`: what is pending under an id is the last call step with it, not
answered) and one per name (`Counts`). The error counts need both: a result that finds a
pending call finds a step without an error, so the error it adds is a new one. A pending
step of a Cma handle is a call without an answer, and no other is, in the order of the
steps; an observation that stops halfway has changed the steps and the pending calls
together, and only the count is behind. `ResultsFindTheirCalls` needs the history as well:
as long as every result a capture has read is the first one for a call it has read before
(`NoStrayResult`), a call it has read is pending or has its result (`AnswersFit`), so a
result finds its call and does not fall back to the oldest one. It holds for a tee that joined late
until the first result for a call it missed. The rows are snapshots of finished
handles, whose status no later `finish` changes; that is `RaisedIsFailed`.

**Quality findings.** A batch adds one to its count for a kind and verdict in the step after
it stored a verdict of a run it had not judged (`JudgeInv`), so the count stays below the
number of its own incorrect verdicts (`CountsAreBacked`); a finding holds the count of some
batch, and verdicts stay. Sweeps write findings too, but none under this name.

**The parser.** `ParserFits` says what each dictionary holds in terms of the lines read so
far and of no dictionary: the open run of a flow is that of the last start of which no line
was the end, with the messages since; the pending call is the last call line that no answer
took; the executor's status is that of the last line no structured run took, and the outcome
of a run that of the last line that stamped it (`TakenRun`, in the proof module, since it
says no more than the code does); each closed run is a `FlowRun` or an `AnswerRun`, and the
closed runs of an item are in the order in which they ended, which makes the one an executor
line stamps the right one. One more line changes what the lines say only at the flows, calls
and runs it is about (the lemmas on a `Grown` trace: `EndOfGrows`, `MessagesGrow` and
others), and `ParserStep` shows that `ParseLine` changes the same. Induction over the
prefixes of a file gives `ParserFitsTrace`, and with what is open at its end `ParsedRunsAre`.
What the last executor line of an item stamped nothing stamps again (`LastWordIsTaken`), and
each outcome is that of a line about the item (`OutcomeIsGiven`); these two are
`OutcomesReachTheirItem`.

**Imports.** `CountedIsStored` is not inductive: a run that is counted without steps could
have a row that has some, if a later parse of a longer file found fewer messages. `ImportInv`
rules this out: what is still to be inserted has steps where the stored row has
(`Covers`), because both were parsed from prefixes of one file and a flow with messages keeps
them (`HasSteps`). The id of a flow's run is the line of its start, and that of a call's
run the line of the call or of its answer, so a row with steps and a run without cannot share one.

## 5. What is only model-checked, and what is not modelled

- *Liveness* (`FinalizeLands`, `AskersAreAnswered`, `FlaggedIsScored`, `ClusterIsReported`,
  `FailureIsJudged`) and everything under fairness: out of the prover's reach,
  checked by TLC. Every invariant and every action property of a passing run is
  proved as well.
- *That a recorded count is right as a number*: cardinalities are proved about, sums over
  tables are not. `StepCount` of a sweep's findings is a sum, and the proofs use only that
  it has no part in quality findings.
- *The violated properties* are shown by their counterexamples.
- *Payloads, tokens, durations, previews, redaction* are abstracted away. Costs are kept
  as small numbers where a property is about them.
- *`STRESSLESS_ENABLED` off*: every entry point returns at once. It is no step.
- *Postgres* is external: statements are atomic, `ON CONFLICT` does what its clause says,
  a committed row stays. *asyncio* is external: tasks interleave at awaits only, contexts
  are copied at `create_task`.
- *Seen in the models and not stated as a property*: the row of a run with two queries
  has the cost of the last one (`_apply_result`); an exception that leaves `observe_event`
  halfway leaves an error step that no count has; a body left in another context leaves a
  run that is shown as running; an aborted batch's verdicts are in no finding; findings are
  never withdrawn. No sentence of the repository promises otherwise of these.
- *Seen in the models, against a sentence of the repository, and left to prose*: the
  comment on each property concerned says so, and none claims the sentence.
  Captures of one session that persist at once both delete before either inserts, and the
  table has the steps of both (`cma.py` 9-10: "so they upsert rather than duplicate"); every
  capture adds its scores to those before (`cma.py` 295: "idempotent re-ingest"); an executor
  line stamps a run of the item flow, and one line's outcome goes to two runs (`backfill.py`
  226: "Stamp the most recent already-closed structured run for this ref."); two sweeps at
  once score a flag twice (`rules.py` 60: "re-runs replace rule scores"), and two batches at
  once judge a call twice (`judge.py` 220: "skipping runs already judged").
- *report, web, pricing*: read and print; they keep no state. *The command line* keeps none
  either, except `dataset-add-run`, which copies a run and its steps into a data set with
  two reads; nothing else in the repository uses data sets. `judge_pointwise` and
  `judge_pairwise` make one call and return a value.

## 6. Plan
The order follows what would be believed wrongly if it broke.

1. *Done.* `RunLedger`, `RunStore`: everything else writes through them.
2. *Done.* `RunHandle`, `Collector`: what reaches the store.
3. *Done.* `CmaHandle`, `CmaCapture`: the second pair of writers of one row.
4. *Done.* `TraceParse`, `Backfill`: the writer that comes after the fact.
5. *Done.* `Pool`: what every statement goes through.
6. *Done.* `GradedRuns`, `Rules`, `Judge`, `Grading`: what reads the rows and grades them.
7. *Done.* Proofs of every invariant and action property the passing runs check.
8. *Done.* Where the code does less than its comments say: the violated properties, next to
   what does hold and is proved, and the list in section 5.
9. The hazards without a property, where a true one can be stated: which links and stamps
   are lost to the order of the writers (`store.py` 289 and 294), what a finding may still say
   after its window moved on (`rules.py` 32); each with its proof.

## Running

    tlc -workers 2 -config RunStore.cfg MCRunStore
    tlapm RunStoreProofs.tla

Every `.cfg` belongs to the MC module its name begins with. The larger runs take one
to two minutes each.
