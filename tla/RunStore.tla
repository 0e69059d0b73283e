------------------------------ MODULE RunStore ------------------------------
(***************************************************************************)
(* The writers of stressless/store.py.                                     *)
(*                                                                         *)
(* Every write is a coroutine handed to fire(), which runs it as a task of *)
(* its own: the start insert, the finalize and the outcome stamps of one   *)
(* run are separate tasks, each sends its statements one by one on         *)
(* whichever pooled connection is free, and nothing orders the statements  *)
(* of two tasks. A statement is atomic (autocommit); a task's program      *)
(* counter names the statement it sends next. A statement or the pool may  *)
(* fail, and the process may end: the task is then dropped, and nobody     *)
(* retries it.                                                             *)
(*                                                                         *)
(* With STRESSLESS_ENABLED off every entry point returns before it fires   *)
(* anything: such a call is no step of this module.                        *)
(***************************************************************************)
EXTENDS Naturals

CONSTANTS
  LiveRuns,   \* runs of run() and of implicit tees: a start row, then a finalize
  ApiRuns,    \* runs of wrap_anthropic: one insert of the complete row
  Repairs,    \* the runs whose mode starts with "repair"
  Jobs,       \* the (agent_kind, external_ref) pairs in use
  JobOf,      \* JobOf[r]: the pair of run r, None when external_ref is NULL
  Notes,      \* the calls of note_outcome; a call also names the outcome it stamps
  NoteJob,    \* NoteJob[n]: the pair call n is about
  None        \* SQL NULL

Runs == LiveRuns \cup ApiRuns

ASSUME ConstantsAssumption ==
  /\ LiveRuns \cap ApiRuns = {}
  /\ Repairs \subseteq Runs
  /\ None \notin Runs \cup Jobs \cup Notes
  /\ JobOf \in [Runs -> Jobs \cup {None}]
  /\ NoteJob \in [Notes -> Jobs]

VARIABLES
  \* the host's side
  host,       \* host[r]: "idle", "open" (in the body or the call), "closed" or "lost"
  clock,      \* how many runs were opened
  created,    \* created[r]: created_at, 0 before the run is opened
  hasSteps,   \* hasSteps[r]: the finished run has step rows to store
  old,        \* the runs whose created_at is more than six hours back
  \* the fired tasks
  startPc,    \* insert_run_start, or insert_run_complete for an API run
  found,      \* found[r]: the parent the start task's SELECT returned
  finPc,      \* finalize_run
  notePc,     \* note_outcome
  \* the database
  status, outcome, parent, steps

hostVars == <<host, clock, created, hasSteps, old>>
taskVars == <<startPc, found, finPc, notePc>>
dbVars == <<status, outcome, parent, steps>>
vars == <<host, clock, created, hasSteps, old, startPc, found, finPc, notePc,
          status, outcome, parent, steps>>

StartPending == {"lookup", "insert", "steps"}
FinPending == {"update", "upsert", "steps"}

TypeOK ==
  /\ host \in [Runs -> {"idle", "open", "closed", "lost"}]
  /\ clock \in Nat
  /\ created \in [Runs -> Nat]
  /\ hasSteps \in [Runs -> BOOLEAN]
  /\ old \subseteq Runs
  /\ startPc \in [Runs -> StartPending \cup {"none", "done", "dropped"}]
  /\ found \in [Runs -> Runs \cup {None}]
  /\ finPc \in [Runs -> FinPending \cup {"none", "done", "dropped"}]
  /\ notePc \in [Notes -> {"none", "update", "done", "dropped"}]
  /\ status \in [Runs -> {"absent", "running", "final"}]
  /\ outcome \in [Runs -> Notes \cup {None}]
  /\ parent \in [Runs -> Runs \cup {None}]
  /\ steps \in [Runs -> Nat]

Init ==
  /\ host = [r \in Runs |-> "idle"]
  /\ clock = 0
  /\ created = [r \in Runs |-> 0]
  /\ hasSteps = [r \in Runs |-> FALSE]
  /\ old = {}
  /\ startPc = [r \in Runs |-> "none"]
  /\ found = [r \in Runs |-> None]
  /\ finPc = [r \in Runs |-> "none"]
  /\ notePc = [n \in Notes |-> "none"]
  /\ status = [r \in Runs |-> "absent"]
  /\ outcome = [r \in Runs |-> None]
  /\ parent = [r \in Runs |-> None]
  /\ steps = [r \in Runs |-> 0]

-----------------------------------------------------------------------------
(* The host: what fires the writes.                                        *)

\* A repair asks for its parent before it inserts its row.
FirstStartPc(r) == IF r \in Repairs THEN "lookup" ELSE "insert"

\* run(), or tee_query_stream without an ambient run: a handle, and its start row.
OpenRun(r) ==
  /\ r \in LiveRuns
  /\ host[r] = "idle"
  /\ host' = [host EXCEPT ![r] = "open"]
  /\ clock' = clock + 1
  /\ created' = [created EXCEPT ![r] = clock + 1]
  /\ startPc' = [startPc EXCEPT ![r] = FirstStartPc(r)]
  /\ UNCHANGED <<hasSteps, old, found, finPc, notePc, dbVars>>

\* The body of run() or the stream ended: the finalize is fired with the finished
\* row and the step rows, which may be none.
CloseRun(r) ==
  /\ r \in LiveRuns
  /\ host[r] = "open"
  /\ host' = [host EXCEPT ![r] = "closed"]
  /\ \E b \in BOOLEAN : hasSteps' = [hasSteps EXCEPT ![r] = b]
  /\ finPc' = [finPc EXCEPT ![r] = "update"]
  /\ UNCHANGED <<clock, created, old, startPc, found, notePc, dbVars>>

\* messages.create is awaited: created_at is taken, nothing is written yet.
CallApi(r) ==
  /\ r \in ApiRuns
  /\ host[r] = "idle"
  /\ host' = [host EXCEPT ![r] = "open"]
  /\ clock' = clock + 1
  /\ created' = [created EXCEPT ![r] = clock + 1]
  /\ UNCHANGED <<hasSteps, old, taskVars, dbVars>>

\* It returned or raised: the complete row and its one llm step are fired.
ReturnApi(r) ==
  /\ r \in ApiRuns
  /\ host[r] = "open"
  /\ host' = [host EXCEPT ![r] = "closed"]
  /\ hasSteps' = [hasSteps EXCEPT ![r] = TRUE]
  /\ startPc' = [startPc EXCEPT ![r] = FirstStartPc(r)]
  /\ UNCHANGED <<clock, created, old, found, finPc, notePc, dbVars>>

\* note_outcome is a plain function: without a running loop fire() closes the
\* coroutine and the stamp is dropped.
CallNote(n) ==
  /\ notePc[n] = "none"
  /\ \E pc \in {"update", "dropped"} : notePc' = [notePc EXCEPT ![n] = pc]
  /\ UNCHANGED <<hostVars, startPc, found, finPc, dbVars>>

\* Six hours have passed since r was created, the older runs before it.
Age(r) ==
  /\ created[r] # 0
  /\ r \notin old
  /\ \A q \in Runs : created[q] # 0 /\ created[q] < created[r] => q \in old
  /\ old' = old \cup {r}
  /\ UNCHANGED <<host, clock, created, hasSteps, taskVars, dbVars>>

-----------------------------------------------------------------------------
(* insert_run_start and insert_run_complete                                *)

\* `agent_kind = $1 AND external_ref = $2`: NULL equals nothing.
SameJob(p, r) == JobOf[p] = JobOf[r] /\ JobOf[r] # None

\* The stored runs of r's job, r itself left out.
Candidates(r) == {p \in Runs \ {r} : status[p] # "absent" /\ SameJob(p, r)}

\* `ORDER BY created_at DESC LIMIT 1`
Latest(S) == {p \in S : \A q \in S : created[q] <= created[p]}

\* A repair selects its parent: the latest stored run of its job, if there is one.
StartLookup(r) ==
  /\ startPc[r] = "lookup"
  /\ \E p \in IF Candidates(r) = {} THEN {None} ELSE Latest(Candidates(r)) :
       found' = [found EXCEPT ![r] = p]
  /\ startPc' = [startPc EXCEPT ![r] = "insert"]
  /\ UNCHANGED <<hostVars, finPc, notePc, dbVars>>

\* Mutated forms of the insert: DO UPDATE instead of DO NOTHING.
InsertedStatusOverwrites(r) == IF r \in LiveRuns THEN "running" ELSE "final"
InsertedParentOverwrites(r) == found[r]

\* _RUN_INSERT: ON CONFLICT (id) DO NOTHING.
InsertedStatus(r) == IF status[r] # "absent" THEN status[r]
                     ELSE IF r \in LiveRuns THEN "running" ELSE "final"
InsertedParent(r) == IF status[r] # "absent" THEN parent[r] ELSE found[r]

StartInsert(r) ==
  /\ startPc[r] = "insert"
  /\ status' = [status EXCEPT ![r] = InsertedStatus(r)]
  /\ parent' = [parent EXCEPT ![r] = InsertedParent(r)]
  /\ startPc' = [startPc EXCEPT ![r] = IF r \in ApiRuns THEN "steps" ELSE "done"]
  /\ UNCHANGED <<hostVars, found, finPc, notePc, outcome, steps>>

\* insert_run_complete: the steps follow the row.
StartSteps(r) ==
  /\ startPc[r] = "steps"
  /\ steps' = [steps EXCEPT ![r] = @ + 1]
  /\ startPc' = [startPc EXCEPT ![r] = "done"]
  /\ UNCHANGED <<hostVars, found, finPc, notePc, status, outcome, parent>>

-----------------------------------------------------------------------------
(* finalize_run                                                            *)

\* Mutated form of the update: `outcome = $5` without the COALESCE.
UpdatedOutcomeBare(r) == None

\* RunHandle.outcome is None and stays so: COALESCE keeps what is stored.
UpdatedOutcome(r) == outcome[r]

\* After the row, its steps, when there are any.
AfterRow(r) == IF hasSteps[r] THEN "steps" ELSE "done"

\* _RUN_UPDATE matches the row, or tells "UPDATE 0".
FinalizeUpdate(r) ==
  /\ finPc[r] = "update"
  /\ IF status[r] # "absent"
     THEN /\ status' = [status EXCEPT ![r] = "final"]
          /\ outcome' = [outcome EXCEPT ![r] = UpdatedOutcome(r)]
          /\ finPc' = [finPc EXCEPT ![r] = AfterRow(r)]
     ELSE /\ finPc' = [finPc EXCEPT ![r] = "upsert"]
          /\ UNCHANGED <<status, outcome>>
  /\ UNCHANGED <<hostVars, startPc, found, notePc, parent, steps>>

\* Mutated form of the fallback: DO NOTHING, the row in flight wins.
UpsertedStatusKeeps(r) == IF status[r] = "absent" THEN "final" ELSE status[r]

\* _RUN_UPSERT, "must win on conflict": status and outcome are the finished
\* handle's, so the outcome becomes NULL; parent_run_id is not in its SET list, and
\* the handle's row has none.
UpsertedStatus(r) == "final"
UpsertedOutcome(r) == None

FinalizeUpsert(r) ==
  /\ finPc[r] = "upsert"
  /\ status' = [status EXCEPT ![r] = UpsertedStatus(r)]
  /\ outcome' = [outcome EXCEPT ![r] = UpsertedOutcome(r)]
  /\ finPc' = [finPc EXCEPT ![r] = AfterRow(r)]
  /\ UNCHANGED <<hostVars, startPc, found, notePc, parent, steps>>

FinalizeSteps(r) ==
  /\ finPc[r] = "steps"
  /\ steps' = [steps EXCEPT ![r] = @ + 1]
  /\ finPc' = [finPc EXCEPT ![r] = "done"]
  /\ UNCHANGED <<hostVars, startPc, found, notePc, status, outcome, parent>>

-----------------------------------------------------------------------------
(* note_outcome                                                            *)

\* The rows of the WHERE clause, at the moment the statement runs.
Stamped(n) == {r \in Runs \ old : status[r] # "absent" /\ JobOf[r] = NoteJob[n]}

NoteUpdate(n) ==
  /\ notePc[n] = "update"
  /\ outcome' = [r \in Runs |-> IF r \in Stamped(n) THEN n ELSE outcome[r]]
  /\ notePc' = [notePc EXCEPT ![n] = "done"]
  /\ UNCHANGED <<hostVars, startPc, found, finPc, status, parent, steps>>

-----------------------------------------------------------------------------
(* Failures. fire() logs the exception of a task and forgets the task.     *)

DropStart(r) ==
  /\ startPc[r] \in StartPending
  /\ startPc' = [startPc EXCEPT ![r] = "dropped"]
  /\ UNCHANGED <<hostVars, found, finPc, notePc, dbVars>>

DropFinalize(r) ==
  /\ finPc[r] \in FinPending
  /\ finPc' = [finPc EXCEPT ![r] = "dropped"]
  /\ UNCHANGED <<hostVars, startPc, found, notePc, dbVars>>

DropNote(n) ==
  /\ notePc[n] = "update"
  /\ notePc' = [notePc EXCEPT ![n] = "dropped"]
  /\ UNCHANGED <<hostVars, startPc, found, finPc, dbVars>>

\* What a process that ends leaves of a task or a run.
DroppedFrom(pending, pc) == IF pc \in pending THEN "dropped" ELSE pc

\* The process ends, or its loop does: the open runs and the pending tasks go, the
\* rows stay. The next process may open the runs that are still idle.
Crash ==
  /\ \/ \E r \in Runs : host[r] = "open" \/ startPc[r] \in StartPending
                                         \/ finPc[r] \in FinPending
     \/ \E n \in Notes : notePc[n] = "update"
  /\ host' = [r \in Runs |-> IF host[r] = "open" THEN "lost" ELSE host[r]]
  /\ startPc' = [r \in Runs |-> DroppedFrom(StartPending, startPc[r])]
  /\ finPc' = [r \in Runs |-> DroppedFrom(FinPending, finPc[r])]
  /\ notePc' = [n \in Notes |-> DroppedFrom({"update"}, notePc[n])]
  /\ UNCHANGED <<clock, created, hasSteps, old, found, dbVars>>

\* run() left in another context than it was entered in: reset(token) raises in its
\* finally, and the finalize is never fired.
AbandonRun(r) ==
  /\ r \in LiveRuns
  /\ host[r] = "open"
  /\ host' = [host EXCEPT ![r] = "lost"]
  /\ UNCHANGED <<clock, created, hasSteps, old, taskVars, dbVars>>

-----------------------------------------------------------------------------
HostStep(r) ==
  OpenRun(r) \/ CloseRun(r) \/ AbandonRun(r) \/ CallApi(r) \/ ReturnApi(r) \/ Age(r)
StartStep(r) == StartLookup(r) \/ StartInsert(r) \/ StartSteps(r) \/ DropStart(r)
FinalizeStep(r) ==
  FinalizeUpdate(r) \/ FinalizeUpsert(r) \/ FinalizeSteps(r) \/ DropFinalize(r)
NoteStep(n) == NoteUpdate(n) \/ DropNote(n)

Next ==
  \/ \E r \in Runs : HostStep(r) \/ StartStep(r) \/ FinalizeStep(r)
  \/ \E n \in Notes : CallNote(n) \/ NoteStep(n)
  \/ Crash

Spec == Init /\ [][Next]_vars

\* A task that was created runs on: the loop schedules it, and a statement answers
\* or raises. The host owes nothing.
Fairness ==
  /\ \A r \in Runs : WF_vars(StartStep(r)) /\ WF_vars(FinalizeStep(r))
  /\ \A n \in Notes : WF_vars(NoteStep(n))

FairSpec == Spec /\ Fairness

-----------------------------------------------------------------------------
(* What the writers achieve.                                               *)

Ledger == INSTANCE RunLedger WITH Runs <- Runs, None <- None,
                                  status <- status, parent <- parent, steps <- steps

\* The tables keep what RunLedger promises, in every order of the statements: a
\* final row never goes back to running, steps are stored once and under a final
\* row, a parent link is set with the row, leads to a stored row and never changes.
KeepsLedger == Ledger!Spec

\* No run becomes its own ancestor, although each repair looks its parent up in one
\* statement and stores the link in another, with other writers in between.
Acyclic == Ledger!Acyclic

\* A task that came to its end left the whole run behind: a final row and, when the
\* run has steps, its steps, whoever inserted the row and whatever came late.
FinishedTaskStoredRun ==
  \A r \in Runs :
    (IF r \in LiveRuns THEN finPc[r] = "done" ELSE startPc[r] = "done")
      => /\ status[r] = "final"
         /\ hasSteps[r] => steps[r] = 1

\* A row shown as running is one whose finalize has not been fired, is still about
\* to reach the row, or was dropped. A late start insert never brings it back.
RunningRowIsUnfinalized ==
  \A r \in Runs : status[r] = "running" =>
    r \in LiveRuns /\ finPc[r] \in {"none", "update", "upsert", "dropped"}

\* A stamped outcome is only ever erased by the fallback upsert: a finalize whose
\* update found the row keeps it.
OnlyFallbackErasesStamp ==
  [][\A r \in Runs : outcome[r] # None /\ outcome'[r] = None
                       => finPc[r] = "upsert"]_vars

\* What ties the tasks to the rows, the inductive invariant: how far a task has come
\* says what is stored of its run, and a found parent is a stored row.
TasksMatchRows ==
  \A r \in Runs :
    /\ status[r] = "absent" => parent[r] = None
    /\ found[r] # None => status[found[r]] # "absent"
    /\ r \in LiveRuns =>
         /\ startPc[r] # "steps"
         /\ finPc[r] # "none" => host[r] = "closed"
         /\ finPc[r] \in FinPending \cup {"none"} => steps[r] = 0
         /\ finPc[r] \in {"steps", "done"} => status[r] = "final"
         /\ finPc[r] = "done" /\ hasSteps[r] => steps[r] = 1
    /\ r \in ApiRuns =>
         /\ finPc[r] = "none"
         /\ status[r] # "running"
         /\ startPc[r] # "none" => host[r] = "closed"
         /\ startPc[r] \in StartPending \cup {"none"} => steps[r] = 0
         /\ startPc[r] \in {"steps", "done"} => status[r] = "final"
         /\ startPc[r] = "done" => steps[r] = 1

IInv == TypeOK /\ TasksMatchRows

\* When nothing fails, a closed run comes to a final row with its steps.
FinalizeLands ==
  \A r \in LiveRuns :
    host[r] = "closed" ~> \/ status[r] = "final" /\ (hasSteps[r] => steps[r] = 1)
                          \/ finPc[r] = "dropped"

-----------------------------------------------------------------------------
(* What the documentation says of the writers, and the code does not do.   *)

\* "stamp the latest runs for (kind, ref) with an outcome" (__init__.py, line 25): a
\* stamp that reached a row stays, unless another stamp replaces it.
StampIsKept ==
  [][\A r \in Runs : outcome[r] # None => outcome'[r] # None]_vars
=============================================================================
