------------------------------ MODULE Backfill ------------------------------
(***************************************************************************)
(* backfill() of stressless/backfill.py: a trace file that the old host    *)
(* may still be writing is imported again and again. Each import parses    *)
(* the file as it is then, and inserts run after run through               *)
(* insert_run_complete: the row, which does nothing if the id is stored,   *)
(* and then the steps. A run whose insert raises is skipped, and the       *)
(* process may end between any two statements. At its end it writes        *)
(* outcomes and sources of raw_items into the stored runs. The parent that *)
(* the row of a repair is stored with is RunStore's, and left out here.    *)
(***************************************************************************)
EXTENDS TraceParse

CONSTANTS
  Lines,        \* what the trace may say in a line
  RawStatus,    \* RawStatus[x]: raw_items.status of item x, None if there is no such item
  MaxLines,     \* bound: the length of the file
  MaxImports    \* bound: the imports begun

Ids == 1..MaxLines

NoRow == [id |-> 0]

ASSUME BackfillConstants ==
  /\ MaxLines \in Nat
  /\ MaxImports \in Nat
  /\ DOMAIN RawStatus = Refs
  /\ \A e \in Lines : Legible(e)

VARIABLES
  lines,      \* the file
  imports,    \* how many imports have begun
  pc,         \* "idle", or the statement that comes next: "row", "steps", "outcomes"
  todo,       \* the parsed runs that are still to be inserted
  rows,       \* rows[id]: the run's row, NoRow without one
  sources,    \* sources[id]: where its meta.source is from: None, "trace" or "raw"
  stepRows,   \* stepRows[id]: how often the run's steps were inserted
  counted     \* history: the ids that imports have counted as imported, with steps or not

vars == <<lines, imports, pc, todo, rows, sources, stepRows, counted>>
dbVars == <<rows, sources, stepRows>>

Init ==
  /\ lines = <<>>
  /\ imports = 0
  /\ pc = "idle"
  /\ todo = <<>>
  /\ rows = [i \in Ids |-> NoRow]
  /\ sources = [i \in Ids |-> None]
  /\ stepRows = [i \in Ids |-> 0]
  /\ counted = {}

\* The host writes a line.
Log(e) ==
  /\ Len(lines) < MaxLines
  /\ lines' = Append(lines, e)
  /\ UNCHANGED <<imports, pc, todo, dbVars, counted>>

\* The statement after the last one of a run.
GoOn(rest) ==
  /\ todo' = rest
  /\ pc' = IF rest = <<>> THEN "outcomes" ELSE "row"

BeginImport ==
  /\ pc = "idle"
  /\ imports < MaxImports
  /\ imports' = imports + 1
  /\ GoOn(ParsedRuns(lines))
  /\ UNCHANGED <<lines, dbVars, counted>>

\* Mutated form: no steps for a row that was there.
StepsFollowNewRow(run) == run.steps > 0 /\ rows[run.id] = NoRow

\* Mutated form: ON CONFLICT (id) DO UPDATE.
InsertedRowOverwrites(run) == run

\* _RUN_INSERT: ON CONFLICT (id) DO NOTHING.
InsertedRow(run) == IF rows[run.id] = NoRow THEN run ELSE rows[run.id]

\* insert_run_complete: `if steps`, whether the row was inserted or not.
StepsFollow(run) == run.steps > 0

InsertRow ==
  /\ pc = "row"
  /\ LET run == Head(todo) IN
       /\ rows' = [rows EXCEPT ![run.id] = InsertedRow(run)]
       /\ sources' = [sources EXCEPT ![run.id] = IF rows[run.id] = NoRow THEN "trace" ELSE @]
       /\ IF StepsFollow(run)
          THEN pc' = "steps" /\ UNCHANGED <<todo, counted>>
          ELSE GoOn(Tail(todo)) /\ counted' = counted \cup {run.id}
  /\ UNCHANGED <<lines, imports, stepRows>>

InsertSteps ==
  /\ pc = "steps"
  /\ LET run == Head(todo) IN
       /\ stepRows' = [stepRows EXCEPT ![run.id] = @ + 1]
       /\ counted' = counted \cup {run.id}
  /\ GoOn(Tail(todo))
  /\ UNCHANGED <<lines, imports, rows, sources>>

\* Either statement raises: the import goes on with the next run.
SkipRun ==
  /\ pc \in {"row", "steps"}
  /\ GoOn(Tail(todo))
  /\ UNCHANGED <<lines, imports, dbVars, counted>>

\* `COALESCE(r.outcome, ri.status)`
StampedOutcome(run) == IF run.outcome # None THEN run.outcome ELSE RawStatus[run.ref]

\* A stored run of the item flows whose item raw_items has.
HasRawItem(i) == rows[i] # NoRow /\ rows[i].flow \in Flows /\ RawStatus[rows[i].ref] # None

\* The UPDATE from raw_items: the outcome of a run that has none, the source of each.
StampOutcomes ==
  /\ pc = "outcomes"
  /\ rows' = [i \in Ids |->
       IF HasRawItem(i) THEN [rows[i] EXCEPT !.outcome = StampedOutcome(rows[i])] ELSE rows[i]]
  /\ sources' = [i \in Ids |-> IF HasRawItem(i) THEN "raw" ELSE sources[i]]
  /\ pc' = "idle"
  /\ UNCHANGED <<lines, imports, todo, stepRows, counted>>

\* The process ends, or the UPDATE raises (a host without raw_items).
Interrupt ==
  /\ pc # "idle"
  /\ pc' = "idle"
  /\ todo' = <<>>
  /\ UNCHANGED <<lines, imports, dbVars, counted>>

Import ==
  BeginImport \/ InsertRow \/ InsertSteps \/ SkipRun \/ StampOutcomes \/ Interrupt

Next == (\E e \in Lines : Log(e)) \/ Import

Spec == Init /\ [][Next]_vars

-----------------------------------------------------------------------------
(* What an import achieves.                                                *)

TypeOK ==
  /\ Len(lines) <= MaxLines
  /\ imports \in 0..MaxImports
  /\ pc \in {"idle", "row", "steps", "outcomes"}
  /\ \A k \in DOMAIN todo : todo[k].id \in Ids
  /\ pc \in {"row", "steps"} <=> todo # <<>>
  /\ \A i \in Ids : rows[i] # NoRow =>
       rows[i].id = i /\ rows[i].status \in Statuses
  /\ sources \in [Ids -> {None, "trace", "raw"}]
  /\ stepRows \in [Ids -> Nat]
  /\ counted \subseteq Ids

\* The parser, which carries its dictionaries from line to line, finds the runs that the
\* lines say there are, each once and under an id of its own; of their outcomes the next
\* property speaks.
ParserFindsRuns ==
  LET parsed == ParsedRuns(lines) IN
    /\ {Unstamped(run) : run \in ToSet(parsed)} = RunsOf(lines)
    /\ Cardinality({run.id : run \in ToSet(parsed)}) = Len(parsed)

\* The last word of the executor on an item reaches the run of the item that ended last
\* before it, whatever comes after; and an outcome is one the executor gave that item. No
\* more than that: the comment at backfill.py:226 says that a line stamps a structured run,
\* but the code stamps whichever run of the item ended last, of the item flow too, and
\* gives the same outcome once more to the structured run that ends next (line 216).
OutcomesAreOfTheItem ==
  LET parsed == ToSet(ParsedRuns(lines)) IN
    /\ \A ref \in Refs : ExecutorLines(lines, ref) # {} =>
         LET k == Max(ExecutorLines(lines, ref))
             ended == EndedBefore(lines, ref, k)
         IN  \A i \in ended :
               EndOf(lines, i) = Max({EndOf(lines, h) : h \in ended})
                 => \E run \in parsed : run.id = i /\ run.outcome = lines[k].outcome
    /\ \A run \in parsed : run.outcome # None =>
         /\ run.flow \in Flows
         /\ \E k \in ExecutorLines(lines, run.ref) : lines[k].outcome = run.outcome

\* A run that an import counted is stored, and its steps are: whatever the imports
\* before left undone.
CountedIsStored ==
  \A i \in counted : rows[i] # NoRow /\ (rows[i].steps > 0 => stepRows[i] > 0)

\* What was stored stays: no later import, of a file that has grown, takes a run back or
\* changes it, but for the outcome of a run that had none and the source, which come from
\* raw_items. That an outcome from the trace wins is what the code does, not what the
\* comment at backfill.py:351 says: RawOutcomesWin is violated.
StoredRunsStay ==
  [][\A i \in Ids : rows[i] # NoRow =>
       /\ \/ rows'[i] = rows[i]
          \/ /\ rows[i].outcome = None
             /\ rows'[i] = [rows[i] EXCEPT !.outcome = RawStatus[rows[i].ref]]
       /\ sources'[i] = sources[i] \/ (HasRawItem(i) /\ sources'[i] = "raw")]_vars

-----------------------------------------------------------------------------
(* What the documentation says of the import, and the code does not do.     *)

\* "Run ids are deterministic (uuid5) so re-importing the same file is idempotent"
\* (backfill.py, lines 14-15): the steps of a run are stored once.
ReimportIsIdempotent == \A i \in Ids : stepRows[i] <= 1

\* "Authoritative outcomes + source from raw_items for item_processor runs."
\* (backfill.py, line 351): after the UPDATE a run has the outcome of its item.
RawOutcomesWin ==
  [][StampOutcomes => \A i \in Ids : HasRawItem(i) =>
       rows'[i].outcome = RawStatus[rows[i].ref]]_vars

=============================================================================
