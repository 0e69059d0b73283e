----------------------------- MODULE CmaCapture -----------------------------
(***************************************************************************)
(* The two capture paths of stressless/cma.py on one session, down to the  *)
(* statements that store it.                                               *)
(*                                                                         *)
(* The session, at Anthropic, appends events to its history. A tee sees    *)
(* the events that come while it is open, an ingest reads the history as   *)
(* it is; both derive the same run id from the session id, and both end in *)
(* _persist: delete the steps, update or upsert the row, insert the steps, *)
(* insert the scores. A tee's _persist is a fired task, an ingest's runs   *)
(* in the caller; statements of several captures interleave, and each may  *)
(* fail, or the process may end, before the next.                          *)
(***************************************************************************)
EXTENDS CmaHandle, FiniteSets

CONSTANTS
  Tees,       \* calls of tee_session_stream
  Ingests,    \* calls of ingest_session
  HasModel,   \* the captures that know the session's model
  Events,     \* what a session may do
  MaxEvents   \* bound: the length of the history

Captures == Tees \cup Ingests

\* The columns only an INSERT sets (agent_kind, external_ref, created_at), the model, and
\* those every finalize sets.
Row == [identity : Captures, model : HasModel \cup {None}, rest : Captures]

ASSUME CmaCaptureConstants ==
  /\ Tees \cap Ingests = {}
  /\ None \notin Tees \cup Ingests
  /\ HasModel \subseteq Captures
  /\ None \notin Row
  /\ MaxEvents \in Nat
  /\ \A e \in Events : WellFormed(e)

VARIABLES
  history,    \* the session's events
  pc,         \* pc[c]: "idle", "open" (a tee), the next statement, "done" or "dropped"
  from,       \* from[c]: how many events came before a tee was opened
  read,       \* read[c]: how many events the capture has read
  handle,     \* handle[c]: the CMASessionHandle
  left,       \* left[c]: the scores still to insert
  row,        \* [identity, model, rest]: the captures the row's columns come from, or None
  stepRows,   \* stepRows[c]: how often c's steps are in the table
  scoreRows,  \* scoreRows[c]: how many of c's scores are in the table
  swallowed,  \* history: the tees for which an observation has raised
  last,       \* history: the capture whose _persist began last
  overlapped  \* history: a _persist began while another was at its statements

vars == <<history, pc, from, read, handle, left, row, stepRows, scoreRows, swallowed,
          last, overlapped>>
dbVars == <<row, stepRows, scoreRows>>
pastVars == <<swallowed, last, overlapped>>

Statements == {"delete", "update", "upsert", "steps", "scores"}

TypeOK ==
  /\ Len(history) <= MaxEvents
  /\ pc \in [Captures -> Statements \cup {"idle", "open", "done", "dropped"}]
  /\ from \in [Captures -> 0..MaxEvents]
  /\ read \in [Captures -> 0..MaxEvents]
  /\ row \in Row \cup {None}
  /\ stepRows \in [Captures -> Nat]
  /\ left \in [Captures -> Nat]
  /\ \A c \in Captures : scoreRows[c] \in 0..Len(handle[c].scores)
  /\ swallowed \subseteq Tees
  /\ last \in Captures \cup {None}
  /\ overlapped \in BOOLEAN
  /\ \A c \in Captures :
       /\ handle[c].status \in {"running", "succeeded", "failed"}
       /\ handle[c].finished <=> pc[c] \notin {"idle", "open"}
       /\ from[c] <= read[c] /\ read[c] <= Len(history)

Init ==
  /\ history = <<>>
  /\ pc = [c \in Captures |-> "idle"]
  /\ from = [c \in Captures |-> 0]
  /\ read = [c \in Captures |-> 0]
  /\ handle = [c \in Captures |-> NewCmaHandle]
  /\ left = [c \in Captures |-> 0]
  /\ row = None
  /\ stepRows = [c \in Captures |-> 0]
  /\ scoreRows = [c \in Captures |-> 0]
  /\ swallowed = {}
  /\ last = None
  /\ overlapped = FALSE

-----------------------------------------------------------------------------
(* The session.                                                            *)

Called(id) == \E i \in DOMAIN history : history[i].ev = "call" /\ history[i].id = id

\* A session calls with fresh ids. Its results may name a call, name it again or before
\* it, or name none.
Plausible(e) == e.ev = "call" => ~Called(e.id)

Happen(e) ==
  /\ Len(history) < MaxEvents
  /\ Plausible(e)
  /\ history' = Append(history, e)
  /\ UNCHANGED <<pc, from, read, handle, left, dbVars, pastVars>>

-----------------------------------------------------------------------------
(* The captures.                                                           *)

\* Another capture is between the first and the last statement of its _persist.
Busy(c) == \E d \in Captures \ {c} : pc[d] \in Statements

StartPersist(c, h) ==
  /\ handle' = [handle EXCEPT ![c] = h]
  /\ left' = [left EXCEPT ![c] = Len(h.scores)]
  /\ pc' = [pc EXCEPT ![c] = "delete"]
  /\ last' = c
  /\ overlapped' = (overlapped \/ Busy(c))
  /\ UNCHANGED swallowed

\* The stream is opened: it brings the events from now on.
OpenTee(c) ==
  /\ c \in Tees
  /\ pc[c] = "idle"
  /\ pc' = [pc EXCEPT ![c] = "open"]
  /\ from' = [from EXCEPT ![c] = Len(history)]
  /\ read' = [read EXCEPT ![c] = Len(history)]
  /\ UNCHANGED <<history, handle, left, dbVars, pastVars>>

\* An event is observed and passed on; an observation that raises is swallowed, with what
\* it has changed before.
TeeEvent(c) ==
  LET i == read[c] + 1 IN
  /\ c \in Tees
  /\ pc[c] = "open"
  /\ read[c] < Len(history)
  /\ read' = [read EXCEPT ![c] = i]
  /\ \/ /\ handle' = [handle EXCEPT ![c] = ObserveEvent(@, history[i], i)]
        /\ UNCHANGED swallowed
     \/ /\ \/ UNCHANGED handle
           \/ handle' = [handle EXCEPT ![c] = ObserveHalfway(@, history[i])]
        /\ swallowed' = swallowed \cup {c}
  /\ UNCHANGED <<history, pc, from, left, dbVars, last, overlapped>>

\* The stream ends or raises, or its consumer closes it, at whatever event it is:
\* finish, and fire _persist.
CloseTee(c, raised) ==
  /\ c \in Tees
  /\ pc[c] = "open"
  /\ StartPersist(c, FinishCma(handle[c], raised))
  /\ UNCHANGED <<history, from, read, dbVars>>

\* The whole history is listed and observed, then persisted.
Ingest(c) ==
  /\ c \in Ingests
  /\ pc[c] = "idle"
  /\ read' = [read EXCEPT ![c] = Len(history)]
  /\ StartPersist(c, FinishCma(ObserveEvents(history, Len(history)), FALSE))
  /\ UNCHANGED <<history, from, dbVars>>

-----------------------------------------------------------------------------
(* _persist                                                                *)

\* Mutated form: no DELETE before the steps are inserted again.
StepRowsDeletedNot(c) == stepRows

\* `DELETE FROM stressless.steps WHERE run_id = $1`, whoever inserted them.
StepRowsDeleted(c) == [d \in Captures |-> 0]

DeleteSteps(c) ==
  /\ pc[c] = "delete"
  /\ stepRows' = StepRowsDeleted(c)
  /\ pc' = [pc EXCEPT ![c] = "update"]
  /\ UNCHANGED <<history, from, read, handle, left, row, scoreRows, pastVars>>

AfterSteps(c) == IF left[c] > 0 THEN "scores" ELSE "done"
AfterRow(c) == IF handle[c].steps # <<>> THEN "steps" ELSE AfterSteps(c)

Given(c) == IF c \in HasModel THEN c ELSE None

\* Mutated form: a capture that does not know the model forgets it.
RowUpdatedWhole(c) == [row EXCEPT !.model = Given(c), !.rest = c]

\* _RUN_UPDATE: `model = COALESCE($3, model)`.
RowUpdated(c) ==
  [row EXCEPT !.model = IF c \in HasModel THEN c ELSE @, !.rest = c]

\* finalize_run: the update of a row that is there, whichever capture wrote it.
UpdateRow(c) ==
  /\ pc[c] = "update"
  /\ row' = IF row = None THEN None ELSE RowUpdated(c)
  /\ pc' = [pc EXCEPT ![c] = IF row = None THEN "upsert" ELSE AfterRow(c)]
  /\ UNCHANGED <<history, from, read, handle, left, stepRows, scoreRows, pastVars>>

\* finalize_run: the upsert, which overwrites the model and the rest of a row that another
\* capture has inserted meanwhile.
UpsertRow(c) ==
  /\ pc[c] = "upsert"
  /\ row' = [identity |-> IF row = None THEN c ELSE row.identity,
             model |-> Given(c), rest |-> c]
  /\ pc' = [pc EXCEPT ![c] = AfterRow(c)]
  /\ UNCHANGED <<history, from, read, handle, left, stepRows, scoreRows, pastVars>>

InsertSteps(c) ==
  /\ pc[c] = "steps"
  /\ stepRows' = [stepRows EXCEPT ![c] = @ + 1]
  /\ pc' = [pc EXCEPT ![c] = AfterSteps(c)]
  /\ UNCHANGED <<history, from, read, handle, left, row, scoreRows, pastVars>>

\* Mutated form: one score too many.
AfterScoreOneMore(c) == IF left[c] >= 1 THEN "scores" ELSE "done"

AfterScore(c) == IF left[c] > 1 THEN "scores" ELSE "done"

\* One INSERT per score.
InsertScore(c) ==
  /\ pc[c] = "scores"
  /\ scoreRows' = [scoreRows EXCEPT ![c] = @ + 1]
  /\ left' = [left EXCEPT ![c] = @ - 1]
  /\ pc' = [pc EXCEPT ![c] = AfterScore(c)]
  /\ UNCHANGED <<history, from, read, handle, row, stepRows, pastVars>>

\* A statement or the pool fails, or the process ends: the rest of _persist is gone.
Drop(c) ==
  /\ pc[c] \in Statements
  /\ pc' = [pc EXCEPT ![c] = "dropped"]
  /\ UNCHANGED <<history, from, read, handle, left, dbVars, pastVars>>

-----------------------------------------------------------------------------
CaptureStep(c) ==
  \/ OpenTee(c) \/ TeeEvent(c) \/ Ingest(c)
  \/ \E raised \in BOOLEAN : CloseTee(c, raised)
PersistStep(c) ==
  \/ DeleteSteps(c) \/ UpdateRow(c) \/ UpsertRow(c) \/ InsertSteps(c) \/ InsertScore(c)
  \/ Drop(c)

Next ==
  \/ \E e \in Events : Happen(e)
  \/ \E c \in Captures : CaptureStep(c) \/ PersistStep(c)

Spec == Init /\ [][Next]_vars

-----------------------------------------------------------------------------
(* What the captures achieve.                                              *)

\* The steps in the table are those of one capture, each once.
StepsOfOne ==
  /\ \A c \in Captures : stepRows[c] <= 1
  /\ \A c, d \in Captures : stepRows[c] > 0 /\ stepRows[d] > 0 => c = d

\* The tables are as c leaves them: the row has its columns, the steps are its own.
WholeTables(c) ==
  /\ row # None /\ row.rest = c
  /\ \A d \in Captures : stepRows[d] = IF d = c /\ handle[c].steps # <<>> THEN 1 ELSE 0

\* Captures whose _persists do not overlap replace one another whole, also one that was
\* dropped halfway: the steps are never two captures', and when the last _persist is done
\* the steps and the columns of the row are that capture's. Only the model is older when
\* that capture does not know it, and it is never forgotten. Captures that overlap can leave
\* the steps of both ("rather than duplicate", cma.py:10, does not hold of them), and the
\* scores of every capture stay.
SerialPersistsReplace ==
  ~overlapped =>
    /\ StepsOfOne
    /\ last # None /\ pc[last] = "done" => WholeTables(last)
    /\ (\E c \in HasModel : pc[c] = "done") => row # None /\ row.model \in HasModel

\* Why it holds: as long as no two _persists overlapped, only the last to begin is at its
\* statements, and how far it is says what is in the tables.
PersistInv ==
  /\ \A c \in Captures : pc[c] \notin {"idle", "open"} => last # None
  /\ last # None => pc[last] \notin {"idle", "open"}
  /\ ~overlapped =>
       /\ StepsOfOne
       /\ \A c \in Captures : pc[c] \in Statements => c = last
       /\ \A c \in Captures : pc[c] \in {"update", "upsert", "steps"} =>
            \A d \in Captures : stepRows[d] = 0
       /\ \A c \in Captures : pc[c] = "upsert" => row = None
       /\ \A c \in Captures : pc[c] = "steps" =>
            row # None /\ row.rest = c /\ handle[c].steps # <<>>
       /\ last # None /\ pc[last] \in {"scores", "done"} => WholeTables(last)
       /\ \A c \in HasModel : pc[c] \in {"steps", "scores", "done"} =>
            row # None /\ row.model \in HasModel

\* The pending calls are the calls without an answer, in their order, whatever observation
\* raised halfway. The error counts of the tracecard agree with the error steps of a capture
\* for which none raised, and never exceed them.
PendingAreUnanswered ==
  \A c \in Captures :
    LET h == handle[c]
        open == {i \in DOMAIN h.steps : h.steps[i].id # None /\ h.steps[i].answer = <<>>}
        errors == Cardinality({i \in DOMAIN h.steps : h.steps[i].err})
    IN /\ ToSet(h.pending) = open /\ Len(h.pending) = Cardinality(open)
       /\ \A k \in 2..Len(h.pending) : h.pending[k - 1] < h.pending[k]
       /\ h.errors <= errors
       /\ c \notin swallowed => h.errors = errors

\* The event at j is the first result, of those after the first f events, for a call that
\* came before it and after them.
FirstResult(events, f, j) ==
  /\ \E i \in f + 1..j - 1 : events[i].ev = "call" /\ events[i].id = events[j].link
  /\ \A i \in f + 1..j - 1 : events[i].ev = "result" => events[i].link # events[j].link

\* Of the events after the first f up to the n-th, no result is stray: without a link, for
\* a call before them, or for a call that has its result.
NoStrayResult(events, f, n) ==
  \A j \in f + 1..n : events[j].ev = "result" => FirstResult(events, f, j)

\* Until a stray result comes, which goes to the oldest pending call, a capture that lost
\* no event gives every result to its own call, also a tee that joined late.
ResultsFindTheirCalls ==
  \A c \in Captures : c \notin swallowed /\ NoStrayResult(history, from[c], read[c]) =>
    \A i \in DOMAIN handle[c].steps :
      LET s == handle[c].steps[i] IN s.answer # <<>> => s.answer = <<s.id>>
=============================================================================
