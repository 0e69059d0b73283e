----------------------------- MODULE Collector -----------------------------
(***************************************************************************)
(* The ambient run of stressless/collector.py: run() and tee_query_stream  *)
(* as a host uses them from several tasks.                                 *)
(*                                                                         *)
(* current_run is a context variable: each task has its own value, copied  *)
(* from the task that created it. run() sets it for its body and resets it *)
(* with the token; a tee reads it when its first message is asked for, and *)
(* attaches to that run for good, or opens an implicit run of its own. The *)
(* loop is single-threaded, so an action is what runs between two awaits   *)
(* or yields; the streams, the tasks and the bodies interleave between     *)
(* them, also within the end of a tee, which awaits the aclose() of the    *)
(* stream under it. What run() and the tee fire is modelled as far as the  *)
(* row: RunStore models the tasks that carry it to the database.           *)
(***************************************************************************)
EXTENDS RunHandle

CONSTANTS
  Tasks,        \* the host's tasks
  Main,         \* the first of them
  Runs,         \* calls of run()
  Streams,      \* calls of tee_query_stream
  Messages,     \* what a stream may produce
  MaxMessages   \* bound: messages per stream

Handles == Runs \cup Streams   \* a stream names its implicit run

ASSUME CollectorConstants ==
  /\ Main \in Tasks
  /\ Runs \cap Streams = {}
  /\ None \notin Handles \cup Tasks
  /\ MaxMessages \in Nat
  /\ \A m \in Messages : m.kind = "blocks" => m.blocks \in Seq(BlockRecords)

VARIABLES
  alive,      \* the tasks created so far
  ambient,    \* ambient[t]: current_run in t's context
  inherited,  \* inherited[t]: what t's context was created with
  bodies,     \* bodies[t]: the runs whose `async with` t has entered and not left
  token,      \* token[r]: what reset(token) puts back
  runPc,      \* runPc[r]: "idle", "open", "closed", or "unreset": reset() raised
  streamPc,   \* streamPc[q]: "idle", "open", "closing": the tee awaits aclose(), "closed",
              \* or "lost": that await was cancelled
  target,     \* target[q]: the handle the stream observes into
  handle,     \* handle[h]: the RunHandle
  row,        \* row[h]: the calls of finalize_run for h, as the handle each was given
  \* history, for the properties
  delivered,  \* delivered[q]: how many messages the stream passed on
  raised,     \* the handles whose body or stream raised; for a stream, its `error`
  tangled     \* the tasks that left a body while a later one of theirs was open

contextVars == <<alive, ambient, inherited, bodies, token>>
historyVars == <<delivered, raised, tangled>>
vars == <<alive, ambient, inherited, bodies, token, runPc, streamPc, target,
          handle, row, delivered, raised, tangled>>

Init ==
  /\ alive = {Main}
  /\ ambient = [t \in Tasks |-> None]
  /\ inherited = [t \in Tasks |-> None]
  /\ bodies = [t \in Tasks |-> <<>>]
  /\ token = [r \in Runs |-> None]
  /\ runPc = [r \in Runs |-> "idle"]
  /\ streamPc = [q \in Streams |-> "idle"]
  /\ target = [q \in Streams |-> None]
  /\ handle = [h \in Handles |-> NewHandle]
  /\ row = [h \in Handles |-> <<>>]
  /\ delivered = [q \in Streams |-> 0]
  /\ raised = {}
  /\ tangled = {}

-----------------------------------------------------------------------------
(* Tasks and run()                                                         *)

\* create_task copies the context.
Spawn(t, u) ==
  /\ t \in alive
  /\ u \notin alive
  /\ alive' = alive \cup {u}
  /\ ambient' = [ambient EXCEPT ![u] = ambient[t]]
  /\ inherited' = [inherited EXCEPT ![u] = ambient[t]]
  /\ UNCHANGED <<bodies, token, runPc, streamPc, target, handle, row, historyVars>>

\* Mutated form: what the task started with is put back, as if set() gave no token.
SavedAtStart(t) == inherited[t]

\* The old value, which set() returns in its token.
Saved(t) == ambient[t]

EnterRun(t, r) ==
  /\ t \in alive
  /\ runPc[r] = "idle"
  /\ runPc' = [runPc EXCEPT ![r] = "open"]
  /\ token' = [token EXCEPT ![r] = Saved(t)]
  /\ ambient' = [ambient EXCEPT ![t] = r]
  /\ bodies' = [bodies EXCEPT ![t] = Append(@, r)]
  /\ UNCHANGED <<alive, inherited, streamPc, target, handle, row, historyVars>>

\* Mutated form: run() sets None in its finally instead of resetting the token.
RestoredNone(t, r) == None

\* The ambient run of t after r's body.
Restored(t, r) == token[r]

\* finish_row and step_rows are built now, and handed to finalize_run.
Finalized(h, final) == [row EXCEPT ![h] = Append(@, final)]

\* t leaves the body of r, or an exception takes it out: finish with the error, reset,
\* finish again, finalize. r need not be the innermost body of t: an async generator
\* around a body can be closed inside a body that was entered later, and reset(token)
\* takes any token of this context.
ExitRun(t, r, exc) ==
  /\ \E i \in DOMAIN bodies[t] :
       /\ r = bodies[t][i]
       /\ bodies' = [bodies EXCEPT ![t] = RemoveAt(@, i)]
  /\ runPc' = [runPc EXCEPT ![r] = "closed"]
  /\ ambient' = [ambient EXCEPT ![t] = Restored(t, r)]
  /\ LET caught == IF exc THEN Finish(handle[r], TRUE) ELSE handle[r]
         final == Finish(caught, FALSE)
     IN /\ handle' = [handle EXCEPT ![r] = final]
        /\ row' = Finalized(r, final)
  /\ raised' = IF exc THEN raised \cup {r} ELSE raised
  /\ tangled' = IF r = Last(bodies[t]) THEN tangled ELSE tangled \cup {t}
  /\ UNCHANGED <<alive, inherited, token, streamPc, target, delivered>>

\* The body is left in another context than it was entered in, as when an async
\* generator around it is closed by the loop: reset(token) raises in the finally, so
\* the context stays as it was and nothing is finalized.
ExitRunElsewhere(t, r, exc) ==
  /\ \E u \in alive \ {t} : \E i \in DOMAIN bodies[u] :
       /\ r = bodies[u][i]
       /\ bodies' = [bodies EXCEPT ![u] = RemoveAt(@, i)]
  /\ t \in alive
  /\ runPc' = [runPc EXCEPT ![r] = "unreset"]
  /\ handle' = IF exc THEN [handle EXCEPT ![r] = Finish(@, TRUE)] ELSE handle
  /\ raised' = IF exc THEN raised \cup {r} ELSE raised
  /\ UNCHANGED <<alive, ambient, inherited, token, streamPc, target, row, delivered,
                 tangled>>

-----------------------------------------------------------------------------
(* tee_query_stream                                                        *)

\* The first message is asked for: attach to the ambient run, or open an implicit one.
OpenStream(t, q) ==
  /\ t \in alive
  /\ streamPc[q] = "idle"
  /\ streamPc' = [streamPc EXCEPT ![q] = "open"]
  /\ target' = [target EXCEPT ![q] = IF ambient[t] = None THEN q ELSE ambient[t]]
  /\ UNCHANGED <<contextVars, runPc, handle, row, historyVars>>

\* A message is observed, as far as the observation comes, and passed on either way.
Deliver(q, m, k) ==
  /\ streamPc[q] = "open"
  /\ delivered[q] < MaxMessages
  /\ delivered' = [delivered EXCEPT ![q] = @ + 1]
  /\ handle' = [handle EXCEPT ![target[q]] = ObserveParts(@, m, k)]
  /\ UNCHANGED <<contextVars, runPc, streamPc, target, row, raised, tangled>>

\* The stream is exhausted, raises, or is closed by its consumer (or by the loop, for a
\* consumer that broke off), and the tee awaits its aclose().
CloseStream(q, how) ==
  /\ streamPc[q] = "open"
  /\ streamPc' = [streamPc EXCEPT ![q] = "closing"]
  /\ raised' = IF how = "raise" THEN raised \cup {q} ELSE raised
  /\ UNCHANGED <<contextVars, runPc, target, handle, row, delivered, tangled>>

\* Mutated form: the tee finalizes the run it observed into, its own or not.
FinalizesStreamAttached(q) == TRUE

\* Only an implicit run ends with its stream, however the stream ends.
FinalizesStream(q) == target[q] = q

\* aclose() returned, or raised an exception, which is suppressed: an implicit run is
\* finished, as a failure only if the stream raised, and finalized.
FinishStream(q) ==
  /\ streamPc[q] = "closing"
  /\ streamPc' = [streamPc EXCEPT ![q] = "closed"]
  /\ IF FinalizesStream(q)
     THEN LET final == Finish(handle[target[q]], q \in raised)
          IN /\ handle' = [handle EXCEPT ![target[q]] = final]
             /\ row' = Finalized(target[q], final)
     ELSE UNCHANGED <<handle, row>>
  /\ UNCHANGED <<contextVars, runPc, target, historyVars>>

\* The await is cancelled: CancelledError is no Exception, passes suppress() and takes
\* the tee out before the finish.
LoseStream(q) ==
  /\ streamPc[q] = "closing"
  /\ streamPc' = [streamPc EXCEPT ![q] = "lost"]
  /\ UNCHANGED <<contextVars, runPc, target, handle, row, historyVars>>

-----------------------------------------------------------------------------
TaskStep(t) ==
  \/ \E u \in Tasks : Spawn(t, u)
  \/ \E r \in Runs : \/ EnterRun(t, r)
                     \/ \E exc \in BOOLEAN : ExitRun(t, r, exc) \/ ExitRunElsewhere(t, r, exc)
  \/ \E q \in Streams : OpenStream(t, q)

StreamStep(q) ==
  \/ \E m \in Messages : \E k \in 0..Parts(m) : Deliver(q, m, k)
  \/ \E how \in {"exhausted", "raise", "aclose"} : CloseStream(q, how)
  \/ FinishStream(q)
  \/ LoseStream(q)

Next ==
  \/ \E t \in Tasks : TaskStep(t)
  \/ \E q \in Streams : StreamStep(q)

Spec == Init /\ [][Next]_vars

-----------------------------------------------------------------------------
(* What the collector achieves.                                            *)

StepRecords == [kind : {"tool", "tool_result", "text", "thinking"},
                name : Names \cup {None}, id : Ids \cup {None},
                answered : BOOLEAN, err : BOOLEAN]

TypeOK ==
  /\ alive \subseteq Tasks
  /\ ambient \in [Tasks -> Runs \cup {None}]
  /\ inherited \in [Tasks -> Runs \cup {None}]
  /\ \A t \in Tasks : ToSet(bodies[t]) \subseteq Runs
  /\ token \in [Runs -> Runs \cup {None}]
  /\ runPc \in [Runs -> {"idle", "open", "closed", "unreset"}]
  /\ streamPc \in [Streams -> {"idle", "open", "closing", "closed", "lost"}]
  /\ target \in [Streams -> Handles \cup {None}]
  /\ \A h \in Handles :
       /\ handle[h].status \in Statuses
       /\ ToSet(handle[h].steps) \subseteq StepRecords
       /\ handle[h].pending \in [Ids -> 0..Len(handle[h].steps)]
       /\ \A i \in DOMAIN row[h] : row[h][i].status \in Statuses \ {"running"}

\* What the i-th body of t was entered from, and what the task runs in when i - 1 bodies
\* are all it is in: the body around it, or what its context was created with.
Enclosing(t, i) == IF i = 1 THEN inherited[t] ELSE bodies[t][i - 1]

\* A run whose body was left in another context: no reset took it out of its own.
Unreset(h) == h # None /\ runPc[h] = "unreset"

\* What can be around t: its own bodies, what its context was created with, and runs
\* that are over, but no body of another task, unless t inherited it.
Around(t) ==
  ToSet(bodies[t]) \cup {inherited[t]} \cup {r \in Runs : runPc[r] \in {"closed", "unreset"}}

\* The ambient run of a task is the innermost body it is in, and outside of all bodies
\* what it inherited; the exceptions are a run that no reset took out, and a task that
\* left its bodies out of order, whose ambient run may be over but is never another's.
AmbientIsInnermost ==
  \A t \in Tasks :
    /\ ambient[t] \in Around(t)
    /\ t \notin tangled =>
         ambient[t] = Enclosing(t, Len(bodies[t]) + 1) \/ Unreset(ambient[t])

\* Why it holds, whatever leaves and in which task: the open bodies are one chain per
\* task, each run in one place, and each token leads to the body around it, or to a run
\* that no reset took out, as long as the task leaves its bodies in order.
ContextsChain ==
  /\ \A t \in Tasks \ alive : bodies[t] = <<>>
  /\ \A t \in Tasks : \A i \in DOMAIN bodies[t] :
       LET r == bodies[t][i] IN
       /\ runPc[r] = "open"
       /\ token[r] \in Around(t)
       /\ t \notin tangled => token[r] = Enclosing(t, i) \/ Unreset(token[r])
       /\ \A u \in Tasks : \A j \in DOMAIN bodies[u] :
            bodies[u][j] = r => u = t /\ j = i

\* A run whose body or stream raised is stored as failed, although finish() is called
\* again in the finally and a result may have said success.
RaisedIsFailed ==
  \A h \in raised : \A i \in DOMAIN row[h] : row[h][i].status = "failed"

\* Every run that was opened and has come to its end was finalized, once, by whichever
\* of the ways a stream or a body can end, save in another context or cancelled in
\* aclose(); and nothing that is open, or belongs to another run, was.
EndedIsFinalized ==
  /\ \A r \in Runs : Len(row[r]) = IF runPc[r] = "closed" THEN 1 ELSE 0
  /\ \A q \in Streams :
       Len(row[q]) = IF streamPc[q] = "closed" /\ target[q] = q THEN 1 ELSE 0

\* "Attaches to the ambient run() context when present; otherwise opens an implicit run so
\* no query goes unrecorded." (collector.py, lines 467-468): when a query and the body it
\* was attached to are over, the run was finalized, with all that the query delivered.
QueriesAreRecorded ==
  \A q \in Streams :
    LET h == target[q] IN
    streamPc[q] \in {"closed", "lost"} /\ ~(h \in Runs /\ runPc[h] = "open")
      => row[h] # <<>> /\ Last(row[h]) = handle[h]

\* The error counts of the tracecard and the error steps the rules count agree, in every
\* row and whatever results came twice, late, or for a call nobody made.
ErrorSteps(h) == {i \in DOMAIN h.steps : h.steps[i].err}
ErrorsNamed(h, n) ==
  {i \in ErrorSteps(h) : h.steps[i].name \in IF n = Unknown THEN {n, None} ELSE {n}}
ErrorsAddUp ==
  \A h \in Handles : \A n \in Names :
    /\ handle[h].errors[n] = Cardinality(ErrorsNamed(handle[h], n))
    /\ n \in handle[h].errorFlags <=> handle[h].errors[n] > 0

\* A result answers the latest call with its id: the pending step of an id has the id,
\* has no result yet, and no later call has the id.
PendingIsLatestCall ==
  \A h \in Handles : \A id \in Ids :
    LET i == handle[h].pending[id] IN
    i # 0 => /\ handle[h].steps[i].kind = "tool"
             /\ handle[h].steps[i].id = id
             /\ ~handle[h].steps[i].answered
             /\ \A j \in i + 1..Len(handle[h].steps) :
                  handle[h].steps[j].kind = "tool" => handle[h].steps[j].id # id
=============================================================================
