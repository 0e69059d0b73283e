----------------------------- MODULE CmaHandle -----------------------------
(***************************************************************************)
(* CMASessionHandle of stressless/cma.py as a value: what observing the    *)
(* events of a managed-agent session makes of it.                          *)
(*                                                                         *)
(* An event is [ev |-> "call", id], [ev |-> "result", link, err],          *)
(* [ev |-> "message"] (with a text that is not blank), [ev |-> "grade"],   *)
(* [ev |-> "error"], [ev |-> "stop", type] (session.status_idle, with its  *)
(* stop_reason's type or None, or session.status_terminated) or            *)
(* [ev |-> "other"]. The type of a terminated session is "terminated".     *)
(***************************************************************************)
EXTENDS Naturals, SequencesExt

CONSTANTS
  CallIds,   \* the ids of tool uses
  None       \* no link, no stop reason

ASSUME CmaHandleConstants == None \notin CallIds

\* What the events carry that the handle reads.
WellFormed(e) ==
  /\ e.ev = "call" => e.id \in CallIds
  /\ e.ev = "result" => e.link \in CallIds \cup {None} /\ e.err \in BOOLEAN

NewCmaHandle ==
  [status |-> "running", finished |-> FALSE, subtype |-> None, error |-> FALSE,
   steps |-> <<>>,      \* [event, id, answer, err]: answer is <<>> or <<the result's link>>
   pending |-> <<>>,    \* the indexes of the calls without a result, in their order
   errors |-> 0,        \* the sum of _tool_counts[name][1]
   scores |-> <<>>]     \* the events of the outcome grader

CmaStep(i, id) == [event |-> i, id |-> id, answer |-> <<>>, err |-> FALSE]

\* The result's own call if it is pending, else the oldest pending call, else none.
Linked(h, e) == {k \in DOMAIN h.pending : e.link # None /\ h.steps[h.pending[k]].id = e.link}

\* Mutated form: first in, first out, whatever the link says.
AnsweredCallOldest(h, e) == IF h.pending = <<>> THEN 0 ELSE 1

AnsweredCall(h, e) ==
  IF Linked(h, e) # {} THEN CHOOSE k \in Linked(h, e) : \A l \in Linked(h, e) : k <= l
  ELSE IF h.pending = <<>> THEN 0 ELSE 1

\* Mutated form: the answered call stays in the list.
PendingWithoutKept(h, k) == h.pending

\* `self._pending_tools.remove(step)`
PendingWithout(h, k) == RemoveAt(h.pending, k)

\* The k-th pending call has its result.
AnswerCall(h, e, k) ==
  [h EXCEPT !.steps = [@ EXCEPT ![h.pending[k]].answer = <<e.link>>,
                                ![h.pending[k]].err = e.err],
            !.pending = PendingWithout(h, k)]

\* A result that finds no pending call leaves no trace, its error included.
ObserveCmaResult(h, e) ==
  LET k == AnsweredCall(h, e) IN
  IF k = 0 THEN h
  ELSE [AnswerCall(h, e, k) EXCEPT !.errors = IF e.err THEN @ + 1 ELSE @]

\* observe_event; i is the event's place in the session.
ObserveEvent(h, e, i) ==
  CASE e.ev = "call" -> [h EXCEPT !.steps = Append(@, CmaStep(i, e.id)),
                                  !.pending = Append(@, Len(h.steps) + 1)]
    [] e.ev = "result" -> ObserveCmaResult(h, e)
    [] e.ev = "message" -> [h EXCEPT !.steps = Append(@, CmaStep(i, None))]
    [] e.ev = "grade" -> [h EXCEPT !.scores = Append(@, i)]
    [] e.ev = "error" -> [h EXCEPT !.error = TRUE]
    [] e.ev = "stop" /\ e.type \notin {None, "requires_action"} ->
         [h EXCEPT !.subtype = e.type]
    [] OTHER -> h

\* observe_event when it raises: at once, or, for a result, when it takes the duration of
\* the answered call (of times with and without a zone), before the error is counted.
ObserveHalfway(h, e) ==
  LET k == IF e.ev = "result" THEN AnsweredCall(h, e) ELSE 0 IN
  IF k = 0 THEN h ELSE AnswerCall(h, e, k)

\* The first n events observed one after the other, as ingest_session does.
ObserveEvents(events, n) ==
  LET after[i \in 0..n] ==
        IF i = 0 THEN NewCmaHandle ELSE ObserveEvent(after[i - 1], events[i], i)
  IN  after[n]

\* finish: the handle's first end decides.
FinishCma(h, raised) ==
  IF h.finished THEN h
  ELSE [h EXCEPT !.finished = TRUE,
                 !.error = @ \/ raised,
                 !.status = IF raised \/ h.error
                                \/ h.subtype \in {"terminated", "retries_exhausted"}
                            THEN "failed" ELSE "succeeded"]
=============================================================================
