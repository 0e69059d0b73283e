----------------------------- MODULE RunHandle -----------------------------
(***************************************************************************)
(* RunHandle of stressless/collector.py as a value: the record of one      *)
(* logical run, what observing a message makes of it, and what finish()    *)
(* makes of it. Collector holds one such record per run and per stream.    *)
(*                                                                         *)
(* A message is a record                                                   *)
(*   [kind |-> "blocks", blocks |-> <<...>>]       assistant, user         *)
(*   [kind |-> "result", subtype, cost, estimate]  the end of one query    *)
(*   [kind |-> "other"]                            ignored                 *)
(* and a block is [block |-> "tool_use", id, name],                        *)
(* [block |-> "tool_result", id, err], [block |-> "thinking"] or           *)
(* [block |-> "text"], which is a text that is not blank. Of the payloads, *)
(* sizes, tokens and times nothing is kept; of the prices, what the        *)
(* message reports and what pricing makes of its tokens.                   *)
(***************************************************************************)
EXTENDS Naturals, SequencesExt

CONSTANTS
  Names,    \* tool names
  Ids,      \* tool_use ids
  Unknown,  \* "?": the name of a call without one, and of an unmatched result
  None,     \* Python's None
  Budget    \* budget_usd of every run, 0 when there is none

ASSUME HandleConstants ==
  /\ Unknown \in Names
  /\ None \notin Names \cup Ids \cup Nat
  /\ Budget \in Nat

Statuses == {"running", "succeeded", "failed", "timeout", "budget_exceeded"}

NewHandle ==
  [status |-> "running", finished |-> FALSE, subtype |-> None,
   steps |-> <<>>,                        \* [kind, name, id, answered, err]
   pending |-> [i \in Ids |-> 0],         \* the step waiting for the id's result, 0 if none
   calls |-> [n \in Names |-> 0],         \* _tool_counts[n][0]
   errors |-> [n \in Names |-> 0],        \* _tool_counts[n][1]
   errorFlags |-> {},                     \* the names n of the flags tool_error:n
   cost |-> None, estimated |-> FALSE, nearBudget |-> FALSE]

Step(kind, name, id, err) ==
  [kind |-> kind, name |-> name, id |-> id, answered |-> FALSE, err |-> err]

\* The blocks there are.
BlockRecords ==
  [block : {"tool_use"}, id : Ids \cup {None}, name : Names]
    \cup [block : {"tool_result"}, id : Ids \cup {None}, err : BOOLEAN]
    \cup [block : {"text", "thinking"}]

-----------------------------------------------------------------------------
(* _observe_block                                                          *)

\* Mutated form: the first call keeps the id (setdefault instead of assignment).
PendingAfterCallKeepsFirst(h, id) ==
  IF id = None \/ h.pending[id] # 0 THEN h.pending
  ELSE [h.pending EXCEPT ![id] = Len(h.steps) + 1]

\* A call is remembered under its id; a later call with the id takes its place.
PendingAfterCall(h, id) ==
  IF id = None THEN h.pending ELSE [h.pending EXCEPT ![id] = Len(h.steps) + 1]

ObserveCall(h, b) ==
  [h EXCEPT !.steps = Append(@, Step("tool", b.name, b.id, FALSE)),
            !.pending = PendingAfterCall(h, b.id),
            !.calls[b.name] = @ + 1]

\* Mutated form: the call is looked up and stays pending (get instead of pop).
PendingAfterResultKeeps(h, id) == h.pending

\* The result takes the pending call of its id.
PendingAfterResult(h, id) ==
  IF id = None THEN h.pending ELSE [h.pending EXCEPT ![id] = 0]

\* A result without a pending call becomes a step of its own, under no name; its error
\* counts for "?".
ObserveToolResult(h, b) ==
  LET i == IF b.id = None THEN 0 ELSE h.pending[b.id]
      name == IF i = 0 THEN Unknown ELSE h.steps[i].name
  IN [h EXCEPT
        !.steps = IF i = 0 THEN Append(@, Step("tool_result", None, b.id, b.err))
                  ELSE [@ EXCEPT ![i].answered = TRUE, ![i].err = b.err],
        !.pending = PendingAfterResult(h, b.id),
        !.errors[name] = IF b.err THEN @ + 1 ELSE @,
        !.errorFlags = IF b.err THEN @ \cup {name} ELSE @]

ObserveBlock(h, b) ==
  CASE b.block = "tool_use"    -> ObserveCall(h, b)
    [] b.block = "tool_result" -> ObserveToolResult(h, b)
    [] OTHER -> [h EXCEPT !.steps = Append(@, Step(b.block, None, None, FALSE))]

\* The first k blocks, one after the other.
ObserveBlocks(h, blocks, k) ==
  LET after[i \in 0..k] == IF i = 0 THEN h ELSE ObserveBlock(after[i - 1], blocks[i])
  IN  after[k]

-----------------------------------------------------------------------------
(* _apply_result and observe_message                                       *)

\* The result's cost replaces what the handle had: the reported one, else the estimate;
\* without either the handle keeps what it had.
ApplyCost(h, m) ==
  IF m.cost # None THEN [h EXCEPT !.cost = m.cost, !.estimated = FALSE]
  ELSE IF m.estimate # None THEN [h EXCEPT !.cost = m.estimate, !.estimated = TRUE]
  ELSE h

ApplySubtype(h, m) == IF m.subtype = None THEN h ELSE [h EXCEPT !.subtype = m.subtype]

\* observe_message may raise halfway; the caller swallows it. A message is observed in
\* parts, its blocks or the two halves of a result, and the first k are done.
Parts(m) == CASE m.kind = "blocks" -> Len(m.blocks)
              [] m.kind = "result" -> 2
              [] OTHER -> 0

ObserveParts(h, m, k) ==
  CASE m.kind = "blocks" -> ObserveBlocks(h, m.blocks, k)
    [] m.kind = "result" /\ k = 1 -> ApplySubtype(h, m)
    [] m.kind = "result" /\ k = 2 -> ApplyCost(ApplySubtype(h, m), m)
    [] OTHER -> h

-----------------------------------------------------------------------------
(* finish                                                                  *)

\* Mutated form: a subtype outside the table gives no status.
StatusOfSubtypeBare(s) ==
  CASE s = None -> "succeeded" [] s = "success" -> "succeeded"
    [] s = "error_max_turns" -> "timeout"
    [] s = "error_max_budget_usd" -> "budget_exceeded"
    [] OTHER -> None

\* _STATUS_BY_SUBTYPE; a run without any result has succeeded.
StatusOfSubtype(s) ==
  CASE s = None -> "succeeded" [] s = "success" -> "succeeded"
    [] s = "error_max_turns" -> "timeout"
    [] s = "error_max_budget_usd" -> "budget_exceeded"
    [] OTHER -> "failed"

\* What is decided at the end: the status, and the near_budget flag from the cost the
\* handle has then. `raised` is error is not None.
FinishedHandle(h, raised) ==
  [h EXCEPT !.finished = TRUE,
            !.status = IF raised THEN "failed" ELSE StatusOfSubtype(h.subtype),
            !.nearBudget = /\ Budget > 0
                           /\ h.cost \notin {None, 0}
                           /\ 10 * h.cost >= 8 * Budget]

\* The first finish() decides, a second one returns at once.
Finish(h, raised) == IF h.finished THEN h ELSE FinishedHandle(h, raised)
=============================================================================
