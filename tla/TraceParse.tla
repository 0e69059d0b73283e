----------------------------- MODULE TraceParse -----------------------------
(***************************************************************************)
(* parse_trace_file of stressless/backfill.py: the runs it reads out of    *)
(* the lines of a trace.                                                   *)
(*                                                                         *)
(* A line is a record with the item it is about (ref) and an ev:           *)
(*   "start" with a flow      item_start, structured_agent_start           *)
(*   "end" with a flow and a status   item_stream_complete, item_error,    *)
(*                            structured_agent_complete, ..._timeout       *)
(*   "message"                an sdk_message with a tool call or result    *)
(*   "executor" with an outcome       executor_complete                    *)
(*   "call" with a key        enrich_*_llm_start, lens and dashboard start *)
(*   "done" with a key and a status   their done and error events          *)
(*   "other"                  what the parser skips                        *)
(*                                                                         *)
(* Lines have time stamps of their own. A run id is a hash of the file,    *)
(* the item, the kind and one time stamp: it is modelled by the number of  *)
(* the line the time stamp is taken from.                                  *)
(***************************************************************************)
EXTENDS Naturals, SequencesExt

CONSTANTS
  Refs,   \* raw_item_id
  Keys,   \* the step of an enrich call, the session of a lens or dashboard
  None    \* no outcome

Flows == {"item", "structured"}
Statuses == {"succeeded", "failed", "timeout"}

\* What the lines carry that the parser reads.
Legible(e) ==
  /\ e.ev # "other" => e.ref \in Refs
  /\ e.ev \in {"start", "end"} => e.flow \in Flows
  /\ e.ev \in {"call", "done"} => e.key \in Keys
  /\ e.ev \in {"end", "done"} => e.status \in Statuses

\* The parser's dictionaries, and what it has put into `runs`. An open run is <<run>>.
NewParser ==
  [open |-> [f \in Flows |-> [x \in Refs |-> <<>>]],     \* open_items, open_structured
   calls |-> [x \in Refs |-> [k \in Keys |-> 0]],        \* open_subcalls, open_surface
   executor |-> [x \in Refs |-> None],                   \* executor_status
   runs |-> <<>>]

Run(i, ref, flow, status) ==
  [id |-> i, ref |-> ref, flow |-> flow, status |-> status, steps |-> 0, outcome |-> None]

\* A start replaces the open run of its item, which is forgotten.
StartLine(p, e, i) ==
  [p EXCEPT !.open[e.flow][e.ref] = <<Run(i, e.ref, e.flow, "succeeded")>>]

\* A tool call or result is a step of the item flow's open run.
MessageLine(p, e) ==
  IF p.open["item"][e.ref] = <<>> THEN p
  ELSE [p EXCEPT !.open["item"][e.ref][1].steps = @ + 1]

\* _close
Closed(run, status) == [run EXCEPT !.status = status]

\* structured_agent_complete pops the outcome that came before it.
TakesOutcome(e) == e.flow = "structured" /\ e.status = "succeeded"
ExecutorAfterEnd(p, e) ==
  IF TakesOutcome(e) THEN [p.executor EXCEPT ![e.ref] = None] ELSE p.executor

EndLine(p, e) ==
  IF p.open[e.flow][e.ref] = <<>> THEN p
  ELSE LET run == p.open[e.flow][e.ref][1]
           closed == [Closed(run, e.status) EXCEPT
                        !.outcome = IF TakesOutcome(e) THEN p.executor[e.ref] ELSE @]
       IN [p EXCEPT !.open[e.flow][e.ref] = <<>>,
                    !.executor = ExecutorAfterEnd(p, e),
                    !.runs = Append(@, closed)]

\* Mutated form: the closed runs of the item, calls included.
ClosedItemsAndCalls(p, ref) == {k \in DOMAIN p.runs : p.runs[k].ref = ref}

\* The closed runs of the item flows, of which the last is stamped.
ClosedItems(p, ref) ==
  {k \in DOMAIN p.runs : p.runs[k].ref = ref /\ p.runs[k].flow \in Flows}

ExecutorLine(p, e) ==
  LET kept == [p EXCEPT !.executor[e.ref] = e.outcome]
  IN IF ClosedItems(p, e.ref) = {} THEN kept
     ELSE [kept EXCEPT !.runs[Max(ClosedItems(p, e.ref))].outcome = e.outcome]

CallLine(p, e, i) == [p EXCEPT !.calls[e.ref][e.key] = i]

\* Mutated form: an answer without a start has no time stamp.
CallIdOfStart(p, e, i) == p.calls[e.ref][e.key]

\* Mutated form: the start is read and stays for the next answer.
CallsAfterDoneKept(p, e) == p.calls

CallsAfterDone(p, e) == [p.calls EXCEPT ![e.ref][e.key] = 0]

\* An answer without a start is a run of its own, under its own time stamp.
CallId(p, e, i) == IF p.calls[e.ref][e.key] = 0 THEN i ELSE p.calls[e.ref][e.key]

DoneLine(p, e, i) ==
  [p EXCEPT !.calls = CallsAfterDone(p, e),
            !.runs = Append(@, Run(CallId(p, e, i), e.ref, "call", e.status))]

ParseLine(p, e, i) ==
  CASE e.ev = "start"    -> StartLine(p, e, i)
    [] e.ev = "message"  -> MessageLine(p, e)
    [] e.ev = "end"      -> EndLine(p, e)
    [] e.ev = "executor" -> ExecutorLine(p, e)
    [] e.ev = "call"     -> CallLine(p, e, i)
    [] e.ev = "done"     -> DoneLine(p, e, i)
    [] OTHER -> p

\* The item flows' runs that are open at the end of the file; open calls are dropped.
Leftover(p) ==
  UNION {ToSet(p.open[f][x]) : f \in Flows, x \in Refs}

\* The parser after the first n lines.
Parsed(lines, n) ==
  LET after[i \in 0..n] ==
        IF i = 0 THEN NewParser ELSE ParseLine(after[i - 1], lines[i], i)
  IN  after[n]

\* The runs of the file, the closed ones first.
ParsedRuns(lines) ==
  LET p == Parsed(lines, Len(lines))
      failed == {Closed(run, "failed") : run \in Leftover(p)}
  IN p.runs \o SetToSeq(failed)

-----------------------------------------------------------------------------
(* What the runs of a trace are, said of its lines.                        *)

\* The lines after i that end, or start again, the flow that i starts.
Ends(lines, i) ==
  {j \in i + 1..Len(lines) : /\ lines[j].ref = lines[i].ref
                             /\ lines[j].ev \in {"start", "end"}
                             /\ lines[j].flow = lines[i].flow}

\* The first of them; the line after the last if there is none.
EndOf(lines, i) == Min(Ends(lines, i) \cup {Len(lines) + 1})

\* The starts that lead to a run: those whose flow does not start again before it ends.
Started(lines) ==
  {i \in DOMAIN lines :
     /\ lines[i].ev = "start"
     /\ EndOf(lines, i) \in DOMAIN lines => lines[EndOf(lines, i)].ev = "end"}

StatusOf(lines, i) ==
  IF EndOf(lines, i) \in DOMAIN lines THEN lines[EndOf(lines, i)].status ELSE "failed"

\* The tool messages between the start of an item flow and its end.
MessagesOf(lines, i) ==
  {j \in i + 1..EndOf(lines, i) - 1 :
     /\ lines[i].flow = "item"
     /\ lines[j].ev = "message"
     /\ lines[j].ref = lines[i].ref}

\* The calls and answers of a key before line j.
CallsBefore(lines, ref, key, j) ==
  {i \in 1..j - 1 : /\ lines[i].ev \in {"call", "done"}
                    /\ lines[i].ref = ref
                    /\ lines[i].key = key}

\* The last call line before j that no answer took, 0 if there is none.
CallBefore(lines, ref, key, j) ==
  LET S == CallsBefore(lines, ref, key, j)
  IN  IF S # {} /\ lines[Max(S)].ev = "call" THEN Max(S) ELSE 0

\* The call line of an answer, or the answer itself.
CallOf(lines, j) ==
  LET call == CallBefore(lines, lines[j].ref, lines[j].key, j)
  IN  IF call = 0 THEN j ELSE call

Answers(lines) == {j \in DOMAIN lines : lines[j].ev = "done"}

\* The run a start leads to, with the status of its end and the steps in between.
FlowRun(lines, i) ==
  [id |-> i, ref |-> lines[i].ref, flow |-> lines[i].flow, status |-> StatusOf(lines, i),
   steps |-> Cardinality(MessagesOf(lines, i)), outcome |-> None]

\* The run of an answer.
AnswerRun(lines, j) ==
  [id |-> CallOf(lines, j), ref |-> lines[j].ref, flow |-> "call",
   status |-> lines[j].status, steps |-> 0, outcome |-> None]

\* A run but for its outcome.
Unstamped(run) == [run EXCEPT !.outcome = None]

\* Every start that is not started again leads to one run, and every answer to one;
\* their outcomes left aside.
RunsOf(lines) ==
  {FlowRun(lines, i) : i \in Started(lines)} \cup {AnswerRun(lines, j) : j \in Answers(lines)}

ExecutorLines(lines, ref) == {k \in DOMAIN lines : lines[k].ev = "executor" /\ lines[k].ref = ref}

\* The starts of an item whose run ended before line k.
EndedBefore(lines, ref, k) ==
  {i \in Started(lines) : lines[i].ref = ref /\ EndOf(lines, i) < k}

=============================================================================
