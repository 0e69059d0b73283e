---------------------------- MODULE MCCollector ----------------------------
(***************************************************************************)
(* Collector with two tasks, two runs that nest and are inherited, and two *)
(* streams, whose messages meet in one handle or not.                      *)
(***************************************************************************)
EXTENDS Collector

CONSTANTS t1, t2, r1, r2, q1, q2, i1, bash, unnamed

Blocks(bs) == [kind |-> "blocks", blocks |-> bs]
Call(id, name) == [block |-> "tool_use", id |-> id, name |-> name]
Answer(id, err) == [block |-> "tool_result", id |-> id, err |-> err]
Result(subtype, cost, estimate) ==
  [kind |-> "result", subtype |-> subtype, cost |-> cost, estimate |-> estimate]

\* Calls and answers with one id, with and without a name, and results that say the query
\* ended well or badly. An observation that raises halfway leaves a call without its answer.
Dialogue == {Blocks(<<Call(i1, bash), Answer(i1, TRUE)>>),
             Blocks(<<Answer(i1, TRUE), Call(i1, unnamed)>>),
             Result("success", 1, None), Result("error_during_execution", None, 3)}

\* Runs are alike, and so are streams.
Symmetry == Permutations(Runs) \cup Permutations(Streams)
=============================================================================
