----------------------------- MODULE MCGrading -----------------------------
(***************************************************************************)
(* Grading on a few runs: p1 and p2 are captured prefilter calls, x1 to x4 *)
(* captured calls of a kind without a rubric, and w1 and w2 runs of the    *)
(* item processor, one of them a session that may be captured again.       *)
(***************************************************************************)
EXTENDS Grading

CONSTANTS p1, p2, x1, x2, x3, x4, w1, w2, s1, s2, j1, j2, bash

Work(from) == [kind |-> "item_processor", repair |-> FALSE, from |-> from]
Call(kind) == [kind |-> kind, repair |-> FALSE, from |-> "call"]

\* w1 is a session, w2 a live run.
AllFacts ==
  [r \in Runs |-> CASE r \in {p1, p2} -> Call("prefilter")
                    [] r \in {x1, x2, x3, x4} -> Call("lens")
                    [] r = w1 -> Work("session") [] r = w2 -> Work("live")]

Succeeded == [NullRow EXCEPT !.status = "succeeded"]
FailedRow == [NullRow EXCEPT !.status = "failed"]

\* The calls of wrap_anthropic run on Sonnet; p1 and the work fail.
AllRowForms ==
  [r \in Runs |-> CASE r = p1 -> {[FailedRow EXCEPT !.sonnet = TRUE, !.priced = TRUE]}
                    [] r \in {p2, x1, x2, x3, x4} ->
                         {[Succeeded EXCEPT !.sonnet = TRUE, !.priced = TRUE]}
                    [] r \in {w1, w2} -> {FailedRow}]

\* w1 loops, in two groups of calls.
AllStepForms == [r \in Runs |-> {IF r = w1 THEN [NoSteps EXCEPT !.loops = 2] ELSE NoSteps}]

AllCreated ==
  [r \in Runs |-> CASE r \in {p1, w1} -> 1 [] r \in {p2, w2} -> 2 [] r = x1 -> 3
                    [] r = x2 -> 4 [] r = x3 -> 5 [] r = x4 -> 6]

\* The cron's sweep has the longer window.
TwoWindows == [s \in Sweeps |-> IF s = s1 THEN 2 ELSE 1]
=============================================================================
