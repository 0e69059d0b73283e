----------------------------- MODULE MCBackfill -----------------------------
(***************************************************************************)
(* Backfill on small instances: traces of a few lines about one item, with *)
(* both flows, an executor and a call. The item has a status of its own in *)
(* raw_items.                                                              *)
(***************************************************************************)
EXTENDS Backfill

CONSTANTS x1, k1, done, refused, stored

RawStored == [x \in Refs |-> stored]

Start(f, x) == [ev |-> "start", flow |-> f, ref |-> x]
End(f, x, s) == [ev |-> "end", flow |-> f, ref |-> x, status |-> s]

ItemLines == {Start("item", x1), [ev |-> "message", ref |-> x1], End("item", x1, "failed")}
StructuredLines == {Start("structured", x1), End("structured", x1, "succeeded"),
                    End("structured", x1, "timeout"),
                    [ev |-> "executor", ref |-> x1, outcome |-> done],
                    [ev |-> "executor", ref |-> x1, outcome |-> refused]}
CallLines == {[ev |-> "call", ref |-> x1, key |-> k1],
              [ev |-> "done", ref |-> x1, key |-> k1, status |-> "succeeded"]}
AllLines == ItemLines \cup StructuredLines \cup CallLines
=============================================================================
