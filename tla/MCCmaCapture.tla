---------------------------- MODULE MCCmaCapture ----------------------------
(***************************************************************************)
(* CmaCapture with a tee and an ingest, on a session of a few events: two  *)
(* calls, their results, a grade, the ends of a turn.                      *)
(***************************************************************************)
EXTENDS CmaCapture

CONSTANTS e1, g1, i1, i2

CallEvents == [ev : {"call"}, id : CallIds]
ResultEvents == [ev : {"result"}, link : CallIds \cup {None}, err : {TRUE}]
SmallSession ==
  CallEvents \cup ResultEvents
    \cup {[ev |-> "grade"], [ev |-> "stop", type |-> "end_turn"]}
=============================================================================
