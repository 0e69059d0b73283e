--------------------------- MODULE BackfillProofs ---------------------------
(***************************************************************************)
(* What the parser finds in every trace, of any length and about any items *)
(* and keys, and what the imports keep, for every interleaving of the host *)
(* that writes, the imports, their failures and interruptions.             *)
(*                                                                         *)
(* The parser's invariant says what its dictionaries hold, in terms of the *)
(* lines read so far. A line appended to the trace changes the lines'      *)
(* reading in few places, and the parser's step is shown to follow it.     *)
(***************************************************************************)
EXTENDS Backfill, SequenceTheorems, FiniteSetTheorems, DataLemmas, TLAPS

-----------------------------------------------------------------------------
(* The outcomes, line by line: which executor line each run takes its      *)
(* outcome from. The properties say of them only what they are for.        *)

\* The executor lines that stamp the run of i: it is the item's last run that ended.
Stamps(L, i) ==
  {k \in EndOf(L, i) + 1..Len(L) :
     /\ L[k].ev = "executor" /\ L[k].ref = L[i].ref
     /\ \A s \in Started(L) : L[s].ref = L[i].ref =>
          EndOf(L, s) \notin EndOf(L, i) + 1..k - 1}

\* The executor lines of an item before line m that no structured run has taken since.
Untaken(L, ref, m) ==
  {k \in 1..m - 1 :
     /\ L[k].ev = "executor" /\ L[k].ref = ref
     /\ \A s \in Started(L) :
          L[s].ref = ref /\ EndOf(L, s) \in k + 1..m - 1
            => ~TakesOutcome(L[EndOf(L, s)])}

LastOutcome(L, S) == IF S = {} THEN None ELSE L[Max(S)].outcome

OutcomeOf(L, i) ==
  LET end == EndOf(L, i) IN
  IF Stamps(L, i) # {} THEN LastOutcome(L, Stamps(L, i))
  ELSE IF end \in DOMAIN L /\ TakesOutcome(L[end])
       THEN LastOutcome(L, Untaken(L, L[i].ref, end))
  ELSE None

\* The run a start leads to, with its outcome.
TakenRun(L, i) ==
  [id |-> i, ref |-> L[i].ref, flow |-> L[i].flow, status |-> StatusOf(L, i),
   steps |-> Cardinality(MessagesOf(L, i)), outcome |-> OutcomeOf(L, i)]

TakenRuns(L) ==
  {TakenRun(L, i) : i \in Started(L)}
    \cup {AnswerRun(L, j) : j \in Answers(L)}

-----------------------------------------------------------------------------
(* The trace and a line more.                                              *)

\* M is the trace L with one more line e.
Grown(L, e, M) ==
  /\ L \in Seq(Lines) /\ M \in Seq(Lines) /\ e \in Lines /\ Legible(e)
  /\ Len(L) \in Nat
  /\ Len(M) = Len(L) + 1
  /\ DOMAIN L = 1..Len(L)
  /\ DOMAIN M = 1..Len(L) + 1
  /\ \A i \in 1..Len(L) : M[i] = L[i] /\ L[i] \in Lines /\ Legible(L[i])
  /\ M[Len(L) + 1] = e

\* Line e ends, or starts again, the flow that line l starts.
Closing(e, l) == e.ref = l.ref /\ e.ev \in {"start", "end"} /\ e.flow = l.flow

\* A line appended makes a grown trace.
LEMMA AppendedLine ==
  ASSUME NEW L \in Seq(Lines), NEW e \in Lines
  PROVE  Grown(L, e, Append(L, e))
<1>1. /\ Append(L, e) \in Seq(Lines)
      /\ Len(Append(L, e)) = Len(L) + 1
      /\ \A i \in 1..Len(L) : Append(L, e)[i] = L[i]
      /\ Append(L, e)[Len(L) + 1] = e
  BY AppendProperties
<1>2. Len(L) \in Nat /\ DOMAIN L = 1..Len(L) /\ \A i \in 1..Len(L) : L[i] \in Lines
  BY LenProperties, ElementOfSeq
<1>3. DOMAIN Append(L, e) = 1..Len(L) + 1
  BY <1>1, LenProperties
<1>4. \A l \in Lines : Legible(l)
  BY BackfillConstants
<1> QED
  BY <1>1, <1>2, <1>3, <1>4 DEF Grown

-----------------------------------------------------------------------------
(* Where a flow ends.                                                      *)

\* The end of a flow is the first line that ends it, or that after the last.
LEMMA EndOfIsFirst ==
  ASSUME NEW L, Len(L) \in Nat, NEW i \in 1..Len(L)
  PROVE  /\ EndOf(L, i) \in i + 1..Len(L) + 1
         /\ EndOf(L, i) \in 1..Len(L) => EndOf(L, i) \in Ends(L, i)
         /\ \A j \in Ends(L, i) : EndOf(L, i) <= j
<1> DEFINE S == Ends(L, i) \cup {Len(L) + 1}
<1>1. S \in SUBSET Nat /\ S # {} /\ S \subseteq i + 1..Len(L) + 1
  BY DEF Ends
<1>2. EndOf(L, i) \in S /\ \A j \in S : EndOf(L, i) <= j
  <2> HIDE DEF S
  <2>1. Min(S) \in S /\ \A j \in S : Min(S) <= j
    BY <1>1, MinOfSet
  <2> QED
    BY <2>1 DEF EndOf, S
<1> QED
  BY <1>1, <1>2

\* The end of a flow, by what it is.
LEMMA EndOfIs ==
  ASSUME NEW L, Len(L) \in Nat, NEW i \in 1..Len(L),
         NEW E \in Ends(L, i) \cup {Len(L) + 1}, \A j \in Ends(L, i) : E <= j
  PROVE  EndOf(L, i) = E
<1> DEFINE S == Ends(L, i) \cup {Len(L) + 1}
<1>1. S \in SUBSET Nat /\ E \in S /\ \A j \in S : E <= j
  BY DEF Ends
<1> HIDE DEF S
<1>2. Min(S) = E
  BY <1>1, MinIs
<1> QED
  BY <1>2 DEF EndOf, S

\* A new line ends the flows that no line ended before, of those it closes.
LEMMA EndOfGrows ==
  ASSUME NEW L, NEW e, NEW M, Grown(L, e, M), NEW i \in 1..Len(L)
  PROVE  /\ EndOf(L, i) <= Len(L) => EndOf(M, i) = EndOf(L, i)
         /\ EndOf(L, i) = Len(L) + 1 /\ Closing(e, L[i]) => EndOf(M, i) = Len(L) + 1
         /\ EndOf(L, i) = Len(L) + 1 /\ ~Closing(e, L[i]) => EndOf(M, i) = Len(L) + 2
<1> DEFINE n == Len(L)
<1>n. n \in Nat /\ Len(M) = n + 1 /\ i \in 1..Len(M)
  BY DEF Grown
<1>1. Ends(M, i) = Ends(L, i) \cup (IF Closing(e, L[i]) THEN {n + 1} ELSE {})
  <2>1. ASSUME NEW j \in i + 1..n
        PROVE  j \in Ends(M, i) <=> j \in Ends(L, i)
    <3>1. j \in 1..n /\ j \in i + 1..n + 1
      BY <1>n
    <3>2. M[j] = L[j] /\ M[i] = L[i]
      BY <3>1 DEF Grown
    <3> QED
      BY <3>1, <3>2, <1>n DEF Ends
  <2>2. n + 1 \in Ends(M, i) <=> Closing(e, L[i])
    <3>1. M[n + 1] = e /\ M[i] = L[i] /\ n + 1 \in i + 1..n + 1
      BY <1>n DEF Grown
    <3> QED
      BY <3>1, <1>n DEF Ends, Closing
  <2>3. \A j \in Ends(M, i) : j \in i + 1..n \/ j = n + 1
    BY <1>n DEF Ends
  <2>4. \A j \in Ends(L, i) : j \in i + 1..n
    BY DEF Ends
  <2> QED
    BY <2>1, <2>2, <2>3, <2>4
<1>2. /\ EndOf(L, i) \in i + 1..n + 1
      /\ EndOf(L, i) \in 1..n => EndOf(L, i) \in Ends(L, i)
      /\ \A j \in Ends(L, i) : EndOf(L, i) <= j /\ j \in 1..n
  BY <1>n, EndOfIsFirst DEF Ends
<1> HIDE DEF n
<1>3. CASE EndOf(L, i) <= n
  <2>1. EndOf(L, i) \in Ends(M, i) /\ \A j \in Ends(M, i) : EndOf(L, i) <= j
    BY <1>n, <1>1, <1>2, <1>3
  <2>2. EndOf(M, i) = EndOf(L, i)
    BY <1>n, <2>1, EndOfIs
  <2> QED
    BY <1>3, <1>n, <2>2 DEF n
<1>4. CASE EndOf(L, i) = n + 1
  <2>1. Ends(L, i) = {}
    BY <1>n, <1>2, <1>4
  <2>2. CASE Closing(e, L[i])
    <3>1. Ends(M, i) = {n + 1}
      BY <1>1, <2>1, <2>2
    <3>2. EndOf(M, i) = n + 1
      BY <1>n, <3>1, EndOfIs
    <3> QED
      BY <1>4, <1>n, <2>2, <3>2 DEF n
  <2>3. CASE ~Closing(e, L[i])
    <3>1. Ends(M, i) = {}
      BY <1>1, <2>1, <2>3
    <3>2. EndOf(M, i) = n + 2
      BY <1>n, <3>1, EndOfIs
    <3> QED
      BY <1>4, <1>n, <2>3, <3>2 DEF n
  <2> QED
    BY <2>2, <2>3
<1> QED
  BY <1>n, <1>2, <1>3, <1>4

\* A flow that the new line starts has no end yet.
LEMMA EndOfNew ==
  ASSUME NEW L, NEW e, NEW M, Grown(L, e, M)
  PROVE  EndOf(M, Len(L) + 1) = Len(L) + 2
<1>1. Len(L) \in Nat /\ Len(M) = Len(L) + 1
  BY DEF Grown
<1>2. EndOf(M, Len(L) + 1) \in Len(L) + 2..Len(L) + 2
  BY <1>1, EndOfIsFirst
<1> QED
  BY <1>1, <1>2

\* i starts a flow f of x that has not ended.
IsOpen(L, f, x, i) ==
  /\ i \in 1..Len(L)
  /\ L[i].ev = "start" /\ L[i].flow = f /\ L[i].ref = x
  /\ EndOf(L, i) = Len(L) + 1

\* i starts a flow that line E ends.
IsClosed(L, i, E) ==
  /\ i \in 1..Len(L)
  /\ L[i].ev = "start"
  /\ EndOf(L, i) = E
  /\ E \in 1..Len(L)
  /\ L[E].ev = "end"

\* A flow of an item that has not ended is the only one.
LEMMA OneIsOpen ==
  ASSUME NEW L, Len(L) \in Nat, NEW f, NEW x, NEW i, NEW j, IsOpen(L, f, x, i), IsOpen(L, f, x, j)
  PROVE  i = j
<1> SUFFICES ASSUME NEW k \in 1..Len(L), NEW l \in 1..Len(L), k < l,
                    IsOpen(L, f, x, k), IsOpen(L, f, x, l)
             PROVE  FALSE
  <2>1. i \in 1..Len(L) /\ j \in 1..Len(L)
    BY DEF IsOpen
  <2> QED
    BY <2>1
<1>1. l \in Ends(L, k)
  BY DEF IsOpen, Ends
<1>2. EndOf(L, k) <= l /\ EndOf(L, k) = Len(L) + 1
  BY <1>1, EndOfIsFirst DEF IsOpen
<1> QED
  BY <1>2

\* The lines that end flows are the same in the grown trace, but for the new one.
LEMMA ClosedGrows ==
  ASSUME NEW L, NEW e, NEW M, Grown(L, e, M), NEW i, NEW E
  PROVE  /\ IsClosed(L, i, E) => IsClosed(M, i, E)
         /\ IsClosed(M, i, E) => \/ IsClosed(L, i, E)
                                 \/ /\ E = Len(L) + 1 /\ e.ev = "end"
                                    /\ IsOpen(L, e.flow, e.ref, i)
<1> DEFINE n == Len(L)
<1>n. n \in Nat /\ Len(M) = n + 1 /\ M[n + 1] = e /\ \A j \in 1..n : M[j] = L[j]
  BY DEF Grown
<1>1. ASSUME IsClosed(L, i, E)
      PROVE  IsClosed(M, i, E)
  <2>1. i \in 1..n /\ E \in 1..n /\ EndOf(L, i) = E
    BY <1>1 DEF IsClosed
  <2>2. EndOf(M, i) = E
    BY <2>1, <1>n, EndOfGrows
  <2> QED
    BY <1>1, <1>n, <2>1, <2>2 DEF IsClosed
<1>2. ASSUME IsClosed(M, i, E), ~IsClosed(L, i, E)
      PROVE  E = n + 1 /\ e.ev = "end" /\ IsOpen(L, e.flow, e.ref, i)
  <2>1. i \in 1..n + 1 /\ E \in 1..n + 1 /\ EndOf(M, i) = E
    BY <1>2, <1>n DEF IsClosed
  <2>2. i \in 1..n
    <3>1. i # n + 1
      BY <2>1, <1>n, EndOfNew
    <3> QED
      BY <3>1, <2>1, <1>n
  <2>3. EndOf(L, i) \in i + 1..n + 1
    BY <2>2, <1>n, EndOfIsFirst
  <2>4. CASE EndOf(L, i) <= n
    <3>1. EndOf(L, i) = E
      BY <2>1, <2>2, <2>4, EndOfGrows
    <3>2. E \in 1..n
      BY <3>1, <2>4, <2>1, <1>n
    <3> QED
      BY <1>2, <1>n, <2>2, <3>1, <3>2 DEF IsClosed
  <2>5. CASE EndOf(L, i) = n + 1
    <3>1. Closing(e, L[i])
      BY <2>1, <2>2, <2>5, <1>n, EndOfGrows
    <3>2. E = n + 1
      BY <3>1, <2>1, <2>2, <2>5, EndOfGrows
    <3> QED
      BY <1>2, <1>n, <2>2, <2>5, <3>1, <3>2 DEF IsClosed, IsOpen, Closing
  <2> QED
    BY <2>3, <2>4, <2>5, <1>n
<1> QED
  BY <1>1, <1>2

\* An open flow that the new line does not close stays open; a new one is the start.
LEMMA OpenGrows ==
  ASSUME NEW L, NEW e, NEW M, Grown(L, e, M), NEW f, NEW x, NEW i
  PROVE  IsOpen(M, f, x, i) <=>
           \/ /\ IsOpen(L, f, x, i)
              /\ ~(e.ev \in {"start", "end"} /\ e.flow = f /\ e.ref = x)
           \/ i = Len(L) + 1 /\ e.ev = "start" /\ e.flow = f /\ e.ref = x
<1> DEFINE n == Len(L)
<1>n. n \in Nat /\ Len(M) = n + 1 /\ M[n + 1] = e /\ \A j \in 1..n : M[j] = L[j]
  BY DEF Grown
<1>1. CASE i = n + 1
  <2>1. EndOf(M, i) = n + 2 /\ M[i] = e /\ i \in 1..n + 1 /\ i \notin 1..n
    BY <1>1, <1>n, EndOfNew
  <2> QED
    BY <1>1, <1>n, <2>1 DEF IsOpen
<1>2. CASE i \in 1..n
  <2>1. M[i] = L[i] /\ i # n + 1 /\ i \in 1..n + 1
    BY <1>2, <1>n
  <2>2. EndOf(L, i) \in i + 1..n + 1
    BY <1>2, <1>n, EndOfIsFirst
  <2>3. EndOf(M, i) = n + 2 <=> EndOf(L, i) = n + 1 /\ ~Closing(e, L[i])
    <3>1. CASE EndOf(L, i) <= n
      BY <3>1, <1>n, <1>2, <2>2, EndOfGrows
    <3>2. CASE EndOf(L, i) = n + 1
      BY <3>2, <1>n, <1>2, <2>2, EndOfGrows
    <3> QED
      BY <3>1, <3>2, <2>2, <1>n
  <2> QED
    BY <1>2, <1>n, <2>1, <2>3 DEF IsOpen, Closing
<1>3. CASE i \notin 1..n + 1
  BY <1>3, <1>n DEF IsOpen
<1> QED
  BY <1>1, <1>2, <1>3, <1>n

\* A start has its run unless it is started again.
LEMMA StartedIs ==
  ASSUME NEW L, Len(L) \in Nat, DOMAIN L = 1..Len(L), NEW i
  PROVE  i \in Started(L) <=>
           IsOpen(L, L[i].flow, L[i].ref, i) \/ IsClosed(L, i, EndOf(L, i))
<1>1. i \in 1..Len(L) => EndOf(L, i) \in i + 1..Len(L) + 1
  BY EndOfIsFirst
<1>2. CASE i \in 1..Len(L)
  <2>1. EndOf(L, i) \in 1..Len(L) \/ EndOf(L, i) = Len(L) + 1
    BY <1>1, <1>2
  <2>2. Len(L) + 1 \notin 1..Len(L)
    OBVIOUS
  <2> QED
    BY <2>1, <2>2, <1>2 DEF Started, IsOpen, IsClosed
<1>3. CASE i \notin 1..Len(L)
  BY <1>3 DEF Started, IsOpen, IsClosed
<1> QED
  BY <1>2, <1>3

-----------------------------------------------------------------------------
(* What the lines say of a run's steps, outcome and call.                  *)

\* Messages count for an item flow until it ends.
LEMMA MessagesGrow ==
  ASSUME NEW L, NEW e, NEW M, Grown(L, e, M), NEW i \in 1..Len(L)
  PROVE  /\ MessagesOf(L, i) \subseteq i + 1..Len(L)
         /\ EndOf(L, i) <= Len(L) \/ Closing(e, L[i]) => MessagesOf(M, i) = MessagesOf(L, i)
         /\ EndOf(L, i) = Len(L) + 1 /\ ~Closing(e, L[i]) =>
              MessagesOf(M, i) = MessagesOf(L, i) \cup
                IF L[i].flow = "item" /\ e.ev = "message" /\ e.ref = L[i].ref
                THEN {Len(L) + 1} ELSE {}
<1> DEFINE n == Len(L)
<1>n. n \in Nat /\ Len(M) = n + 1 /\ M[n + 1] = e /\ \A j \in 1..n : M[j] = L[j]
  BY DEF Grown
<1>1. EndOf(L, i) \in i + 1..n + 1
  BY <1>n, EndOfIsFirst
<1>2. MessagesOf(L, i) \subseteq i + 1..n
  BY <1>1, <1>n DEF MessagesOf
<1>3. ASSUME EndOf(L, i) <= n \/ Closing(e, L[i])
      PROVE  MessagesOf(M, i) = MessagesOf(L, i)
  <2>1. EndOf(M, i) = EndOf(L, i)
    BY <1>1, <1>3, <1>n, EndOfGrows
  <2>2. \A j \in i + 1..EndOf(L, i) - 1 : j \in 1..n
    BY <1>1, <1>n
  <2> QED
    BY <1>n, <2>1, <2>2 DEF MessagesOf
<1>4. ASSUME EndOf(L, i) = n + 1, ~Closing(e, L[i])
      PROVE  MessagesOf(M, i) = MessagesOf(L, i) \cup
               IF L[i].flow = "item" /\ e.ev = "message" /\ e.ref = L[i].ref
               THEN {n + 1} ELSE {}
  <2>1. EndOf(M, i) = n + 2
    BY <1>4, EndOfGrows
  <2>2. i + 1..EndOf(M, i) - 1 = (i + 1..EndOf(L, i) - 1) \cup {n + 1}
    BY <1>4, <1>n, <2>1
  <2>3. \A j \in i + 1..EndOf(L, i) - 1 : j \in 1..n
    BY <1>1, <1>n
  <2> QED
    BY <1>n, <2>2, <2>3 DEF MessagesOf
<1> QED
  BY <1>2, <1>3, <1>4

\* They are finitely many.
LEMMA MessagesAreFinite ==
  ASSUME NEW L, Len(L) \in Nat, NEW i \in 1..Len(L)
  PROVE  IsFiniteSet(MessagesOf(L, i)) /\ Cardinality(MessagesOf(L, i)) \in Nat
<1>1. EndOf(L, i) \in i + 1..Len(L) + 1
  BY EndOfIsFirst
<1>2. MessagesOf(L, i) \subseteq i + 1..EndOf(L, i) - 1
  BY DEF MessagesOf
<1>3. IsFiniteSet(i + 1..EndOf(L, i) - 1)
  <2>1. i + 1 \in Int /\ EndOf(L, i) - 1 \in Int
    BY <1>1
  <2> QED
    BY <2>1, FS_Interval
<1> QED
  BY <1>2, <1>3, FS_Subset, FS_CardinalityType

\* Which executor lines no run has taken is decided before the line asked for.
LEMMA UntakenIs ==
  ASSUME NEW L, Len(L) \in Nat, DOMAIN L = 1..Len(L), NEW x, NEW m \in 1..Len(L) + 1
  PROVE  /\ Untaken(L, x, m) \subseteq 1..m - 1
         /\ \A k \in 1..m - 1 :
              k \in Untaken(L, x, m) <=>
                /\ L[k].ev = "executor" /\ L[k].ref = x
                /\ \A s, E : /\ IsClosed(L, s, E) /\ L[s].ref = x
                             /\ E \in k + 1..m - 1
                             => ~TakesOutcome(L[E])
<1>1. Untaken(L, x, m) \subseteq 1..m - 1
  BY DEF Untaken
<1>2. ASSUME NEW k \in 1..m - 1
      PROVE  k \in Untaken(L, x, m) <=>
                /\ L[k].ev = "executor" /\ L[k].ref = x
                /\ \A s, E : /\ IsClosed(L, s, E) /\ L[s].ref = x
                             /\ E \in k + 1..m - 1
                             => ~TakesOutcome(L[E])
  <2>1. ASSUME NEW s
        PROVE  s \in Started(L) /\ EndOf(L, s) \in k + 1..m - 1 <=>
                 \E E \in k + 1..m - 1 : IsClosed(L, s, E)
    <3>1. \A E \in k + 1..m - 1 : E \in 1..Len(L) /\ E # Len(L) + 1
      OBVIOUS
    <3> QED
      BY <3>1, StartedIs DEF IsClosed, IsOpen
  <2>2. \A s, E : IsClosed(L, s, E) => EndOf(L, s) = E
    BY DEF IsClosed
  <2> QED
    BY <2>1, <2>2 DEF Untaken
<1> QED
  BY <1>1, <1>2

\* A new executor line waits; a run that takes an outcome takes all that waits.
LEMMA UntakenGrows ==
  ASSUME NEW L, NEW e, NEW M, Grown(L, e, M), NEW x
  PROVE  /\ \A m \in 1..Len(L) + 1 : Untaken(M, x, m) = Untaken(L, x, m)
         /\ e.ev = "executor" /\ e.ref = x =>
              Untaken(M, x, Len(L) + 2) = Untaken(L, x, Len(L) + 1) \cup {Len(L) + 1}
         /\ e.ev = "end" /\ e.ref = x /\ TakesOutcome(e) /\ (\E s : IsOpen(L, e.flow, x, s)) =>
              Untaken(M, x, Len(L) + 2) = {}
         /\ /\ ~(e.ev = "executor" /\ e.ref = x)
            /\ ~(e.ev = "end" /\ e.ref = x /\ TakesOutcome(e) /\ \E s : IsOpen(L, e.flow, x, s))
            => Untaken(M, x, Len(L) + 2) = Untaken(L, x, Len(L) + 1)
<1> DEFINE n == Len(L)
<1>n. /\ n \in Nat /\ Len(M) = n + 1 /\ M[n + 1] = e /\ \A j \in 1..n : M[j] = L[j]
      /\ DOMAIN L = 1..n /\ DOMAIN M = 1..n + 1
  BY DEF Grown
<1>c. \A s, E : E \in 1..n => (IsClosed(M, s, E) <=> IsClosed(L, s, E))
  BY <1>n, ClosedGrows
<1>r. \A s, E : IsClosed(L, s, E) => s \in 1..n /\ E \in 1..n
  BY DEF IsClosed
<1>1. ASSUME NEW m \in 1..n + 1
      PROVE  Untaken(M, x, m) = Untaken(L, x, m)
  <2>1. ASSUME NEW k \in 1..m - 1
        PROVE  k \in Untaken(M, x, m) <=> k \in Untaken(L, x, m)
    <3>1. k \in 1..n /\ \A E \in k + 1..m - 1 : E \in 1..n
      BY <1>n
    <3>2. m \in 1..Len(M) + 1 /\ Len(M) \in Nat
      BY <1>n
    <3>3. k \in Untaken(M, x, m) <=>
            /\ M[k].ev = "executor" /\ M[k].ref = x
            /\ \A s, E : IsClosed(M, s, E) /\ M[s].ref = x /\ E \in k + 1..m - 1
                         => ~TakesOutcome(M[E])
      BY <3>2, <1>n, UntakenIs
    <3>4. k \in Untaken(L, x, m) <=>
            /\ L[k].ev = "executor" /\ L[k].ref = x
            /\ \A s, E : IsClosed(L, s, E) /\ L[s].ref = x /\ E \in k + 1..m - 1
                         => ~TakesOutcome(L[E])
      BY <1>n, UntakenIs
    <3>5. M[k] = L[k] /\ \A E \in k + 1..m - 1 : M[E] = L[E]
      BY <3>1, <1>n
    <3>6. \A s, E : E \in k + 1..m - 1 =>
            (IsClosed(M, s, E) /\ M[s].ref = x <=> IsClosed(L, s, E) /\ L[s].ref = x)
      <4> SUFFICES ASSUME NEW s, NEW E \in k + 1..m - 1
                   PROVE  IsClosed(M, s, E) /\ M[s].ref = x <=> IsClosed(L, s, E) /\ L[s].ref = x
        OBVIOUS
      <4>1. IsClosed(M, s, E) <=> IsClosed(L, s, E)
        BY <3>1, <1>c
      <4>2. IsClosed(L, s, E) => M[s] = L[s]
        BY <1>r, <1>n
      <4> QED
        BY <4>1, <4>2
    <3> QED
      BY <3>3, <3>4, <3>5, <3>6
  <2>2. m \in 1..Len(M) + 1
    BY <1>n
  <2>3. Untaken(M, x, m) \subseteq 1..m - 1 /\ Untaken(L, x, m) \subseteq 1..m - 1
    BY <1>n, <2>2, UntakenIs
  <2> QED
    BY <2>1, <2>3
<1>2. /\ Untaken(M, x, n + 2) \subseteq 1..n + 1
      /\ \A k \in 1..n + 1 :
           k \in Untaken(M, x, n + 2) <=>
                /\ M[k].ev = "executor" /\ M[k].ref = x
                /\ \A s, E : /\ IsClosed(M, s, E) /\ M[s].ref = x
                             /\ E \in k + 1..n + 1
                             => ~TakesOutcome(M[E])
  <2>1. n + 2 \in 1..Len(M) + 1 /\ Len(M) \in Nat /\ (n + 2) - 1 = n + 1
    BY <1>n
  <2> QED
    BY <2>1, <1>n, UntakenIs
<1>3. /\ Untaken(L, x, n + 1) \subseteq 1..n
      /\ \A k \in 1..n :
           k \in Untaken(L, x, n + 1) <=>
                /\ L[k].ev = "executor" /\ L[k].ref = x
                /\ \A s, E : /\ IsClosed(L, s, E) /\ L[s].ref = x
                             /\ E \in k + 1..n
                             => ~TakesOutcome(L[E])
  <2>1. n + 1 \in 1..Len(L) + 1 /\ (n + 1) - 1 = n
    BY <1>n
  <2> QED
    BY <2>1, <1>n, UntakenIs
<1>4. n + 1 \in Untaken(M, x, n + 2) <=> e.ev = "executor" /\ e.ref = x
  <2>1. n + 1 \in 1..n + 1 /\ \A E : E \notin (n + 1) + 1..n + 1
    BY <1>n
  <2> QED
    BY <2>1, <1>2, <1>n
<1>5. ASSUME NEW k \in 1..n
      PROVE  k \in Untaken(M, x, n + 2) <=>
               /\ k \in Untaken(L, x, n + 1)
               /\ ~(e.ev = "end" /\ e.ref = x /\ TakesOutcome(e) /\ \E s : IsOpen(L, e.flow, x, s))
  <2>1. k \in 1..n + 1 /\ M[k] = L[k] /\ n + 1 \in k + 1..n + 1
        /\ (\A E : E \in k + 1..n + 1 <=> E \in k + 1..n \/ E = n + 1)
        /\ (\A E \in k + 1..n : E \in 1..n)
    BY <1>n
  <2>2. (\A s, E : IsClosed(M, s, E) /\ M[s].ref = x /\ E \in k + 1..n => ~TakesOutcome(M[E]))
          <=> (\A s, E : IsClosed(L, s, E) /\ L[s].ref = x /\ E \in k + 1..n => ~TakesOutcome(L[E]))
    BY <1>n, <1>c, <1>r, <2>1
  <2>3. (\E s : IsClosed(M, s, n + 1) /\ M[s].ref = x /\ TakesOutcome(M[n + 1]))
          <=> e.ev = "end" /\ e.ref = x /\ TakesOutcome(e) /\ \E s : IsOpen(L, e.flow, x, s)
    <3>1. ASSUME NEW s, IsClosed(M, s, n + 1), M[s].ref = x
          PROVE  e.ev = "end" /\ e.ref = x /\ IsOpen(L, e.flow, x, s)
      <4>1. ~IsClosed(L, s, n + 1)
        BY <1>n, <1>r
      <4>2. e.ev = "end" /\ IsOpen(L, e.flow, e.ref, s)
        BY <3>1, <4>1, ClosedGrows
      <4>3. M[s] = L[s] /\ L[s].ref = e.ref
        BY <4>2, <1>n DEF IsOpen
      <4> QED
        BY <3>1, <4>2, <4>3
    <3>2. ASSUME NEW s, e.ev = "end", e.ref = x, IsOpen(L, e.flow, x, s)
          PROVE  IsClosed(M, s, n + 1) /\ M[s].ref = x
      <4>1. s \in 1..n /\ EndOf(L, s) = n + 1 /\ Closing(e, L[s]) /\ L[s].ref = x
        BY <3>2 DEF IsOpen, Closing
      <4>2. EndOf(M, s) = n + 1 /\ M[s] = L[s]
        BY <4>1, <1>n, EndOfGrows
      <4> QED
        BY <3>2, <4>1, <4>2, <1>n DEF IsClosed, IsOpen
    <3> QED
      BY <3>1, <3>2, <1>n
  <2> QED
    BY <2>1, <2>2, <2>3, <1>2, <1>3
<1>6. \A k \in 1..n + 1 : k \in 1..n \/ k = n + 1
  BY <1>n
<1> QED
  BY <1>1, <1>2, <1>3, <1>4, <1>5, <1>6

\* The executor line that reaches the run of i: the last of its item that has ended.
IsLatest(L, i) ==
  \A s, E : IsClosed(L, s, E) /\ L[s].ref = L[i].ref => E <= EndOf(L, i)

\* A new executor line stamps the run of i if it is the last of its item that ended.
LEMMA StampsGrow ==
  ASSUME NEW L, NEW e, NEW M, Grown(L, e, M), NEW i \in 1..Len(L), EndOf(L, i) <= Len(L)
  PROVE  /\ Stamps(L, i) \subseteq 1..Len(L)
         /\ Stamps(M, i) = Stamps(L, i) \cup
              IF e.ev = "executor" /\ e.ref = L[i].ref /\ IsLatest(L, i)
              THEN {Len(L) + 1} ELSE {}
<1> DEFINE n == Len(L)
           F == EndOf(L, i)
<1>n. /\ n \in Nat /\ Len(M) = n + 1 /\ M[n + 1] = e /\ \A j \in 1..n : M[j] = L[j]
      /\ DOMAIN L = 1..n /\ DOMAIN M = 1..n + 1
  BY DEF Grown
<1>f. F \in i + 1..n /\ F \in 1..n /\ EndOf(M, i) = F /\ M[i] = L[i]
  BY <1>n, EndOfIsFirst, EndOfGrows
<1>r. \A s, E : IsClosed(L, s, E) => s \in 1..n /\ E \in 1..n /\ EndOf(L, s) = E
  BY DEF IsClosed
<1>1. ASSUME NEW K, Len(K) \in Nat, DOMAIN K = 1..Len(K), NEW x, NEW k \in F + 1..Len(K)
      PROVE  (\A s \in Started(K) : K[s].ref = x => EndOf(K, s) \notin F + 1..k - 1)
               <=> (\A s, E : IsClosed(K, s, E) /\ K[s].ref = x => E \notin F + 1..k - 1)
  <2>0. F \in Nat
    BY <1>f
  <2>1. ASSUME NEW s
        PROVE  s \in Started(K) /\ EndOf(K, s) \in F + 1..k - 1 <=>
                 \E E \in F + 1..k - 1 : IsClosed(K, s, E)
    <3>1. \A E \in F + 1..k - 1 : E \in 1..Len(K) /\ E # Len(K) + 1
      BY <1>1, <2>0
    <3> QED
      BY <3>1, <1>1, StartedIs DEF IsClosed, IsOpen
  <2>2. \A s, E : IsClosed(K, s, E) => EndOf(K, s) = E
    BY DEF IsClosed
  <2> QED
    BY <2>1, <2>2
<1> HIDE DEF F
<1>2. Stamps(L, i) = {k \in F + 1..n :
                        /\ L[k].ev = "executor" /\ L[k].ref = L[i].ref
                        /\ \A s, E : IsClosed(L, s, E) /\ L[s].ref = L[i].ref
                                       => E \notin F + 1..k - 1}
  BY <1>1, <1>n DEF Stamps, F
<1>3. Stamps(M, i) = {k \in F + 1..n + 1 :
                        /\ M[k].ev = "executor" /\ M[k].ref = L[i].ref
                        /\ \A s, E : IsClosed(M, s, E) /\ M[s].ref = L[i].ref
                                       => E \notin F + 1..k - 1}
  <2>1. Len(M) \in Nat
    BY <1>n
  <2>2. \A k \in F + 1..n + 1 :
          (\A s \in Started(M) : M[s].ref = L[i].ref => EndOf(M, s) \notin F + 1..k - 1)
               <=> (\A s, E : IsClosed(M, s, E) /\ M[s].ref = L[i].ref => E \notin F + 1..k - 1)
    BY <1>1, <1>n, <2>1
  <2>3. Stamps(M, i) = {k \in F + 1..n + 1 :
                        /\ M[k].ev = "executor" /\ M[k].ref = L[i].ref
                        /\ \A s \in Started(M) : M[s].ref = L[i].ref
                                       => EndOf(M, s) \notin F + 1..k - 1}
    BY <1>n, <1>f DEF Stamps
  <2> QED
    BY <2>2, <2>3
<1>4. ASSUME NEW k \in F + 1..n + 1
      PROVE  (\A s, E : IsClosed(M, s, E) /\ M[s].ref = L[i].ref => E \notin F + 1..k - 1)
               <=> (\A s, E : IsClosed(L, s, E) /\ L[s].ref = L[i].ref => E \notin F + 1..k - 1)
  <2>1. \A E \in F + 1..k - 1 : E \in 1..n /\ E # n + 1
    BY <1>f, <1>n
  <2>2. \A s, E : E \in F + 1..k - 1 =>
          (IsClosed(M, s, E) /\ M[s].ref = L[i].ref <=> IsClosed(L, s, E) /\ L[s].ref = L[i].ref)
    <3> SUFFICES ASSUME NEW s, NEW E \in F + 1..k - 1
                 PROVE  IsClosed(M, s, E) /\ M[s].ref = L[i].ref
                          <=> IsClosed(L, s, E) /\ L[s].ref = L[i].ref
      OBVIOUS
    <3>1. IsClosed(M, s, E) <=> IsClosed(L, s, E)
      BY <2>1, <1>n, ClosedGrows
    <3>2. IsClosed(L, s, E) => M[s] = L[s]
      BY <1>r, <1>n
    <3> QED
      BY <3>1, <3>2
  <2> QED
    BY <2>2
<1>5. \A k \in F + 1..n : k \in Stamps(M, i) <=> k \in Stamps(L, i)
  <2> SUFFICES ASSUME NEW k \in F + 1..n
               PROVE  k \in Stamps(M, i) <=> k \in Stamps(L, i)
    OBVIOUS
  <2>1. k \in F + 1..n + 1 /\ k \in 1..n
    BY <1>f, <1>n
  <2>2. M[k] = L[k]
    BY <2>1, <1>n
  <2> QED
    BY <2>1, <2>2, <1>2, <1>3, <1>4
<1>6. n + 1 \in Stamps(M, i) <=> e.ev = "executor" /\ e.ref = L[i].ref /\ IsLatest(L, i)
  <2>1. n + 1 \in F + 1..n + 1 /\ (n + 1) - 1 = n
    BY <1>f, <1>n
  <2>2. (\A s, E : IsClosed(L, s, E) /\ L[s].ref = L[i].ref => E \notin F + 1..n)
          <=> IsLatest(L, i)
    <3>1. \A E \in 1..n : E \notin F + 1..n <=> E <= F
      BY <1>f, <1>n
    <3> QED
      BY <3>1, <1>r DEF IsLatest, F
  <2> QED
    BY <2>1, <2>2, <1>3, <1>4, <1>n
<1>7. /\ \A k \in Stamps(M, i) : k \in F + 1..n \/ k = n + 1
      /\ \A k \in Stamps(L, i) : k \in F + 1..n /\ k \in 1..n
  <2>1. \A k \in F + 1..n + 1 : k \in F + 1..n \/ k = n + 1
    BY <1>f, <1>n
  <2>2. \A k \in F + 1..n : k \in 1..n
    BY <1>f, <1>n
  <2> QED
    BY <2>1, <2>2, <1>2, <1>3
<1> QED
  BY <1>5, <1>6, <1>7

\* The outcome the last of some earlier lines reports stays.
LEMMA LastOutcomeStays ==
  ASSUME NEW L, NEW e, NEW M, Grown(L, e, M), NEW S \in SUBSET (1..Len(L))
  PROVE  LastOutcome(M, S) = LastOutcome(L, S)
<1>1. Len(L) \in Nat /\ \A j \in 1..Len(L) : M[j] = L[j]
  BY DEF Grown
<1>2. S # {} => Max(S) \in 1..Len(L)
  <2>1. S \in SUBSET (0..Len(L))
    BY <1>1
  <2> QED
    BY <1>1, <2>1, MaxOfSet
<1> QED
  BY <1>1, <1>2 DEF LastOutcome

\* A run that has ended keeps its outcome, but for the stamp of a new executor line.
LEMMA OutcomeGrows ==
  ASSUME NEW L, NEW e, NEW M, Grown(L, e, M), NEW i, NEW E, IsClosed(L, i, E)
  PROVE  OutcomeOf(M, i) =
           IF e.ev = "executor" /\ e.ref = L[i].ref /\ IsLatest(L, i)
           THEN e.outcome ELSE OutcomeOf(L, i)
<1> DEFINE n == Len(L)
<1>n. /\ n \in Nat /\ Len(M) = n + 1 /\ M[n + 1] = e /\ \A j \in 1..n : M[j] = L[j]
      /\ DOMAIN L = 1..n /\ DOMAIN M = 1..n + 1
  BY DEF Grown
<1>1. i \in 1..n /\ E \in 1..n /\ EndOf(L, i) = E /\ EndOf(M, i) = E /\ M[i] = L[i] /\ M[E] = L[E]
  BY <1>n, EndOfGrows DEF IsClosed
<1>2. /\ Stamps(L, i) \subseteq 1..n
      /\ Stamps(M, i) = Stamps(L, i) \cup
           IF e.ev = "executor" /\ e.ref = L[i].ref /\ IsLatest(L, i) THEN {n + 1} ELSE {}
  BY <1>1, StampsGrow
<1>3. CASE e.ev = "executor" /\ e.ref = L[i].ref /\ IsLatest(L, i)
  <2>1. n + 1 \in Stamps(M, i) /\ Stamps(M, i) \in SUBSET Nat /\ \A k \in Stamps(M, i) : k <= n + 1
    BY <1>2, <1>3, <1>n
  <2>2. Max(Stamps(M, i)) = n + 1
    BY <2>1, <1>n, MaxIs
  <2> QED
    BY <1>3, <1>n, <2>1, <2>2 DEF OutcomeOf, LastOutcome
<1>4. CASE ~(e.ev = "executor" /\ e.ref = L[i].ref /\ IsLatest(L, i))
  <2>1. Stamps(M, i) = Stamps(L, i)
    BY <1>2, <1>4
  <2>2. LastOutcome(M, Stamps(L, i)) = LastOutcome(L, Stamps(L, i))
    BY <1>2, LastOutcomeStays
  <2>3. Untaken(M, L[i].ref, E) = Untaken(L, L[i].ref, E)
    BY <1>1, <1>n, UntakenGrows
  <2>4. LastOutcome(M, Untaken(L, L[i].ref, E)) = LastOutcome(L, Untaken(L, L[i].ref, E))
    <3>1. Untaken(L, L[i].ref, E) \subseteq 1..E - 1
      BY <1>1, <1>n, UntakenIs
    <3>2. 1..E - 1 \subseteq 1..n
      BY <1>1, <1>n
    <3> QED
      BY <3>1, <3>2, LastOutcomeStays
  <2>5. E \in DOMAIN M /\ E \in DOMAIN L
    BY <1>1, <1>n
  <2> QED
    BY <1>1, <1>4, <2>1, <2>2, <2>3, <2>4, <2>5 DEF OutcomeOf
<1> QED
  BY <1>3, <1>4

\* A run that ends takes the outcome that waits for it, if it is one that takes.
LEMMA OutcomeOfEnded ==
  ASSUME NEW L, NEW e, NEW M, Grown(L, e, M), NEW i, IsOpen(L, e.flow, e.ref, i), e.ev = "end"
  PROVE  OutcomeOf(M, i) =
           IF TakesOutcome(e) THEN LastOutcome(L, Untaken(L, e.ref, Len(L) + 1)) ELSE None
<1> DEFINE n == Len(L)
<1>n. /\ n \in Nat /\ Len(M) = n + 1 /\ M[n + 1] = e /\ \A j \in 1..n : M[j] = L[j]
      /\ DOMAIN L = 1..n /\ DOMAIN M = 1..n + 1
  BY DEF Grown
<1>1. i \in 1..n /\ L[i].ref = e.ref /\ EndOf(L, i) = n + 1 /\ Closing(e, L[i])
  BY DEF IsOpen, Closing
<1>2. EndOf(M, i) = n + 1 /\ M[i] = L[i]
  BY <1>1, <1>n, EndOfGrows
<1>3. Stamps(M, i) = {}
  <2>1. (n + 1) + 1..n + 1 = {}
    BY <1>n
  <2> QED
    BY <2>1, <1>2, <1>n DEF Stamps
<1>4. n + 1 \in DOMAIN M
  BY <1>n
<1>5. Untaken(M, e.ref, n + 1) = Untaken(L, e.ref, n + 1)
  BY <1>n, UntakenGrows
<1>6. LastOutcome(M, Untaken(L, e.ref, n + 1)) = LastOutcome(L, Untaken(L, e.ref, n + 1))
  <2>1. Untaken(L, e.ref, n + 1) \subseteq 1..n
    <3>1. n + 1 \in 1..n + 1 /\ (n + 1) - 1 = n
      BY <1>n
    <3> QED
      BY <1>n, <3>1, UntakenIs
  <2> QED
    BY <2>1, LastOutcomeStays
<1> QED
  BY <1>1, <1>2, <1>3, <1>4, <1>5, <1>6, <1>n DEF OutcomeOf

\* A run that has not ended has no outcome.
LEMMA OutcomeOfOpen ==
  ASSUME NEW L, Len(L) \in Nat, DOMAIN L = 1..Len(L), NEW f, NEW x, NEW i, IsOpen(L, f, x, i)
  PROVE  OutcomeOf(L, i) = None /\ StatusOf(L, i) = "failed"
<1>1. EndOf(L, i) = Len(L) + 1 /\ Len(L) + 1 \notin DOMAIN L
  BY DEF IsOpen
<1>2. Stamps(L, i) = {}
  <2>1. (Len(L) + 1) + 1..Len(L) = {}
    OBVIOUS
  <2> QED
    BY <2>1, <1>1 DEF Stamps
<1> QED
  BY <1>1, <1>2 DEF OutcomeOf, StatusOf

\* The run of a flow that has ended, after one more line.
LEMMA FlowRunGrows ==
  ASSUME NEW L, NEW e, NEW M, Grown(L, e, M), NEW i, NEW E, IsClosed(L, i, E)
  PROVE  TakenRun(M, i) =
           IF e.ev = "executor" /\ e.ref = L[i].ref /\ IsLatest(L, i)
           THEN [TakenRun(L, i) EXCEPT !.outcome = e.outcome] ELSE TakenRun(L, i)
<1> DEFINE n == Len(L)
<1>n. /\ n \in Nat /\ Len(M) = n + 1 /\ \A j \in 1..n : M[j] = L[j]
      /\ DOMAIN L = 1..n /\ DOMAIN M = 1..n + 1
  BY DEF Grown
<1>1. i \in 1..n /\ E \in 1..n /\ EndOf(L, i) = E /\ EndOf(M, i) = E /\ M[i] = L[i] /\ M[E] = L[E]
  BY <1>n, EndOfGrows DEF IsClosed
<1>2. MessagesOf(M, i) = MessagesOf(L, i)
  BY <1>1, <1>n, MessagesGrow
<1>3. StatusOf(M, i) = StatusOf(L, i)
  <2>1. E \in DOMAIN L /\ E \in DOMAIN M
    BY <1>1, <1>n
  <2> QED
    BY <1>1, <2>1 DEF StatusOf
<1> QED
  BY <1>1, <1>2, <1>3, OutcomeGrows DEF TakenRun

\* The run of a flow that the new line ends.
LEMMA FlowRunEnded ==
  ASSUME NEW L, NEW e, NEW M, Grown(L, e, M), NEW i, IsOpen(L, e.flow, e.ref, i), e.ev = "end"
  PROVE  TakenRun(M, i) =
           [id |-> i, ref |-> e.ref, flow |-> e.flow, status |-> e.status,
            steps |-> Cardinality(MessagesOf(L, i)),
            outcome |-> IF TakesOutcome(e) THEN LastOutcome(L, Untaken(L, e.ref, Len(L) + 1))
                        ELSE None]
<1> DEFINE n == Len(L)
<1>n. /\ n \in Nat /\ Len(M) = n + 1 /\ M[n + 1] = e /\ \A j \in 1..n : M[j] = L[j]
      /\ DOMAIN L = 1..n /\ DOMAIN M = 1..n + 1
  BY DEF Grown
<1>1. /\ i \in 1..n /\ L[i].ref = e.ref /\ L[i].flow = e.flow
      /\ EndOf(L, i) = n + 1 /\ Closing(e, L[i])
  BY DEF IsOpen, Closing
<1>2. EndOf(M, i) = n + 1 /\ M[i] = L[i]
  BY <1>1, <1>n, EndOfGrows
<1>3. MessagesOf(M, i) = MessagesOf(L, i)
  BY <1>1, <1>n, MessagesGrow
<1>4. StatusOf(M, i) = e.status
  <2>1. n + 1 \in DOMAIN M
    BY <1>n
  <2> QED
    BY <1>2, <1>n, <2>1 DEF StatusOf
<1> QED
  BY <1>1, <1>2, <1>3, <1>4, OutcomeOfEnded DEF TakenRun

-----------------------------------------------------------------------------
(* The calls.                                                              *)

\* A new line is a call or an answer of its own key alone.
LEMMA CallsBeforeGrow ==
  ASSUME NEW L, NEW e, NEW M, Grown(L, e, M), NEW x, NEW k
  PROVE  /\ \A m \in 1..Len(L) + 1 : /\ CallsBefore(M, x, k, m) = CallsBefore(L, x, k, m)
                                     /\ CallsBefore(L, x, k, m) \subseteq 1..Len(L)
         /\ CallsBefore(M, x, k, Len(L) + 2) =
              CallsBefore(L, x, k, Len(L) + 1) \cup
                IF e.ev \in {"call", "done"} /\ e.ref = x /\ e.key = k
                THEN {Len(L) + 1} ELSE {}
<1> DEFINE n == Len(L)
<1>n. n \in Nat /\ M[n + 1] = e /\ \A j \in 1..n : M[j] = L[j]
  BY DEF Grown
<1>1. ASSUME NEW m \in 1..n + 1
      PROVE  /\ CallsBefore(M, x, k, m) = CallsBefore(L, x, k, m)
             /\ CallsBefore(L, x, k, m) \subseteq 1..n
  <2>1. \A j \in 1..m - 1 : j \in 1..n /\ M[j] = L[j]
    BY <1>n
  <2> QED
    BY <2>1 DEF CallsBefore
<1>2. \A j : j \in 1..(n + 2) - 1 <=> j \in 1..(n + 1) - 1 \/ j = n + 1
  BY <1>n
<1>3. \A j \in 1..(n + 1) - 1 : M[j] = L[j]
  BY <1>n
<1> QED
  BY <1>1, <1>2, <1>3, <1>n DEF CallsBefore

\* A call waits from its line to its answer.
LEMMA CallBeforeGrows ==
  ASSUME NEW L, NEW e, NEW M, Grown(L, e, M), NEW x, NEW k
  PROVE  /\ \A m \in 1..Len(L) + 1 : CallBefore(M, x, k, m) = CallBefore(L, x, k, m)
         /\ CallBefore(M, x, k, Len(L) + 2) =
              IF e.ev = "call" /\ e.ref = x /\ e.key = k THEN Len(L) + 1
              ELSE IF e.ev = "done" /\ e.ref = x /\ e.key = k THEN 0
              ELSE CallBefore(L, x, k, Len(L) + 1)
<1> DEFINE n == Len(L)
<1>n. n \in Nat /\ M[n + 1] = e /\ \A j \in 1..n : M[j] = L[j]
  BY DEF Grown
<1>1. ASSUME NEW m \in 1..n + 1
      PROVE  LET S == CallsBefore(L, x, k, m) IN S # {} => M[Max(S)] = L[Max(S)]
  <2> DEFINE S == CallsBefore(L, x, k, m)
  <2>1. S \subseteq 1..n
    BY CallsBeforeGrow
  <2>2. S # {} => Max(S) \in 1..n
    <3>1. S \in SUBSET (0..n)
      BY <1>n, <2>1
    <3> HIDE DEF S
    <3> QED
      BY <1>n, <2>1, <3>1, MaxOfSet
  <2> QED
    BY <2>2, <1>n
<1>2. \A m \in 1..n + 1 : CallBefore(M, x, k, m) = CallBefore(L, x, k, m)
  BY <1>1, CallsBeforeGrow DEF CallBefore
<1>3. CASE e.ev \in {"call", "done"} /\ e.ref = x /\ e.key = k
  <2> DEFINE S == CallsBefore(M, x, k, n + 2)
  <2>1. n + 1 \in 1..n + 1
    BY <1>n
  <2>2. S = CallsBefore(L, x, k, n + 1) \cup {n + 1} /\ CallsBefore(L, x, k, n + 1) \subseteq 1..n
    BY <1>3, <2>1, CallsBeforeGrow
  <2>3. n + 1 \in S /\ S \in SUBSET Nat /\ \A j \in S : j <= n + 1
    BY <2>2, <1>n
  <2>4. Max(S) = n + 1 /\ S # {}
    <3> HIDE DEF S
    <3> QED
      BY <2>3, <1>n, MaxIs
  <2> QED
    BY <1>2, <1>3, <1>n, <2>4 DEF CallBefore
<1>4. CASE ~(e.ev \in {"call", "done"} /\ e.ref = x /\ e.key = k)
  <2>1. n + 1 \in 1..n + 1
    BY <1>n
  <2>2. CallsBefore(M, x, k, n + 2) = CallsBefore(L, x, k, n + 1)
    <3>1. CallsBefore(M, x, k, n + 2) = CallsBefore(L, x, k, n + 1) \cup
            IF e.ev \in {"call", "done"} /\ e.ref = x /\ e.key = k THEN {n + 1} ELSE {}
      BY CallsBeforeGrow
    <3> QED
      BY <1>4, <3>1
  <2>3. CallBefore(M, x, k, n + 2) = CallBefore(L, x, k, n + 1)
    BY <1>1, <2>1, <2>2 DEF CallBefore
  <2> QED
    BY <1>2, <1>4, <2>3
<1> QED
  BY <1>3, <1>4

\* An answer that is there keeps its run; a new one has the call that waits for it.
LEMMA AnswerRunGrows ==
  ASSUME NEW L, NEW e, NEW M, Grown(L, e, M)
  PROVE  /\ \A j \in 1..Len(L) : AnswerRun(M, j) = AnswerRun(L, j)
         /\ AnswerRun(M, Len(L) + 1) =
              LET call == CallBefore(L, e.ref, e.key, Len(L) + 1)
              IN  [id |-> IF call = 0 THEN Len(L) + 1 ELSE call, ref |-> e.ref,
                   flow |-> "call", status |-> e.status, steps |-> 0, outcome |-> None]
<1> DEFINE n == Len(L)
<1>n. n \in Nat /\ M[n + 1] = e /\ \A j \in 1..n : M[j] = L[j]
  BY DEF Grown
<1>1. \A m \in 1..n + 1 : \A x, k : CallBefore(M, x, k, m) = CallBefore(L, x, k, m)
  BY CallBeforeGrows
<1>2. n + 1 \in 1..n + 1 /\ \A j \in 1..n : j \in 1..n + 1
  BY <1>n
<1>3. \A j \in 1..n : CallOf(M, j) = CallOf(L, j)
  BY <1>n, <1>1, <1>2 DEF CallOf
<1>4. CallOf(M, n + 1) = LET call == CallBefore(L, e.ref, e.key, n + 1)
                         IN  IF call = 0 THEN n + 1 ELSE call
  BY <1>n, <1>1, <1>2 DEF CallOf
<1> QED
  BY <1>n, <1>3, <1>4 DEF AnswerRun

-----------------------------------------------------------------------------
(* What a line makes of the parser.                                        *)

Outcomes == {None} \cup {e.outcome : e \in {l \in Lines : l.ev = "executor"}}

TracedRuns ==
  [id : Nat, ref : Refs, flow : Flows \cup {"call"}, status : Statuses, steps : Nat,
   outcome : Outcomes]

ParserShape(p) ==
  /\ p = [open |-> p.open, calls |-> p.calls, executor |-> p.executor, runs |-> p.runs]
  /\ p.open = [f \in Flows |-> [x \in Refs |-> p.open[f][x]]]
  /\ \A f \in Flows, x \in Refs : p.open[f][x] \in {<<>>, <<p.open[f][x][1]>>}
  /\ p.calls \in [Refs -> [Keys -> Nat]]
  /\ p.executor \in [Refs -> Outcomes]
  /\ p.runs \in Seq(TracedRuns)

Touches(e, f, x) == e.flow = f /\ e.ref = x

\* The open run of flow f of x after line i.
SlotAfter(v, e, f, x, i) ==
  IF e.ev = "start" /\ Touches(e, f, x) THEN <<Run(i, x, f, "succeeded")>>
  ELSE IF e.ev = "end" /\ Touches(e, f, x) THEN <<>>
  ELSE IF e.ev = "message" /\ f = "item" /\ e.ref = x /\ v # <<>>
       THEN <<[v[1] EXCEPT !.steps = @ + 1]>>
  ELSE v

OpenAfter(p, e, i) == [f \in Flows |-> [x \in Refs |-> SlotAfter(p.open[f][x], e, f, x, i)]]

CallAfter(v, e, x, k, i) ==
  IF e.ev = "call" /\ e.ref = x /\ e.key = k THEN i
  ELSE IF e.ev = "done" /\ e.ref = x /\ e.key = k THEN 0
  ELSE v

CallsAfter(p, e, i) == [x \in Refs |-> [k \in Keys |-> CallAfter(p.calls[x][k], e, x, k, i)]]

\* Line e ends a run that is open.
EndsOpen(p, e) == e.ev = "end" /\ p.open[e.flow][e.ref] # <<>>

ExecutorNext(p, e) ==
  [x \in Refs |-> IF e.ev = "executor" /\ e.ref = x THEN e.outcome
                  ELSE IF EndsOpen(p, e) /\ TakesOutcome(e) /\ e.ref = x THEN None
                  ELSE p.executor[x]]

EndedRun(p, e) ==
  [Closed(p.open[e.flow][e.ref][1], e.status) EXCEPT
     !.outcome = IF TakesOutcome(e) THEN p.executor[e.ref] ELSE @]

Stamped(p, e) ==
  [p.runs EXCEPT ![Max(ClosedItems(p, e.ref))].outcome = e.outcome]

RunsNext(p, e, i) ==
  IF EndsOpen(p, e) THEN Append(p.runs, EndedRun(p, e))
  ELSE IF e.ev = "done" THEN Append(p.runs, Run(CallId(p, e, i), e.ref, "call", e.status))
  ELSE IF e.ev = "executor" /\ ClosedItems(p, e.ref) # {} THEN Stamped(p, e)
  ELSE p.runs

IsTable(A, B, D) == D = [f \in A |-> [x \in B |-> D[f][x]]]

\* A dictionary of dictionaries with one entry replaced.
LEMMA EntryReplaced ==
  ASSUME NEW A, NEW B, NEW D, NEW N, NEW a \in A, NEW b \in B, NEW w,
         IsTable(A, B, D), IsTable(A, B, N),
         \A f \in A, x \in B : N[f][x] = IF f = a /\ x = b THEN w ELSE D[f][x]
  PROVE  N = [D EXCEPT ![a] = [D[a] EXCEPT ![b] = w]]
<1> DEFINE E == [D EXCEPT ![a] = [D[a] EXCEPT ![b] = w]]
<1>1. D = [f \in A |-> D[f]] /\ \A f \in A : D[f] = [x \in B |-> D[f][x]]
  BY DEF IsTable
<1>2. N = [f \in A |-> N[f]] /\ \A f \in A : N[f] = [x \in B |-> N[f][x]]
  BY DEF IsTable
<1>3. E = [f \in A |-> IF f = a THEN [D[a] EXCEPT ![b] = w] ELSE D[f]]
  BY <1>1
<1>4. [D[a] EXCEPT ![b] = w] = [x \in B |-> IF x = b THEN w ELSE D[a][x]]
  BY <1>1
<1>5. ASSUME NEW f \in A
      PROVE  N[f] = E[f]
  <2>1. CASE f = a
    <3>1. E[f] = [x \in B |-> IF x = b THEN w ELSE D[a][x]]
      BY <1>3, <1>4, <2>1
    <3>2. N[f] = [x \in B |-> N[a][x]]
      BY <1>2, <2>1
    <3> QED
      BY <2>1, <3>1, <3>2
  <2>2. CASE f # a
    <3>1. E[f] = [x \in B |-> D[f][x]]
      BY <1>1, <1>3, <2>2
    <3>2. N[f] = [x \in B |-> N[f][x]]
      BY <1>2
    <3> QED
      BY <2>2, <3>1, <3>2
  <2> QED
    BY <2>1, <2>2
<1>6. E = [f \in A |-> E[f]]
  BY <1>3
<1> HIDE DEF E
<1>7. N = E
  BY <1>2, <1>5, <1>6
<1> QED
  BY <1>7 DEF E

\* Each dictionary has its own rule.
LEMMA ParseLineParts ==
  ASSUME NEW p, ParserShape(p), NEW e, Legible(e), NEW i
  PROVE  ParseLine(p, e, i) =
           [open |-> OpenAfter(p, e, i), calls |-> CallsAfter(p, e, i),
            executor |-> ExecutorNext(p, e), runs |-> RunsNext(p, e, i)]
<1> DEFINE O == p.open
           C == p.calls
           X == p.executor
           R == p.runs
<1>1. /\ p = [open |-> O, calls |-> C, executor |-> X, runs |-> R]
      /\ O = [f \in Flows |-> [x \in Refs |-> O[f][x]]]
      /\ C = [x \in Refs |-> [k \in Keys |-> C[x][k]]]
      /\ X = [x \in Refs |-> X[x]]
  BY DEF ParserShape
<1>o. e.ev \notin {"start", "end", "message"} => OpenAfter(p, e, i) = O
  BY <1>1 DEF OpenAfter, SlotAfter
<1>c. e.ev \notin {"call", "done"} => CallsAfter(p, e, i) = C
  BY <1>1 DEF CallsAfter, CallAfter
<1>x. e.ev # "executor" /\ ~EndsOpen(p, e) => ExecutorNext(p, e) = X
  BY <1>1 DEF ExecutorNext
<1>s. ASSUME NEW g \in Flows, NEW y \in Refs, NEW w,
             \A f \in Flows, x \in Refs :
               SlotAfter(O[f][x], e, f, x, i) = IF f = g /\ x = y THEN w ELSE O[f][x]
      PROVE  OpenAfter(p, e, i) = [O EXCEPT ![g] = [O[g] EXCEPT ![y] = w]]
  <2> DEFINE N == OpenAfter(p, e, i)
  <2>1. \A f \in Flows, x \in Refs : N[f][x] = IF f = g /\ x = y THEN w ELSE O[f][x]
    BY <1>s DEF OpenAfter
  <2>2. IsTable(Flows, Refs, N) /\ IsTable(Flows, Refs, O)
    BY <1>1 DEF OpenAfter, IsTable
  <2> HIDE DEF N, O
  <2>3. N = [O EXCEPT ![g] = [O[g] EXCEPT ![y] = w]]
    BY <2>1, <2>2, EntryReplaced
  <2> QED
    BY <2>3 DEF N
<1>3. CASE e.ev = "start"
  <2> DEFINE w == <<Run(i, e.ref, e.flow, "succeeded")>>
  <2>1. e.flow \in Flows /\ e.ref \in Refs
    BY <1>3 DEF Legible
  <2>2. OpenAfter(p, e, i) = [O EXCEPT ![e.flow] = [O[e.flow] EXCEPT ![e.ref] = w]]
    <3>1. \A f \in Flows, x \in Refs :
            SlotAfter(O[f][x], e, f, x, i) = IF f = e.flow /\ x = e.ref THEN w ELSE O[f][x]
      BY <1>3 DEF SlotAfter, Touches
    <3> QED
      BY <2>1, <3>1, <1>s
  <2>3. RunsNext(p, e, i) = R /\ ~EndsOpen(p, e)
    BY <1>3 DEF RunsNext, EndsOpen
  <2>4. ParseLine(p, e, i) = [p EXCEPT !.open = [O EXCEPT ![e.flow] = [O[e.flow] EXCEPT ![e.ref] = w]]]
    BY <1>3 DEF ParseLine, StartLine
  <2> HIDE DEF O, C, X, R, w
  <2> QED
    BY <1>1, <1>3, <1>c, <1>x, <2>2, <2>3, <2>4
<1>4. CASE e.ev = "message"
  <2>1. e.ref \in Refs /\ "item" \in Flows
    BY <1>4 DEF Legible, Flows
  <2>2. RunsNext(p, e, i) = R /\ ~EndsOpen(p, e)
    BY <1>4 DEF RunsNext, EndsOpen
  <2>3. CASE O["item"][e.ref] = <<>>
    <3>1. OpenAfter(p, e, i) = O
      BY <1>1, <1>4, <2>1, <2>3 DEF OpenAfter, SlotAfter
    <3>2. ParseLine(p, e, i) = p
      BY <1>4, <2>3 DEF ParseLine, MessageLine
    <3> HIDE DEF O, C, X, R
    <3> QED
      BY <1>1, <1>4, <1>c, <1>x, <2>2, <3>1, <3>2
  <2>4. CASE O["item"][e.ref] # <<>>
    <3> DEFINE v == O["item"][e.ref]
               r == [v[1] EXCEPT !.steps = v[1].steps + 1]
    <3>1. OpenAfter(p, e, i) = [O EXCEPT !["item"] = [O["item"] EXCEPT ![e.ref] = <<r>>]]
      <4>1. \A f \in Flows, x \in Refs :
              SlotAfter(O[f][x], e, f, x, i) =
                IF f = "item" /\ x = e.ref THEN <<r>> ELSE O[f][x]
        BY <1>4, <2>4 DEF SlotAfter
      <4> QED
        BY <2>1, <4>1, <1>s
    <3>2. ParseLine(p, e, i) =
            [p EXCEPT !.open = [O EXCEPT !["item"] =
               [O["item"] EXCEPT ![e.ref] = [v EXCEPT ![1] = r]]]]
      BY <1>4, <2>4 DEF ParseLine, MessageLine
    <3>3. v = <<v[1]>>
      BY <2>1, <2>4 DEF ParserShape
    <3>4. [v EXCEPT ![1] = r] = <<r>>
      <4> HIDE DEF v, r
      <4>1. \A u : [<<u>> EXCEPT ![1] = r] = <<r>>
        OBVIOUS
      <4> QED
        BY <3>3, <4>1
    <3> HIDE DEF O, C, X, R, v, r
    <3> QED
      BY <1>1, <1>4, <1>c, <1>x, <2>2, <3>1, <3>2, <3>4
  <2> QED
    BY <2>3, <2>4
<1>5. CASE e.ev = "end"
  <2>1. e.flow \in Flows /\ e.ref \in Refs
    BY <1>5 DEF Legible
  <2>2. CASE O[e.flow][e.ref] = <<>>
    <3>1. ~EndsOpen(p, e) /\ RunsNext(p, e, i) = R
      BY <1>5, <2>2 DEF EndsOpen, RunsNext
    <3>2. OpenAfter(p, e, i) = O
      BY <1>1, <1>5, <2>1, <2>2 DEF OpenAfter, SlotAfter, Touches
    <3>3. ParseLine(p, e, i) = p
      BY <1>5, <2>2 DEF ParseLine, EndLine
    <3> HIDE DEF O, C, X, R
    <3> QED
      BY <1>1, <1>5, <1>c, <1>x, <3>1, <3>2, <3>3
  <2>3. CASE O[e.flow][e.ref] # <<>>
    <3>1. EndsOpen(p, e) /\ RunsNext(p, e, i) = Append(R, EndedRun(p, e))
      BY <1>5, <2>3 DEF EndsOpen, RunsNext
    <3>2. OpenAfter(p, e, i) = [O EXCEPT ![e.flow] = [O[e.flow] EXCEPT ![e.ref] = <<>>]]
      <4>1. \A f \in Flows, x \in Refs :
              SlotAfter(O[f][x], e, f, x, i) =
                IF f = e.flow /\ x = e.ref THEN <<>> ELSE O[f][x]
        BY <1>5 DEF SlotAfter, Touches
      <4> QED
        BY <2>1, <4>1, <1>s
    <3>3. ExecutorNext(p, e) = ExecutorAfterEnd(p, e)
      BY <1>1, <1>5, <2>1, <3>1 DEF ExecutorNext, ExecutorAfterEnd
    <3>4. ParseLine(p, e, i) =
            [p EXCEPT !.open = [O EXCEPT ![e.flow] = [O[e.flow] EXCEPT ![e.ref] = <<>>]],
                      !.executor = ExecutorAfterEnd(p, e),
                      !.runs = Append(R, EndedRun(p, e))]
      BY <1>5, <2>3 DEF ParseLine, EndLine, EndedRun
    <3> HIDE DEF O, C, X, R
    <3> QED
      BY <1>1, <1>5, <1>c, <3>1, <3>2, <3>3, <3>4
  <2> QED
    BY <2>2, <2>3
<1>6. CASE e.ev = "executor"
  <2>1. e.ref \in Refs /\ ~EndsOpen(p, e)
    BY <1>6 DEF Legible, EndsOpen
  <2>2. ExecutorNext(p, e) = [X EXCEPT ![e.ref] = e.outcome]
    BY <1>1, <1>6, <2>1 DEF ExecutorNext
  <2>3. CASE ClosedItems(p, e.ref) = {}
    <3>1. RunsNext(p, e, i) = R
      BY <1>6, <2>1, <2>3 DEF RunsNext
    <3>2. ParseLine(p, e, i) = [p EXCEPT !.executor = [X EXCEPT ![e.ref] = e.outcome]]
      BY <1>6, <2>3 DEF ParseLine, ExecutorLine
    <3> HIDE DEF O, C, X, R
    <3> QED
      BY <1>1, <1>6, <1>c, <1>o, <2>2, <3>1, <3>2
  <2>4. CASE ClosedItems(p, e.ref) # {}
    <3>1. RunsNext(p, e, i) = Stamped(p, e)
      BY <1>6, <2>1, <2>4 DEF RunsNext
    <3>2. ParseLine(p, e, i) =
            [p EXCEPT !.executor = [X EXCEPT ![e.ref] = e.outcome],
                      !.runs = [R EXCEPT ![Max(ClosedItems(p, e.ref))] =
                                  [R[Max(ClosedItems(p, e.ref))] EXCEPT !.outcome = e.outcome]]]
      BY <1>6, <2>4 DEF ParseLine, ExecutorLine
    <3>3. Stamped(p, e) =
            [R EXCEPT ![Max(ClosedItems(p, e.ref))] =
               [R[Max(ClosedItems(p, e.ref))] EXCEPT !.outcome = e.outcome]]
      BY DEF Stamped
    <3> HIDE DEF O, C, X, R
    <3> QED
      BY <1>1, <1>6, <1>c, <1>o, <2>2, <3>1, <3>2, <3>3
  <2> QED
    BY <2>3, <2>4
<1>k. ASSUME NEW y \in Refs, NEW l \in Keys, NEW w,
             \A x \in Refs, k \in Keys :
               CallAfter(C[x][k], e, x, k, i) = IF x = y /\ k = l THEN w ELSE C[x][k]
      PROVE  CallsAfter(p, e, i) = [C EXCEPT ![y] = [C[y] EXCEPT ![l] = w]]
  <2> DEFINE N == CallsAfter(p, e, i)
  <2>1. \A x \in Refs, k \in Keys : N[x][k] = IF x = y /\ k = l THEN w ELSE C[x][k]
    BY <1>k DEF CallsAfter
  <2>2. IsTable(Refs, Keys, N) /\ IsTable(Refs, Keys, C)
    BY <1>1 DEF CallsAfter, IsTable
  <2> HIDE DEF N, C
  <2>3. N = [C EXCEPT ![y] = [C[y] EXCEPT ![l] = w]]
    BY <2>1, <2>2, EntryReplaced
  <2> QED
    BY <2>3 DEF N
<1>7. CASE e.ev = "call"
  <2>1. e.ref \in Refs /\ e.key \in Keys /\ ~EndsOpen(p, e) /\ RunsNext(p, e, i) = R
    BY <1>7 DEF Legible, EndsOpen, RunsNext
  <2>2. CallsAfter(p, e, i) = [C EXCEPT ![e.ref] = [C[e.ref] EXCEPT ![e.key] = i]]
    BY <1>7, <1>k, <2>1 DEF CallAfter
  <2>3. ParseLine(p, e, i) = [p EXCEPT !.calls = [C EXCEPT ![e.ref] = [C[e.ref] EXCEPT ![e.key] = i]]]
    BY <1>7 DEF ParseLine, CallLine
  <2> HIDE DEF O, C, X, R
  <2> QED
    BY <1>1, <1>7, <1>o, <1>x, <2>1, <2>2, <2>3
<1>8. CASE e.ev = "done"
  <2>1. e.ref \in Refs /\ e.key \in Keys /\ ~EndsOpen(p, e)
    BY <1>8 DEF Legible, EndsOpen
  <2>2. RunsNext(p, e, i) = Append(R, Run(CallId(p, e, i), e.ref, "call", e.status))
    BY <1>8, <2>1 DEF RunsNext
  <2>3. CallsAfter(p, e, i) = [C EXCEPT ![e.ref] = [C[e.ref] EXCEPT ![e.key] = 0]]
    BY <1>8, <1>k, <2>1 DEF CallAfter
  <2>4. ParseLine(p, e, i) =
          [p EXCEPT !.calls = [C EXCEPT ![e.ref] = [C[e.ref] EXCEPT ![e.key] = 0]],
                    !.runs = Append(R, Run(CallId(p, e, i), e.ref, "call", e.status))]
    BY <1>8 DEF ParseLine, DoneLine, CallsAfterDone
  <2> HIDE DEF O, C, X, R
  <2> QED
    BY <1>1, <1>8, <1>o, <1>x, <2>1, <2>2, <2>3, <2>4
<1>9. CASE e.ev \notin {"start", "message", "end", "executor", "call", "done"}
  <2>1. ~EndsOpen(p, e) /\ RunsNext(p, e, i) = R
    BY <1>9 DEF EndsOpen, RunsNext
  <2>2. ParseLine(p, e, i) = p
    BY <1>9 DEF ParseLine
  <2> HIDE DEF O, C, X, R
  <2> QED
    BY <1>1, <1>9, <1>c, <1>o, <1>x, <2>1, <2>2
<1> QED
  BY <1>3, <1>4, <1>5, <1>6, <1>7, <1>8, <1>9

-----------------------------------------------------------------------------
(* What the dictionaries hold.                                             *)

\* The record of a run that has not ended.
OpenRun(L, i) ==
  [id |-> i, ref |-> L[i].ref, flow |-> L[i].flow, status |-> "succeeded",
   steps |-> Cardinality(MessagesOf(L, i)), outcome |-> None]

\* v is the open run of flow f of x.
SlotFits(L, f, x, v) ==
  \/ v = <<>> /\ \A i : ~IsOpen(L, f, x, i)
  \/ \E i : IsOpen(L, f, x, i) /\ v = <<OpenRun(L, i)>>

\* The run r is that of line j, an answer or the end of a flow.
RunOfLine(L, j, r) ==
  \/ L[j].ev = "done" /\ r = AnswerRun(L, j)
  \/ \E i : IsClosed(L, i, j) /\ r = TakenRun(L, i)

EndsRun(L, j) ==
  /\ j \in 1..Len(L)
  /\ L[j].ev = "done" \/ \E i : IsClosed(L, i, j)

\* The runs are those of the lines c[1], c[2], ..., in their order and without a gap.
RunsFit(L, runs, c) ==
  /\ c \in Seq(Nat)
  /\ Len(c) = Len(runs)
  /\ \A k \in 1..Len(runs) : c[k] \in 1..Len(L)
  /\ \A k, l \in 1..Len(runs) : k < l => c[k] < c[l]
  /\ \A k \in 1..Len(runs) : RunOfLine(L, c[k], runs[k])
  /\ \A j : EndsRun(L, j) => \E k \in 1..Len(runs) : c[k] = j

\* The parser's invariant: p is what it holds after the lines L.
ParserFits(L, p) ==
  /\ ParserShape(p)
  /\ \A f \in Flows, x \in Refs : SlotFits(L, f, x, p.open[f][x])
  /\ \A x \in Refs, k \in Keys : p.calls[x][k] = CallBefore(L, x, k, Len(L) + 1)
  /\ \A x \in Refs : p.executor[x] = LastOutcome(L, Untaken(L, x, Len(L) + 1))
  /\ \E c : RunsFit(L, p.runs, c)

\* The open run of a flow follows the lines about it.
LEMMA SlotFollows ==
  ASSUME NEW L, NEW e, NEW M, Grown(L, e, M), NEW f \in Flows, NEW x \in Refs, NEW v,
         SlotFits(L, f, x, v)
  PROVE  SlotFits(M, f, x, SlotAfter(v, e, f, x, Len(L) + 1))
<1> DEFINE n == Len(L)
           w == SlotAfter(v, e, f, x, n + 1)
<1>n. n \in Nat /\ Len(M) = n + 1 /\ M[n + 1] = e /\ \A j \in 1..n : M[j] = L[j]
  BY DEF Grown
<1>1. CASE e.ev = "start" /\ Touches(e, f, x)
  <2>1. IsOpen(M, f, x, n + 1)
    BY <1>1, OpenGrows DEF Touches
  <2>2. w = <<Run(n + 1, x, f, "succeeded")>>
    BY <1>1 DEF SlotAfter
  <2>3. Cardinality(MessagesOf(M, n + 1)) = 0
    <3>1. EndOf(M, n + 1) = n + 2
      BY EndOfNew
    <3>2. MessagesOf(M, n + 1) = {}
      <4>1. (n + 1) + 1..(n + 2) - 1 = {}
        BY <1>n
      <4> QED
        BY <3>1, <4>1 DEF MessagesOf
    <3> QED
      BY <3>2, FS_EmptySet
  <2>4. Run(n + 1, x, f, "succeeded") = OpenRun(M, n + 1)
    BY <1>1, <1>n, <2>3 DEF Run, OpenRun, Touches
  <2> QED
    BY <2>1, <2>2, <2>4 DEF SlotFits
<1>2. CASE e.ev = "end" /\ Touches(e, f, x)
  <2>1. w = <<>>
    BY <1>2 DEF SlotAfter
  <2>2. \A i : ~IsOpen(M, f, x, i)
    BY <1>2, OpenGrows DEF Touches
  <2> QED
    BY <2>1, <2>2 DEF SlotFits
<1>3. CASE ~(e.ev \in {"start", "end"} /\ Touches(e, f, x))
  <2>1. \A i : IsOpen(M, f, x, i) <=> IsOpen(L, f, x, i)
    BY <1>3, OpenGrows DEF Touches
  <2>2. CASE v = <<>> /\ \A i : ~IsOpen(L, f, x, i)
    <3>1. w = <<>>
      BY <1>3, <2>2 DEF SlotAfter
    <3> QED
      BY <2>1, <2>2, <3>1 DEF SlotFits
  <2>3. CASE \E i : IsOpen(L, f, x, i) /\ v = <<OpenRun(L, i)>>
    <3> PICK i : IsOpen(L, f, x, i) /\ v = <<OpenRun(L, i)>>
      BY <2>3
    <3>1. /\ i \in 1..n /\ EndOf(L, i) = n + 1 /\ M[i] = L[i]
          /\ L[i].flow = f /\ L[i].ref = x
      BY <1>n DEF IsOpen
    <3>2. ~Closing(e, L[i])
      BY <1>3, <3>1 DEF Closing, Touches
    <3>3. MessagesOf(L, i) \subseteq i + 1..n
      BY <3>1, MessagesGrow
    <3>4. IsFiniteSet(MessagesOf(L, i)) /\ Cardinality(MessagesOf(L, i)) \in Nat
      BY <1>n, <3>1, MessagesAreFinite
    <3>5. v # <<>> /\ v[1] = OpenRun(L, i)
      OBVIOUS
    <3>6. MessagesOf(M, i) = MessagesOf(L, i) \cup
            IF f = "item" /\ e.ev = "message" /\ e.ref = x THEN {n + 1} ELSE {}
      BY <3>1, <3>2, MessagesGrow
    <3>7. CASE e.ev = "message" /\ f = "item" /\ e.ref = x
      <4>1. w = <<[OpenRun(L, i) EXCEPT !.steps = @ + 1]>>
        BY <3>5, <3>7 DEF SlotAfter
      <4>2. n + 1 \notin MessagesOf(L, i) /\ MessagesOf(M, i) = MessagesOf(L, i) \cup {n + 1}
        <5>1. n + 1 \notin i + 1..n
          BY <1>n
        <5> QED
          BY <3>3, <3>6, <3>7, <5>1
      <4>3. Cardinality(MessagesOf(M, i)) = Cardinality(MessagesOf(L, i)) + 1
        BY <3>4, <4>2, FS_AddElement
      <4>4. [OpenRun(L, i) EXCEPT !.steps = @ + 1] = OpenRun(M, i)
        BY <3>1, <4>3 DEF OpenRun
      <4> QED
        BY <2>1, <4>1, <4>4 DEF SlotFits
    <3>8. CASE ~(e.ev = "message" /\ f = "item" /\ e.ref = x)
      <4>1. w = v
        BY <1>3, <3>8 DEF SlotAfter
      <4>2. MessagesOf(M, i) = MessagesOf(L, i)
        BY <3>6, <3>8
      <4>3. OpenRun(M, i) = OpenRun(L, i)
        BY <3>1, <4>2 DEF OpenRun
      <4> QED
        BY <2>1, <4>1, <4>3 DEF SlotFits
    <3> QED
      BY <3>7, <3>8
  <2> QED
    BY <2>2, <2>3 DEF SlotFits
<1> QED
  BY <1>1, <1>2, <1>3

\* A flow has an open run if a start is open.
LEMMA SlotIsOpen ==
  ASSUME NEW L, Len(L) \in Nat, NEW p, ParserFits(L, p), NEW f \in Flows, NEW x \in Refs
  PROVE  /\ p.open[f][x] # <<>> <=> \E i : IsOpen(L, f, x, i)
         /\ \A i : IsOpen(L, f, x, i) => p.open[f][x] = <<OpenRun(L, i)>>
<1>1. SlotFits(L, f, x, p.open[f][x])
  BY DEF ParserFits
<1>2. \A r : <<r>> # <<>>
  OBVIOUS
<1> QED
  BY <1>1, <1>2, OneIsOpen DEF SlotFits

\* The outcome that waits follows the executor lines and the runs that take it.
LEMMA ExecutorFollows ==
  ASSUME NEW L, NEW e, NEW M, Grown(L, e, M), NEW p, ParserFits(L, p), NEW x \in Refs
  PROVE  ExecutorNext(p, e)[x] = LastOutcome(M, Untaken(M, x, Len(L) + 2))
<1> DEFINE n == Len(L)
<1>n. n \in Nat /\ M[n + 1] = e /\ Legible(e) /\ DOMAIN L = 1..n
  BY DEF Grown
<1>1. p.executor[x] = LastOutcome(L, Untaken(L, x, n + 1))
  BY DEF ParserFits
<1>2. Untaken(L, x, n + 1) \subseteq 1..n
  <2>1. n + 1 \in 1..n + 1 /\ (n + 1) - 1 = n
    BY <1>n
  <2> QED
    BY <1>n, <2>1, UntakenIs
<1>3. EndsOpen(p, e) <=> e.ev = "end" /\ \E s : IsOpen(L, e.flow, e.ref, s)
  <2>1. e.ev = "end" => e.flow \in Flows /\ e.ref \in Refs
    BY <1>n DEF Legible
  <2> QED
    BY <2>1, <1>n, SlotIsOpen DEF EndsOpen
<1>4. CASE e.ev = "executor" /\ e.ref = x
  <2>1. Untaken(M, x, n + 2) = Untaken(L, x, n + 1) \cup {n + 1}
    BY <1>4, UntakenGrows
  <2>2. /\ n + 1 \in Untaken(M, x, n + 2) /\ Untaken(M, x, n + 2) \in SUBSET Nat
        /\ \A k \in Untaken(M, x, n + 2) : k <= n + 1
    BY <2>1, <1>2, <1>n
  <2>3. Max(Untaken(M, x, n + 2)) = n + 1
    BY <1>n, <2>2, MaxIs
  <2>4. ExecutorNext(p, e)[x] = e.outcome
    BY <1>4 DEF ExecutorNext
  <2> QED
    BY <1>n, <2>2, <2>3, <2>4 DEF LastOutcome
<1>5. CASE EndsOpen(p, e) /\ TakesOutcome(e) /\ e.ref = x
  <2>1. Untaken(M, x, n + 2) = {}
    BY <1>3, <1>5, UntakenGrows
  <2>2. ExecutorNext(p, e)[x] = None
    BY <1>3, <1>5 DEF ExecutorNext
  <2> QED
    BY <2>1, <2>2 DEF LastOutcome
<1>6. CASE ~(e.ev = "executor" /\ e.ref = x) /\ ~(EndsOpen(p, e) /\ TakesOutcome(e) /\ e.ref = x)
  <2>1. Untaken(M, x, n + 2) = Untaken(L, x, n + 1)
    <3>1. ~(e.ev = "end" /\ e.ref = x /\ TakesOutcome(e) /\ \E s : IsOpen(L, e.flow, x, s))
      BY <1>3, <1>6
    <3> QED
      BY <1>6, <3>1, UntakenGrows
  <2>2. LastOutcome(M, Untaken(L, x, n + 1)) = LastOutcome(L, Untaken(L, x, n + 1))
    BY <1>2, LastOutcomeStays
  <2>3. ExecutorNext(p, e)[x] = p.executor[x]
    BY <1>6 DEF ExecutorNext
  <2> QED
    BY <1>1, <2>1, <2>2, <2>3
<1> QED
  BY <1>4, <1>5, <1>6
-----------------------------------------------------------------------------
(* The runs that have ended.                                               *)

\* What line E ends is a flow of its own item that begins before it.
LEMMA ClosedBy ==
  ASSUME NEW L, Len(L) \in Nat, NEW i, NEW E, IsClosed(L, i, E)
  PROVE  /\ i \in 1..Len(L) /\ E \in 1..Len(L) /\ i < E /\ EndOf(L, i) = E
         /\ L[i].ev = "start" /\ L[E].ev = "end"
         /\ L[E].ref = L[i].ref /\ L[E].flow = L[i].flow
<1>1. i \in 1..Len(L) /\ E \in 1..Len(L) /\ EndOf(L, i) = E
  BY DEF IsClosed
<1>2. E \in Ends(L, i)
  BY <1>1, EndOfIsFirst
<1> QED
  BY <1>1, <1>2 DEF IsClosed, Ends

\* A line ends one flow.
LEMMA OneIsClosed ==
  ASSUME NEW L, Len(L) \in Nat, NEW i, NEW j, NEW E, IsClosed(L, i, E), IsClosed(L, j, E)
  PROVE  i = j
<1> SUFFICES ASSUME NEW k \in 1..Len(L), NEW l \in 1..Len(L), k < l,
                    IsClosed(L, k, E), IsClosed(L, l, E)
             PROVE  FALSE
  <2>1. i \in 1..Len(L) /\ j \in 1..Len(L)
    BY DEF IsClosed
  <2> QED
    BY <2>1
<1>1. /\ k \in 1..Len(L) /\ l \in 1..Len(L) /\ l < E /\ EndOf(L, k) = E /\ E \in 1..Len(L)
      /\ L[l].ev = "start" /\ L[l].ref = L[k].ref /\ L[l].flow = L[k].flow
  BY ClosedBy
<1>2. l \in Ends(L, k)
  BY <1>1 DEF Ends
<1>3. EndOf(L, k) <= l
  BY <1>1, <1>2, EndOfIsFirst
<1> QED
  BY <1>1, <1>3

\* The flow that was open before the line that ends it.
LEMMA OpenIsClosed ==
  ASSUME NEW L, NEW e, NEW M, Grown(L, e, M), NEW i, IsOpen(L, e.flow, e.ref, i), e.ev = "end"
  PROVE  IsClosed(M, i, Len(L) + 1)
<1> DEFINE n == Len(L)
<1>n. n \in Nat /\ Len(M) = n + 1 /\ M[n + 1] = e /\ \A j \in 1..n : M[j] = L[j]
  BY DEF Grown
<1>1. i \in 1..n /\ EndOf(L, i) = n + 1 /\ Closing(e, L[i]) /\ L[i].ev = "start"
  BY DEF IsOpen, Closing
<1>2. EndOf(M, i) = n + 1 /\ M[i] = L[i]
  BY <1>1, <1>n, EndOfGrows
<1> QED
  BY <1>1, <1>2, <1>n DEF IsClosed

\* The lines that end a run are the same, but for the new one.
LEMMA EndsRunGrows ==
  ASSUME NEW L, NEW e, NEW M, Grown(L, e, M), NEW j
  PROVE  EndsRun(M, j) <=>
           \/ EndsRun(L, j)
           \/ /\ j = Len(L) + 1
              /\ e.ev = "done" \/ (e.ev = "end" /\ \E i : IsOpen(L, e.flow, e.ref, i))
<1> DEFINE n == Len(L)
<1>n. n \in Nat /\ Len(M) = n + 1 /\ M[n + 1] = e /\ \A k \in 1..n : M[k] = L[k]
  BY DEF Grown
<1>1. CASE j \in 1..n
  <2>1. \A i : IsClosed(M, i, j) <=> IsClosed(L, i, j)
    <3>1. j # n + 1
      BY <1>1, <1>n
    <3> QED
      BY <3>1, ClosedGrows
  <2>2. j # n + 1 /\ j \in 1..n + 1 /\ M[j] = L[j]
    BY <1>1, <1>n
  <2> QED
    BY <1>1, <1>n, <2>1, <2>2 DEF EndsRun
<1>2. CASE j = n + 1
  <2>1. \A i : ~IsClosed(L, i, j)
    BY <1>2, <1>n DEF IsClosed
  <2>2. (\E i : IsClosed(M, i, j)) <=> e.ev = "end" /\ \E i : IsOpen(L, e.flow, e.ref, i)
    BY <1>2, <2>1, ClosedGrows, OpenIsClosed
  <2>3. j \in 1..n + 1 /\ j \notin 1..n
    BY <1>2, <1>n
  <2> QED
    BY <1>2, <1>n, <2>2, <2>3 DEF EndsRun
<1>3. CASE j \notin 1..n + 1
  BY <1>3, <1>n DEF EndsRun
<1> QED
  BY <1>1, <1>2, <1>3, <1>n

\* The item flows among the runs of x, by the lines c[1], c[2], ... of the runs.
ItemsFit(L, p, c, x) ==
  /\ ClosedItems(p, x) \subseteq 1..Len(p.runs)
  /\ \A k \in 1..Len(p.runs) :
       k \in ClosedItems(p, x) <=> \E i : IsClosed(L, i, c[k]) /\ L[i].ref = x

\* They are those whose flows ended.
LEMMA ClosedItemsAre ==
  ASSUME NEW L, NEW e, NEW M, Grown(L, e, M), NEW p, NEW c, RunsFit(L, p.runs, c),
         DOMAIN p.runs = 1..Len(p.runs), NEW x
  PROVE  ItemsFit(L, p, c, x)
<1>1. ClosedItems(p, x) \subseteq 1..Len(p.runs)
  BY DEF ClosedItems
<1>2. ASSUME NEW k \in 1..Len(p.runs)
      PROVE  k \in ClosedItems(p, x) <=> \E i : IsClosed(L, i, c[k]) /\ L[i].ref = x
  <2>1. RunOfLine(L, c[k], p.runs[k])
    BY DEF RunsFit
  <2>2. Len(L) \in Nat
    BY DEF Grown
  <2>3. CASE L[c[k]].ev = "done" /\ p.runs[k] = AnswerRun(L, c[k])
    <3>1. p.runs[k].flow = "call"
      BY <2>3 DEF AnswerRun
    <3>2. \A i : ~IsClosed(L, i, c[k])
      BY <2>3 DEF IsClosed
    <3> QED
      BY <3>1, <3>2 DEF ClosedItems, Flows
  <2>4. CASE \E i : IsClosed(L, i, c[k]) /\ p.runs[k] = TakenRun(L, i)
    <3> PICK i : IsClosed(L, i, c[k]) /\ p.runs[k] = TakenRun(L, i)
      BY <2>4
    <3>1. L[i].flow \in Flows
      <4>1. i \in 1..Len(L) /\ L[i].ev = "start"
        BY DEF IsClosed
      <4> QED
        BY <4>1 DEF Grown, Legible
    <3>2. p.runs[k].flow \in Flows /\ p.runs[k].ref = L[i].ref
      BY <3>1 DEF TakenRun
    <3>3. \A j : IsClosed(L, j, c[k]) => j = i
      BY <2>2, OneIsClosed
    <3> QED
      BY <3>2, <3>3 DEF ClosedItems
  <2> QED
    BY <2>1, <2>3, <2>4 DEF RunOfLine
<1> QED
  BY <1>1, <1>2 DEF ItemsFit

\* The parser's last run of an item is the one that ended last.
LEMMA LatestIs ==
  ASSUME NEW L, NEW e, NEW M, Grown(L, e, M), NEW p, NEW c, RunsFit(L, p.runs, c),
         p.runs \in Seq(TracedRuns), NEW k \in 1..Len(p.runs), NEW i, IsClosed(L, i, c[k])
  PROVE  IsLatest(L, i) <=> k = Max(ClosedItems(p, L[i].ref))
<1> DEFINE x == L[i].ref
           S == ClosedItems(p, x)
<1>1. Len(p.runs) \in Nat /\ DOMAIN p.runs = 1..Len(p.runs)
  BY LenProperties
<1>2. /\ S \subseteq 1..Len(p.runs)
      /\ \A l \in 1..Len(p.runs) : l \in S <=> \E j : IsClosed(L, j, c[l]) /\ L[j].ref = x
  <2>1. ItemsFit(L, p, c, x)
    BY <1>1, ClosedItemsAre
  <2> QED
    BY <2>1 DEF ItemsFit
<1>3. k \in S
  BY <1>2
<1>4. \A l \in 1..Len(p.runs) : c[l] \in Nat
  BY DEF RunsFit
<1>5. \A l, m \in 1..Len(p.runs) : l < m => c[l] < c[m]
  BY DEF RunsFit
<1>6. EndOf(L, i) = c[k]
  BY DEF IsClosed
<1>s. S \in SUBSET Nat /\ S \in SUBSET (0..Len(p.runs))
  BY <1>1, <1>2
<1>7. ASSUME IsLatest(L, i)
      PROVE  k = Max(S)
  <2>1. ASSUME NEW l \in S
        PROVE  l <= k
    <3>1. l \in 1..Len(p.runs)
      BY <1>2
    <3>2. PICK j : IsClosed(L, j, c[l]) /\ L[j].ref = x
      BY <1>2, <3>1
    <3>3. c[l] <= c[k]
      BY <1>6, <1>7, <3>2 DEF IsLatest
    <3>4. ~(k < l)
      BY <1>4, <1>5, <3>1, <3>3
    <3> QED
      BY <1>1, <3>1, <3>4
  <2> HIDE DEF S
  <2> QED
    BY <2>1, <1>3, <1>s, MaxIs
<1>8. ASSUME k = Max(S)
      PROVE  IsLatest(L, i)
  <2>1. \A l \in S : l <= k
    <3> HIDE DEF S
    <3> QED
      BY <1>1, <1>3, <1>8, <1>s, MaxOfSet
  <2>2. ASSUME NEW s, NEW E, IsClosed(L, s, E), L[s].ref = x
        PROVE  E <= c[k]
    <3>1. EndsRun(L, E)
      BY <2>2 DEF EndsRun, IsClosed
    <3>2. PICK l \in 1..Len(p.runs) : c[l] = E
      BY <3>1 DEF RunsFit
    <3>3. l \in S
      BY <1>2, <2>2, <3>2
    <3>4. l <= k
      BY <2>1, <3>3
    <3>5. l = k \/ l < k
      BY <1>1, <3>4
    <3> QED
      BY <1>4, <1>5, <3>2, <3>5
  <2> QED
    BY <1>6, <2>2 DEF IsLatest
<1> QED
  BY <1>7, <1>8
\* The run of an earlier line is the same, but for the stamp of a new executor line.
LEMMA RunOfLineGrows ==
  ASSUME NEW L, NEW e, NEW M, Grown(L, e, M), NEW j \in 1..Len(L), NEW r, RunOfLine(L, j, r)
  PROVE  /\ (\A i : IsClosed(L, i, j) => ~(e.ev = "executor" /\ e.ref = L[i].ref /\ IsLatest(L, i)))
              => RunOfLine(M, j, r)
         /\ \A i : IsClosed(L, i, j) /\ e.ev = "executor" /\ e.ref = L[i].ref /\ IsLatest(L, i)
              => RunOfLine(M, j, [r EXCEPT !.outcome = e.outcome])
<1>n. Len(L) \in Nat /\ M[j] = L[j]
  BY DEF Grown
<1>1. CASE L[j].ev = "done" /\ r = AnswerRun(L, j)
  <2>1. \A i : ~IsClosed(L, i, j)
    BY <1>1 DEF IsClosed
  <2>2. AnswerRun(M, j) = AnswerRun(L, j)
    BY AnswerRunGrows
  <2> QED
    BY <1>n, <1>1, <2>1, <2>2 DEF RunOfLine
<1>2. CASE \E i : IsClosed(L, i, j) /\ r = TakenRun(L, i)
  <2> PICK i : IsClosed(L, i, j) /\ r = TakenRun(L, i)
    BY <1>2
  <2>1. IsClosed(M, i, j)
    BY ClosedGrows
  <2>2. \A s : IsClosed(L, s, j) => s = i
    BY <1>n, OneIsClosed
  <2>3. CASE e.ev = "executor" /\ e.ref = L[i].ref /\ IsLatest(L, i)
    <3>1. TakenRun(M, i) = [r EXCEPT !.outcome = e.outcome]
      BY <2>3, FlowRunGrows
    <3>2. RunOfLine(M, j, [r EXCEPT !.outcome = e.outcome])
      BY <2>1, <3>1 DEF RunOfLine
    <3> QED
      BY <2>3, <3>2
  <2>4. CASE ~(e.ev = "executor" /\ e.ref = L[i].ref /\ IsLatest(L, i))
    <3>1. TakenRun(M, i) = r
      BY <2>4, FlowRunGrows
    <3>2. RunOfLine(M, j, r)
      BY <2>1, <3>1 DEF RunOfLine
    <3> QED
      BY <2>2, <2>4, <3>2
  <2> QED
    BY <2>3, <2>4
<1> QED
  BY <1>1, <1>2 DEF RunOfLine

\* A line that ends a run adds it as the last.
LEMMA RunIsAdded ==
  ASSUME NEW L, NEW e, NEW M, Grown(L, e, M), NEW R, NEW c, RunsFit(L, R, c), NEW T, R \in Seq(T),
         e.ev # "executor", NEW r, RunOfLine(M, Len(L) + 1, r)
  PROVE  RunsFit(M, Append(R, r), Append(c, Len(L) + 1))
<1> DEFINE n == Len(L)
           m == Len(R)
           Q == Append(R, r)
           d == Append(c, n + 1)
<1>n. n \in Nat /\ Len(M) = n + 1 /\ M[n + 1] = e
  BY DEF Grown
<1>1. /\ m \in Nat /\ Len(Q) = m + 1
      /\ (\A k \in 1..m : Q[k] = R[k]) /\ Q[m + 1] = r
  <2>1. R \in Seq(T \cup {r}) /\ r \in T \cup {r}
    <3>1. \A k \in 1..Len(R) : R[k] \in T
      BY ElementOfSeq
    <3> QED
      OBVIOUS
  <2> QED
    BY <2>1, AppendProperties, LenProperties
<1>2. c \in Seq(Nat) /\ Len(c) = m /\ n + 1 \in Nat
  BY <1>n DEF RunsFit
<1>3. /\ d \in Seq(Nat) /\ Len(d) = m + 1
      /\ (\A k \in 1..m : d[k] = c[k]) /\ d[m + 1] = n + 1
  BY <1>2, AppendProperties
<1>4. \A k \in 1..m : c[k] \in 1..n /\ RunOfLine(M, c[k], R[k])
  <2> SUFFICES ASSUME NEW k \in 1..m
               PROVE  c[k] \in 1..n /\ RunOfLine(M, c[k], R[k])
    OBVIOUS
  <2>1. c[k] \in 1..n /\ RunOfLine(L, c[k], R[k])
    BY DEF RunsFit
  <2> QED
    BY <2>1, RunOfLineGrows
<1>5. \A k, l \in 1..m : k < l => c[k] < c[l]
  BY DEF RunsFit
<1>6. \A k \in 1..m + 1 : k \in 1..m \/ k = m + 1
  BY <1>1
<1>7. \A j : EndsRun(M, j) => EndsRun(L, j) \/ j = n + 1
  BY EndsRunGrows
<1>8. \A j : EndsRun(L, j) => \E k \in 1..m : c[k] = j
  BY DEF RunsFit
<1> HIDE DEF n, m, Q, d
<1>9. \A k \in 1..m + 1 : d[k] \in 1..n + 1 /\ RunOfLine(M, d[k], Q[k])
  <2>1. \A k \in 1..m : d[k] \in 1..n + 1 /\ RunOfLine(M, d[k], Q[k])
    BY <1>n, <1>1, <1>3, <1>4
  <2>2. d[m + 1] \in 1..n + 1 /\ RunOfLine(M, d[m + 1], Q[m + 1])
    BY <1>n, <1>1, <1>3 DEF n
  <2> QED
    BY <2>1, <2>2, <1>6
<1>10. \A k, l \in 1..m + 1 : k < l => d[k] < d[l]
  <2> SUFFICES ASSUME NEW k \in 1..m + 1, NEW l \in 1..m + 1, k < l
               PROVE  d[k] < d[l]
    OBVIOUS
  <2>1. k \in 1..m
    BY <1>1
  <2>2. CASE l \in 1..m
    BY <2>1, <2>2, <1>3, <1>5
  <2>3. CASE l = m + 1
    BY <2>1, <2>3, <1>3, <1>4, <1>n
  <2> QED
    BY <2>2, <2>3, <1>6
<1>11. \A j : EndsRun(M, j) => \E k \in 1..m + 1 : d[k] = j
  <2> SUFFICES ASSUME NEW j, EndsRun(M, j)
               PROVE  \E k \in 1..m + 1 : d[k] = j
    OBVIOUS
  <2>1. CASE j = n + 1
    BY <1>1, <1>3, <2>1
  <2>2. CASE EndsRun(L, j)
    <3> PICK k \in 1..m : c[k] = j
      BY <1>8, <2>2
    <3>1. k \in 1..m + 1 /\ d[k] = j
      BY <1>1, <1>3
    <3> QED
      BY <3>1
  <2> QED
    BY <1>7, <2>1, <2>2
<1> QED
  <2>1. RunsFit(M, Q, d)
    BY <1>n, <1>1, <1>3, <1>9, <1>10, <1>11 DEF RunsFit
  <2> QED
    BY <2>1 DEF Q, d, n

\* A line that ends none leaves the runs, each as its line says.
LEMMA RunsStay ==
  ASSUME NEW L, NEW e, NEW M, Grown(L, e, M), NEW R, NEW c, RunsFit(L, R, c),
         NEW Q, Len(Q) = Len(R), \A k \in 1..Len(R) : RunOfLine(M, c[k], Q[k]),
         ~EndsRun(M, Len(L) + 1)
  PROVE  RunsFit(M, Q, c)
<1>1. Len(L) \in Nat /\ Len(M) = Len(L) + 1
  BY DEF Grown
<1>2. \A k \in 1..Len(Q) : c[k] \in 1..Len(M)
  <2>1. \A k \in 1..Len(Q) : c[k] \in 1..Len(L)
    BY DEF RunsFit
  <2> QED
    BY <1>1, <2>1
<1>3. \A j : EndsRun(M, j) => EndsRun(L, j)
  BY EndsRunGrows
<1> QED
  BY <1>2, <1>3 DEF RunsFit
\* The runs follow the lines: a line that ends a run adds it, an executor line stamps the
\* item's run that ended last.
LEMMA RunsFollow ==
  ASSUME NEW L, NEW e, NEW M, Grown(L, e, M), NEW p, ParserFits(L, p)
  PROVE  \E c : RunsFit(M, RunsNext(p, e, Len(L) + 1), c)
<1> DEFINE n == Len(L)
           R == p.runs
           x == e.ref
<1>n. n \in Nat /\ M[n + 1] = e /\ Legible(e)
  BY DEF Grown
<1>p. ParserShape(p) /\ R \in Seq(TracedRuns)
  BY DEF ParserFits, ParserShape
<1> PICK c : RunsFit(L, R, c)
  BY DEF ParserFits
<1>o. EndsOpen(p, e) <=> e.ev = "end" /\ \E s : IsOpen(L, e.flow, e.ref, s)
  <2>1. e.ev = "end" => e.flow \in Flows /\ e.ref \in Refs
    BY <1>n DEF Legible
  <2> QED
    BY <2>1, <1>n, SlotIsOpen DEF EndsOpen
<1>e. EndsRun(M, n + 1) => EndsOpen(p, e) \/ e.ev = "done"
  <2>1. ~EndsRun(L, n + 1)
    BY <1>n DEF EndsRun
  <2> QED
    BY <2>1, <1>o, EndsRunGrows
<1>1. CASE EndsOpen(p, e)
  <2>1. e.flow \in Flows /\ e.ref \in Refs /\ e.ev = "end"
    BY <1>1, <1>n, <1>o DEF Legible
  <2> PICK i : IsOpen(L, e.flow, e.ref, i)
    BY <1>1, <1>o
  <2>2. p.open[e.flow][e.ref] = <<OpenRun(L, i)>>
    BY <1>n, <2>1, SlotIsOpen
  <2>3. p.open[e.flow][e.ref][1] = OpenRun(L, i)
    BY <2>2
  <2>4. L[i].flow = e.flow /\ L[i].ref = e.ref
    BY DEF IsOpen
  <2>5. p.executor[e.ref] = LastOutcome(L, Untaken(L, e.ref, n + 1))
    BY <2>1 DEF ParserFits
  <2>6. EndedRun(p, e) = TakenRun(M, i)
    <3> DEFINE steps == Cardinality(MessagesOf(L, i))
               taken == TakesOutcome(e)
               outcome == p.executor[e.ref]
               open == [id |-> i, ref |-> e.ref, flow |-> e.flow, status |-> "succeeded",
                        steps |-> steps, outcome |-> None]
    <3>1. TakenRun(M, i) =
           [id |-> i, ref |-> e.ref, flow |-> e.flow, status |-> e.status,
            steps |-> steps, outcome |-> IF taken THEN outcome ELSE None]
      BY <2>1, <2>5, FlowRunEnded
    <3>2. OpenRun(L, i) = open
      BY <2>4 DEF OpenRun
    <3>3. EndedRun(p, e) =
            [[open EXCEPT !.status = e.status] EXCEPT !.outcome = IF taken THEN outcome ELSE @]
      BY <2>3, <3>2 DEF EndedRun, Closed
    <3> HIDE DEF steps, taken, outcome
    <3> QED
      BY <3>1, <3>3
  <2>7. RunOfLine(M, n + 1, EndedRun(p, e))
    BY <2>1, <2>6, OpenIsClosed DEF RunOfLine
  <2>8. RunsNext(p, e, n + 1) = Append(R, EndedRun(p, e))
    BY <1>1 DEF RunsNext
  <2>9. RunsFit(M, Append(R, EndedRun(p, e)), Append(c, n + 1))
    BY <1>p, <2>1, <2>7, RunIsAdded
  <2> QED
    BY <2>8, <2>9
<1>2. CASE e.ev = "done"
  <2> DEFINE r == Run(CallId(p, e, n + 1), e.ref, "call", e.status)
  <2>1. e.ref \in Refs /\ e.key \in Keys /\ ~EndsOpen(p, e)
    BY <1>2, <1>n DEF Legible, EndsOpen
  <2>2. p.calls[e.ref][e.key] = CallBefore(L, e.ref, e.key, n + 1)
    BY <2>1 DEF ParserFits
  <2>3. r = AnswerRun(M, n + 1)
    BY <2>2, AnswerRunGrows DEF Run, CallId
  <2>4. RunOfLine(M, n + 1, r)
    BY <1>2, <1>n, <2>3 DEF RunOfLine
  <2>5. RunsNext(p, e, n + 1) = Append(R, r)
    BY <1>2, <2>1 DEF RunsNext
  <2> HIDE DEF r
  <2>6. RunsFit(M, Append(R, r), Append(c, n + 1))
    BY <1>2, <1>p, <2>4, RunIsAdded
  <2> QED
    BY <2>5, <2>6
<1>l. ASSUME NEW k \in 1..Len(R)
      PROVE  c[k] \in 1..n /\ RunOfLine(L, c[k], R[k])
  BY DEF RunsFit
<1>i. /\ ClosedItems(p, x) \subseteq 1..Len(R)
      /\ \A k \in 1..Len(R) :
           k \in ClosedItems(p, x) <=> \E i : IsClosed(L, i, c[k]) /\ L[i].ref = x
  <2>1. DOMAIN R = 1..Len(R)
    BY <1>p, LenProperties
  <2>2. ItemsFit(L, p, c, x)
    BY <2>1, ClosedItemsAre
  <2> QED
    BY <2>2 DEF ItemsFit
<1>3. CASE e.ev = "executor" /\ ClosedItems(p, x) # {}
  <2> DEFINE m == Max(ClosedItems(p, x))
  <2>1. m \in ClosedItems(p, x) /\ m \in 1..Len(R) /\ Len(R) \in Nat
    <3>1. Len(R) \in Nat
      BY <1>p, LenProperties
    <3>2. ClosedItems(p, x) \in SUBSET (0..Len(R))
      BY <1>i, <3>1
    <3> QED
      BY <1>3, <1>i, <3>1, <3>2, MaxOfSet
  <2>2. RunsNext(p, e, n + 1) = Stamped(p, e) /\ ~EndsRun(M, n + 1)
    BY <1>3, <1>e DEF RunsNext, EndsOpen
  <2>3. ASSUME NEW k \in 1..Len(R)
        PROVE  RunOfLine(M, c[k], Stamped(p, e)[k])
    <3>1. k \in DOMAIN R
      BY <1>p, LenProperties
    <3>2. \A i : IsClosed(L, i, c[k]) /\ L[i].ref = x => (IsLatest(L, i) <=> k = m)
      BY <1>p, LatestIs
    <3>3. CASE k = m
      <4>1. PICK i : IsClosed(L, i, c[k]) /\ L[i].ref = x
        BY <1>i, <2>1, <3>3
      <4>2. IsLatest(L, i)
        BY <3>2, <3>3, <4>1
      <4>3. RunOfLine(M, c[k], [R[k] EXCEPT !.outcome = e.outcome])
        BY <1>3, <1>l, <4>1, <4>2, RunOfLineGrows
      <4>4. Stamped(p, e)[k] = [R[k] EXCEPT !.outcome = e.outcome]
        BY <3>1, <3>3 DEF Stamped
      <4> QED
        BY <4>3, <4>4
    <3>4. CASE k # m
      <4>1. \A i : IsClosed(L, i, c[k]) => ~(e.ref = L[i].ref /\ IsLatest(L, i))
        BY <3>2, <3>4
      <4>2. RunOfLine(M, c[k], R[k])
        BY <1>l, <4>1, RunOfLineGrows
      <4>3. Stamped(p, e)[k] = R[k]
        BY <3>1, <3>4 DEF Stamped
      <4> QED
        BY <4>2, <4>3
    <3> QED
      BY <3>3, <3>4
  <2>4. Len(Stamped(p, e)) = Len(R)
    BY <1>p, LenProperties DEF Stamped
  <2>5. RunsFit(M, Stamped(p, e), c)
    BY <2>2, <2>3, <2>4, RunsStay
  <2> QED
    BY <2>2, <2>5
<1>4. CASE /\ ~EndsOpen(p, e) /\ e.ev # "done"
           /\ ~(e.ev = "executor" /\ ClosedItems(p, x) # {})
  <2>1. RunsNext(p, e, n + 1) = R /\ ~EndsRun(M, n + 1)
    BY <1>4, <1>e DEF RunsNext
  <2>2. ASSUME NEW k \in 1..Len(R)
        PROVE  RunOfLine(M, c[k], R[k])
    <3>1. \A i : IsClosed(L, i, c[k]) =>
            ~(e.ev = "executor" /\ e.ref = L[i].ref /\ IsLatest(L, i))
      BY <1>i, <1>4
    <3> QED
      BY <1>l, <3>1, RunOfLineGrows
  <2>3. RunsFit(M, R, c)
    BY <2>1, <2>2, RunsStay
  <2> QED
    BY <2>1, <2>3
<1> QED
  BY <1>1, <1>2, <1>3, <1>4
-----------------------------------------------------------------------------
(* The parser's step.                                                      *)

\* The trace so far: its lines are the host's.
IsTrace(L) == L \in Seq(Lines) /\ Len(L) \in Nat /\ DOMAIN L = 1..Len(L)
              /\ \A i \in 1..Len(L) : L[i] \in Lines /\ Legible(L[i])

\* The lines of every trace.
LEMMA TraceLines ==
  ASSUME NEW L \in Seq(Lines)
  PROVE  IsTrace(L)
<1>1. Len(L) \in Nat /\ DOMAIN L = 1..Len(L) /\ \A i \in 1..Len(L) : L[i] \in Lines
  BY LenProperties, ElementOfSeq
<1> QED
  BY <1>1, BackfillConstants DEF IsTrace

\* An outcome is None or what an executor line says.
LEMMA OutcomesAre ==
  ASSUME NEW L, IsTrace(L)
  PROVE  /\ \A S \in SUBSET (1..Len(L)) :
              (\A k \in S : L[k].ev = "executor") => LastOutcome(L, S) \in Outcomes
         /\ \A i \in 1..Len(L) : OutcomeOf(L, i) \in Outcomes
<1> DEFINE n == Len(L)
<1>n. n \in Nat /\ DOMAIN L = 1..n
  BY DEF IsTrace
<1>1. ASSUME NEW S \in SUBSET (1..n), \A k \in S : L[k].ev = "executor"
      PROVE  LastOutcome(L, S) \in Outcomes
  <2>1. CASE S = {}
    BY <2>1 DEF LastOutcome, Outcomes
  <2>2. CASE S # {}
    <3>1. Max(S) \in S
      <4>1. S \in SUBSET (0..n)
        BY <1>n
      <4> QED
        BY <1>n, <2>2, <4>1, MaxOfSet
    <3>2. L[Max(S)] \in Lines /\ L[Max(S)].ev = "executor"
      BY <1>1, <3>1 DEF IsTrace
    <3> QED
      BY <2>2, <3>2 DEF LastOutcome, Outcomes
  <2> QED
    BY <2>1, <2>2
<1>2. ASSUME NEW i \in 1..n
      PROVE  OutcomeOf(L, i) \in Outcomes
  <2>e. EndOf(L, i) \in i + 1..n + 1
    BY <1>n, EndOfIsFirst
  <2>1. Stamps(L, i) \in SUBSET (1..n) /\ \A k \in Stamps(L, i) : L[k].ev = "executor"
    BY <1>n, <2>e DEF Stamps
  <2>2. LastOutcome(L, Stamps(L, i)) \in Outcomes
    BY <1>1, <2>1
  <2>3. EndOf(L, i) \in 1..n => LastOutcome(L, Untaken(L, L[i].ref, EndOf(L, i))) \in Outcomes
    <3> SUFFICES ASSUME EndOf(L, i) \in 1..n
                 PROVE  LastOutcome(L, Untaken(L, L[i].ref, EndOf(L, i))) \in Outcomes
      OBVIOUS
    <3>1. /\ Untaken(L, L[i].ref, EndOf(L, i)) \in SUBSET (1..n)
          /\ \A k \in Untaken(L, L[i].ref, EndOf(L, i)) : L[k].ev = "executor"
      BY <1>n DEF Untaken
    <3> QED
      BY <1>1, <3>1
  <2>4. None \in Outcomes
    BY DEF Outcomes
  <2> QED
    BY <1>n, <2>2, <2>3, <2>4 DEF OutcomeOf
<1> QED
  BY <1>1, <1>2

\* What a run of the lines is made of.
LEMMA RunsAreTraced ==
  ASSUME NEW L, IsTrace(L)
  PROVE  /\ \A i \in Started(L) : TakenRun(L, i) \in TracedRuns
         /\ \A j \in Answers(L) : AnswerRun(L, j) \in TracedRuns
<1> DEFINE n == Len(L)
<1>n. n \in Nat /\ DOMAIN L = 1..n
  BY DEF IsTrace
<1>1. ASSUME NEW i \in Started(L)
      PROVE  TakenRun(L, i) \in TracedRuns
  <2>1. i \in 1..n /\ i \in Nat /\ L[i].ev = "start" /\ L[i].ref \in Refs /\ L[i].flow \in Flows
    BY <1>n DEF Started, IsTrace, Legible
  <2>2. StatusOf(L, i) \in Statuses
    BY <1>n DEF StatusOf, Started, IsTrace, Legible, Statuses
  <2>3. Cardinality(MessagesOf(L, i)) \in Nat
    BY <1>n, <2>1, MessagesAreFinite
  <2>4. OutcomeOf(L, i) \in Outcomes
    BY <2>1, OutcomesAre
  <2> QED
    BY <2>1, <2>2, <2>3, <2>4 DEF TakenRun, TracedRuns
<1>2. ASSUME NEW j \in Answers(L)
      PROVE  AnswerRun(L, j) \in TracedRuns
  <2>1. /\ j \in 1..n /\ j \in Nat
        /\ L[j].ref \in Refs /\ L[j].key \in Keys /\ L[j].status \in Statuses
    BY <1>n DEF Answers, IsTrace, Legible
  <2>2. CallOf(L, j) \in Nat
    <3> DEFINE S == CallsBefore(L, L[j].ref, L[j].key, j)
    <3>1. S \in SUBSET Nat /\ S \in SUBSET (0..j)
      BY <2>1 DEF CallsBefore
    <3>2. S # {} => Max(S) \in S
      <4> HIDE DEF S
      <4> QED
        BY <2>1, <3>1, MaxOfSet
    <3>3. CallBefore(L, L[j].ref, L[j].key, j) \in Nat
      BY <3>1, <3>2 DEF CallBefore
    <3> QED
      BY <2>1, <3>3 DEF CallOf
  <2>3. None \in Outcomes
    BY DEF Outcomes
  <2> QED
    BY <2>1, <2>2, <2>3 DEF AnswerRun, TracedRuns
<1> QED
  BY <1>1, <1>2

\* Every run that fits its line is one of them.
LEMMA RunOfLineIs ==
  ASSUME NEW L, IsTrace(L), NEW j \in 1..Len(L), NEW r, RunOfLine(L, j, r)
  PROVE  r \in TakenRuns(L) /\ r \in TracedRuns
<1>n. Len(L) \in Nat /\ DOMAIN L = 1..Len(L)
  BY DEF IsTrace
<1>1. CASE L[j].ev = "done" /\ r = AnswerRun(L, j)
  <2>1. j \in Answers(L)
    BY <1>1, <1>n DEF Answers
  <2> QED
    BY <1>1, <2>1, RunsAreTraced DEF TakenRuns
<1>2. CASE \E i : IsClosed(L, i, j) /\ r = TakenRun(L, i)
  <2> PICK i : IsClosed(L, i, j) /\ r = TakenRun(L, i)
    BY <1>2
  <2>1. i \in Started(L)
    BY <1>n, StartedIs DEF IsClosed
  <2> QED
    BY <2>1, RunsAreTraced DEF TakenRuns
<1> QED
  BY <1>1, <1>2 DEF RunOfLine
\* The parser's invariant is kept by every line.
LEMMA ParserStep ==
  ASSUME NEW L, NEW e, NEW M, Grown(L, e, M), NEW p, ParserFits(L, p)
  PROVE  ParserFits(M, ParseLine(p, e, Len(L) + 1))
<1> DEFINE n == Len(L)
           O == OpenAfter(p, e, n + 1)
           C == CallsAfter(p, e, n + 1)
           X == ExecutorNext(p, e)
           R == RunsNext(p, e, n + 1)
           q == ParseLine(p, e, n + 1)
<1>n. /\ n \in Nat /\ Len(M) = n + 1 /\ n + 1 \in Nat /\ Len(M) + 1 = n + 2
      /\ Legible(e) /\ e \in Lines /\ M \in Seq(Lines)
  BY DEF Grown
<1>m. IsTrace(M)
  BY <1>n, TraceLines
<1>p. ParserShape(p)
  BY DEF ParserFits
<1>q. q = [open |-> O, calls |-> C, executor |-> X, runs |-> R]
  BY <1>n, <1>p, ParseLineParts
<1>1. \A f \in Flows, x \in Refs : SlotFits(M, f, x, O[f][x])
  <2> SUFFICES ASSUME NEW f \in Flows, NEW x \in Refs
               PROVE  SlotFits(M, f, x, O[f][x])
    OBVIOUS
  <2>1. SlotFits(L, f, x, p.open[f][x])
    BY DEF ParserFits
  <2>2. O[f][x] = SlotAfter(p.open[f][x], e, f, x, n + 1)
    BY DEF OpenAfter
  <2> QED
    BY <2>1, <2>2, SlotFollows
<1>2. \A x \in Refs, k \in Keys : C[x][k] = CallBefore(M, x, k, n + 2)
  <2> SUFFICES ASSUME NEW x \in Refs, NEW k \in Keys
               PROVE  C[x][k] = CallBefore(M, x, k, n + 2)
    OBVIOUS
  <2>1. p.calls[x][k] = CallBefore(L, x, k, n + 1)
    BY DEF ParserFits
  <2>2. C[x][k] = CallAfter(p.calls[x][k], e, x, k, n + 1)
    BY DEF CallsAfter
  <2>3. CallBefore(M, x, k, n + 2) =
              IF e.ev = "call" /\ e.ref = x /\ e.key = k THEN n + 1
              ELSE IF e.ev = "done" /\ e.ref = x /\ e.key = k THEN 0
              ELSE CallBefore(L, x, k, n + 1)
    BY CallBeforeGrows
  <2> QED
    BY <2>1, <2>2, <2>3 DEF CallAfter
<1>3. \A x \in Refs : X[x] = LastOutcome(M, Untaken(M, x, n + 2))
  BY ExecutorFollows
<1>4. \E c : RunsFit(M, R, c)
  BY RunsFollow
<1>5. O = [f \in Flows |-> [x \in Refs |-> O[f][x]]]
  BY DEF OpenAfter
<1>6. \A f \in Flows, x \in Refs : O[f][x] \in {<<>>, <<O[f][x][1]>>}
  <2>1. \A v, r : v = <<r>> => v = <<v[1]>>
    OBVIOUS
  <2> QED
    BY <1>1, <2>1 DEF SlotFits
<1>7. C \in [Refs -> [Keys -> Nat]]
  <2>1. \A x \in Refs, k \in Keys : CallAfter(p.calls[x][k], e, x, k, n + 1) \in Nat
    BY <1>n, <1>p DEF CallAfter, ParserShape
  <2> QED
    BY <2>1 DEF CallsAfter
<1>8. X \in [Refs -> Outcomes]
  <2>1. e.ev = "executor" => e.outcome \in Outcomes
    BY <1>n DEF Outcomes
  <2>2. None \in Outcomes /\ \A x \in Refs : p.executor[x] \in Outcomes
    BY <1>p DEF Outcomes, ParserShape
  <2> QED
    BY <2>1, <2>2 DEF ExecutorNext
<1>9. R \in Seq(TracedRuns)
  <2>1. p.runs \in Seq(TracedRuns)
    BY <1>p DEF ParserShape
  <2>2. \E T : R \in Seq(T)
    <3>1. \A r : \E T : Append(p.runs, r) \in Seq(T)
      <4> SUFFICES ASSUME NEW r
                   PROVE  Append(p.runs, r) \in Seq(TracedRuns \cup {r})
        OBVIOUS
      <4>1. p.runs \in Seq(TracedRuns \cup {r})
        BY <2>1, ElementOfSeq, SeqOfElements
      <4> QED
        BY <4>1, AppendProperties
    <3>2. EndsOpen(p, e) \/ e.ev = "done" => \E r : R = Append(p.runs, r)
      BY DEF RunsNext
    <3>3. ClosedItems(p, e.ref) # {} => \E T : Stamped(p, e) \in Seq(T)
      <4>1. Stamped(p, e) = [p.runs EXCEPT ![Max(ClosedItems(p, e.ref))] =
                               [p.runs[Max(ClosedItems(p, e.ref))] EXCEPT !.outcome = e.outcome]]
        BY DEF Stamped
      <4> DEFINE m == Max(ClosedItems(p, e.ref))
                 r == [p.runs[m] EXCEPT !.outcome = e.outcome]
                 T == TracedRuns \cup {r}
      <4>2. \A k \in 1..Len(p.runs) : [p.runs EXCEPT ![m] = r][k] \in T
        <5> HIDE DEF m, r
        <5>1. \A k \in 1..Len(p.runs) : p.runs[k] \in TracedRuns /\ k \in DOMAIN p.runs
          BY <2>1, LenProperties, ElementOfSeq
        <5> QED
          BY <5>1
      <4>3. [p.runs EXCEPT ![m] = r] \in [1..Len(p.runs) -> T] /\ Len(p.runs) \in Nat
        <5> HIDE DEF m, r, T
        <5>1. p.runs \in [1..Len(p.runs) -> TracedRuns] /\ Len(p.runs) \in Nat
          BY <2>1, LenProperties
        <5> QED
          BY <4>2, <5>1
      <4> HIDE DEF m, r, T
      <4>4. [p.runs EXCEPT ![m] = r] \in Seq(T)
        BY <4>3, SeqDef
      <4> QED
        BY <4>1, <4>4 DEF m, r
    <3> QED
      BY <2>1, <3>1, <3>2, <3>3 DEF RunsNext
  <2> HIDE DEF R
  <2>3. PICK T : R \in Seq(T)
    BY <2>2
  <2>4. ASSUME NEW k \in 1..Len(R)
        PROVE  R[k] \in TracedRuns
    <3>1. PICK c : RunsFit(M, R, c)
      BY <1>4
    <3>2. c[k] \in 1..Len(M) /\ RunOfLine(M, c[k], R[k])
      BY <3>1 DEF RunsFit
    <3> QED
      BY <1>m, <3>2, RunOfLineIs
  <2> QED
    BY <2>3, <2>4, SeqOfElements
<1> HIDE DEF n, O, C, X, R, q
<1>10. ParserShape(q)
  BY <1>q, <1>5, <1>6, <1>7, <1>8, <1>9 DEF ParserShape
<1>11. ParserFits(M, q)
  BY <1>n, <1>q, <1>1, <1>2, <1>3, <1>4, <1>10 DEF ParserFits
<1> QED
  BY <1>11 DEF q, n

\* The parser starts with what holds of no lines.
LEMMA ParserStarts ==
  ASSUME NEW L \in Seq(Lines), Len(L) = 0
  PROVE  ParserFits(L, NewParser)
<1> DEFINE p == NewParser
<1>p. p = [open |-> [f \in Flows |-> [x \in Refs |-> <<>>]],
           calls |-> [x \in Refs |-> [k \in Keys |-> 0]],
           executor |-> [x \in Refs |-> None], runs |-> <<>>]
  BY DEF NewParser
<1> HIDE DEF p
<1>1. ParserShape(p)
  <2>1. <<>> \in Seq(TracedRuns) /\ None \in Outcomes
    BY DEF Outcomes
  <2> QED
    BY <1>p, <2>1 DEF ParserShape
<1>2. \A f \in Flows, x \in Refs : SlotFits(L, f, x, p.open[f][x])
  BY <1>p DEF SlotFits, IsOpen
<1>3. \A x \in Refs, k \in Keys : p.calls[x][k] = CallBefore(L, x, k, Len(L) + 1)
  <2>1. \A x, k : CallsBefore(L, x, k, Len(L) + 1) = {}
    BY DEF CallsBefore
  <2> QED
    BY <1>p, <2>1 DEF CallBefore
<1>4. \A x \in Refs : p.executor[x] = LastOutcome(L, Untaken(L, x, Len(L) + 1))
  <2>1. \A x : Untaken(L, x, Len(L) + 1) = {}
    BY DEF Untaken
  <2> QED
    BY <1>p, <2>1 DEF LastOutcome
<1>5. RunsFit(L, p.runs, <<>>)
  <2>1. <<>> \in Seq(Nat) /\ Len(<<>>) = 0 /\ p.runs = <<>>
    BY <1>p
  <2>2. \A j : ~EndsRun(L, j)
    BY DEF EndsRun
  <2> QED
    BY <2>1, <2>2 DEF RunsFit
<1> QED
  BY <1>1, <1>2, <1>3, <1>4, <1>5 DEF ParserFits, p
-----------------------------------------------------------------------------
(* The parser on a whole trace.                                            *)

\* The first m lines of a trace and one more.
LEMMA PrefixGrows ==
  ASSUME NEW L \in Seq(Lines), NEW m \in Nat, m + 1 <= Len(L)
  PROVE  /\ Grown(SubSeq(L, 1, m), L[m + 1], SubSeq(L, 1, m + 1))
         /\ Len(SubSeq(L, 1, m)) = m
<1>1. Len(L) \in Nat /\ \A i \in 1..Len(L) : L[i] \in Lines
  BY LenProperties, ElementOfSeq
<1>2. ASSUME NEW k \in Nat, k <= Len(L)
      PROVE  /\ SubSeq(L, 1, k) \in Seq(Lines) /\ Len(SubSeq(L, 1, k)) = k
             /\ \A i \in 1..k : SubSeq(L, 1, k)[i] = L[i]
  <2>1. \A i \in 1..k : L[i] \in Lines
    BY <1>1, <1>2
  <2> QED
    BY <2>1, SubSeqProperties
<1> DEFINE P == SubSeq(L, 1, m)
           Q == SubSeq(L, 1, m + 1)
<1>3. P \in Seq(Lines) /\ Len(P) = m /\ \A i \in 1..m : P[i] = L[i]
  BY <1>1, <1>2
<1>4. Q \in Seq(Lines) /\ Len(Q) = m + 1 /\ \A i \in 1..m + 1 : Q[i] = L[i]
  BY <1>1, <1>2
<1> HIDE DEF P, Q
<1>5. IsTrace(P) /\ IsTrace(Q)
  BY <1>3, <1>4, TraceLines
<1>6. L[m + 1] \in Lines /\ Legible(L[m + 1])
  <2>1. m + 1 \in 1..Len(L)
    BY <1>1
  <2> QED
    BY <1>1, <2>1, BackfillConstants
<1> QED
  BY <1>3, <1>4, <1>5, <1>6 DEF Grown, IsTrace, P, Q

\* What the parser goes through, as a function.
LinesParsed(f, L, n) ==
  f = [i \in 0..n |-> IF i = 0 THEN NewParser ELSE ParseLine(f[i - 1], L[i], i)]

\* It exists, however long the trace is.
LEMMA LinesParsedExist ==
  ASSUME NEW L, NEW n \in Nat
  PROVE  \E f : LinesParsed(f, L, n)
<1> DEFINE T == {m \in Nat : \E f : LinesParsed(f, L, m)}
<1>1. 0 \in T
  <2>1. LinesParsed([i \in 0..0 |-> NewParser], L, 0)
    BY DEF LinesParsed
  <2> QED
    BY <2>1
<1>2. ASSUME NEW m \in Nat, m \in T
      PROVE  m + 1 \in T
  <2>1. PICK f : LinesParsed(f, L, m)
    BY <1>2
  <2> DEFINE g == [i \in 0..m + 1 |->
                     IF i = m + 1 THEN ParseLine(f[m], L[m + 1], m + 1) ELSE f[i]]
  <2>2. \A i \in 0..m : f[i] = IF i = 0 THEN NewParser ELSE ParseLine(f[i - 1], L[i], i)
    BY <2>1 DEF LinesParsed
  <2>3. ASSUME NEW i \in 0..m + 1
        PROVE  g[i] = IF i = 0 THEN NewParser ELSE ParseLine(g[i - 1], L[i], i)
    <3>1. CASE i = m + 1
      <4>1. g[i] = ParseLine(f[m], L[m + 1], m + 1) /\ g[i - 1] = f[m] /\ i # 0
        BY <3>1
      <4> QED
        BY <4>1, <3>1
    <3>2. CASE i \in 0..m
      <4>1. g[i] = f[i] /\ (i # 0 => g[i - 1] = f[i - 1])
        BY <3>2
      <4> QED
        BY <4>1, <3>2, <2>2
    <3> QED
      BY <3>1, <3>2
  <2>4. LinesParsed(g, L, m + 1)
    BY <2>3 DEF LinesParsed
  <2>5. \E x : LinesParsed(x, L, m + 1)
    BY <2>4
  <2> QED
    BY <2>5
<1>3. n \in T
  <2> HIDE DEF T
  <2> QED
    BY <1>1, <1>2, SetInduction
<1> QED
  BY <1>3

\* After the last line the parser holds what the lines say.
LEMMA ParserFitsTrace ==
  ASSUME NEW L \in Seq(Lines)
  PROVE  ParserFits(L, Parsed(L, Len(L)))
<1> DEFINE n == Len(L)
           after == CHOOSE f : LinesParsed(f, L, n)
           T == {m \in Nat : m <= n => ParserFits(SubSeq(L, 1, m), after[m])}
<1>n. n \in Nat
  BY LenProperties
<1>1. LinesParsed(after, L, n)
  BY <1>n, LinesParsedExist
<1>2. Parsed(L, n) = after[n]
  BY DEF Parsed, LinesParsed
<1> HIDE DEF after, n
<1>3. \A i \in 0..n : after[i] = IF i = 0 THEN NewParser ELSE ParseLine(after[i - 1], L[i], i)
  BY <1>1 DEF LinesParsed
<1>4. 0 \in T
  <2>1. after[0] = NewParser
    BY <1>n, <1>3
  <2>2. SubSeq(L, 1, 0) \in Seq(Lines) /\ Len(SubSeq(L, 1, 0)) = 0
    BY SubSeqProperties
  <2> QED
    BY <2>1, <2>2, ParserStarts
<1>5. ASSUME NEW m \in Nat, m \in T
      PROVE  m + 1 \in T
  <2>1. SUFFICES ASSUME m + 1 <= n
                 PROVE  ParserFits(SubSeq(L, 1, m + 1), after[m + 1])
    OBVIOUS
  <2>2. after[m + 1] = ParseLine(after[m], L[m + 1], m + 1)
    <3>1. m + 1 \in 0..n /\ m + 1 # 0 /\ (m + 1) - 1 = m
      BY <1>n, <2>1
    <3> QED
      BY <1>3, <3>1
  <2>3. ParserFits(SubSeq(L, 1, m), after[m])
    BY <1>5, <1>n, <2>1
  <2>4. /\ Grown(SubSeq(L, 1, m), L[m + 1], SubSeq(L, 1, m + 1))
        /\ Len(SubSeq(L, 1, m)) = m
    BY <2>1, PrefixGrows DEF n
  <2>5. ParserFits(SubSeq(L, 1, m + 1), ParseLine(after[m], L[m + 1], m + 1))
    BY <2>3, <2>4, ParserStep
  <2> QED
    BY <2>2, <2>5
<1>6. n \in T
  <2> HIDE DEF T
  <2> QED
    BY <1>n, <1>4, <1>5, SetInduction
<1>7. ParserFits(SubSeq(L, 1, n), after[n])
  BY <1>6, <1>n
<1>8. SubSeq(L, 1, n) = L
  BY SubSeqFull DEF n
<1> QED
  BY <1>2, <1>7, <1>8 DEF n
-----------------------------------------------------------------------------
(* The runs the parser finds.                                              *)

\* The call of an answer is the last line of its key before it, or there is none.
LEMMA CallIsBefore ==
  ASSUME NEW L, IsTrace(L), NEW j \in 1..Len(L)
  PROVE  \/ CallOf(L, j) = j
         \/ /\ CallOf(L, j) \in 1..j - 1
            /\ L[CallOf(L, j)].ev = "call"
            /\ L[CallOf(L, j)].ref = L[j].ref /\ L[CallOf(L, j)].key = L[j].key
            /\ \A i \in CallsBefore(L, L[j].ref, L[j].key, j) : i <= CallOf(L, j)
<1> DEFINE S == CallsBefore(L, L[j].ref, L[j].key, j)
           call == CallBefore(L, L[j].ref, L[j].key, j)
<1>n. Len(L) \in Nat /\ j \in Nat
  BY DEF IsTrace
<1>1. S \in SUBSET (0..j) /\ S \subseteq 1..j - 1
  BY <1>n DEF CallsBefore
<1>2. S # {} => Max(S) \in S /\ \A i \in S : i <= Max(S)
  <2> HIDE DEF S
  <2> QED
    BY <1>n, <1>1, MaxOfSet
<1>3. call = 0 \/ (call = Max(S) /\ S # {} /\ L[call].ev = "call")
  BY DEF CallBefore
<1>4. \A i \in S : L[i].ref = L[j].ref /\ L[i].key = L[j].key
  BY DEF CallsBefore
<1>5. CallOf(L, j) = IF call = 0 THEN j ELSE call
  BY DEF CallOf
<1> HIDE DEF call
<1>6. CASE call = 0
  BY <1>5, <1>6
<1>7. CASE call # 0
  <2>1. CallOf(L, j) = call /\ call = Max(S) /\ S # {} /\ L[call].ev = "call"
    BY <1>3, <1>5, <1>7
  <2>2. call \in S /\ \A i \in S : i <= call
    BY <1>2, <2>1
  <2> HIDE DEF S
  <2> QED
    BY <1>1, <1>4, <2>1, <2>2 DEF S
<1> QED
  BY <1>6, <1>7

\* Two answers of one call are the same.
LEMMA CallsDiffer ==
  ASSUME NEW L, IsTrace(L), NEW j \in Answers(L), NEW l \in Answers(L),
         CallOf(L, j) = CallOf(L, l)
  PROVE  j = l
<1>n. Len(L) \in Nat /\ DOMAIN L = 1..Len(L)
  BY DEF IsTrace
<1> SUFFICES ASSUME NEW a \in 1..Len(L), NEW b \in 1..Len(L), a < b,
                    L[a].ev = "done", L[b].ev = "done", CallOf(L, a) = CallOf(L, b)
             PROVE  FALSE
  <2>1. /\ j \in 1..Len(L) /\ L[j].ev = "done" /\ l \in 1..Len(L) /\ L[l].ev = "done"
    BY <1>n DEF Answers
  <2> QED
    BY <1>n, <2>1
<1>1. CallOf(L, a) \in 1..a
  <2>1. a \in 1..a /\ 1..a - 1 \subseteq 1..a
    BY <1>n
  <2> QED
    BY <2>1, CallIsBefore
<1>2. CallOf(L, b) # b
  BY <1>n, <1>1
<1>3. /\ CallOf(L, b) \in 1..b - 1
      /\ L[CallOf(L, b)].ev = "call"
      /\ L[CallOf(L, b)].ref = L[b].ref /\ L[CallOf(L, b)].key = L[b].key
      /\ \A i \in CallsBefore(L, L[b].ref, L[b].key, b) : i <= CallOf(L, b)
  BY <1>2, CallIsBefore
<1>4. CallOf(L, a) # a
  BY <1>3
<1>5. /\ CallOf(L, a) \in 1..a - 1
      /\ L[CallOf(L, a)].ref = L[a].ref /\ L[CallOf(L, a)].key = L[a].key
  BY <1>4, CallIsBefore
<1>6. a \in CallsBefore(L, L[b].ref, L[b].key, b)
  BY <1>n, <1>3, <1>5 DEF CallsBefore
<1> QED
  BY <1>n, <1>3, <1>5, <1>6

\* A call's run is not a flow's: their ids are lines of other kinds.
LEMMA CallIsNoStart ==
  ASSUME NEW L, IsTrace(L), NEW j \in Answers(L)
  PROVE  CallOf(L, j) \in 1..Len(L) /\ L[CallOf(L, j)].ev # "start"
<1>1. j \in 1..Len(L) /\ L[j].ev = "done" /\ Len(L) \in Nat
  BY DEF Answers, IsTrace
<1>2. CASE CallOf(L, j) = j
  BY <1>1, <1>2
<1>3. CASE CallOf(L, j) # j
  <2>1. CallOf(L, j) \in 1..j - 1 /\ L[CallOf(L, j)].ev = "call"
    BY <1>1, <1>3, CallIsBefore
  <2> QED
    BY <1>1, <2>1
<1> QED
  BY <1>2, <1>3

\* Runs of two lines have two ids.
LEMMA RunIdsDiffer ==
  ASSUME NEW L, IsTrace(L), NEW j \in 1..Len(L), NEW l \in 1..Len(L), NEW r, NEW s,
         RunOfLine(L, j, r), RunOfLine(L, l, s), r.id = s.id
  PROVE  j = l
<1>n. Len(L) \in Nat /\ DOMAIN L = 1..Len(L)
  BY DEF IsTrace
<1>1. ASSUME NEW k \in 1..Len(L), NEW t, RunOfLine(L, k, t)
      PROVE  \/ k \in Answers(L) /\ t.id = CallOf(L, k)
             \/ IsClosed(L, t.id, k)
  <2>1. CASE L[k].ev = "done" /\ t = AnswerRun(L, k)
    BY <1>n, <2>1 DEF Answers, AnswerRun
  <2>2. CASE \E i : IsClosed(L, i, k) /\ t = TakenRun(L, i)
    BY <2>2 DEF TakenRun
  <2> QED
    BY <1>1, <2>1, <2>2 DEF RunOfLine
<1>2. \A i, k : IsClosed(L, i, k) => L[i].ev = "start" /\ EndOf(L, i) = k
  BY DEF IsClosed
<1>3. CASE j \in Answers(L) /\ l \in Answers(L) /\ r.id = CallOf(L, j) /\ s.id = CallOf(L, l)
  BY <1>3, CallsDiffer
<1>4. CASE IsClosed(L, r.id, j) /\ IsClosed(L, s.id, l)
  BY <1>2, <1>4
<1>5. CASE IsClosed(L, r.id, j) /\ l \in Answers(L) /\ s.id = CallOf(L, l)
  BY <1>2, <1>5, CallIsNoStart
<1>6. CASE IsClosed(L, s.id, l) /\ j \in Answers(L) /\ r.id = CallOf(L, j)
  BY <1>2, <1>6, CallIsNoStart
<1> QED
  BY <1>1, <1>3, <1>4, <1>5, <1>6

\* The starts of the flows that are open.
OpenStarts(L) == {i \in 1..Len(L) : IsOpen(L, L[i].flow, L[i].ref, i)}

\* The run of a line is none that is open.
LEMMA OpenIdsDiffer ==
  ASSUME NEW L, IsTrace(L), NEW j \in 1..Len(L), NEW r, RunOfLine(L, j, r), NEW i \in OpenStarts(L)
  PROVE  r.id # i
<1>1. L[i].ev = "start" /\ EndOf(L, i) = Len(L) + 1 /\ Len(L) + 1 \notin 1..Len(L)
  BY DEF OpenStarts, IsOpen, IsTrace
<1>2. CASE L[j].ev = "done" /\ r = AnswerRun(L, j)
  <2>1. j \in Answers(L) /\ r.id = CallOf(L, j)
    BY <1>2 DEF Answers, AnswerRun, IsTrace
  <2> QED
    BY <1>1, <2>1, CallIsNoStart
<1>3. CASE \E k : IsClosed(L, k, j) /\ r = TakenRun(L, k)
  BY <1>1, <1>3 DEF TakenRun, IsClosed
<1> QED
  BY <1>2, <1>3 DEF RunOfLine

\* What is open at the end of the file is closed as failed: the runs of the open starts.
LEMMA LeftoverIs ==
  ASSUME NEW L, IsTrace(L), NEW p, ParserFits(L, p)
  PROVE  {Closed(run, "failed") : run \in Leftover(p)} = {TakenRun(L, i) : i \in OpenStarts(L)}
<1>n. Len(L) \in Nat /\ DOMAIN L = 1..Len(L)
  BY DEF IsTrace
<1>1. ASSUME NEW f \in Flows, NEW x \in Refs
      PROVE  \/ p.open[f][x] = <<>> /\ \A i : ~IsOpen(L, f, x, i)
             \/ \E i : IsOpen(L, f, x, i) /\ p.open[f][x] = <<OpenRun(L, i)>>
  BY DEF ParserFits, SlotFits
<1>2. ToSet(<<>>) = {} /\ \A r : ToSet(<<r>>) = {r}
  BY DEF ToSet
<1>3. \A f \in Flows, x \in Refs : \A i : IsOpen(L, f, x, i) => p.open[f][x] = <<OpenRun(L, i)>>
  BY <1>n, SlotIsOpen
<1>4. ASSUME NEW i \in OpenStarts(L)
      PROVE  /\ Closed(OpenRun(L, i), "failed") = TakenRun(L, i)
             /\ L[i].flow \in Flows /\ L[i].ref \in Refs
             /\ IsOpen(L, L[i].flow, L[i].ref, i)
  <2>1. IsOpen(L, L[i].flow, L[i].ref, i) /\ i \in 1..Len(L)
    BY DEF OpenStarts
  <2>2. OutcomeOf(L, i) = None /\ StatusOf(L, i) = "failed"
    BY <1>n, <2>1, OutcomeOfOpen
  <2>3. Closed(OpenRun(L, i), "failed") = TakenRun(L, i)
    BY <2>2 DEF Closed, OpenRun, TakenRun
  <2>4. L[i].flow \in Flows /\ L[i].ref \in Refs
    BY <2>1 DEF IsOpen, IsTrace, Legible
  <2> QED
    BY <2>1, <2>3, <2>4
<1>5. \A f, x, i : IsOpen(L, f, x, i) => i \in OpenStarts(L)
  BY DEF OpenStarts, IsOpen
<1>6. ASSUME NEW run \in Leftover(p)
      PROVE  \E i \in OpenStarts(L) : Closed(run, "failed") = TakenRun(L, i)
  <2>1. PICK f \in Flows, x \in Refs : run \in ToSet(p.open[f][x])
    BY DEF Leftover
  <2>2. PICK i : IsOpen(L, f, x, i) /\ p.open[f][x] = <<OpenRun(L, i)>>
    BY <1>1, <1>2, <2>1
  <2>3. run = OpenRun(L, i)
    BY <1>2, <2>1, <2>2
  <2>4. i \in OpenStarts(L)
    BY <1>5, <2>2
  <2> QED
    BY <1>4, <2>3, <2>4
<1>7. ASSUME NEW i \in OpenStarts(L)
      PROVE  \E run \in Leftover(p) : Closed(run, "failed") = TakenRun(L, i)
  <2>1. p.open[L[i].flow][L[i].ref] = <<OpenRun(L, i)>>
    BY <1>3, <1>4
  <2>2. OpenRun(L, i) \in Leftover(p)
    <3>1. OpenRun(L, i) \in ToSet(p.open[L[i].flow][L[i].ref])
      BY <1>2, <2>1
    <3>2. \A f \in Flows, x \in Refs : ToSet(p.open[f][x]) \subseteq Leftover(p)
      BY DEF Leftover
    <3> QED
      BY <1>4, <3>1, <3>2
  <2> QED
    BY <1>4, <2>2
<1> QED
  BY <1>6, <1>7
\* What parse_trace_file returns for the lines L: every run of theirs, each once and under
\* an id of its own.
LEMMA ParsedRunsAre ==
  ASSUME NEW L \in Seq(Lines)
  PROVE  /\ ParsedRuns(L) \in Seq(TracedRuns)
         /\ ToSet(ParsedRuns(L)) = TakenRuns(L)
         /\ \A k, l \in 1..Len(ParsedRuns(L)) :
              ParsedRuns(L)[k].id = ParsedRuns(L)[l].id => k = l
<1> DEFINE p == Parsed(L, Len(L))
           failed == {Closed(run, "failed") : run \in Leftover(p)}
           R == p.runs
           s == SetToSeq(failed)
           runs == R \o s
<1>n. IsTrace(L) /\ Len(L) \in Nat /\ DOMAIN L = 1..Len(L)
  BY TraceLines DEF IsTrace
<1>0. ParsedRuns(L) = runs
  BY DEF ParsedRuns
<1>1. ParserFits(L, p)
  BY ParserFitsTrace
<1>2. failed = {TakenRun(L, i) : i \in OpenStarts(L)}
  BY <1>1, <1>n, LeftoverIs
<1> HIDE DEF p, failed
<1>3. R \in Seq(TracedRuns) /\ Len(R) \in Nat /\ DOMAIN R = 1..Len(R)
  <2>1. R \in Seq(TracedRuns)
    BY <1>1 DEF ParserFits, ParserShape
  <2> QED
    BY <2>1, LenProperties
<1>4. PICK c : RunsFit(L, R, c)
  BY <1>1 DEF ParserFits
<1>5. \A i \in OpenStarts(L) : i \in Started(L) /\ i \in 1..Len(L) /\ TakenRun(L, i).id = i
  BY <1>n, StartedIs DEF OpenStarts, TakenRun
<1>6. failed \subseteq TracedRuns
  BY <1>2, <1>5, <1>n, RunsAreTraced
<1>7. \A r \in failed : r.id \in OpenStarts(L) /\ r = TakenRun(L, r.id)
  BY <1>2, <1>5
<1>8. IsFiniteSet(failed)
  <2> DEFINE g == [r \in failed |-> r.id]
  <2>1. g \in [failed -> 1..Len(L)]
    BY <1>5, <1>7
  <2>2. \A a, b \in failed : g[a] = g[b] => a = b
    BY <1>7
  <2>3. IsFiniteSet(1..Len(L))
    BY <1>n, FS_Interval
  <2> HIDE DEF g
  <2>4. g \in Injection(failed, 1..Len(L))
    BY <2>1, <2>2, Fun_IsInj
  <2> QED
    BY <2>3, <2>4, FS_Injection
<1>9. /\ s \in Seq(failed) /\ Len(s) \in Nat /\ DOMAIN s = 1..Len(s)
      /\ \A k, l \in 1..Len(s) : s[k] = s[l] => k = l
      /\ \A x \in failed : \E k \in 1..Len(s) : s[k] = x
  BY <1>8, SetToSeqIs
<1> HIDE DEF s
<1>10. \A k \in 1..Len(s) : s[k] \in failed
  BY <1>9, ElementOfSeq
<1>11. /\ runs \in Seq(TracedRuns)
       /\ Len(runs) = Len(R) + Len(s)
       /\ \A k \in 1..Len(R) + Len(s) :
            runs[k] = IF k <= Len(R) THEN R[k] ELSE s[k - Len(R)]
  <2>1. s \in Seq(TracedRuns)
    BY <1>6, <1>9, <1>10, SeqOfElements
  <2> QED
    BY <1>3, <2>1, ConcatProperties
<1>12. DOMAIN runs = 1..Len(runs)
  BY <1>11, LenProperties
<1>13. \A k \in 1..Len(R) : c[k] \in 1..Len(L) /\ RunOfLine(L, c[k], R[k])
  BY <1>4 DEF RunsFit
<1> HIDE DEF runs, R
<1>14. ASSUME NEW k \in 1..Len(runs)
       PROVE  \/ k \in 1..Len(R) /\ runs[k] = R[k]
              \/ k - Len(R) \in 1..Len(s) /\ runs[k] = s[k - Len(R)]
  <2>1. k \in 1..Len(R) + Len(s)
    BY <1>11
  <2>2. runs[k] = IF k <= Len(R) THEN R[k] ELSE s[k - Len(R)]
    BY <1>11, <2>1
  <2>3. CASE k <= Len(R)
    BY <1>3, <2>1, <2>2, <2>3
  <2>4. CASE ~(k <= Len(R))
    BY <1>3, <1>9, <2>1, <2>2, <2>4
  <2> QED
    BY <2>3, <2>4
<1>15. /\ \A k \in 1..Len(R) : k \in 1..Len(runs) /\ runs[k] = R[k]
       /\ \A k \in 1..Len(s) : Len(R) + k \in 1..Len(runs) /\ runs[Len(R) + k] = s[k]
  <2>1. ASSUME NEW k \in 1..Len(R)
        PROVE  k \in 1..Len(R) + Len(s) /\ k <= Len(R)
    BY <1>3, <1>9
  <2>2. ASSUME NEW k \in 1..Len(s)
        PROVE  /\ Len(R) + k \in 1..Len(R) + Len(s) /\ ~(Len(R) + k <= Len(R))
               /\ Len(R) + k - Len(R) = k
    BY <1>3, <1>9
  <2> QED
    BY <1>11, <2>1, <2>2
<1>16. ToSet(runs) = TakenRuns(L)
  <2>1. ASSUME NEW k \in 1..Len(runs)
        PROVE  runs[k] \in TakenRuns(L)
    <3>1. \A r \in failed : r \in TakenRuns(L)
      BY <1>2, <1>5 DEF TakenRuns
    <3>2. \A l \in 1..Len(R) : R[l] \in TakenRuns(L)
      BY <1>13, <1>n, RunOfLineIs
    <3> QED
      BY <1>10, <1>14, <3>1, <3>2
  <2>2. ASSUME NEW j, EndsRun(L, j)
        PROVE  \E k \in 1..Len(runs) : RunOfLine(L, j, runs[k])
    <3>1. PICK k \in 1..Len(R) : c[k] = j
      BY <1>4, <2>2 DEF RunsFit
    <3> QED
      BY <1>13, <1>15, <3>1
  <2>3. ASSUME NEW i \in Started(L)
        PROVE  \E k \in 1..Len(runs) : runs[k] = TakenRun(L, i)
    <3>1. CASE IsOpen(L, L[i].flow, L[i].ref, i)
      <4>1. TakenRun(L, i) \in failed
        BY <1>2, <3>1 DEF OpenStarts, IsOpen
      <4>2. PICK k \in 1..Len(s) : s[k] = TakenRun(L, i)
        BY <1>9, <4>1
      <4> QED
        BY <1>15, <4>2
    <3>2. CASE IsClosed(L, i, EndOf(L, i))
      <4> DEFINE E == EndOf(L, i)
      <4>1. EndsRun(L, E) /\ L[E].ev # "done"
        BY <3>2 DEF EndsRun, IsClosed
      <4>2. PICK k \in 1..Len(runs) : RunOfLine(L, E, runs[k])
        BY <2>2, <4>1
      <4>3. PICK l : IsClosed(L, l, E) /\ runs[k] = TakenRun(L, l)
        BY <4>1, <4>2 DEF RunOfLine
      <4>4. l = i
        BY <1>n, <3>2, <4>3, OneIsClosed
      <4> QED
        BY <4>3, <4>4
    <3> QED
      BY <1>n, <3>1, <3>2, StartedIs
  <2>4. ASSUME NEW j \in Answers(L)
        PROVE  \E k \in 1..Len(runs) : runs[k] = AnswerRun(L, j)
    <3>1. EndsRun(L, j) /\ L[j].ev = "done"
      BY <1>n DEF EndsRun, Answers
    <3>2. PICK k \in 1..Len(runs) : RunOfLine(L, j, runs[k])
      BY <2>2, <3>1
    <3>3. \A i : ~IsClosed(L, i, j)
      BY <3>1 DEF IsClosed
    <3> QED
      BY <3>2, <3>3 DEF RunOfLine
  <2> QED
    BY <1>12, <2>1, <2>3, <2>4 DEF ToSet, TakenRuns
<1>17. ASSUME NEW k \in 1..Len(runs), NEW l \in 1..Len(runs), runs[k].id = runs[l].id
       PROVE  k = l
  <2>1. CASE k \in 1..Len(R) /\ runs[k] = R[k] /\ l \in 1..Len(R) /\ runs[l] = R[l]
    <3>1. c[k] = c[l]
      BY <1>13, <1>17, <1>n, <2>1, RunIdsDiffer
    <3>2. \A a, b \in 1..Len(R) : a < b => c[a] < c[b]
      BY <1>4 DEF RunsFit
    <3>3. c[k] \in Nat
      BY <1>13, <2>1
    <3>4. ~(k < l) /\ ~(l < k)
      BY <2>1, <3>1, <3>2, <3>3
    <3> QED
      BY <1>3, <2>1, <3>4
  <2>2. CASE /\ k - Len(R) \in 1..Len(s) /\ runs[k] = s[k - Len(R)]
             /\ l - Len(R) \in 1..Len(s) /\ runs[l] = s[l - Len(R)]
    <3>1. runs[k] = runs[l]
      BY <1>7, <1>10, <1>17, <2>2
    <3>2. k - Len(R) = l - Len(R)
      BY <1>9, <2>2, <3>1
    <3> QED
      BY <1>3, <3>2
  <2>3. \A a \in 1..Len(R), b \in 1..Len(s) : R[a].id # s[b].id
    BY <1>7, <1>10, <1>13, <1>n, OpenIdsDiffer
  <2> QED
    BY <1>14, <1>17, <2>1, <2>2, <2>3
<1> QED
  BY <1>0, <1>11, <1>16, <1>17
-----------------------------------------------------------------------------
(* The imports.                                                            *)

\* i starts an item flow that has steps: it keeps them as the file grows.
HasSteps(L, i) == i \in 1..Len(L) /\ L[i].ev = "start" /\ MessagesOf(L, i) # {}

StoredRuns ==
  [id : Ids, ref : Refs, flow : Flows \cup {"call"}, status : Statuses, steps : Nat,
   outcome : Outcomes \cup {RawStatus[x] : x \in Refs}]

\* The runs t that an import has still to insert, parsed from the file L or one it has
\* grown from.
TodoFits(L, t) ==
  /\ t \in Seq(TracedRuns)
  /\ \A k \in 1..Len(t) : t[k].id \in 1..Len(L) /\ (t[k].steps > 0 => HasSteps(L, t[k].id))
  /\ \A k, l \in 1..Len(t) : t[k].id = t[l].id => k = l

\* A run whose stored row has steps is parsed with steps: the file only grows.
Covers(R, t) ==
  \A k \in 1..Len(t) : R[t[k].id] # NoRow /\ R[t[k].id].steps > 0 => t[k].steps > 0

RowFits(L, i, r) ==
  r = NoRow \/ (r \in StoredRuns /\ r.id = i /\ (r.steps > 0 => HasSteps(L, i)))

\* The inductive invariant.
ImportInv ==
  /\ lines \in Seq(Lines) /\ Len(lines) <= MaxLines
  /\ imports \in 0..MaxImports
  /\ pc \in {"idle", "row", "steps", "outcomes"}
  /\ pc \in {"row", "steps"} <=> todo # <<>>
  /\ TodoFits(lines, todo)
  /\ Covers(rows, todo)
  /\ pc = "steps" => rows[Head(todo).id] # NoRow
  /\ rows = [i \in Ids |-> rows[i]]
  /\ \A i \in Ids : RowFits(lines, i, rows[i])
  /\ sources \in [Ids -> {None, "trace", "raw"}]
  /\ stepRows \in [Ids -> Nat]
  /\ counted \subseteq Ids
  /\ CountedIsStored

\* A flow has no fewer steps in the grown trace.
LEMMA HasStepsGrows ==
  ASSUME NEW L, NEW e, NEW M, Grown(L, e, M), NEW i, HasSteps(L, i)
  PROVE  HasSteps(M, i)
<1>1. Len(L) \in Nat /\ Len(M) = Len(L) + 1 /\ i \in 1..Len(L) /\ M[i] = L[i]
  BY DEF Grown, HasSteps
<1>2. EndOf(L, i) \in i + 1..Len(L) + 1
  BY <1>1, EndOfIsFirst
<1>3. EndOf(L, i) <= Len(L) \/ EndOf(L, i) = Len(L) + 1
  BY <1>1, <1>2
<1>4. MessagesOf(L, i) \subseteq MessagesOf(M, i)
  BY <1>1, <1>3, MessagesGrow
<1> QED
  BY <1>1, <1>4 DEF HasSteps

\* The runs of the file as it is are a list to insert.
LEMMA ParsedIsTodo ==
  ASSUME NEW L \in Seq(Lines)
  PROVE  /\ TodoFits(L, ParsedRuns(L))
         /\ \A k \in 1..Len(ParsedRuns(L)) :
              HasSteps(L, ParsedRuns(L)[k].id) => ParsedRuns(L)[k].steps > 0
<1> DEFINE t == ParsedRuns(L)
<1>n. IsTrace(L) /\ Len(L) \in Nat /\ DOMAIN L = 1..Len(L)
  BY TraceLines DEF IsTrace
<1>1. /\ t \in Seq(TracedRuns) /\ ToSet(t) = TakenRuns(L)
      /\ \A k, l \in 1..Len(t) : t[k].id = t[l].id => k = l
  BY ParsedRunsAre
<1>2. DOMAIN t = 1..Len(t)
  BY <1>1, LenProperties
<1> HIDE DEF t
<1>3. ASSUME NEW k \in 1..Len(t)
      PROVE  /\ t[k].id \in 1..Len(L)
             /\ t[k].steps > 0 <=> HasSteps(L, t[k].id)
  <2>1. t[k] \in TakenRuns(L)
    BY <1>1, <1>2 DEF ToSet
  <2>2. CASE \E i \in Started(L) : t[k] = TakenRun(L, i)
    <3> PICK i \in Started(L) : t[k] = TakenRun(L, i)
      BY <2>2
    <3>1. i \in 1..Len(L) /\ L[i].ev = "start"
      BY <1>n DEF Started
    <3>2. t[k].id = i /\ t[k].steps = Cardinality(MessagesOf(L, i))
      BY DEF TakenRun
    <3>3. IsFiniteSet(MessagesOf(L, i)) /\ Cardinality(MessagesOf(L, i)) \in Nat
      BY <1>n, <3>1, MessagesAreFinite
    <3>4. Cardinality(MessagesOf(L, i)) > 0 <=> MessagesOf(L, i) # {}
      BY <3>3, FS_EmptySet
    <3> QED
      BY <3>1, <3>2, <3>4 DEF HasSteps
  <2>3. CASE \E j \in Answers(L) : t[k] = AnswerRun(L, j)
    <3> PICK j \in Answers(L) : t[k] = AnswerRun(L, j)
      BY <2>3
    <3>1. t[k].id = CallOf(L, j) /\ t[k].steps = 0
      BY DEF AnswerRun
    <3>2. CallOf(L, j) \in 1..Len(L) /\ L[CallOf(L, j)].ev # "start"
      BY <1>n, CallIsNoStart
    <3> QED
      BY <3>1, <3>2 DEF HasSteps
  <2> QED
    BY <2>1, <2>2, <2>3 DEF TakenRuns
<1>4. TodoFits(L, t)
  BY <1>1, <1>3 DEF TodoFits
<1> QED
  BY <1>3, <1>4 DEF t

\* The first run to insert, and the list without it.
LEMMA RestOfTodo ==
  ASSUME NEW L, Len(L) \in Nat, NEW t, TodoFits(L, t), t # <<>>
  PROVE  /\ Head(t) = t[1] /\ 1 \in 1..Len(t)
         /\ Head(t) \in TracedRuns
         /\ TodoFits(L, Tail(t))
         /\ \A R : Covers(R, t) => Covers(R, Tail(t))
         /\ \A k \in 1..Len(Tail(t)) : Tail(t)[k].id # Head(t).id
<1>1. t \in Seq(TracedRuns) /\ Len(t) \in Nat
  BY LenProperties DEF TodoFits
<1>2. Len(t) # 0
  BY <1>1, EmptySeq
<1>3. Head(t) = t[1] /\ 1 \in 1..Len(t)
  BY <1>1, <1>2
<1>4. /\ Head(t) \in TracedRuns /\ Tail(t) \in Seq(TracedRuns)
      /\ Len(Tail(t)) = Len(t) - 1
      /\ \A k \in 1..Len(Tail(t)) : Tail(t)[k] = t[k + 1]
  BY <1>1, HeadTailProperties
<1>5. \A k \in 1..Len(Tail(t)) : k + 1 \in 1..Len(t) /\ k + 1 # 1
  BY <1>1, <1>4
<1>6. \A k, l \in 1..Len(t) : t[k].id = t[l].id => k = l
  BY DEF TodoFits
<1>7. ASSUME NEW k \in 1..Len(Tail(t)), NEW l \in 1..Len(Tail(t)),
             Tail(t)[k].id = Tail(t)[l].id
      PROVE  k = l
  <2>1. k + 1 = l + 1
    BY <1>4, <1>5, <1>6, <1>7
  <2> QED
    BY <2>1
<1>8. TodoFits(L, Tail(t))
  BY <1>4, <1>5, <1>7 DEF TodoFits
<1>9. \A R : Covers(R, t) => Covers(R, Tail(t))
  BY <1>4, <1>5 DEF Covers
<1>10. \A k \in 1..Len(Tail(t)) : Tail(t)[k].id # Head(t).id
  BY <1>3, <1>4, <1>5, <1>6
<1> QED
  BY <1>3, <1>4, <1>8, <1>9, <1>10

\* Nothing has been imported at first.
LEMMA ImportInit == Init => ImportInv
<1> SUFFICES ASSUME Init PROVE ImportInv
  OBVIOUS
<1>1. lines \in Seq(Lines) /\ Len(lines) = 0 /\ todo = <<>> /\ Len(todo) = 0
  BY DEF Init
<1>2. MaxLines \in Nat /\ MaxImports \in Nat
  BY BackfillConstants
<1>3. TodoFits(lines, todo) /\ Covers(rows, todo)
  <2>1. todo \in Seq(TracedRuns) /\ 1..Len(todo) = {}
    BY <1>1
  <2> QED
    BY <2>1 DEF TodoFits, Covers
<1>4. /\ rows = [i \in Ids |-> rows[i]] /\ (\A i \in Ids : RowFits(lines, i, rows[i]))
      /\ sources \in [Ids -> {None, "trace", "raw"}]
      /\ stepRows \in [Ids -> Nat] /\ counted \subseteq Ids /\ CountedIsStored
  BY DEF Init, RowFits, CountedIsStored
<1> QED
  BY <1>1, <1>2, <1>3, <1>4 DEF Init, ImportInv
\* The host's line: what holds of the file holds of the grown one.
LEMMA LogKeeps == ASSUME ImportInv, NEW e \in Lines, Log(e) PROVE ImportInv'
<1>1. Grown(lines, e, lines')
  BY AppendedLine DEF ImportInv, Log
<1>2. /\ lines \in Seq(Lines) /\ Len(lines) \in Nat /\ lines' \in Seq(Lines)
      /\ Len(lines') = Len(lines) + 1 /\ MaxLines \in Nat
  BY <1>1, BackfillConstants DEF Grown
<1>3. Len(lines') <= MaxLines
  BY <1>2 DEF Log
<1>4. \A i : HasSteps(lines, i) => HasSteps(lines', i)
  BY <1>1, HasStepsGrows
<1>5. \A i \in 1..Len(lines) : i \in 1..Len(lines')
  BY <1>2
<1>6. TodoFits(lines', todo)
  BY <1>4, <1>5 DEF TodoFits, ImportInv
<1>7. \A i \in Ids : RowFits(lines', i, rows[i])
  BY <1>4 DEF RowFits, ImportInv
<1> QED
  BY <1>2, <1>3, <1>6, <1>7 DEF ImportInv, Log, dbVars, CountedIsStored

\* An import begins with the runs of the file as it is.
LEMMA BeginImportKeeps == ASSUME ImportInv, BeginImport PROVE ImportInv'
<1> DEFINE t == ParsedRuns(lines)
<1>1. lines \in Seq(Lines) /\ Len(lines) \in Nat
  BY LenProperties DEF ImportInv
<1>2. TodoFits(lines, t) /\ \A k \in 1..Len(t) : HasSteps(lines, t[k].id) => t[k].steps > 0
  BY <1>1, ParsedIsTodo
<1>3. /\ todo' = t /\ pc' = IF t = <<>> THEN "outcomes" ELSE "row"
      /\ UNCHANGED <<lines, rows, sources, stepRows, counted>>
  BY DEF BeginImport, GoOn, dbVars
<1> HIDE DEF t
<1>4. Covers(rows, t)
  <2> SUFFICES ASSUME NEW k \in 1..Len(t), rows[t[k].id] # NoRow, rows[t[k].id].steps > 0
               PROVE  t[k].steps > 0
    BY DEF Covers
  <2>1. t[k].id \in Ids
    <3>1. t[k].id \in 1..Len(lines) /\ Len(lines) <= MaxLines /\ MaxLines \in Nat
      BY <1>2, BackfillConstants DEF TodoFits, ImportInv
    <3> QED
      BY <1>1, <3>1 DEF Ids
  <2>2. HasSteps(lines, t[k].id)
    BY <2>1 DEF ImportInv, RowFits
  <2> QED
    BY <1>2, <2>2
<1>5. imports' \in 0..MaxImports
  BY BackfillConstants DEF ImportInv, BeginImport
<1> QED
  BY <1>2, <1>3, <1>4, <1>5 DEF ImportInv, CountedIsStored

\* The next run of an import, and what the statement after the last one starts with.
LEMMA NextRun ==
  ASSUME ImportInv, pc \in {"row", "steps"}
  PROVE  /\ todo # <<>> /\ Len(lines) \in Nat /\ TodoFits(lines, todo)
         /\ Head(todo) \in TracedRuns /\ Head(todo).id \in Ids /\ Head(todo).steps \in Nat
         /\ Head(todo) \in StoredRuns
         /\ Head(todo) # NoRow
         /\ Head(todo).steps > 0 => HasSteps(lines, Head(todo).id)
         /\ rows[Head(todo).id] # NoRow /\ rows[Head(todo).id].steps > 0 => Head(todo).steps > 0
         /\ TodoFits(lines, Tail(todo)) /\ Covers(rows, Tail(todo))
         /\ \A k \in 1..Len(Tail(todo)) : Tail(todo)[k].id # Head(todo).id
<1>1. todo # <<>> /\ TodoFits(lines, todo) /\ Covers(rows, todo) /\ lines \in Seq(Lines)
  BY DEF ImportInv
<1>2. Len(lines) \in Nat
  BY <1>1, LenProperties
<1>3. /\ Head(todo) = todo[1] /\ 1 \in 1..Len(todo) /\ Head(todo) \in TracedRuns
      /\ TodoFits(lines, Tail(todo))
      /\ (\A R : Covers(R, todo) => Covers(R, Tail(todo)))
      /\ \A k \in 1..Len(Tail(todo)) : Tail(todo)[k].id # Head(todo).id
  BY <1>1, <1>2, RestOfTodo
<1>4. /\ Head(todo).id \in 1..Len(lines)
      /\ Head(todo).steps > 0 => HasSteps(lines, Head(todo).id)
  BY <1>1, <1>3 DEF TodoFits
<1>5. Head(todo).id \in Ids /\ Head(todo).id # 0
  <2>1. Len(lines) <= MaxLines /\ MaxLines \in Nat
    BY BackfillConstants DEF ImportInv
  <2> QED
    BY <1>2, <1>4, <2>1 DEF Ids
<1>6. rows[Head(todo).id] # NoRow /\ rows[Head(todo).id].steps > 0 => Head(todo).steps > 0
  BY <1>1, <1>3 DEF Covers
<1>7. Head(todo) \in StoredRuns /\ Head(todo).steps \in Nat
  BY <1>3, <1>5 DEF TracedRuns, StoredRuns
<1>8. Head(todo) # NoRow
  <2>1. NoRow.id = 0
    BY DEF NoRow
  <2> QED
    BY <1>5, <2>1
<1> QED
  BY <1>1, <1>2, <1>3, <1>4, <1>5, <1>6, <1>7, <1>8
\* What follows a run that is done with.
LEMMA GoesOn ==
  ASSUME NEW rest, GoOn(rest)
  PROVE  /\ todo' = rest
         /\ pc' \in {"row", "outcomes"}
         /\ pc' = "row" <=> rest # <<>>
BY DEF GoOn

\* The row statement, with which a run without steps is done.
LEMMA InsertRowKeeps == ASSUME ImportInv, InsertRow PROVE ImportInv'
<1> DEFINE run == Head(todo)
           id == run.id
           v == InsertedRow(run)
<1>1. pc = "row" /\ rows' = [rows EXCEPT ![id] = v] /\ UNCHANGED <<lines, imports, stepRows>>
  BY DEF InsertRow
<1>2. /\ todo # <<>> /\ Len(lines) \in Nat /\ TodoFits(lines, todo)
      /\ id \in Ids /\ run.steps \in Nat /\ run \in StoredRuns /\ run # NoRow
      /\ run.steps > 0 => HasSteps(lines, id)
      /\ rows[id] # NoRow /\ rows[id].steps > 0 => run.steps > 0
      /\ TodoFits(lines, Tail(todo)) /\ Covers(rows, Tail(todo))
      /\ \A k \in 1..Len(Tail(todo)) : Tail(todo)[k].id # id
  BY <1>1, NextRun
<1>h. run = todo[1] /\ 1 \in 1..Len(todo)
  BY <1>2, RestOfTodo
<1>3. /\ v = IF rows[id] = NoRow THEN run ELSE rows[id]
      /\ v # NoRow
      /\ RowFits(lines, id, v)
      /\ v.steps > 0 => run.steps > 0
  <2>1. v = IF rows[id] = NoRow THEN run ELSE rows[id]
    BY DEF InsertedRow
  <2>2. RowFits(lines, id, rows[id])
    BY <1>2 DEF ImportInv
  <2>3. RowFits(lines, id, run)
    BY <1>2 DEF RowFits
  <2> HIDE DEF run, id, v
  <2> QED
    BY <1>2, <2>1, <2>2, <2>3
<1>4. /\ rows' = [i \in Ids |-> rows'[i]]
      /\ \A i \in Ids : rows'[i] = IF i = id THEN v ELSE rows[i]
  <2>1. rows = [i \in Ids |-> rows[i]]
    BY DEF ImportInv
  <2> HIDE DEF id, v
  <2> QED
    BY <1>1, <2>1
<1>r. \/ StepsFollow(run) /\ pc' = "steps" /\ UNCHANGED <<todo, counted>>
      \/ ~StepsFollow(run) /\ GoOn(Tail(todo)) /\ counted' = counted \cup {id}
  BY DEF InsertRow
<1>5. \A i \in Ids : RowFits(lines, i, rows'[i])
  BY <1>3, <1>4 DEF ImportInv
<1>s. sources' \in [Ids -> {None, "trace", "raw"}]
  <2>1. sources' = [sources EXCEPT ![id] = IF rows[id] = NoRow THEN "trace" ELSE @]
    BY DEF InsertRow
  <2> HIDE DEF id
  <2> QED
    BY <1>2, <2>1 DEF ImportInv
<1>6. \A i \in counted : /\ i \in Ids /\ rows[i] # NoRow
                         /\ rows'[i] = rows[i] /\ (rows[i].steps > 0 => stepRows[i] > 0)
  BY <1>3, <1>4 DEF ImportInv, CountedIsStored
<1>7. CASE StepsFollow(run) /\ pc' = "steps" /\ UNCHANGED <<todo, counted>>
  <2>1. run.steps > 0
    BY <1>7 DEF StepsFollow
  <2>2. Covers(rows', todo)
    <3> SUFFICES ASSUME NEW k \in 1..Len(todo), rows'[todo[k].id] # NoRow,
                        rows'[todo[k].id].steps > 0
                 PROVE  todo[k].steps > 0
      BY DEF Covers
    <3>1. CASE todo[k].id = id
      <4>1. k = 1
        BY <1>2, <1>h, <3>1 DEF TodoFits
      <4> QED
        BY <1>h, <2>1, <4>1
    <3>2. CASE todo[k].id # id
      <4>1. todo[k].id \in Ids
        <5>1. todo[k].id \in 1..Len(lines) /\ Len(lines) <= MaxLines /\ MaxLines \in Nat
          BY <1>2, BackfillConstants DEF TodoFits, ImportInv
        <5> QED
          BY <1>2, <5>1 DEF Ids
      <4>2. rows'[todo[k].id] = rows[todo[k].id]
        BY <1>4, <3>2, <4>1
      <4> QED
        BY <4>2 DEF ImportInv, Covers
    <3> QED
      BY <3>1, <3>2
  <2>3. rows'[Head(todo').id] # NoRow
    BY <1>2, <1>3, <1>4, <1>7
  <2>4. CountedIsStored'
    BY <1>1, <1>6, <1>7 DEF CountedIsStored
  <2> QED
    BY <1>1, <1>2, <1>4, <1>5, <1>7, <1>s, <2>2, <2>3, <2>4 DEF ImportInv
<1>8. CASE ~StepsFollow(run) /\ GoOn(Tail(todo)) /\ counted' = counted \cup {id}
  <2>1. ~(v.steps > 0)
    BY <1>3, <1>8 DEF StepsFollow
  <2>2. todo' = Tail(todo) /\ pc' \in {"row", "outcomes"} /\ (pc' = "row" <=> todo' # <<>>)
    BY <1>8, GoesOn
  <2>3. Covers(rows', Tail(todo))
    <3> SUFFICES ASSUME NEW k \in 1..Len(Tail(todo)), rows'[Tail(todo)[k].id] # NoRow,
                        rows'[Tail(todo)[k].id].steps > 0
                 PROVE  Tail(todo)[k].steps > 0
      BY DEF Covers
    <3>1. Tail(todo)[k].id \in Ids /\ Tail(todo)[k].id # id
      <4>1. /\ Tail(todo)[k].id \in 1..Len(lines) /\ Len(lines) <= MaxLines
            /\ MaxLines \in Nat /\ Len(lines) \in Nat
        BY <1>2, BackfillConstants DEF TodoFits, ImportInv
      <4>2. Tail(todo)[k].id \in Ids
        BY <4>1 DEF Ids
      <4>3. Tail(todo)[k].id # id
        BY <1>2
      <4> QED
        BY <4>2, <4>3
    <3>2. rows'[Tail(todo)[k].id] = rows[Tail(todo)[k].id]
      BY <1>4, <3>1
    <3> QED
      BY <1>2, <3>2 DEF Covers
  <2>4. CountedIsStored'
    <3>1. rows'[id] = v
      BY <1>2, <1>4
    <3> HIDE DEF v, id, run
    <3> QED
      BY <1>1, <1>3, <1>6, <1>8, <2>1, <3>1 DEF CountedIsStored
  <2>5. counted' \subseteq Ids
    BY <1>2, <1>8 DEF ImportInv
  <2> QED
    BY <1>1, <1>2, <1>4, <1>5, <1>s, <2>2, <2>3, <2>4, <2>5 DEF ImportInv
<1> QED
  BY <1>r, <1>7, <1>8

\* The steps statement.
LEMMA InsertStepsKeeps == ASSUME ImportInv, InsertSteps PROVE ImportInv'
<1> DEFINE id == Head(todo).id
<1>1. /\ pc = "steps" /\ stepRows' = [stepRows EXCEPT ![id] = @ + 1]
      /\ counted' = counted \cup {id} /\ UNCHANGED <<lines, imports, rows, sources>>
  BY DEF InsertSteps
<1>2. /\ id \in Ids /\ TodoFits(lines, Tail(todo)) /\ Covers(rows, Tail(todo))
      /\ rows[id] # NoRow
  BY <1>1, NextRun DEF ImportInv
<1>3. todo' = Tail(todo) /\ pc' \in {"row", "outcomes"} /\ (pc' = "row" <=> todo' # <<>>)
  BY GoesOn DEF InsertSteps
<1> HIDE DEF id
<1>4. /\ stepRows' \in [Ids -> Nat] /\ stepRows'[id] > 0
      /\ \A i \in Ids : stepRows[i] > 0 => stepRows'[i] > 0
  BY <1>1, <1>2 DEF ImportInv
<1>5. CountedIsStored'
  <2>1. \A i \in counted : i \in Ids /\ rows[i] # NoRow /\ (rows[i].steps > 0 => stepRows[i] > 0)
    BY DEF ImportInv, CountedIsStored
  <2> QED
    BY <1>1, <1>2, <1>4, <2>1 DEF CountedIsStored
<1> QED
  BY <1>1, <1>2, <1>3, <1>4, <1>5 DEF ImportInv

\* A statement that raises.
LEMMA SkipRunKeeps == ASSUME ImportInv, SkipRun PROVE ImportInv'
<1>1. pc \in {"row", "steps"} /\ UNCHANGED <<lines, imports, rows, sources, stepRows, counted>>
  BY DEF SkipRun, dbVars
<1>2. TodoFits(lines, Tail(todo)) /\ Covers(rows, Tail(todo))
  BY <1>1, NextRun
<1>3. todo' = Tail(todo) /\ pc' \in {"row", "outcomes"} /\ (pc' = "row" <=> todo' # <<>>)
  BY GoesOn DEF SkipRun
<1> QED
  BY <1>1, <1>2, <1>3 DEF ImportInv, CountedIsStored

\* A row that is stamped: an outcome it had stays.
LEMMA StampedRow ==
  ASSUME ImportInv, StampOutcomes, NEW i \in Ids
  PROVE  /\ rows[i] = NoRow => rows'[i] = NoRow
         /\ rows[i] # NoRow =>
              /\ rows'[i] # NoRow /\ rows'[i].steps = rows[i].steps
              /\ RowFits(lines, i, rows'[i])
              /\ \/ rows'[i] = rows[i]
                 \/ /\ rows[i].outcome = None
                    /\ rows'[i] = [rows[i] EXCEPT !.outcome = RawStatus[rows[i].ref]]
         /\ sources'[i] = IF HasRawItem(i) THEN "raw" ELSE sources[i]
<1>1. /\ rows'[i] = IF HasRawItem(i) THEN [rows[i] EXCEPT !.outcome = StampedOutcome(rows[i])]
                   ELSE rows[i]
      /\ sources'[i] = IF HasRawItem(i) THEN "raw" ELSE sources[i]
  BY DEF StampOutcomes
<1>2. RowFits(lines, i, rows[i])
  BY DEF ImportInv
<1>3. CASE HasRawItem(i)
  <2> DEFINE r == rows[i]
             o == StampedOutcome(r)
             s == [r EXCEPT !.outcome = o]
  <2>1. r \in StoredRuns /\ r.id = i /\ (r.steps > 0 => HasSteps(lines, i))
    BY <1>2, <1>3 DEF RowFits, HasRawItem
  <2>2. o \in Outcomes \cup {RawStatus[x] : x \in Refs}
    BY <2>1 DEF StampedOutcome, StoredRuns
  <2>3. r = [id |-> r.id, ref |-> r.ref, flow |-> r.flow, status |-> r.status,
             steps |-> r.steps, outcome |-> r.outcome]
    BY <2>1 DEF StoredRuns
  <2>4. r.outcome # None => o = r.outcome
    BY DEF StampedOutcome
  <2>5. r.outcome = None => o = RawStatus[r.ref]
    BY DEF StampedOutcome
  <2>6. rows'[i] = s
    BY <1>1, <1>3
  <2> HIDE DEF r, o
  <2>7. s \in StoredRuns /\ s.id = i /\ s.steps = r.steps
    BY <2>1, <2>2 DEF StoredRuns
  <2>8. r.outcome # None => s = r
    BY <2>3, <2>4
  <2>9. r.outcome = None => s = [r EXCEPT !.outcome = RawStatus[r.ref]]
    BY <2>5
  <2>10. s # NoRow
    <3>1. NoRow.id = 0 /\ i # 0
      BY DEF NoRow, Ids
    <3> HIDE DEF s
    <3> QED
      BY <2>7, <3>1
  <2>11. RowFits(lines, i, s)
    <3> HIDE DEF s
    <3> QED
      BY <2>1, <2>7 DEF RowFits
  <2> HIDE DEF s
  <2>12. \/ s = r
         \/ r.outcome = None /\ s = [r EXCEPT !.outcome = RawStatus[r.ref]]
    BY <2>8, <2>9
  <2> QED
    BY <1>1, <1>3, <2>6, <2>7, <2>10, <2>11, <2>12 DEF r, HasRawItem
<1>4. CASE ~HasRawItem(i)
  BY <1>1, <1>2, <1>4
<1> QED
  BY <1>3, <1>4

\* The UPDATE from raw_items.
LEMMA StampOutcomesKeeps == ASSUME ImportInv, StampOutcomes PROVE ImportInv'
<1>1. /\ pc = "outcomes" /\ pc' = "idle" /\ UNCHANGED <<lines, imports, todo, stepRows, counted>>
      /\ rows' = [i \in Ids |-> rows'[i]]
  BY DEF StampOutcomes
<1>2. todo = <<>>
  BY <1>1 DEF ImportInv
<1>3. \A i \in Ids : RowFits(lines, i, rows'[i])
  <2> SUFFICES ASSUME NEW i \in Ids PROVE RowFits(lines, i, rows'[i])
    OBVIOUS
  <2>1. CASE rows[i] = NoRow
    BY <2>1, StampedRow DEF RowFits
  <2>2. CASE rows[i] # NoRow
    BY <2>2, StampedRow
  <2> QED
    BY <2>1, <2>2
<1>4. Covers(rows', todo)
  BY <1>2 DEF Covers
<1>s. sources' \in [Ids -> {None, "trace", "raw"}]
  BY DEF StampOutcomes, ImportInv
<1>5. CountedIsStored'
  <2>1. \A i \in counted : i \in Ids /\ rows[i] # NoRow /\ (rows[i].steps > 0 => stepRows[i] > 0)
    BY DEF ImportInv, CountedIsStored
  <2>2. \A i \in counted : rows'[i] # NoRow /\ rows'[i].steps = rows[i].steps
    BY <2>1, StampedRow
  <2> QED
    BY <1>1, <2>1, <2>2 DEF CountedIsStored
<1> QED
  BY <1>1, <1>3, <1>4, <1>5, <1>s DEF ImportInv

\* The process ends.
LEMMA InterruptKeeps == ASSUME ImportInv, Interrupt PROVE ImportInv'
<1>1. pc' = "idle" /\ todo' = <<>> /\ UNCHANGED <<lines, imports, rows, sources, stepRows, counted>>
  BY DEF Interrupt, dbVars
<1>2. TodoFits(lines, <<>>) /\ Covers(rows, <<>>)
  <2>1. <<>> \in Seq(TracedRuns) /\ 1..Len(<<>>) = {}
    OBVIOUS
  <2> QED
    BY <2>1 DEF TodoFits, Covers
<1> QED
  BY <1>1, <1>2 DEF ImportInv, CountedIsStored
-----------------------------------------------------------------------------
(* The theorems.                                                           *)

\* Every step of the host and of the imports keeps the invariant.
LEMMA ImportStep == ImportInv /\ [Next]_vars => ImportInv'
<1> SUFFICES ASSUME ImportInv, [Next]_vars PROVE ImportInv'
  OBVIOUS
<1>1. CASE \E e \in Lines : Log(e)
  BY <1>1, LogKeeps
<1>2. CASE BeginImport
  BY <1>2, BeginImportKeeps
<1>3. CASE InsertRow
  BY <1>3, InsertRowKeeps
<1>4. CASE InsertSteps
  BY <1>4, InsertStepsKeeps
<1>5. CASE SkipRun
  BY <1>5, SkipRunKeeps
<1>6. CASE StampOutcomes
  BY <1>6, StampOutcomesKeeps
<1>7. CASE Interrupt
  BY <1>7, InterruptKeeps
<1>8. CASE UNCHANGED vars
  BY <1>8 DEF vars, dbVars, ImportInv, CountedIsStored
<1> QED
  BY <1>1, <1>2, <1>3, <1>4, <1>5, <1>6, <1>7, <1>8 DEF Next, Import

\* The inductive invariant of the imports holds of every behaviour.
THEOREM ImportInvariant == Spec => []ImportInv
<1> QED
  BY ImportInit, ImportStep, PTL DEF Spec

\* Of every trace, parse_trace_file finds the runs that the lines say there are, each once
\* and under an id of its own.
THEOREM ParserFindsEveryRun == Spec => []ParserFindsRuns
<1>1. ImportInv => ParserFindsRuns
  <2> SUFFICES ASSUME ImportInv PROVE ParserFindsRuns
    OBVIOUS
  <2> DEFINE parsed == ParsedRuns(lines)
             N == Len(parsed)
             f == [k \in 1..N |-> parsed[k].id]
  <2>1. lines \in Seq(Lines)
    BY DEF ImportInv
  <2>2. /\ parsed \in Seq(TracedRuns) /\ ToSet(parsed) = TakenRuns(lines)
        /\ \A k, l \in 1..N : parsed[k].id = parsed[l].id => k = l
    BY <2>1, ParsedRunsAre
  <2>3. N \in Nat /\ DOMAIN parsed = 1..N
    BY <2>2, LenProperties
  <2>u. {Unstamped(run) : run \in ToSet(parsed)} = RunsOf(lines)
    <3> HIDE DEF parsed
    <3>1. \A i : Unstamped(TakenRun(lines, i)) = FlowRun(lines, i)
      BY DEF Unstamped, TakenRun, FlowRun
    <3>2. \A j : Unstamped(AnswerRun(lines, j)) = AnswerRun(lines, j)
      BY DEF Unstamped, AnswerRun
    <3>3. ASSUME NEW run \in TakenRuns(lines)
          PROVE  Unstamped(run) \in RunsOf(lines)
      BY <3>1, <3>2 DEF TakenRuns, RunsOf
    <3>4. ASSUME NEW u \in RunsOf(lines)
          PROVE  \E run \in TakenRuns(lines) : Unstamped(run) = u
      BY <3>1, <3>2 DEF TakenRuns, RunsOf
    <3> QED
      BY <2>2, <3>3, <3>4
  <2>4. {run.id : run \in ToSet(parsed)} = {f[k] : k \in 1..N}
    <3> HIDE DEF parsed, N
    <3> QED
      BY <2>3 DEF ToSet
  <2>5. Cardinality({f[k] : k \in 1..N}) = N
    <3>1. \A k, l \in 1..N : f[k] = f[l] => k = l
      BY <2>2
    <3>2. f = [k \in 1..N |-> f[k]]
      OBVIOUS
    <3> HIDE DEF f, N
    <3> QED
      BY <2>3, <3>1, <3>2, ValuesAreCounted
  <2> QED
    BY <2>u, <2>4, <2>5 DEF ParserFindsRuns
<1> QED
  BY <1>1, ImportInvariant, PTL

\* The last word of the executor on an item is what the run that ended last before it has
\* for an outcome.
LEMMA LastWordIsTaken ==
  ASSUME NEW L, IsTrace(L), NEW ref, ExecutorLines(L, ref) # {},
         NEW i \in EndedBefore(L, ref, Max(ExecutorLines(L, ref))),
         \A h \in EndedBefore(L, ref, Max(ExecutorLines(L, ref))) : EndOf(L, h) <= EndOf(L, i)
  PROVE  OutcomeOf(L, i) = L[Max(ExecutorLines(L, ref))].outcome
<1> DEFINE n == Len(L)
           K == ExecutorLines(L, ref)
           k == Max(K)
           S == Stamps(L, i)
<1>1. n \in Nat /\ DOMAIN L = 1..n
  BY DEF IsTrace
<1>2. K \in SUBSET (1..n) /\ \A l \in K : L[l].ev = "executor" /\ L[l].ref = ref
  BY <1>1 DEF ExecutorLines
<1>3. k \in K /\ k \in 1..n /\ \A l \in K : l <= k
  <2>1. K \in SUBSET (0..n) /\ K # {}
    BY <1>1, <1>2
  <2> HIDE DEF K
  <2> QED
    BY <1>1, <1>2, <2>1, MaxOfSet
<1>4. i \in 1..n /\ L[i].ref = ref /\ EndOf(L, i) < k /\ EndOf(L, i) \in i + 1..n + 1
  <2>1. i \in 1..n /\ L[i].ref = ref /\ EndOf(L, i) < k
    BY <1>1 DEF EndedBefore, Started
  <2> QED
    BY <1>1, <2>1, EndOfIsFirst
<1>5. \A s \in Started(L) : L[s].ref = ref => EndOf(L, s) \notin EndOf(L, i) + 1..k - 1
  <2> SUFFICES ASSUME NEW s \in Started(L), L[s].ref = ref, EndOf(L, s) \in EndOf(L, i) + 1..k - 1
               PROVE  FALSE
    OBVIOUS
  <2>1. EndOf(L, s) < k /\ ~(EndOf(L, s) <= EndOf(L, i))
    BY <1>3, <1>4
  <2>2. s \in EndedBefore(L, ref, k)
    BY <2>1 DEF EndedBefore
  <2> QED
    BY <2>1, <2>2
<1>6. k \in S
  <2>1. k \in EndOf(L, i) + 1..n
    BY <1>1, <1>3, <1>4
  <2>2. L[k].ev = "executor" /\ L[k].ref = ref
    BY <1>2, <1>3
  <2> HIDE DEF k
  <2> QED
    BY <1>4, <1>5, <2>1, <2>2 DEF Stamps
<1>7. S \subseteq K
  <2>1. \A l \in S : l \in EndOf(L, i) + 1..n /\ L[l].ev = "executor" /\ L[l].ref = ref
    BY <1>4 DEF Stamps
  <2>2. \A l \in EndOf(L, i) + 1..n : l \in 1..n
    BY <1>1, <1>4
  <2> QED
    BY <1>1, <2>1, <2>2 DEF ExecutorLines
<1> HIDE DEF K, k, S
<1>8. Max(S) = k
  BY <1>1, <1>2, <1>3, <1>6, <1>7, MaxIs
<1> QED
  BY <1>6, <1>8 DEF OutcomeOf, LastOutcome, S, K, k

\* An outcome is one that the executor gave the run's item.
LEMMA OutcomeIsGiven ==
  ASSUME NEW L, IsTrace(L), NEW i \in Started(L), OutcomeOf(L, i) # None
  PROVE  \E k \in ExecutorLines(L, L[i].ref) : L[k].outcome = OutcomeOf(L, i)
<1> DEFINE n == Len(L)
           K == ExecutorLines(L, L[i].ref)
<1>1. n \in Nat /\ DOMAIN L = 1..n
  BY DEF IsTrace
<1>2. i \in 1..n
  BY <1>1 DEF Started
<1>3. EndOf(L, i) \in i + 1..n + 1
  BY <1>1, <1>2, EndOfIsFirst
<1>4. ASSUME NEW S \in SUBSET K, LastOutcome(L, S) # None
      PROVE  \E k \in K : L[k].outcome = LastOutcome(L, S)
  <2>1. S # {}
    BY <1>4 DEF LastOutcome
  <2>2. S \in SUBSET (0..n)
    BY <1>1 DEF ExecutorLines
  <2>3. Max(S) \in S
    BY <1>1, <2>1, <2>2, MaxOfSet
  <2> QED
    BY <2>1, <2>3 DEF LastOutcome
<1>5. Stamps(L, i) \in SUBSET K
  <2>1. \A k \in EndOf(L, i) + 1..n : k \in 1..n
    BY <1>1, <1>2, <1>3
  <2> QED
    BY <1>1, <2>1 DEF Stamps, ExecutorLines
<1>6. EndOf(L, i) \in DOMAIN L => Untaken(L, L[i].ref, EndOf(L, i)) \in SUBSET K
  <2> SUFFICES ASSUME EndOf(L, i) \in 1..n
               PROVE  Untaken(L, L[i].ref, EndOf(L, i)) \in SUBSET K
    BY <1>1
  <2>1. \A k \in 1..EndOf(L, i) - 1 : k \in 1..n
    BY <1>1
  <2> QED
    BY <1>1, <2>1 DEF Untaken, ExecutorLines
<1> HIDE DEF K
<1>7. CASE Stamps(L, i) # {}
  <2>1. OutcomeOf(L, i) = LastOutcome(L, Stamps(L, i))
    BY <1>7 DEF OutcomeOf
  <2> QED
    BY <1>4, <1>5, <2>1 DEF K
<1>8. CASE Stamps(L, i) = {}
  <2>1. /\ EndOf(L, i) \in DOMAIN L
        /\ OutcomeOf(L, i) = LastOutcome(L, Untaken(L, L[i].ref, EndOf(L, i)))
    BY <1>8 DEF OutcomeOf
  <2> QED
    BY <1>4, <1>6, <2>1 DEF K
<1> QED
  BY <1>7, <1>8

\* Of every trace, the executor's last word on an item reaches the run of the item that
\* ended last before it, and no run gets an outcome that was not given to its item.
THEOREM OutcomesReachTheirItem == Spec => []OutcomesAreOfTheItem
<1>1. ImportInv => OutcomesAreOfTheItem
  <2> SUFFICES ASSUME ImportInv PROVE OutcomesAreOfTheItem
    OBVIOUS
  <2> DEFINE parsed == ToSet(ParsedRuns(lines))
  <2>1. lines \in Seq(Lines)
    BY DEF ImportInv
  <2>2. parsed = TakenRuns(lines)
    BY <2>1, ParsedRunsAre
  <2>n. IsTrace(lines) /\ Len(lines) \in Nat /\ DOMAIN lines = 1..Len(lines)
    BY <2>1, TraceLines DEF IsTrace
  <2> HIDE DEF parsed
  <2>3. ASSUME NEW ref \in Refs, ExecutorLines(lines, ref) # {},
               NEW i \in EndedBefore(lines, ref, Max(ExecutorLines(lines, ref))),
               EndOf(lines, i) =
                 Max({EndOf(lines, h) :
                        h \in EndedBefore(lines, ref, Max(ExecutorLines(lines, ref)))})
        PROVE  \E run \in parsed :
                 run.id = i /\ run.outcome = lines[Max(ExecutorLines(lines, ref))].outcome
    <3> DEFINE k == Max(ExecutorLines(lines, ref))
               ended == EndedBefore(lines, ref, k)
               T == {EndOf(lines, h) : h \in ended}
    <3>1. \A h \in ended : h \in Started(lines) /\ EndOf(lines, h) \in 0..Len(lines) + 1
      <4>1. \A h \in ended : h \in Started(lines) /\ h \in 1..Len(lines)
        BY <2>n DEF EndedBefore, Started
      <4>2. \A h \in 1..Len(lines) : EndOf(lines, h) \in h + 1..Len(lines) + 1
        BY <2>n, EndOfIsFirst
      <4> HIDE DEF ended
      <4> QED
        BY <2>n, <4>1, <4>2
    <3> HIDE DEF ended, k
    <3>2. T \in SUBSET (0..Len(lines) + 1) /\ Len(lines) + 1 \in Nat
      BY <2>n, <3>1
    <3>3. \A t \in T : t <= Max(T)
      <4> HIDE DEF T
      <4> QED
        BY <3>2, MaxOfSet
    <3>4. \A h \in ended : EndOf(lines, h) <= EndOf(lines, i)
      BY <2>3, <3>3 DEF ended, k
    <3>5. OutcomeOf(lines, i) = lines[k].outcome
      BY <2>3, <2>n, <3>4, LastWordIsTaken DEF ended, k
    <3>6. TakenRun(lines, i) \in parsed
      BY <2>2, <2>3, <3>1 DEF TakenRuns, ended, k
    <3>7. TakenRun(lines, i).id = i /\ TakenRun(lines, i).outcome = OutcomeOf(lines, i)
      BY DEF TakenRun
    <3> QED
      BY <3>5, <3>6, <3>7 DEF k
  <2>4. ASSUME NEW run \in parsed, run.outcome # None
        PROVE  /\ run.flow \in Flows
               /\ \E k \in ExecutorLines(lines, run.ref) : lines[k].outcome = run.outcome
    <3>1. PICK i \in Started(lines) : run = TakenRun(lines, i)
      <4>1. \A j : AnswerRun(lines, j).outcome = None
        BY DEF AnswerRun
      <4> QED
        BY <2>2, <2>4, <4>1 DEF TakenRuns
    <3>2. /\ run.flow = lines[i].flow /\ run.ref = lines[i].ref
          /\ run.outcome = OutcomeOf(lines, i)
      BY <3>1 DEF TakenRun
    <3>3. lines[i].flow \in Flows
      BY <2>n DEF Started, IsTrace, Legible
    <3> QED
      BY <2>4, <2>n, <3>1, <3>2, <3>3, OutcomeIsGiven
  <2> QED
    BY <2>3, <2>4 DEF OutcomesAreOfTheItem, parsed
<1> QED
  BY <1>1, ImportInvariant, PTL

\* Every id an import touches is that of a line, and the import stands where its list of
\* runs says.
THEOREM BackfillTypeOK == Spec => []TypeOK
<1>1. ImportInv => TypeOK
  <2> SUFFICES ASSUME ImportInv PROVE TypeOK
    OBVIOUS
  <2>1. todo \in Seq(TracedRuns) /\ lines \in Seq(Lines)
    BY DEF ImportInv, TodoFits
  <2>2. DOMAIN todo = 1..Len(todo) /\ Len(lines) \in Nat
    BY <2>1, LenProperties
  <2>3. \A k \in DOMAIN todo : todo[k].id \in Ids
    <3>1. Len(lines) <= MaxLines /\ MaxLines \in Nat
      BY BackfillConstants DEF ImportInv
    <3>2. \A k \in DOMAIN todo : todo[k].id \in 1..Len(lines)
      BY <2>2 DEF ImportInv, TodoFits
    <3> QED
      BY <2>2, <3>1, <3>2 DEF Ids
  <2>4. \A i \in Ids : rows[i] # NoRow => rows[i].id = i /\ rows[i].status \in Statuses
    BY DEF ImportInv, RowFits, StoredRuns
  <2> QED
    BY <2>3, <2>4 DEF ImportInv, TypeOK
<1> QED
  BY <1>1, ImportInvariant, PTL

\* A run that an import counted is stored with its steps, whatever the imports before it
\* left undone.
THEOREM CountedRunsAreStored == Spec => []CountedIsStored
<1>1. ImportInv => CountedIsStored
  BY DEF ImportInv
<1> QED
  BY <1>1, ImportInvariant, PTL

\* No later import of the grown file takes a stored run back or changes it, but for the
\* outcome of a run that had none and the source of a run whose item raw_items has.
THEOREM StoredRunsAreKept == Spec => StoredRunsStay
<1> DEFINE Stays ==
      \A i \in Ids : rows[i] # NoRow =>
        /\ \/ rows'[i] = rows[i]
           \/ /\ rows[i].outcome = None
              /\ rows'[i] = [rows[i] EXCEPT !.outcome = RawStatus[rows[i].ref]]
        /\ sources'[i] = sources[i] \/ (HasRawItem(i) /\ sources'[i] = "raw")
<1>1. ImportInv /\ [Next]_vars => [Stays]_vars
  <2> SUFFICES ASSUME ImportInv, Next PROVE Stays
    OBVIOUS
  <2>1. CASE InsertRow
    <3>1. Head(todo).id \in Ids
      BY <2>1, NextRun DEF InsertRow
    <3>2. /\ rows' = [rows EXCEPT ![Head(todo).id] = InsertedRow(Head(todo))]
          /\ sources' = [sources EXCEPT ![Head(todo).id] =
                           IF rows[Head(todo).id] = NoRow THEN "trace" ELSE @]
          /\ rows = [i \in Ids |-> rows[i]]
          /\ sources \in [Ids -> {None, "trace", "raw"}]
      BY <2>1 DEF InsertRow, ImportInv
    <3>3. rows[Head(todo).id] # NoRow => InsertedRow(Head(todo)) = rows[Head(todo).id]
      BY DEF InsertedRow
    <3>4. \A i \in Ids : rows[i] # NoRow => rows'[i] = rows[i]
      BY <3>1, <3>2, <3>3
    <3>5. \A i \in Ids : rows[i] # NoRow => sources'[i] = sources[i]
      BY <3>1, <3>2
    <3> QED
      BY <3>4, <3>5
  <2>2. CASE StampOutcomes
    BY <2>2, StampedRow
  <2>3. CASE UNCHANGED <<rows, sources>>
    BY <2>3
  <2>4. Next => InsertRow \/ StampOutcomes \/ UNCHANGED <<rows, sources>>
    BY DEF Next, Import, Log, BeginImport, InsertSteps, SkipRun, Interrupt, dbVars
  <2> QED
    BY <2>1, <2>2, <2>3, <2>4
<1>2. Spec => [][Stays]_vars
  BY <1>1, ImportInvariant, PTL DEF Spec
<1> QED
  BY <1>2 DEF StoredRunsStay
=============================================================================
