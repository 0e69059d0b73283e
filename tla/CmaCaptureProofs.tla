-------------------------- MODULE CmaCaptureProofs --------------------------
(***************************************************************************)
(* Captures of one session that persist one after the other replace each   *)
(* other whole, and until a stray result comes every result goes to its    *)
(* call, for any number of tees and ingests and any history.               *)
(***************************************************************************)
EXTENDS CmaCapture, SequenceTheorems, FiniteSetTheorems, FunctionTheorems, DataLemmas, TLAPS

\* The part of the state _persist works on has its types.
PersistTypes ==
  /\ pc \in [Captures -> Statements \cup {"idle", "open", "done", "dropped"}]
  /\ DOMAIN handle = Captures
  /\ row \in Row \cup {None}
  /\ stepRows \in [Captures -> Nat]
  /\ last \in Captures \cup {None}
  /\ overlapped \in BOOLEAN

Inv == PersistTypes /\ PersistInv

\* None is no capture.
LEMMA NoneIsNoCapture == None \notin Captures
BY CmaCaptureConstants DEF Captures

\* Nothing is captured at first.
LEMMA InitInv == Init => Inv
<1> SUFFICES ASSUME Init
             PROVE  Inv
  OBVIOUS
<1>1. PersistTypes
  BY DEF Init, PersistTypes
<1>2. \A c \in Captures : pc[c] = "idle" /\ stepRows[c] = 0
  BY DEF Init
<1>3. last = None /\ StepsOfOne
  BY <1>2 DEF Init, StepsOfOne
<1>4. PersistInv
  BY <1>2, <1>3, CmaCaptureConstants DEF PersistInv, Statements
<1> QED
  BY <1>1, <1>4 DEF Inv

\* A capture ends and its _persist begins: unless another is at it, the tables are at rest.
LEMMA StartPersistKeeps ==
  ASSUME Inv, NEW c \in Captures, pc[c] \in {"idle", "open"}, NEW h,
         StartPersist(c, h), UNCHANGED dbVars
  PROVE  Inv'
<1> USE DEF Inv, StartPersist, dbVars, PersistTypes
<1>1. PersistTypes'
  BY DEF Statements
<1>2. /\ last' = c /\ c # None /\ pc'[c] = "delete"
      /\ \A d \in Captures \ {c} : pc'[d] = pc[d] /\ handle'[d] = handle[d]
  BY NoneIsNoCapture
<1>3. ASSUME ~overlapped'
      PROVE  /\ ~overlapped
             /\ \A d \in Captures \ {c} : pc[d] \notin Statements
  BY <1>3 DEF Busy
<1>4. ASSUME ~overlapped'
      PROVE  /\ StepsOfOne'
             /\ \A d \in Captures : pc'[d] \in Statements => d = c
             /\ \A d \in Captures : pc'[d] \notin {"update", "upsert", "steps", "scores"}
             /\ \A d \in HasModel : pc'[d] = "done" => row # None /\ row.model \in HasModel
  <2>1. StepsOfOne'
    BY <1>3, <1>4 DEF PersistInv, StepsOfOne
  <2>2. \A d \in Captures : pc'[d] \in Statements => d = c
    BY <1>2, <1>3, <1>4
  <2>3. \A d \in Captures : pc'[d] \notin {"update", "upsert", "steps", "scores"}
    BY <1>2, <1>3, <1>4 DEF Statements
  <2>4. \A d \in HasModel : pc'[d] = "done" => row # None /\ row.model \in HasModel
    BY <1>2, <1>3, <1>4, CmaCaptureConstants DEF PersistInv
  <2> QED
    BY <2>1, <2>2, <2>3, <2>4
<1>5. \A d \in HasModel : d \in Captures
  BY CmaCaptureConstants
<1>6. PersistInv'
  BY <1>2, <1>4, <1>5 DEF PersistInv
<1> QED
  BY <1>1, <1>6

\* What a statement of a _persist leaves in the tables, when no other is under way.
PersistStepLeaves(c) ==
  /\ StepsOfOne'
  /\ pc'[c] \in {"update", "upsert", "steps"} => \A d \in Captures : stepRows'[d] = 0
  /\ pc'[c] = "upsert" => row' = None
  /\ pc'[c] = "steps" => row' # None /\ row'.rest = c /\ handle'[c].steps # <<>>
  /\ pc'[c] \in {"scores", "done"} => WholeTables(c)'
  /\ \A d \in HasModel : pc'[d] \in {"steps", "scores", "done"} =>
       row' # None /\ row'.model \in HasModel

\* The update of a row that is there keeps a model.
LEMMA RowUpdatedHas ==
  ASSUME row \in Row, NEW c \in Captures
  PROVE  /\ RowUpdated(c) \in Row /\ RowUpdated(c) # None /\ RowUpdated(c).rest = c
         /\ row.model \in HasModel \/ c \in HasModel => RowUpdated(c).model \in HasModel
BY CmaCaptureConstants DEF RowUpdated, Row

\* What the upsert writes is a row.
LEMMA RowUpsertedHas ==
  ASSUME row \in Row \cup {None}, NEW c \in Captures, UpsertRow(c)
  PROVE  /\ row' \in Row /\ row' # None /\ row'.rest = c
         /\ c \in HasModel => row'.model \in HasModel
BY CmaCaptureConstants DEF UpsertRow, Row, Given

\* Each statement leaves the tables as the next one finds them.
LEMMA PersistStepEffect ==
  ASSUME Inv, NEW c \in Captures, PersistStep(c), ~overlapped, c = last,
         pc' = [pc EXCEPT ![c] = pc'[c]], handle' = handle
  PROVE  PersistStepLeaves(c)
<1> USE DEF Inv, PersistTypes
<1>0. /\ StepsOfOne
      /\ pc[c] \in {"update", "upsert", "steps"} => \A d \in Captures : stepRows[d] = 0
      /\ pc[c] = "upsert" => row = None
      /\ pc[c] = "steps" => row # None /\ row.rest = c /\ handle[c].steps # <<>>
      /\ pc[c] = "scores" => WholeTables(c)
      /\ \A d \in HasModel : pc[d] \in {"steps", "scores", "done"} =>
           row # None /\ row.model \in HasModel
      /\ \A d \in HasModel : d \in Captures
      /\ \A d \in Captures \ {c} : pc'[d] = pc[d]
  BY NoneIsNoCapture, CmaCaptureConstants DEF PersistInv
<1>1. CASE DeleteSteps(c)
  BY <1>0, <1>1 DEF DeleteSteps, StepRowsDeleted, PersistStepLeaves, StepsOfOne
<1>2. CASE UpdateRow(c)
  <2>1. stepRows' = stepRows /\ StepsOfOne' /\ \A d \in Captures : stepRows'[d] = 0
    BY <1>0, <1>2 DEF UpdateRow, StepsOfOne
  <2>2. CASE row = None
    <3>1. row' = None /\ pc'[c] = "upsert"
      BY <1>2, <2>2 DEF UpdateRow
    <3>2. \A d \in HasModel : pc'[d] \notin {"steps", "scores", "done"}
      BY <1>0, <2>2, <3>1
    <3> QED
      BY <2>1, <3>1, <3>2 DEF PersistStepLeaves
  <2>3. CASE row # None
    <3>1. row' = RowUpdated(c) /\ pc'[c] = AfterRow(c)
      BY <1>2, <2>3 DEF UpdateRow
    <3>2. /\ row' # None /\ row'.rest = c
          /\ row.model \in HasModel \/ c \in HasModel => row'.model \in HasModel
      BY <2>3, <3>1, RowUpdatedHas
    <3>3. pc'[c] \in {"steps", "scores", "done"} /\ (pc'[c] = "steps" <=> handle[c].steps # <<>>)
      BY <3>1 DEF AfterRow, AfterSteps
    <3>4. pc'[c] \in {"scores", "done"} => WholeTables(c)'
      BY <2>1, <3>2, <3>3 DEF WholeTables
    <3>5. \A d \in HasModel : pc'[d] \in {"steps", "scores", "done"} => row'.model \in HasModel
      BY <1>0, <3>2
    <3> QED
      BY <2>1, <3>2, <3>3, <3>4, <3>5 DEF PersistStepLeaves
  <2> QED
    BY <2>2, <2>3
<1>3. CASE UpsertRow(c)
  <2>1. stepRows' = stepRows /\ StepsOfOne' /\ \A d \in Captures : stepRows'[d] = 0
    BY <1>0, <1>3 DEF UpsertRow, StepsOfOne
  <2>2. /\ row' # None /\ row'.rest = c
        /\ c \in HasModel => row'.model \in HasModel
    BY <1>3, RowUpsertedHas
  <2>3. pc'[c] \in {"steps", "scores", "done"} /\ (pc'[c] = "steps" <=> handle[c].steps # <<>>)
    BY <1>3 DEF UpsertRow, AfterRow, AfterSteps
  <2>4. pc'[c] \in {"scores", "done"} => WholeTables(c)'
    BY <2>1, <2>2, <2>3 DEF WholeTables
  <2>5. row = None
    BY <1>0, <1>3 DEF UpsertRow
  <2>6. \A d \in HasModel : pc'[d] \in {"steps", "scores", "done"} => d = c
    BY <1>0, <2>5
  <2> QED
    BY <2>1, <2>2, <2>3, <2>4, <2>6 DEF PersistStepLeaves
<1>4. CASE InsertSteps(c)
  <2>1. /\ row' = row /\ row # None /\ row.rest = c /\ handle[c].steps # <<>>
        /\ \A d \in Captures : stepRows'[d] = IF d = c THEN 1 ELSE 0
        /\ pc'[c] \in {"scores", "done"} /\ pc[c] = "steps"
    BY <1>0, <1>4 DEF InsertSteps, AfterSteps
  <2>2. WholeTables(c)' /\ StepsOfOne'
    BY <2>1 DEF WholeTables, StepsOfOne
  <2>3. \A d \in HasModel : pc'[d] \in {"steps", "scores", "done"} =>
          row' # None /\ row'.model \in HasModel
    BY <1>0, <2>1
  <2> QED
    BY <2>1, <2>2, <2>3 DEF PersistStepLeaves
<1>5. CASE InsertScore(c)
  <2>1. /\ row' = row /\ stepRows' = stepRows /\ pc'[c] \in {"scores", "done"}
        /\ pc[c] = "scores"
    BY <1>5 DEF InsertScore, AfterScore
  <2>2. WholeTables(c)' /\ StepsOfOne'
    BY <1>0, <2>1 DEF WholeTables, StepsOfOne
  <2>3. \A d \in HasModel : pc'[d] \in {"steps", "scores", "done"} =>
          row' # None /\ row'.model \in HasModel
    BY <1>0, <2>1
  <2> QED
    BY <2>1, <2>2, <2>3 DEF PersistStepLeaves
<1>6. CASE Drop(c)
  <2>1. row' = row /\ stepRows' = stepRows /\ pc'[c] = "dropped"
    BY <1>6 DEF Drop, dbVars
  <2>2. StepsOfOne'
    BY <1>0, <2>1 DEF StepsOfOne
  <2>3. \A d \in HasModel : pc'[d] \in {"steps", "scores", "done"} =>
          row' # None /\ row'.model \in HasModel
    BY <1>0, <2>1
  <2> QED
    BY <2>1, <2>2, <2>3 DEF PersistStepLeaves
<1> QED
  BY <1>1, <1>2, <1>3, <1>4, <1>5, <1>6 DEF PersistStep

\* The next statement of a _persist.
LEMMA PersistStepKeeps ==
  ASSUME Inv, NEW c \in Captures, PersistStep(c)
  PROVE  Inv'
<1> USE DEF Inv, PersistTypes
<1>1. /\ pc[c] \in Statements
      /\ pc' = [pc EXCEPT ![c] = pc'[c]]
      /\ pc'[c] \in Statements \cup {"done", "dropped"}
      /\ UNCHANGED <<handle, last, overlapped>>
  BY DEF PersistStep, DeleteSteps, UpdateRow, UpsertRow, InsertSteps, InsertScore, Drop,
         AfterRow, AfterSteps, AfterScore, Statements, pastVars
<1>2. PersistTypes'
  <2>1. pc' \in [Captures -> Statements \cup {"idle", "open", "done", "dropped"}]
    BY <1>1
  <2>2. \/ row' = row
        \/ row \in Row /\ row' = RowUpdated(c)
        \/ UpsertRow(c)
    BY DEF PersistStep, DeleteSteps, UpdateRow, InsertSteps, InsertScore, Drop, dbVars
  <2>3. row' \in Row \cup {None}
    BY <2>2, RowUpdatedHas, RowUpsertedHas
  <2>4. \/ stepRows' = StepRowsDeleted(c)
        \/ stepRows' = stepRows
        \/ stepRows' = [stepRows EXCEPT ![c] = @ + 1]
    BY DEF PersistStep, DeleteSteps, UpdateRow, UpsertRow, InsertSteps, InsertScore, Drop,
           dbVars
  <2>5. stepRows' \in [Captures -> Nat]
    BY <2>4 DEF StepRowsDeleted
  <2> QED
    BY <1>1, <2>1, <2>3, <2>5
<1>3. \A d \in Captures \ {c} : pc'[d] = pc[d]
  BY <1>1
<1>4. /\ \A d \in Captures : pc'[d] \notin {"idle", "open"} => last' # None
      /\ last' # None => pc'[last'] \notin {"idle", "open"}
  <2>1. pc[c] \notin {"idle", "open"} /\ pc'[c] \notin {"idle", "open"}
    BY <1>1 DEF Statements
  <2> QED
    BY <1>1, <1>3, <2>1 DEF PersistInv
<1>5. CASE overlapped
  BY <1>1, <1>2, <1>4, <1>5 DEF PersistInv
<1>6. CASE ~overlapped
  <2>1. c = last /\ \A d \in Captures \ {c} : pc'[d] \notin Statements
    BY <1>1, <1>3, <1>6 DEF PersistInv
  <2>2. PersistStepLeaves(c)
    BY <1>1, <1>6, <2>1, PersistStepEffect
  <2>3. \A d \in Captures : pc'[d] \in {"update", "upsert", "steps"} => d = c
    BY <2>1 DEF Statements
  <2> QED
    BY <1>1, <1>2, <1>4, <2>1, <2>2, <2>3 DEF PersistInv, PersistStepLeaves
<1> QED
  BY <1>5, <1>6

\* Every step keeps the invariant.
LEMMA StepInv == Inv /\ [Next]_vars => Inv'
<1> SUFFICES ASSUME Inv, [Next]_vars
             PROVE  Inv'
  OBVIOUS
<1>1. ASSUME UNCHANGED <<pc, handle, dbVars, last, overlapped>>
      PROVE  Inv'
  BY <1>1
  DEF dbVars, Inv, PersistTypes, PersistInv, StepsOfOne, WholeTables
<1>2. ASSUME NEW c \in Captures, UNCHANGED <<dbVars, last, overlapped>>,
             pc[c] \in {"idle", "open"}, pc' = [pc EXCEPT ![c] = "open"],
             DOMAIN handle' = Captures, \A d \in Captures \ {c} : handle'[d] = handle[d]
      PROVE  Inv'
  <2> USE DEF Inv, PersistTypes, dbVars
  <2>1. PersistTypes'
    BY <1>2
  <2>2. \A d \in Captures \ {c} : pc'[d] = pc[d]
    BY <1>2
  <2>3. last # c
    BY <1>2, NoneIsNoCapture DEF PersistInv
  <2>4. pc'[c] = "open"
    BY <1>2
  <2>5. StepsOfOne => StepsOfOne'
    BY <1>2 DEF StepsOfOne
  <2>6. last # None /\ WholeTables(last) => WholeTables(last)'
    BY <1>2, <2>3 DEF WholeTables
  <2>7. \A d \in HasModel : d \in Captures
    BY CmaCaptureConstants
  <2>8. /\ \A d \in Captures : pc'[d] \notin {"idle", "open"} => last' # None
        /\ last' # None => pc'[last'] \notin {"idle", "open"}
    BY <1>2, <2>2, <2>3, <2>4 DEF PersistInv
  <2>9. ASSUME ~overlapped'
        PROVE  /\ StepsOfOne'
               /\ \A d \in Captures : pc'[d] \in Statements => d = last'
               /\ \A d \in Captures : pc'[d] \in {"update", "upsert", "steps"} =>
                    \A x \in Captures : stepRows'[x] = 0
               /\ \A d \in Captures : pc'[d] = "upsert" => row' = None
               /\ \A d \in Captures : pc'[d] = "steps" =>
                    row' # None /\ row'.rest = d /\ handle'[d].steps # <<>>
               /\ last' # None /\ pc'[last'] \in {"scores", "done"} => WholeTables(last)'
               /\ \A d \in HasModel : pc'[d] \in {"steps", "scores", "done"} =>
                    row' # None /\ row'.model \in HasModel
    <3>1. ~overlapped /\ row' = row /\ stepRows' = stepRows /\ last' = last
      BY <1>2, <2>9
    <3>2. \A d \in Captures : pc'[d] \notin {"open"} => d # c /\ pc[d] = pc'[d]
      BY <2>2, <2>4
    <3>3. StepsOfOne'
      BY <2>5, <3>1 DEF PersistInv
    <3>4. \A d \in Captures : pc'[d] \in Statements => d = last'
      BY <3>1, <3>2 DEF PersistInv, Statements
    <3>5. \A d \in Captures : pc'[d] \in {"update", "upsert", "steps"} =>
            \A x \in Captures : stepRows'[x] = 0
      BY <3>1, <3>2 DEF PersistInv
    <3>6. \A d \in Captures : pc'[d] = "upsert" => row' = None
      BY <3>1, <3>2 DEF PersistInv
    <3>7. \A d \in Captures : pc'[d] = "steps" =>
            row' # None /\ row'.rest = d /\ handle'[d].steps # <<>>
      BY <1>2, <3>1, <3>2 DEF PersistInv
    <3>8. last' # None /\ pc'[last'] \in {"scores", "done"} => WholeTables(last)'
      BY <2>6, <3>1, <3>2 DEF PersistInv
    <3>9. \A d \in HasModel : pc'[d] \in {"steps", "scores", "done"} =>
            row' # None /\ row'.model \in HasModel
      BY <2>7, <3>1, <3>2 DEF PersistInv
    <3> QED
      BY <3>3, <3>4, <3>5, <3>6, <3>7, <3>8, <3>9
  <2> QED
    BY <2>1, <2>8, <2>9 DEF PersistInv
<1>3. ASSUME NEW c \in Captures, TeeEvent(c)
      PROVE  Inv'
  <2>1. /\ pc[c] = "open" /\ pc' = [pc EXCEPT ![c] = "open"]
        /\ UNCHANGED <<dbVars, last, overlapped>>
        /\ \A d \in Captures \ {c} : handle'[d] = handle[d]
        /\ DOMAIN handle' = Captures
    BY <1>3 DEF TeeEvent, Inv, PersistTypes
  <2> QED
    BY <1>2, <2>1
<1>4. ASSUME NEW c \in Captures, OpenTee(c)
      PROVE  Inv'
  BY <1>2, <1>4 DEF OpenTee, pastVars, Inv, PersistTypes
<1>5. ASSUME NEW c \in Captures, NEW raised \in BOOLEAN, CloseTee(c, raised)
      PROVE  Inv'
  BY <1>5, StartPersistKeeps DEF CloseTee
<1>6. ASSUME NEW c \in Captures, Ingest(c)
      PROVE  Inv'
  BY <1>6, StartPersistKeeps DEF Ingest
<1>7. ASSUME NEW c \in Captures, PersistStep(c)
      PROVE  Inv'
  BY <1>7, PersistStepKeeps
<1>8. ASSUME NEW e \in Events, Happen(e)
      PROVE  Inv'
  BY <1>1, <1>8 DEF Happen, pastVars
<1>9. CASE UNCHANGED vars
  BY <1>1, <1>9 DEF vars, dbVars
<1> QED
  BY <1>3, <1>4, <1>5, <1>6, <1>7, <1>8, <1>9 DEF Next, CaptureStep

\* The tables follow the one capture that is at its _persist.
THEOREM PersistsKeepTables == Spec => []PersistInv
<1>1. Inv => PersistInv
  BY DEF Inv
<1> QED
  BY <1>1, InitInv, StepInv, PTL DEF Spec

\* As long as no two _persists of the session overlapped, the steps in the table are one
\* capture's; when the last _persist is done they are that capture's, and so are the
\* columns of the row that every finalize sets, also after one that was dropped halfway.
THEOREM SerialPersistsReplaceWhole == Spec => []SerialPersistsReplace
<1>1. Inv => SerialPersistsReplace
  BY CmaCaptureConstants DEF Inv, PersistTypes, PersistInv, SerialPersistsReplace
<1> QED
  BY <1>1, InitInv, StepInv, PTL DEF Spec

-----------------------------------------------------------------------------
(* One handle: what an event, a history and finish() make of it.           *)

\* A handle is a record of its fields.
CmaFields == {"status", "finished", "subtype", "error", "steps", "pending", "errors", "scores"}

CmaSteps == [event : Nat, id : CallIds \cup {None},
             answer : {<<>>} \cup {<<l>> : l \in CallIds \cup {None}}, err : BOOLEAN]

CmaRecord(h) ==
  /\ h = [x \in CmaFields |-> h[x]]
  /\ h.status \in {"running", "succeeded", "failed"}
  /\ h.finished \in BOOLEAN
  /\ h.scores \in Seq(Nat)

CmaStepTypes(h) ==
  /\ h.steps \in Seq(CmaSteps)
  /\ h.pending \in Seq(1..Len(h.steps))
  /\ h.errors \in Nat

\* The calls without a result, and the steps with an error.
OpenSteps(h) == {i \in DOMAIN h.steps : h.steps[i].id # None /\ h.steps[i].answer = <<>>}
CmaErrors(h) == {i \in DOMAIN h.steps : h.steps[i].err}

\* The pending calls are the open ones, in their order.
PendingFits(h) ==
  /\ \A k \in DOMAIN h.pending : h.pending[k] \in OpenSteps(h)
  /\ \A i \in OpenSteps(h) : \E k \in DOMAIN h.pending : h.pending[k] = i
  /\ \A k, l \in DOMAIN h.pending : k < l => h.pending[k] < h.pending[l]

\* No more errors are counted than there are, and only answers have one.
ErrorsFit(h) ==
  /\ h.errors <= Cardinality(CmaErrors(h))
  /\ \A i \in CmaErrors(h) : h.steps[i].answer # <<>>

CmaInv(h) == CmaRecord(h) /\ CmaStepTypes(h) /\ PendingFits(h) /\ ErrorsFit(h)

\* Every error is counted.
ErrorsCounted(h) == h.errors = Cardinality(CmaErrors(h))

CmaSameEnd(g, h) == g.finished = h.finished /\ g.status = h.status

\* A handle starts without steps.
LEMMA NewCmaHandleInv == CmaInv(NewCmaHandle) /\ ErrorsCounted(NewCmaHandle)
<1> DEFINE h == NewCmaHandle
<1>1. CmaRecord(h)
  BY EmptySeq DEF CmaRecord, CmaFields, NewCmaHandle
<1>2. CmaStepTypes(h)
  BY EmptySeq DEF CmaStepTypes, NewCmaHandle
<1>3. h.steps = <<>> /\ h.pending = <<>> /\ h.errors = 0
  BY DEF NewCmaHandle
<1> HIDE DEF h
<1>4. DOMAIN h.steps = {} /\ DOMAIN h.pending = {}
  BY <1>3
<1>5. OpenSteps(h) = {} /\ CmaErrors(h) = {}
  BY <1>4 DEF OpenSteps, CmaErrors
<1>6. PendingFits(h)
  BY <1>4, <1>5 DEF PendingFits
<1>7. ErrorsFit(h) /\ ErrorsCounted(h)
  BY <1>3, <1>5, FS_EmptySet DEF ErrorsFit, ErrorsCounted
<1> QED
  BY <1>1, <1>2, <1>6, <1>7 DEF CmaInv, h

\* The lengths and the elements of a handle's sequences.
LEMMA CmaSequences ==
  ASSUME NEW h, CmaStepTypes(h)
  PROVE  /\ Len(h.steps) \in Nat /\ DOMAIN h.steps = 1..Len(h.steps)
         /\ Len(h.pending) \in Nat /\ DOMAIN h.pending = 1..Len(h.pending)
         /\ \A i \in 1..Len(h.steps) : h.steps[i] \in CmaSteps
         /\ \A k \in 1..Len(h.pending) : h.pending[k] \in 1..Len(h.steps)
<1>1. h.steps \in Seq(CmaSteps) /\ h.pending \in Seq(1..Len(h.steps))
  BY DEF CmaStepTypes
<1>2. \A i \in 1..Len(h.steps) : h.steps[i] \in CmaSteps
  BY <1>1, ElementOfSeq
<1>3. \A k \in 1..Len(h.pending) : h.pending[k] \in 1..Len(h.steps)
  BY <1>1, ElementOfSeq
<1> QED
  BY <1>1, <1>2, <1>3, LenProperties

\* The invariant is about the steps, the pending calls and the error count.
LEMMA SameCmaStepsKeep ==
  ASSUME NEW h, CmaInv(h), NEW g, CmaRecord(g),
         g.steps = h.steps, g.pending = h.pending, g.errors = h.errors
  PROVE  CmaInv(g) /\ (ErrorsCounted(h) => ErrorsCounted(g))
<1>1. CmaStepTypes(g)
  BY DEF CmaInv, CmaStepTypes
<1>2. OpenSteps(g) = OpenSteps(h) /\ CmaErrors(g) = CmaErrors(h)
  BY DEF OpenSteps, CmaErrors
<1>3. PendingFits(g)
  BY <1>2 DEF CmaInv, PendingFits
<1>4. ErrorsFit(g) /\ (ErrorsCounted(h) => ErrorsCounted(g))
  BY <1>2 DEF CmaInv, ErrorsFit, ErrorsCounted
<1> QED
  BY <1>1, <1>3, <1>4 DEF CmaInv

\* The steps of g are those of h and s.
CmaAppended(h, g, s) ==
  /\ g.steps \in Seq(CmaSteps)
  /\ Len(g.steps) = Len(h.steps) + 1
  /\ DOMAIN g.steps = 1..Len(h.steps) + 1
  /\ \A i \in 1..Len(h.steps) : g.steps[i] = h.steps[i]
  /\ g.steps[Len(h.steps) + 1] = s
  /\ OpenSteps(g) = IF s.id # None THEN OpenSteps(h) \cup {Len(h.steps) + 1} ELSE OpenSteps(h)
  /\ CmaErrors(g) = CmaErrors(h)

\* A step is added at the end, without an answer.
LEMMA AppendedCmaStep ==
  ASSUME NEW h, CmaStepTypes(h), NEW i \in Nat, NEW id \in CallIds \cup {None},
         NEW g, g.steps = Append(h.steps, CmaStep(i, id))
  PROVE  CmaAppended(h, g, CmaStep(i, id))
<1> DEFINE s == CmaStep(i, id)
           m == Len(h.steps)
<1>1. s \in CmaSteps /\ s.id = id /\ s.answer = <<>> /\ s.err = FALSE
  BY DEF CmaSteps, CmaStep
<1> HIDE DEF s
<1>2. /\ m \in Nat /\ DOMAIN h.steps = 1..m
      /\ \A j \in 1..m : h.steps[j] \in CmaSteps
  BY CmaSequences
<1>3. /\ g.steps \in Seq(CmaSteps)
      /\ Len(g.steps) = m + 1
      /\ \A j \in 1..m : g.steps[j] = h.steps[j]
      /\ g.steps[m + 1] = s
  BY <1>1, AppendProperties DEF CmaStepTypes, s
<1>4. DOMAIN g.steps = 1..m + 1
  BY <1>3, LenProperties
<1>5. 1..m + 1 = 1..m \cup {m + 1} /\ m + 1 \notin 1..m
  BY <1>2
<1> HIDE DEF m
<1>6. OpenSteps(g) = IF s.id # None THEN OpenSteps(h) \cup {m + 1} ELSE OpenSteps(h)
  BY <1>1, <1>2, <1>3, <1>4, <1>5 DEF OpenSteps
<1>7. CmaErrors(g) = CmaErrors(h)
  BY <1>1, <1>2, <1>3, <1>4, <1>5 DEF CmaErrors
<1> QED
  BY <1>3, <1>4, <1>6, <1>7 DEF CmaAppended, m, s

\* Added errors and answers stay what they are.
LEMMA AppendedErrorsFit ==
  ASSUME NEW h, CmaInv(h), NEW g, NEW s, CmaAppended(h, g, s), g.errors = h.errors
  PROVE  ErrorsFit(g) /\ (ErrorsCounted(h) => ErrorsCounted(g))
<1>1. DOMAIN h.steps = 1..Len(h.steps)
  BY CmaSequences DEF CmaInv
<1>2. \A i \in CmaErrors(h) : g.steps[i].answer # <<>>
  BY <1>1 DEF CmaAppended, CmaInv, ErrorsFit, CmaErrors
<1> QED
  BY <1>2 DEF CmaAppended, CmaInv, ErrorsFit, ErrorsCounted

\* A call waits for its result, behind the others.
LEMMA CmaCallKeeps ==
  ASSUME NEW h, CmaInv(h), NEW i \in Nat, NEW e, e.ev = "call", e.id \in CallIds
  PROVE  /\ CmaInv(ObserveEvent(h, e, i)) /\ CmaSameEnd(ObserveEvent(h, e, i), h)
         /\ CmaAppended(h, ObserveEvent(h, e, i), CmaStep(i, e.id))
         /\ ErrorsCounted(h) => ErrorsCounted(ObserveEvent(h, e, i))
<1> DEFINE g == ObserveEvent(h, e, i)
           s == CmaStep(i, e.id)
           m == Len(h.steps)
           n == Len(h.pending)
<1>1. CmaRecord(h) /\ CmaStepTypes(h) /\ PendingFits(h)
  BY DEF CmaInv
<1>2. /\ CmaRecord(g) /\ CmaSameEnd(g, h)
      /\ g.steps = Append(h.steps, s)
      /\ g.pending = Append(h.pending, m + 1)
      /\ g.errors = h.errors
  BY <1>1 DEF ObserveEvent, CmaRecord, CmaFields, CmaSameEnd
<1> HIDE DEF g
<1>3. CmaAppended(h, g, s) /\ s.id # None
  BY <1>1, <1>2, AppendedCmaStep, CmaHandleConstants DEF CmaStep
<1> HIDE DEF s, m, n
<1>4. /\ m \in Nat /\ DOMAIN h.steps = 1..m
      /\ n \in Nat /\ DOMAIN h.pending = 1..n
      /\ \A k \in 1..n : h.pending[k] \in 1..m
  BY <1>1, CmaSequences DEF m, n
<1>5. /\ g.pending \in Seq(1..m + 1)
      /\ Len(g.pending) = n + 1
      /\ \A k \in 1..n : g.pending[k] = h.pending[k]
      /\ g.pending[n + 1] = m + 1
  <2>1. h.pending \in Seq(1..m + 1) /\ m + 1 \in 1..m + 1
    <3>1. h.pending \in Seq(1..m) /\ 1..m \subseteq 1..m + 1
      BY <1>1, <1>4 DEF CmaStepTypes, m
    <3> QED
      BY <1>4, <3>1, SeqMonotonic
  <2> QED
    BY <1>2, <2>1, AppendProperties DEF n
<1>6. CmaStepTypes(g)
  BY <1>1, <1>2, <1>3, <1>5 DEF CmaStepTypes, CmaAppended, m
<1>7. DOMAIN g.pending = 1..n + 1
  BY <1>5, LenProperties
<1>8. OpenSteps(g) = OpenSteps(h) \cup {m + 1} /\ OpenSteps(h) \subseteq 1..m
  BY <1>3, <1>4 DEF CmaAppended, OpenSteps, m
<1>9. PendingFits(g)
  <2>1. \A k \in 1..n + 1 : k = n + 1 \/ k \in 1..n
    BY <1>4
  <2>2. \A k \in DOMAIN g.pending : g.pending[k] \in OpenSteps(g)
    BY <1>1, <1>4, <1>5, <1>7, <1>8, <2>1 DEF PendingFits
  <2>3. \A j \in OpenSteps(g) : \E k \in DOMAIN g.pending : g.pending[k] = j
    <3> SUFFICES ASSUME NEW j \in OpenSteps(g)
                 PROVE  \E k \in DOMAIN g.pending : g.pending[k] = j
      OBVIOUS
    <3>1. CASE j = m + 1
      BY <3>1, <1>4, <1>5, <1>7
    <3>2. CASE j \in OpenSteps(h)
      <4>1. PICK k \in 1..n : h.pending[k] = j
        BY <1>1, <1>4, <3>2 DEF PendingFits
      <4>2. k \in DOMAIN g.pending
        BY <1>4, <1>7
      <4>3. g.pending[k] = j
        BY <4>1, <1>5
      <4> QED
        BY <4>2, <4>3
    <3> QED
      BY <1>8, <3>1, <3>2
  <2>4. ASSUME NEW k \in DOMAIN g.pending, NEW l \in DOMAIN g.pending, k < l
        PROVE  g.pending[k] < g.pending[l]
    <3>1. CASE l = n + 1
      BY <1>4, <1>5, <1>7, <2>4, <3>1
    <3>2. CASE l \in 1..n
      <4>1. k \in 1..n
        BY <1>4, <1>7, <2>4, <3>2
      <4> QED
        BY <1>1, <1>4, <1>5, <2>4, <3>2, <4>1 DEF PendingFits
    <3> QED
      BY <1>7, <2>1, <3>1, <3>2
  <2> QED
    BY <2>2, <2>3, <2>4 DEF PendingFits
<1>10. ErrorsFit(g) /\ (ErrorsCounted(h) => ErrorsCounted(g))
  BY <1>2, <1>3, AppendedErrorsFit
<1> QED
  BY <1>2, <1>3, <1>6, <1>9, <1>10 DEF CmaInv, g, s

\* A message is a step that waits for nothing.
LEMMA CmaMessageKeeps ==
  ASSUME NEW h, CmaInv(h), NEW i \in Nat, NEW e, e.ev = "message"
  PROVE  /\ CmaInv(ObserveEvent(h, e, i)) /\ CmaSameEnd(ObserveEvent(h, e, i), h)
         /\ CmaAppended(h, ObserveEvent(h, e, i), CmaStep(i, None))
         /\ ErrorsCounted(h) => ErrorsCounted(ObserveEvent(h, e, i))
<1> DEFINE g == ObserveEvent(h, e, i)
           s == CmaStep(i, None)
<1>1. CmaRecord(h) /\ CmaStepTypes(h) /\ PendingFits(h)
  BY DEF CmaInv
<1>2. /\ CmaRecord(g) /\ CmaSameEnd(g, h)
      /\ g.steps = Append(h.steps, s)
      /\ g.pending = h.pending
      /\ g.errors = h.errors
  BY <1>1 DEF ObserveEvent, CmaRecord, CmaFields, CmaSameEnd
<1> HIDE DEF g
<1>3. CmaAppended(h, g, s) /\ s.id = None
  BY <1>1, <1>2, AppendedCmaStep DEF CmaStep
<1> HIDE DEF s
<1>4. OpenSteps(g) = OpenSteps(h)
  BY <1>3 DEF CmaAppended
<1>5. CmaStepTypes(g)
  <2>1. Len(h.steps) \in Nat /\ h.pending \in Seq(1..Len(h.steps))
    BY <1>1, CmaSequences DEF CmaStepTypes
  <2>2. 1..Len(h.steps) \subseteq 1..Len(h.steps) + 1
    BY <2>1
  <2>3. h.pending \in Seq(1..Len(h.steps) + 1)
    <3> DEFINE a == 1..Len(h.steps)
               b == 1..Len(h.steps) + 1
    <3> HIDE DEF a, b
    <3>1. h.pending \in Seq(a) /\ a \subseteq b
      BY <2>1, <2>2 DEF a, b
    <3>2. h.pending \in Seq(b)
      BY <3>1, SeqMonotonic
    <3> QED
      BY <3>2 DEF b
  <2> QED
    BY <1>1, <1>2, <1>3, <2>3 DEF CmaStepTypes, CmaAppended
<1>6. PendingFits(g)
  BY <1>1, <1>2, <1>4 DEF PendingFits
<1>7. ErrorsFit(g) /\ (ErrorsCounted(h) => ErrorsCounted(g))
  BY <1>2, <1>3, AppendedErrorsFit
<1> QED
  BY <1>2, <1>3, <1>5, <1>6, <1>7 DEF CmaInv, g, s

\* What a result with a call to answer does to the steps: the k-th pending call gets it,
\* which is the one the result names if that is pending.
Answers(h, g, e, k) ==
  /\ k \in 1..Len(h.pending)
  /\ h.pending[k] \in 1..Len(h.steps)
  /\ h.pending[k] \in OpenSteps(h)
  /\ \A j \in OpenSteps(h) :
       e.link # None /\ h.steps[j].id = e.link => h.steps[h.pending[k]].id = e.link
  /\ g.steps = [h.steps EXCEPT ![h.pending[k]].answer = <<e.link>>,
                               ![h.pending[k]].err = e.err]
  /\ g.pending = RemoveAt(h.pending, k)

\* The error of a result is counted, or not.
Counts(h, g, e) == g.errors = IF e.err THEN h.errors + 1 ELSE h.errors
CountsOrNot(h, g, e) == Counts(h, g, e) \/ g.errors = h.errors

\* A result without a call leaves the handle alone.
LEMMA CmaResultEffect ==
  ASSUME NEW h, CmaInv(h), NEW i, NEW e, e.ev = "result", e.err \in BOOLEAN,
         NEW g, g \in {ObserveEvent(h, e, i), ObserveHalfway(h, e)}
  PROVE  \/ g = h /\ h.pending = <<>>
         \/ /\ CmaRecord(g) /\ CmaSameEnd(g, h)
            /\ \E k : Answers(h, g, e, k)
            /\ CountsOrNot(h, g, e)
            /\ g = ObserveEvent(h, e, i) => Counts(h, g, e)
<1> DEFINE k == AnsweredCall(h, e)
           n == Len(h.pending)
<1>1. CmaRecord(h) /\ CmaStepTypes(h) /\ PendingFits(h)
  BY DEF CmaInv
<1>2. /\ n \in Nat /\ DOMAIN h.pending = 1..n
      /\ \A l \in 1..n : h.pending[l] \in 1..Len(h.steps)
      /\ h.pending = <<>> <=> n = 0
  BY <1>1, CmaSequences, EmptySeq DEF CmaStepTypes
<1>3. ObserveEvent(h, e, i) = ObserveCmaResult(h, e)
  BY DEF ObserveEvent
<1>4. CASE h.pending = <<>>
  <2>1. Linked(h, e) = {}
    BY <1>2, <1>4 DEF Linked
  <2>2. k = 0
    BY <1>4, <2>1 DEF AnsweredCall
  <2> QED
    BY <1>3, <1>4, <2>2 DEF ObserveCmaResult, ObserveHalfway
<1>5. CASE h.pending # <<>>
  <2>1. k \in 1..n /\ (Linked(h, e) # {} => k \in Linked(h, e))
    <3>1. CASE Linked(h, e) = {}
      BY <1>2, <1>5, <3>1 DEF AnsweredCall
    <3>2. CASE Linked(h, e) # {}
      <4>1. Linked(h, e) \subseteq 1..n /\ Linked(h, e) \subseteq Nat
        BY <1>2 DEF Linked
      <4>2. \E x \in Linked(h, e) : \A y \in Linked(h, e) : x <= y
        BY <3>2, <4>1, LeastNatural
      <4>3. k \in Linked(h, e)
        BY <3>2, <4>2 DEF AnsweredCall
      <4> QED
        BY <4>1, <4>3
    <3> QED
      BY <3>1, <3>2
  <2> DEFINE p == h.pending[k]
             st == [h.steps EXCEPT ![p].answer = <<e.link>>, ![p].err = e.err]
             pe == RemoveAt(h.pending, k)
             a == AnswerCall(h, e, k)
  <2>2. k # 0
    BY <1>2, <2>1
  <2>3. a = [h EXCEPT !.steps = st, !.pending = pe]
    BY DEF AnswerCall, PendingWithout
  <2>4. p \in OpenSteps(h) /\ p \in 1..Len(h.steps)
    BY <1>1, <1>2, <2>1 DEF PendingFits
  <2>5. ASSUME NEW j \in OpenSteps(h), e.link # None, h.steps[j].id = e.link
        PROVE  h.steps[p].id = e.link
    <3>1. PICK l \in DOMAIN h.pending : h.pending[l] = j
      BY <1>1 DEF PendingFits
    <3>2. l \in Linked(h, e)
      BY <2>5, <3>1 DEF Linked
    <3>3. k \in Linked(h, e)
      BY <2>1, <3>2
    <3> QED
      BY <3>3 DEF Linked
  <2>6. /\ ObserveHalfway(h, e) = a
        /\ ObserveEvent(h, e, i) = [a EXCEPT !.errors = IF e.err THEN @ + 1 ELSE @]
    BY <1>3, <2>2 DEF ObserveHalfway, ObserveCmaResult
  <2> HIDE DEF st, pe, a, k
  <2>7. /\ a = [x \in CmaFields |-> a[x]]
        /\ a.finished = h.finished /\ a.status = h.status /\ a.scores = h.scores
        /\ a.steps = st /\ a.pending = pe /\ a.errors = h.errors
    BY <1>1, <2>3 DEF CmaRecord, CmaFields
  <2>8. /\ g = [x \in CmaFields |-> g[x]]
        /\ g.finished = h.finished /\ g.status = h.status /\ g.scores = h.scores
        /\ g.steps = st /\ g.pending = pe
        /\ CountsOrNot(h, g, e)
        /\ g = ObserveEvent(h, e, i) => Counts(h, g, e)
    <3>1. CASE g = [a EXCEPT !.errors = IF e.err THEN @ + 1 ELSE @]
      BY <2>7, <3>1 DEF CmaFields, Counts, CountsOrNot
    <3>2. CASE g = a /\ g # [a EXCEPT !.errors = IF e.err THEN @ + 1 ELSE @]
      BY <2>6, <2>7, <3>2 DEF CountsOrNot
    <3> QED
      BY <2>6, <3>1, <3>2
  <2>9. CmaRecord(g) /\ CmaSameEnd(g, h)
    BY <1>1, <2>8 DEF CmaRecord, CmaSameEnd
  <2>10. Answers(h, g, e, k)
    BY <2>1, <2>4, <2>5, <2>8 DEF Answers, st, pe
  <2> QED
    BY <2>8, <2>9, <2>10
<1> QED
  BY <1>4, <1>5

\* The steps after an answer: one of them changed, and it has the answer.
LEMMA AnsweredSteps ==
  ASSUME NEW h, CmaInv(h), NEW e, e.err \in BOOLEAN, e.link \in CallIds \cup {None},
         NEW g, NEW k, Answers(h, g, e, k)
  PROVE  /\ g.steps \in Seq(CmaSteps)
         /\ Len(g.steps) = Len(h.steps)
         /\ DOMAIN g.steps = DOMAIN h.steps
         /\ \A j \in DOMAIN h.steps \ {h.pending[k]} : g.steps[j] = h.steps[j]
         /\ g.steps[h.pending[k]].id = h.steps[h.pending[k]].id
         /\ g.steps[h.pending[k]].answer = <<e.link>>
         /\ g.steps[h.pending[k]].err = e.err
<1> DEFINE p == h.pending[k]
           s == [h.steps[p] EXCEPT !.answer = <<e.link>>, !.err = e.err]
<1>1. h.steps \in Seq(CmaSteps) /\ p \in 1..Len(h.steps) /\ p \in DOMAIN h.steps
  BY DEF CmaInv, CmaStepTypes, Answers, OpenSteps
<1>2. g.steps = [h.steps EXCEPT ![p] = s]
  BY <1>1 DEF Answers
<1>3. h.steps[p] \in CmaSteps
  BY <1>1, ElementOfSeq
<1>4. <<e.link>> \in {<<>>} \cup {<<l>> : l \in CallIds \cup {None}}
  OBVIOUS
<1>5. s \in CmaSteps /\ s.id = h.steps[p].id /\ s.answer = <<e.link>> /\ s.err = e.err
  <2> DEFINE x == <<e.link>>
             X == {<<>>} \cup {<<l>> : l \in CallIds \cup {None}}
  <2>1. x \in X
    BY <1>4
  <2> HIDE DEF x, X
  <2> QED
    BY <1>3, <2>1 DEF CmaSteps, x, X
<1> HIDE DEF p, s
<1>6. g.steps \in Seq(CmaSteps) /\ Len(g.steps) = Len(h.steps)
  BY <1>1, <1>2, <1>5, ExceptSeq
<1>7. g.steps[p] = s /\ DOMAIN g.steps = DOMAIN h.steps
      /\ \A j \in DOMAIN h.steps \ {p} : g.steps[j] = h.steps[j]
  BY <1>1, <1>2
<1> QED
  BY <1>5, <1>6, <1>7 DEF p

\* The answered call is pending no more; the others stay in their order.
LEMMA AnswerFits ==
  ASSUME NEW h, CmaInv(h), NEW e, e.err \in BOOLEAN, e.link \in CallIds \cup {None},
         NEW g, CmaRecord(g), NEW k, Answers(h, g, e, k), CountsOrNot(h, g, e)
  PROVE  CmaInv(g) /\ (ErrorsCounted(h) /\ Counts(h, g, e) => ErrorsCounted(g))
<1> DEFINE p == h.pending[k]
           n == Len(h.pending)
<1>1. CmaStepTypes(h) /\ PendingFits(h) /\ ErrorsFit(h)
  BY DEF CmaInv
<1>2. /\ n \in Nat /\ DOMAIN h.pending = 1..n /\ k \in 1..n
      /\ Len(h.steps) \in Nat /\ DOMAIN h.steps = 1..Len(h.steps)
      /\ \A l \in 1..n : h.pending[l] \in 1..Len(h.steps)
  BY <1>1, CmaSequences DEF Answers
<1>3. /\ g.steps \in Seq(CmaSteps) /\ Len(g.steps) = Len(h.steps)
      /\ DOMAIN g.steps = DOMAIN h.steps
      /\ \A j \in DOMAIN h.steps \ {p} : g.steps[j] = h.steps[j]
      /\ g.steps[p].answer # <<>> /\ g.steps[p].err = e.err
      /\ p \in DOMAIN h.steps /\ p \in OpenSteps(h)
  <2>1. /\ g.steps \in Seq(CmaSteps) /\ Len(g.steps) = Len(h.steps)
        /\ DOMAIN g.steps = DOMAIN h.steps
        /\ \A j \in DOMAIN h.steps \ {p} : g.steps[j] = h.steps[j]
        /\ g.steps[p].answer = <<e.link>> /\ g.steps[p].err = e.err
    BY AnsweredSteps
  <2>2. <<e.link>> # <<>>
    OBVIOUS
  <2>3. p \in OpenSteps(h) /\ p \in DOMAIN h.steps
    BY DEF Answers, OpenSteps
  <2> QED
    BY <2>1, <2>2, <2>3
<1>4. /\ g.pending \in Seq(1..Len(h.steps))
      /\ Len(g.pending) = n - 1
      /\ \A l \in 1..n - 1 : g.pending[l] = IF l < k THEN h.pending[l] ELSE h.pending[l + 1]
      /\ g.errors = h.errors \/ g.errors = IF e.err THEN h.errors + 1 ELSE h.errors
      /\ g.errors \in Nat /\ h.errors \in Nat
  <2> DEFINE S == 1..Len(h.steps)
             s == h.pending
  <2>1. s \in Seq(S) /\ k \in 1..Len(s) /\ g.pending = RemoveAt(s, k)
    BY <1>1, <1>2 DEF CmaStepTypes, Answers
  <2> HIDE DEF S, s
  <2>2. /\ RemoveAt(s, k) \in Seq(S)
        /\ Len(RemoveAt(s, k)) = Len(s) - 1
        /\ \A l \in 1..Len(s) - 1 : RemoveAt(s, k)[l] = IF l < k THEN s[l] ELSE s[l + 1]
    BY <2>1, RemoveFromSeq
  <2> QED
    BY <1>1, <2>1, <2>2 DEF S, s, Answers, Counts, CountsOrNot, CmaStepTypes
<1>5. DOMAIN g.pending = 1..n - 1
  BY <1>4, LenProperties
<1> HIDE DEF p, n
<1>6. OpenSteps(g) = OpenSteps(h) \ {p}
  BY <1>3 DEF OpenSteps
<1>7. CmaStepTypes(g)
  BY <1>1, <1>3, <1>4 DEF CmaStepTypes
<1>8. PendingFits(g)
  <2> DEFINE Was(l) == IF l < k THEN l ELSE l + 1
  <2>1. \A l \in 1..n - 1 : /\ Was(l) \in 1..n /\ Was(l) # k
                            /\ g.pending[l] = h.pending[Was(l)]
    BY <1>2, <1>4
  <2>2. \A l, m \in 1..n - 1 : l < m => Was(l) < Was(m)
    BY <1>2
  <2>3. \A l \in 1..n \ {k} : \E m \in 1..n - 1 : Was(m) = l
    <3> SUFFICES ASSUME NEW l \in 1..n \ {k}
                 PROVE  \E m \in 1..n - 1 : Was(m) = l
      OBVIOUS
    <3>1. CASE l < k
      <4>1. l \in 1..n - 1 /\ Was(l) = l
        BY <1>2, <3>1
      <4> QED
        BY <4>1
    <3>2. CASE l > k
      <4>1. l - 1 \in 1..n - 1 /\ Was(l - 1) = l
        BY <1>2, <3>2
      <4> QED
        BY <4>1
    <3>3. l < k \/ l > k
      BY <1>2
    <3> QED
      BY <3>1, <3>2, <3>3
  <2> HIDE DEF Was
  <2>4. \A l \in 1..n \ {k} : h.pending[l] # p
    <3>1. \A l \in 1..n \ {k} : l < k \/ k < l
      BY <1>2
    <3>2. \A l \in 1..n \ {k} : h.pending[l] < p \/ p < h.pending[l]
      BY <1>1, <1>2, <3>1 DEF PendingFits, p
    <3>3. \A l \in 1..n : h.pending[l] \in Nat
      BY <1>2
    <3>4. p \in Nat
      BY <1>2 DEF p
    <3> QED
      BY <3>2, <3>3, <3>4
  <2>5. \A l \in DOMAIN g.pending : g.pending[l] \in OpenSteps(g)
    BY <1>1, <1>2, <1>5, <1>6, <2>1, <2>4 DEF PendingFits
  <2>6. ASSUME NEW j \in OpenSteps(g)
        PROVE  \E l \in DOMAIN g.pending : g.pending[l] = j
    <3>1. PICK l \in 1..n : h.pending[l] = j
      BY <1>1, <1>2, <1>6 DEF PendingFits
    <3>2. l # k
      BY <1>6, <3>1 DEF p
    <3>3. PICK m \in 1..n - 1 : Was(m) = l
      BY <2>3, <3>2
    <3> QED
      BY <1>5, <2>1, <3>1, <3>3
  <2>7. ASSUME NEW l \in DOMAIN g.pending, NEW m \in DOMAIN g.pending, l < m
        PROVE  g.pending[l] < g.pending[m]
    <3>1. /\ g.pending[l] = h.pending[Was(l)] /\ g.pending[m] = h.pending[Was(m)]
          /\ Was(l) \in DOMAIN h.pending /\ Was(m) \in DOMAIN h.pending
          /\ Was(l) < Was(m)
      BY <1>2, <1>5, <2>1, <2>2, <2>7
    <3> QED
      BY <1>1, <3>1 DEF PendingFits
  <2> QED
    BY <2>5, <2>6, <2>7 DEF PendingFits
<1>9. ErrorsFit(g) /\ (ErrorsCounted(h) /\ Counts(h, g, e) => ErrorsCounted(g))
  <2>1. p \notin CmaErrors(h)
    BY <1>1, <1>3 DEF ErrorsFit, OpenSteps
  <2>2. \A i \in CmaErrors(g) : g.steps[i].answer # <<>>
    BY <1>1, <1>3 DEF ErrorsFit, CmaErrors
  <2>3. IsFiniteSet(CmaErrors(h)) /\ Cardinality(CmaErrors(h)) \in Nat
    <3>1. CmaErrors(h) \in SUBSET (1..Len(h.steps))
      BY <1>2 DEF CmaErrors
    <3>2. IsFiniteSet(1..Len(h.steps))
      BY <1>2, FS_Interval
    <3>3. IsFiniteSet(CmaErrors(h))
      BY <3>1, <3>2, FS_Subset
    <3> QED
      BY <3>3, FS_CardinalityType
  <2>4. CASE e.err = TRUE
    <3>1. CmaErrors(g) = CmaErrors(h) \cup {p}
      BY <1>3, <2>4 DEF CmaErrors
    <3>2. Cardinality(CmaErrors(g)) = Cardinality(CmaErrors(h)) + 1
      BY <2>1, <2>3, <3>1, FS_AddElement
    <3> QED
      BY <1>1, <1>4, <2>2, <2>3, <2>4, <3>2 DEF ErrorsFit, ErrorsCounted, Counts
  <2>5. CASE e.err = FALSE
    <3>1. CmaErrors(g) = CmaErrors(h)
      BY <1>3, <2>1, <2>5 DEF CmaErrors
    <3> QED
      BY <1>1, <1>4, <2>2, <2>5, <3>1 DEF ErrorsFit, ErrorsCounted, Counts
  <2> QED
    BY <2>4, <2>5
<1> QED
  BY <1>7, <1>8, <1>9 DEF CmaInv

\* One event, whichever it is.
LEMMA CmaEventKeeps ==
  ASSUME NEW h, CmaInv(h), NEW i \in Nat, NEW e, WellFormed(e)
  PROVE  /\ CmaInv(ObserveEvent(h, e, i)) /\ CmaSameEnd(ObserveEvent(h, e, i), h)
         /\ ErrorsCounted(h) => ErrorsCounted(ObserveEvent(h, e, i))
<1> DEFINE g == ObserveEvent(h, e, i)
<1>1. CASE e.ev = "call"
  BY <1>1, CmaCallKeeps DEF WellFormed
<1>2. CASE e.ev = "message"
  BY <1>2, CmaMessageKeeps
<1>3. CASE e.ev = "result"
  <2>1. e.err \in BOOLEAN /\ e.link \in CallIds \cup {None}
    BY <1>3 DEF WellFormed
  <2>2. CASE g = h
    BY <2>2 DEF CmaSameEnd
  <2>3. CASE /\ CmaRecord(g) /\ CmaSameEnd(g, h) /\ \E k : Answers(h, g, e, k)
             /\ CountsOrNot(h, g, e) /\ Counts(h, g, e)
    <3> HIDE DEF g
    <3>1. CmaInv(g) /\ (ErrorsCounted(h) => ErrorsCounted(g))
      BY <2>1, <2>3, AnswerFits
    <3> QED
      BY <2>3, <3>1 DEF g
  <2> QED
    BY <1>3, <2>1, <2>2, <2>3, CmaResultEffect
<1>4. CASE e.ev \notin {"call", "message", "result"}
  <2>1. CmaRecord(h)
    BY DEF CmaInv
  <2>2. /\ g = [x \in CmaFields |-> g[x]]
        /\ g.finished = h.finished /\ g.status = h.status
        /\ g.scores = h.scores \/ g.scores = Append(h.scores, i)
        /\ g.steps = h.steps /\ g.pending = h.pending /\ g.errors = h.errors
    BY <1>4, <2>1 DEF ObserveEvent, CmaRecord, CmaFields
  <2> HIDE DEF g
  <2>3. CmaRecord(g) /\ CmaSameEnd(g, h)
    BY <2>1, <2>2, AppendProperties DEF CmaRecord, CmaSameEnd
  <2> QED
    BY <2>2, <2>3, SameCmaStepsKeep DEF g
<1> QED
  BY <1>1, <1>2, <1>3, <1>4

\* An observation that raises leaves the pending calls right, and the counts short at most.
LEMMA CmaHalfwayKeeps ==
  ASSUME NEW h, CmaInv(h), NEW e, WellFormed(e)
  PROVE  CmaInv(ObserveHalfway(h, e)) /\ CmaSameEnd(ObserveHalfway(h, e), h)
<1> DEFINE g == ObserveHalfway(h, e)
<1>1. CASE e.ev # "result"
  <2>1. g = h
    BY <1>1 DEF ObserveHalfway
  <2> QED
    BY <2>1 DEF CmaSameEnd
<1>2. CASE e.ev = "result"
  <2>1. e.err \in BOOLEAN /\ e.link \in CallIds \cup {None}
    BY <1>2 DEF WellFormed
  <2>2. CASE g = h
    BY <2>2 DEF CmaSameEnd
  <2>3. CASE /\ CmaRecord(g) /\ CmaSameEnd(g, h) /\ \E k : Answers(h, g, e, k)
             /\ CountsOrNot(h, g, e)
    <3> HIDE DEF g
    <3>1. CmaInv(g)
      BY <2>1, <2>3, AnswerFits
    <3> QED
      BY <2>3, <3>1 DEF g
  <2> QED
    BY <1>2, <2>1, <2>2, <2>3, CmaResultEffect
<1> QED
  BY <1>1, <1>2

\* finish() decides once.
LEMMA CmaFinishKeeps ==
  ASSUME NEW h, CmaInv(h), NEW raised \in BOOLEAN
  PROVE  /\ CmaInv(FinishCma(h, raised))
         /\ FinishCma(h, raised).finished = TRUE
         /\ FinishCma(h, raised).steps = h.steps
         /\ ErrorsCounted(h) => ErrorsCounted(FinishCma(h, raised))
<1> DEFINE g == FinishCma(h, raised)
<1>1. CmaRecord(h)
  BY DEF CmaInv
<1>2. CASE h.finished
  BY <1>1, <1>2 DEF FinishCma, CmaRecord
<1>3. CASE ~h.finished
  <2>1. /\ g = [x \in CmaFields |-> g[x]]
        /\ g.finished = TRUE
        /\ g.status \in {"failed", "succeeded"}
        /\ g.steps = h.steps /\ g.pending = h.pending /\ g.errors = h.errors
        /\ g.scores = h.scores
    BY <1>1, <1>3 DEF FinishCma, CmaRecord, CmaFields
  <2> HIDE DEF g
  <2>2. CmaRecord(g)
    BY <1>1, <2>1 DEF CmaRecord
  <2>3. CmaInv(g) /\ (ErrorsCounted(h) => ErrorsCounted(g))
    BY <2>1, <2>2, SameCmaStepsKeep
  <2> QED
    BY <2>1, <2>3 DEF g
<1> QED
  BY <1>2, <1>3

-----------------------------------------------------------------------------
(* A whole history.                                                        *)

\* A history is one of well formed events.
HistoryFits(events) == \A j \in DOMAIN events : WellFormed(events[j])

\* Of the events after the first f up to the n-th, the calls are steps, and the steps with
\* an answer have it from their own result.
AnswersFit(h, events, f, n) ==
  /\ \A i \in f + 1..n : events[i].ev = "call" =>
       \E j \in DOMAIN h.steps : h.steps[j].id = events[i].id
  /\ \A j \in DOMAIN h.steps : h.steps[j].answer # <<>> =>
       /\ h.steps[j].answer = <<h.steps[j].id>>
       /\ \E i \in f + 1..n : events[i].ev = "result" /\ events[i].link = h.steps[j].id

\* What the event after them may add.
LEMMA NextEvent ==
  ASSUME NEW f \in Nat, NEW n \in Nat, f <= n
  PROVE  /\ f + 1..n + 1 = (f + 1..n) \cup {n + 1}
         /\ (n + 1) - 1 = n /\ n + 1 \in f + 1..n + 1
OBVIOUS

\* A step without an answer is added; of the events, one that is no result.
LEMMA AddedAnswersFit ==
  ASSUME NEW h, CmaStepTypes(h), NEW g, NEW s, CmaAppended(h, g, s), s.answer = <<>>,
         NEW events, NEW f \in Nat, NEW n \in Nat, f <= n, AnswersFit(h, events, f, n),
         events[n + 1].ev = "call" => s.id = events[n + 1].id
  PROVE  AnswersFit(g, events, f, n + 1)
<1> DEFINE m == Len(h.steps)
<1>1. m \in Nat /\ DOMAIN h.steps = 1..m
  BY CmaSequences
<1>2. /\ DOMAIN g.steps = 1..m + 1
      /\ \A i \in 1..m : g.steps[i] = h.steps[i]
      /\ g.steps[m + 1] = s
  BY DEF CmaAppended
<1> HIDE DEF m
<1>3. f + 1..n + 1 = (f + 1..n) \cup {n + 1} /\ 1..m + 1 = 1..m \cup {m + 1}
  BY <1>1, NextEvent
<1>4. ASSUME NEW i \in f + 1..n + 1, events[i].ev = "call"
      PROVE  \E j \in DOMAIN g.steps : g.steps[j].id = events[i].id
  <2>1. CASE i = n + 1
    BY <1>2, <1>3, <1>4, <2>1
  <2>2. CASE i \in f + 1..n
    <3>1. PICK j \in DOMAIN h.steps : h.steps[j].id = events[i].id
      BY <1>4, <2>2 DEF AnswersFit
    <3>2. j \in DOMAIN g.steps /\ g.steps[j].id = events[i].id
      BY <1>1, <1>2, <1>3, <3>1
    <3> QED
      BY <3>2
  <2> QED
    BY <1>3, <2>1, <2>2
<1>5. ASSUME NEW j \in DOMAIN g.steps, g.steps[j].answer # <<>>
      PROVE  /\ g.steps[j].answer = <<g.steps[j].id>>
             /\ \E i \in f + 1..n + 1 : events[i].ev = "result" /\ events[i].link = g.steps[j].id
  <2>1. j \in DOMAIN h.steps /\ g.steps[j] = h.steps[j]
    BY <1>1, <1>2, <1>3, <1>5
  <2>2. PICK i \in f + 1..n : events[i].ev = "result" /\ events[i].link = h.steps[j].id
    BY <1>5, <2>1 DEF AnswersFit
  <2>3. h.steps[j].answer = <<h.steps[j].id>>
    BY <1>5, <2>1 DEF AnswersFit
  <2> QED
    BY <1>3, <2>1, <2>2, <2>3
<1> QED
  BY <1>4, <1>5 DEF AnswersFit

\* Nothing about the steps changes, and the event is no call.
LEMMA SameAnswersFit ==
  ASSUME NEW h, NEW g, g.steps = h.steps, NEW events, NEW f \in Nat, NEW n \in Nat, f <= n,
         AnswersFit(h, events, f, n), events[n + 1].ev # "call"
  PROVE  AnswersFit(g, events, f, n + 1)
<1>1. f + 1..n + 1 = (f + 1..n) \cup {n + 1}
  BY NextEvent
<1> QED
  BY <1>1 DEF AnswersFit

\* A result finds its call pending: no earlier event has answered it.
LEMMA ResultAnswersFit ==
  ASSUME NEW h, CmaInv(h), NEW events, NEW f \in Nat, NEW n \in Nat, f <= n,
         1..n + 1 \subseteq DOMAIN events, HistoryFits(events),
         NoStrayResult(events, f, n + 1), AnswersFit(h, events, f, n),
         events[n + 1].ev = "result"
  PROVE  AnswersFit(ObserveEvent(h, events[n + 1], n + 1), events, f, n + 1)
<1> DEFINE e == events[n + 1]
           g == ObserveEvent(h, e, n + 1)
<1>0. /\ e.err \in BOOLEAN /\ e.link \in CallIds \cup {None}
      /\ f + 1..n + 1 = (f + 1..n) \cup {n + 1} /\ (n + 1) - 1 = n
      /\ n + 1 \in f + 1..n + 1 /\ n + 1 \in DOMAIN events
  <2>1. n + 1 \in DOMAIN events
    OBVIOUS
  <2> QED
    BY <2>1, NextEvent DEF WellFormed, HistoryFits
<1>00. FirstResult(events, f, n + 1)
  BY <1>0 DEF NoStrayResult
<1>1. PICK i \in f + 1..n : events[i].ev = "call" /\ events[i].id = e.link
  BY <1>0, <1>00 DEF FirstResult
<1>2. e.link # None
  <2>1. i \in DOMAIN events
    BY <1>1
  <2> QED
    BY <2>1, <1>1, CmaHandleConstants DEF HistoryFits, WellFormed
<1>3. PICK j \in DOMAIN h.steps : h.steps[j].id = e.link
  BY <1>1 DEF AnswersFit
<1>4. \A l \in f + 1..n : ~(events[l].ev = "result" /\ events[l].link = e.link)
  BY <1>0, <1>00 DEF FirstResult
<1>5. j \in OpenSteps(h)
  BY <1>2, <1>3, <1>4 DEF AnswersFit, OpenSteps
<1>6. h.pending # <<>>
  <2>1. DOMAIN h.pending # {}
    BY <1>5 DEF CmaInv, PendingFits
  <2> QED
    BY <2>1
<1>7. PICK k : Answers(h, g, e, k)
  BY <1>0, <1>6, CmaResultEffect
<1> DEFINE p == h.pending[k]
<1> HIDE DEF g
<1>8. /\ DOMAIN g.steps = DOMAIN h.steps
      /\ \A x \in DOMAIN h.steps \ {p} : g.steps[x] = h.steps[x]
      /\ g.steps[p].id = h.steps[p].id
      /\ g.steps[p].answer = <<e.link>>
  BY <1>0, <1>7, AnsweredSteps
<1>9. p \in DOMAIN h.steps /\ h.steps[p].id = e.link
  BY <1>2, <1>3, <1>5, <1>7 DEF Answers, OpenSteps
<1> HIDE DEF p
<1>10. ASSUME NEW x \in f + 1..n + 1, events[x].ev = "call"
       PROVE  \E y \in DOMAIN g.steps : g.steps[y].id = events[x].id
  <2>1. x \in f + 1..n
    BY <1>0, <1>10
  <2>2. PICK y \in DOMAIN h.steps : h.steps[y].id = events[x].id
    BY <1>10, <2>1 DEF AnswersFit
  <2>3. y \in DOMAIN g.steps /\ g.steps[y].id = h.steps[y].id
    BY <1>8, <2>2
  <2> QED
    BY <2>2, <2>3
<1>11. ASSUME NEW y \in DOMAIN g.steps, g.steps[y].answer # <<>>
       PROVE  /\ g.steps[y].answer = <<g.steps[y].id>>
              /\ \E x \in f + 1..n + 1 : events[x].ev = "result" /\ events[x].link = g.steps[y].id
  <2>1. CASE y = p
    BY <1>0, <1>8, <1>9, <2>1
  <2>2. CASE y # p
    <3>1. y \in DOMAIN h.steps /\ g.steps[y] = h.steps[y]
      BY <1>8, <2>2
    <3> QED
      BY <1>0, <1>11, <3>1 DEF AnswersFit
  <2> QED
    BY <2>1, <2>2
<1>12. AnswersFit(g, events, f, n + 1)
  BY <1>10, <1>11 DEF AnswersFit
<1> QED
  BY <1>12 DEF g

\* One event of a history, whichever it is.
LEMMA EventAnswersFit ==
  ASSUME NEW h, CmaInv(h), NEW events, NEW f \in Nat, NEW n \in Nat, f <= n,
         1..n + 1 \subseteq DOMAIN events, HistoryFits(events),
         NoStrayResult(events, f, n + 1), AnswersFit(h, events, f, n)
  PROVE  AnswersFit(ObserveEvent(h, events[n + 1], n + 1), events, f, n + 1)
<1> DEFINE e == events[n + 1]
           g == ObserveEvent(h, e, n + 1)
<1>1. WellFormed(e) /\ n + 1 \in Nat
  BY DEF HistoryFits
<1>2. CASE e.ev = "call"
  <2> DEFINE s == CmaStep(n + 1, e.id)
  <2>1. CmaAppended(h, g, s)
    BY <1>1, <1>2, CmaCallKeeps DEF WellFormed
  <2>2. s.answer = <<>> /\ s.id = e.id
    BY DEF CmaStep
  <2> HIDE DEF g, s
  <2>3. AnswersFit(g, events, f, n + 1)
    BY <2>1, <2>2, AddedAnswersFit DEF CmaInv
  <2> QED
    BY <2>3 DEF g
<1>3. CASE e.ev = "message"
  <2> DEFINE s == CmaStep(n + 1, None)
  <2>1. CmaAppended(h, g, s)
    BY <1>1, <1>3, CmaMessageKeeps
  <2>2. s.answer = <<>> /\ e.ev # "call"
    BY <1>3 DEF CmaStep
  <2> HIDE DEF g, s
  <2>3. AnswersFit(g, events, f, n + 1)
    BY <2>1, <2>2, AddedAnswersFit DEF CmaInv
  <2> QED
    BY <2>3 DEF g
<1>4. CASE e.ev = "result"
  BY <1>4, ResultAnswersFit
<1>5. CASE e.ev \notin {"call", "message", "result"}
  <2>1. CmaRecord(h)
    BY DEF CmaInv
  <2>2. g.steps = h.steps
    BY <1>5, <2>1 DEF ObserveEvent, CmaRecord, CmaFields
  <2> HIDE DEF g
  <2>3. AnswersFit(g, events, f, n + 1)
    BY <1>5, <2>2, SameAnswersFit
  <2> QED
    BY <2>3 DEF g
<1> QED
  BY <1>2, <1>3, <1>4, <1>5

\* The handles ObserveEvents goes through, as a function.
EventsSeen(f, events, n) ==
  f = [i \in 0..n |-> IF i = 0 THEN NewCmaHandle ELSE ObserveEvent(f[i - 1], events[i], i)]

\* They exist, however long the history is.
LEMMA EventsSeenExist ==
  ASSUME NEW events, NEW n \in Nat
  PROVE  \E f : EventsSeen(f, events, n)
<1> DEFINE T == {m \in Nat : \E f : EventsSeen(f, events, m)}
<1>1. 0 \in T
  <2>1. EventsSeen([i \in 0..0 |-> NewCmaHandle], events, 0)
    BY DEF EventsSeen
  <2> QED
    BY <2>1
<1>2. ASSUME NEW m \in Nat, m \in T
      PROVE  m + 1 \in T
  <2>1. PICK f : EventsSeen(f, events, m)
    BY <1>2
  <2> DEFINE g == [i \in 0..m + 1 |->
                     IF i = m + 1 THEN ObserveEvent(f[m], events[m + 1], m + 1) ELSE f[i]]
  <2>2. \A i \in 0..m :
          f[i] = IF i = 0 THEN NewCmaHandle ELSE ObserveEvent(f[i - 1], events[i], i)
    BY <2>1 DEF EventsSeen
  <2>3. ASSUME NEW i \in 0..m + 1
        PROVE  g[i] = IF i = 0 THEN NewCmaHandle ELSE ObserveEvent(g[i - 1], events[i], i)
    <3>1. CASE i = m + 1
      <4>1. g[i] = ObserveEvent(f[m], events[m + 1], m + 1) /\ g[i - 1] = f[m] /\ i # 0
        BY <3>1
      <4> QED
        BY <4>1, <3>1
    <3>2. CASE i \in 0..m
      <4>1. g[i] = f[i] /\ (i # 0 => g[i - 1] = f[i - 1])
        BY <3>2
      <4> QED
        BY <4>1, <3>2, <2>2
    <3> QED
      BY <3>1, <3>2
  <2>4. EventsSeen(g, events, m + 1)
    BY <2>3 DEF EventsSeen
  <2>5. \E x : EventsSeen(x, events, m + 1)
    BY <2>4
  <2> QED
    BY <2>5
<1>3. n \in T
  <2> HIDE DEF T
  <2> QED
    BY <1>1, <1>2, SetInduction
<1> QED
  BY <1>3

\* A part of a history without a stray result has none.
LEMMA StrayEarlier ==
  ASSUME NEW events, NEW f \in Nat, NEW n \in Nat, f <= n, NoStrayResult(events, f, n + 1)
  PROVE  NoStrayResult(events, f, n)
BY NextEvent DEF NoStrayResult

\* What an ingest makes of the first n events.
IngestFits(h, events, n) ==
  /\ CmaInv(h) /\ ErrorsCounted(h)
  /\ NoStrayResult(events, 0, n) => AnswersFit(h, events, 0, n)

\* A history observed from its start gives every result to its call.
LEMMA HistoryObserved ==
  ASSUME NEW events, NEW n \in Nat, DOMAIN events = 1..n, HistoryFits(events)
  PROVE  IngestFits(ObserveEvents(events, n), events, n)
<1> DEFINE after == CHOOSE f : EventsSeen(f, events, n)
           T == {m \in Nat : m <= n => IngestFits(after[m], events, m)}
<1>1. EventsSeen(after, events, n)
  BY EventsSeenExist
<1>2. ObserveEvents(events, n) = after[n]
  BY DEF ObserveEvents, EventsSeen
<1> HIDE DEF after
<1>3. \A i \in 0..n :
        after[i] = IF i = 0 THEN NewCmaHandle ELSE ObserveEvent(after[i - 1], events[i], i)
  BY <1>1 DEF EventsSeen
<1>4. 0 \in T
  <2>1. after[0] = NewCmaHandle
    BY <1>3
  <2>2. DOMAIN NewCmaHandle.steps = {} /\ 0 + 1..0 = {}
    BY DEF NewCmaHandle
  <2>3. AnswersFit(NewCmaHandle, events, 0, 0)
    BY <2>2 DEF AnswersFit
  <2> QED
    BY <2>1, <2>3, NewCmaHandleInv DEF IngestFits
<1>5. ASSUME NEW m \in Nat, m \in T
      PROVE  m + 1 \in T
  <2>1. SUFFICES ASSUME m + 1 <= n
                 PROVE  IngestFits(after[m + 1], events, m + 1)
    OBVIOUS
  <2>2. IngestFits(after[m], events, m)
    BY <1>5, <2>1
  <2>3. after[m + 1] = ObserveEvent(after[m], events[m + 1], m + 1)
    BY <1>3, <2>1
  <2>4. 1..m + 1 \subseteq DOMAIN events /\ m + 1 \in DOMAIN events /\ m + 1 \in Nat
    BY <2>1
  <2>5. WellFormed(events[m + 1])
    BY <2>4 DEF HistoryFits
  <2>6. CmaInv(after[m + 1]) /\ ErrorsCounted(after[m + 1])
    BY <2>2, <2>3, <2>4, <2>5, CmaEventKeeps DEF IngestFits
  <2>7. ASSUME NoStrayResult(events, 0, m + 1)
        PROVE  AnswersFit(after[m + 1], events, 0, m + 1)
    <3>1. NoStrayResult(events, 0, m) /\ 0 \in Nat /\ 0 <= m
      BY <2>7, StrayEarlier
    <3>2. AnswersFit(after[m], events, 0, m) /\ CmaInv(after[m])
      BY <2>2, <3>1 DEF IngestFits
    <3> QED
      BY <2>3, <2>4, <2>7, <3>1, <3>2, EventAnswersFit
  <2> QED
    BY <2>6, <2>7 DEF IngestFits
<1>6. n \in T
  <2> HIDE DEF T
  <2> QED
    BY <1>4, <1>5, SetInduction
<1> QED
  BY <1>2, <1>6

-----------------------------------------------------------------------------
(* The session and its captures.                                           *)

SessionTypes ==
  /\ history \in Seq(Events)
  /\ Len(history) <= MaxEvents
  /\ handle = [c \in Captures |-> handle[c]]
  /\ from \in [Captures -> 0..MaxEvents]
  /\ read \in [Captures -> 0..MaxEvents]
  /\ left \in [Captures -> Nat]
  /\ swallowed \subseteq Tees
  /\ scoreRows \in [Captures -> Nat]

\* What a capture has read, the handle it made of it, and the scores it has inserted.
HandleFits(c) ==
  /\ CmaInv(handle[c])
  /\ c \notin swallowed => ErrorsCounted(handle[c])
  /\ c \notin swallowed /\ NoStrayResult(history, from[c], read[c]) =>
       AnswersFit(handle[c], history, from[c], read[c])
CaptureFits(c) ==
  /\ HandleFits(c)
  /\ handle[c].finished <=> pc[c] \notin {"idle", "open"}
  /\ from[c] <= read[c] /\ read[c] <= Len(history)
  /\ pc[c] = "idle" => handle[c] = NewCmaHandle /\ from[c] = 0
  /\ pc[c] \in {"idle", "open"} => scoreRows[c] = 0
  /\ pc[c] \notin {"idle", "open"} => scoreRows[c] + left[c] = Len(handle[c].scores)
  /\ pc[c] = "scores" => left[c] > 0

SessionInv ==
  /\ SessionTypes
  /\ HistoryFits(history)
  /\ \A c \in Captures : CaptureFits(c)

\* Nothing is in the way of a new handle.
LEMMA NewAnswersFit ==
  ASSUME NEW events, NEW n \in Nat
  PROVE  AnswersFit(NewCmaHandle, events, n, n)
<1>1. DOMAIN NewCmaHandle.steps = {} /\ n + 1..n = {}
  BY DEF NewCmaHandle
<1> QED
  BY <1>1 DEF AnswersFit

\* No session has been ingested at first.
LEMMA InitSessionInv == Init => SessionInv
<1> SUFFICES ASSUME Init
             PROVE  SessionInv
  OBVIOUS
<1>1. SessionTypes
  BY EmptySeq, CmaCaptureConstants DEF Init, SessionTypes
<1>2. HistoryFits(history)
  BY DEF Init, HistoryFits
<1>3. ASSUME NEW c \in Captures
      PROVE  CaptureFits(c)
  <2>1. handle[c] = NewCmaHandle /\ pc[c] = "idle" /\ from[c] = 0 /\ read[c] = 0
        /\ scoreRows[c] = 0 /\ Len(history) = 0
    BY DEF Init
  <2>2. NewCmaHandle.finished = FALSE
    BY DEF NewCmaHandle
  <2>3. AnswersFit(NewCmaHandle, history, 0, 0)
    BY NewAnswersFit
  <2> QED
    BY <2>1, <2>2, <2>3, NewCmaHandleInv DEF CaptureFits, HandleFits
<1> QED
  BY <1>1, <1>2, <1>3 DEF SessionInv

\* What was observed does not change when the history grows.
LEMMA LaterEvents ==
  ASSUME NEW events, NEW more, NEW f \in Nat, NEW n \in Nat,
         \A i \in 1..n : more[i] = events[i]
  PROVE  /\ NoStrayResult(more, f, n) => NoStrayResult(events, f, n)
         /\ \A h : AnswersFit(h, events, f, n) => AnswersFit(h, more, f, n)
<1>1. \A i \in f + 1..n : more[i] = events[i]
  OBVIOUS
<1>2. \A j \in f + 1..n : \A i \in f + 1..j - 1 : i \in f + 1..n
  OBVIOUS
<1>3. \A j \in f + 1..n : FirstResult(more, f, j) => FirstResult(events, f, j)
  BY <1>1, <1>2 DEF FirstResult
<1>4. NoStrayResult(more, f, n) => NoStrayResult(events, f, n)
  BY <1>1, <1>3 DEF NoStrayResult
<1>5. ASSUME NEW h, AnswersFit(h, events, f, n)
      PROVE  AnswersFit(h, more, f, n)
  BY <1>1, <1>5 DEF AnswersFit
<1> QED
  BY <1>4, <1>5

\* An event happens.
LEMMA HappenKeeps ==
  ASSUME SessionInv, NEW e \in Events, Happen(e)
  PROVE  SessionInv'
<1> DEFINE n == Len(history)
<1>1. /\ history \in Seq(Events) /\ n \in Nat /\ DOMAIN history = 1..n
      /\ n < MaxEvents /\ MaxEvents \in Nat
      /\ history' = Append(history, e)
      /\ UNCHANGED <<pc, from, read, handle, left, scoreRows, swallowed>>
  BY LenProperties, CmaCaptureConstants
  DEF SessionInv, SessionTypes, Happen, dbVars, pastVars
<1>2. /\ history' \in Seq(Events) /\ Len(history') = n + 1
      /\ \A i \in 1..n : history'[i] = history[i]
      /\ history'[n + 1] = e
  BY <1>1, AppendProperties
<1>3. DOMAIN history' = 1..n + 1
  BY <1>2, LenProperties
<1> HIDE DEF n
<1>4. SessionTypes'
  BY <1>1, <1>2 DEF SessionInv, SessionTypes
<1>5. HistoryFits(history')
  <2>1. WellFormed(e)
    BY CmaCaptureConstants
  <2>2. \A j \in 1..n + 1 : j \in 1..n \/ j = n + 1
    BY <1>1
  <2> QED
    BY <1>1, <1>2, <1>3, <2>1, <2>2 DEF SessionInv, HistoryFits
<1>6. ASSUME NEW c \in Captures
      PROVE  CaptureFits(c)'
  <2>1. CaptureFits(c) /\ from[c] \in Nat /\ read[c] \in Nat /\ read[c] <= n
    BY <1>1 DEF SessionInv, SessionTypes, CaptureFits, n
  <2>2. \A i \in 1..read[c] : history'[i] = history[i]
    BY <1>1, <1>2, <2>1
  <2>3. /\ NoStrayResult(history', from[c], read[c]) => NoStrayResult(history, from[c], read[c])
        /\ AnswersFit(handle[c], history, from[c], read[c])
             => AnswersFit(handle[c], history', from[c], read[c])
    BY <2>1, <2>2, LaterEvents
  <2>4. HandleFits(c)'
    BY <1>1, <2>1, <2>3 DEF CaptureFits, HandleFits
  <2>5. read'[c] <= Len(history')
    BY <1>1, <1>2, <2>1
  <2> QED
    BY <1>1, <2>1, <2>4, <2>5 DEF CaptureFits
<1> QED
  BY <1>4, <1>5, <1>6 DEF SessionInv

\* A step of one capture, which leaves the others and the session alone.
LEMMA OneCaptureSteps ==
  ASSUME SessionInv, NEW c \in Captures, history' = history,
         SessionTypes', CaptureFits(c)',
         \A d \in Captures \ {c} :
           /\ pc'[d] = pc[d] /\ from'[d] = from[d] /\ read'[d] = read[d]
           /\ handle'[d] = handle[d] /\ left'[d] = left[d] /\ scoreRows'[d] = scoreRows[d]
           /\ d \in swallowed' <=> d \in swallowed
  PROVE  SessionInv'
<1>1. \A d \in Captures \ {c} : CaptureFits(d)'
  BY DEF SessionInv, CaptureFits, HandleFits
<1> QED
  BY <1>1 DEF SessionInv

\* A tee that opens has a handle of its own.
LEMMA OpenTeeKeeps ==
  ASSUME SessionInv, Inv, NEW c \in Captures, OpenTee(c)
  PROVE  SessionInv'
<1>1. /\ pc[c] = "idle"
      /\ pc' = [pc EXCEPT ![c] = "open"]
      /\ from' = [from EXCEPT ![c] = Len(history)]
      /\ read' = [read EXCEPT ![c] = Len(history)]
      /\ UNCHANGED <<history, handle, left, scoreRows, swallowed>>
  BY DEF OpenTee, dbVars, pastVars
<1>2. Len(history) \in 0..MaxEvents /\ Len(history) \in Nat
  BY LenProperties, CmaCaptureConstants DEF SessionInv, SessionTypes
<1>3. SessionTypes'
  BY <1>1, <1>2 DEF SessionInv, SessionTypes
<1>4. CaptureFits(c) /\ handle[c] = NewCmaHandle
  BY <1>1 DEF SessionInv, CaptureFits
<1>5. pc'[c] = "open" /\ from'[c] = Len(history) /\ read'[c] = Len(history)
  BY <1>1 DEF Inv, PersistTypes, SessionInv, SessionTypes
<1>6. AnswersFit(handle[c], history, Len(history), Len(history))
  BY <1>2, <1>4, NewAnswersFit
<1>7. HandleFits(c)'
  BY <1>1, <1>4, <1>5, <1>6 DEF CaptureFits, HandleFits
<1>8. CaptureFits(c)'
  BY <1>1, <1>2, <1>4, <1>5, <1>7 DEF CaptureFits
<1> QED
  BY <1>1, <1>3, <1>8, OneCaptureSteps

\* A tee observes the event it passes on, or halfway, or not at all.
LEMMA TeeEventKeeps ==
  ASSUME SessionInv, Inv, NEW c \in Captures, TeeEvent(c)
  PROVE  SessionInv'
<1> DEFINE i == read[c] + 1
           h == handle[c]
<1>1. /\ pc[c] = "open" /\ c \in Tees
      /\ read[c] < Len(history)
      /\ read' = [read EXCEPT ![c] = i]
      /\ UNCHANGED <<history, pc, from, left, scoreRows>>
  BY DEF TeeEvent, dbVars
<1>2. PICK g : /\ handle' = [handle EXCEPT ![c] = g]
               /\ \/ g = ObserveEvent(h, history[i], i) /\ swallowed' = swallowed
                  \/ /\ g \in {h, ObserveHalfway(h, history[i])}
                     /\ swallowed' = swallowed \cup {c}
  <2>1. handle = [handle EXCEPT ![c] = h]
    BY DEF SessionInv, SessionTypes
  <2> QED
    BY <2>1 DEF TeeEvent
<1>3. /\ Len(history) \in Nat /\ read[c] \in Nat /\ Len(history) <= MaxEvents
      /\ MaxEvents \in Nat /\ DOMAIN history = 1..Len(history) /\ CaptureFits(c)
      /\ from[c] \in Nat
  BY LenProperties, CmaCaptureConstants DEF SessionInv, SessionTypes
<1>4. i \in DOMAIN history /\ i \in Nat /\ i \in 0..MaxEvents /\ i <= Len(history)
      /\ from[c] <= i /\ from[c] <= read[c] /\ 1..i \subseteq DOMAIN history
  BY <1>1, <1>3 DEF CaptureFits
<1>5. /\ CmaInv(g) /\ CmaSameEnd(g, h)
      /\ c \notin swallowed' =>
           /\ ErrorsCounted(g)
           /\ NoStrayResult(history, from[c], i) => AnswersFit(g, history, from[c], i)
  <2>1. CmaInv(h) /\ WellFormed(history[i]) /\ CmaSameEnd(h, h) /\ HistoryFits(history)
        /\ HandleFits(c)
    BY <1>3, <1>4 DEF CaptureFits, HandleFits, SessionInv, HistoryFits, CmaSameEnd
  <2>2. CASE g = ObserveEvent(h, history[i], i) /\ swallowed' = swallowed
    <3>1. ASSUME c \notin swallowed, NoStrayResult(history, from[c], i)
          PROVE  AnswersFit(g, history, from[c], i)
      <4>1. NoStrayResult(history, from[c], read[c])
        BY <1>3, <1>4, <3>1, StrayEarlier
      <4>2. AnswersFit(h, history, from[c], read[c])
        BY <2>1, <3>1, <4>1 DEF HandleFits
      <4> QED
        BY <1>3, <1>4, <2>1, <2>2, <3>1, <4>2, EventAnswersFit
    <3>2. CmaInv(g) /\ CmaSameEnd(g, h) /\ (ErrorsCounted(h) => ErrorsCounted(g))
      <4> HIDE DEF h, i
      <4> QED
        BY <1>4, <2>1, <2>2, CmaEventKeeps
    <3> QED
      BY <2>1, <2>2, <3>1, <3>2 DEF HandleFits
  <2>3. CASE g \in {h, ObserveHalfway(h, history[i])} /\ swallowed' = swallowed \cup {c}
    <3>1. CmaInv(g) /\ CmaSameEnd(g, h)
      <4> HIDE DEF h, i
      <4> QED
        BY <2>1, <2>3, CmaHalfwayKeeps
    <3> QED
      BY <2>3, <3>1
  <2> QED
    BY <1>2, <2>2, <2>3
<1> HIDE DEF i
<1>6. SessionTypes'
  BY <1>1, <1>2, <1>4 DEF SessionInv, SessionTypes
<1>7. handle'[c] = g /\ read'[c] = i
  BY <1>1, <1>2 DEF SessionInv, SessionTypes
<1>8. HandleFits(c)'
  BY <1>1, <1>5, <1>7 DEF HandleFits
<1>9. CaptureFits(c)'
  BY <1>1, <1>3, <1>4, <1>5, <1>7, <1>8 DEF CaptureFits, CmaSameEnd
<1>10. \A d \in Captures \ {c} : /\ handle'[d] = handle[d] /\ read'[d] = read[d]
                                 /\ d \in swallowed' <=> d \in swallowed
  BY <1>1, <1>2
<1> QED
  BY <1>1, <1>6, <1>9, <1>10, OneCaptureSteps

\* A capture ends with the handle h and begins its _persist.
LEMMA StartSessionKeeps ==
  ASSUME SessionInv, Inv, NEW c \in Captures, pc[c] \in {"idle", "open"},
         NEW h, StartPersist(c, h), CmaInv(h), h.finished = TRUE,
         UNCHANGED <<history, from, scoreRows>>,
         read' \in {read, [read EXCEPT ![c] = Len(history)]},
         c \notin swallowed => ErrorsCounted(h),
         c \notin swallowed /\ NoStrayResult(history, from[c], read'[c]) =>
           AnswersFit(h, history, from[c], read'[c])
  PROVE  SessionInv'
<1>1. /\ handle' = [handle EXCEPT ![c] = h]
      /\ left' = [left EXCEPT ![c] = Len(h.scores)]
      /\ pc' = [pc EXCEPT ![c] = "delete"]
      /\ swallowed' = swallowed
  BY DEF StartPersist
<1>2. /\ Len(h.scores) \in Nat /\ Len(history) \in 0..MaxEvents /\ MaxEvents \in Nat
      /\ CaptureFits(c) /\ from[c] \in Nat /\ read[c] \in Nat
  BY LenProperties, CmaCaptureConstants
  DEF SessionInv, SessionTypes, CmaInv, CmaRecord
<1>3. SessionTypes'
  BY <1>1, <1>2 DEF SessionInv, SessionTypes
<1>4. /\ handle'[c] = h /\ left'[c] = Len(h.scores) /\ pc'[c] = "delete"
      /\ scoreRows'[c] = 0 /\ from'[c] = from[c]
      /\ read'[c] = read[c] \/ read'[c] = Len(history)
  BY <1>1, <1>2 DEF SessionInv, SessionTypes, Inv, PersistTypes, CaptureFits
<1>5. from'[c] <= read'[c] /\ read'[c] <= Len(history)
  BY <1>2, <1>4 DEF CaptureFits
<1>6. HandleFits(c)'
  BY <1>1, <1>4 DEF HandleFits
<1>7. CaptureFits(c)'
  BY <1>2, <1>4, <1>5, <1>6 DEF CaptureFits
<1>8. ASSUME NEW d \in Captures \ {c}
      PROVE  /\ pc'[d] = pc[d] /\ handle'[d] = handle[d] /\ left'[d] = left[d]
             /\ read'[d] = read[d]
  <2>1. pc'[d] = pc[d] /\ handle'[d] = handle[d] /\ left'[d] = left[d]
    BY <1>1 DEF Inv, PersistTypes, SessionInv, SessionTypes
  <2>2. read'[d] = read[d]
    BY DEF SessionInv, SessionTypes
  <2> QED
    BY <2>1, <2>2
<1> QED
  BY <1>1, <1>3, <1>7, <1>8, OneCaptureSteps

\* The same steps have the same answers.
LEMMA SameStepsSameAnswers ==
  ASSUME NEW g, NEW h, g.steps = h.steps, NEW events, NEW f, NEW n,
         AnswersFit(h, events, f, n)
  PROVE  AnswersFit(g, events, f, n)
BY DEF AnswersFit

\* A tee that ends leaves the handles as they are.
LEMMA CloseTeeKeeps ==
  ASSUME SessionInv, Inv, NEW c \in Captures, NEW raised \in BOOLEAN, CloseTee(c, raised)
  PROVE  SessionInv'
<1> DEFINE h == FinishCma(handle[c], raised)
<1>1. CmaInv(handle[c]) /\ HandleFits(c)
  BY DEF SessionInv, CaptureFits, HandleFits
<1>2. /\ CmaInv(h) /\ h.finished = TRUE /\ h.steps = handle[c].steps
      /\ ErrorsCounted(handle[c]) => ErrorsCounted(h)
  BY <1>1, CmaFinishKeeps
<1>3. pc[c] \in {"idle", "open"} /\ StartPersist(c, h)
      /\ UNCHANGED <<history, from, read, scoreRows>>
  BY DEF CloseTee, dbVars
<1> HIDE DEF h
<1>4. /\ c \notin swallowed => ErrorsCounted(h)
      /\ c \notin swallowed /\ NoStrayResult(history, from[c], read'[c]) =>
           AnswersFit(h, history, from[c], read'[c])
  BY <1>1, <1>2, <1>3, SameStepsSameAnswers DEF HandleFits
<1> QED
  BY <1>2, <1>3, <1>4, StartSessionKeeps

\* An ingest observes the history from its start.
LEMMA IngestKeeps ==
  ASSUME SessionInv, Inv, NEW c \in Captures, Ingest(c)
  PROVE  SessionInv'
<1> DEFINE o == ObserveEvents(history, Len(history))
           h == FinishCma(o, FALSE)
<1>1. Len(history) \in Nat /\ DOMAIN history = 1..Len(history) /\ HistoryFits(history)
  BY LenProperties DEF SessionInv, SessionTypes
<1>2. IngestFits(o, history, Len(history))
  BY <1>1, HistoryObserved
<1>3. pc[c] = "idle" /\ StartPersist(c, h)
      /\ read' = [read EXCEPT ![c] = Len(history)]
      /\ UNCHANGED <<history, from, scoreRows>>
  BY DEF Ingest, dbVars
<1> HIDE DEF o
<1>4. CmaInv(h) /\ h.finished = TRUE /\ h.steps = o.steps /\ ErrorsCounted(h)
  BY <1>2, CmaFinishKeeps DEF IngestFits
<1> HIDE DEF h
<1>5. from[c] = 0 /\ read'[c] = Len(history)
  BY <1>3 DEF SessionInv, SessionTypes, CaptureFits
<1>6. NoStrayResult(history, from[c], read'[c]) => AnswersFit(h, history, from[c], read'[c])
  BY <1>2, <1>4, <1>5, SameStepsSameAnswers DEF IngestFits
<1> QED
  BY <1>3, <1>4, <1>6, StartSessionKeeps

\* The statements insert the scores one by one, and change nothing else.
LEMMA PersistSessionKeeps ==
  ASSUME SessionInv, Inv, NEW c \in Captures, PersistStep(c)
  PROVE  SessionInv'
<1>1. /\ pc[c] \in Statements
      /\ pc' = [pc EXCEPT ![c] = pc'[c]]
      /\ pc'[c] \in Statements \cup {"done", "dropped"}
      /\ UNCHANGED <<history, from, read, handle, swallowed>>
  BY DEF pastVars, PersistStep, DeleteSteps, UpdateRow, UpsertRow, InsertSteps, InsertScore, Drop,
         AfterRow, AfterSteps, AfterScore, Statements, Inv, PersistTypes
<1>2. /\ CaptureFits(c) /\ left[c] \in Nat /\ scoreRows[c] \in Nat
      /\ left \in [Captures -> Nat] /\ scoreRows \in [Captures -> Nat]
  BY DEF SessionInv, SessionTypes
<1>3. /\ \A d \in Captures \ {c} :
            pc'[d] = pc[d] /\ left'[d] = left[d] /\ scoreRows'[d] = scoreRows[d]
      /\ left' \in [Captures -> Nat] /\ scoreRows' \in [Captures -> Nat]
      /\ scoreRows'[c] + left'[c] = scoreRows[c] + left[c]
      /\ pc'[c] = "scores" => left'[c] > 0
  <2>1. CASE InsertScore(c)
    <3>1. /\ left[c] > 0
          /\ left' = [left EXCEPT ![c] = left[c] - 1]
          /\ scoreRows' = [scoreRows EXCEPT ![c] = scoreRows[c] + 1]
          /\ pc' = [pc EXCEPT ![c] = IF left[c] > 1 THEN "scores" ELSE "done"]
      BY <1>2, <2>1 DEF InsertScore, CaptureFits, AfterScore
    <3>2. left[c] - 1 \in Nat
      BY <1>2, <3>1
    <3> QED
      BY <1>2, <3>1, <3>2 DEF Inv, PersistTypes
  <2>2. CASE ~InsertScore(c)
    <3>1. UNCHANGED <<left, scoreRows>> /\ (pc'[c] = "scores" => left[c] > 0)
      BY <2>2 DEF PersistStep, DeleteSteps, UpdateRow, UpsertRow, InsertSteps, Drop,
                  AfterRow, AfterSteps, Inv, PersistTypes, dbVars
    <3>2. \A d \in Captures \ {c} : pc'[d] = pc[d]
      BY <1>1 DEF Inv, PersistTypes
    <3>3. /\ scoreRows'[c] + left'[c] = scoreRows[c] + left[c]
          /\ pc'[c] = "scores" => left'[c] > 0
      BY <3>1
    <3> QED
      BY <1>2, <3>1, <3>2, <3>3
  <2> QED
    BY <2>1, <2>2
<1>4. SessionTypes'
  BY <1>1, <1>3 DEF SessionInv, SessionTypes
<1>5. CaptureFits(c)'
  BY <1>1, <1>2, <1>3 DEF CaptureFits, HandleFits, Statements
<1> QED
  BY <1>1, <1>3, <1>4, <1>5, OneCaptureSteps

\* Every step keeps the invariant of the sessions.
LEMMA StepSessionInv == SessionInv /\ Inv /\ [Next]_vars => SessionInv'
<1> SUFFICES ASSUME SessionInv, Inv, [Next]_vars
             PROVE  SessionInv'
  OBVIOUS
<1>1. CASE UNCHANGED vars
  BY <1>1 DEF vars, SessionInv, SessionTypes, CaptureFits, HandleFits
<1>2. ASSUME NEW c \in Captures, CaptureStep(c) \/ PersistStep(c)
      PROVE  SessionInv'
  BY <1>2, OpenTeeKeeps, TeeEventKeeps, IngestKeeps, CloseTeeKeeps, PersistSessionKeeps
  DEF CaptureStep
<1> QED
  BY <1>1, <1>2, HappenKeeps DEF Next

\* It holds of every behaviour.
LEMMA AlwaysSession == Spec => [](SessionInv /\ Inv)
BY InitInv, StepInv, InitSessionInv, StepSessionInv, PTL DEF Spec

\* Until a stray result comes, a capture that lost no event gives every result to its own
\* call, however many calls are pending at a time and in whatever order their results come.
THEOREM ResultsFindTheirOwnCalls == Spec => []ResultsFindTheirCalls
<1>1. SessionInv => ResultsFindTheirCalls
  BY DEF SessionInv, CaptureFits, HandleFits, AnswersFit, ResultsFindTheirCalls
<1> QED
  BY <1>1, AlwaysSession, PTL

\* A sequence of distinct elements is as long as the set of them.
LEMMA IncreasingLength ==
  ASSUME NEW h, CmaStepTypes(h), PendingFits(h)
  PROVE  Len(h.pending) = Cardinality(OpenSteps(h))
<1> DEFINE n == Len(h.pending)
           f == h.pending
<1>1. /\ n \in Nat /\ DOMAIN f = 1..n /\ Len(h.steps) \in Nat
      /\ \A k \in 1..n : f[k] \in 1..Len(h.steps)
  BY CmaSequences
<1>2. f \in [1..n -> OpenSteps(h)]
  <2>1. f = [k \in 1..n |-> f[k]]
    BY LenProperties DEF CmaStepTypes
  <2> QED
    BY <1>1, <2>1 DEF PendingFits
<1>3. \A j \in OpenSteps(h) : \E k \in 1..n : f[k] = j
  BY <1>1 DEF PendingFits
<1>4. ASSUME NEW k \in 1..n, NEW l \in 1..n, f[k] = f[l]
      PROVE  k = l
  <2>1. k < l \/ k = l \/ l < k
    BY <1>1
  <2>2. f[k] < f[l] \/ k = l \/ f[l] < f[k]
    BY <1>1, <2>1 DEF PendingFits
  <2> QED
    BY <1>1, <1>4, <2>2
<1>5. f \in Bijection(1..n, OpenSteps(h))
  BY <1>2, <1>3, <1>4 DEF Bijection, Injection, Surjection, IsInjective
<1>6. ExistsBijection(1..n, OpenSteps(h))
  BY <1>5 DEF ExistsBijection
<1> QED
  BY <1>1, <1>6, FS_CountingElements

\* The pending calls are the ones without an answer, in the order they were made, for any
\* session and for captures that join late or observe events halfway; the errors of the
\* others are all counted.
THEOREM PendingCallsAreUnanswered == Spec => []PendingAreUnanswered
<1>1. ASSUME SessionInv
      PROVE  PendingAreUnanswered
  <2> SUFFICES ASSUME NEW c \in Captures
               PROVE  LET h == handle[c]
                          open == OpenSteps(h)
                      IN /\ ToSet(h.pending) = open /\ Len(h.pending) = Cardinality(open)
                         /\ \A k \in 2..Len(h.pending) : h.pending[k - 1] < h.pending[k]
                         /\ h.errors <= Cardinality(CmaErrors(h))
                         /\ c \notin swallowed => ErrorsCounted(h)
    BY DEF ErrorsCounted, PendingAreUnanswered, OpenSteps, CmaErrors
  <2> DEFINE h == handle[c]
  <2>1. /\ CmaStepTypes(h) /\ PendingFits(h) /\ ErrorsFit(h)
        /\ c \notin swallowed => ErrorsCounted(h)
    BY <1>1 DEF SessionInv, CaptureFits, HandleFits, CmaInv
  <2> HIDE DEF h
  <2>2. ToSet(h.pending) = OpenSteps(h)
    BY <2>1 DEF ToSet, PendingFits
  <2>3. Len(h.pending) = Cardinality(OpenSteps(h))
    BY <2>1, IncreasingLength
  <2>4. \A k \in 2..Len(h.pending) : h.pending[k - 1] < h.pending[k]
    <3>1. Len(h.pending) \in Nat /\ DOMAIN h.pending = 1..Len(h.pending)
      BY <2>1, CmaSequences
    <3>2. \A k \in 2..Len(h.pending) :
            k - 1 \in DOMAIN h.pending /\ k \in DOMAIN h.pending /\ k - 1 < k
      BY <3>1
    <3> QED
      BY <2>1, <3>2 DEF PendingFits
  <2> QED
    BY <2>1, <2>2, <2>3, <2>4 DEF ErrorsFit, h
<1> QED
  BY <1>1, AlwaysSession, PTL

\* Every variable has its type.
THEOREM CmaCaptureTypeOK == Spec => []TypeOK
<1>1. ASSUME SessionInv, Inv
      PROVE  TypeOK
  <2>1. SessionTypes /\ PersistTypes
    BY <1>1 DEF SessionInv, Inv
  <2>2. ASSUME NEW c \in Captures
        PROVE  /\ scoreRows[c] \in 0..Len(handle[c].scores)
               /\ handle[c].status \in {"running", "succeeded", "failed"}
               /\ handle[c].finished <=> pc[c] \notin {"idle", "open"}
               /\ from[c] <= read[c] /\ read[c] <= Len(history)
    <3>1. CaptureFits(c) /\ CmaRecord(handle[c])
      BY <1>1 DEF SessionInv, CaptureFits, HandleFits, CmaInv
    <3>2. left[c] \in Nat /\ scoreRows[c] \in Nat /\ Len(handle[c].scores) \in Nat
      BY <2>1, <3>1, LenProperties DEF SessionTypes, CmaRecord
    <3>3. scoreRows[c] \in 0..Len(handle[c].scores)
      BY <3>1, <3>2 DEF CaptureFits
    <3> QED
      BY <3>1, <3>3 DEF CaptureFits, CmaRecord
  <2> QED
    BY <2>1, <2>2 DEF TypeOK, SessionTypes, PersistTypes
<1> QED
  BY <1>1, AlwaysSession, PTL
=============================================================================
