--------------------------- MODULE RunStoreProofs ---------------------------
(***************************************************************************)
(* RunStore for every set of runs, jobs and stamps: what the tasks leave   *)
(* in the tables agrees with how far they came, the tables keep the        *)
(* promises of RunLedger, and a stamp is erased by the fallback alone.     *)
(***************************************************************************)
EXTENDS RunStore, TLAPS

LedgerFacts == INSTANCE RunLedgerProofs

-----------------------------------------------------------------------------
(* What the helpers return.                                                *)

\* A lookup returns NULL or a stored run, and touches no other task's result.
LEMMA LookupFindsStored ==
  ASSUME TypeOK, NEW r \in Runs, StartLookup(r)
  PROVE  \E p \in Runs \cup {None} :
           /\ found' = [found EXCEPT ![r] = p]
           /\ p # None => status[p] # "absent"
BY DEF StartLookup, Candidates, Latest

\* The insert stores a live run as running and an API run as final, or leaves the row
\* that is there alone.
LEMMA InsertedRow ==
  ASSUME TypeOK, NEW r \in Runs
  PROVE  /\ InsertedStatus(r) \in {"running", "final"}
         /\ status[r] # "absent" => InsertedStatus(r) = status[r]
         /\ status[r] = "absent" => InsertedParent(r) = found[r]
         /\ status[r] # "absent" => InsertedParent(r) = parent[r]
         /\ r \in ApiRuns /\ status[r] # "running" => InsertedStatus(r) = "final"
BY ConstantsAssumption DEF InsertedStatus, InsertedParent, TypeOK, Runs

\* A run is of one of the two kinds.
LEMMA Kinds == \A r \in Runs : r \in LiveRuns <=> r \notin ApiRuns
BY ConstantsAssumption DEF Runs

\* None is no run.
LEMMA NoneIsNoRun == None \notin Runs
BY ConstantsAssumption

-----------------------------------------------------------------------------
(* The inductive invariant.                                                *)

\* Nothing is stored at first.
LEMMA InitIInv == Init => IInv
BY NoneIsNoRun
DEF Init, IInv, TypeOK, TasksMatchRows, FinPending, StartPending

\* Each step keeps the types.
LEMMA StepTypeOK == TypeOK /\ [Next]_vars => TypeOK'
<1> SUFFICES ASSUME TypeOK, [Next]_vars
             PROVE  TypeOK'
  OBVIOUS
<1> USE DEF TypeOK, hostVars, taskVars, dbVars, StartPending, FinPending
<1>1. ASSUME NEW r \in Runs, HostStep(r)
      PROVE  TypeOK'
  <2>1. CASE OpenRun(r)
    BY <2>1 DEF OpenRun, FirstStartPc
  <2>2. CASE CloseRun(r)
    BY <2>2 DEF CloseRun
  <2>3. CASE AbandonRun(r)
    BY <2>3 DEF AbandonRun
  <2>4. CASE CallApi(r)
    BY <2>4 DEF CallApi
  <2>5. CASE ReturnApi(r)
    BY <2>5 DEF ReturnApi, FirstStartPc
  <2>6. CASE Age(r)
    BY <2>6 DEF Age
  <2> QED
    BY <1>1, <2>1, <2>2, <2>3, <2>4, <2>5, <2>6 DEF HostStep
<1>2. ASSUME NEW r \in Runs, StartStep(r)
      PROVE  TypeOK'
  <2>1. CASE StartLookup(r)
    <3>1. found' \in [Runs -> Runs \cup {None}]
      BY <2>1, LookupFindsStored
    <3> QED
      BY <2>1, <3>1 DEF StartLookup
  <2>2. CASE StartInsert(r)
    <3>1. InsertedStatus(r) \in {"running", "final"}
      BY InsertedRow
    <3>2. InsertedParent(r) \in Runs \cup {None}
      BY InsertedRow
    <3> QED
      BY <2>2, <3>1, <3>2 DEF StartInsert
  <2>3. CASE StartSteps(r)
    BY <2>3 DEF StartSteps
  <2>4. CASE DropStart(r)
    BY <2>4 DEF DropStart
  <2> QED
    BY <1>2, <2>1, <2>2, <2>3, <2>4 DEF StartStep
<1>3. ASSUME NEW r \in Runs, FinalizeStep(r)
      PROVE  TypeOK'
  <2>1. CASE FinalizeUpdate(r)
    BY <2>1 DEF FinalizeUpdate, AfterRow, UpdatedOutcome
  <2>2. CASE FinalizeUpsert(r)
    BY <2>2 DEF FinalizeUpsert, AfterRow, UpsertedStatus, UpsertedOutcome
  <2>3. CASE FinalizeSteps(r)
    BY <2>3 DEF FinalizeSteps
  <2>4. CASE DropFinalize(r)
    BY <2>4 DEF DropFinalize
  <2> QED
    BY <1>3, <2>1, <2>2, <2>3, <2>4 DEF FinalizeStep
<1>4. ASSUME NEW n \in Notes, CallNote(n) \/ NoteStep(n)
      PROVE  TypeOK'
  BY <1>4 DEF CallNote, NoteStep, NoteUpdate, DropNote
<1>5. CASE Crash
  BY <1>5 DEF Crash, DroppedFrom
<1>6. CASE UNCHANGED vars
  BY <1>6 DEF vars
<1> QED
  BY <1>1, <1>2, <1>3, <1>4, <1>5, <1>6 DEF Next

\* Each step keeps tasks and rows in agreement. An action changes one run's task or
\* its row, so the other runs' parts carry over, except that of a lookup which found
\* the run: it needs the row to stay.
LEMMA StepTasksMatchRows == IInv /\ [Next]_vars => TasksMatchRows'
<1> SUFFICES ASSUME TypeOK, TasksMatchRows, [Next]_vars
             PROVE  TasksMatchRows'
  BY DEF IInv
<1> USE Kinds, NoneIsNoRun
    DEF TypeOK, TasksMatchRows, hostVars, taskVars, dbVars, StartPending, FinPending
<1>1. ASSUME NEW r \in Runs, HostStep(r)
      PROVE  TasksMatchRows'
  <2>1. CASE OpenRun(r)
    BY <2>1 DEF OpenRun, FirstStartPc
  <2>2. CASE CloseRun(r)
    BY <2>2 DEF CloseRun
  <2>3. CASE AbandonRun(r)
    BY <2>3 DEF AbandonRun
  <2>4. CASE CallApi(r)
    BY <2>4 DEF CallApi
  <2>5. CASE ReturnApi(r)
    BY <2>5 DEF ReturnApi, FirstStartPc
  <2>6. CASE Age(r)
    BY <2>6 DEF Age
  <2> QED
    BY <1>1, <2>1, <2>2, <2>3, <2>4, <2>5, <2>6 DEF HostStep
<1>2. ASSUME NEW r \in Runs, StartStep(r)
      PROVE  TasksMatchRows'
  <2>1. CASE StartLookup(r)
    <3>1. PICK p \in Runs \cup {None} : /\ found' = [found EXCEPT ![r] = p]
                                        /\ p # None => status[p] # "absent"
      BY <2>1, LookupFindsStored
    <3> QED
      BY <2>1, <3>1 DEF StartLookup
  <2>2. CASE StartInsert(r)
    <3>1. /\ InsertedStatus(r) \in {"running", "final"}
          /\ status[r] # "absent" => InsertedStatus(r) = status[r]
          /\ r \in ApiRuns => InsertedStatus(r) = "final"
      BY InsertedRow
    <3> QED
      BY <2>2, <3>1 DEF StartInsert
  <2>3. CASE StartSteps(r)
    BY <2>3 DEF StartSteps
  <2>4. CASE DropStart(r)
    BY <2>4 DEF DropStart
  <2> QED
    BY <1>2, <2>1, <2>2, <2>3, <2>4 DEF StartStep
<1>3. ASSUME NEW r \in Runs, FinalizeStep(r)
      PROVE  TasksMatchRows'
  <2>1. CASE FinalizeUpdate(r)
    BY <2>1 DEF FinalizeUpdate, AfterRow
  <2>2. CASE FinalizeUpsert(r)
    BY <2>2 DEF FinalizeUpsert, AfterRow, UpsertedStatus
  <2>3. CASE FinalizeSteps(r)
    BY <2>3 DEF FinalizeSteps
  <2>4. CASE DropFinalize(r)
    BY <2>4 DEF DropFinalize
  <2> QED
    BY <1>3, <2>1, <2>2, <2>3, <2>4 DEF FinalizeStep
<1>4. ASSUME NEW n \in Notes, CallNote(n) \/ NoteStep(n)
      PROVE  TasksMatchRows'
  BY <1>4 DEF CallNote, NoteStep, NoteUpdate, DropNote
<1>5. CASE Crash
  BY <1>5 DEF Crash, DroppedFrom
<1>6. CASE UNCHANGED vars
  BY <1>6 DEF vars
<1> QED
  BY <1>1, <1>2, <1>3, <1>4, <1>5, <1>6 DEF Next

\* The inductive invariant holds of every reachable state.
THEOREM Invariance == Spec => []IInv
<1>1. IInv /\ [Next]_vars => IInv'
  BY StepTypeOK, StepTasksMatchRows DEF IInv
<1> QED
  BY InitIInv, <1>1, PTL DEF Spec

-----------------------------------------------------------------------------
(* What it gives.                                                          *)

\* The state of the host, the tasks and the tables keeps its types.
THEOREM TypeCorrect == Spec => []TypeOK
<1>1. IInv => TypeOK
  BY DEF IInv
<1> QED
  BY <1>1, Invariance, PTL

\* A task that came to its end left a final row with its steps, for any number of
\* runs and in any order of their statements.
THEOREM FinishedTasksStore == Spec => []FinishedTaskStoredRun
<1>1. IInv => FinishedTaskStoredRun
  BY Kinds DEF IInv, TasksMatchRows, FinishedTaskStoredRun
<1> QED
  BY <1>1, Invariance, PTL

\* No late insert shows a finalized run as running again.
THEOREM RunningRowsAreUnfinalized == Spec => []RunningRowIsUnfinalized
<1>1. IInv => RunningRowIsUnfinalized
  BY Kinds DEF IInv, TypeOK, TasksMatchRows, RunningRowIsUnfinalized, FinPending
<1> QED
  BY <1>1, Invariance, PTL

\* Only the fallback upsert erases a stamp.
THEOREM StampsErasedByFallbackOnly == Spec => OnlyFallbackErasesStamp
<1> DEFINE Kept == \A r \in Runs : outcome[r] # None /\ outcome'[r] = None
                                     => finPc[r] = "upsert"
<1>1. IInv /\ [Next]_vars => [Kept]_vars
  <2> SUFFICES ASSUME TypeOK, Next
               PROVE  Kept
    BY DEF IInv
  <2> USE DEF TypeOK, hostVars, taskVars, dbVars
  <2>1. ASSUME NEW r \in Runs, HostStep(r)
        PROVE  Kept
    BY <2>1
    DEF HostStep, OpenRun, CloseRun, AbandonRun, CallApi, ReturnApi, Age
  <2>2. ASSUME NEW r \in Runs, StartStep(r)
        PROVE  Kept
    BY <2>2 DEF StartStep, StartLookup, StartInsert, StartSteps, DropStart
  <2>3. ASSUME NEW r \in Runs, FinalizeStep(r)
        PROVE  Kept
    BY <2>3
    DEF FinalizeStep, FinalizeUpdate, FinalizeUpsert, FinalizeSteps, DropFinalize,
        UpdatedOutcome
  <2>4. ASSUME NEW n \in Notes, CallNote(n) \/ NoteStep(n)
        PROVE  Kept
    BY <2>4, ConstantsAssumption DEF CallNote, NoteStep, NoteUpdate, DropNote
  <2>5. CASE Crash
    BY <2>5 DEF Crash
  <2> QED
    BY <2>1, <2>2, <2>3, <2>4, <2>5 DEF Next
<1> QED
  BY <1>1, Invariance, PTL DEF Spec, OnlyFallbackErasesStamp

-----------------------------------------------------------------------------
(* RunStore implements RunLedger.                                          *)

\* The tables start empty.
LEMMA InitLedger == Init => Ledger!Init
BY DEF Init, Ledger!Init

\* An insert that finds no row lets the run appear; one that finds the row is a stutter.
LEMMA InsertImplements ==
  ASSUME IInv, NEW r \in Runs, StartInsert(r)
  PROVE  Ledger!Appear(r) \/ UNCHANGED dbVars
<1> USE DEF IInv, TypeOK
<1>1. /\ InsertedStatus(r) \in {"running", "final"}
      /\ status[r] # "absent" => InsertedStatus(r) = status[r]
      /\ status[r] = "absent" => InsertedParent(r) = found[r]
      /\ status[r] # "absent" => InsertedParent(r) = parent[r]
  BY InsertedRow
<1>2. found[r] \in Ledger!Present \cup {None}
  BY DEF TasksMatchRows, Ledger!Present
<1>3. CASE status[r] = "absent"
  BY <1>1, <1>2, <1>3 DEF StartInsert, Ledger!Appear
<1>4. CASE status[r] # "absent"
  BY <1>1, <1>4 DEF StartInsert, dbVars
<1> QED
  BY <1>3, <1>4

\* A finalize statement finishes the row, lets it appear finished, stores the steps,
\* or leaves the ledger as it is.
LEMMA FinalizeImplements ==
  ASSUME IInv, NEW r \in Runs, FinalizeStep(r)
  PROVE  Ledger!Next \/ UNCHANGED <<status, parent, steps>>
<1> USE DEF IInv, TypeOK
<1>1. CASE FinalizeUpdate(r)
  <2>1. CASE status[r] = "running"
    BY <1>1, <2>1 DEF FinalizeUpdate, Ledger!Next, Ledger!Finish
  <2>2. CASE status[r] # "running"
    BY <1>1, <2>2 DEF FinalizeUpdate
  <2> QED
    BY <2>1, <2>2
<1>2. CASE FinalizeUpsert(r)
  <2> USE DEF FinalizeUpsert, UpsertedStatus
  <2>1. CASE status[r] = "absent"
    <3>1. parent' = [parent EXCEPT ![r] = None]
      BY <1>2, <2>1 DEF TasksMatchRows
    <3>2. Ledger!Appear(r)
      BY <1>2, <2>1, <3>1 DEF Ledger!Appear
    <3> QED
      BY <3>2 DEF Ledger!Next
  <2>2. CASE status[r] = "running"
    BY <1>2, <2>2 DEF Ledger!Next, Ledger!Finish
  <2>3. CASE status[r] = "final"
    BY <1>2, <2>3
  <2> QED
    BY <2>1, <2>2, <2>3
<1>3. CASE FinalizeSteps(r)
  <2>1. r \in LiveRuns /\ status[r] = "final" /\ steps[r] = 0
    BY <1>3, Kinds DEF FinalizeSteps, TasksMatchRows, FinPending
  <2>2. steps' = [steps EXCEPT ![r] = 1] /\ UNCHANGED <<status, parent>>
    BY <1>3, <2>1 DEF FinalizeSteps
  <2>3. Ledger!RecordSteps(r)
    BY <2>1, <2>2 DEF Ledger!RecordSteps
  <2> QED
    BY <2>3 DEF Ledger!Next
<1>4. CASE DropFinalize(r)
  BY <1>4 DEF DropFinalize, dbVars
<1> QED
  BY <1>1, <1>2, <1>3, <1>4, FinalizeStep(r) DEF FinalizeStep

\* Every step of the writers is a step of the ledger or a stutter.
LEMMA StepLedger == IInv /\ [Next]_vars => [Ledger!Next]_(Ledger!vars)
<1> SUFFICES ASSUME IInv, [Next]_vars
             PROVE  Ledger!Next \/ UNCHANGED <<status, parent, steps>>
  BY DEF Ledger!vars
<1> USE DEF hostVars, taskVars, dbVars
<1>1. ASSUME NEW r \in Runs, HostStep(r)
      PROVE  UNCHANGED <<status, parent, steps>>
  BY <1>1
  DEF HostStep, OpenRun, CloseRun, AbandonRun, CallApi, ReturnApi, Age
<1>2. ASSUME NEW r \in Runs, StartStep(r)
      PROVE  Ledger!Next \/ UNCHANGED <<status, parent, steps>>
  <2>1. CASE StartLookup(r) \/ DropStart(r)
    BY <2>1 DEF StartLookup, DropStart
  <2>2. CASE StartInsert(r)
    BY <2>2, InsertImplements DEF Ledger!Next
  <2>3. CASE StartSteps(r)
    <3>1. r \in ApiRuns /\ status[r] = "final" /\ steps[r] = 0
      BY <2>3, Kinds DEF StartSteps, IInv, TasksMatchRows, StartPending
    <3>2. steps' = [steps EXCEPT ![r] = 1] /\ UNCHANGED <<status, parent>>
      BY <2>3, <3>1 DEF StartSteps
    <3>3. Ledger!RecordSteps(r)
      BY <3>1, <3>2 DEF Ledger!RecordSteps
    <3> QED
      BY <3>3 DEF Ledger!Next
  <2> QED
    BY <1>2, <2>1, <2>2, <2>3 DEF StartStep
<1>3. ASSUME NEW r \in Runs, FinalizeStep(r)
      PROVE  Ledger!Next \/ UNCHANGED <<status, parent, steps>>
  BY <1>3, FinalizeImplements
<1>4. ASSUME NEW n \in Notes, CallNote(n) \/ NoteStep(n)
      PROVE  UNCHANGED <<status, parent, steps>>
  BY <1>4 DEF CallNote, NoteStep, NoteUpdate, DropNote
<1>5. CASE Crash
  BY <1>5 DEF Crash
<1>6. CASE UNCHANGED vars
  BY <1>6 DEF vars
<1> QED
  BY <1>1, <1>2, <1>3, <1>4, <1>5, <1>6 DEF Next

\* The writers keep every promise of the ledger.
THEOREM ImplementsLedger == Spec => KeepsLedger
BY InitLedger, StepLedger, Invariance, PTL DEF Spec, KeepsLedger, Ledger!Spec

\* Whatever interleaving the lookups and the inserts of repairs run in, no run becomes
\* its own ancestor.
THEOREM ParentsAreAcyclic == Spec => []Acyclic
<1>1. Ledger!Init => LedgerFacts!Init
  BY DEF Ledger!Init, LedgerFacts!Init
<1>2. [Ledger!Next]_(Ledger!vars) => [LedgerFacts!Next]_(LedgerFacts!vars)
  BY DEF Ledger!Next, Ledger!vars, Ledger!Appear, Ledger!Finish, Ledger!RecordSteps,
         Ledger!Present, LedgerFacts!Next, LedgerFacts!vars, LedgerFacts!Appear,
         LedgerFacts!Finish, LedgerFacts!RecordSteps, LedgerFacts!Present
<1>3. LedgerFacts!Acyclic => Acyclic
  BY DEF Acyclic, Ledger!Acyclic, LedgerFacts!Acyclic
<1>4. LedgerFacts!Spec => []LedgerFacts!Acyclic
  BY LedgerFacts!LinksAreAcyclic, NoneIsNoRun DEF LedgerFacts!NoneIsNull
<1> QED
  BY <1>1, <1>2, <1>3, <1>4, ImplementsLedger, PTL
  DEF KeepsLedger, Ledger!Spec, LedgerFacts!Spec
=============================================================================
