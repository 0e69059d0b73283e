-------------------------- MODULE RunLedgerProofs --------------------------
(***************************************************************************)
(* What follows from RunLedger for every set of runs: the links lead to    *)
(* stored rows and never close a circle. An implementation of RunLedger    *)
(* has these properties without a proof of its own.                        *)
(***************************************************************************)
EXTENDS RunLedger, TLAPS

Inv == TypeOK /\ LinksStored /\ Acyclic

\* Every member of Present is a run whose row is stored.
LEMMA PresentRuns == \A p \in Present : p \in Runs /\ status[p] # "absent"
BY DEF Present

\* Inserting a row that no stored row leads to keeps every chain of links finite: the
\* new row's parent is stored, and a stored row's parent is not the new row.
LEMMA AppearKeepsAcyclic ==
  ASSUME NoneIsNull, NEW r \in Runs, Inv, Appear(r)
  PROVE  Acyclic'
<1>1. PICK p \in Present \cup {None} : parent' = [parent EXCEPT ![r] = p]
  BY DEF Appear
<1>2. status[r] = "absent"
  BY DEF Appear
<1>3. p # r
  BY <1>2 DEF NoneIsNull, Present
<1> SUFFICES ASSUME NEW S \in SUBSET Runs, S # {}
             PROVE  \E q \in S : parent'[q] \notin S
  BY DEF Acyclic
<1>4. parent'[r] = p /\ \A q \in Runs : q # r => parent'[q] = parent[q]
  BY <1>1 DEF Inv, TypeOK
<1>5. CASE r \notin S
  <2>1. PICK q \in S : parent[q] \notin S
    BY DEF Inv, Acyclic
  <2> QED
    BY <2>1, <1>4, <1>5
<1>6. CASE r \in S /\ p \notin S
  BY <1>4, <1>6
<1>7. CASE r \in S /\ p \in S
  <2>1. S \ {r} \in SUBSET Runs /\ S \ {r} # {}
    BY <1>3, <1>7
  <2>2. PICK q \in S \ {r} : parent[q] \notin S \ {r}
    BY <2>1 DEF Inv, Acyclic
  <2>3. parent[q] # r
    <3>1. CASE parent[q] = None
      BY <3>1 DEF NoneIsNull
    <3>2. CASE parent[q] # None
      BY <3>2, <1>2 DEF Inv, LinksStored
    <3> QED
      BY <3>1, <3>2
  <2> QED
    BY <2>2, <2>3, <1>4
<1> QED
  BY <1>5, <1>6, <1>7

\* The three parts of Inv hold at the start and every step keeps them.
LEMMA InitInv ==
  ASSUME NoneIsNull
  PROVE  Init => Inv
BY DEF NoneIsNull, Init, Inv, TypeOK, LinksStored, Acyclic

\* Every step keeps the invariant.
LEMMA StepInv ==
  ASSUME NoneIsNull
  PROVE  Inv /\ [Next]_vars => Inv'
<1> SUFFICES ASSUME Inv, [Next]_vars
             PROVE  Inv'
  OBVIOUS
<1> USE DEF Inv
<1>1. ASSUME NEW r \in Runs, Appear(r)
      PROVE  Inv'
  <2>1. PICK p \in Present \cup {None} : parent' = [parent EXCEPT ![r] = p]
    BY <1>1 DEF Appear
  <2>2. TypeOK'
    BY <1>1, <2>1 DEF Appear, TypeOK, Present
  <2>3. LinksStored'
    BY <1>1, <2>1, PresentRuns DEF Appear, TypeOK, LinksStored
  <2>4. Acyclic'
    BY <1>1, AppearKeepsAcyclic
  <2> QED
    BY <2>2, <2>3, <2>4
<1>2. ASSUME NEW r \in Runs, Finish(r)
      PROVE  Inv'
  BY <1>2 DEF Finish, TypeOK, LinksStored, Acyclic
<1>3. ASSUME NEW r \in Runs, RecordSteps(r)
      PROVE  Inv'
  BY <1>3 DEF RecordSteps, TypeOK, LinksStored, Acyclic
<1>4. CASE UNCHANGED vars
  BY <1>4 DEF vars, TypeOK, LinksStored, Acyclic
<1> QED
  BY <1>1, <1>2, <1>3, <1>4 DEF Next

\* The tables of the ledger keep their types.
THEOREM TypeCorrect ==
  ASSUME NoneIsNull
  PROVE  Spec => []TypeOK
BY InitInv, StepInv, PTL DEF Spec, Inv

\* Every stored parent_run_id leads to a stored row, whatever order the rows came in.
THEOREM LinksAreStored ==
  ASSUME NoneIsNull
  PROVE  Spec => []LinksStored
BY InitInv, StepInv, PTL DEF Spec, Inv

\* No run is its own ancestor: following parent_run_id ends, from every run.
THEOREM LinksAreAcyclic ==
  ASSUME NoneIsNull
  PROVE  Spec => []Acyclic
BY InitInv, StepInv, PTL DEF Spec, Inv
=============================================================================
