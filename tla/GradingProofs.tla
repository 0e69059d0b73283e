--------------------------- MODULE GradingProofs ---------------------------
(***************************************************************************)
(* What the sweeps and the judge keep, for every table of runs, all        *)
(* windows, and any number of graders at work at once.                     *)
(***************************************************************************)
EXTENDS Grading, FiniteSetTheorems, TLAPS

\* A flag is worth a number of score rows.
LEMMA HitsAreNat == TablesTypeOK => \A f \in Flags : Hits(f) \in Nat
  <1> SUFFICES ASSUME TablesTypeOK, NEW f \in Flags PROVE Hits(f) \in Nat
    OBVIOUS
  <1>1. f[1] \in Runs /\ f[2] \in ScoreNames
    BY DEF Flags
  <1>2. steps[f[1]].loops \in Nat
    <2>1. steps[f[1]] \in StepForms[f[1]] \cup {NoSteps}
      BY <1>1 DEF TablesTypeOK
    <2>2. NoSteps.loops \in Nat
      BY DEF NoSteps
    <2> QED BY <1>1, <2>1, <2>2, FactsAssumption
  <1> QED BY <1>1, <1>2 DEF Hits, HitsIn, ScoreNames

\* What a rule selects is in its window.
LEMMA SelectedInWindow ==
  ASSUME NEW rule, NEW W
  PROVE  /\ Selected(rule, W) \subseteq Flags
         /\ \A f \in Selected(rule, W) : f[1] \in W
  BY DEF Selected

\* Nothing is graded at first.
LEMMA GradingInit == Init => GradersInv
  <1> SUFFICES ASSUME Init PROVE GradersInv
    OBVIOUS
  <1> USE DEF Init
  <1>1. TablesTypeOK /\ SweepTypeOK
    BY FactsAssumption DEF TablesInit, SweepInit, TablesTypeOK, SweepTypeOK, LastAt, RuleOrder,
                           NoRows
  <1>2. JudgeTypeOK
    BY DEF JudgeInit, JudgeTypeOK, NoCounts, Labels, Marks
  <1>3. SweepInv
    BY DEF TablesInit, SweepInit, SweepInv, NoRows
  <1>4. JudgeInv
    BY DEF TablesInit, JudgeInit, JudgeInv, JudgedOnce
  <1>5. SweepProgress
    BY DEF SweepInit, SweepProgress
  <1> QED BY <1>1, <1>2, <1>3, <1>4, <1>5 DEF GradersInv, TypeOK

-----------------------------------------------------------------------------
(* The sweeps.                                                             *)

\* A sweep writes neither the runs nor the verdicts.
LEMMA SweepFrame ==
  ASSUME NEW s \in Sweeps, SweepStep(s) \/ FailSweep(s)
  PROVE  UNCHANGED <<stored, columns, steps, age, verdicts>>
  BY DEF SweepStep, FailSweep, StartSweep, SelectRule, UpsertFinding, InsertScores,
         VerdictsAfterDelete, runVars, scoreVars, tableVars

\* A sweep of the rules keeps the types.
LEMMA SweepKeepsTypes ==
  ASSUME TablesTypeOK, SweepTypeOK, NEW s \in Sweeps, SweepStep(s) \/ FailSweep(s)
  PROVE  TablesTypeOK' /\ SweepTypeOK'
  <1> USE DEF TablesTypeOK, SweepTypeOK
  <1>l. LastAt = 10 /\ Len(RuleOrder) = 9
    BY DEF LastAt, RuleOrder
  <1>1. at' \in [Sweeps -> 0..LastAt]
    <2>1. at \in [Sweeps -> 0..LastAt]
      OBVIOUS
    <2> HIDE DEF TablesTypeOK, SweepTypeOK
    <2>2. CASE SelectRule(s)
      <3>1. at' = [at EXCEPT ![s] = @ + 1] /\ at[s] \in 1..9
        BY <1>l, <2>2 DEF SelectRule
      <3> QED BY <1>l, <2>1, <3>1
    <2>3. CASE StartSweep(s) \/ InsertScores(s) \/ FailSweep(s)
      <3>1. at' = [at EXCEPT ![s] = 1] \/ at' = [at EXCEPT ![s] = 0]
        BY <2>3 DEF StartSweep, InsertScores, FailSweep
      <3> QED BY <1>l, <2>1, <3>1
    <2>4. CASE UpsertFinding(s)
      BY <2>1, <2>4 DEF UpsertFinding
    <2> QED BY <2>2, <2>3, <2>4 DEF SweepStep
  <1>h. \A f \in Flags : Hits(f) \in Nat
    BY HitsAreNat
  <1>n. NoRows \in [Flags -> Nat]
    BY DEF NoRows
  <1>2. pending' \in [Sweeps -> [Flags -> Nat]]
    <2>1. CASE SelectRule(s)
      <3> DEFINE R == Selected(RuleOrder[at[s]], Window(Days[s]))
                 P == [f \in Flags |-> IF f \in R THEN pending[s][f] + Hits(f)
                                                 ELSE pending[s][f]]
      <3>1. pending' = [pending EXCEPT ![s] = P]
        BY <2>1 DEF SelectRule
      <3>2. P \in [Flags -> Nat]
        <4> HIDE DEF R
        <4> QED BY <1>h
      <3> HIDE DEF P
      <3> QED BY <3>1, <3>2
    <2>2. CASE StartSweep(s) \/ UpsertFinding(s)
      BY <2>2 DEF StartSweep, UpsertFinding
    <2>3. CASE InsertScores(s) \/ FailSweep(s)
      <3>1. pending' = [pending EXCEPT ![s] = NoRows]
        BY <2>3 DEF InsertScores, PendingAfterInsert, FailSweep
      <3> QED BY <3>1, <1>n
    <2> QED BY <2>1, <2>2, <2>3 DEF SweepStep
  <1>3. base' \in [Sweeps -> SUBSET Runs]
    <2>1. {r \in Window(Days[s]) : Whole(r)} \in SUBSET Runs
      BY DEF Window
    <2>2. CASE StartSweep(s)
      BY <2>1, <2>2 DEF StartSweep
    <2>3. CASE ~StartSweep(s)
      BY <2>3 DEF SweepStep, FailSweep, SelectRule, UpsertFinding, InsertScores
    <2> QED BY <2>2, <2>3
  <1>4. rows' \in [Sweeps -> [Flags -> Seq(Nat)]]
    <2>1. CASE StartSweep(s)
      <3>1. rows' = [t \in Sweeps |->
                      [f \in Flags |-> IF f[1] \in Deleted(s) THEN <<>> ELSE rows[t][f]]]
        BY <2>1 DEF StartSweep
      <3>2. <<>> \in Seq(Nat)
        OBVIOUS
      <3> QED BY <3>1, <3>2
    <2>2. CASE InsertScores(s)
      <3> DEFINE R == [f \in Flags |-> IF pending[s][f] > 0 THEN Append(rows[s][f], pending[s][f])
                                                          ELSE rows[s][f]]
      <3>1. rows' = [rows EXCEPT ![s] = R]
        BY <2>2 DEF InsertScores
      <3>2. \A f \in Flags : Append(rows[s][f], pending[s][f]) \in Seq(Nat)
        OBVIOUS
      <3>3. R \in [Flags -> Seq(Nat)]
        BY <3>2
      <3> HIDE DEF R
      <3> QED BY <3>1, <3>3
    <2>3. CASE ~StartSweep(s) /\ ~InsertScores(s)
      BY <2>3 DEF SweepStep, FailSweep, SelectRule, UpsertFinding, scoreVars, tableVars
    <2> QED BY <2>1, <2>2, <2>3
  <1>5. TablesTypeOK'
    BY <1>4, SweepFrame
  <1> QED BY <1>1, <1>2, <1>3, <1>5

\* What of the tables the sweeps' invariant is about, for one sweep and one flag.
OneInv(s, f) ==
  /\ Len(rows[s][f]) <= 1
  /\ at[s] # 0 /\ (pending[s][f] > 0 \/ f[1] \in Window(Days[s])) => rows[s][f] = <<>>
  /\ at[s] = 0 => pending[s][f] = 0
  /\ stored[f[1]] = "absent" => pending[s][f] = 0 /\ rows[s][f] = <<>>

\* What the steps of a sweep do to its own rows and score_rows, flag by flag.
LEMMA OneFlag ==
  ASSUME TablesTypeOK, SweepTypeOK, NEW s \in Sweeps, NEW f \in Flags
  PROVE  /\ SelectRule(s) => pending'[s][f] =
              IF f \in Selected(RuleOrder[at[s]], Window(Days[s])) THEN pending[s][f] + Hits(f)
                                                                 ELSE pending[s][f]
         /\ InsertScores(s) => /\ pending'[s][f] = 0
                               /\ rows'[s][f] = IF pending[s][f] > 0
                                                  THEN Append(rows[s][f], pending[s][f])
                                                  ELSE rows[s][f]
         /\ FailSweep(s) => pending'[s][f] = 0
  <1> USE DEF TablesTypeOK, SweepTypeOK
  <1>1. ASSUME SelectRule(s)
        PROVE  pending'[s][f] =
              IF f \in Selected(RuleOrder[at[s]], Window(Days[s])) THEN pending[s][f] + Hits(f)
                                                                 ELSE pending[s][f]
    <2> DEFINE R == Selected(RuleOrder[at[s]], Window(Days[s]))
    <2>1. pending' = [pending EXCEPT ![s] =
                       [g \in Flags |-> IF g \in R THEN @[g] + Hits(g) ELSE @[g]]]
      BY <1>1 DEF SelectRule
    <2> HIDE DEF R
    <2>2. pending'[s][f] = IF f \in R THEN pending[s][f] + Hits(f) ELSE pending[s][f]
      BY <2>1
    <2> QED BY <2>2 DEF R
  <1>2. ASSUME InsertScores(s)
        PROVE  /\ pending'[s][f] = 0
               /\ rows'[s][f] = IF pending[s][f] > 0 THEN Append(rows[s][f], pending[s][f])
                                                      ELSE rows[s][f]
    BY <1>2 DEF InsertScores, PendingAfterInsert, NoRows
  <1>3. FailSweep(s) => pending'[s][f] = 0
    BY DEF FailSweep, NoRows
  <1> QED BY <1>1, <1>2, <1>3

\* A sweep of the rules keeps the invariant of the graders.
LEMMA SweepKeepsInv ==
  ASSUME TablesTypeOK, SweepTypeOK, SweepInv, NEW s \in Sweeps, SweepStep(s) \/ FailSweep(s)
  PROVE  SweepInv'
  <1> USE DEF TablesTypeOK, SweepTypeOK, runVars, scoreVars, tableVars
  <1>0. UNCHANGED <<stored, age>>
    BY SweepFrame
  <1>w. \A d : Window(d)' = Window(d)
    BY <1>0 DEF Window
  <1>h. \A f \in Flags : Hits(f) \in Nat
    BY HitsAreNat
  <1> SUFFICES ASSUME NEW t \in Sweeps, NEW f \in Flags
               PROVE  OneInv(t, f)'
    BY DEF SweepInv, OneInv
  <1>i. OneInv(t, f)
    BY DEF SweepInv, OneInv
  <1>n. rows[t][f] \in Seq(Nat) /\ pending[t][f] \in Nat /\ Hits(f) \in Nat
    BY <1>h
  <1>l. Len(<<>>) <= 1 /\ \A x \in Nat : Len(Append(<<>>, x)) <= 1
    OBVIOUS
  <1>1. CASE StartSweep(s)
    <2>1. rows'[t][f] = IF f[1] \in Window(Days[s]) THEN <<>> ELSE rows[t][f]
      BY <1>1 DEF StartSweep, Deleted
    <2>2. pending' = pending /\ at' = [at EXCEPT ![s] = 1] /\ at[s] = 0
      BY <1>1 DEF StartSweep
    <2>3. CASE t = s
      BY <1>0, <1>w, <1>i, <1>n, <1>l, <2>1, <2>2, <2>3 DEF OneInv
    <2>4. CASE t # s
      BY <1>0, <1>w, <1>i, <1>n, <1>l, <2>1, <2>2, <2>4 DEF OneInv
    <2> QED BY <2>3, <2>4
  <1>2. CASE SelectRule(s)
    <2>1. rows' = rows /\ at' = [at EXCEPT ![s] = @ + 1] /\ at[s] \in 1..Len(RuleOrder)
      BY <1>2 DEF SelectRule
    <2>2. CASE t = s
      <3>1. pending'[s][f] > 0 => pending[s][f] > 0 \/ f[1] \in Window(Days[s])
        BY <1>2, OneFlag, SelectedInWindow
      <3>2. f[1] \in Window(Days[s]) => stored[f[1]] # "absent"
        BY DEF Window
      <3>3. at[s] # 0 /\ at'[s] # 0
        BY <2>1 DEF RuleOrder
      <3>4. f[1] \notin Window(Days[s]) => pending'[s][f] = pending[s][f]
        BY <1>2, OneFlag, SelectedInWindow
      <3> QED BY <1>0, <1>w, <1>i, <1>n, <2>1, <2>2, <3>1, <3>2, <3>3, <3>4 DEF OneInv
    <2>3. CASE t # s
      <3>1. pending'[t] = pending[t] /\ at'[t] = at[t]
        BY <1>2, <2>3 DEF SelectRule
      <3> QED BY <1>0, <1>w, <1>i, <2>1, <3>1 DEF OneInv
    <2> QED BY <2>2, <2>3
  <1>3. CASE UpsertFinding(s)
    BY <1>0, <1>w, <1>3, <1>i DEF UpsertFinding, OneInv
  <1>4. CASE InsertScores(s)
    <2>1. at[s] # 0
      BY <1>4 DEF InsertScores, LastAt, RuleOrder
    <2>2. CASE t = s
      <3>1. /\ rows'[t][f] = IF pending[s][f] > 0 THEN Append(rows[s][f], pending[s][f])
                                                   ELSE rows[s][f]
            /\ pending'[t][f] = 0
        BY <1>4, <2>2, OneFlag
      <3>2. at'[t] = 0
        BY <1>4, <2>2 DEF InsertScores
      <3>3. stored[f[1]] = "absent" => pending[s][f] = 0
        BY <1>i, <2>2 DEF OneInv
      <3>4. pending[s][f] > 0 => rows[s][f] = <<>>
        BY <1>i, <2>1, <2>2 DEF OneInv
      <3>5. Len(rows'[t][f]) <= 1
        BY <1>i, <1>l, <1>n, <2>2, <3>1, <3>4 DEF OneInv
      <3> QED BY <1>0, <1>i, <2>2, <3>1, <3>2, <3>3, <3>5 DEF OneInv
    <2>3. CASE t # s
      <3>1. rows'[t] = rows[t] /\ pending'[t] = pending[t] /\ at'[t] = at[t]
        BY <1>4, <2>3 DEF InsertScores
      <3> QED BY <1>0, <1>w, <1>i, <3>1 DEF OneInv
    <2> QED BY <2>2, <2>3
  <1>5. CASE FailSweep(s)
    <2>1. rows' = rows
      BY <1>5 DEF FailSweep
    <2>2. CASE t = s
      <3>1. pending'[t][f] = 0
        BY <1>5, <2>2, OneFlag
      <3> QED BY <1>0, <1>w, <1>5, <1>i, <2>1, <2>2, <3>1 DEF FailSweep, OneInv
    <2>3. CASE t # s
      <3>1. pending'[t] = pending[t] /\ at'[t] = at[t]
        BY <1>5, <2>3 DEF FailSweep
      <3> QED BY <1>0, <1>w, <1>i, <2>1, <3>1 DEF OneInv
    <2> QED BY <2>2, <2>3
  <1> QED BY <1>1, <1>2, <1>3, <1>4, <1>5 DEF SweepStep

\* The same for the progress of the rules, which are nine.
LEMMA RulesInOrder == Len(RuleOrder) = 9 /\ LastAt = 10
  BY DEF RuleOrder, LastAt

\* The names of the rules differ.
LEMMA RulesDiffer ==
  \A i, j \in 1..(LastAt - 1) : RuleOrder[i] = RuleOrder[j] => i = j
  BY RulesInOrder DEF RuleOrder

\* What a sweep has found about one flag.
OneProgress(s, f) ==
  f[1] \in base[s] \cap Window(Days[s])
    => pending[s][f] = IF Ran(s, f[2]) THEN Hits(f) ELSE 0

\* A sweep of the rules goes on to its end.
LEMMA SweepKeepsProgress ==
  ASSUME TablesTypeOK, SweepTypeOK, SweepInv, SweepProgress,
         NEW s \in Sweeps, SweepStep(s) \/ FailSweep(s)
  PROVE  SweepProgress'
  <1> USE DEF TablesTypeOK, SweepTypeOK
  <1>0. UNCHANGED <<stored, columns, steps, age>>
    BY SweepFrame
  <1>w. \A d : Window(d)' = Window(d)
    BY <1>0 DEF Window
  <1>v. \A r : Whole(r)' = Whole(r)
    BY <1>0 DEF Whole
  <1>h. \A f : Hits(f)' = Hits(f)
    BY <1>0 DEF Hits
  <1> SUFFICES ASSUME NEW t \in Sweeps
               PROVE  /\ \A r \in base'[t] : Whole(r)'
                      /\ \A f \in Flags : OneProgress(t, f)'
    BY DEF SweepProgress, OneProgress
  <1>i. /\ \A r \in base[t] : Whole(r)
        /\ \A f \in Flags : OneProgress(t, f)
    BY DEF SweepProgress, OneProgress
  <1>1. CASE at'[t] = at[t] /\ base'[t] = base[t] /\ pending'[t] = pending[t]
    <2>1. \A name : Ran(t, name)' = Ran(t, name)
      BY <1>1 DEF Ran
    <2> QED BY <1>w, <1>v, <1>h, <1>i, <1>1, <2>1 DEF OneProgress
  <1>2. CASE t # s
    <2>1. at'[t] = at[t] /\ base'[t] = base[t] /\ pending'[t] = pending[t]
      BY <1>2 DEF SweepStep, FailSweep, StartSweep, SelectRule, UpsertFinding, InsertScores
    <2> QED BY <1>1, <2>1
  <1>3. CASE t = s /\ StartSweep(s)
    <2>1. /\ at'[t] = 1 /\ base'[t] = {r \in Window(Days[t]) : Whole(r)}
          /\ pending' = pending /\ at[t] = 0
      BY <1>3 DEF StartSweep
    <2>2. \A f \in Flags : pending[t][f] = 0
      BY <2>1 DEF SweepInv
    <2>3. \A name : ~Ran(t, name)'
      BY <2>1 DEF Ran
    <2> QED BY <1>v, <2>1, <2>2, <2>3 DEF OneProgress
  <1>4. CASE t = s /\ SelectRule(s)
    <2>1. /\ at[t] \in 1..9 /\ at'[t] = at[t] + 1 /\ base'[t] = base[t]
      BY <1>4, RulesInOrder DEF SelectRule
    <2>2. ASSUME NEW f \in Flags, f[1] \in base[t], f[1] \in Window(Days[t])
          PROVE  pending'[t][f] = IF Ran(t, f[2])' THEN Hits(f) ELSE 0
      <3>1. pending[t][f] = IF Ran(t, f[2]) THEN Hits(f) ELSE 0
        BY <1>i, <2>2 DEF OneProgress
      <3>2. Hits(f) \in Nat
        BY HitsAreNat
      <3>3. Ran(t, f[2])' <=> Ran(t, f[2]) \/ RuleOrder[at[t]] = f[2]
        <4>1. Ran(t, f[2])' <=> \E i \in 1..at[t] : RuleOrder[i] = f[2]
          <5>1. at'[t] - 1 = at[t]
            BY <2>1
          <5> QED BY <5>1 DEF Ran
        <4>2. 1..at[t] = (1..(at[t] - 1)) \cup {at[t]}
          BY <2>1
        <4> QED BY <4>1, <4>2 DEF Ran
      <3>4. RuleOrder[at[t]] = f[2] => ~Ran(t, f[2])
        <4>1. at[t] \in 1..(LastAt - 1) /\ 1..(at[t] - 1) \subseteq 1..(LastAt - 1)
          <5>1. LastAt - 1 = 9
            BY RulesInOrder
          <5> HIDE DEF TablesTypeOK, SweepTypeOK
          <5> QED BY <5>1, <2>1
        <4>2. \A i \in 1..(at[t] - 1) : i # at[t]
          BY <2>1
        <4> QED BY <4>1, <4>2, RulesDiffer DEF Ran
      <3>5. pending'[t][f] = IF RuleOrder[at[t]] = f[2] /\ Hits(f) > 0
                               THEN pending[t][f] + Hits(f) ELSE pending[t][f]
        BY <1>4, <2>2, OneFlag DEF Selected
      <3>6. CASE RuleOrder[at[t]] = f[2]
        BY <3>1, <3>2, <3>3, <3>4, <3>5, <3>6
      <3>7. CASE RuleOrder[at[t]] # f[2]
        BY <3>1, <3>3, <3>5, <3>7
      <3> QED BY <3>6, <3>7
    <2> QED BY <1>w, <1>v, <1>h, <1>i, <2>1, <2>2 DEF OneProgress
  <1>5. CASE t = s /\ (InsertScores(s) \/ FailSweep(s))
    <2>1. base'[t] = {}
      BY <1>5 DEF InsertScores, FailSweep
    <2> QED BY <2>1 DEF OneProgress
  <1>6. CASE t = s /\ UpsertFinding(s)
    BY <1>1, <1>6 DEF UpsertFinding
  <1> QED BY <1>2, <1>3, <1>4, <1>5, <1>6 DEF SweepStep

-----------------------------------------------------------------------------
(* The judge.                                                              *)

\* A batch writes neither the runs nor the rule scores.
LEMMA JudgeFrame ==
  ASSUME NEW j \in Judges, JudgeStep(j) \/ AbortBatch(j)
  PROVE  UNCHANGED <<stored, columns, steps, age, rows>>
  BY DEF JudgeStep, AbortBatch, StartBatch, Ask, Record, Counted, Report, EndBatch,
         runVars, scoreVars, tableVars

\* What is picked is a set of runs that had no verdict.
LEMMA PicksAreUnjudged ==
  ASSUME NEW P \in Picks(Newest(Candidates, Limit * ScanFactor))
  PROVE  P \in SUBSET Runs /\ \A r \in P : ~Judged(r)
  <1>1. Candidates \subseteq Runs /\ \A r \in Candidates : ~Judged(r)
    BY DEF Candidates, Window
  <1>2. P \subseteq Candidates
    BY DEF Picks, Newest
  <1> QED BY <1>1, <1>2

\* One batch does one step with its own variables; a verdict it stores is of the run
\* it takes out of its picked ones.
LEMMA JudgeKeepsTypes ==
  ASSUME TablesTypeOK, JudgeTypeOK, NEW j \in Judges, JudgeStep(j) \/ AbortBatch(j)
  PROVE  TablesTypeOK' /\ JudgeTypeOK'
  <1> USE DEF TablesTypeOK, JudgeTypeOK
  <1>1. judgePc' \in [Judges -> {"idle", "ask", "record", "report"}]
    BY DEF JudgeStep, AbortBatch, StartBatch, Ask, Record, Counted, Report, EndBatch
  <1>2. picked' \in [Judges -> SUBSET Runs]
    <2>1. CASE StartBatch(j)
      <3>1. picked \in [Judges -> SUBSET Runs]
        OBVIOUS
      <3> HIDE DEF TablesTypeOK, JudgeTypeOK
      <3> QED BY <2>1, <3>1, PicksAreUnjudged DEF StartBatch
    <2>2. CASE Record(j)
      BY <2>2 DEF Record
    <2>3. CASE AbortBatch(j)
      BY <2>3 DEF AbortBatch
    <2>4. CASE Ask(j) \/ Counted(j) \/ Report(j) \/ EndBatch(j)
      BY <2>4 DEF Ask, Counted, Report, EndBatch
    <2> QED BY <2>1, <2>2, <2>3, <2>4 DEF JudgeStep
  <1>3. label' \in [Judges -> Labels]
    BY DEF JudgeStep, AbortBatch, StartBatch, Ask, Record, Counted, Report, EndBatch,
           Labels, Marks
  <1>4. NoCounts \in [Kinds \X Marks -> Nat]
    BY DEF NoCounts
  <1>5. bucket' \in [Judges -> [Kinds \X Marks -> Nat]] /\ verdicts' \in [Judges -> [Runs \X Labels -> Nat]]
    <2>1. CASE Record(j)
      <3> PICK r \in Newest(picked[j], 1) :
            /\ verdicts' = [verdicts EXCEPT ![j][<<r, label[j]>>] = @ + 1]
            /\ bucket' = [bucket EXCEPT ![j][<<Facts[r].kind, MarkOf(label[j])>>] = @ + 1]
        BY <2>1 DEF Record
      <3>1. <<r, label[j]>> \in Runs \X Labels
        BY DEF Newest
      <3>2. <<Facts[r].kind, MarkOf(label[j])>> \in Kinds \X Marks
        BY <3>1 DEF Kinds, MarkOf, Marks
      <3>3. bucket[j] \in [Kinds \X Marks -> Nat] /\ verdicts[j] \in [Runs \X Labels -> Nat]
        OBVIOUS
      <3>4. [bucket[j] EXCEPT ![<<Facts[r].kind, MarkOf(label[j])>>] = @ + 1]
              \in [Kinds \X Marks -> Nat]
        BY <3>2, <3>3
      <3>5. [verdicts[j] EXCEPT ![<<r, label[j]>>] = @ + 1] \in [Runs \X Labels -> Nat]
        BY <3>1, <3>3
      <3>6. /\ bucket' = [bucket EXCEPT ![j] =
                           [bucket[j] EXCEPT ![<<Facts[r].kind, MarkOf(label[j])>>] = @ + 1]]
            /\ verdicts' = [verdicts EXCEPT ![j] =
                             [verdicts[j] EXCEPT ![<<r, label[j]>>] = @ + 1]]
        OBVIOUS
      <3> HIDE DEF JudgeTypeOK, TablesTypeOK
      <3>7. bucket \in [Judges -> [Kinds \X Marks -> Nat]] /\ verdicts \in [Judges -> [Runs \X Labels -> Nat]]
        BY DEF JudgeTypeOK, TablesTypeOK
      <3> QED BY <3>4, <3>5, <3>6, <3>7
    <2>2. CASE StartBatch(j) \/ EndBatch(j) \/ AbortBatch(j)
      <3>1. bucket' = [bucket EXCEPT ![j] = NoCounts] /\ verdicts' = verdicts
        BY <2>2 DEF AbortBatch, StartBatch, EndBatch, tableVars
      <3> QED BY <1>4, <3>1
    <2>3. CASE Ask(j) \/ Counted(j) \/ Report(j)
      BY <2>3 DEF Ask, Counted, Report, scoreVars, tableVars
    <2> QED BY <2>1, <2>2, <2>3 DEF JudgeStep
  <1> QED BY <1>1, <1>2, <1>3, <1>5, JudgeFrame

\* A verdict is stored for a run of which this place has none, and takes it out of the
\* picked ones; other places have no part in it.
LEMMA JudgeKeepsInv ==
  ASSUME TablesTypeOK, JudgeTypeOK, JudgeInv, NEW j \in Judges, JudgeStep(j) \/ AbortBatch(j)
  PROVE  JudgeInv'
  <1> USE DEF TablesTypeOK, JudgeTypeOK
  <1>1. CASE Record(j)
    <2> PICK r \in Newest(picked[j], 1) :
          /\ verdicts' = [verdicts EXCEPT ![j][<<r, label[j]>>] = @ + 1]
          /\ picked' = [picked EXCEPT ![j] = @ \ {r}]
      BY <1>1 DEF Record
    <2>1. r \in picked[j] /\ r \in Runs /\ label[j] \in Labels
      BY DEF Newest
    <2>2. \A l \in Labels : verdicts[j][<<r, l>>] = 0
      BY <2>1 DEF JudgeInv
    <2>3. \A i \in Judges, q \in Runs, l \in Labels :
            /\ verdicts[i][<<q, l>>] \in Nat
            /\ verdicts'[i][<<q, l>>] =
                 IF i = j /\ q = r /\ l = label[j] THEN 1 ELSE verdicts[i][<<q, l>>]
      <3> SUFFICES ASSUME NEW i \in Judges, NEW q \in Runs, NEW l \in Labels
                   PROVE  /\ verdicts[i][<<q, l>>] \in Nat
                          /\ verdicts'[i][<<q, l>>] =
                               IF i = j /\ q = r /\ l = label[j] THEN 1 ELSE verdicts[i][<<q, l>>]
        OBVIOUS
      <3>1. <<q, l>> \in Runs \X Labels /\ verdicts[i] \in [Runs \X Labels -> Nat]
        OBVIOUS
      <3>2. verdicts'[i] = IF i = j THEN [verdicts[j] EXCEPT ![<<r, label[j]>>] = @ + 1]
                                    ELSE verdicts[i]
        OBVIOUS
      <3> QED BY <2>1, <2>2, <3>1, <3>2
    <2>4. ASSUME NEW i \in Judges, NEW q \in Runs, NEW l \in Labels
          PROVE  /\ verdicts'[i][<<q, l>>] <= 1
                 /\ \A m \in Labels \ {l} : verdicts'[i][<<q, l>>] + verdicts'[i][<<q, m>>] <= 1
      <3>1. CASE i = j /\ q = r
        <4>1. \A m \in Labels : verdicts'[i][<<q, m>>] = IF m = label[j] THEN 1 ELSE 0
          BY <2>2, <2>3, <3>1
        <4>2. verdicts'[i][<<q, l>>] = IF l = label[j] THEN 1 ELSE 0
          BY <4>1
        <4>3. ASSUME NEW m \in Labels \ {l}
              PROVE  verdicts'[i][<<q, l>>] + verdicts'[i][<<q, m>>] <= 1
          <5>1. verdicts'[i][<<q, m>>] = IF m = label[j] THEN 1 ELSE 0
            BY <4>1
          <5>2. \/ verdicts'[i][<<q, l>>] = 0 /\ verdicts'[i][<<q, m>>] = 0
                \/ verdicts'[i][<<q, l>>] = 1 /\ verdicts'[i][<<q, m>>] = 0
                \/ verdicts'[i][<<q, l>>] = 0 /\ verdicts'[i][<<q, m>>] = 1
            BY <4>2, <5>1
          <5> QED BY <5>2
        <4>4. verdicts'[i][<<q, l>>] <= 1
          BY <4>2
        <4> QED BY <4>3, <4>4
      <3>2. CASE ~(i = j /\ q = r)
        <4>1. \A m \in Labels : verdicts'[i][<<q, m>>] = verdicts[i][<<q, m>>]
          BY <2>3, <3>2
        <4> QED BY <4>1 DEF JudgeInv, JudgedOnce
      <3> QED BY <3>1, <3>2
    <2>5. ASSUME NEW i \in Judges, NEW q \in Runs, NEW l \in Labels, q \in picked'[i]
          PROVE  verdicts'[i][<<q, l>>] = 0
      <3>1. q \in picked[i] /\ ~(i = j /\ q = r)
        BY <2>5
      <3> QED BY <2>3, <3>1 DEF JudgeInv
    <2> QED BY <2>4, <2>5 DEF JudgeInv, JudgedOnce
  <1>2. CASE StartBatch(j)
    <2> PICK P \in Picks(Newest(Candidates, Limit * ScanFactor)) :
          picked' = [picked EXCEPT ![j] = P]
      BY <1>2 DEF StartBatch
    <2>1. verdicts' = verdicts
      BY <1>2 DEF StartBatch, tableVars
    <2>2. \A r \in P, l \in Labels : r \in Runs /\ verdicts[j][<<r, l>>] = 0
      <3> SUFFICES ASSUME NEW r \in P, NEW l \in Labels
                   PROVE  r \in Runs /\ verdicts[j][<<r, l>>] = 0
        OBVIOUS
      <3>1. r \in Runs /\ ~Judged(r)
        BY PicksAreUnjudged
      <3>2. verdicts[j][<<r, l>>] \in Nat /\ ~(verdicts[j][<<r, l>>] > 0)
        BY <3>1 DEF Judged
      <3> QED BY <3>1, <3>2
    <2>3. JudgedOnce'
      BY <2>1 DEF JudgeInv, JudgedOnce
    <2>4. ASSUME NEW i \in Judges, NEW q \in Runs, NEW l \in Labels, q \in picked'[i]
          PROVE  verdicts'[i][<<q, l>>] = 0
      <3>1. CASE i = j
        BY <2>1, <2>2, <2>4, <3>1
      <3>2. CASE i # j
        BY <2>1, <2>4, <3>2 DEF JudgeInv
      <3> QED BY <3>1, <3>2
    <2> QED BY <2>3, <2>4 DEF JudgeInv
  <1>3. CASE AbortBatch(j)
    BY <1>3 DEF AbortBatch, tableVars, JudgeInv, JudgedOnce
  <1>4. CASE Ask(j) \/ Counted(j) \/ Report(j) \/ EndBatch(j)
    <2>1. picked' = picked /\ verdicts' = verdicts
      BY <1>4 DEF Ask, Counted, Report, EndBatch, tableVars, scoreVars
    <2> QED BY <2>1 DEF JudgeInv, JudgedOnce
  <1> QED BY <1>1, <1>2, <1>3, <1>4 DEF JudgeStep

-----------------------------------------------------------------------------
(* The writers, which bring runs in, replace them, and let them grow old.  *)

\* What a sweep on its way can still rely on after a writer's step.
StillReliable(s) ==
  {r \in base[s] : Whole(r)' /\ columns'[r] = columns[r] /\ steps'[r] = steps[r]}

\* The writers of the runs keep the types, and no run gets younger or leaves the table.
LEMMA WritersKeepTypes ==
  ASSUME TablesTypeOK, TablesNext
  PROVE  /\ TablesTypeOK'
         /\ UNCHANGED <<rows, verdicts, findings>>
         /\ \A q \in Runs : age'[q] >= age[q] /\ (stored'[q] = "absent" => stored[q] = "absent")
  <1> USE DEF TablesTypeOK
  <1>1. PICK r \in Runs : StoreStart(r) \/ StoreRow(r) \/ StoreSteps(r) \/ DeleteSteps(r) \/ Age(r)
    BY DEF TablesNext
  <1>2. UNCHANGED <<rows, verdicts, findings>>
    BY <1>1 DEF StoreStart, StoreRow, StoreSteps, DeleteSteps, Age, scoreVars
  <1>m. MaxAge \in Nat /\ \A q \in Runs : age[q] \in 0..MaxAge
    BY FactsAssumption
  <1>3. CASE Age(r)
    <2>1. stored' = stored /\ age' = [age EXCEPT ![r] = @ + 1] /\ age[r] < MaxAge
      BY <1>3 DEF Age
    <2>2. columns' = columns /\ steps' = steps
      BY <1>3 DEF Age
    <2>3. age[r] + 1 \in 0..MaxAge /\ age[r] + 1 >= age[r]
      BY <1>m, <2>1
    <2>4. age' \in [Runs -> 0..MaxAge] /\ \A q \in Runs : age'[q] >= age[q]
      BY <1>m, <2>1, <2>3
    <2> QED BY <1>2, <2>1, <2>2, <2>4
  <1>4. CASE ~Age(r)
    <2>1. age' = age /\ \E x \in {"running", "final", "whole"} : stored' = [stored EXCEPT ![r] = x]
      BY <1>1, <1>4 DEF StoreStart, StoreRow, StoreSteps, DeleteSteps
    <2>2. DOMAIN columns' = Runs /\ \A q \in Runs : columns'[q] \in RowForms[q] \cup {NullRow}
      <3>1. columns' = columns \/ \E c \in RowForms[r] : columns' = [columns EXCEPT ![r] = c]
        BY <1>1, <1>4 DEF StoreStart, StoreRow, StoreSteps, DeleteSteps
      <3> QED BY <3>1
    <2>3. DOMAIN steps' = Runs /\ \A q \in Runs : steps'[q] \in StepForms[q] \cup {NoSteps}
      <3>1. steps' = steps \/ \E x \in StepForms[r] \cup {NoSteps} : steps' = [steps EXCEPT ![r] = x]
        BY <1>1, <1>4 DEF StoreStart, StoreRow, StoreSteps, DeleteSteps
      <3> QED BY <3>1
    <2>4. \A q \in Runs : age'[q] >= age[q]
      BY <1>m, <2>1
    <2> QED BY <1>2, <2>1, <2>2, <2>3, <2>4
  <1> QED BY <1>3, <1>4

\* The writers keep the invariant of the graders: a run they replace is no longer one a
\* sweep relies on.
LEMMA WritersKeepInv ==
  ASSUME TypeOK, SweepInv, SweepProgress, TablesNext, UNCHANGED <<at, todo, pending>>,
         base' = [s \in Sweeps |-> StillReliable(s)]
  PROVE  TablesTypeOK' /\ SweepTypeOK' /\ SweepInv' /\ SweepProgress'
  <1> USE DEF TypeOK
  <1>1. /\ TablesTypeOK'
        /\ UNCHANGED rows
        /\ \A q \in Runs : age'[q] >= age[q] /\ (stored'[q] = "absent" => stored[q] = "absent")
    BY WritersKeepTypes
  <1>2. SweepTypeOK'
    BY DEF SweepTypeOK, StillReliable
  <1>3. \A s \in Sweeps, q \in Runs :
          q \in Window(Days[s])' => stored[q] = "absent" \/ q \in Window(Days[s])
    <2>1. \A q \in Runs : age[q] \in Nat /\ age'[q] \in Nat
      BY <1>1, FactsAssumption DEF TablesTypeOK
    <2> QED BY <1>1, <2>1, WindowsAssumption DEF Window
  <1>4. \A f \in Flags : f[1] \in Runs
    BY DEF Flags
  <1>5. SweepInv'
    <2> SUFFICES ASSUME NEW s \in Sweeps, NEW f \in Flags PROVE OneInv(s, f)'
      BY DEF SweepInv, OneInv
    <2>1. OneInv(s, f)
      BY DEF SweepInv, OneInv
    <2> QED BY <1>1, <1>3, <1>4, <2>1 DEF OneInv
  <1>6. SweepProgress'
    <2> SUFFICES ASSUME NEW s \in Sweeps
                 PROVE  /\ \A r \in base'[s] : Whole(r)'
                        /\ \A f \in Flags : OneProgress(s, f)'
      BY DEF SweepProgress, OneProgress
    <2>1. base'[s] = StillReliable(s)
      OBVIOUS
    <2>2. ASSUME NEW f \in Flags, f[1] \in base'[s], f[1] \in Window(Days[s])'
          PROVE  pending'[s][f] = IF Ran(s, f[2])' THEN Hits(f)' ELSE 0
      <3>1. f[1] \in base[s] /\ columns'[f[1]] = columns[f[1]] /\ steps'[f[1]] = steps[f[1]]
        BY <2>1, <2>2 DEF StillReliable
      <3>2. stored[f[1]] # "absent"
        BY <3>1 DEF SweepProgress, Whole
      <3>3. f[1] \in Window(Days[s])
        BY <1>3, <1>4, <2>2, <3>2
      <3>4. Hits(f)' = Hits(f)
        BY <3>1 DEF Hits
      <3>5. Ran(s, f[2])' = Ran(s, f[2])
        BY DEF Ran
      <3> QED BY <3>1, <3>3, <3>4, <3>5 DEF SweepProgress
    <2>3. \A r \in base'[s] : Whole(r)'
      BY <2>1 DEF StillReliable
    <2> QED BY <2>2, <2>3 DEF OneProgress
  <1> QED BY <1>1, <1>2, <1>5, <1>6

\* A grader's invariant is about its own variables and the tables: the other grader
\* leaves both alone.
LEMMA OthersKeepSweeps ==
  ASSUME SweepTypeOK, SweepInv, SweepProgress, UNCHANGED <<stored, columns, steps, age, rows>>,
         UNCHANGED sweepVars
  PROVE  SweepTypeOK' /\ SweepInv' /\ SweepProgress'
  <1>1. \A d : Window(d)' = Window(d)
    BY DEF Window
  <1>2. (\A f : Hits(f)' = Hits(f)) /\ (\A s, name : Ran(s, name)' = Ran(s, name))
    BY DEF Hits, Ran, sweepVars
  <1> QED BY <1>1, <1>2 DEF sweepVars, SweepTypeOK, SweepInv, SweepProgress, Whole

\* The judge stays as it is while the others work.
LEMMA OthersKeepJudge ==
  ASSUME JudgeTypeOK, JudgeInv, UNCHANGED verdicts, UNCHANGED judgeVars
  PROVE  JudgeTypeOK' /\ JudgeInv'
  BY DEF judgeVars, JudgeTypeOK, JudgeInv, JudgedOnce

\* Every step keeps the invariant of the graders.
LEMMA GradingStep == GradersInv /\ [Next]_vars => GradersInv'
  <1> SUFFICES ASSUME GradersInv, [Next]_vars PROVE GradersInv'
    OBVIOUS
  <1> USE DEF GradersInv, TypeOK
  <1>1. CASE UNCHANGED vars
    <2>1. UNCHANGED <<stored, columns, steps, age, rows, verdicts, failures>> /\ UNCHANGED sweepVars /\ UNCHANGED judgeVars
      BY <1>1 DEF vars, tableVars
    <2> QED BY <2>1, OthersKeepSweeps, OthersKeepJudge DEF TablesTypeOK
  <1>2. CASE Write
    <2>1. TablesNext /\ UNCHANGED <<at, todo, pending>> /\ UNCHANGED judgeVars /\ failures' = failures
      BY <1>2 DEF Write
    <2>2. base' = [s \in Sweeps |-> StillReliable(s)]
      BY <1>2 DEF Write, StillReliable
    <2>3. UNCHANGED verdicts
      BY <2>1, WritersKeepTypes
    <2> QED BY <2>1, <2>2, <2>3, WritersKeepInv, OthersKeepJudge
  <1>3. ASSUME NEW s \in Sweeps, SweepStep(s) \/ FailSweep(s), UNCHANGED judgeVars,
               failures' \in Nat
        PROVE  GradersInv'
    BY <1>3, SweepFrame, SweepKeepsTypes, SweepKeepsInv, SweepKeepsProgress, OthersKeepJudge
  <1>4. ASSUME NEW j \in Judges, JudgeStep(j) \/ AbortBatch(j), UNCHANGED sweepVars,
               failures' \in Nat
        PROVE  GradersInv'
    BY <1>4, JudgeFrame, JudgeKeepsTypes, JudgeKeepsInv, OthersKeepSweeps
  <1>5. failures + 1 \in Nat
    OBVIOUS
  <1> QED BY <1>1, <1>2, <1>3, <1>4, <1>5 DEF Next, Sweep, Batch, Fail

-----------------------------------------------------------------------------
\* The tables and the graders fit together in every state.
THEOREM GradersFit == Spec => []GradersInv
  BY GradingInit, GradingStep, PTL DEF Spec

\* "re-runs replace rule scores" (rules.py, line 60): whatever sweeps overlap or fail,
\* none adds to the rows it inserted before.
THEOREM ScoresAreReplaced == Spec => []RescoredNotAdded
  <1>1. GradersInv => RescoredNotAdded
    BY DEF GradersInv, SweepInv, RescoredNotAdded
  <1> QED BY GradersFit, <1>1, PTL

\* "skipping runs already judged" (judge.py, line 220): one place never judges a run
\* twice, over any number of batches, finished or aborted.
THEOREM JudgedAtMostOnce == Spec => []JudgedOnce
  <1>1. GradersInv => JudgedOnce
    BY DEF GradersInv, JudgeInv
  <1> QED BY GradersFit, <1>1, PTL

-----------------------------------------------------------------------------
(* What single steps do.                                                   *)

\* Every score name is that of a rule, so that at LastAt all of them have run.
LEMMA EveryFlagHasItsRule ==
  \A f \in Flags : \E i \in 1..(LastAt - 1) : RuleOrder[i] = f[2]
  <1> SUFFICES ASSUME NEW f \in Flags
               PROVE  \E i \in 1..(LastAt - 1) : RuleOrder[i] = f[2]
    OBVIOUS
  <1>1. f[2] \in {"abnormal_stop", "budget_proximity", "semantic_loop", "cache_cold"}
    BY DEF Flags, ScoreNames
  <1>2. /\ RuleOrder[1] = "abnormal_stop" /\ RuleOrder[3] = "budget_proximity"
        /\ RuleOrder[4] = "semantic_loop" /\ RuleOrder[6] = "cache_cold"
    BY DEF RuleOrder
  <1>3. LastAt = 10
    BY RulesInOrder
  <1>4. CASE f[2] = "abnormal_stop"
    BY <1>2, <1>3, <1>4
  <1>5. CASE f[2] = "budget_proximity"
    BY <1>2, <1>3, <1>5
  <1>6. CASE f[2] = "semantic_loop"
    BY <1>2, <1>3, <1>6
  <1>7. CASE f[2] = "cache_cold"
    BY <1>2, <1>3, <1>7
  <1> QED BY <1>1, <1>4, <1>5, <1>6, <1>7

\* The final INSERT of a sweep brings each flag it answers for to its rows: it had none
\* of its own left, and all of them in score_rows.
LEMMA InsertCompletes ==
  ASSUME GradersInv, NEW s \in Sweeps, InsertScores(s),
         NEW f \in Flags, f[1] \in base[s], f[1] \in Window(Days[s])
  PROVE  rows'[s][f] = IF Hits(f) > 0 THEN <<Hits(f)>> ELSE <<>>
  <1> USE DEF GradersInv, TypeOK
  <1>1. at[s] = LastAt /\ LastAt = 10
    BY RulesInOrder DEF InsertScores
  <1>2. rows[s][f] = <<>>
    BY <1>1 DEF SweepInv
  <1>3. Ran(s, f[2])
    BY <1>1, EveryFlagHasItsRule DEF Ran
  <1>4. pending[s][f] = Hits(f)
    BY <1>3 DEF SweepProgress
  <1>5. rows'[s][f] = IF pending[s][f] > 0 THEN Append(rows[s][f], pending[s][f]) ELSE rows[s][f]
    BY OneFlag
  <1>6. Append(<<>>, Hits(f)) = <<Hits(f)>>
    OBVIOUS
  <1> QED BY <1>2, <1>4, <1>5, <1>6

\* A sweep that comes to its end has scored, to the row, all it can rely on, for all
\* overlaps with other sweeps, the writers and the passing of time.
THEOREM SweepsComeToTheirEnd == Spec => SweepIsComplete
  <1>1. GradersInv /\ [Next]_vars =>
          [\A s \in Sweeps : InsertScores(s) =>
             \A f \in Flags : f[1] \in base[s] /\ f[1] \in Window(Days[s])
               => rows'[s][f] = IF Hits(f) > 0 THEN <<Hits(f)>> ELSE <<>>]_<<at, rows, pending>>
    BY InsertCompletes
  <1> QED BY GradersFit, <1>1, PTL DEF Spec, SweepIsComplete

\* No step takes a verdict away: a DELETE takes rule scores only, and a batch only adds.
LEMMA VerdictsOnlyAdded ==
  ASSUME GradersInv, [Next]_vars, NEW i \in Judges, NEW v \in Runs \X Labels
  PROVE  verdicts'[i][v] >= verdicts[i][v]
  <1>1. verdicts \in [Judges -> [Runs \X Labels -> Nat]]
    BY DEF GradersInv, TypeOK, TablesTypeOK
  <1>2. verdicts[i][v] \in Nat
    BY <1>1
  <1>3. CASE verdicts' = verdicts
    BY <1>2, <1>3
  <1>4. ASSUME NEW j \in Judges, NEW w, verdicts' = [verdicts EXCEPT ![j][w] = @ + 1]
        PROVE  verdicts'[i][v] >= verdicts[i][v]
    <2>1. CASE i = j /\ v = w
      BY <1>1, <1>2, <1>4, <2>1
    <2>2. CASE ~(i = j /\ v = w)
      BY <1>1, <1>2, <1>4, <2>2
    <2> QED BY <2>1, <2>2
  <1>5. CASE Write \/ UNCHANGED vars
    <2>1. verdicts' = verdicts
      BY <1>5, WritersKeepTypes DEF Write, vars, tableVars, GradersInv, TypeOK
    <2> QED BY <1>3, <2>1
  <1>6. ASSUME NEW s \in Sweeps, SweepStep(s) \/ FailSweep(s)
        PROVE  verdicts'[i][v] >= verdicts[i][v]
    BY <1>3, <1>6, SweepFrame
  <1>7. ASSUME NEW j \in Judges, JudgeStep(j) \/ AbortBatch(j)
        PROVE  verdicts'[i][v] >= verdicts[i][v]
    <2>1. CASE Record(j)
      BY <1>4, <2>1 DEF Record
    <2>2. CASE ~Record(j)
      <3>1. verdicts' = verdicts
        BY <1>7, <2>2 DEF JudgeStep, AbortBatch, StartBatch, Ask, Counted, Report,
                          EndBatch, scoreVars, tableVars
      <3> QED BY <1>3, <3>1
    <2> QED BY <2>1, <2>2
  <1> QED BY <1>5, <1>6, <1>7 DEF Next, Sweep, Batch, Fail

\* A DELETE takes rule scores only, and a batch only adds: "source = 'rule'"
\* (rules.py, line 66) is what keeps the verdicts.
THEOREM VerdictsAreKept == Spec => VerdictsStay
  <1>1. GradersInv /\ [Next]_vars =>
          [\A j \in Judges, v \in Runs \X Labels : verdicts'[j][v] >= verdicts[j][v]]_vars
    BY VerdictsOnlyAdded
  <1> QED BY GradersFit, <1>1, PTL DEF Spec, VerdictsStay

-----------------------------------------------------------------------------
(* The quality findings.                                                   *)

\* A group has the fingerprint of one of its rows.
LEMMA GroupsHaveMembers ==
  ASSUME NEW key, NEW g \in Groups(key)
  PROVE  \E r \in DOMAIN key : g[1] = key[r]
  <1>1. \E f \in {key[r] : r \in DOMAIN key} : \E n : g = <<f, n>>
    BY DEF Groups
  <1> QED BY <1>1

\* HAVING leaves groups out and makes none.
LEMMA HavingSelects == \A G, n : Having(G, n) \subseteq G
  BY DEF Having

\* A finding about tools names the rule, the kind and the tool.
LEMMA StepFindingsAreNamed ==
  ASSUME NEW name, NEW found, NEW W, NEW least, NEW g \in StepFindings(name, found, W, least)
  PROVE  \E kind, t, n : g = <<<<name, kind, t>>, n>>
  <1> DEFINE Rows == {<<<<name, kind, t>>, StepCount(found, W, kind, t)>> :
                        kind \in {Facts[r].kind : r \in W}, t \in Tools}
  <1>1. StepFindings(name, found, W, least) = Having(Rows, least)
    BY DEF StepFindings
  <1>2. \A x \in Rows : \E kind, t, n : x = <<<<name, kind, t>>, n>>
    OBVIOUS
  <1> HIDE DEF Rows
  <1> QED BY <1>1, <1>2, HavingSelects

\* No rule of the packs finds what has the judge's fingerprint.
LEMMA RulesLeaveQuality ==
  ASSUME NEW W, NEW i \in 1..Len(RuleOrder), NEW g \in Found(RuleOrder[i], W)
  PROVE  g[1][1] # "judge_quality"
  <1>1. Len(RuleOrder) = 9
    BY DEF RuleOrder
  <1>2. RuleOrder[i] \in {"abnormal_stop", "failed", "budget_proximity", "semantic_loop",
                          "oversized", "cache_cold", "tool_errors", "routing", "repair"}
    BY <1>1 DEF RuleOrder
  <1>3. CASE RuleOrder[i] = "abnormal_stop"
    <2>1. g \in AbnormalStops(W)
      BY <1>3 DEF Found
    <2>2. \E r : g[1] = <<"failure_cluster", Facts[r].kind, columns[r].subtype>>
      BY <2>1, GroupsHaveMembers DEF AbnormalStops
    <2> QED BY <2>2
  <1>4. CASE RuleOrder[i] = "failed"
    <2>1. g \in FailedClusters(W)
      BY <1>4 DEF Found
    <2>2. \E r : g[1] = <<"failure_cluster", Facts[r].kind, "status", columns[r].status>>
      BY <2>1, GroupsHaveMembers DEF FailedClusters, Having
    <2> QED BY <2>2
  <1>5. CASE RuleOrder[i] = "budget_proximity"
    BY <1>5 DEF Found
  <1>6. CASE RuleOrder[i] = "semantic_loop"
    <2>1. g \in LoopFindings(W)
      BY <1>6 DEF Found
    <2>2. \E kind, n : g = <<<<"loop", kind>>, n>>
      BY <2>1 DEF LoopFindings
    <2> QED BY <2>2
  <1>7. CASE RuleOrder[i] = "oversized"
    <2>1. g \in StepFindings("oversized", [r \in Runs |-> steps[r].oversized], W, 1)
      BY <1>7 DEF Found
    <2>2. \E kind, t, n : g = <<<<"oversized", kind, t>>, n>>
      BY <2>1, StepFindingsAreNamed
    <2> QED BY <2>2
  <1>8. CASE RuleOrder[i] = "cache_cold"
    <2>1. g \in ColdRuns(W)
      BY <1>8 DEF Found
    <2>2. \E r : g[1] = <<"cache_miss", Facts[r].kind>>
      BY <2>1, GroupsHaveMembers DEF ColdRuns
    <2> QED BY <2>2
  <1>9. CASE RuleOrder[i] = "tool_errors"
    <2>1. g \in StepFindings("tool_errors", [r \in Runs |-> steps[r].errs], W, MinCount)
      BY <1>9 DEF Found
    <2>2. \E kind, t, n : g = <<<<"tool_errors", kind, t>>, n>>
      BY <2>1, StepFindingsAreNamed
    <2> QED BY <2>2
  <1>10. CASE RuleOrder[i] = "routing"
    <2>1. g \in RoutingFindings(W)
      BY <1>10 DEF Found
    <2>2. g[1][1] = "model_routing"
      BY <2>1 DEF RoutingFindings
    <2> QED BY <2>2
  <1>11. CASE RuleOrder[i] = "repair"
    <2>1. g \in RepairFindings(W)
      BY <1>11 DEF Found
    <2>2. g[1][1] = "repair_rate"
      BY <2>1 DEF RepairFindings
    <2> QED BY <2>2
  <1> QED BY <1>2, <1>3, <1>4, <1>5, <1>6, <1>7, <1>8, <1>9, <1>10, <1>11

\* The occurrences of a finding after an upsert.
LEMMA UpsertedOccurrences ==
  ASSUME NEW f, NEW n, NEW h, findings' = Upserted(f, n)
  PROVE  Occurrences(h)' = IF h = f THEN n ELSE Occurrences(h)
  BY DEF Upserted, Occurrences

\* The incorrect calls of a kind are finitely many.
LEMMA IncorrectAreFinite ==
  \A j \in Judges, k \in Kinds :
    /\ FoundIncorrect(j, k) \subseteq Runs
    /\ IsFiniteSet(FoundIncorrect(j, k))
    /\ Cardinality(FoundIncorrect(j, k)) \in Nat
  BY FactsAssumption, FS_Subset, FS_CardinalityType DEF FoundIncorrect

\* Verdicts are only added, so that no call ceases to be found incorrect.
LEMMA IncorrectCallsStay ==
  ASSUME GradersInv, [Next]_vars
  PROVE  \A j \in Judges, k \in Kinds : FoundIncorrect(j, k) \subseteq FoundIncorrect(j, k)'
  <1> SUFFICES ASSUME NEW j \in Judges, NEW k \in Kinds, NEW r \in FoundIncorrect(j, k)
               PROVE  r \in FoundIncorrect(j, k)'
    OBVIOUS
  <1>1. r \in Runs /\ Facts[r].kind = k /\ verdicts[j][<<r, "incorrect">>] > 0
    BY DEF FoundIncorrect
  <1>2. <<r, "incorrect">> \in Runs \X Labels
    BY <1>1 DEF Labels, Marks
  <1>3. /\ verdicts[j][<<r, "incorrect">>] \in Nat
        /\ verdicts'[j][<<r, "incorrect">>] \in Nat
    <2>1. GradersInv'
      BY GradingStep
    <2> QED BY <2>1, <1>2 DEF GradersInv, TypeOK, TablesTypeOK
  <1>4. verdicts'[j][<<r, "incorrect">>] >= verdicts[j][<<r, "incorrect">>]
    BY <1>2, VerdictsOnlyAdded
  <1>5. verdicts'[j][<<r, "incorrect">>] > 0
    BY <1>1, <1>3, <1>4
  <1> QED BY <1>1, <1>5 DEF FoundIncorrect

\* The counts of a batch stay backed: a count goes with a verdict on a call that had
\* none of this place.
LEMMA CountsStayBacked ==
  ASSUME GradersInv, CountsAreBacked, [Next]_vars
  PROVE  CountsAreBacked'
  <1> SUFFICES ASSUME NEW i \in Judges, NEW k \in Kinds
               PROVE  bucket'[i][<<k, "incorrect">>] <= Cardinality(FoundIncorrect(i, k)')
    BY DEF CountsAreBacked
  <1> DEFINE b == <<k, "incorrect">>
  <1>t. b \in Kinds \X Marks
    BY DEF Marks
  <1>c. /\ bucket \in [Judges -> [Kinds \X Marks -> Nat]]
        /\ verdicts \in [Judges -> [Runs \X Labels -> Nat]]
        /\ picked \in [Judges -> SUBSET Runs]
        /\ label \in [Judges -> Labels]
    BY DEF GradersInv, TypeOK, JudgeTypeOK, TablesTypeOK
  <1>n. bucket[i][b] \in Nat
    BY <1>c, <1>t
  <1>f. /\ IsFiniteSet(FoundIncorrect(i, k)) /\ IsFiniteSet(FoundIncorrect(i, k)')
        /\ Cardinality(FoundIncorrect(i, k)) \in Nat /\ Cardinality(FoundIncorrect(i, k)') \in Nat
        /\ Cardinality(FoundIncorrect(i, k)) <= Cardinality(FoundIncorrect(i, k)')
    <2>1. FoundIncorrect(i, k)' \subseteq Runs
      BY DEF FoundIncorrect
    <2>2. IsFiniteSet(FoundIncorrect(i, k)') /\ Cardinality(FoundIncorrect(i, k)') \in Nat
      BY <2>1, FactsAssumption, FS_Subset, FS_CardinalityType
    <2> QED BY <2>2, IncorrectAreFinite, IncorrectCallsStay, FS_Subset
  <1>o. bucket[i][b] <= Cardinality(FoundIncorrect(i, k))
    BY DEF CountsAreBacked
  <1>same. ASSUME bucket'[i][b] = bucket[i][b]
           PROVE  bucket'[i][b] <= Cardinality(FoundIncorrect(i, k)')
    BY <1>same, <1>n, <1>f, <1>o
  <1>zero. ASSUME bucket'[i][b] = 0
           PROVE  bucket'[i][b] <= Cardinality(FoundIncorrect(i, k)')
    BY <1>zero, <1>f
  <1>1. CASE Write \/ UNCHANGED vars \/ \E s \in Sweeps : Sweep(s)
    <2>1. bucket' = bucket
      BY <1>1 DEF Write, vars, Sweep, judgeVars
    <2> QED BY <2>1, <1>same
  <1>2. ASSUME NEW j \in Judges, JudgeStep(j) \/ AbortBatch(j)
        PROVE  bucket'[i][b] <= Cardinality(FoundIncorrect(i, k)')
    <2>1. CASE StartBatch(j) \/ EndBatch(j) \/ AbortBatch(j)
      <3>1. bucket' = [bucket EXCEPT ![j] = NoCounts]
        BY <2>1 DEF StartBatch, EndBatch, AbortBatch
      <3>2. CASE i = j
        <4>1. bucket'[i] = NoCounts
          BY <3>1, <3>2, <1>c
        <4> QED BY <4>1, <1>t, <1>zero DEF NoCounts
      <3>3. CASE i # j
        BY <3>1, <3>3, <1>c, <1>same
      <3> QED BY <3>2, <3>3
    <2>2. CASE Ask(j) \/ Counted(j) \/ Report(j)
      <3>1. bucket' = bucket
        BY <2>2 DEF Ask, Counted, Report
      <3> QED BY <3>1, <1>same
    <2>3. CASE Record(j)
      <3> PICK r \in Newest(picked[j], 1) :
            /\ verdicts' = [verdicts EXCEPT ![j][<<r, label[j]>>] = @ + 1]
            /\ bucket' = [bucket EXCEPT ![j][<<Facts[r].kind, MarkOf(label[j])>>] = @ + 1]
        BY <2>3 DEF Record
      <3>1. r \in picked[j] /\ r \in Runs /\ label[j] \in Labels
        BY <1>c DEF Newest
      <3>2. CASE i = j /\ k = Facts[r].kind /\ label[j] = "incorrect"
        <4>1. r \notin FoundIncorrect(j, k)
          <5>1. verdicts[j][<<r, "incorrect">>] = 0
            BY <3>1, <3>2 DEF GradersInv, JudgeInv
          <5> QED BY <5>1 DEF FoundIncorrect
        <4>2. r \in FoundIncorrect(j, k)'
          <5>1. <<r, "incorrect">> \in Runs \X Labels
            BY <3>1 DEF Labels, Marks
          <5>2. verdicts'[j][<<r, "incorrect">>] = verdicts[j][<<r, "incorrect">>] + 1
            BY <5>1, <3>2, <1>c
          <5>3. verdicts[j][<<r, "incorrect">>] \in Nat
            BY <5>1, <1>c
          <5>4. verdicts'[j][<<r, "incorrect">>] > 0
            BY <5>2, <5>3
          <5> QED BY <5>4, <3>1, <3>2 DEF FoundIncorrect
        <4>3. Cardinality(FoundIncorrect(j, k) \cup {r}) = Cardinality(FoundIncorrect(j, k)) + 1
          BY <4>1, <1>f, <3>2, FS_AddElement
        <4>4. Cardinality(FoundIncorrect(j, k) \cup {r}) <= Cardinality(FoundIncorrect(j, k)')
          <5>1. FoundIncorrect(j, k) \cup {r} \subseteq FoundIncorrect(j, k)'
            BY <4>2, IncorrectCallsStay
          <5> QED BY <5>1, <1>f, <3>2, FS_Subset
        <4>5. bucket'[i][b] = bucket[i][b] + 1
          <5>1. MarkOf(label[j]) = "incorrect"
            BY <3>2 DEF MarkOf, Marks
          <5> QED BY <5>1, <3>2, <1>c, <1>t
        <4> QED BY <4>3, <4>4, <4>5, <1>n, <1>f, <1>o, <3>2
      <3>3. CASE ~(i = j /\ k = Facts[r].kind /\ label[j] = "incorrect")
        <4>1. label[j] # "incorrect" => MarkOf(label[j]) # "incorrect"
          BY DEF MarkOf, Marks
        <4>2. i = j => b # <<Facts[r].kind, MarkOf(label[j])>>
          BY <4>1, <3>3
        <4>3. bucket'[i][b] = bucket[i][b]
          BY <4>2, <1>c, <1>t
        <4> QED BY <4>3, <1>same
      <3> QED BY <3>2, <3>3
    <2> QED BY <1>2, <2>1, <2>2, <2>3 DEF JudgeStep
  <1>3. CASE Fail
    <2>1. CASE \E j \in Judges : AbortBatch(j)
      BY <2>1, <1>2
    <2>2. CASE UNCHANGED judgeVars
      BY <2>2, <1>same DEF judgeVars
    <2> QED BY <1>3, <2>1, <2>2 DEF Fail
  <1>4. CASE \E j \in Judges : Batch(j)
    BY <1>4, <1>2 DEF Batch
  <1> QED BY <1>1, <1>3, <1>4 DEF Next

\* There is no quality finding at first.
LEMMA QualityInit == Init => QualityInv
  <1> SUFFICES ASSUME Init PROVE QualityInv
    OBVIOUS
  <1>1. \A k : Occurrences(<<"judge_quality", k>>) = 0
    BY DEF Init, TablesInit, Occurrences
  <1>2. CountsAreBacked
    <2> SUFFICES ASSUME NEW j \in Judges, NEW k \in Kinds
                 PROVE  bucket[j][<<k, "incorrect">>] <= Cardinality(FoundIncorrect(j, k))
      BY DEF CountsAreBacked
    <2>1. bucket[j][<<k, "incorrect">>] = 0
      BY DEF Init, JudgeInit, NoCounts, Marks
    <2> QED BY <2>1, IncorrectAreFinite
  <1>3. QualityIsBacked
    <2> SUFFICES ASSUME NEW k \in Kinds
                 PROVE  Occurrences(<<"judge_quality", k>>)
                          <= Cardinality(UNION {FoundIncorrect(j, k) : j \in Judges})
      BY DEF QualityIsBacked
    <2>1. Cardinality(UNION {FoundIncorrect(j, k) : j \in Judges}) \in Nat
      <3>1. UNION {FoundIncorrect(j, k) : j \in Judges} \subseteq Runs
        BY IncorrectAreFinite
      <3> QED BY <3>1, FactsAssumption, FS_Subset, FS_CardinalityType
    <2> QED BY <2>1, <1>1
  <1>4. todo = [s \in Sweeps |-> {}]
    BY DEF Init, SweepInit
  <1> QED BY <1>1, <1>2, <1>3, <1>4 DEF QualityInv

\* A finding keeps its backing while verdicts are added, and gets that of the batch
\* that upserts it.
LEMMA QualityStep ==
  ASSUME GradersInv, QualityInv, [Next]_vars
  PROVE  QualityInv'
  <1>1. CountsAreBacked'
    BY CountsStayBacked DEF QualityInv
  <1>2. ASSUME NEW s \in Sweeps, NEW g \in todo'[s]
        PROVE  g[1][1] # "judge_quality"
    <2>1. CASE g \in todo[s]
      BY <2>1 DEF QualityInv
    <2>2. CASE g \notin todo[s]
      <3>1. SelectRule(s)
        <4>1. ASSUME NEW t \in Sweeps, SweepStep(t) \/ FailSweep(t)
              PROVE  SelectRule(s)
          <5>1. CASE StartSweep(t) \/ InsertScores(t)
            <6>1. todo' = todo
              BY <5>1 DEF StartSweep, InsertScores
            <6> QED BY <6>1, <2>2
          <5>2. CASE UpsertFinding(t)
            <6> PICK h : todo' = [todo EXCEPT ![t] = @ \ {h}]
              BY <5>2 DEF UpsertFinding
            <6> QED BY <2>2 DEF QualityInv
          <5>3. CASE FailSweep(t)
            <6>1. todo' = [todo EXCEPT ![t] = {}]
              BY <5>3 DEF FailSweep
            <6> QED BY <6>1, <2>2 DEF QualityInv
          <5>4. CASE SelectRule(t)
            <6> PICK S : todo' = [todo EXCEPT ![t] = S]
              BY <5>4 DEF SelectRule
            <6>1. s = t
              BY <2>2 DEF QualityInv
            <6> QED BY <6>1, <5>4
          <5> QED BY <4>1, <5>1, <5>2, <5>3, <5>4 DEF SweepStep
        <4>2. CASE UNCHANGED todo
          BY <4>2, <2>2
        <4> QED BY <4>1, <4>2 DEF Next, Write, Sweep, Batch, Fail, vars, sweepVars
      <3>2. g \in Found(RuleOrder[at[s]], Window(Days[s]))
        BY <3>1 DEF SelectRule, QualityInv
      <3>3. at[s] \in 1..Len(RuleOrder)
        BY <3>1 DEF SelectRule
      <3> QED BY <3>2, <3>3, RulesLeaveQuality
    <2> QED BY <2>1, <2>2
  <1>d. (DOMAIN todo)' = Sweeps
    <2>1. \A t \in Sweeps : SweepStep(t) \/ FailSweep(t) => DOMAIN todo' = DOMAIN todo
      BY DEF SweepStep, FailSweep, StartSweep, SelectRule, UpsertFinding, InsertScores
    <2>2. UNCHANGED todo => DOMAIN todo' = DOMAIN todo
      OBVIOUS
    <2> QED BY <2>1, <2>2 DEF QualityInv, Next, Write, Sweep, Batch, Fail, vars, sweepVars
  <1>3. ASSUME NEW k \in Kinds
        PROVE  /\ Occurrences(<<"judge_quality", k>>)' \in Nat
               /\ Occurrences(<<"judge_quality", k>>)'
                    <= Cardinality(UNION {FoundIncorrect(j, k)' : j \in Judges})
    <2> DEFINE q == <<"judge_quality", k>>
               Backing == UNION {FoundIncorrect(j, k) : j \in Judges}
               BackingNext == UNION {FoundIncorrect(j, k)' : j \in Judges}
    <2>1. /\ IsFiniteSet(BackingNext) /\ Cardinality(BackingNext) \in Nat
          /\ IsFiniteSet(Backing) /\ Cardinality(Backing) \in Nat
          /\ Cardinality(Backing) <= Cardinality(BackingNext)
      <3>1. BackingNext \subseteq Runs
        BY DEF FoundIncorrect
      <3>2. Backing \subseteq BackingNext
        BY IncorrectCallsStay
      <3> QED BY <3>1, <3>2, FactsAssumption, FS_Subset, FS_CardinalityType
    <2>2. Occurrences(q) \in Nat /\ Occurrences(q) <= Cardinality(Backing)
      BY DEF QualityInv, QualityIsBacked
    <2> HIDE DEF Backing, BackingNext, q
    <2>same. ASSUME Occurrences(q)' = Occurrences(q)
             PROVE  Occurrences(q)' \in Nat /\ Occurrences(q)' <= Cardinality(BackingNext)
      BY <2>same, <2>1, <2>2
    <2>3. ASSUME findings' = findings
          PROVE  Occurrences(q)' \in Nat /\ Occurrences(q)' <= Cardinality(BackingNext)
      BY <2>3, <2>same DEF Occurrences
    <2>4. ASSUME NEW s \in Sweeps, SweepStep(s) \/ FailSweep(s)
          PROVE  Occurrences(q)' \in Nat /\ Occurrences(q)' <= Cardinality(BackingNext)
      <3>1. CASE UpsertFinding(s)
        <4> PICK g \in todo[s] : findings' = Upserted(g[1], g[2])
          BY <3>1 DEF UpsertFinding
        <4>1. g[1] # q
          <5>1. g[1][1] # "judge_quality"
            BY DEF QualityInv
          <5>2. q[1] = "judge_quality"
            BY DEF q
          <5> QED BY <5>1, <5>2
        <4> QED BY <4>1, UpsertedOccurrences, <2>same
      <3>2. CASE ~UpsertFinding(s)
        <4>1. findings' = findings
          BY <3>2, <2>4 DEF SweepStep, FailSweep, StartSweep, SelectRule, InsertScores, tableVars
        <4> QED BY <4>1, <2>3
      <3> QED BY <3>1, <3>2
    <2>5. ASSUME NEW j \in Judges, JudgeStep(j) \/ AbortBatch(j)
          PROVE  Occurrences(q)' \in Nat /\ Occurrences(q)' <= Cardinality(BackingNext)
      <3>1. CASE Report(j)
        <4> PICK l \in reports[j] :
              findings' = Upserted(<<"judge_quality", l>>, bucket[j][<<l, "incorrect">>])
          BY <3>1 DEF Report
        <4>1. CASE l = k
          <5>1. Occurrences(q)' = bucket[j][<<k, "incorrect">>]
            BY <4>1, UpsertedOccurrences DEF q
          <5>2. bucket[j][<<k, "incorrect">>] \in Nat
            BY DEF GradersInv, TypeOK, JudgeTypeOK, Marks
          <5>3. bucket[j][<<k, "incorrect">>] <= Cardinality(FoundIncorrect(j, k))
            BY DEF QualityInv, CountsAreBacked
          <5>4. FoundIncorrect(j, k) \subseteq BackingNext
            BY IncorrectCallsStay DEF BackingNext
          <5>5. /\ Cardinality(FoundIncorrect(j, k)) \in Nat
                /\ Cardinality(FoundIncorrect(j, k)) <= Cardinality(BackingNext)
            BY <5>4, <2>1, IncorrectAreFinite, FS_Subset
          <5> QED BY <5>1, <5>2, <5>3, <5>5, <2>1
        <4>2. CASE l # k
          <5>1. q # <<"judge_quality", l>>
            BY <4>2 DEF q
          <5> QED BY <5>1, UpsertedOccurrences, <2>same
        <4> QED BY <4>1, <4>2
      <3>2. CASE ~Report(j)
        <4>1. findings' = findings
          BY <3>2, <2>5 DEF JudgeStep, AbortBatch, StartBatch, Ask, Record, Counted, EndBatch,
                            tableVars
        <4> QED BY <4>1, <2>3
      <3> QED BY <3>1, <3>2
    <2>6. ASSUME Write \/ UNCHANGED vars
          PROVE  Occurrences(q)' \in Nat /\ Occurrences(q)' <= Cardinality(BackingNext)
      <3>1. findings' = findings
        BY <2>6, WritersKeepTypes DEF Write, vars, tableVars, GradersInv, TypeOK
      <3> QED BY <3>1, <2>3
    <2>7. Occurrences(q)' \in Nat /\ Occurrences(q)' <= Cardinality(BackingNext)
      BY <2>4, <2>5, <2>6 DEF Next, Sweep, Batch, Fail
    <2> QED BY <2>7 DEF q, BackingNext
  <1>4. QualityIsBacked'
    BY <1>3 DEF QualityIsBacked
  <1>5. \A k \in Kinds : Occurrences(<<"judge_quality", k>>)' \in Nat
    BY <1>3
  <1> QED BY <1>1, <1>2, <1>d, <1>4, <1>5 DEF QualityInv

\* The inductive invariant of the graders.
THEOREM GradingInvariant == Spec => []IInv
  <1>1. Init => IInv
    BY GradingInit, QualityInit DEF IInv
  <1>2. IInv /\ [Next]_vars => IInv'
    BY GradingStep, QualityStep DEF IInv
  <1> QED BY <1>1, <1>2, PTL DEF Spec

\* A quality finding counts no call twice and none without a stored verdict that calls
\* it incorrect, whatever batches overlap, fail or report late (judge.py, line 291).
THEOREM QualityFindingsAreBacked == Spec => []QualityIsBacked
  <1>1. IInv => QualityIsBacked
    BY DEF IInv, QualityInv
  <1> QED BY GradingInvariant, <1>1, PTL
=============================================================================
