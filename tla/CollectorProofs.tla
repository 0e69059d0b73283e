-------------------------- MODULE CollectorProofs --------------------------
(***************************************************************************)
(* What run() and the tee keep for any number of tasks, runs, streams and  *)
(* messages: the ambient run of a task is its innermost open body, what    *)
(* came to an end was finalized once, as failed if it raised, and the      *)
(* steps, pending calls and error counts of every handle fit together,     *)
(* whatever blocks it has observed.                                        *)
(***************************************************************************)
EXTENDS Collector, SequenceTheorems, FiniteSetTheorems, DataLemmas, TLAPS

\* The contexts have their types.
ContextTypes ==
  /\ alive \subseteq Tasks
  /\ ambient \in [Tasks -> Runs \cup {None}]
  /\ inherited \in [Tasks -> Runs \cup {None}]
  /\ bodies \in [Tasks -> Seq(Runs)]
  /\ token \in [Runs -> Runs \cup {None}]
  /\ runPc \in [Runs -> {"idle", "open", "closed", "unreset"}]

ContextInv == ContextTypes /\ ContextsChain /\ AmbientIsInnermost

\* No run has entered the context at first.
LEMMA InitContextInv == Init => ContextInv
<1> SUFFICES ASSUME Init
             PROVE  ContextInv
  OBVIOUS
<1> USE CollectorConstants DEF Init
<1>1. ContextTypes
  BY DEF ContextTypes
<1>2. ContextsChain
  BY DEF ContextsChain
<1>3. AmbientIsInnermost
  BY DEF AmbientIsInnermost, Enclosing, Around
<1> QED
  BY <1>1, <1>2, <1>3 DEF ContextInv

-----------------------------------------------------------------------------
(* The steps that change a context.                                        *)

\* A new task starts outside of all bodies, in what its creator ran in.
LEMMA SpawnKeeps ==
  ASSUME ContextInv, NEW t \in Tasks, NEW u \in Tasks, Spawn(t, u)
  PROVE  ContextInv'
<1> USE DEF ContextInv, ContextTypes, Spawn
<1>1. ContextTypes'
  OBVIOUS
<1>2. bodies[u] = <<>> /\ Len(bodies[u]) = 0 /\ DOMAIN bodies[u] = {}
  BY EmptySeq DEF ContextsChain
<1>3. UNCHANGED <<bodies, token, runPc, tangled>>
  BY DEF historyVars
<1>4. \A v \in Tasks \ {u} : Around(v)' = Around(v) /\ ambient'[v] = ambient[v]
  BY <1>3 DEF Around
<1>5. ambient'[u] \in Around(u)' /\ ambient'[u] = inherited'[u]
  BY DEF Around
<1>6. ContextsChain'
  BY <1>2, <1>3, <1>4 DEF ContextsChain, Enclosing, Unreset
<1>7. AmbientIsInnermost'
  BY <1>2, <1>3, <1>4, <1>5 DEF AmbientIsInnermost, Enclosing, Unreset
<1> QED
  BY <1>1, <1>6, <1>7

\* A body is entered from what the task ran in.
LEMMA EnterRunKeeps ==
  ASSUME ContextInv, NEW t \in Tasks, NEW r \in Runs, EnterRun(t, r)
  PROVE  ContextInv'
<1> USE DEF ContextInv
<1> DEFINE Un(h) == h # None /\ runPc'[h] = "unreset"
<1> DEFINE s == bodies[t]
           m == Len(bodies[t])
<1>1. /\ s \in Seq(Runs) /\ m \in Nat /\ DOMAIN s = 1..m
      /\ Append(s, r) \in Seq(Runs)
      /\ Len(Append(s, r)) = m + 1
      /\ DOMAIN Append(s, r) = 1..m + 1
      /\ \A i \in 1..m : Append(s, r)[i] = s[i]
      /\ Append(s, r)[m + 1] = r
  BY AppendProperties, LenProperties DEF ContextTypes
<1>2. bodies' = [bodies EXCEPT ![t] = Append(s, r)]
  BY DEF EnterRun
<1> HIDE DEF s
<1>3. ContextTypes'
  BY <1>1, <1>2 DEF EnterRun, Saved, ContextTypes
<1>4. \A u \in Tasks : \A j \in DOMAIN bodies[u] : bodies[u][j] # r
  BY DEF ContextsChain, EnterRun, ContextTypes
<1>5. \A v \in Tasks : Around(v) \subseteq Around(v)' /\ (v # t => bodies'[v] = bodies[v])
  <2>1. \A q \in Runs : runPc[q] \in {"closed", "unreset"} => runPc'[q] \in {"closed", "unreset"}
    BY DEF EnterRun, ContextTypes
  <2>2. ToSet(s) \subseteq ToSet(Append(s, r))
    BY <1>1 DEF ToSet
  <2>3. \A v \in Tasks : ToSet(bodies[v]) \subseteq ToSet(bodies'[v])
    BY <1>2, <2>2 DEF ContextTypes, s
  <2>4. inherited' = inherited
    BY DEF EnterRun
  <2> QED
    BY <1>2, <2>1, <2>3, <2>4 DEF Around, ContextTypes
<1>6. r \in ToSet(bodies'[t]) /\ bodies'[t][m + 1] = r /\ ambient'[t] = r /\ token'[r] = ambient[t]
  BY <1>1, <1>2 DEF ToSet, EnterRun, Saved, ContextTypes
<1>7. \A v \in Tasks : \A j \in DOMAIN bodies'[v] :
        \/ v = t /\ j = m + 1
        \/ /\ j \in DOMAIN bodies[v]
           /\ bodies'[v][j] = bodies[v][j]
           /\ bodies'[v][j] # r
           /\ Enclosing(v, j)' = Enclosing(v, j)
  <2> SUFFICES ASSUME NEW v \in Tasks, NEW j \in DOMAIN bodies'[v], ~(v = t /\ j = m + 1)
               PROVE  /\ j \in DOMAIN bodies[v]
                      /\ bodies'[v][j] = bodies[v][j]
                      /\ bodies'[v][j] # r
                      /\ Enclosing(v, j)' = Enclosing(v, j)
    OBVIOUS
  <2>1. inherited' = inherited
    BY DEF EnterRun
  <2>2. CASE v # t
    BY <2>1, <2>2, <1>4, <1>5 DEF Enclosing
  <2>3. CASE v = t
    <3>1. j \in 1..m /\ bodies'[t][j] = s[j] /\ (j # 1 => bodies'[t][j - 1] = s[j - 1])
      BY <2>3, <1>1, <1>2 DEF ContextTypes
    <3> QED
      BY <2>1, <2>3, <3>1, <1>1, <1>4 DEF Enclosing, s
  <2> QED
    BY <2>2, <2>3
<1>m. PICK n \in Nat : n = m
  BY <1>1
<1>8. Enclosing(t, n + 1)' = Enclosing(t, n + 1)
  <2>1. n + 1 # 1 => n \in 1..m /\ n + 1 - 1 = n
    BY <1>m
  <2>2. n + 1 # 1 => bodies'[t][n] = bodies[t][n]
    BY <2>1, <1>1, <1>2 DEF ContextTypes, s
  <2>3. inherited' = inherited
    BY DEF EnterRun
  <2> QED
    BY <2>1, <2>2, <2>3 DEF Enclosing
<1>9. \A h \in Runs \cup {None} : h # r => (Unreset(h) <=> Un(h))
  BY DEF Unreset, EnterRun, ContextTypes
<1>10. ~Unreset(r)
  BY DEF Unreset, EnterRun
<1>11. \A v \in Tasks : \A j \in DOMAIN bodies[v] :
         bodies[v][j] \in Runs /\ token[bodies[v][j]] \in Runs \cup {None}
  BY LenProperties DEF ContextTypes
<1>12. ContextsChain'
  <2>1. \A v \in Tasks \ alive' : bodies'[v] = <<>>
    BY <1>5 DEF EnterRun, ContextsChain
  <2>2. ASSUME NEW v \in Tasks, NEW j \in DOMAIN bodies'[v]
        PROVE  /\ runPc'[bodies'[v][j]] = "open"
               /\ token'[bodies'[v][j]] \in Around(v)'
               /\ v \notin tangled' => \/ token'[bodies'[v][j]] = Enclosing(v, j)'
                                       \/ Un(token'[bodies'[v][j]])
    <3>1. tangled' = tangled /\ runPc' = [runPc EXCEPT ![r] = "open"]
          /\ token' = [token EXCEPT ![r] = ambient[t]]
      BY DEF EnterRun, historyVars, Saved
    <3>2. CASE v = t /\ j = m + 1
      <4>1. ambient[t] \in Around(t) /\ ambient[t] \in Runs \cup {None}
            /\ (t \notin tangled => ambient[t] = Enclosing(t, m + 1) \/ Unreset(ambient[t]))
        BY DEF AmbientIsInnermost, ContextTypes
      <4> QED
        BY <3>1, <3>2, <4>1, <1>m, <1>5, <1>6, <1>8, <1>9, <1>10 DEF ContextTypes
    <3>3. CASE ~(v = t /\ j = m + 1)
      <4>1. /\ j \in DOMAIN bodies[v] /\ bodies'[v][j] = bodies[v][j] /\ bodies[v][j] # r
            /\ Enclosing(v, j)' = Enclosing(v, j)
        BY <3>3, <1>7
      <4>2. /\ runPc[bodies[v][j]] = "open"
            /\ token[bodies[v][j]] \in Around(v)
            /\ v \notin tangled => \/ token[bodies[v][j]] = Enclosing(v, j)
                                   \/ Unreset(token[bodies[v][j]])
        BY <4>1 DEF ContextsChain
      <4> QED
        BY <3>1, <4>1, <4>2, <1>5, <1>9, <1>10, <1>11 DEF ContextTypes
    <3> QED
      BY <3>2, <3>3
  <2>3. \A v, w \in Tasks : \A j \in DOMAIN bodies'[v] : \A k \in DOMAIN bodies'[w] :
          bodies'[w][k] = bodies'[v][j] => w = v /\ k = j
    <3>1. \A v, w \in Tasks : \A j \in DOMAIN bodies[v] : \A k \in DOMAIN bodies[w] :
            bodies[w][k] = bodies[v][j] => w = v /\ k = j
      BY DEF ContextsChain
    <3> QED
      BY <3>1, <1>6, <1>7
  <2> QED
    BY <2>1, <2>2, <2>3 DEF ContextsChain, Unreset
<1>13. AmbientIsInnermost'
  <2> SUFFICES ASSUME NEW v \in Tasks
               PROVE  /\ ambient'[v] \in Around(v)'
                      /\ v \notin tangled' => \/ ambient'[v] = Enclosing(v, Len(bodies[v]) + 1)'
                                              \/ Un(ambient'[v])
    BY DEF AmbientIsInnermost, Unreset
  <2>1. CASE v = t
    <3>1. Len(bodies'[t]) = m + 1 /\ m + 1 + 1 # 1 /\ m + 1 + 1 - 1 = m + 1
      BY <1>1, <1>2 DEF ContextTypes
    <3>2. Enclosing(t, Len(bodies[t]) + 1)' = r
      BY <3>1, <1>6 DEF Enclosing
    <3> QED
      BY <2>1, <3>2, <1>6 DEF Around
  <2>2. CASE v # t
    <3>1. /\ ambient'[v] = ambient[v] /\ bodies'[v] = bodies[v] /\ tangled' = tangled
          /\ inherited' = inherited
      BY <2>2, <1>5 DEF EnterRun, historyVars, ContextTypes
    <3>2. /\ ambient[v] \in Around(v) /\ ambient[v] \in Runs \cup {None}
          /\ v \notin tangled => \/ ambient[v] = Enclosing(v, Len(bodies[v]) + 1)
                                 \/ Unreset(ambient[v])
      BY DEF AmbientIsInnermost, ContextTypes
    <3>3. Enclosing(v, Len(bodies[v]) + 1)' = Enclosing(v, Len(bodies[v]) + 1)
      BY <3>1 DEF Enclosing
    <3> QED
      BY <3>1, <3>2, <3>3, <1>5, <1>9, <1>10
  <2> QED
    BY <2>1, <2>2
<1> QED
  BY <1>3, <1>12, <1>13

\* What t runs in when its bodies are left in order: the innermost of them.
Innermost(t) == Enclosing(t, Len(bodies[t]) + 1)

\* The i-th body of u, r, is left: the others stay where they were or move up.
BodyLeft(u, i, r) ==
  /\ r \in Runs /\ runPc[r] = "open"
  /\ bodies' \in [Tasks -> Seq(Runs)]
  /\ runPc' \in [Runs -> {"idle", "open", "closed", "unreset"}]
  /\ \A v \in Tasks \ alive' : bodies'[v] = <<>>
  /\ \A v \in Tasks : Around(v) \subseteq Around(v)'
  /\ \A v, w \in Tasks : \A j \in DOMAIN bodies'[v] : \A k \in DOMAIN bodies'[w] :
       bodies'[w][k] = bodies'[v][j] => w = v /\ k = j
  /\ \A v \in Tasks : \A j \in DOMAIN bodies'[v] : \E k \in DOMAIN bodies[v] :
       /\ bodies'[v][j] = bodies[v][k]
       /\ bodies'[v][j] # r
       /\ \/ Enclosing(v, j)' = Enclosing(v, k)
          \/ v = u /\ i # Len(bodies[u]) /\ Enclosing(v, k) = r
  /\ \A v \in Tasks :
       \/ v # u /\ Innermost(v)' = Innermost(v)
       \/ /\ v = u /\ i = Len(bodies[u]) /\ Innermost(v) = r
          /\ Innermost(v)' = Enclosing(v, i)
       \/ v = u /\ i # Len(bodies[u]) /\ Innermost(v)' = Innermost(v)

\* A body is left, in its own context or not: the chains stay chains, and what was around
\* a task still is, or is over.
LEMMA LeftBody ==
  ASSUME ContextInv, NEW u \in Tasks, NEW i \in DOMAIN bodies[u], NEW r, r = bodies[u][i],
         bodies' = [bodies EXCEPT ![u] = RemoveAt(@, i)],
         NEW over \in {"closed", "unreset"}, runPc' = [runPc EXCEPT ![r] = over],
         UNCHANGED <<alive, inherited, token>>
  PROVE  BodyLeft(u, i, r)
<1> USE DEF ContextInv
<1> DEFINE s == bodies[u]
           m == Len(bodies[u])
<1>3. s \in Seq(Runs) /\ DOMAIN s = 1..m /\ m \in Nat /\ i \in 1..m
  BY LenProperties DEF ContextTypes
<1>4. /\ RemoveAt(s, i) \in Seq(Runs)
      /\ Len(RemoveAt(s, i)) = m - 1
      /\ DOMAIN RemoveAt(s, i) = 1..m - 1
      /\ \A j \in 1..m - 1 : RemoveAt(s, i)[j] = IF j < i THEN s[j] ELSE s[j + 1]
  <2>0. m = Len(s) /\ i \in 1..Len(s) /\ s \in Seq(Runs)
    BY <1>3
  <2> HIDE DEF s, m
  <2>1. /\ RemoveAt(s, i) \in Seq(Runs)
        /\ Len(RemoveAt(s, i)) = m - 1
        /\ \A j \in 1..m - 1 : RemoveAt(s, i)[j] = IF j < i THEN s[j] ELSE s[j + 1]
    BY <2>0, RemoveFromSeq
  <2>2. DOMAIN RemoveAt(s, i) = 1..Len(RemoveAt(s, i))
    BY <2>1, LenProperties
  <2> QED
    BY <2>1, <2>2
<1>5. bodies' = [bodies EXCEPT ![u] = RemoveAt(s, i)]
  OBVIOUS
<1>6. r \in Runs /\ runPc[r] = "open" /\ r = s[i]
  BY <1>3 DEF ContextsChain
<1> HIDE DEF s
<1>7. /\ bodies' \in [Tasks -> Seq(Runs)]
      /\ bodies'[u] = RemoveAt(s, i)
      /\ \A v \in Tasks \ {u} : bodies'[v] = bodies[v]
  BY <1>4, <1>5 DEF ContextTypes
<1>8. \A v \in Tasks : \A j \in DOMAIN bodies[v] : bodies[v][j] = r => v = u /\ j = i
  BY DEF ContextsChain
<1>9. runPc' \in [Runs -> {"idle", "open", "closed", "unreset"}]
  BY DEF ContextTypes
\* Where the bodies that stay were: those after the i-th of u have moved up.
<1> DEFINE Was(v, j) == IF v = u /\ j >= i THEN j + 1 ELSE j
<1>10. ASSUME NEW v \in Tasks, NEW j \in DOMAIN bodies'[v]
       PROVE  /\ Was(v, j) \in DOMAIN bodies[v]
              /\ bodies'[v][j] = bodies[v][Was(v, j)]
              /\ bodies'[v][j] # r
              /\ \/ Enclosing(v, j)' = Enclosing(v, Was(v, j))
                 \/ v = u /\ i # m /\ Enclosing(v, Was(v, j)) = r
  <2>1. CASE v # u
    BY <2>1, <1>7, <1>8, LenProperties DEF ContextTypes, Enclosing
  <2>2. CASE v = u /\ j < i
    <3>1. j \in DOMAIN s /\ bodies'[u][j] = s[j] /\ j # i
      BY <2>2, <1>3, <1>4, <1>7
    <3>2. j # 1 => bodies'[u][j - 1] = s[j - 1]
      BY <2>2, <1>3, <1>4, <1>7
    <3> QED
      BY <2>2, <3>1, <3>2, <1>3, <1>8 DEF s, Enclosing
  <2>3. CASE v = u /\ j >= i
    <3>1. j \in 1..m - 1 /\ j + 1 \in DOMAIN s /\ bodies'[u][j] = s[j + 1] /\ j + 1 # i /\ i # m
      BY <2>3, <1>3, <1>4, <1>7
    <3>2. j # i => j # 1 /\ bodies'[u][j - 1] = s[j]
      BY <2>3, <3>1, <1>3, <1>4, <1>7
    <3>3. Enclosing(u, j + 1) = s[j]
      BY <3>1 DEF s, Enclosing
    <3> QED
      BY <2>3, <3>1, <3>2, <3>3, <1>3, <1>6, <1>8 DEF s, Enclosing
  <2>4. j \in Int
    BY <1>7, LenProperties
  <2> QED
    BY <2>1, <2>2, <2>3, <2>4, <1>3
<1>11. \A v \in Tasks \ alive' : bodies'[v] = <<>>
  <2>1. u \in alive
    BY <1>3, LenProperties DEF s, ContextsChain, ContextTypes
  <2> QED
    BY <2>1, <1>7 DEF ContextsChain
<1>12. \A v \in Tasks : Around(v) \subseteq Around(v)'
  <2> SUFFICES ASSUME NEW v \in Tasks, NEW x \in Around(v)
               PROVE  x \in Around(v)'
    OBVIOUS
  <2>1. CASE x = inherited[v]
    BY <2>1 DEF Around
  <2>2. CASE x \in Runs /\ runPc[x] \in {"closed", "unreset"}
    BY <2>2, <1>6 DEF Around, ContextTypes
  <2>3. CASE x = r
    BY <2>3, <1>6 DEF Around, ContextTypes
  <2>4. CASE x # r /\ x \in ToSet(bodies[v])
    <3>1. x \in ToSet(bodies'[v])
      <4>1. CASE v # u
        BY <4>1, <2>4, <1>7
      <4>2. CASE v = u
        <5>1. PICK j \in 1..m : x = s[j]
          BY <4>2, <2>4, <1>3 DEF ToSet, s
        <5>2. j # i
          BY <5>1, <2>4, <1>6
        <5>3. CASE j < i
          <6>1. j \in 1..m - 1 /\ RemoveAt(s, i)[j] = s[j]
            BY <5>3, <1>3, <1>4
          <6> QED
            BY <6>1, <5>1, <4>2, <1>4, <1>7 DEF ToSet
        <5>4. CASE j > i
          <6>1. j - 1 \in 1..m - 1 /\ ~(j - 1 < i) /\ j - 1 + 1 = j
            BY <5>4, <1>3
          <6>2. RemoveAt(s, i)[j - 1] = s[j]
            BY <6>1, <1>4
          <6> QED
            BY <6>1, <6>2, <5>1, <4>2, <1>4, <1>7 DEF ToSet
        <5> QED
          BY <5>2, <5>3, <5>4, <1>3
      <4> QED
        BY <4>1, <4>2
    <3> QED
      BY <3>1 DEF Around
  <2> QED
    BY <2>1, <2>2, <2>3, <2>4 DEF Around
<1>13. \A v, w \in Tasks : \A j \in DOMAIN bodies'[v] : \A k \in DOMAIN bodies'[w] :
         bodies'[w][k] = bodies'[v][j] => w = v /\ k = j
  <2> SUFFICES ASSUME NEW v \in Tasks, NEW w \in Tasks, NEW j \in DOMAIN bodies'[v],
                      NEW k \in DOMAIN bodies'[w], bodies'[w][k] = bodies'[v][j]
               PROVE  w = v /\ k = j
    OBVIOUS
  <2>1. w = v /\ Was(w, k) = Was(v, j)
    BY <1>10 DEF ContextsChain
  <2>2. j \in Int /\ k \in Int
    BY <1>7, LenProperties
  <2> QED
    BY <2>1, <2>2, <1>3
<1>14. ASSUME NEW v \in Tasks
       PROVE  \/ v # u /\ Innermost(v)' = Innermost(v)
              \/ /\ v = u /\ i = m /\ Innermost(v) = r
                 /\ Innermost(v)' = Enclosing(v, i)
              \/ v = u /\ i # m /\ Innermost(v)' = Innermost(v)
  <2> USE DEF Innermost
  <2>1. CASE v # u
    BY <2>1, <1>7 DEF Enclosing
  <2>2. CASE v = u
    <3>1. Len(bodies'[u]) = m - 1 /\ bodies'[u] = RemoveAt(s, i)
      BY <1>4, <1>7
    <3>2. Enclosing(u, m + 1) = s[m]
      BY <1>3 DEF s, Enclosing
    <3>3. CASE i = m
      <4> HIDE DEF m
      <4>1. m - 1 + 1 = m /\ (m # 1 => m - 1 \in 1..m - 1 /\ m - 1 < i)
        BY <3>3, <1>3
      <4>2. m # 1 => RemoveAt(s, i)[m - 1] = s[m - 1]
        BY <4>1, <1>4
      <4>3. Enclosing(u, Len(bodies[u]) + 1)' = Enclosing(u, m)
        BY <3>1, <4>1, <4>2, <1>3 DEF Enclosing, s, m
      <4> QED
        BY <2>2, <3>2, <3>3, <4>3, <1>6 DEF m
    <3>4. CASE i # m
      <4> HIDE DEF m
      <4>1. m - 1 \in 1..m - 1 /\ ~(m - 1 < i) /\ m # 1 /\ m - 1 + 1 = m
        BY <3>4, <1>3
      <4>2. RemoveAt(s, i)[m - 1] = s[m]
        BY <4>1, <1>4
      <4>3. Enclosing(u, Len(bodies[u]) + 1)' = s[m]
        BY <3>1, <4>1, <4>2, <1>3 DEF Enclosing
      <4> QED
        BY <2>2, <3>2, <3>4, <4>3 DEF m
    <3> QED
      BY <3>3, <3>4
  <2> QED
    BY <2>1, <2>2
<1> HIDE DEF m
<1>15. \A v \in Tasks : \A j \in DOMAIN bodies'[v] : \E k \in DOMAIN bodies[v] :
         /\ bodies'[v][j] = bodies[v][k]
         /\ bodies'[v][j] # r
         /\ \/ Enclosing(v, j)' = Enclosing(v, k)
            \/ v = u /\ i # Len(bodies[u]) /\ Enclosing(v, k) = r
  <2> HIDE DEF Was
  <2> QED
    BY <1>10 DEF m
<1> QED
  BY <1>6, <1>7, <1>9, <1>11, <1>12, <1>13, <1>14, <1>15 DEF m, BodyLeft

\* A body is left in its own context: if it was the innermost one, the token leads to the
\* body around it.
LEMMA ExitRunKeeps ==
  ASSUME ContextInv, NEW t \in Tasks, NEW r \in Runs, NEW exc \in BOOLEAN,
         ExitRun(t, r, exc)
  PROVE  ContextInv'
<1> DEFINE Un(h) == h # None /\ runPc'[h] = "unreset"
<1>1. PICK i \in DOMAIN bodies[t] :
        r = bodies[t][i] /\ bodies' = [bodies EXCEPT ![t] = RemoveAt(@, i)]
  BY DEF ExitRun
<1>2. /\ ambient' = [ambient EXCEPT ![t] = token[r]]
      /\ runPc' = [runPc EXCEPT ![r] = "closed"]
      /\ tangled' = IF r = Last(bodies[t]) THEN tangled ELSE tangled \cup {t}
      /\ UNCHANGED <<alive, inherited, token>>
  BY DEF ExitRun, Restored
<1>3. BodyLeft(t, i, r)
  BY <1>1, <1>2, LeftBody
<1> USE DEF ContextInv, BodyLeft
<1>4. t \notin tangled' => i = Len(bodies[t])
  <2>1. bodies[t] \in Seq(Runs) /\ Last(bodies[t]) = bodies[t][Len(bodies[t])]
    BY DEF Last, ContextTypes
  <2>2. Len(bodies[t]) \in DOMAIN bodies[t]
    BY <2>1, LenProperties
  <2> QED
    BY <2>1, <2>2, <1>1, <1>2 DEF ContextsChain
<1>5. \A v \in Tasks : v \notin tangled' => v \notin tangled
  BY <1>2
<1>6. \A h \in Runs \cup {None} : Unreset(h) => Un(h)
  BY <1>2, <1>3 DEF Unreset, ContextTypes
<1>7. ContextTypes'
  <2>1. token[r] \in Runs \cup {None}
    BY DEF ContextTypes
  <2> QED
    BY <2>1, <1>2, <1>3 DEF ContextTypes
<1>8. ContextsChain'
  <2>1. ASSUME NEW v \in Tasks, NEW j \in DOMAIN bodies'[v]
        PROVE  /\ runPc'[bodies'[v][j]] = "open"
               /\ token'[bodies'[v][j]] \in Around(v)'
               /\ v \notin tangled' => \/ token'[bodies'[v][j]] = Enclosing(v, j)'
                                       \/ Un(token'[bodies'[v][j]])
    <3>1. PICK k \in DOMAIN bodies[v] :
            /\ bodies'[v][j] = bodies[v][k]
            /\ bodies'[v][j] # r
            /\ \/ Enclosing(v, j)' = Enclosing(v, k)
               \/ v = t /\ i # Len(bodies[t]) /\ Enclosing(v, k) = r
      BY <1>3
    <3> DEFINE q == bodies[v][k]
    <3>2. /\ runPc[q] = "open"
          /\ token[q] \in Around(v)
          /\ v \notin tangled => token[q] = Enclosing(v, k) \/ Unreset(token[q])
      BY DEF ContextsChain
    <3>3. q \in Runs /\ token[q] \in Runs \cup {None}
      BY LenProperties DEF ContextTypes
    <3> HIDE DEF q
    <3>4. runPc'[q] = "open" /\ token'[q] = token[q] /\ bodies'[v][j] = q
      BY <3>1, <3>2, <3>3, <1>2 DEF ContextTypes, q
    <3>5. token[q] \in Around(v)'
      BY <3>2, <1>3
    <3>6. v \notin tangled' => token[q] = Enclosing(v, j)' \/ Un(token[q])
      BY <3>1, <3>2, <3>3, <1>4, <1>5, <1>6
    <3> QED
      BY <3>4, <3>5, <3>6, <1>2
  <2> QED
    BY <2>1, <1>3 DEF ContextsChain, Unreset
<1>9. AmbientIsInnermost'
  <2> SUFFICES ASSUME NEW v \in Tasks
               PROVE  /\ ambient'[v] \in Around(v)'
                      /\ v \notin tangled' => ambient'[v] = Innermost(v)' \/ Un(ambient'[v])
    BY DEF AmbientIsInnermost, Innermost, Unreset
  <2>1. CASE v = t
    <3>1. /\ token[r] \in Around(t)
          /\ t \notin tangled => token[r] = Enclosing(t, i) \/ Unreset(token[r])
          /\ token[r] \in Runs \cup {None}
      BY <1>1 DEF ContextsChain, ContextTypes
    <3>2. ambient'[t] = token[r]
      BY <1>2 DEF ContextTypes
    <3>3. ambient'[t] \in Around(t)'
      BY <3>1, <3>2, <1>3
    <3>4. t \notin tangled' => Innermost(t)' = Enclosing(t, i)
      BY <1>3, <1>4
    <3> QED
      BY <2>1, <3>1, <3>2, <3>3, <3>4, <1>5, <1>6
  <2>2. CASE v # t
    <3>1. /\ ambient[v] \in Around(v) /\ ambient[v] \in Runs \cup {None}
          /\ v \notin tangled => ambient[v] = Innermost(v) \/ Unreset(ambient[v])
      BY DEF AmbientIsInnermost, ContextTypes, Innermost
    <3>2. ambient'[v] = ambient[v] /\ Innermost(v)' = Innermost(v)
      BY <2>2, <1>2, <1>3 DEF ContextTypes
    <3>3. ambient'[v] \in Around(v)'
      BY <3>1, <3>2, <1>3
    <3> QED
      BY <3>1, <3>2, <3>3, <1>5, <1>6
  <2> QED
    BY <2>1, <2>2
<1> QED
  BY <1>7, <1>8, <1>9

\* A body is left elsewhere: what was entered from it leads to a run that no reset
\* took out.
LEMMA ExitRunElsewhereKeeps ==
  ASSUME ContextInv, NEW t \in Tasks, NEW r \in Runs, NEW exc \in BOOLEAN,
         ExitRunElsewhere(t, r, exc)
  PROVE  ContextInv'
<1> DEFINE Un(h) == h # None /\ runPc'[h] = "unreset"
<1>1. PICK u \in Tasks : \E i \in DOMAIN bodies[u] :
        r = bodies[u][i] /\ bodies' = [bodies EXCEPT ![u] = RemoveAt(@, i)]
  BY DEF ExitRunElsewhere, ContextInv, ContextTypes
<1>2. PICK i \in DOMAIN bodies[u] :
        r = bodies[u][i] /\ bodies' = [bodies EXCEPT ![u] = RemoveAt(@, i)]
  BY <1>1
<1>3. /\ runPc' = [runPc EXCEPT ![r] = "unreset"]
      /\ UNCHANGED <<alive, ambient, inherited, token, tangled>>
  BY DEF ExitRunElsewhere
<1>4. BodyLeft(u, i, r)
  BY <1>1, <1>2, <1>3, LeftBody
<1> USE DEF ContextInv, BodyLeft
<1>5. \A h \in Runs \cup {None} : Unreset(h) \/ h = r => Un(h)
  <2>1. r # None
    BY CollectorConstants DEF Handles
  <2> QED
    BY <2>1, <1>3 DEF Unreset, ContextTypes
<1>6. ContextTypes'
  BY <1>3, <1>4 DEF ContextTypes
<1>7. ContextsChain'
  <2>1. ASSUME NEW v \in Tasks, NEW j \in DOMAIN bodies'[v]
        PROVE  /\ runPc'[bodies'[v][j]] = "open"
               /\ token'[bodies'[v][j]] \in Around(v)'
               /\ v \notin tangled' => \/ token'[bodies'[v][j]] = Enclosing(v, j)'
                                       \/ Un(token'[bodies'[v][j]])
    <3>1. PICK k \in DOMAIN bodies[v] :
            /\ bodies'[v][j] = bodies[v][k]
            /\ bodies'[v][j] # r
            /\ \/ Enclosing(v, j)' = Enclosing(v, k)
               \/ v = u /\ i # Len(bodies[u]) /\ Enclosing(v, k) = r
      BY <1>4
    <3> DEFINE q == bodies[v][k]
    <3>2. /\ runPc[q] = "open"
          /\ token[q] \in Around(v)
          /\ v \notin tangled => token[q] = Enclosing(v, k) \/ Unreset(token[q])
      BY DEF ContextsChain
    <3>3. q \in Runs /\ token[q] \in Runs \cup {None}
      BY LenProperties DEF ContextTypes
    <3> HIDE DEF q
    <3>4. runPc'[q] = "open" /\ token'[q] = token[q] /\ bodies'[v][j] = q
      BY <3>1, <3>2, <3>3, <1>3 DEF ContextTypes, q
    <3>5. token[q] \in Around(v)'
      BY <3>2, <1>4
    <3>6. v \notin tangled' => token[q] = Enclosing(v, j)' \/ Un(token[q])
      BY <3>1, <3>2, <3>3, <1>3, <1>5
    <3> QED
      BY <3>4, <3>5, <3>6, <1>3
  <2> QED
    BY <2>1, <1>4 DEF ContextsChain, Unreset
<1>8. AmbientIsInnermost'
  <2> SUFFICES ASSUME NEW v \in Tasks
               PROVE  /\ ambient'[v] \in Around(v)'
                      /\ v \notin tangled' => ambient'[v] = Innermost(v)' \/ Un(ambient'[v])
    BY <1>3 DEF AmbientIsInnermost, Innermost, Unreset
  <2>1. /\ ambient[v] \in Around(v) /\ ambient[v] \in Runs \cup {None}
        /\ v \notin tangled => ambient[v] = Innermost(v) \/ Unreset(ambient[v])
    BY DEF AmbientIsInnermost, ContextTypes, Innermost
  <2>2. ambient' = ambient /\ (Innermost(v)' = Innermost(v) \/ Innermost(v) = r)
    BY <1>3, <1>4
  <2>3. ambient'[v] \in Around(v)'
    BY <2>1, <2>2, <1>4
  <2> QED
    BY <2>1, <2>2, <2>3, <1>3, <1>5
<1> QED
  BY <1>6, <1>7, <1>8

\* Every step keeps the contexts.
LEMMA StepContextInv == ContextInv /\ [Next]_vars => ContextInv'
<1> SUFFICES ASSUME ContextInv, [Next]_vars
             PROVE  ContextInv'
  OBVIOUS
<1>1. ASSUME UNCHANGED <<contextVars, runPc, tangled>>
      PROVE  ContextInv'
  BY <1>1
  DEF contextVars, ContextInv, ContextTypes, ContextsChain, AmbientIsInnermost, Enclosing,
      Unreset, Around
<1>2. ASSUME NEW t \in Tasks, TaskStep(t)
      PROVE  ContextInv'
  <2>1. ASSUME NEW u \in Tasks, Spawn(t, u)
        PROVE  ContextInv'
    BY <2>1, SpawnKeeps
  <2>2. ASSUME NEW r \in Runs, EnterRun(t, r)
        PROVE  ContextInv'
    BY <2>2, EnterRunKeeps
  <2>3. ASSUME NEW r \in Runs, NEW exc \in BOOLEAN, ExitRun(t, r, exc)
        PROVE  ContextInv'
    BY <2>3, ExitRunKeeps
  <2>4. ASSUME NEW r \in Runs, NEW exc \in BOOLEAN, ExitRunElsewhere(t, r, exc)
        PROVE  ContextInv'
    BY <2>4, ExitRunElsewhereKeeps
  <2>5. ASSUME NEW q \in Streams, OpenStream(t, q)
        PROVE  ContextInv'
    BY <2>5, <1>1 DEF OpenStream, historyVars
  <2> QED
    BY <1>2, <2>1, <2>2, <2>3, <2>4, <2>5 DEF TaskStep
<1>3. ASSUME NEW q \in Streams, StreamStep(q)
      PROVE  ContextInv'
  <2>1. UNCHANGED <<contextVars, runPc, tangled>>
    BY <1>3 DEF StreamStep, Deliver, CloseStream, FinishStream, LoseStream, historyVars
  <2> QED
    BY <2>1, <1>1
<1>4. CASE UNCHANGED vars
  BY <1>4, <1>1 DEF vars, contextVars
<1> QED
  BY <1>2, <1>3, <1>4 DEF Next

\* The chains of bodies and tokens hold in every reachable state.
THEOREM ContextsAreChains == Spec => []ContextsChain
<1>1. ContextInv => ContextsChain
  BY DEF ContextInv
<1> QED
  BY <1>1, InitContextInv, StepContextInv, PTL DEF Spec

\* A task's ambient run is its innermost open body, for any number of tasks that spawn
\* each other inside bodies and leave them in their own context or another; and whatever
\* the order they are left in, it is never the open run of a task it has nothing from.
THEOREM AmbientRunIsInnermost == Spec => []AmbientIsInnermost
<1>1. ContextInv => AmbientIsInnermost
  BY DEF ContextInv
<1> QED
  BY <1>1, InitContextInv, StepContextInv, PTL DEF Spec

-----------------------------------------------------------------------------
(* Finalizing.                                                             *)

\* The state the number of finalize calls depends on.
EndTypes ==
  /\ runPc \in [Runs -> {"idle", "open", "closed", "unreset"}]
  /\ streamPc \in [Streams -> {"idle", "open", "closing", "closed", "lost"}]
  /\ DOMAIN target = Streams
  /\ row = [h \in Handles |-> row[h]]
  /\ \A h \in Handles : row[h] = <<>> \/ \E x : row[h] = <<x>>

EndInv == EndTypes /\ ContextTypes /\ ContextsChain /\ EndedIsFinalized

\* The first call of finalize_run for h.
LEMMA FirstFinalize ==
  ASSUME EndTypes, NEW h \in Handles, row[h] = <<>>, NEW final,
         row' = Finalized(h, final)
  PROVE  /\ row' = [g \in Handles |-> row'[g]]
         /\ \E x : row'[h] = <<x>>
         /\ \A g \in Handles \ {h} : row'[g] = row[g]
<1>1. row' = [row EXCEPT ![h] = Append(@, final)]
  BY DEF Finalized
<1>2. Append(row[h], final) = <<final>>
  OBVIOUS
<1> QED
  BY <1>1, <1>2 DEF EndTypes

\* No run has ended at first.
LEMMA InitEndInv == Init => EndInv
<1> SUFFICES ASSUME Init
             PROVE  EndInv
  OBVIOUS
<1>1. ContextTypes /\ ContextsChain
  BY InitContextInv DEF ContextInv
<1>2. EndTypes
  BY DEF Init, EndTypes
<1>3. EndedIsFinalized
  BY DEF Init, EndedIsFinalized, Handles
<1> QED
  BY <1>1, <1>2, <1>3 DEF EndInv

\* Nothing was finalized for what is still open.
LEMMA NotFinalizedYet ==
  ASSUME EndTypes, EndedIsFinalized
  PROVE  /\ \A r \in Runs : runPc[r] # "closed" => row[r] = <<>>
         /\ \A q \in Streams : streamPc[q] # "closed" \/ target[q] # q => row[q] = <<>>
<1>1. \A h \in Handles : Len(row[h]) = 0 => row[h] = <<>>
  BY DEF EndTypes
<1> QED
  BY <1>1 DEF EndedIsFinalized, Handles

\* The run t or another task leaves is open.
LEMMA LeftIsOpen ==
  ASSUME ContextTypes, ContextsChain, NEW t \in Tasks, NEW r \in Runs, NEW exc \in BOOLEAN,
         ExitRun(t, r, exc) \/ ExitRunElsewhere(t, r, exc)
  PROVE  runPc[r] = "open"
<1>1. CASE ExitRun(t, r, exc)
  BY <1>1 DEF ExitRun, ContextsChain
<1>2. CASE ExitRunElsewhere(t, r, exc)
  BY <1>2 DEF ExitRunElsewhere, ContextTypes, ContextsChain
<1> QED
  BY <1>1, <1>2

\* Every step keeps what an ended run says.
LEMMA StepEndInv == EndInv /\ AmbientIsInnermost /\ [Next]_vars => EndInv'
<1> SUFFICES ASSUME EndInv, AmbientIsInnermost, [Next]_vars
             PROVE  EndTypes' /\ EndedIsFinalized'
  BY StepContextInv DEF EndInv, ContextInv
<1> USE DEF EndInv
<1>1. ASSUME UNCHANGED <<runPc, streamPc, target, row>>
      PROVE  EndTypes' /\ EndedIsFinalized'
  BY <1>1 DEF EndTypes, EndedIsFinalized, Handles
<1>2. ASSUME NEW t \in Tasks, NEW r \in Runs, EnterRun(t, r)
      PROVE  EndTypes' /\ EndedIsFinalized'
  BY <1>2 DEF EnterRun, EndTypes, EndedIsFinalized, Handles
<1>3. ASSUME NEW t \in Tasks, NEW r \in Runs, NEW exc \in BOOLEAN, ExitRun(t, r, exc)
      PROVE  EndTypes' /\ EndedIsFinalized'
  <2>1. row[r] = <<>> /\ r \in Handles /\ r \notin Streams
    BY <1>3, LeftIsOpen, NotFinalizedYet, CollectorConstants DEF Handles
  <2>2. PICK final : row' = Finalized(r, final)
    BY <1>3 DEF ExitRun
  <2>3. /\ row' = [g \in Handles |-> row'[g]]
        /\ \E x : row'[r] = <<x>>
        /\ \A g \in Handles \ {r} : row'[g] = row[g]
    BY <2>1, <2>2, FirstFinalize
  <2>4. runPc' = [runPc EXCEPT ![r] = "closed"] /\ UNCHANGED <<streamPc, target>>
    BY <1>3 DEF ExitRun
  <2>5. Len(row'[r]) = 1
    BY <2>3
  <2>6. EndTypes'
    <3>1. \A h \in Handles : row'[h] = <<>> \/ \E x : row'[h] = <<x>>
      BY <2>3 DEF EndTypes
    <3> QED
      BY <2>3, <2>4, <3>1 DEF EndTypes
  <2>7. \A x \in Runs : Len(row'[x]) = IF runPc'[x] = "closed" THEN 1 ELSE 0
    BY <2>3, <2>4, <2>5 DEF EndTypes, EndedIsFinalized, Handles
  <2>8. \A q \in Streams : row'[q] = row[q]
    BY <2>1, <2>3 DEF Handles
  <2> QED
    BY <2>4, <2>6, <2>7, <2>8 DEF EndedIsFinalized
<1>4. ASSUME NEW t \in Tasks, NEW r \in Runs, NEW exc \in BOOLEAN,
             ExitRunElsewhere(t, r, exc)
      PROVE  EndTypes' /\ EndedIsFinalized'
  <2>1. runPc[r] = "open"
    BY <1>4, LeftIsOpen
  <2>2. /\ runPc' = [runPc EXCEPT ![r] = "unreset"]
        /\ UNCHANGED <<streamPc, target, row>>
    BY <1>4 DEF ExitRunElsewhere
  <2>3. EndTypes'
    BY <2>2 DEF EndTypes
  <2>4. \A x \in Runs : runPc'[x] = "closed" <=> runPc[x] = "closed"
    BY <2>1, <2>2 DEF EndTypes
  <2> QED
    BY <2>2, <2>3, <2>4 DEF EndedIsFinalized
<1>5. ASSUME NEW t \in Tasks, NEW q \in Streams, OpenStream(t, q)
      PROVE  EndTypes' /\ EndedIsFinalized'
  BY <1>5 DEF OpenStream, EndTypes, EndedIsFinalized, Handles
<1>6. ASSUME NEW q \in Streams, FinishStream(q)
      PROVE  EndTypes' /\ EndedIsFinalized'
  <2>1. /\ streamPc' = [streamPc EXCEPT ![q] = "closed"]
        /\ UNCHANGED <<runPc, target>>
        /\ row[q] = <<>> /\ q \in Handles /\ q \notin Runs
    BY <1>6, NotFinalizedYet, CollectorConstants DEF FinishStream, Handles
  <2>2. CASE target[q] = q
    <3>1. PICK final : row' = Finalized(q, final)
      BY <1>6, <2>2 DEF FinishStream, FinalizesStream
    <3>2. /\ row' = [g \in Handles |-> row'[g]]
          /\ \E x : row'[q] = <<x>>
          /\ \A g \in Handles \ {q} : row'[g] = row[g]
      BY <2>1, <3>1, FirstFinalize
    <3>3. Len(row'[q]) = 1
      BY <3>2
    <3>4. EndTypes'
      <4>1. \A h \in Handles : row'[h] = <<>> \/ \E x : row'[h] = <<x>>
        BY <3>2 DEF EndTypes
      <4> QED
        BY <2>1, <3>2, <4>1 DEF EndTypes
    <3>5. \A x \in Streams :
            Len(row'[x]) = IF streamPc'[x] = "closed" /\ target'[x] = x THEN 1 ELSE 0
      BY <2>1, <2>2, <3>2, <3>3 DEF EndTypes, EndedIsFinalized, Handles
    <3>6. \A x \in Runs : row'[x] = row[x]
      BY <2>1, <3>2 DEF Handles
    <3> QED
      BY <2>1, <3>4, <3>5, <3>6 DEF EndedIsFinalized
  <2>3. CASE target[q] # q
    <3>1. UNCHANGED row
      BY <1>6, <2>3 DEF FinishStream, FinalizesStream
    <3>2. EndTypes'
      BY <2>1, <3>1 DEF EndTypes
    <3>3. \A x \in Streams : streamPc'[x] = "closed" /\ target'[x] = x
                               <=> streamPc[x] = "closed" /\ target[x] = x
      BY <2>1, <2>3 DEF EndTypes
    <3> QED
      BY <2>1, <3>1, <3>2, <3>3 DEF EndedIsFinalized
  <2> QED
    BY <2>2, <2>3
<1>7. ASSUME NEW t \in Tasks, NEW u \in Tasks, Spawn(t, u)
      PROVE  EndTypes' /\ EndedIsFinalized'
  BY <1>7, <1>1 DEF Spawn
<1>8. ASSUME NEW q \in Streams, NEW m, NEW k, Deliver(q, m, k)
      PROVE  EndTypes' /\ EndedIsFinalized'
  BY <1>8, <1>1 DEF Deliver
<1>9. ASSUME NEW q \in Streams, (\E how : CloseStream(q, how)) \/ LoseStream(q)
      PROVE  EndTypes' /\ EndedIsFinalized'
  <2>1. PICK to \in {"closing", "lost"} : streamPc' = [streamPc EXCEPT ![q] = to]
    BY <1>9 DEF CloseStream, LoseStream
  <2>2. streamPc[q] # "closed" /\ UNCHANGED <<runPc, target, row>>
    BY <1>9 DEF CloseStream, LoseStream
  <2>3. EndTypes'
    BY <2>1, <2>2 DEF EndTypes
  <2>4. \A x \in Streams : streamPc'[x] = "closed" <=> streamPc[x] = "closed"
    BY <2>1, <2>2 DEF EndTypes
  <2> QED
    BY <2>2, <2>3, <2>4 DEF EndedIsFinalized
<1>10. CASE UNCHANGED vars
  BY <1>10, <1>1 DEF vars
<1> QED
  BY <1>2, <1>3, <1>4, <1>5, <1>6, <1>7, <1>8, <1>9, <1>10 DEF Next, TaskStep, StreamStep

\* Whatever ends, by whichever way, is finalized once, and nothing else is.
THEOREM EndedRunsAreFinalized == Spec => []EndedIsFinalized
<1>1. EndInv /\ AmbientIsInnermost /\ [Next]_vars => EndInv'
  BY StepEndInv
<1>2. EndInv => EndedIsFinalized
  BY DEF EndInv
<1> QED
  BY <1>1, <1>2, InitEndInv, AmbientRunIsInnermost, PTL DEF Spec

-----------------------------------------------------------------------------
(* One handle: what a block, a message and finish() make of it.            *)

\* A handle is a record of its fields, and the steps, their pending calls and the error
\* counts fit together.
HandleFields == {"status", "finished", "subtype", "steps", "pending", "calls", "errors",
                 "errorFlags", "cost", "estimated", "nearBudget"}

HandleRecord(h) ==
  /\ h = [x \in HandleFields |-> h[x]]
  /\ h.status \in Statuses
  /\ h.finished \in BOOLEAN
  /\ h.finished <=> h.status # "running"

StepTypes(h) ==
  /\ h.steps \in Seq(StepRecords)
  /\ h.pending \in [Ids -> 0..Len(h.steps)]
  /\ h.errors \in [Names -> Nat]
  /\ h.errorFlags \subseteq Names

\* The step a result of the id would be given to.
Awaits(h, id) ==
  LET i == h.pending[id] IN
  i # 0 => /\ h.steps[i].kind = "tool"
           /\ h.steps[i].id = id
           /\ h.steps[i].name \in Names
           /\ ~h.steps[i].answered
           /\ ~h.steps[i].err
           /\ \A j \in i + 1..Len(h.steps) :
                h.steps[j].kind = "tool" => h.steps[j].id # id

\* The error counts of a name.
Counts(h, n) ==
  /\ h.errors[n] = Cardinality(ErrorsNamed(h, n))
  /\ n \in h.errorFlags <=> h.errors[n] > 0

HandleInv(h) ==
  /\ HandleRecord(h)
  /\ StepTypes(h)
  /\ \A id \in Ids : Awaits(h, id)
  /\ \A n \in Names : Counts(h, n)

SameEnd(g, h) == g.finished = h.finished /\ g.status = h.status

\* A handle starts without steps.
LEMMA NewHandleInv == HandleInv(NewHandle)
<1> DEFINE h == NewHandle
<1>1. HandleRecord(h)
  BY DEF HandleRecord, HandleFields, NewHandle, Statuses
<1>2. StepTypes(h)
  BY EmptySeq DEF StepTypes, NewHandle
<1>3. \A id \in Ids : Awaits(h, id)
  BY DEF Awaits, NewHandle
<1>4. \A n \in Names : Counts(h, n)
  <2>1. DOMAIN h.steps = {}
    BY DEF NewHandle
  <2>2. \A n \in Names : ErrorsNamed(h, n) = {}
    BY <2>1 DEF ErrorsNamed, ErrorSteps
  <2>3. Cardinality({}) = 0
    BY FS_EmptySet
  <2>4. \A n \in Names : h.errors[n] = 0 /\ n \notin h.errorFlags
    BY DEF NewHandle
  <2> HIDE DEF h
  <2> QED
    BY <2>2, <2>3, <2>4 DEF Counts
<1> QED
  BY <1>1, <1>2, <1>3, <1>4 DEF HandleInv

\* There are finitely many error steps.
LEMMA ErrorsFinite ==
  ASSUME NEW h, StepTypes(h), NEW n \in Names
  PROVE  /\ IsFiniteSet(ErrorsNamed(h, n))
         /\ ErrorsNamed(h, n) \subseteq 1..Len(h.steps)
         /\ Len(h.steps) \in Nat
<1>1. Len(h.steps) \in Nat /\ DOMAIN h.steps = 1..Len(h.steps)
  BY LenProperties DEF StepTypes
<1>2. ErrorsNamed(h, n) \in SUBSET (1..Len(h.steps))
  BY <1>1 DEF ErrorsNamed, ErrorSteps
<1>3. IsFiniteSet(1..Len(h.steps))
  BY <1>1, FS_Interval
<1> QED
  BY <1>1, <1>2, <1>3, FS_Subset

\* The step is an error that counts for the name.
CountsFor(s, n) == s.err = TRUE /\ s.name \in IF n = Unknown THEN {n, None} ELSE {n}

\* The steps of g are those of h and s.
Appended(h, g, s) ==
  /\ g.steps \in Seq(StepRecords)
  /\ Len(g.steps) = Len(h.steps) + 1
  /\ Len(h.steps) \in Nat
  /\ \A i \in 1..Len(h.steps) : g.steps[i] = h.steps[i]
  /\ g.steps[Len(h.steps) + 1] = s
  /\ \A n \in Names :
       ErrorsNamed(g, n) =
         IF CountsFor(s, n) THEN ErrorsNamed(h, n) \cup {Len(h.steps) + 1}
         ELSE ErrorsNamed(h, n)

\* A step is added at the end.
LEMMA AppendedStep ==
  ASSUME NEW h, StepTypes(h), NEW s \in StepRecords, NEW g,
         g.steps = Append(h.steps, s)
  PROVE  Appended(h, g, s)
<1>1. h.steps \in Seq(StepRecords)
  BY DEF StepTypes
<1>2. /\ g.steps \in Seq(StepRecords)
      /\ Len(g.steps) = Len(h.steps) + 1
      /\ \A i \in 1..Len(h.steps) : g.steps[i] = h.steps[i]
      /\ g.steps[Len(h.steps) + 1] = s
  BY <1>1, AppendProperties
<1>3. /\ Len(h.steps) \in Nat
      /\ DOMAIN h.steps = 1..Len(h.steps)
      /\ DOMAIN g.steps = 1..Len(h.steps) + 1
  BY <1>1, <1>2, LenProperties
<1>4. ASSUME NEW n \in Names
      PROVE  ErrorsNamed(g, n) =
                IF CountsFor(s, n)
                THEN ErrorsNamed(h, n) \cup {Len(h.steps) + 1} ELSE ErrorsNamed(h, n)
  <2>1. 1..Len(h.steps) + 1 = 1..Len(h.steps) \cup {Len(h.steps) + 1}
    BY <1>3
  <2>2. Len(h.steps) + 1 \notin 1..Len(h.steps)
    BY <1>3
  <2> DEFINE m == Len(h.steps)
  <2> HIDE DEF m
  <2> QED
    BY <1>2, <1>3, <2>1, <2>2 DEF ErrorsNamed, ErrorSteps, CountsFor, StepRecords, m
<1> QED
  BY <1>2, <1>3, <1>4 DEF Appended

\* What waits still waits when a step is added that is no call with its id.
LEMMA KeptAwaits ==
  ASSUME NEW h, StepTypes(h), NEW id \in Ids, Awaits(h, id), NEW g, NEW s,
         Len(g.steps) = Len(h.steps) + 1,
         \A i \in 1..Len(h.steps) : g.steps[i] = h.steps[i],
         g.steps[Len(h.steps) + 1] = s,
         s.kind # "tool" \/ s.id # id,
         g.pending[id] = h.pending[id]
  PROVE  Awaits(g, id)
<1> DEFINE m == Len(h.steps)
           i == h.pending[id]
<1>1. m \in Nat /\ i \in 0..m
  BY LenProperties DEF StepTypes
<1> HIDE DEF m, i
<1>2. i # 0 => i \in 1..m /\ g.steps[i] = h.steps[i]
  BY <1>1 DEF m
<1>3. \A j \in i + 1..m + 1 : (j \in i + 1..m /\ g.steps[j] = h.steps[j]) \/ j = m + 1
  BY <1>1 DEF m
<1> QED
  BY <1>1, <1>2, <1>3 DEF Awaits, m, i

\* A call is a step that waits for a result of its id, instead of an earlier one.
LEMMA CallKeeps ==
  ASSUME NEW h, HandleInv(h), NEW b \in [block : {"tool_use"}, id : Ids \cup {None}, name : Names]
  PROVE  HandleInv(ObserveCall(h, b)) /\ SameEnd(ObserveCall(h, b), h)
<1> DEFINE g == ObserveCall(h, b)
           s == Step("tool", b.name, b.id, FALSE)
           m == Len(h.steps)
<1>0. b.id \in Ids \cup {None} /\ b.name \in Names /\ None \notin Ids
  BY HandleConstants
<1>1. s \in StepRecords /\ s.kind = "tool" /\ s.name = b.name /\ s.id = b.id /\ s.err = FALSE
      /\ s.answered = FALSE
  BY <1>0 DEF StepRecords, Step
<1>2. /\ HandleRecord(g)
      /\ SameEnd(g, h)
      /\ g.steps = Append(h.steps, s)
      /\ g.pending = PendingAfterCall(h, b.id)
      /\ g.errors = h.errors
      /\ g.errorFlags = h.errorFlags
  BY DEF HandleInv, HandleRecord, HandleFields, ObserveCall, SameEnd
<1>3. StepTypes(h) /\ (\A id \in Ids : Awaits(h, id)) /\ (\A n \in Names : Counts(h, n))
  BY DEF HandleInv
<1> HIDE DEF g, s
<1>4. /\ g.steps \in Seq(StepRecords)
      /\ Len(g.steps) = m + 1
      /\ m \in Nat
      /\ \A i \in 1..m : g.steps[i] = h.steps[i]
      /\ g.steps[m + 1] = s
      /\ \A n \in Names : ErrorsNamed(g, n) = ErrorsNamed(h, n)
  <2> HIDE DEF m
  <2>1. Appended(h, g, s)
    BY <1>1, <1>2, <1>3, AppendedStep
  <2>2. \A n \in Names : ~CountsFor(s, n)
    BY <1>1 DEF CountsFor
  <2> QED
    BY <2>1, <2>2 DEF Appended, m
<1> HIDE DEF m
<1>5. \A id \in Ids : g.pending[id] = IF id = b.id THEN m + 1 ELSE h.pending[id]
  BY <1>0, <1>2, <1>3 DEF PendingAfterCall, m, StepTypes
<1>6. StepTypes(g)
  <2>1. g.pending \in [Ids -> 0..m + 1]
    BY <1>0, <1>2, <1>3, <1>4 DEF PendingAfterCall, m, StepTypes
  <2> QED
    BY <1>2, <1>3, <1>4, <2>1 DEF StepTypes
<1>7. ASSUME NEW id \in Ids PROVE Awaits(g, id)
  <2>1. CASE id = b.id
    BY <1>0, <1>1, <1>4, <1>5, <2>1 DEF Awaits
  <2>2. CASE id # b.id
    <3>1. g.pending[id] = h.pending[id]
      BY <1>5, <2>2
    <3> QED
      BY <1>1, <1>3, <1>4, <2>2, <3>1, KeptAwaits DEF m
  <2> QED BY <2>1, <2>2
<1>8. \A n \in Names : Counts(g, n)
  BY <1>2, <1>3, <1>4 DEF Counts
<1> QED
  BY <1>2, <1>6, <1>7, <1>8 DEF HandleInv, g

\* A text or a thought is a step of its own.
LEMMA OtherBlockKeeps ==
  ASSUME NEW h, HandleInv(h), NEW b \in [block : {"text", "thinking"}]
  PROVE  HandleInv(ObserveBlock(h, b)) /\ SameEnd(ObserveBlock(h, b), h)
<1> DEFINE g == ObserveBlock(h, b)
           s == Step(b.block, None, None, FALSE)
           m == Len(h.steps)
<1>1. s \in StepRecords /\ s.kind # "tool" /\ s.err = FALSE
  BY DEF StepRecords, Step
<1>2. /\ HandleRecord(g)
      /\ SameEnd(g, h)
      /\ g.steps = Append(h.steps, s)
      /\ g.pending = h.pending
      /\ g.errors = h.errors
      /\ g.errorFlags = h.errorFlags
  BY DEF HandleInv, HandleRecord, HandleFields, ObserveBlock, SameEnd
<1>3. StepTypes(h) /\ (\A id \in Ids : Awaits(h, id)) /\ (\A n \in Names : Counts(h, n))
  BY DEF HandleInv
<1> HIDE DEF g, s, m
<1>4. /\ g.steps \in Seq(StepRecords)
      /\ Len(g.steps) = m + 1
      /\ m \in Nat
      /\ \A i \in 1..m : g.steps[i] = h.steps[i]
      /\ g.steps[m + 1] = s
      /\ \A n \in Names : ErrorsNamed(g, n) = ErrorsNamed(h, n)
  <2>1. Appended(h, g, s)
    BY <1>1, <1>2, <1>3, AppendedStep
  <2>2. \A n \in Names : ~CountsFor(s, n)
    BY <1>1 DEF CountsFor
  <2> QED
    BY <2>1, <2>2 DEF Appended, m
<1>5. StepTypes(g)
  BY <1>2, <1>3, <1>4 DEF StepTypes, m
<1>6. ASSUME NEW id \in Ids PROVE Awaits(g, id)
  BY <1>1, <1>2, <1>3, <1>4, KeptAwaits DEF m
<1>7. \A n \in Names : Counts(g, n)
  BY <1>2, <1>3, <1>4 DEF Counts
<1> QED
  BY <1>2, <1>5, <1>6, <1>7 DEF HandleInv, g

\* A result of a call that is not pending: a step without a name, and its error counts
\* for "?".
LEMMA StrayResultKeeps ==
  ASSUME NEW h, HandleInv(h),
         NEW b \in [block : {"tool_result"}, id : Ids \cup {None}, err : BOOLEAN],
         b.id = None \/ h.pending[b.id] = 0
  PROVE  HandleInv(ObserveToolResult(h, b)) /\ SameEnd(ObserveToolResult(h, b), h)
<1> DEFINE g == ObserveToolResult(h, b)
           s == Step("tool_result", None, b.id, b.err)
           m == Len(h.steps)
<1>0. /\ b.id \in Ids \cup {None} /\ b.err \in BOOLEAN
      /\ None \notin Ids /\ None \notin Names /\ Unknown \in Names
  BY HandleConstants
<1>1. /\ s \in StepRecords /\ s.kind # "tool" /\ s.err = b.err /\ s.name = None
  BY <1>0 DEF StepRecords, Step
<1>3. StepTypes(h) /\ (\A id \in Ids : Awaits(h, id)) /\ (\A n \in Names : Counts(h, n))
  BY DEF HandleInv
<1>2. /\ HandleRecord(g)
      /\ SameEnd(g, h)
      /\ g.steps = Append(h.steps, s)
      /\ g.pending = PendingAfterResult(h, b.id)
      /\ g.errors = IF b.err THEN [h.errors EXCEPT ![Unknown] = @ + 1] ELSE h.errors
      /\ g.errorFlags = IF b.err THEN h.errorFlags \cup {Unknown} ELSE h.errorFlags
  BY <1>0, <1>3 DEF HandleInv, HandleRecord, HandleFields, ObserveToolResult, SameEnd, StepTypes
<1> HIDE DEF g, s, m
<1>p. g.pending = h.pending
  BY <1>0, <1>2, <1>3 DEF PendingAfterResult, StepTypes
<1>4. /\ g.steps \in Seq(StepRecords)
      /\ Len(g.steps) = m + 1
      /\ m \in Nat
      /\ \A i \in 1..m : g.steps[i] = h.steps[i]
      /\ g.steps[m + 1] = s
      /\ \A n \in Names :
           ErrorsNamed(g, n) = IF b.err = TRUE /\ n = Unknown
                               THEN ErrorsNamed(h, n) \cup {m + 1} ELSE ErrorsNamed(h, n)
  <2>1. Appended(h, g, s)
    BY <1>1, <1>2, <1>3, AppendedStep
  <2>2. \A n \in Names : CountsFor(s, n) <=> b.err = TRUE /\ n = Unknown
    BY <1>0, <1>1 DEF CountsFor
  <2> QED
    BY <2>1, <2>2 DEF Appended, m
<1>5. StepTypes(g)
  BY <1>0, <1>2, <1>p, <1>3, <1>4 DEF StepTypes, m
<1>6. ASSUME NEW id \in Ids PROVE Awaits(g, id)
  BY <1>1, <1>p, <1>3, <1>4, KeptAwaits DEF m
<1>7. ASSUME NEW n \in Names PROVE Counts(g, n)
  <2>1. CASE b.err = TRUE /\ n = Unknown
    <3>1. m + 1 \notin ErrorsNamed(h, n) /\ IsFiniteSet(ErrorsNamed(h, n))
      BY <1>3, <1>4, ErrorsFinite DEF m
    <3>2. Cardinality(ErrorsNamed(g, n)) = Cardinality(ErrorsNamed(h, n)) + 1
      BY <1>4, <2>1, <3>1, FS_AddElement
    <3>3. Counts(h, n) /\ h.errors[n] \in Nat /\ g.errors[n] = h.errors[n] + 1
      BY <1>2, <1>3, <2>1 DEF StepTypes
    <3>4. n \in g.errorFlags
      BY <1>2, <2>1
    <3> QED
      BY <3>2, <3>3, <3>4 DEF Counts
  <2>2. CASE ~(b.err = TRUE /\ n = Unknown)
    <3>1. g.errors[n] = h.errors[n] /\ (n \in g.errorFlags <=> n \in h.errorFlags)
      BY <1>0, <1>2, <1>3, <2>2 DEF StepTypes
    <3>2. ErrorsNamed(g, n) = ErrorsNamed(h, n) /\ Counts(h, n)
      BY <1>3, <1>4, <2>2
    <3> QED BY <3>1, <3>2 DEF Counts
  <2> QED BY <2>1, <2>2
<1> QED
  BY <1>2, <1>5, <1>6, <1>7 DEF HandleInv, g

\* A result of a pending call: the call is answered and waits no more.
LEMMA AnswerKeeps ==
  ASSUME NEW h, HandleInv(h),
         NEW b \in [block : {"tool_result"}, id : Ids \cup {None}, err : BOOLEAN],
         b.id # None, h.pending[b.id] # 0
  PROVE  HandleInv(ObserveToolResult(h, b)) /\ SameEnd(ObserveToolResult(h, b), h)
<1> DEFINE g == ObserveToolResult(h, b)
           i == h.pending[b.id]
           m == Len(h.steps)
           name == h.steps[i].name
<1>0. b.id \in Ids /\ b.err \in BOOLEAN /\ None \notin Names
  BY HandleConstants
<1>1. StepTypes(h) /\ (\A id \in Ids : Awaits(h, id)) /\ (\A n \in Names : Counts(h, n))
  BY DEF HandleInv
<1>2. /\ m \in Nat /\ i \in 1..m /\ DOMAIN h.steps = 1..m
      /\ \A j \in 1..m : h.steps[j] \in StepRecords
  BY <1>0, <1>1, LenProperties, ElementOfSeq DEF StepTypes
<1>3. /\ name \in Names /\ h.steps[i].kind = "tool" /\ h.steps[i].id = b.id
      /\ h.steps[i].err = FALSE
  BY <1>0, <1>1, <1>2 DEF Awaits, StepRecords
<1>4. /\ HandleRecord(g)
      /\ SameEnd(g, h)
      /\ g.steps = [h.steps EXCEPT ![i].answered = TRUE, ![i].err = b.err]
      /\ g.pending = PendingAfterResult(h, b.id)
      /\ g.errors = IF b.err THEN [h.errors EXCEPT ![name] = @ + 1] ELSE h.errors
      /\ g.errorFlags = IF b.err THEN h.errorFlags \cup {name} ELSE h.errorFlags
  <2>1. h.errors \in [Names -> Nat]
    BY <1>1 DEF StepTypes
  <2>2. HandleRecord(h)
    BY DEF HandleInv
  <2> DEFINE st == [h.steps EXCEPT ![i].answered = TRUE, ![i].err = b.err]
             pe == PendingAfterResult(h, b.id)
             er == [h.errors EXCEPT ![name] = IF b.err THEN @ + 1 ELSE @]
             fl == IF b.err THEN h.errorFlags \cup {name} ELSE h.errorFlags
  <2>3. g = [h EXCEPT !.steps = st, !.pending = pe, !.errors = er, !.errorFlags = fl]
    BY DEF ObserveToolResult
  <2> HIDE DEF g, st, pe, er, fl
  <2>4. h = [x \in HandleFields |-> h[x]]
    BY <2>2 DEF HandleRecord
  <2>5. /\ g = [x \in HandleFields |-> g[x]]
        /\ g.finished = h.finished /\ g.status = h.status
        /\ g.steps = st /\ g.pending = pe /\ g.errors = er /\ g.errorFlags = fl
    BY <2>3, <2>4 DEF HandleFields
  <2> HIDE DEF i, name
  <2>6. er = IF b.err THEN [h.errors EXCEPT ![name] = @ + 1] ELSE h.errors
    BY <2>1 DEF er
  <2> QED
    BY <2>2, <2>5, <2>6 DEF HandleRecord, SameEnd, st, pe, fl
<1> HIDE DEF g, m, i, name
<1>5. \A id \in Ids : g.pending[id] = IF id = b.id THEN 0 ELSE h.pending[id]
  BY <1>0, <1>1, <1>4 DEF PendingAfterResult, StepTypes
<1>6. /\ g.steps \in Seq(StepRecords)
      /\ Len(g.steps) = m
      /\ DOMAIN g.steps = 1..m
      /\ \A j \in 1..m \ {i} : g.steps[j] = h.steps[j]
      /\ g.steps[i].name = name /\ g.steps[i].err = b.err
  <2> DEFINE e == [h.steps[i] EXCEPT !.answered = TRUE, !.err = b.err]
  <2>1. e \in StepRecords /\ e.name = name /\ e.err = b.err
    BY <1>0, <1>2 DEF StepRecords, name
  <2>2. g.steps = [h.steps EXCEPT ![i] = e]
    BY <1>2, <1>4
  <2> HIDE DEF e
  <2>3. h.steps \in Seq(StepRecords) /\ i \in 1..Len(h.steps)
    BY <1>1, <1>2 DEF StepTypes, m
  <2>4. /\ [h.steps EXCEPT ![i] = e] \in Seq(StepRecords)
        /\ Len([h.steps EXCEPT ![i] = e]) = Len(h.steps)
    BY <2>1, <2>3, ExceptSeq
  <2> QED
    BY <1>2, <2>1, <2>2, <2>4 DEF m
<1>7. StepTypes(g)
  <2>1. g.pending \in [Ids -> 0..m]
    BY <1>0, <1>1, <1>2, <1>4 DEF PendingAfterResult, StepTypes, m
  <2>2. g.errors \in [Names -> Nat] /\ g.errorFlags \subseteq Names
    BY <1>1, <1>3, <1>4 DEF StepTypes
  <2> QED
    BY <1>6, <2>1, <2>2 DEF StepTypes
<1>8. ASSUME NEW id \in Ids PROVE Awaits(g, id)
  <2>1. CASE id = b.id
    BY <1>5, <2>1 DEF Awaits
  <2>2. CASE id # b.id
    <3> DEFINE k == h.pending[id]
    <3>1. g.pending[id] = k /\ k \in 0..m /\ Awaits(h, id) /\ Len(h.steps) = m
      BY <1>1, <1>5, <2>2 DEF StepTypes, m
    <3> HIDE DEF k
    <3>2. k # 0 => k # i /\ k \in 1..m /\ g.steps[k] = h.steps[k]
      BY <1>2, <1>3, <1>6, <2>2, <3>1 DEF Awaits, k
    <3>3. ASSUME k # 0, NEW j \in k + 1..m
          PROVE  g.steps[j].kind = "tool" => g.steps[j].id # id
      <4>1. j \in 1..m
        BY <1>2, <3>1, <3>3
      <4>2. CASE j = i
        <5>1. g.steps[i].id = b.id
          BY <1>2, <1>3, <1>4
        <5> QED BY <5>1, <4>2, <2>2
      <4>3. CASE j # i
        BY <4>1, <4>3, <1>6, <3>1, <3>3 DEF Awaits, k
      <4> QED BY <4>2, <4>3
    <3> QED
      BY <1>6, <3>1, <3>2, <3>3 DEF Awaits, k
  <2> QED BY <2>1, <2>2
<1>9. ASSUME NEW n \in Names PROVE Counts(g, n)
  <2>0. i \notin ErrorsNamed(h, n) /\ IsFiniteSet(ErrorsNamed(h, n))
    BY <1>1, <1>3, ErrorsFinite DEF ErrorsNamed, ErrorSteps
  <2>1. CASE b.err = TRUE /\ n = name
    <3>1. ErrorsNamed(g, n) = ErrorsNamed(h, n) \cup {i}
      BY <1>0, <1>2, <1>3, <1>6, <2>1 DEF ErrorsNamed, ErrorSteps
    <3>2. Cardinality(ErrorsNamed(g, n)) = Cardinality(ErrorsNamed(h, n)) + 1
      BY <2>0, <3>1, FS_AddElement
    <3>3. Counts(h, n) /\ h.errors[n] \in Nat /\ g.errors[n] = h.errors[n] + 1
      BY <1>1, <1>4, <2>1 DEF StepTypes
    <3>4. n \in g.errorFlags
      BY <1>4, <2>1
    <3> QED
      BY <3>2, <3>3, <3>4 DEF Counts
  <2>2. CASE ~(b.err = TRUE /\ n = name)
    <3>1. g.errors[n] = h.errors[n] /\ (n \in g.errorFlags <=> n \in h.errorFlags)
      BY <1>0, <1>1, <1>3, <1>4, <2>2 DEF StepTypes
    <3>2. i \notin ErrorsNamed(g, n)
      BY <1>0, <1>3, <1>6, <2>2 DEF ErrorsNamed, ErrorSteps
    <3>3. ErrorsNamed(g, n) = ErrorsNamed(h, n) /\ Counts(h, n)
      BY <1>1, <1>2, <1>6, <2>0, <3>2 DEF ErrorsNamed, ErrorSteps
    <3> QED BY <3>1, <3>3 DEF Counts
  <2> QED BY <2>1, <2>2
<1> QED
  BY <1>4, <1>7, <1>8, <1>9 DEF HandleInv, g

\* One block, whichever it is.
LEMMA BlockKeeps ==
  ASSUME NEW h, HandleInv(h), NEW b \in BlockRecords
  PROVE  HandleInv(ObserveBlock(h, b)) /\ SameEnd(ObserveBlock(h, b), h)
<1>1. CASE b \in [block : {"tool_use"}, id : Ids \cup {None}, name : Names]
  <2>1. ObserveBlock(h, b) = ObserveCall(h, b)
    BY <1>1 DEF ObserveBlock
  <2> QED BY <2>1, <1>1, CallKeeps
<1>2. CASE b \in [block : {"tool_result"}, id : Ids \cup {None}, err : BOOLEAN]
  <2>1. ObserveBlock(h, b) = ObserveToolResult(h, b)
    BY <1>2 DEF ObserveBlock
  <2> QED BY <2>1, <1>2, StrayResultKeeps, AnswerKeeps
<1>3. CASE b \in [block : {"text", "thinking"}]
  BY <1>3, OtherBlockKeeps
<1> QED
  BY <1>1, <1>2, <1>3 DEF BlockRecords

-----------------------------------------------------------------------------
(* All blocks of a message.                                                *)

\* The handles ObserveBlocks goes through, as a function.
BlocksSeen(f, h, blocks, k) ==
  f = [i \in 0..k |-> IF i = 0 THEN h ELSE ObserveBlock(f[i - 1], blocks[i])]

\* They exist, however many blocks there are.
LEMMA BlocksSeenExist ==
  ASSUME NEW h, NEW blocks, NEW k \in Nat
  PROVE  \E f : BlocksSeen(f, h, blocks, k)
<1> DEFINE T == {n \in Nat : \E f : BlocksSeen(f, h, blocks, n)}
<1>1. 0 \in T
  <2>1. BlocksSeen([i \in 0..0 |-> h], h, blocks, 0)
    BY DEF BlocksSeen
  <2> QED
    BY <2>1
<1>2. ASSUME NEW n \in Nat, n \in T
      PROVE  n + 1 \in T
  <2>1. PICK f : BlocksSeen(f, h, blocks, n)
    BY <1>2
  <2> DEFINE g == [i \in 0..n + 1 |->
                     IF i = n + 1 THEN ObserveBlock(f[n], blocks[n + 1]) ELSE f[i]]
  <2>2. \A i \in 0..n : f[i] = IF i = 0 THEN h ELSE ObserveBlock(f[i - 1], blocks[i])
    BY <2>1 DEF BlocksSeen
  <2>3. ASSUME NEW i \in 0..n + 1
        PROVE  g[i] = IF i = 0 THEN h ELSE ObserveBlock(g[i - 1], blocks[i])
    <3>1. CASE i = n + 1
      <4>1. g[i] = ObserveBlock(f[n], blocks[n + 1]) /\ g[i - 1] = f[n] /\ i # 0
        BY <3>1
      <4> QED
        BY <4>1, <3>1
    <3>2. CASE i \in 0..n
      <4>1. g[i] = f[i] /\ (i # 0 => g[i - 1] = f[i - 1])
        BY <3>2
      <4> QED
        BY <4>1, <3>2, <2>2
    <3> QED
      BY <3>1, <3>2
  <2>4. BlocksSeen(g, h, blocks, n + 1)
    BY <2>3 DEF BlocksSeen
  <2>5. \E x : BlocksSeen(x, h, blocks, n + 1)
    BY <2>4
  <2> QED
    BY <2>5
<1>3. k \in T
  <2> HIDE DEF T
  <2> QED
    BY <1>1, <1>2, SetInduction
<1> QED
  BY <1>3

\* A message's blocks, or the first of them, keep the handle's invariant.
LEMMA BlocksKeep ==
  ASSUME NEW h, HandleInv(h), NEW blocks \in Seq(BlockRecords), NEW k \in 0..Len(blocks)
  PROVE  HandleInv(ObserveBlocks(h, blocks, k)) /\ SameEnd(ObserveBlocks(h, blocks, k), h)
<1> DEFINE after == CHOOSE f : BlocksSeen(f, h, blocks, k)
           T == {n \in Nat : n <= k => HandleInv(after[n]) /\ SameEnd(after[n], h)}
<1>0. k \in Nat /\ \A i \in 1..k : blocks[i] \in BlockRecords
  BY LenProperties, ElementOfSeq
<1>1. BlocksSeen(after, h, blocks, k)
  BY <1>0, BlocksSeenExist
<1>2. ObserveBlocks(h, blocks, k) = after[k]
  BY DEF ObserveBlocks, BlocksSeen
<1> HIDE DEF after
<1>3. \A i \in 0..k : after[i] = IF i = 0 THEN h ELSE ObserveBlock(after[i - 1], blocks[i])
  BY <1>1 DEF BlocksSeen
<1>4. 0 \in T
  <2>1. after[0] = h
    BY <1>0, <1>3
  <2> QED
    BY <2>1 DEF SameEnd
<1>5. ASSUME NEW n \in Nat, n \in T
      PROVE  n + 1 \in T
  <2>1. SUFFICES ASSUME n + 1 <= k
                 PROVE  HandleInv(after[n + 1]) /\ SameEnd(after[n + 1], h)
    OBVIOUS
  <2>2. HandleInv(after[n]) /\ SameEnd(after[n], h)
    BY <1>0, <1>5, <2>1
  <2>3. after[n + 1] = ObserveBlock(after[n], blocks[n + 1]) /\ blocks[n + 1] \in BlockRecords
    BY <1>0, <1>3, <2>1
  <2>4. HandleInv(after[n + 1]) /\ SameEnd(after[n + 1], after[n])
    BY <2>2, <2>3, BlockKeeps
  <2> QED
    BY <2>2, <2>4 DEF SameEnd
<1>6. k \in T
  <2> HIDE DEF T
  <2> QED
    BY <1>0, <1>4, <1>5, SetInduction
<1> QED
  BY <1>2, <1>6

\* The invariant is about the steps, their pending calls and the error counts.
LEMMA SameStepsKeep ==
  ASSUME NEW h, HandleInv(h), NEW g, HandleRecord(g),
         g.steps = h.steps, g.pending = h.pending, g.errors = h.errors,
         g.errorFlags = h.errorFlags
  PROVE  HandleInv(g)
<1>1. StepTypes(g)
  BY DEF HandleInv, StepTypes
<1>2. \A id \in Ids : Awaits(g, id)
  BY DEF HandleInv, Awaits
<1>3. \A n : ErrorsNamed(g, n) = ErrorsNamed(h, n)
  BY DEF ErrorsNamed, ErrorSteps
<1>4. \A n \in Names : Counts(g, n)
  BY <1>3 DEF HandleInv, Counts
<1> QED
  BY <1>1, <1>2, <1>4 DEF HandleInv

\* So does any part of any message.
LEMMA PartsKeep ==
  ASSUME NEW h, HandleInv(h), NEW m \in Messages, NEW k \in 0..Parts(m)
  PROVE  HandleInv(ObserveParts(h, m, k)) /\ SameEnd(ObserveParts(h, m, k), h)
<1>1. CASE m.kind = "blocks"
  <2>1. m.blocks \in Seq(BlockRecords) /\ k \in 0..Len(m.blocks)
    BY <1>1, CollectorConstants DEF Parts
  <2>2. ObserveParts(h, m, k) = ObserveBlocks(h, m.blocks, k)
    BY <1>1 DEF ObserveParts
  <2> QED
    BY <2>1, <2>2, BlocksKeep
<1>2. \A x : HandleInv(x) =>
        /\ HandleInv(ApplySubtype(x, m)) /\ SameEnd(ApplySubtype(x, m), x)
        /\ HandleInv(ApplyCost(x, m)) /\ SameEnd(ApplyCost(x, m), x)
  <2> SUFFICES ASSUME NEW x, HandleInv(x),
                      NEW g \in {ApplySubtype(x, m), ApplyCost(x, m)}
               PROVE  HandleInv(g) /\ SameEnd(g, x)
    OBVIOUS
  <2>1. HandleRecord(x)
    BY DEF HandleInv
  <2>2. /\ HandleRecord(g) /\ SameEnd(g, x)
        /\ g.steps = x.steps /\ g.pending = x.pending /\ g.errors = x.errors
        /\ g.errorFlags = x.errorFlags
    BY <2>1 DEF HandleRecord, HandleFields, SameEnd, ApplySubtype, ApplyCost
  <2> QED
    BY <2>2, SameStepsKeep
<1>3. CASE m.kind # "blocks"
  <2>1. \/ ObserveParts(h, m, k) = h
        \/ ObserveParts(h, m, k) = ApplySubtype(h, m)
        \/ ObserveParts(h, m, k) = ApplyCost(ApplySubtype(h, m), m)
    BY <1>3 DEF ObserveParts
  <2> QED
    BY <2>1, <1>2 DEF SameEnd
<1> QED
  BY <1>1, <1>3

\* finish() decides once: a handle that is finished stays as it is, and one that finishes
\* with an error is failed.
LEMMA FinishKeeps ==
  ASSUME NEW h, HandleInv(h), NEW error \in BOOLEAN
  PROVE  /\ HandleInv(Finish(h, error))
         /\ Finish(h, error).finished
         /\ Finish(h, error).status \in Statuses \ {"running"}
         /\ h.finished => Finish(h, error) = h
         /\ ~h.finished /\ error => Finish(h, error).status = "failed"
<1>1. HandleRecord(h)
  BY DEF HandleInv
<1>2. CASE h.finished
  BY <1>1, <1>2 DEF Finish, HandleRecord
<1>3. CASE ~h.finished
  <2> DEFINE g == FinishedHandle(h, error)
             s == IF error THEN "failed" ELSE StatusOfSubtype(h.subtype)
  <2>1. Finish(h, error) = g
    BY <1>3 DEF Finish
  <2>2. s \in Statuses \ {"running"}
    BY DEF Statuses, StatusOfSubtype
  <2>3. /\ g = [x \in HandleFields |-> g[x]]
        /\ g.finished = TRUE /\ g.status = s
        /\ g.steps = h.steps /\ g.pending = h.pending /\ g.errors = h.errors
        /\ g.errorFlags = h.errorFlags
    BY <1>1 DEF HandleRecord, HandleFields, FinishedHandle
  <2> HIDE DEF g
  <2>4. HandleRecord(g)
    <3> HIDE DEF s
    <3> QED
      BY <2>2, <2>3 DEF HandleRecord
  <2>5. HandleInv(g)
    BY <2>3, <2>4, SameStepsKeep
  <2>6. g.finished /\ g.status \in Statuses \ {"running"} /\ (error => g.status = "failed")
    BY <2>2, <2>3
  <2> QED
    BY <1>3, <2>1, <2>5, <2>6
<1> QED
  BY <1>2, <1>3

-----------------------------------------------------------------------------
(* What the handles, and the rows built from them, hold.                   *)

\* The handles, the rows and the streams' targets.
Rows(h) == {row[h][i] : i \in DOMAIN row[h]}

ObservedTypes ==
  /\ handle = [h \in Handles |-> handle[h]]
  /\ target \in [Streams -> Handles \cup {None}]
  /\ \A q \in Streams : streamPc[q] = "open" => target[q] \in Handles
  /\ raised \subseteq Handles

\* What is open has not finished, and the rows of what raised say so.
EndsAreKept ==
  /\ \A r \in Runs : runPc[r] \in {"idle", "open"} => ~handle[r].finished /\ r \notin raised
  /\ \A q \in Streams : streamPc[q] # "closed" => ~handle[q].finished
  /\ \A h \in Handles : \A x \in Rows(h) :
       /\ x.status \in Statuses \ {"running"}
       /\ h \in raised => x.status = "failed"

ObservedInv ==
  /\ ObservedTypes
  /\ \A h \in Handles : HandleInv(handle[h])
  /\ EndsAreKept

\* Nothing has been observed at first.
LEMMA InitObservedInv == Init => ObservedInv
<1> SUFFICES ASSUME Init
             PROVE  ObservedInv
  OBVIOUS
<1>1. ObservedTypes
  BY DEF Init, ObservedTypes
<1>2. \A h \in Handles : handle[h] = NewHandle
  BY DEF Init
<1>3. ~NewHandle.finished
  BY DEF NewHandle
<1>4. \A h \in Handles : Rows(h) = {}
  BY DEF Init, Rows
<1>5. EndsAreKept
  BY <1>2, <1>3, <1>4 DEF Init, EndsAreKept, Handles
<1> QED
  BY <1>1, <1>2, <1>5, NewHandleInv DEF ObservedInv

\* A handle that ends while it is open, with its row or without, with an error or without.
LEMMA EndKeeps ==
  ASSUME ObservedInv, EndTypes, NEW h \in Handles, row[h] = <<>>, ~handle[h].finished,
         NEW error \in BOOLEAN, h \in raised => error, NEW final, HandleInv(final),
         handle' = [handle EXCEPT ![h] = final],
         raised' = IF error THEN raised \cup {h} ELSE raised,
         error => final.status = "failed",
         \/ row' = Finalized(h, final) /\ final.status \in Statuses \ {"running"}
         \/ row' = row,
         \A r \in Runs : runPc'[r] \in {"idle", "open"} => r # h /\ runPc[r] \in {"idle", "open"},
         \A q \in Streams : streamPc'[q] # "closed" => q # h /\ streamPc[q] # "closed"
  PROVE  /\ handle' = [g \in Handles |-> handle'[g]]
         /\ raised' \subseteq Handles
         /\ \A g \in Handles : HandleInv(handle'[g])
         /\ EndsAreKept'
<1>1. /\ handle = [g \in Handles |-> handle[g]] /\ raised \subseteq Handles
      /\ \A g \in Handles : HandleInv(handle[g])
      /\ EndsAreKept
  BY DEF ObservedInv, ObservedTypes
<1>2. /\ handle'[h] = final
      /\ \A g \in Handles \ {h} : handle'[g] = handle[g]
      /\ handle' = [g \in Handles |-> handle'[g]]
  BY <1>1
<1>3. h \in raised' => error
  OBVIOUS
<1>4. /\ Rows(h)' \subseteq {final}
      /\ Rows(h)' # {} => final.status \in Statuses \ {"running"}
      /\ \A g \in Handles \ {h} : Rows(g)' = Rows(g)
  <2>1. CASE row' = Finalized(h, final) /\ final.status \in Statuses \ {"running"}
    <3>1. row' = [row EXCEPT ![h] = <<final>>]
      BY <2>1 DEF Finalized
    <3>2. row'[h] = <<final>> /\ \A g \in Handles \ {h} : row'[g] = row[g]
      BY <3>1 DEF EndTypes
    <3> QED
      BY <2>1, <3>2 DEF Rows
  <2>2. CASE row' = row
    BY <2>2 DEF Rows
  <2> QED
    BY <2>1, <2>2
<1>5. \A r \in Runs :
        runPc'[r] \in {"idle", "open"} => ~handle'[r].finished /\ r \notin raised'
  BY <1>1, <1>2 DEF EndsAreKept, Handles
<1>6. \A q \in Streams : streamPc'[q] # "closed" => ~handle'[q].finished
  BY <1>1, <1>2 DEF EndsAreKept, Handles
<1>8. \A g \in Handles : \A x \in Rows(g)' :
        /\ x.status \in Statuses \ {"running"}
        /\ g \in raised' => x.status = "failed"
  <2>1. ASSUME NEW x \in Rows(h)'
        PROVE  x.status \in Statuses \ {"running"} /\ (h \in raised' => x.status = "failed")
    BY <1>3, <1>4, <2>1
  <2>2. ASSUME NEW g \in Handles \ {h}, NEW x \in Rows(g)'
        PROVE  x.status \in Statuses \ {"running"} /\ (g \in raised' => x.status = "failed")
    BY <1>1, <1>4, <2>2 DEF EndsAreKept
  <2> QED
    BY <2>1, <2>2
<1>9. EndsAreKept'
  BY <1>5, <1>6, <1>8 DEF EndsAreKept
<1> QED
  BY <1>1, <1>2, <1>9

\* Every step keeps what the handles have observed.
LEMMA StepObservedInv == ObservedInv /\ EndInv /\ [Next]_vars => ObservedInv'
<1> SUFFICES ASSUME ObservedInv, EndInv, [Next]_vars
             PROVE  ObservedInv'
  OBVIOUS
<1>0. EndTypes /\ EndedIsFinalized /\ ContextTypes /\ ContextsChain
  BY DEF EndInv
<1>1. ASSUME UNCHANGED <<runPc, streamPc, target, handle, row, raised>>
      PROVE  ObservedInv'
  BY <1>1 DEF ObservedInv, ObservedTypes, EndsAreKept, Rows
<1>2. ASSUME NEW t \in Tasks, NEW r \in Runs, EnterRun(t, r)
      PROVE  ObservedInv'
  <2>1. /\ UNCHANGED <<streamPc, target, handle, row, raised>>
        /\ runPc[r] = "idle" /\ runPc' = [runPc EXCEPT ![r] = "open"]
    BY <1>2 DEF EnterRun, historyVars
  <2>2. \A x \in Runs : runPc'[x] \in {"idle", "open"} => runPc[x] \in {"idle", "open"}
    BY <1>0, <2>1 DEF EndTypes
  <2> QED
    BY <2>1, <2>2 DEF ObservedInv, ObservedTypes, EndsAreKept, Rows
<1>3. ASSUME NEW t \in Tasks, NEW r \in Runs, NEW exc \in BOOLEAN, ExitRun(t, r, exc)
      PROVE  ObservedInv'
  <2> DEFINE caught == IF exc THEN Finish(handle[r], TRUE) ELSE handle[r]
             final == Finish(caught, FALSE)
  <2>1. /\ runPc[r] = "open" /\ row[r] = <<>> /\ r \in Handles /\ r \notin Streams
        /\ ~handle[r].finished /\ HandleInv(handle[r]) /\ r \notin raised
    BY <1>0, <1>3, LeftIsOpen, NotFinalizedYet, CollectorConstants
    DEF ObservedInv, EndsAreKept, Handles
  <2>2. /\ runPc' = [runPc EXCEPT ![r] = "closed"]
        /\ handle' = [handle EXCEPT ![r] = final]
        /\ row' = Finalized(r, final)
        /\ raised' = IF exc THEN raised \cup {r} ELSE raised
        /\ UNCHANGED <<streamPc, target>>
    BY <1>3 DEF ExitRun
  <2>3. HandleInv(caught) /\ (exc => caught.finished /\ caught.status = "failed")
    BY <2>1, FinishKeeps
  <2> HIDE DEF caught
  <2>4. /\ HandleInv(final) /\ final.finished
        /\ final.status \in Statuses \ {"running"}
        /\ exc => final.status = "failed"
    BY <2>3, FinishKeeps
  <2> HIDE DEF final
  <2>5. \A x \in Runs :
          runPc'[x] \in {"idle", "open"} => x # r /\ runPc[x] \in {"idle", "open"}
    BY <1>0, <2>2 DEF EndTypes
  <2>6. \A q \in Streams : streamPc'[q] # "closed" => q # r /\ streamPc[q] # "closed"
    BY <2>1, <2>2
  <2>7. /\ handle' = [g \in Handles |-> handle'[g]]
        /\ raised' \subseteq Handles
        /\ \A g \in Handles : HandleInv(handle'[g])
        /\ EndsAreKept'
    BY <1>0, <2>1, <2>2, <2>4, <2>5, <2>6, EndKeeps
  <2> QED
    BY <2>2, <2>7 DEF ObservedInv, ObservedTypes
<1>4. ASSUME NEW t \in Tasks, NEW r \in Runs, NEW exc \in BOOLEAN,
             ExitRunElsewhere(t, r, exc)
      PROVE  ObservedInv'
  <2> DEFINE final == IF exc THEN Finish(handle[r], TRUE) ELSE handle[r]
  <2>1. /\ runPc[r] = "open" /\ row[r] = <<>> /\ r \in Handles /\ r \notin Streams
        /\ ~handle[r].finished /\ HandleInv(handle[r]) /\ r \notin raised
    BY <1>0, <1>4, LeftIsOpen, NotFinalizedYet, CollectorConstants
    DEF ObservedInv, EndsAreKept, Handles
  <2>2. /\ runPc' = [runPc EXCEPT ![r] = "unreset"]
        /\ handle' = [handle EXCEPT ![r] = final]
        /\ row' = row
        /\ raised' = IF exc THEN raised \cup {r} ELSE raised
        /\ UNCHANGED <<streamPc, target>>
    BY <1>4 DEF ExitRunElsewhere, ObservedInv, ObservedTypes
  <2>3. HandleInv(final) /\ (exc => final.finished /\ final.status = "failed")
    BY <2>1, FinishKeeps
  <2> HIDE DEF final
  <2>4. \A x \in Runs :
          runPc'[x] \in {"idle", "open"} => x # r /\ runPc[x] \in {"idle", "open"}
    BY <1>0, <2>2 DEF EndTypes
  <2>5. \A q \in Streams : streamPc'[q] # "closed" => q # r /\ streamPc[q] # "closed"
    BY <2>1, <2>2
  <2>6. /\ handle' = [g \in Handles |-> handle'[g]]
        /\ raised' \subseteq Handles
        /\ \A g \in Handles : HandleInv(handle'[g])
        /\ EndsAreKept'
    BY <1>0, <2>1, <2>2, <2>3, <2>4, <2>5, EndKeeps
  <2> QED
    BY <2>2, <2>6 DEF ObservedInv, ObservedTypes
<1>5. ASSUME NEW t \in Tasks, NEW q \in Streams, OpenStream(t, q)
      PROVE  ObservedInv'
  <2>1. /\ UNCHANGED <<runPc, handle, row, raised>>
        /\ streamPc[q] = "idle" /\ streamPc' = [streamPc EXCEPT ![q] = "open"]
    BY <1>5 DEF OpenStream, historyVars
  <2>2. PICK h \in Handles : target' = [target EXCEPT ![q] = h]
    BY <1>0, <1>5 DEF OpenStream, ContextTypes, Handles
  <2>3. \A x \in Streams : streamPc'[x] # "closed" => streamPc[x] # "closed"
    BY <1>0, <2>1 DEF EndTypes
  <2>4. ObservedTypes'
    BY <1>0, <2>1, <2>2 DEF ObservedInv, ObservedTypes, EndTypes
  <2>5. EndsAreKept'
    BY <2>1, <2>3 DEF ObservedInv, EndsAreKept, Rows
  <2> QED
    BY <2>1, <2>4, <2>5 DEF ObservedInv
<1>6. ASSUME NEW q \in Streams, NEW m \in Messages, NEW k \in 0..Parts(m), Deliver(q, m, k)
      PROVE  ObservedInv'
  <2> DEFINE h == target[q]
             g == ObserveParts(handle[h], m, k)
  <2>1. h \in Handles /\ HandleInv(handle[h])
    BY <1>6 DEF Deliver, ObservedInv, ObservedTypes
  <2>2. HandleInv(g) /\ SameEnd(g, handle[h])
    BY <2>1, PartsKeep
  <2>3. /\ handle' = [handle EXCEPT ![h] = g]
        /\ UNCHANGED <<runPc, streamPc, target, row, raised>>
    BY <1>6 DEF Deliver
  <2> HIDE DEF h, g
  <2>4. /\ handle' = [x \in Handles |-> handle'[x]]
        /\ \A x \in Handles : HandleInv(handle'[x]) /\ SameEnd(handle'[x], handle[x])
    BY <2>1, <2>2, <2>3 DEF ObservedInv, ObservedTypes, SameEnd
  <2>5. /\ \A x \in Handles : handle'[x].finished = handle[x].finished
        /\ \A x \in Handles : handle'[x].status = handle[x].status
    BY <2>4 DEF SameEnd
  <2>6. /\ \A r \in Runs :
             runPc'[r] \in {"idle", "open"} => ~handle'[r].finished /\ r \notin raised'
        /\ \A x \in Streams : streamPc'[x] # "closed" => ~handle'[x].finished
    BY <2>3, <2>5 DEF ObservedInv, EndsAreKept, Handles
  <2>8. EndsAreKept'
    BY <2>3, <2>6 DEF ObservedInv, EndsAreKept, Rows
  <2> QED
    BY <2>3, <2>4, <2>8 DEF ObservedInv, ObservedTypes
<1>7. ASSUME NEW q \in Streams, FinishStream(q)
      PROVE  ObservedInv'
  <2> DEFINE error == q \in raised
             final == Finish(handle[q], error)
  <2>1. /\ streamPc[q] = "closing" /\ row[q] = <<>> /\ q \in Handles /\ q \notin Runs
        /\ ~handle[q].finished /\ HandleInv(handle[q])
    BY <1>0, <1>7, NotFinalizedYet, CollectorConstants
    DEF FinishStream, ObservedInv, EndsAreKept, Handles
  <2>2. /\ streamPc' = [streamPc EXCEPT ![q] = "closed"]
        /\ UNCHANGED <<runPc, target, raised>>
    BY <1>7 DEF FinishStream, historyVars
  <2>3. \A x \in Streams : streamPc'[x] # "closed" => x # q /\ streamPc[x] # "closed"
    BY <1>0, <2>2 DEF EndTypes
  <2>4. \A x \in Streams : streamPc'[x] = "open" => streamPc[x] = "open"
    BY <1>0, <2>2 DEF EndTypes
  <2>5. CASE target[q] = q
    <3>1. /\ handle' = [handle EXCEPT ![q] = final]
          /\ row' = Finalized(q, final)
          /\ raised' = IF error THEN raised \cup {q} ELSE raised
          /\ q \in raised => error
      BY <1>7, <2>2, <2>5 DEF FinishStream, FinalizesStream
    <3>2. error \in BOOLEAN
      OBVIOUS
    <3> HIDE DEF error
    <3>3. /\ HandleInv(final) /\ final.finished
          /\ final.status \in Statuses \ {"running"}
          /\ error => final.status = "failed"
      BY <2>1, <3>2, FinishKeeps
    <3> HIDE DEF final
    <3>4. /\ handle' = [g \in Handles |-> handle'[g]]
          /\ raised' \subseteq Handles
          /\ \A g \in Handles : HandleInv(handle'[g])
          /\ EndsAreKept'
      BY <1>0, <2>1, <2>2, <2>3, <3>1, <3>2, <3>3, EndKeeps
    <3> QED
      BY <2>2, <2>4, <3>4 DEF ObservedInv, ObservedTypes
  <2>6. CASE target[q] # q
    <3>1. UNCHANGED <<handle, row>>
      BY <1>7, <2>6 DEF FinishStream, FinalizesStream
    <3> QED
      BY <2>2, <2>3, <2>4, <3>1 DEF ObservedInv, ObservedTypes, EndsAreKept, Rows
  <2> QED
    BY <2>5, <2>6
<1>8. ASSUME NEW t \in Tasks, NEW u \in Tasks, Spawn(t, u)
      PROVE  ObservedInv'
  BY <1>8, <1>1 DEF Spawn, historyVars
<1>9. ASSUME NEW q \in Streams, (\E how : CloseStream(q, how)) \/ LoseStream(q)
      PROVE  ObservedInv'
  <2>1. PICK to \in {"closing", "lost"} : streamPc' = [streamPc EXCEPT ![q] = to]
    BY <1>9 DEF CloseStream, LoseStream
  <2>2. /\ streamPc[q] # "closed" /\ UNCHANGED <<runPc, target, handle, row>>
        /\ raised' = raised \/ raised' = raised \cup {q}
    BY <1>9 DEF CloseStream, LoseStream, historyVars
  <2>3. row[q] = <<>> /\ q \in Handles /\ q \notin Runs
    BY <1>0, <2>2, NotFinalizedYet, CollectorConstants DEF Handles
  <2>4. Rows(q) = {}
    BY <2>3 DEF Rows
  <2>5. \A h \in Handles : \A x \in Rows(h) : h \in raised' => h \in raised
    BY <2>2, <2>4
  <2>6. \A x \in Streams : /\ streamPc'[x] # "closed" => streamPc[x] # "closed"
                           /\ streamPc'[x] = "open" => streamPc[x] = "open"
    BY <1>0, <2>1, <2>2 DEF EndTypes
  <2>7. \A h \in Handles : Rows(h)' = Rows(h)
    BY <2>2 DEF Rows
  <2>8. EndsAreKept'
    BY <2>2, <2>3, <2>5, <2>6, <2>7 DEF ObservedInv, EndsAreKept
  <2>9. ObservedTypes'
    BY <2>2, <2>3, <2>6 DEF ObservedInv, ObservedTypes
  <2> QED
    BY <2>2, <2>8, <2>9 DEF ObservedInv
<1>10. CASE UNCHANGED vars
  BY <1>10, <1>1 DEF vars
<1> QED
  BY <1>2, <1>3, <1>4, <1>5, <1>6, <1>7, <1>8, <1>9, <1>10 DEF Next, TaskStep, StreamStep

\* The handles' invariant in every reachable state.
LEMMA AlwaysObserved == Spec => [](ObservedInv /\ EndInv)
<1>1. EndInv /\ AmbientIsInnermost /\ [Next]_vars => EndInv'
  BY StepEndInv
<1> QED
  BY <1>1, InitEndInv, InitObservedInv, StepObservedInv, AmbientRunIsInnermost, PTL DEF Spec

\* A run that raised is stored as failed, by whichever way it ended and whatever its
\* results had said.
THEOREM RaisedRunsAreFailed == Spec => []RaisedIsFailed
<1>1. ObservedInv => RaisedIsFailed
  BY DEF ObservedInv, ObservedTypes, EndsAreKept, RaisedIsFailed, Rows
<1> QED
  BY <1>1, AlwaysObserved, PTL

\* The error counts are the number of error steps, for messages of any length that are
\* observed up to any block.
THEOREM ErrorCountsAddUp == Spec => []ErrorsAddUp
<1>1. ObservedInv => ErrorsAddUp
  BY DEF ObservedInv, HandleInv, Counts, ErrorsAddUp
<1> QED
  BY <1>1, AlwaysObserved, PTL

\* A result goes to the latest call of its id, also when ids come again.
THEOREM ResultsAnswerLatestCall == Spec => []PendingIsLatestCall
<1>1. ObservedInv => PendingIsLatestCall
  BY DEF ObservedInv, HandleInv, Awaits, PendingIsLatestCall
<1> QED
  BY <1>1, AlwaysObserved, PTL

\* Every variable has its type.
THEOREM CollectorTypeOK == Spec => []TypeOK
<1>1. ASSUME ObservedInv, EndInv
      PROVE  TypeOK
  <2>1. ContextTypes /\ EndTypes /\ ObservedTypes
    BY <1>1 DEF EndInv, ObservedInv
  <2>2. \A t \in Tasks : ToSet(bodies[t]) \subseteq Runs
    BY <2>1, LenProperties, ElementOfSeq DEF ContextTypes, ToSet
  <2>3. ASSUME NEW h \in Handles
        PROVE  /\ handle[h].status \in Statuses
               /\ ToSet(handle[h].steps) \subseteq StepRecords
               /\ handle[h].pending \in [Ids -> 0..Len(handle[h].steps)]
               /\ \A i \in DOMAIN row[h] : row[h][i].status \in Statuses \ {"running"}
    <3>1. HandleRecord(handle[h]) /\ StepTypes(handle[h])
      BY <1>1 DEF ObservedInv, HandleInv
    <3>2. ToSet(handle[h].steps) \subseteq StepRecords
      BY <3>1, LenProperties, ElementOfSeq DEF StepTypes, ToSet
    <3>3. \A x \in Rows(h) : x.status \in Statuses \ {"running"}
      BY <1>1 DEF ObservedInv, EndsAreKept
    <3> QED
      BY <3>1, <3>2, <3>3 DEF HandleRecord, StepTypes, Rows
  <2> QED
    BY <2>1, <2>2, <2>3 DEF TypeOK, ContextTypes, EndTypes, ObservedTypes
<1> QED
  BY <1>1, AlwaysObserved, PTL
=============================================================================
