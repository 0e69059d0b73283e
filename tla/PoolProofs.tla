----------------------------- MODULE PoolProofs -----------------------------
(***************************************************************************)
(* What Pool promises, for every number of writers and any size of the     *)
(* pool.                                                                   *)
(***************************************************************************)
EXTENDS Pool, FiniteSetTheorems, TLAPS

\* The users of a pool are a finite set.
LEMMA InUseFinite ==
  ASSUME NEW p
  PROVE  IsFiniteSet(InUse(p))
  BY PoolAssumption, FS_Subset DEF InUse

\* One more busy writer is one more connection in use.
LEMMA OneMoreInUse ==
  ASSUME NEW S, IsFiniteSet(S), NEW t, NEW n \in Nat, Cardinality(S) < n
  PROVE  Cardinality(S \cup {t}) <= n
  <1>1. Cardinality(S) \in Nat
    BY FS_CardinalityType
  <1>2. CASE t \in S
    <2>1. S \cup {t} = S
      BY <1>2
    <2> QED BY <1>1, <2>1
  <1>3. CASE t \notin S
    BY <1>1, <1>3, FS_AddElement
  <1> QED BY <1>2, <1>3

\* Fewer busy writers are fewer connections in use.
LEMMA FewerInUse ==
  ASSUME NEW S, IsFiniteSet(S), NEW T \in SUBSET S, NEW n \in Nat, Cardinality(S) <= n
  PROVE  Cardinality(T) <= n
  BY FS_Subset, FS_CardinalityType

\* The rest of the queue is a queue of waiting writers, without the one that left.
LEMMA TailOfQueue ==
  ASSUME NEW q \in Seq(Tasks), q # <<>>,
         \A i, k \in 1..Len(q) : i # k => q[i] # q[k]
  PROVE  /\ Tail(q) \in Seq(Tasks)
         /\ \A i, k \in 1..Len(Tail(q)) : i # k => Tail(q)[i] # Tail(q)[k]
         /\ \A i \in 1..Len(Tail(q)) : Tail(q)[i] # Head(q)
         /\ \A i \in 1..Len(Tail(q)) : i + 1 \in 1..Len(q) /\ Tail(q)[i] = q[i + 1]
  <1>1. /\ Tail(q) \in Seq(Tasks)
        /\ Len(q) \in Nat /\ Len(q) # 0
        /\ Len(Tail(q)) = Len(q) - 1
        /\ Head(q) = q[1]
    OBVIOUS
  <1>2. \A i \in 1..Len(Tail(q)) : i + 1 \in 1..Len(q) /\ Tail(q)[i] = q[i + 1]
    BY <1>1
  <1>3. \A i, k \in 1..Len(Tail(q)) : i # k => Tail(q)[i] # Tail(q)[k]
    <2> SUFFICES ASSUME NEW i \in 1..Len(Tail(q)), NEW k \in 1..Len(Tail(q)), i # k
                 PROVE  Tail(q)[i] # Tail(q)[k]
      OBVIOUS
    <2>1. i + 1 # k + 1
      BY <1>1
    <2> QED BY <1>2, <2>1
  <1>4. \A i \in 1..Len(Tail(q)) : Tail(q)[i] # Head(q)
    <2> SUFFICES ASSUME NEW i \in 1..Len(Tail(q))
                 PROVE  Tail(q)[i] # q[1]
      BY <1>1
    <2>1. i + 1 # 1 /\ 1 \in 1..Len(q)
      BY <1>1
    <2> QED BY <1>2, <2>1
  <1> QED BY <1>1, <1>2, <1>3, <1>4

-----------------------------------------------------------------------------
\* close_pool is closing the pool in _pool.
CloserHasIt == closer # None => current = closer /\ state[closer] = "closing"

\* There is no pool at first.
LEMMA PoolInit == Init => PoolInv
  <1> SUFFICES ASSUME Init PROVE PoolInv
    OBVIOUS
  <1>1. TypeOK
    BY PoolAssumption DEF Init, TypeOK
  <1>2. CurrentIsTheLivePool /\ CloserHasIt
    BY PoolAssumption DEF Init, CurrentIsTheLivePool, CloserHasIt
  <1>3. CreatorIsHolder /\ WritersMatchPool /\ QueueIsWaiting
    BY PoolAssumption DEF Init, CreatorIsHolder, WritersMatchPool, QueueIsWaiting
  <1> QED BY <1>1, <1>2, <1>3 DEF PoolInv, CloserHasIt

\* A step that leaves the connections in use alone leaves their number alone.
LEMMA SameInUse ==
  ASSUME PoolInv, current' = current,
         \A t \in Tasks : pc'[t] = "busy" /\ has'[t] = current
                            => pc[t] = "busy" /\ has[t] = current
  PROVE  current' # None => Cardinality(InUse(current)') <= MaxSize
  <1> SUFFICES ASSUME current # None
               PROVE  Cardinality(InUse(current)') <= MaxSize
    OBVIOUS
  <1>1. InUse(current)' \in SUBSET InUse(current)
    BY DEF InUse
  <1>2. Cardinality(InUse(current)) <= MaxSize /\ MaxSize \in Nat
    BY PoolAssumption DEF PoolInv, WritersMatchPool
  <1> QED BY <1>1, <1>2, InUseFinite, FewerInUse

\* The body of the lock, and the way around it.
LEMMA AskKeeps ==
  ASSUME PoolInv, NEW t \in Tasks, Ask(t)
  PROVE  PoolInv'
  <1> USE DEF PoolInv, CloserHasIt
  <1>1. TypeOK'
    <2>1. Append(waiters, t) \in Seq(Tasks)
      BY DEF TypeOK
    <2> QED BY <2>1, PoolAssumption DEF Ask, TypeOK, Get, UnderLock, Create
  <1>2. CurrentIsTheLivePool' /\ CloserHasIt'
    BY DEF Ask, CurrentIsTheLivePool
  <1>3. CreatorIsHolder'
    BY PoolAssumption DEF Ask, CreatorIsHolder, Get, UnderLock, Create, TypeOK
  <1>4. WritersMatchPool'
    <2>1. current' = current /\ left' = left /\ state' = state
      BY DEF Ask
    <2>2. \A u \in Tasks : /\ pc'[u] \in {"have", "busy"} <=> has'[u] # None
                           /\ pc'[u] = "busy" /\ Live(has'[u]) => has'[u] = current
                           /\ pc'[u] \in {"idle", "waiting", "creating", "have"} => left[u] # 0
                           /\ pc'[u] = "busy" => pc[u] = "busy" /\ has[u] = has'[u]
      BY DEF Ask, WritersMatchPool, Live, Get, UnderLock, Create, TypeOK
    <2> QED BY <2>1, <2>2, SameInUse DEF WritersMatchPool, Live
  <1>5. QueueIsWaiting'
    <2>1. CASE UNCHANGED waiters
      <3>1. \A u \in Tasks : pc[u] = "waiting" => pc'[u] = "waiting"
        BY <2>1 DEF Ask, Get, UnderLock, Create, TypeOK
      <3>2. \A i \in 1..Len(waiters) : waiters[i] \in Tasks
        BY DEF TypeOK
      <3> QED BY <2>1, <3>1, <3>2 DEF QueueIsWaiting
    <2>2. CASE waiters' = Append(waiters, t) /\ pc' = [pc EXCEPT ![t] = "waiting"]
      <3>1. \A i \in 1..Len(waiters) : waiters[i] # t /\ waiters[i] \in Tasks
        BY DEF QueueIsWaiting, Ask, TypeOK
      <3>2. /\ Len(waiters') = Len(waiters) + 1
            /\ Len(waiters) \in Nat
            /\ waiters'[Len(waiters) + 1] = t
            /\ \A i \in 1..Len(waiters) : waiters'[i] = waiters[i]
        BY <2>2 DEF TypeOK
      <3>3. \A i \in 1..Len(waiters') : i \in 1..Len(waiters) \/ i = Len(waiters) + 1
        BY <3>2
      <3>4. pc'[t] = "waiting" /\ \A u \in Tasks : u # t => pc'[u] = pc[u]
        BY <2>2 DEF TypeOK
      <3>5. \A i \in 1..Len(waiters') : pc'[waiters'[i]] = "waiting"
        BY <3>1, <3>2, <3>3, <3>4 DEF QueueIsWaiting
      <3>6. \A i, k \in 1..Len(waiters') : i # k => waiters'[i] # waiters'[k]
        BY <3>1, <3>2, <3>3 DEF QueueIsWaiting
      <3> QED BY <3>5, <3>6 DEF QueueIsWaiting
    <2> QED BY <2>1, <2>2 DEF Ask
  <1> QED BY <1>1, <1>2, <1>3, <1>4, <1>5

\* The lock goes to the first waiter.
LEMMA WakeKeeps ==
  ASSUME PoolInv, NEW t \in Tasks, Wake(t)
  PROVE  PoolInv'
  <1> USE DEF PoolInv, CloserHasIt
  <1>0. /\ waiters' = Tail(waiters)
        /\ waiters' \in Seq(Tasks)
        /\ \A i, k \in 1..Len(waiters') : i # k => waiters'[i] # waiters'[k]
        /\ \A i \in 1..Len(waiters') :
             waiters'[i] # t /\ pc[waiters'[i]] = "waiting" /\ waiters'[i] \in Tasks
    <2>1. waiters \in Seq(Tasks) /\ waiters # <<>> /\ t = Head(waiters)
          /\ waiters' = Tail(waiters)
      BY DEF Wake, TypeOK
    <2>2. \A i, k \in 1..Len(waiters) : i # k => waiters[i] # waiters[k]
      BY DEF QueueIsWaiting
    <2>3. /\ Tail(waiters) \in Seq(Tasks)
          /\ \A i, k \in 1..Len(Tail(waiters)) : i # k => Tail(waiters)[i] # Tail(waiters)[k]
          /\ \A i \in 1..Len(Tail(waiters)) : Tail(waiters)[i] # Head(waiters)
          /\ \A i \in 1..Len(Tail(waiters)) :
               i + 1 \in 1..Len(waiters) /\ Tail(waiters)[i] = waiters[i + 1]
      BY <2>1, <2>2, TailOfQueue
    <2>4. \A i \in 1..Len(waiters) : pc[waiters[i]] = "waiting" /\ waiters[i] \in Tasks
      BY <2>1 DEF QueueIsWaiting
    <2> QED BY <2>1, <2>3, <2>4
  <1>w. pc[t] = "waiting"
    <2>1. 1 \in 1..Len(waiters) /\ waiters[1] = t
      BY DEF Wake, TypeOK
    <2> QED BY <2>1 DEF QueueIsWaiting
  <1>1. TypeOK'
    BY <1>0, PoolAssumption DEF Wake, TypeOK, Get, UnderLock, Create
  <1>2. CurrentIsTheLivePool' /\ CloserHasIt'
    BY DEF Wake, CurrentIsTheLivePool
  <1>3. CreatorIsHolder'
    BY <1>w, PoolAssumption DEF Wake, CreatorIsHolder, Get, UnderLock, Create, TypeOK
  <1>4. WritersMatchPool'
    <2>1. current' = current /\ left' = left /\ state' = state
      BY DEF Wake
    <2>2. \A u \in Tasks : /\ pc'[u] \in {"have", "busy"} <=> has'[u] # None
                           /\ pc'[u] = "busy" /\ Live(has'[u]) => has'[u] = current
                           /\ pc'[u] \in {"idle", "waiting", "creating", "have"} => left[u] # 0
                           /\ pc'[u] = "busy" => pc[u] = "busy" /\ has[u] = has'[u]
      BY <1>w DEF Wake, WritersMatchPool, Live, Get, UnderLock, Create, TypeOK
    <2> QED BY <2>1, <2>2, SameInUse DEF WritersMatchPool, Live
  <1>5. QueueIsWaiting'
    BY <1>0 DEF Wake, QueueIsWaiting, Get, UnderLock, Create, TypeOK
  <1> QED BY <1>1, <1>2, <1>3, <1>4, <1>5

\* The new pool is the only live one, and nobody uses it yet.
LEMMA CreatedKeeps ==
  ASSUME PoolInv, NEW t \in Tasks, Created(t)
  PROVE  PoolInv'
  <1> USE DEF PoolInv, CloserHasIt
  <1> PICK p \in Pools : /\ Fresh(p)
                         /\ state' = [state EXCEPT ![p] = "open"]
                         /\ current' = p
                         /\ has' = [has EXCEPT ![t] = p]
    BY DEF Created
  <1>0. holder = t /\ current = None /\ holder' = None /\ pc[t] = "creating"
        /\ pc' = [pc EXCEPT ![t] = "have"] /\ UNCHANGED <<waiters, left, closer>>
    BY PoolAssumption DEF Created, CreatorIsHolder
  <1>1. TypeOK'
    BY <1>0, PoolAssumption DEF TypeOK
  <1>2. CurrentIsTheLivePool' /\ CloserHasIt'
    BY <1>0, PoolAssumption DEF CurrentIsTheLivePool, TypeOK
  <1>3. CreatorIsHolder'
    BY <1>0, PoolAssumption DEF CreatorIsHolder, TypeOK
  <1>4. WritersMatchPool'
    <2>1. \A u \in Tasks : has[u] # p
      BY DEF Fresh
    <2>2. InUse(current)' = {}
      BY <1>0, <2>1 DEF InUse, TypeOK
    <2>3. Cardinality(InUse(current)') <= MaxSize
      BY <2>2, FS_EmptySet, PoolAssumption
    <2>4. \A u \in Tasks : pc'[u] = "busy" => ~ (state'[has'[u]] \in {"open", "closing"})
      <3> SUFFICES ASSUME NEW u \in Tasks, pc'[u] = "busy"
                   PROVE  ~ (state'[has'[u]] \in {"open", "closing"})
        OBVIOUS
      <3>1. u # t /\ pc[u] = "busy" /\ has'[u] = has[u] /\ has[u] \in Pools /\ has[u] # p
        BY <1>0, <2>1 DEF WritersMatchPool, TypeOK
      <3> QED BY <1>0, <3>1, PoolAssumption DEF CurrentIsTheLivePool, TypeOK
    <2> QED BY <1>0, <2>3, <2>4, PoolAssumption DEF WritersMatchPool, Live, TypeOK
  <1>5. QueueIsWaiting'
    BY <1>0 DEF QueueIsWaiting, TypeOK
  <1> QED BY <1>1, <1>2, <1>3, <1>4, <1>5

\* A pool that could not be created.
LEMMA CreateFailsKeeps ==
  ASSUME PoolInv, NEW t \in Tasks, CreateFails(t)
  PROVE  PoolInv'
  <1> USE DEF PoolInv, CloserHasIt
  <1>1. TypeOK'
    BY DEF CreateFails, HolderAfterError, TypeOK
  <1>2. CurrentIsTheLivePool' /\ CloserHasIt'
    BY DEF CreateFails, CurrentIsTheLivePool
  <1>3. CreatorIsHolder'
    BY PoolAssumption DEF CreateFails, HolderAfterError, CreatorIsHolder, TypeOK
  <1>4. WritersMatchPool'
    BY SameInUse DEF CreateFails, WritersMatchPool, Live, TypeOK
  <1>5. QueueIsWaiting'
    BY DEF CreateFails, QueueIsWaiting, TypeOK
  <1> QED BY <1>1, <1>2, <1>3, <1>4, <1>5

\* A free connection is taken.
LEMMA AcquireKeeps ==
  ASSUME PoolInv, NEW t \in Tasks, Acquire(t)
  PROVE  PoolInv'
  <1> USE DEF PoolInv, CloserHasIt
  <1>0. /\ pc[t] = "have" /\ has[t] # None /\ has[t] = current /\ left[t] # 0
        /\ Cardinality(InUse(current)) < MaxSize
        /\ pc' = [pc EXCEPT ![t] = "busy"]
        /\ left' = [left EXCEPT ![t] = @ - 1]
        /\ UNCHANGED <<current, holder, waiters, state, has, closer>>
    BY DEF Acquire, WritersMatchPool, CurrentIsTheLivePool, Live, TypeOK
  <1>1. TypeOK'
    <2>1. left[t] - 1 \in 0..Work
      BY <1>0, PoolAssumption DEF TypeOK
    <2> QED BY <1>0, <2>1 DEF TypeOK
  <1>2. CurrentIsTheLivePool' /\ CloserHasIt'
    BY <1>0 DEF CurrentIsTheLivePool
  <1>3. CreatorIsHolder'
    BY <1>0 DEF CreatorIsHolder, TypeOK
  <1>4. WritersMatchPool'
    <2>1. InUse(current)' \in SUBSET (InUse(current) \cup {t})
      BY <1>0 DEF InUse, TypeOK
    <2>2. Cardinality(InUse(current) \cup {t}) <= MaxSize
      BY <1>0, InUseFinite, OneMoreInUse, PoolAssumption
    <2>3. IsFiniteSet(InUse(current) \cup {t})
      BY InUseFinite, FS_AddElement
    <2>4. Cardinality(InUse(current)') <= MaxSize
      BY <2>1, <2>2, <2>3, FewerInUse, PoolAssumption
    <2> QED BY <1>0, <2>4 DEF WritersMatchPool, Live, TypeOK
  <1>5. QueueIsWaiting'
    BY <1>0 DEF QueueIsWaiting, TypeOK
  <1> QED BY <1>1, <1>2, <1>3, <1>4, <1>5

\* A closed pool gives none.
LEMMA RefusedKeeps ==
  ASSUME PoolInv, NEW t \in Tasks, Refused(t)
  PROVE  PoolInv'
  <1> USE DEF PoolInv, CloserHasIt
  <1>1. TypeOK'
    BY DEF Refused, TypeOK
  <1>2. CurrentIsTheLivePool' /\ CloserHasIt'
    BY DEF Refused, CurrentIsTheLivePool
  <1>3. CreatorIsHolder'
    BY DEF Refused, CreatorIsHolder, TypeOK
  <1>4. WritersMatchPool'
    BY SameInUse DEF Refused, WritersMatchPool, Live, TypeOK
  <1>5. QueueIsWaiting'
    <2>1. \A u \in Tasks : pc[u] = "waiting" => pc'[u] = "waiting"
      BY DEF Refused, TypeOK
    <2>2. \A i \in 1..Len(waiters) : waiters[i] \in Tasks
      BY DEF TypeOK
    <2> QED BY <2>1, <2>2 DEF Refused, QueueIsWaiting
  <1> QED BY <1>1, <1>2, <1>3, <1>4, <1>5

\* A connection is given back.
LEMMA ReleaseKeeps ==
  ASSUME PoolInv, NEW t \in Tasks, Release(t)
  PROVE  PoolInv'
  <1> USE DEF PoolInv, CloserHasIt
  <1>1. TypeOK'
    BY DEF Release, TypeOK
  <1>2. CurrentIsTheLivePool' /\ CloserHasIt'
    BY DEF Release, CurrentIsTheLivePool
  <1>3. CreatorIsHolder'
    BY DEF Release, CreatorIsHolder, TypeOK
  <1>4. WritersMatchPool'
    BY SameInUse DEF Release, WritersMatchPool, Live, TypeOK
  <1>5. QueueIsWaiting'
    <2>1. \A u \in Tasks : pc[u] = "waiting" => pc'[u] = "waiting"
      BY DEF Release, TypeOK
    <2>2. \A i \in 1..Len(waiters) : waiters[i] \in Tasks
      BY DEF TypeOK
    <2> QED BY <2>1, <2>2 DEF Release, QueueIsWaiting
  <1> QED BY <1>1, <1>2, <1>3, <1>4, <1>5

\* The pool is closed, or terminated.
LEMMA CloseKeeps ==
  ASSUME PoolInv, CloseBegin \/ CloseEnd \/ CloseRaises \/ CloseAgain
  PROVE  PoolInv'
  <1> USE DEF PoolInv, CloserHasIt
  <1>1. CASE CloseBegin \/ CloseRaises
    <2>0. /\ UNCHANGED <<current, holder, waiters, pc, has, left>>
          /\ current # None /\ current \in Pools
          /\ \/ state[current] = "open" /\ state' = [state EXCEPT ![current] = "closing"]
                /\ closer' = current
             \/ state[current] = "closing" /\ state' = [state EXCEPT ![current] = "terminated"]
                /\ closer' = None
      BY <1>1 DEF CloseBegin, CloseRaises, TypeOK
    <2>1. TypeOK'
      BY <2>0 DEF TypeOK
    <2>2. CurrentIsTheLivePool' /\ CloserHasIt'
      BY <2>0 DEF CurrentIsTheLivePool, TypeOK
    <2>3. CreatorIsHolder' /\ QueueIsWaiting'
      BY <2>0 DEF CreatorIsHolder, QueueIsWaiting
    <2>4. \A p \in Pools : Live(p)' => Live(p)
      BY <2>0 DEF Live, TypeOK
    <2>5. WritersMatchPool'
      BY <2>0, <2>4, SameInUse DEF WritersMatchPool, TypeOK
    <2> QED BY <2>1, <2>2, <2>3, <2>5
  <1>2. CASE CloseEnd \/ CloseAgain
    <2>0. /\ UNCHANGED <<holder, waiters, pc, has, left>>
          /\ current # None /\ current \in Pools
          /\ state' = [state EXCEPT ![current] = "closed"]
          /\ current' = None /\ closer' = None
      BY <1>2 DEF CloseEnd, CloseAgain, CurrentAfterClose, TypeOK
    <2>1. TypeOK'
      BY <2>0 DEF TypeOK
    <2>2. CurrentIsTheLivePool' /\ CloserHasIt'
      BY <2>0, PoolAssumption DEF CurrentIsTheLivePool, TypeOK
    <2>3. CreatorIsHolder' /\ QueueIsWaiting'
      BY <2>0 DEF CreatorIsHolder, QueueIsWaiting
    <2>4. \A p \in Pools : ~ Live(p)'
      BY <2>0 DEF CurrentIsTheLivePool, Live, TypeOK
    <2>5. WritersMatchPool'
      BY <2>0, <2>4 DEF WritersMatchPool, TypeOK
    <2> QED BY <2>1, <2>2, <2>3, <2>5
  <1> QED BY <1>1, <1>2

\* Every step of every writer, and of the close, keeps the invariant.
LEMMA PoolStep == PoolInv /\ [Next]_vars => PoolInv'
  <1> SUFFICES ASSUME PoolInv, [Next]_vars PROVE PoolInv'
    OBVIOUS
  <1>1. CASE UNCHANGED vars
    BY <1>1 DEF vars, PoolInv, TypeOK, CurrentIsTheLivePool, CreatorIsHolder,
                WritersMatchPool, QueueIsWaiting, InUse, Live
  <1>2. CASE \E t \in Tasks : TaskStep(t)
    <2> PICK t \in Tasks : TaskStep(t)
      BY <1>2
    <2> QED BY AskKeeps, WakeKeeps, CreatedKeeps, CreateFailsKeeps, AcquireKeeps,
               RefusedKeeps, ReleaseKeeps DEF TaskStep
  <1>3. CASE CloseBegin \/ CloseEnd \/ CloseRaises \/ CloseAgain
    BY <1>3, CloseKeeps
  <1> QED BY <1>1, <1>2, <1>3 DEF Next

\* The lock, the queue, the pool and the writers fit together in every state.
THEOREM PoolInvariant == Spec => []PoolInv
  BY PoolInit, PoolStep, PTL DEF Spec

\* The pool in _pool is the only one not closed, whoever asks during a close and whether
\* close() returns or raises: the next close_pool closes all there is to close.
THEOREM OnlyLivePool == Spec => []CurrentIsTheLivePool
  <1>1. PoolInv => CurrentIsTheLivePool
    BY DEF PoolInv
  <1> QED BY PoolInvariant, <1>1, PTL

\* store.py, line 6: whatever the number of writers, pools and closes, the module never
\* uses more connections than one pool may have.
THEOREM ConnectionsAreBounded == Spec => []ConnectionsBounded
  <1>1. PoolInv => ConnectionsBounded
    <2> SUFFICES ASSUME PoolInv PROVE ConnectionsBounded
      OBVIOUS
    <2> USE DEF PoolInv
    <2> DEFINE Users == {t \in Tasks : pc[t] = "busy" /\ Live(has[t])}
    <2>1. Users \in SUBSET InUse(current)
      BY DEF WritersMatchPool, InUse
    <2>2. CASE current = None
      <3>1. Users = {}
        BY <2>2 DEF WritersMatchPool
      <3> QED BY <3>1, FS_EmptySet, PoolAssumption DEF ConnectionsBounded
    <2>3. CASE current # None
      <3>1. Cardinality(InUse(current)) <= MaxSize /\ MaxSize \in Nat
        BY <2>3, PoolAssumption DEF WritersMatchPool
      <3>2. Cardinality(Users) <= MaxSize
        BY <2>1, <3>1, InUseFinite, FewerInUse
      <3> QED BY <3>2 DEF ConnectionsBounded
    <2> QED BY <2>2, <2>3
  <1> QED BY PoolInvariant, <1>1, PTL
=============================================================================
