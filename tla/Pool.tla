-------------------------------- MODULE Pool --------------------------------
(***************************************************************************)
(* The connection pool of store.py: get_pool(), close_pool(), and the      *)
(* writers that go through them.                                           *)
(*                                                                         *)
(* The tasks of one event loop: a task runs undisturbed between two        *)
(* awaits, so an action is what lies between them. The lock is an          *)
(* asyncio.Lock, whose waiters go first come, first served. The pool is    *)
(* asyncpg's: close() refuses new requests, waits for the connections in   *)
(* use, and then every request to it fails; interrupted by an exception or *)
(* a cancellation it terminates the pool and passes the exception on.      *)
(***************************************************************************)
EXTENDS Naturals, Sequences, FiniteSets

CONSTANTS
  Tasks,      \* the fired writers
  Pools,      \* the pool objects; one that was closed and forgotten is used again
  MaxSize,    \* 3: create_pool(max_size = 3)
  Work,       \* how many statements a writer sends
  None

ASSUME PoolAssumption ==
  /\ IsFiniteSet(Tasks)
  /\ MaxSize \in Nat \ {0}
  /\ Work \in Nat \ {0}
  /\ None \notin Pools
  /\ None \notin Tasks

VARIABLES
  current,    \* _pool
  holder,     \* the task in the body of `async with _pool_lock`
  waiters,    \* the tasks queued at the lock
  state,      \* state[p]: "unused", "open", "closing", "terminated" or "closed"
  pc,         \* pc[t]: "idle", "waiting", "creating", "have", "busy", "done" or "failed"
  has,        \* has[t]: the pool get_pool gave to t
  left,       \* left[t]: the statements t has not sent yet
  closer      \* the pool close_pool is closing

vars == <<current, holder, waiters, state, pc, has, left, closer>>

TypeOK ==
  /\ current \in Pools \cup {None}
  /\ holder \in Tasks \cup {None}
  /\ waiters \in Seq(Tasks)
  /\ state \in [Pools -> {"unused", "open", "closing", "terminated", "closed"}]
  /\ pc \in [Tasks -> {"idle", "waiting", "creating", "have", "busy", "done", "failed"}]
  /\ has \in [Tasks -> Pools \cup {None}]
  /\ left \in [Tasks -> 0..Work]
  /\ closer \in Pools \cup {None}

Init ==
  /\ current = None
  /\ holder = None
  /\ waiters = <<>>
  /\ state = [p \in Pools |-> "unused"]
  /\ pc = [t \in Tasks |-> "idle"]
  /\ has = [t \in Tasks |-> None]
  /\ left = [t \in Tasks |-> Work]
  /\ closer = None

-----------------------------------------------------------------------------
(* get_pool                                                                *)

\* The pool is handed to t.
Get(t) ==
  /\ has' = [has EXCEPT ![t] = current]
  /\ pc' = [pc EXCEPT ![t] = "have"]
  /\ UNCHANGED holder

\* t goes into the body of the lock and awaits create_pool.
Create(t) ==
  /\ holder' = t
  /\ pc' = [pc EXCEPT ![t] = "creating"]
  /\ UNCHANGED has

\* Mutated form: the lock's body does not look at _pool again.
UnderLockUnchecked(t) == Create(t)

\* `if _pool is None`, once the lock is acquired.
UnderLock(t) == IF current = None THEN Create(t) ELSE Get(t)

\* Without a pool, the first to come takes the lock, the others queue.
Ask(t) ==
  /\ pc[t] = "idle"
  /\ IF current # None
     THEN Get(t) /\ UNCHANGED waiters
     ELSE IF holder = None /\ waiters = <<>>
          THEN UnderLock(t) /\ UNCHANGED waiters
          ELSE /\ waiters' = Append(waiters, t)
               /\ pc' = [pc EXCEPT ![t] = "waiting"]
               /\ UNCHANGED <<has, holder>>
  /\ UNCHANGED <<current, state, left, closer>>

\* The lock is free, and the first in the queue wakes.
Wake(t) ==
  /\ holder = None
  /\ waiters # <<>>
  /\ t = Head(waiters)
  /\ waiters' = Tail(waiters)
  /\ UnderLock(t)
  /\ UNCHANGED <<current, state, left, closer>>

\* A pool object nobody refers to.
Fresh(p) ==
  state[p] \in {"unused", "closed"} /\ p # current /\ \A t \in Tasks : has[t] # p

\* create_pool returns: the pool is stored, the lock released, the pool returned.
Created(t) ==
  /\ pc[t] = "creating"
  /\ \E p \in Pools :
       /\ Fresh(p)
       /\ state' = [state EXCEPT ![p] = "open"]
       /\ current' = p
       /\ has' = [has EXCEPT ![t] = p]
  /\ pc' = [pc EXCEPT ![t] = "have"]
  /\ holder' = None
  /\ UNCHANGED <<waiters, left, closer>>

\* Mutated form: a lock that an exception does not release.
HolderAfterErrorKept(t) == t

\* `async with` releases the lock when create_pool raises.
HolderAfterError(t) == None

CreateFails(t) ==
  /\ pc[t] = "creating"
  /\ pc' = [pc EXCEPT ![t] = "failed"]
  /\ holder' = HolderAfterError(t)
  /\ UNCHANGED <<current, waiters, state, has, left, closer>>

-----------------------------------------------------------------------------
(* A writer: its statements, one after the other, each on a connection of  *)
(* its own, on the pool it was given at the start; only                    *)
(* insert_run_complete asks again, before the steps.                       *)

\* A pool that still has connections.
Live(p) == state[p] \in {"open", "closing"}

InUse(p) == {t \in Tasks : pc[t] = "busy" /\ has[t] = p}

\* A connection is free. A request that was queued before close() may still get one.
Acquire(t) ==
  /\ pc[t] = "have"
  /\ Live(has[t])
  /\ Cardinality(InUse(has[t])) < MaxSize
  /\ pc' = [pc EXCEPT ![t] = "busy"]
  /\ left' = [left EXCEPT ![t] = @ - 1]
  /\ UNCHANGED <<current, holder, waiters, state, has, closer>>

\* The pool is closing, terminated or closed: InterfaceError, and fire() drops the writer.
Refused(t) ==
  /\ pc[t] = "have"
  /\ state[has[t]] \in {"closing", "terminated", "closed"}
  /\ pc' = [pc EXCEPT ![t] = "failed"]
  /\ has' = [has EXCEPT ![t] = None]
  /\ UNCHANGED <<current, holder, waiters, state, left, closer>>

\* The statement is over, well or not, and the connection, if the pool still has it, is
\* released.
Release(t) ==
  /\ pc[t] = "busy"
  /\ \/ /\ left[t] # 0
        /\ pc' = [pc EXCEPT ![t] = "have"]
        /\ UNCHANGED has
     \/ /\ left[t] # 0
        /\ pc' = [pc EXCEPT ![t] = "idle"]
        /\ has' = [has EXCEPT ![t] = None]
     \/ /\ pc' = [pc EXCEPT ![t] = IF left[t] = 0 THEN "done" ELSE "failed"]
        /\ has' = [has EXCEPT ![t] = None]
  /\ UNCHANGED <<current, holder, waiters, state, left, closer>>

-----------------------------------------------------------------------------
(* close_pool, called by the command's own coroutine: one call at a time.  *)

CloseBegin ==
  /\ closer = None
  /\ current # None
  /\ state[current] = "open"
  /\ closer' = current
  /\ state' = [state EXCEPT ![current] = "closing"]
  /\ UNCHANGED <<current, holder, waiters, pc, has, left>>

\* Mutated form: close_pool without `_pool = None`.
CurrentAfterCloseKept == current

CurrentAfterClose == None

\* close() returned: the connections are all released.
CloseEnd ==
  /\ closer # None
  /\ InUse(closer) = {}
  /\ state' = [state EXCEPT ![closer] = "closed"]
  /\ current' = CurrentAfterClose
  /\ closer' = None
  /\ UNCHANGED <<holder, waiters, pc, has, left>>

\* close() raises, or the awaiting coroutine is cancelled: asyncpg has terminated the
\* pool, `_pool = None` is skipped, and get_pool hands out the terminated pool from now on.
CloseRaises ==
  /\ closer # None
  /\ state' = [state EXCEPT ![closer] = "terminated"]
  /\ closer' = None
  /\ UNCHANGED <<current, holder, waiters, pc, has, left>>

\* close_pool after that: asyncpg's close() of a terminated pool returns at once.
CloseAgain ==
  /\ closer = None
  /\ current # None
  /\ state[current] = "terminated"
  /\ state' = [state EXCEPT ![current] = "closed"]
  /\ current' = CurrentAfterClose
  /\ UNCHANGED <<holder, waiters, pc, has, left, closer>>

-----------------------------------------------------------------------------
TaskStep(t) ==
  Ask(t) \/ Wake(t) \/ Created(t) \/ CreateFails(t) \/ Acquire(t) \/ Refused(t) \/ Release(t)

Next ==
  (\E t \in Tasks : TaskStep(t)) \/ CloseBegin \/ CloseEnd \/ CloseRaises \/ CloseAgain

Spec == Init /\ [][Next]_vars

\* The event loop runs every task that can run, and the awaited calls of asyncpg come
\* to an end.
Fairness == (\A t \in Tasks : WF_vars(TaskStep(t))) /\ WF_vars(CloseEnd \/ CloseRaises)
FairSpec == Spec /\ Fairness

-----------------------------------------------------------------------------
\* "Independent pool (max 3 connections)" (store.py, line 6): over all the pools there
\* ever were, no more connections are in use than one pool has.
ConnectionsBounded ==
  Cardinality({t \in Tasks : pc[t] = "busy" /\ Live(has[t])}) <= MaxSize

\* The pool in _pool is the only one that is not closed: no pool with connections is
\* ever left behind where no close_pool reaches it, and none that close_pool has closed
\* is handed out. (A pool whose close() raised stays in _pool, without connections, until
\* close_pool is called once more.)
CurrentIsTheLivePool ==
  \A p \in Pools : p = current <=> state[p] \in {"open", "closing", "terminated"}

\* Whoever asks for the pool gets one or an exception, also behind a task whose
\* create_pool raised.
AskersAreAnswered == \A t \in Tasks : pc[t] = "waiting" ~> pc[t] \in {"have", "failed"}

\* One task at most creates, and only while there is no pool.
CreatorIsHolder ==
  /\ \A t \in Tasks : pc[t] = "creating" <=> holder = t
  /\ holder # None => current = None

\* A writer that has a pool has more to send or is sending; the connections in use
\* are those of the pool in _pool.
WritersMatchPool ==
  /\ \A t \in Tasks :
       /\ pc[t] \in {"have", "busy"} <=> has[t] # None
       /\ pc[t] = "busy" /\ Live(has[t]) => has[t] = current
       /\ pc[t] \in {"idle", "waiting", "creating", "have"} => left[t] # 0
  /\ current # None => Cardinality(InUse(current)) <= MaxSize

\* The queue holds waiting tasks, each once.
QueueIsWaiting ==
  /\ \A i \in 1..Len(waiters) : pc[waiters[i]] = "waiting"
  /\ \A i, k \in 1..Len(waiters) : i # k => waiters[i] # waiters[k]

\* The inductive invariant.
PoolInv ==
  /\ TypeOK
  /\ CurrentIsTheLivePool
  /\ closer # None => current = closer /\ state[closer] = "closing"
  /\ CreatorIsHolder
  /\ WritersMatchPool
  /\ QueueIsWaiting
=============================================================================
