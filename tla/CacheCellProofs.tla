--------------------------- MODULE CacheCellProofs ---------------------------
(***************************************************************************)
(* CacheCell implements FreshCell and never deadlocks, for any callers,    *)
(* values and TTL.                                                         *)
(***************************************************************************)
EXTENDS CacheCell, WaitQueueProofs

\* Whoever is past the second check or runs the initializer holds the write
\* lock, and nobody else does: this is what makes the mapped refresher unique. The
\* shared holders are the readers, and there are none while somebody holds it.
LockInv ==
  /\ pc \in [Callers -> {"idle", "wantRead", "read", "wantWrite", "recheck", "init"}]
  /\ writer \in Callers \cup {NoCaller}
  /\ val \in Values \cup {NoValue}
  /\ answer \in [Callers -> Values \cup {NoValue, Failed}]
  /\ readers = {c \in Callers : pc[c] = "read"}
  /\ \A c \in Callers : writer = c <=> pc[c] \in {"recheck", "init"}
  /\ writer # NoCaller => readers = {}

LEMMA LockStep == LockInv /\ [Next]_vars => LockInv'
<1> SUFFICES ASSUME LockInv, [Next]_vars PROVE LockInv'
  OBVIOUS
<1> USE CacheAssumption DEF LockInv, Goto, Release, Return
<1>1. CASE Tick \/ UNCHANGED vars
  BY <1>1 DEF Tick, vars
<1>2. ASSUME NEW c \in Callers, Call(c) PROVE LockInv'
  BY <1>2 DEF Call
<1>3. ASSUME NEW c \in Callers, Grant(c) PROVE LockInv'
  <2>1. CASE pc[c] = "wantRead"
    BY <1>3, <2>1 DEF Grant
  <2>2. CASE pc[c] = "wantWrite"
    BY <1>3, <2>2 DEF Grant
  <2> QED BY <1>3, <2>1, <2>2 DEF Grant
<1>4. ASSUME NEW c \in Callers, CheckRead(c) PROVE LockInv'
  BY <1>4 DEF CheckRead, UpgradeGuard
<1>5. ASSUME NEW c \in Callers, Recheck(c) PROVE LockInv'
  BY <1>5 DEF Recheck
<1>6. ASSUME NEW c \in Callers, FinishInit(c) PROVE LockInv'
  BY <1>6 DEF FinishInit
<1>7. ASSUME NEW c \in Callers, Cancel(c) PROVE LockInv'
  BY <1>7 DEF Cancel
<1> QED BY <1>1, <1>2, <1>3, <1>4, <1>5, <1>6, <1>7 DEF Next, Progress

LEMMA LockCorrect == Spec => []LockInv
<1>1. Init => LockInv
  BY CacheAssumption DEF Init, LockInv
<1> QED BY <1>1, LockStep, PTL DEF Spec

-----------------------------------------------------------------------------
(* The whole type invariant.                                               *)

LEMMA TypeStep == TypeOK /\ [Next]_vars => TypeOK'
<1> SUFFICES ASSUME TypeOK, [Next]_vars PROVE TypeOK'
  OBVIOUS
<1>0. LockInv
  BY DEF TypeOK, LockInv
<1>1. LockInv'
  BY <1>0, LockStep
<1>2. queue' \in Seq(Callers)
  <2>1. ASSUME NEW c \in Callers PROVE Append(queue, c) \in Seq(Callers) /\ Without(queue, c) \in Seq(Callers)
    BY WithoutType DEF TypeOK
  <2>2. queue # <<>> => Tail(queue) \in Seq(Callers)
    BY DEF TypeOK
  <2> QED BY <2>1, <2>2 DEF TypeOK, Next, Progress, Tick, Grant, Call, CheckRead, Recheck, FinishInit, Cancel,
             Request, Return, vars
<1>3. age' \in 0..TTL
  BY CacheAssumption DEF TypeOK, Next, Progress, Tick, Grant, Call, CheckRead, Recheck, FinishInit, Cancel, vars
<1> QED BY <1>1, <1>2, <1>3 DEF TypeOK, LockInv

\* Every variable of the cell keeps its type, and the lock is held by exactly the
\* calls that are between its acquisition and its release.
THEOREM CellType == Spec => []TypeOK
<1>1. Init => TypeOK
  BY CacheAssumption DEF Init, TypeOK
<1> QED BY <1>1, TypeStep, PTL DEF Spec

-----------------------------------------------------------------------------
(* The queue of the lock.                                                  *)

Waiters == {c \in Callers : pc[c] \in {"wantRead", "wantWrite"}}

LEMMA QueueStep ==
  ASSUME TypeOK, QueueOf(queue, Waiters), [Next]_vars
  PROVE  QueueOf(queue, Waiters)'
<1> DEFINE States == {"idle", "wantRead", "read", "wantWrite", "recheck", "init"}
<1>0. pc \in [Callers -> States] /\ queue \in Seq(Callers)
  BY DEF TypeOK
<1> SUFFICES QueueOf(queue', Waiters')
  BY DEF QueueOf, IsInjective, ToSet
<1> HIDE DEF States
\* What a step does to the waiters follows from where it takes its caller.
<1>1. ASSUME NEW c \in Callers, NEW to \in States, Goto(c, to)
      PROVE  Waiters' = IF to \in {"wantRead", "wantWrite"} THEN Waiters \cup {c} ELSE Waiters \ {c}
  BY <1>0, <1>1 DEF Waiters, Goto
<1>2. ASSUME NEW c \in Callers, NEW to \in {"wantRead", "wantWrite"}, Goto(c, to), Request(c), c \notin Waiters
      PROVE  QueueOf(queue', Waiters')
  <2>1. Waiters' = Waiters \cup {c}
    BY <1>1, <1>2 DEF States
  <2> QED BY <1>0, <1>2, <2>1, AppendQueue DEF Request
<1>3. ASSUME NEW c \in Callers, NEW to \in {"init", "idle"}, Goto(c, to), UNCHANGED queue, c \notin Waiters
      PROVE  QueueOf(queue', Waiters')
  <2>1. Waiters' = Waiters
    BY <1>1, <1>3 DEF States
  <2> QED BY <1>3, <2>1
<1>4. CASE Tick \/ UNCHANGED vars
  BY <1>4 DEF Tick, vars, Waiters
<1>5. ASSUME NEW c \in Callers, Call(c) PROVE QueueOf(queue', Waiters')
  BY <1>2, <1>5 DEF Call, Waiters
<1>6. ASSUME NEW c \in Callers, Grant(c) PROVE QueueOf(queue', Waiters')
  <2>1. queue # <<>> /\ Head(queue) = c /\ queue' = Tail(queue) /\ \E to \in {"read", "recheck"} : Goto(c, to)
    BY <1>6 DEF Grant
  <2>2. Waiters' = Waiters \ {c}
    BY <1>1, <2>1 DEF States
  <2> QED BY <1>0, <2>1, <2>2, TailQueue
<1>7. ASSUME NEW c \in Callers, CheckRead(c) PROVE QueueOf(queue', Waiters')
  <2>1. c \notin Waiters
    BY <1>7 DEF CheckRead, Waiters
  <2>2. \/ Goto(c, "idle") /\ UNCHANGED queue
        \/ Goto(c, "wantWrite") /\ Request(c)
    BY <1>7 DEF CheckRead, Return
  <2> QED BY <1>2, <1>3, <2>1, <2>2
<1>8. ASSUME NEW c \in Callers, Recheck(c) \/ FinishInit(c) PROVE QueueOf(queue', Waiters')
  <2>1. c \notin Waiters
    BY <1>8 DEF Recheck, FinishInit, Waiters
  <2>2. UNCHANGED queue /\ \E to \in {"init", "idle"} : Goto(c, to)
    BY <1>8 DEF Recheck, FinishInit, Return
  <2> QED BY <1>3, <2>1, <2>2
<1>9. ASSUME NEW c \in Callers, Cancel(c) PROVE QueueOf(queue', Waiters')
  <2>1. Waiters' = Waiters \ {c}
    BY <1>1, <1>9 DEF Cancel, States
  <2> QED BY <1>0, <1>9, <2>1, WithoutQueue DEF Cancel
<1> QED BY <1>4, <1>5, <1>6, <1>7, <1>8, <1>9 DEF Next, Progress

\* Whoever is inside the cell can go on, or waits in line for somebody who can,
\* for any number of callers and however many of them are cancelled.
THEOREM DeadlockFree == Spec => []NoDeadlock
<1>1. Init => QueueOf(queue, Waiters)
  <2> SUFFICES ASSUME Init PROVE QueueOf(<<>>, {})
    BY DEF Init, Waiters
  <2> QED BY DEF QueueOf, ToSet, IsInjective
<1>2. TypeOK /\ QueueOf(queue, Waiters) => NoDeadlock
  <2> SUFFICES ASSUME TypeOK, QueueOf(queue, Waiters), queue # <<>>,
                      \A c \in Callers : pc[c] \notin {"read", "recheck", "init"}
               PROVE  writer = NoCaller /\ readers = {}
    BY DEF NoDeadlock, Waiters
  <2> QED BY DEF TypeOK
<1>3. TypeOK /\ QueueOf(queue, Waiters) /\ [Next]_vars => QueueOf(queue, Waiters)'
  BY QueueStep
<1> QED BY <1>1, <1>2, <1>3, CellType, PTL DEF Spec

\* While a caller runs the initializer it is alone in the lock: nobody reads the
\* value, looks at it a second time, or runs another initializer.
THEOREM SingleFlight ==
  Spec => [](\A c, d \in Callers : pc[c] = "init" /\ d # c => pc[d] \notin {"read", "recheck", "init"})
<1>1. LockInv => \A c, d \in Callers : pc[c] = "init" /\ d # c => pc[d] \notin {"read", "recheck", "init"}
  BY CacheAssumption DEF LockInv
<1> QED BY <1>1, LockCorrect, PTL

-----------------------------------------------------------------------------
(* The refinement: every step of the cell is a step of its promise.        *)

LEMMA RefineInit == Init => Promise!Init
BY CacheAssumption DEF Init, Promise!Init

LEMMA RefineNext == LockInv /\ LockInv' /\ [Next]_vars => [Promise!Next]_Promise!vars
<1> SUFFICES ASSUME LockInv, LockInv', [Next]_vars PROVE [Promise!Next]_Promise!vars
  OBVIOUS
<1> USE CacheAssumption DEF Goto, Release
<1>0. \A c \in Callers : Promise!Call(c) \/ Promise!Hit(c) \/ Promise!StartRefresh(c)
                         \/ Promise!Refresh(c) \/ Promise!Cancel(c) => Promise!Next
  BY DEF Promise!Next
<1>1. CASE Tick
  BY <1>1 DEF Tick, Promise!Tick, Promise!Next
<1>2. ASSUME NEW c \in Callers, Call(c) PROVE Promise!Call(c)
  BY <1>2 DEF Call, Promise!Call, LockInv
<1>3. ASSUME NEW c \in Callers, Grant(c) PROVE UNCHANGED Promise!vars
  BY <1>3 DEF Grant, Promise!vars, LockInv
<1>4. ASSUME NEW c \in Callers, CheckRead(c) PROVE Promise!Hit(c) \/ UNCHANGED Promise!vars
  <2>1. CASE Fresh
    BY <1>4, <2>1 DEF CheckRead, Return, Promise!Hit, Promise!Return, Promise!Fresh, Fresh, LockInv
  <2>2. CASE ~Fresh
    BY <1>4, <2>2 DEF CheckRead, UpgradeGuard, Promise!vars, LockInv
  <2> QED BY <2>1, <2>2
<1>5. ASSUME NEW c \in Callers, Recheck(c) PROVE Promise!Hit(c) \/ Promise!StartRefresh(c)
  <2>1. CASE Fresh
    BY <1>5, <2>1 DEF Recheck, Return, Promise!Hit, Promise!Return, Promise!Fresh, Fresh, LockInv
  <2>2. CASE ~Fresh
    BY <1>5, <2>2 DEF Recheck, Promise!StartRefresh, Promise!Fresh, Fresh, LockInv
  <2> QED BY <2>1, <2>2
<1>6. ASSUME NEW c \in Callers, FinishInit(c) PROVE Promise!Refresh(c)
  BY <1>6 DEF FinishInit, Return, Promise!Refresh, Promise!Return, LockInv
<1>7. ASSUME NEW c \in Callers, Cancel(c) PROVE Promise!Cancel(c)
  BY <1>7 DEF Cancel, Promise!Cancel, LockInv
<1>8. CASE UNCHANGED vars
  BY <1>8 DEF vars, Promise!vars
<1> QED
  BY <1>0, <1>1, <1>2, <1>3, <1>4, <1>5, <1>6, <1>7, <1>8 DEF Next, Progress

\* The lock-based cell implements the promise, step by step.
THEOREM Refinement == Spec => ImplementsFreshCell
BY RefineInit, RefineNext, LockCorrect, PTL DEF Spec, ImplementsFreshCell, Promise!Spec
=============================================================================
