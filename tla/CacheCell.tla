------------------------------ MODULE CacheCell ------------------------------
(***************************************************************************)
(* keyring_core::CacheCell::get_or_try_init (cell.rs): a read-mostly cache *)
(* of one value behind a tokio RwLock, with callers that may be cancelled  *)
(* at every await.                                                         *)
(***************************************************************************)
EXTENDS Naturals, WaitQueue

CONSTANTS
  Callers,   \* tasks calling get_or_try_init
  Values,    \* values the initializer may produce
  NoValue,   \* an empty cell; a call that has returned nothing
  Failed,    \* a call that returned the initializer's error
  NoCaller,  \* nobody holds the write lock
  TTL        \* ttl, in ticks

ASSUME CacheAssumption ==
  /\ TTL \in Nat \ {0}
  /\ NoValue \notin Values /\ NoCaller \notin Callers

VARIABLES
  val, age,         \* inner: the value, and ts.elapsed() up to TTL
  readers, writer,  \* who holds the lock, shared or exclusively
  queue,            \* who waits for it, in order
  pc,               \* where each call is
  answer            \* what the last finished call of each caller returned

vars == <<val, age, readers, writer, queue, pc, answer>>

TypeOK ==
  /\ val \in Values \cup {NoValue} /\ age \in 0..TTL
  /\ readers \subseteq Callers /\ writer \in Callers \cup {NoCaller}
  /\ queue \in Seq(Callers)
  /\ pc \in [Callers -> {"idle", "wantRead", "read", "wantWrite", "recheck", "init"}]
  /\ answer \in [Callers -> Values \cup {NoValue, Failed}]
  /\ readers = {c \in Callers : pc[c] = "read"}
  /\ \A c \in Callers : writer = c <=> pc[c] \in {"recheck", "init"}
  /\ writer # NoCaller => readers = {}

Fresh == val # NoValue /\ age < TTL

Init ==
  /\ val = NoValue /\ age = TTL
  /\ readers = {} /\ writer = NoCaller /\ queue = <<>>
  /\ pc = [c \in Callers |-> "idle"]
  /\ answer = [c \in Callers |-> NoValue]

-----------------------------------------------------------------------------
(* tokio's RwLock serves its waiters first come, first served.             *)

Goto(c, to) == pc' = [pc EXCEPT ![c] = to]
Request(c) == queue' = Append(queue, c)
Release(c) ==
  /\ readers' = readers \ {c}
  /\ writer' = IF writer = c THEN NoCaller ELSE writer

Grant(c) ==
  /\ queue # <<>> /\ Head(queue) = c /\ queue' = Tail(queue)
  /\ writer = NoCaller
  /\ \/ pc[c] = "wantRead" /\ Goto(c, "read") /\ readers' = readers \cup {c} /\ UNCHANGED writer
     \/ pc[c] = "wantWrite" /\ readers = {} /\ Goto(c, "recheck") /\ writer' = c /\ UNCHANGED readers
  /\ UNCHANGED <<val, age, answer>>

-----------------------------------------------------------------------------
(* get_or_try_init                                                         *)

Call(c) ==
  /\ pc[c] = "idle"
  /\ Goto(c, "wantRead") /\ Request(c)
  /\ answer' = [answer EXCEPT ![c] = NoValue]
  /\ UNCHANGED <<val, age, readers, writer>>

Return(c, v) ==
  /\ Goto(c, "idle") /\ Release(c)
  /\ answer' = [answer EXCEPT ![c] = v]
  /\ UNCHANGED queue

UpgradeGuard_Kept(c) == UNCHANGED <<readers, writer>>
\* The read guard is dropped before the write lock is requested.
UpgradeGuard(c) == Release(c)

CheckRead(c) ==
  /\ pc[c] = "read"
  /\ IF Fresh THEN Return(c, val)
     ELSE Goto(c, "wantWrite") /\ Request(c) /\ UpgradeGuard(c) /\ UNCHANGED answer
  /\ UNCHANGED <<val, age>>

Recheck_Skipped(c) ==
  /\ pc[c] = "recheck"
  /\ Goto(c, "init") /\ UNCHANGED <<val, age, readers, writer, queue, answer>>
\* Another waiter may have refreshed the entry since CheckRead.
Recheck(c) ==
  /\ pc[c] = "recheck"
  /\ IF Fresh THEN Return(c, val)
     ELSE Goto(c, "init") /\ UNCHANGED <<readers, writer, queue, answer>>
  /\ UNCHANGED <<val, age>>

\* f().await ends, with a value that is stored or an error that is passed on.
FinishInit(c) ==
  /\ pc[c] = "init"
  /\ \/ \E v \in Values : val' = v /\ age' = 0 /\ Return(c, v)
     \/ Return(c, Failed) /\ UNCHANGED <<val, age>>

\* The future is dropped at an await: its place in the queue or its guard go.
Cancel(c) ==
  /\ pc[c] # "idle"
  /\ Goto(c, "idle") /\ Release(c)
  /\ queue' = Without(queue, c)
  /\ UNCHANGED <<val, age, answer>>

Tick == age < TTL /\ age' = age + 1 /\ UNCHANGED <<val, readers, writer, queue, pc, answer>>

Progress(c) == Grant(c) \/ CheckRead(c) \/ Recheck(c) \/ FinishInit(c)

Next == Tick \/ \E c \in Callers : Progress(c) \/ Call(c) \/ Cancel(c)

Spec == Init /\ [][Next]_vars

\* The runtime polls a task whose lock was granted, and the initializer ends.
FairSpec == Spec /\ \A c \in Callers : WF_vars(Progress(c))

-----------------------------------------------------------------------------
(* Properties.                                                             *)

\* The lock-based cell implements the promise: refreshes only when there is no
\* fresh value, never two at once, and answers that are fresh or its own refresh.
Promise == INSTANCE FreshCell WITH
  open <- {c \in Callers : pc[c] # "idle"},
  refresher <- IF writer # NoCaller /\ pc[writer] = "init" THEN writer ELSE NoCaller
ImplementsFreshCell == Promise!Spec

\* The calls inside the cell never all wait for each other: every waiter has its
\* place in the queue, nobody's is left behind by a dropped future, and the first
\* one can be served or waits for a call that itself waits for no lock.
NoDeadlock ==
  /\ QueueOf(queue, {c \in Callers : pc[c] \in {"wantRead", "wantWrite"}})
  /\ queue # <<>> =>
       \/ \E c \in Callers : pc[c] \in {"read", "recheck", "init"}
       \/ writer = NoCaller /\ (readers = {} \/ pc[Head(queue)] = "wantRead")

\* Every call ends, though the value may expire as often as it likes, callers may
\* be cancelled in the lock's queue and others keep coming.
EveryCallEnds == \A c \in Callers : pc[c] # "idle" ~> pc[c] = "idle"
=============================================================================
