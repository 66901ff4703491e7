-------------------------- MODULE BitwardenProvider --------------------------
(***************************************************************************)
(* One Bitwarden provider under the deadline of the agent requests that    *)
(* load it: BitwardenProvider::load and fetch (provider.rs) compose the    *)
(* cache cell with the session, and handle (main.rs) drops a request that  *)
(* has used up its budget, at whatever await it is.                        *)
(***************************************************************************)
EXTENDS Integers, Sequences

CONSTANTS
  Callers,         \* agent requests that load the provider, at most one per connection
  Values,          \* key snapshots
  NoValue, Failed, NoCaller, None,
  TTL,             \* life of a snapshot, in ticks
  Tokens, MaxLife,
  RequestTimeout,  \* REQUEST_TIMEOUT, in ticks
  HttpTimeout      \* HTTP_TIMEOUT, in ticks

ASSUME ProviderAssumption ==
  /\ TTL \in Nat \ {0} /\ MaxLife \in Nat
  /\ NoValue \notin Values /\ Failed \notin Values
  /\ NoCaller \notin Callers /\ None \notin Nat \cup Tokens \cup Callers

\* main.rs: 30 s; session.rs: 10 s.
ASSUME DeadlineAssumption ==
  /\ HttpTimeout \in Nat \ {0} /\ RequestTimeout \in Nat
  /\ RequestTimeout > 2 * HttpTimeout

VARIABLES
  val, age, readers, writer, waiters, load, answer,          \* the cell
  token, exp, crypto, keys, gate, queue, pc, att, tok, held, \* the session
  missed, valid, rejected,
  built,    \* the OnceCell holds a session
  left,     \* what is left of each request's budget
  http,     \* what is left for the HTTP request of each call
  healthy,  \* the server has recovered for good
  cut,      \* history: requests whose last end was their deadline
  hurt      \* history: requests that came late, or saw a fetch refused, failed or cut off

Cell == INSTANCE CacheCell WITH queue <- waiters, pc <- load
Session == INSTANCE BitwardenSession

cell == <<val, age, readers, writer, waiters, load, answer>>
session == <<token, exp, crypto, keys, gate, queue, pc, att, tok, held, missed, valid, rejected>>
vars == <<cell, session, built, left, http, healthy, cut, hurt>>

Open == {c \in Callers : load[c] # "idle"}
OnWire == {"login", "sync"}

TypeOK ==
  /\ Cell!TypeOK /\ Session!TypeOK
  /\ built \in BOOLEAN /\ healthy \in BOOLEAN
  /\ left \in [Callers -> 0..RequestTimeout] /\ http \in [Callers -> 0..HttpTimeout]
  /\ cut \subseteq Callers /\ hurt \subseteq Callers
  /\ \A c \in Callers : pc[c] # "idle" => load[c] = "init"

Init ==
  /\ Cell!Init /\ Session!Init
  /\ built = FALSE /\ healthy = FALSE
  /\ left = [c \in Callers |-> 0] /\ http = [c \in Callers |-> 0]
  /\ cut = {} /\ hurt = {}

-----------------------------------------------------------------------------
(* load(): the snapshot comes from the cell, or fetch() fills it.          *)

\* A cold load is one login and one sync.
ColdLoad == 2 * HttpTimeout

\* An agent request comes to the provider with what the providers before it have
\* left of its budget.
Call(c) ==
  /\ Cell!Call(c)
  /\ healthy => answer[c] \notin Values  \* bound: a client that was served stops asking
  /\ \E budget \in 1..RequestTimeout :
       /\ healthy => budget > ColdLoad
       /\ left' = [left EXCEPT ![c] = budget]
       /\ hurt' = IF budget > ColdLoad THEN hurt \ {c} ELSE hurt \cup {c}
  /\ cut' = cut \ {c}
  /\ UNCHANGED <<session, built, http, healthy>>

\* The steps of the lock, and the answers that need no fetch.
Look(c) ==
  /\ Cell!Grant(c) \/ Cell!CheckRead(c) \/ Cell!Recheck(c)
  /\ left' = IF load'[c] = "idle" THEN [left EXCEPT ![c] = 0] ELSE left
  /\ UNCHANGED <<session, built, http, healthy, cut, hurt>>

-----------------------------------------------------------------------------
(* fetch(), the initializer of the cell.                                   *)

Fetching(c) == load[c] = "init"

\* The session is built by the first fetch that can, then sync() is called.
Begin(c) ==
  /\ Fetching(c) /\ pc[c] = "idle"
  /\ built' = TRUE
  /\ Session!Begin(c)
  /\ UNCHANGED <<cell, left, http, healthy, cut, hurt>>

\* The call leaves the cell with what the initializer made.
Finish(c, ok) ==
  /\ Cell!FinishInit(c)
  /\ ok <=> answer'[c] \in Values
  /\ left' = [left EXCEPT ![c] = 0]
  /\ hurt' = IF ok THEN hurt ELSE hurt \cup Open

BuildFails(c) ==
  /\ Fetching(c) /\ pc[c] = "idle" /\ ~built /\ ~healthy
  /\ Finish(c, FALSE)
  /\ UNCHANGED <<session, built, http, healthy, cut>>

\* A step of sync() after which the call goes on; a request on the wire gets its
\* own timeout.
Talk(c) ==
  /\ \/ Session!CheckFresh(c) \/ Session!GrantGate(c) \/ Session!Recheck(c) \/ Session!LoginReply(c)
     \/ Session!Bootstrap(c) \/ Session!Publish(c) \/ Session!Take(c) \/ Session!Invalidate(c)
  /\ pc'[c] # "idle"
  /\ healthy /\ pc[c] = "login" => held'[c].left > 0
  /\ http' = [http EXCEPT ![c] = IF pc'[c] \in OnWire THEN HttpTimeout ELSE 0]
  /\ UNCHANGED <<cell, built, left, healthy, cut, hurt>>

Refused(c) ==
  /\ Session!Sync401(c)
  /\ http' = [http EXCEPT ![c] = 0]
  /\ hurt' = hurt \cup Open
  /\ UNCHANGED <<cell, built, left, healthy, cut>>

\* sync() succeeds; the profile may be missing or the import of its keys fail.
FetchEnds(c) ==
  /\ Session!SyncOk(c)
  /\ http' = [http EXCEPT ![c] = 0]
  /\ \E ok \in BOOLEAN : (healthy => ok) /\ Finish(c, ok)
  /\ UNCHANGED <<built, healthy, cut>>

\* sync() fails: the server does not answer well or in time, refuses the second
\* token too, or there is no token to send.
FetchFails(c) ==
  /\ \/ ~healthy /\ (Session!LoginFails(c) \/ Session!SyncFails(c))
     \/ Session!Take(c) \/ Session!Invalidate(c)
  /\ pc'[c] = "idle"
  /\ http' = [http EXCEPT ![c] = 0]
  /\ Finish(c, FALSE)
  /\ UNCHANGED <<built, healthy, cut>>

-----------------------------------------------------------------------------
(* The deadline, time and the server.                                      *)

DropSession_Kept(c) == UNCHANGED session
DropSession(c) == IF pc[c] = "idle" THEN UNCHANGED session ELSE Session!Cancel(c)

\* timeout(REQUEST_TIMEOUT, ..) drops the request's future.
Deadline(c) ==
  /\ load[c] # "idle" /\ left[c] = 0
  /\ Cell!Cancel(c) /\ DropSession(c)
  /\ http' = [http EXCEPT ![c] = 0]
  /\ cut' = cut \cup {c} /\ hurt' = hurt \cup (Open \ {c})
  /\ UNCHANGED <<built, left, healthy>>

\* All there is to do for a request is to wait, for the lock or for the server.
Waiting(c) ==
  \/ load[c] = "idle"
  \/ /\ left[c] > 0
     /\ \/ load[c] \in {"wantRead", "wantWrite"} /\ (writer # NoCaller \/ readers # {})
        \/ Fetching(c) /\ pc[c] \in OnWire /\ http[c] > 0

Down(n) == IF n = 0 THEN 0 ELSE n - 1

Tick ==
  /\ \A c \in Callers : Waiting(c)
  /\ IF age < TTL THEN Cell!Tick ELSE UNCHANGED cell
  /\ IF ~healthy /\ (~Session!Stale \/ \E c \in Callers : held[c].left > 0)
     THEN Session!Tick ELSE UNCHANGED session
  /\ left' = [c \in Callers |-> Down(left[c])] /\ http' = [c \in Callers |-> Down(http[c])]
  /\ UNCHANGED <<built, healthy, cut, hurt>>

Revoke ==
  /\ ~healthy /\ \E t \in Tokens : Session!Revoke(t)
  /\ UNCHANGED <<cell, built, left, http, healthy, cut, hurt>>

\* From here on this server and those of the earlier providers answer every request
\* well and in time, this one with tokens that outlive the time their holders need.
Recover ==
  /\ ~healthy /\ healthy' = TRUE
  /\ UNCHANGED <<cell, session, built, left, http, cut, hurt>>

Work(c) == \/ Look(c) \/ Begin(c) \/ BuildFails(c) \/ Talk(c) \/ Refused(c)
           \/ FetchEnds(c) \/ FetchFails(c) \/ Deadline(c)

Next == \/ Tick \/ Revoke \/ Recover
        \/ \E c \in Callers : Call(c) \/ Work(c)

Spec == Init /\ [][Next]_vars

\* Tasks that can run are run, HTTP requests end by their timeouts, time passes,
\* and the clients of the agent try again.
FairSpec == Spec /\ WF_vars(Tick) /\ \A c \in Callers : WF_vars(Work(c)) /\ WF_vars(Call(c))

-----------------------------------------------------------------------------
(* Properties.                                                             *)

\* The calls of the session come one at a time, through the cell's initializer,
\* so no call finds the token missing that it has just made sure of.
NoMissingToken == missed = {}

\* The locks nest: a fetch waits for the gate with the cell locked, while others
\* queue for the cell. Some request inside the provider can always go on without a
\* lock that another holds, whichever of them the deadline has dropped and where.
NoDeadlock ==
  LET Waits(c)  == load[c] \in {"wantRead", "wantWrite"}
      WaitsIn(c) == Fetching(c) /\ pc[c] \in {"wantGate", "wantGate401"}
  IN  Open # {} => \E c \in Open :
        \/ ~Waits(c) /\ ~WaitsIn(c)
        \/ Waits(c) /\ waiters # <<>> /\ Head(waiters) = c /\ writer = NoCaller
           /\ (readers = {} \/ load[c] = "wantRead")
        \/ WaitsIn(c) /\ queue # <<>> /\ Head(queue) = c /\ gate = None

\* A request that comes with time for a cold load and sees the server answer
\* everything, at whatever speed its timeouts allow, is never cut off by its
\* deadline, however many requests queue for the same refresh.
CutOnlyInTrouble == cut \subseteq hurt

\* Once the server has recovered, a client that tries again is served, whatever
\* the requests that were cut off before have left behind.
RetryServed == \A c \in Callers : healthy ~> answer[c] \in Values
=============================================================================
