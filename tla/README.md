# A TLA+ verification project for keyring-rs

keyring-rs is a foreground `ssh-agent` service. One process owns a Unix socket, accepts clients,
and answers their requests with keys that it loads from providers: a dummy provider and a
Bitwarden vault. It reloads its configuration on `SIGUSR1` and drains on `SIGINT` and `SIGTERM`.

This directory holds TLA+ models of the program, the TLC configurations that check them on small
instances, and TLAPS proofs of the properties that matter most, for every value of the constants.
The definitions are translated from the source; `PROJECT.json` maps each of them to its lines.

## 1. Inventory

| Component | Source (under `src/crates`) | State | Operations | Interacts with | Module |
|---|---|---|---|---|---|
| Service loop | `keyring-cli/src/main.rs` | active agent, stop channel, `jobs`, `reloads`, `reload_pending` | one arm of the biased `select!` per event, the drain, the client task `handle`, the build `load` | signals, configuration file, listener, agent sessions | `ServeLoop` |
| Signals | `keyring-cli/src/platform.rs` 377-394 | three signal streams | `recv` | kernel, service loop | `ServeLoop` |
| Listener, socket path | `keyring-cli/src/platform.rs` 180-289 | directory entry, inode, listener | `bind`, `reclaim_stale_socket`, `accept`, `drop` | file system, other processes on the same path | `SocketPath`; `accept` in `ServeLoop` |
| Configuration | `keyring-cli/src/config.rs` | none | read, parse, build providers | file, service loop | one step of `ServeLoop` |
| Cache cell | `keyring-core/src/cell.rs` | value and instant behind an `RwLock` | `get_or_try_init` | provider tasks | `CacheCell`, `FreshCell` |
| Agent session | `keyring-service/src/runtime.rs` | key snapshot, session-bind records | identities, sign, extension | providers | `ServiceSession` |
| Bitwarden session | `keyring-providers/src/bitwarden/session.rs` | `Auth` behind a mutex, `gate` mutex, key store | `sync`, `token`, `login` | identity and API servers, provider | `BitwardenSession` |
| Bitwarden authentication | `.../bitwarden/auth.rs` | none | token request, classification of the answer | identity server | the outcome of a step of `BitwardenSession` |
| Bitwarden key store | `.../bitwarden/crypto.rs` | user, private and organization keys | bootstrap, import of organization keys, resolution of an item's key | session, provider | `KeyStore`; the bootstrap also in `BitwardenSession` |
| Bitwarden provider | `.../bitwarden/provider.rs` | cache, session | `load`, `fetch`, `discover` | all of the above | `BitwardenProvider`; keys and items in `KeyStore` |
| Dummy provider | `keyring-providers/src/dummy` | constant snapshot | `load` | agent session | not modelled: nothing changes |
| Arguments, logging, packaging | `args.rs`, `init.rs`, `src/nix` | none | none | | not modelled |

What is hard to test in this code:

* the order of polls inside one pass of the `select!`, where a signal, a finished build, a finished
  client and a new client compete (`main.rs:91-167`);
* edits of the file, signals and builds in every order (`main.rs:97-140`);
* clients of several generations, the stop that each of them must get whatever it is doing, and the
  request deadline inside the drain deadline (`main.rs:176`, `213`, `219`, `227`);
* cancellation at every await: the request timeout drops the provider's future wherever it is, with
  the cache lock, the gate or a half-finished login in hand;
* the second looks that make locks correct: after the write lock, after the gate, at a late 401;
* starts, stops and kills of several processes on one path.

## 2. Modules

| Module | What it is | Code |
|---|---|---|
| `AgentService` | what the service loop promises, without its `select!`, channels and task sets | `main.rs` |
| `ServeLoop` | the service loop, its builds and its clients; implements `AgentService` | `main.rs`, `platform.rs`, `config.rs` |
| `WaitQueue` | the waiters of a tokio lock and what a dropped future does to them | |
| `FreshCell` | what `CacheCell` promises, without its lock | `cell.rs` |
| `CacheCell` | `get_or_try_init`, implements `FreshCell` | `cell.rs` |
| `PathOwner` | what a listener promises about its path, without its system calls | `platform.rs` |
| `SocketPath` | processes on one socket path, each system call a step; implements `PathOwner` | `platform.rs` |
| `BitwardenSession` | `sync`, `token`, `login` with concurrent callers | `session.rs`, `auth.rs`, `crypto.rs` |
| `BitwardenProvider` | one provider under the request deadline, composes `CacheCell` and `BitwardenSession` | `provider.rs`, `main.rs` |
| `KeyStore` | bootstrap, import of organization keys, discovery, against a server that changes | `crypto.rs`, `provider.rs`, `models.rs` |
| `KeyIndex` | key pairs, public keys, and what a merge of several snapshots is | `runtime.rs` |
| `SnapshotAgent` | what an agent session promises, without the requests that load it | `runtime.rs` |
| `ServiceSession` | client sessions over shared providers: snapshot, identities, sign, session-bind; implements `SnapshotAgent` | `runtime.rs` |
| `MC*` | instances for TLC | |
| `*Proofs` | theorems, lemmas and TLAPS proofs; `WaitQueueProofs` holds what the lock queues preserve | |

### ServeLoop

`poll` is the arm of the `select!` that is polled next. A pass goes signal, reload, jobs, accept; an
arm that is ready ends the pass and the loop starts again with the signals. So an event that arrives
after its arm was polled waits for the next pass, as in the code. `NoSignal` starts a pass only when
some other arm may be ready: the loop sleeps otherwise.

A generation is `agent = [gen, cfg]` with the stop channel `stop`; a channel that holds `true` is in
`stopped`. A client is a task with a program counter: `backlog` in the kernel's queue, `top` of the
loop of `handle`, parked in `select`, `polled` when `stop.changed()` was found not ready and the
stream is polled next, `busy` in a request, `done` when it waits in the JoinSet. `wire` is what its
stream would yield. A build is in `reloads` from `spawn_blocking` to `join_next`; it reads the file
when it finishes (`FinishBuild`).

A request gets its budget `left` when it is decoded (`PollWire`), and the type invariant says that nobody
else has one: `REQUEST_TIMEOUT` leaves idle reads out (`main.rs:51`). `Tick` and `Down` stand for the clock
behind `tokio::time::timeout`; they are no code of the program.

`session.handle()` is a call that returns (`Respond`), fails (`RequestFails`), or hangs until
`Timeout`. Nothing is assumed of how long it takes.

`AgentService` has none of this: requests for a reload (`asked`), one read of the file at a time (`read`), each
begun after the request it answers, sessions and who of them was told to stop. The mapping `Promise` counts
a request in each place that remembers one, the pending signal and `reload_pending`; `read` is the build in
`reloads`; `sessions` are the clients whose task has not ended, and `told` those whose channel is stopped.
`ImplementsAgentService` says that every arm, build and client step is a step of the abstract service or none.

### CacheCell and FreshCell

The lock is tokio's fair `RwLock`: a queue of waiters served in order. Every await is a place where
`Cancel` may drop the future, with its place in the queue or its guard. `age` is `ts.elapsed()`, up
to the TTL. `FreshCell` has no lock: a call returns the cached value only while it is fresh, a
refresh starts only when there is none, and one at a time. The refinement mapping is
`open` = the callers not idle and `refresher` = the writer that runs the initializer. `NoDeadlock` says that
each waiter has its one place in the queue (`QueueOf`) and that the first can be served or waits for a call
that waits for no lock; `BitwardenSession` has the same of the gate.

### SocketPath

A directory entry is a kind and an inode; inode numbers are reused when nobody holds them.
`UnixListener::bind` is two system calls, `bind()` and `listen()`, so a starter may find a socket
that is bound and refuses connections. A process may be killed anywhere (`Crashes`), every system call
of a start may fail with an error of its own and the probe may time out (`CallFails`, under `Faults`),
and starts may overlap or not (`Serial`). `Drop` unlinks
in `Drop::drop` and closes the socket when the fields drop, in this order.

`PathOwner` sees only what the path names (nothing, a file that is not a socket, a socket nobody answers
on, a live one) and who serves: a live socket leaves the path only with its own process.

### BitwardenSession

The `state` mutex is never held across an await, so each of its critical sections is a step. `gate`
is a fair mutex that is held across logins. `exp` is the time left before the renewal window, and
`held` the response a login works on until it publishes it. The server issues a new token at every
login and revokes any of them at any time; the name of a token that no variable holds any more stands
for the next new one, so that the calls may go on for ever with a finite set of names. `rejected`
remembers which tokens were answered with 401, `missed` which calls found no token to send.

### BitwardenProvider

`load()` calls the cell, whose initializer is `fetch()`, which calls `sync()` of the session: the module
instantiates `CacheCell` and `BitwardenSession` over shared variables, and each of its actions is a step of one
of them or of both. `Finish` ends both at once, for nothing is awaited after the sync response.
`left` is what a request has left of its `REQUEST_TIMEOUT` and `http` what its HTTP request has left of
`HTTP_TIMEOUT`. A request arrives with any budget (`Call`): the providers before it in the
configuration have used the rest, since `runtime.rs:240` loads them one after the other. `Deadline` is
`timeout(REQUEST_TIMEOUT, ..)` (`main.rs:227`): it drops the call in the cell's queue, with the write
lock, in the gate's queue, or in the middle of a login. Time passes (`Tick`) only while all there is to
do is to wait, so a deadline and an HTTP timeout are exact, and computation takes no time.

`cut` are the requests whose last end was their deadline, `hurt` those that came late (with no more
budget than `ColdLoad`, a login and a sync that take their whole timeouts) or were open when a
fetch was refused, failed or cut off. `CutOnlyInTrouble` says that only those are ever cut: it could
fail through the queue of the cell, if each of those who wait refreshed again, and does when the
second look after the write lock is left out.

`Recover` is the moment from which the servers answer well and in time, and `RetryServed` says that a
client that keeps asking is then served, whatever the requests that were cut off have left behind.
`NoDeadlock` is about the two locks together: the gate is awaited with the write lock of the cell held. Two
things are assumed of a recovered server: its tokens outlive the time their holders need, and the
earlier providers leave more than `ColdLoad` of the budget. Without the first, a token that is stale when the
sync is refused lets two clients that are out of phase cut each other off for ever; the code has no
promise against such a server.

### KeyStore

The cache runs fetches one at a time, so the module has one. Its sync request is `SyncFails` or the
response that `BeginImport` works on: the early return when the profile lists no organization, or
the `retain` that drops what earlier imports left. `NoPrivateKey` is the `bail!`. Then the loop goes
through the entries of the profile, each a step: `ImportOrg`, `PassOver` for an entry without a key,
and `ImportFails`, which breaks the loop off with some of the keys imported. `todo` is what the loop has
still to go through; the order of the entries is the server's, so it is any. `Discover` follows when nothing
is left. Nothing is awaited between the response and the end, so no deadline drops the fetch
there, and the server stands still: what it changes meanwhile is in the next response.

The other step that leaves something behind is a bootstrap that fails between its two `persist` calls
(`LoginFails` with `Halfway`). Between the fetches the server lets organizations come, go, break, heal
and rotate their keys, and items change. An item is `usable`, `filtered` (dropped by a guard of `key()`),
or `malformed`; `entry` is how the profile lists an organization: not at all, without a key, with a key
that does not decrypt, or well. `fetch` is forgotten when the server changes, so the properties compare a
fetch with the server it saw.

### ServiceSession

The requests of one connection follow each other; `pc` says whether one is loading the snapshot or
about to answer. A load asks the providers in order (`out` is the index in the making), and each may
return any of its contents, a different one at every load, or fail. `keys` is the `OnceCell`. `got`,
`listed` and `signed` are history variables: what the providers answered and what the client was
given. `Close` covers the end of the client task for whatever reason, a request timeout in the middle
of a load included. `extension` never awaits, so `SessionBind` is a step; records that do not parse or
verify leave no trace. A sign request carries its SHA-2 flags, and a key pair is of a kind: Ed25519, RSA,
or unfit (another algorithm, encrypted, inconsistent, too small); `CanSign` is when `sig()` succeeds.

`SnapshotAgent` is the session without its requests: it takes one merged snapshot at some moment of its life and
lists and signs from that one until it closes. A load that fails or is cut off half-way is no step of it, so
`ImplementsSnapshotAgent` says that such a load leaves no trace in what a client can see.

## 3. Runs

| Run | Instance | Checks |
|---|---|---|
| `serve_safety` | 2 clients, 3 file contents (1 invalid), 2 `SIGUSR1`, timeouts of 2 ticks | type, no lost reload, the newest configuration wins; generations and stop channels, drain against request deadlines; implements `AgentService` |
| `serve_live` | 2 clients, 2 `SIGUSR1`, timeouts of 1 tick, fairness | shutdown ends, old clients end, reload takes effect |
| `cache_cell` | 3 callers, 2 values, TTL of 2 ticks, fairness | type, implements `FreshCell`, no deadlock of the lock, every call ends |
| `socket_starts` | 3 processes, 4 inodes, serial starts, kills, failing system calls | type, the serving process is reachable, a drop leaves the others alone; implements `PathOwner` |
| `socket_stale` | 2 processes, serial starts, kills, fairness | a stale socket is reclaimed |
| `socket_race` | 2 processes, overlapping starts | violated, see section 6 |
| `session_calls` | 2 callers, 5 names of tokens, 1 tick of lifetime, fairness | publication, invalidation, renewal and retry of tokens; no deadlock of the gate, every sync ends |
| `provider_load` | 2 clients, 1 snapshot with a TTL of 1 tick, 2 names of tokens with 1 tick of lifetime, deadlines of 3 ticks and 1, fairness | type, no token is missed, only requests that came late or saw a failure are cut off, no deadlock of lock and gate, retries are served |
| `keystore_fetch` | 2 organizations, 2 items, 1 rotation each | type, complete baseline, organization keys follow the profile through every end of an import, discovery |
| `keystore_stale` | 2 organizations, 1 item | violated, see section 6 |
| `keystore_personal` | 2 organizations, 1 item | violated, see section 6 |
| `service_session` | 1 connection, 2 providers, 4 contents, 3 key pairs with 2 public keys, 3 kinds, 3 session identifiers | type, whole snapshots, signatures with what was listed and only refused for the key itself, chains of session-bind records; implements `SnapshotAgent` |

Every property has a mutant of the code (an operator named `<Definition>_<Bug>` before the
definition it replaces) under which TLC finds it violated.

### Bounds, and why they are enough

* `MaxSignals = 2`: one signal starts a build, the next one is coalesced; a third repeats the second.
  The bound hides one behaviour: an endless stream of `SIGUSR1` keeps the first arm ready and starves
  the others. The code promises nothing there.
* Two clients: every property relates at most one client to the loop, and two are enough for one of
  each generation, or one served while the other is in the backlog. The theorems hold for any number.
* Timeouts of 1 or 2 ticks: only the order of the two deadlines matters; 2 leaves a tick between.
* `ServeAssumption` has `RequestTimeout <= ShutdownTimeout`; both constants are 30 s in the code.
* Names of tokens: one per place that holds one (the published token, the token of each call, the response
  of the login under way). `LoginReply` waits while all names are in use; 5 for 2 callers, and 2 in
  `provider_load`, where one call runs at a time, are enough that it never waits.
* `RequestTimeout = 3`, `HttpTimeout = 1`: the ratio of 30 s and 10 s. A token lives out of the renewal
  window for 0 or 1 ticks and a snapshot for 1, so both expire during a fetch and between two.
* Two clients of one provider: one that fetches and one behind it in the lock, or two that take turns. A
  client that was served after the recovery stops asking: `RetryServed` says nothing about it any more.
* One more inode than processes: every listener has one, and a fresh one is always left.
* `MaxVersion = 2`: the key before a rotation and after it; an import compares nothing older.
* Two organizations: one that is imported before the one that breaks the import. Two items: one that
  is published next to one that is not.
* Two providers and contents that share a public key, within one provider and across both: the last
  occurrence is then in an earlier provider, in a later one, or at a later place in the same one.
* One connection: connections share nothing but the providers, and those answer anything in the model.
* Three identifiers: a forwarding hop, another one, and the authentication at the end.
* Symmetry is used for invariants and action properties only, never with liveness.

### Fairness

`ServeLoop`: the runtime polls what is ready (weak fairness of the loop, of each client task and of
the drain), a build reads a local file and ends, and time passes. `Tick` is strongly fair because it
is disabled for the moment in which a client task is inside one poll. Handlers, peers and signals
are not fair. `CacheCell` and `BitwardenSession`: locks are fair, as tokio documents, and an await
ends: the initializer has its HTTP timeouts (`session.rs:21-25`). `BitwardenProvider`: what is ready is
run, time passes, and clients ask again (an `ssh` command that failed is repeated; the property is about
those that are). `SocketPath`: a starter runs on; no
fairness of starts, stops or kills.

## 4. Proofs

All theorems hold for any sets of clients, callers, processes and values and any bounds.

* `ServeLoopProofs`. `TypeCorrect` is the type invariant, with the budgets of requests in flight. `BuildInv` strengthens the three reload
  properties: at most one build exists, with the newest identifier, a pending reload implies a build,
  and a build that finished holds what was read last. `GenInv` says that the stop channel of a client
  has the number of its generation and that the stopped channels are exactly the older ones, plus the
  current one after the loop ended; `GenerationSplit` follows, and is not inductive without the
  numbering. `DrainInv` says that a client in flight has at most as much of its budget left as the
  drain, and that no client can begin a request after the stop except one that had polled its channel
  before the drain began; this is where `RequestTimeout <= ShutdownTimeout` is used. `Refinement` maps every
  step to one of `AgentService`, which holds one read at a time by its shape. It needs `BuildInv` and `GenInv`
  for what a build and the end of the loop do to sessions, and `LoadInv` of its own: before the first agent
  there is none, a request is put off only while a build is in `reloads`, and a build that runs or failed
  carries no configuration. A join of a build with `reload_pending` set is the one step that does two things
  at once, and the abstract `Conclude` begins the next read in the same step.
* `WaitQueueProofs`. What the three operations on a queue do to the set of those who wait: one who enters is added
  at the end, the head is taken, and a dropped waiter takes its own place along and no other's, wherever it is
  (`WithoutQueue`). `DeadlockFree` rests on it at all three levels.
* `CacheCellProofs`. `LockInv`: the writer is the one caller in the exclusive section, the readers are those
  in the shared one, and there are none while there is a writer. It gives `SingleFlight` (who runs the
  initializer is alone in both sections) and each step of the refinement `ImplementsFreshCell`. `DeadlockFree`
  adds that the queue holds exactly the callers that wait, each once.
* `SocketPathProofs`. `SocketInv`: a starter that has decided that a socket is stale excludes every
  server. It needs `Serial`, and the run `socket_race` shows that it does. `Refinement` maps every system call
  to a step of `PathOwner` or to none, also under `Serial`; `UnlinkInv` adds that what is unlinked after the
  second look is still that socket; that nobody listens on it follows from `SocketInv`.
* `BitwardenSessionProofs`. `AuthInv`: who is about to publish holds a token and an initialized store,
  and who is about to invalidate has been answered with 401. `LoginIsNeeded` and `RetryIsNew` add that a
  call past its second look runs alone in the gate, and that the rejected token a retry remembers is
  never published again: a new token is one that no variable holds. `DeadlockFree`: the queue holds exactly
  the calls that wait for the gate, and the one that holds it is none of them.
* `BitwardenProviderProofs`. `ProviderIsClient`: a behaviour of the composition is a behaviour of the cell and
  of the session. `TokenFound` rests on the write lock: at most one call is in the session, so none
  clears the token between another's check and its use. `NeedlessCutNever` rests on `BudgetInv`, which gives for
  every stage of the call inside the initializer what it needs at most (`Need`): each caller that came in
  time and is not hurt has more left than that, and when nobody fetches it has the time for a cold load or
  a fresh snapshot to pick up. `RequestTimeout > 2 * HttpTimeout` is used there. `ProviderType` is the type invariant
  of the composition. `DeadlockFree` composes the two queues: a request that waits for the gate is inside the
  initializer, so it is alone in the session (`InitIsAlone`), heads the queue, and the gate is free; if nobody is
  inside the cell, its lock is free for the first in its queue. So the gate is never contended behind the cell.
* `KeyStoreProofs`. `ServerInv` says that the server sends no item of an organization it does not list, and
  that only a private key that unwraps is stored. `ImportInv` is the invariant of the import loop: what it has
  gone through is in the store as the profile has it, what is in `todo` is not there yet, and nothing is left
  from before. `KeysFollowProfile` is not inductive without it: it speaks of the ends of an import only, the
  breaking off in `ImportFails` included. `Discovery` needs both: when no organization is listed the
  store may be stale, and discovery is right only because no item then asks for those keys.
* `ServiceSessionProofs`. `ExtendMerges` shows that one `HashMap::extend` takes the merge of the
  answers so far to the merge with one more; it rests on `LastAtIs`, the last occurrence of a public key
  in a snapshot. `SessionInv` says what a session holds at each point of its life, and `SnapshotWhole`
  and `SignsWhatWasListed` follow. `ShownKeySigns`: who has listed does not load again, so the only way from
  a sign request back to idle is the signature. `BindChain` is inductive over the types. `Refinement`: a load
  is invisible until its last provider answers, and `SessionInv` says that the index it stores merges the answers.

Only model-checked: `ShutdownCompletes`, `OldGenerationDrains`, `ReloadTakesEffect`, `EveryCallEnds`, `EverySyncEnds`,
`StaleReclaimed` and `RetryServed`. They are liveness properties under fairness, which needs `ENABLED` and is out of the
prover's reach; `DeadlockFree` is the safety half of three of them. Every invariant and action property of a
passing run, and every refinement, is a theorem.

## 5. Assumptions

* Lock queues are first come, first served, as tokio documents for `Mutex` and `RwLock`.
* A build reads the file in one step. A reader of a file that is rewritten in place may see a part
  of it; a part is one more content of the file here, valid or not.
* No tick of the clock falls inside a single poll of a task.
* Signals sent before `Signal::new` kill the process; the models start after it.
* `NoMissingToken` is a property of the composition. With two callers of `sync()` at once, which the cell
  prevents, a call may fail because another one cleared the token it had just checked.
* `DeadlineAssumption`: `REQUEST_TIMEOUT > 2 * HTTP_TIMEOUT` (30 s and 10 s in the code). A load that is
  refused once makes a sync, a login and a sync, or four requests in all after a stale token: these need not
  fit, and the model has a request cut off in the middle of them.
* `KeyStore`: the private key of the account unwraps or does not for the life of the provider, and the
  account does not rotate its own user key. The server lists the organization of every item it sends.

## 6. Where the code and its specification differ

* `socket_race`: two starts that overlap on one path. The second probes after the first has bound and
  before it listens (or after both found the same stale socket), the probe is refused, the inode is
  unchanged, and `remove_file` (`platform.rs:249`) unlinks a socket that listens by then.
  `openspec/specs/keyring-cli/spec.md:51-52` promises that a path with a live listener is not removed. After
  that the process that lost its path unlinks the other's socket when it stops: `Drop`
  (`platform.rs:287`) does not look at what the path names. `DropKeepsOthers` therefore holds, and is
  checked and proved, for starts that do not overlap.
* `keystore_stale`: when the profile lists no organization, `initialize_org_keys` returns
  (`crypto.rs:110`) before it clears the store, so the keys of the organization the account left last
  stay in memory, where the comment at `crypto.rs:121-122` says they do not linger. `UsablePublished`
  shows that no item is published with them.
* `keystore_personal`: the comment at `crypto.rs:90-91` says that the decryption of personal items can
  proceed without the private key. As soon as the profile lists an organization, `crypto.rs:118` fails
  the import and `provider.rs:146` with it the whole fetch.

## 7. Not modelled

* Arguments, the log subscriber, packaging: no state after the start. The Windows named pipe
  (`platform.rs:150-172`): a thin wrapper. The dummy provider: its snapshot never changes.
* Parsing and validation of the configuration and of the servers' answers: data. A configuration is valid
  or not, a token request succeeds or fails; which error it fails with changes the log only.
* Cryptography: the libraries' own. A key decrypts or not, a key pair can sign or not.
* An endless stream of `SIGUSR1`, an accept error that ends the process with requests in flight, the
  rotation of the account's own user key, and a provider so slow that it leaves those after it no time
  (`runtime.rs:240`): the code promises nothing about them (hazards without a property).

## 8. Where to go on

1. `ServiceSession` over several `BitwardenProvider`s: the budgets that `Call` picks freely would come from
   the load before.
2. The composition of `AgentService` with `SnapshotAgent`: a reload with the snapshots of the old clients.
3. The cut-off of a refused load, which `DeadlineAssumption` does not cover: how many clients it can cost.
