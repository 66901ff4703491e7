------------------------------ MODULE ServeLoop ------------------------------
(***************************************************************************)
(* The service loop of keyring-cli (main.rs: main, serve, handle, load)    *)
(* with the client tasks it spawns, the configuration builds it runs on    *)
(* the blocking pool, the process signals and the shutdown drain.          *)
(*                                                                         *)
(* One pass of the biased `select!` is the variable poll: the branches are *)
(* polled in the order signal, reload, jobs, accept, so that an event      *)
(* which arrives in the middle of a pass is missed by the branches already *)
(* polled, as in the code.                                                 *)
(***************************************************************************)
EXTENDS Integers

CONSTANTS
  Clients,          \* connections to the agent socket
  Configs,          \* contents the configuration file may have
  ValidConfigs,     \* the contents that load() turns into an agent
  NoConfig,         \* no content: before the first read
  RequestTimeout,   \* REQUEST_TIMEOUT, in ticks
  ShutdownTimeout,  \* SHUTDOWN_TIMEOUT, in ticks
  MaxSignals        \* bound: how many SIGUSR1 the environment sends

ASSUME ServeAssumption ==
  /\ ValidConfigs \subseteq Configs
  /\ NoConfig \notin Configs
  /\ RequestTimeout \in Nat \ {0}
  /\ ShutdownTimeout \in Nat
  /\ RequestTimeout <= ShutdownTimeout
  /\ MaxSignals \in Nat

VARIABLES
  phase,          \* where main() is
  poll,           \* the branch of the select that is polled next
  usr1, term,     \* signals the kernel has recorded and recv() has not returned
  sent,           \* SIGUSR1 sent so far
  file,           \* the content of the configuration file now
  agent,          \* the active generation and the configuration it was built from
  stop, stopped,  \* the active stop channel; the channels that hold true
  reloads,        \* the build tasks of the JoinSet, running or finished
  builds,         \* build tasks spawned so far
  reloadPending,  \* reload_pending
  drainLeft,      \* what is left of the shutdown drain
  pc,             \* where each client task is
  wire,           \* what each client's stream would yield
  left,           \* what is left of the budget of each client's request
  gen, chan,      \* generation and stop channel of each client's session
  unread,         \* history: a SIGUSR1 was sent after the last read of the file
  newest          \* history: what the last successful load() read

loopVars   == <<phase, poll, drainLeft>>
signalVars == <<usr1, term, sent>>
genVars    == <<agent, stop, stopped>>
buildVars  == <<reloads, builds, reloadPending>>
clientVars == <<pc, wire, left, gen, chan>>
fileVars   == <<file, unread, newest>>
vars == <<loopVars, signalVars, genVars, buildVars, clientVars, fileVars>>

Build == [id : Nat, st : {"running", "ok", "failed"}, cfg : Configs \cup {NoConfig}]

LoopType ==
  /\ phase \in {"starting", "serving", "draining", "aborting", "exited", "failed"}
  /\ poll \in {"signal", "reload", "jobs", "accept"}
  /\ drainLeft \in 0..ShutdownTimeout
SignalType == usr1 \in BOOLEAN /\ term \in BOOLEAN /\ sent \in Nat
GenType == agent \in [gen : Nat, cfg : Configs \cup {NoConfig}] /\ stop \in Nat /\ stopped \subseteq Nat
BuildType == reloads \subseteq Build /\ builds \in Nat /\ reloadPending \in BOOLEAN
ClientType ==
  /\ pc \in [Clients -> {"none", "backlog", "top", "select", "polled", "busy", "done"}]
  /\ wire \in [Clients -> {"idle", "request", "closed"}]
  /\ left \in [Clients -> 0..RequestTimeout]
  /\ gen \in [Clients -> Nat] /\ chan \in [Clients -> Nat]
  /\ \A c \in Clients : left[c] # 0 => pc[c] = "busy"
FileType == file \in Configs /\ unread \in BOOLEAN /\ newest \in Configs \cup {NoConfig}
\* REQUEST_TIMEOUT excludes idle reads: only a request in flight has a budget.
TypeOK == LoopType /\ SignalType /\ GenType /\ BuildType /\ ClientType /\ FileType

Live(c) == pc[c] \in {"top", "select", "polled", "busy"}
Jobs == {c \in Clients : Live(c) \/ pc[c] = "done"}
Stopped(c) == chan[c] \in stopped
Ended == phase \in {"exited", "failed"}
Terminated == Ended /\ \A b \in reloads : b.st # "running"

Init ==
  /\ phase = "starting" /\ poll = "signal" /\ drainLeft = 0
  /\ usr1 = FALSE /\ term = FALSE /\ sent = 0
  /\ file \in Configs
  /\ agent = [gen |-> 0, cfg |-> NoConfig]
  /\ stop = 0 /\ stopped = {}
  /\ reloads = {} /\ builds = 0 /\ reloadPending = FALSE
  /\ pc = [c \in Clients |-> "none"] /\ wire = [c \in Clients |-> "idle"]
  /\ left = [c \in Clients |-> 0]
  /\ gen = [c \in Clients |-> 0] /\ chan = [c \in Clients |-> 0]
  /\ unread = FALSE /\ newest = NoConfig

-----------------------------------------------------------------------------
(* main(): the first agent, before the listener exists.                    *)

Start ==
  /\ phase = "starting" /\ file \in ValidConfigs
  /\ phase' = "serving"
  /\ agent' = [gen |-> 0, cfg |-> file]
  /\ newest' = file /\ unread' = FALSE
  /\ UNCHANGED <<poll, drainLeft, signalVars, stop, stopped, buildVars, clientVars, file>>

\* load() or Listener::bind fails and main returns the error.
StartFails ==
  /\ phase = "starting"
  /\ phase' = "failed"
  /\ UNCHANGED <<poll, drainLeft, signalVars, genVars, buildVars, clientVars, fileVars>>

-----------------------------------------------------------------------------
(* The select of serve(), branch by branch.                                *)

Polling(branch) == phase = "serving" /\ poll = branch
Pass(branch) == poll' = branch /\ UNCHANGED <<phase, drainLeft>>

NewBuild == [id |-> builds + 1, st |-> "running", cfg |-> NoConfig]
Spawn(rest) == reloads' = rest \cup {NewBuild} /\ builds' = builds + 1

MayBuild_Always == TRUE
MayBuild == reloads = {}
\* A signal that finds a build under way asks for one more read after it.
Coalesced_Never == FALSE
Coalesced == TRUE

OtherSignal_Lost == term' = FALSE
\* recv() drops the two streams it did not return from; what they hold stays.
OtherSignal == UNCHANGED term

OnReloadSignal ==
  /\ Polling("signal") /\ usr1
  /\ usr1' = FALSE /\ OtherSignal
  /\ IF MayBuild THEN Spawn(reloads) /\ UNCHANGED reloadPending
                 ELSE reloadPending' = Coalesced /\ UNCHANGED <<reloads, builds>>
  /\ UNCHANGED <<loopVars, sent, genVars, clientVars, fileVars>>

StopCurrent_Forgotten == UNCHANGED stopped
StopCurrent == stopped' = stopped \cup {stop}

\* The break of the loop: notify the current generation and start the drain.
\* Builds still running are abandoned but not interrupted.
OnShutdownSignal ==
  /\ Polling("signal") /\ term
  /\ term' = FALSE
  /\ phase' = "draining" /\ drainLeft' = ShutdownTimeout
  /\ StopCurrent
  /\ UNCHANGED <<poll, usr1, sent, agent, stop, buildVars, clientVars, fileVars>>

\* Something else than a signal woke the loop. Only the loop itself takes that
\* away again, so a pass that reaches accept() finds a client.
NoSignal ==
  /\ Polling("signal") /\ ~usr1 /\ ~term
  /\ \/ \E b \in reloads : b.st # "running"
     \/ \E c \in Clients : pc[c] \in {"backlog", "done"}
  /\ Pass("reload")
  /\ UNCHANGED <<signalVars, genVars, buildVars, clientVars, fileVars>>

Swap_SameChannel(cfg) ==
  agent' = [gen |-> agent.gen + 1, cfg |-> cfg] /\ StopCurrent /\ UNCHANGED stop
\* agent = candidate; stop.send_replace(true); stop = watch::channel(false).0
Swap(cfg) ==
  /\ agent' = [gen |-> agent.gen + 1, cfg |-> cfg]
  /\ StopCurrent
  /\ stop' = stop + 1

Adopt(b) == IF b.st = "ok" THEN Swap(b.cfg) ELSE UNCHANGED genVars

JoinBuild(b) ==
  /\ Polling("reload") /\ b.st # "running"
  /\ Adopt(b)
  /\ IF reloadPending THEN Spawn(reloads \ {b})
                      ELSE reloads' = reloads \ {b} /\ UNCHANGED builds
  /\ reloadPending' = FALSE
  /\ Pass("signal")
  /\ UNCHANGED <<signalVars, clientVars, fileVars>>

NoBuild ==
  /\ Polling("reload") /\ \A b \in reloads : b.st = "running"
  /\ Pass("jobs")
  /\ UNCHANGED <<signalVars, genVars, buildVars, clientVars, fileVars>>

ReapJob(c) ==
  /\ Polling("jobs") /\ pc[c] = "done"
  /\ pc' = [pc EXCEPT ![c] = "none"]
  /\ Pass("signal")
  /\ UNCHANGED <<signalVars, genVars, buildVars, wire, left, gen, chan, fileVars>>

NoJob ==
  /\ Polling("jobs") /\ \A c \in Clients : pc[c] # "done"
  /\ Pass("accept")
  /\ UNCHANGED <<signalVars, genVars, buildVars, clientVars, fileVars>>

\* The new session clones the active agent and subscribes to its stop channel.
Accept(c) ==
  /\ Polling("accept") /\ pc[c] = "backlog"
  /\ pc' = [pc EXCEPT ![c] = "top"]
  /\ gen' = [gen EXCEPT ![c] = agent.gen]
  /\ chan' = [chan EXCEPT ![c] = stop]
  /\ Pass("signal")
  /\ UNCHANGED <<signalVars, genVars, buildVars, wire, left, fileVars>>

\* serve() returns: its JoinSet and the listener with its backlog are dropped.
Return(to) ==
  /\ phase' = to
  /\ pc' = [c \in Clients |-> "none"] /\ wire' = [c \in Clients |-> "idle"]
  /\ left' = [c \in Clients |-> 0]
  /\ gen' = [c \in Clients |-> 0] /\ chan' = [c \in Clients |-> 0]
  /\ UNCHANGED <<poll, drainLeft, signalVars, genVars, buildVars, fileVars>>

\* An accept error leaves serve() through `?` and cancels every client task.
AcceptFails == Polling("accept") /\ Return("failed")

Loop == \/ OnReloadSignal \/ OnShutdownSignal \/ NoSignal \/ NoBuild \/ NoJob
        \/ \E b \in reloads : JoinBuild(b)
        \/ \E c \in Clients : ReapJob(c) \/ Accept(c)

-----------------------------------------------------------------------------
(* The blocking build task: load() reads the file and validates it.        *)

Report(b, st, cfg) == reloads' = (reloads \ {b}) \cup {[id |-> b.id, st |-> st, cfg |-> cfg]}

\* A load that reads a valid file may still fail (I/O error, panic).
FinishBuild(b) ==
  /\ b.st = "running"
  /\ \/ file \in ValidConfigs /\ Report(b, "ok", file) /\ newest' = file
     \/ Report(b, "failed", NoConfig) /\ UNCHANGED newest
  /\ unread' = FALSE
  /\ UNCHANGED <<loopVars, signalVars, genVars, builds, reloadPending, clientVars, file>>

-----------------------------------------------------------------------------
(* The shutdown drain after the loop.                                      *)

DrainDone ==
  /\ phase \in {"draining", "aborting"}
  /\ \A c \in Jobs : pc[c] = "done"
  /\ Return("exited")

\* The drain deadline passes: jobs.abort_all().
DrainExpires ==
  /\ phase = "draining" /\ drainLeft = 0
  /\ \E c \in Jobs : pc[c] # "done"
  /\ phase' = "aborting"
  /\ UNCHANGED <<poll, drainLeft, signalVars, genVars, buildVars, clientVars, fileVars>>

-----------------------------------------------------------------------------
(* handle(): one task per client.                                          *)

SharedVars == <<loopVars, signalVars, genVars, buildVars, fileVars>>

\* The task of c returns, and with it the stream and the session are dropped.
End(c) ==
  /\ pc' = [pc EXCEPT ![c] = "done"]
  /\ wire' = [wire EXCEPT ![c] = "idle"]
  /\ left' = [left EXCEPT ![c] = 0]
  /\ gen' = [gen EXCEPT ![c] = 0] /\ chan' = [chan EXCEPT ![c] = 0]

Goto(c, to) == pc' = [pc EXCEPT ![c] = to] /\ UNCHANGED <<gen, chan>>

CheckStop_Deadline(c) ==
  /\ pc[c] = "top"
  /\ IF Stopped(c) THEN End(c)
     ELSE Goto(c, "select") /\ left' = [left EXCEPT ![c] = RequestTimeout] /\ UNCHANGED wire
  /\ UNCHANGED SharedVars
CheckStop(c) ==
  /\ pc[c] = "top"
  /\ IF Stopped(c) THEN End(c) ELSE Goto(c, "select") /\ UNCHANGED <<wire, left>>
  /\ UNCHANGED SharedVars

PollStop_Never(c) ==
  /\ pc[c] = "select" /\ wire[c] # "idle"
  /\ Goto(c, "polled") /\ UNCHANGED <<wire, left>>
  /\ UNCHANGED SharedVars
PollStop_Unbiased(c) ==
  /\ pc[c] = "select" /\ (Stopped(c) \/ wire[c] # "idle")
  /\ IF wire[c] = "idle" THEN End(c) ELSE Goto(c, "polled") /\ UNCHANGED <<wire, left>>
  /\ UNCHANGED SharedVars
\* The parked task is woken by its stop channel or its stream; stop.changed()
\* is polled first.
PollStop(c) ==
  /\ pc[c] = "select" /\ (Stopped(c) \/ wire[c] # "idle")
  /\ IF Stopped(c) THEN End(c) ELSE Goto(c, "polled") /\ UNCHANGED <<wire, left>>
  /\ UNCHANGED SharedVars

\* A decoded request gets its own deadline; EOF or a bad frame ends the task.
PollWire(c) ==
  /\ pc[c] = "polled"
  /\ IF wire[c] = "closed" THEN End(c)
     ELSE /\ Goto(c, "busy")
          /\ wire' = [wire EXCEPT ![c] = "idle"]
          /\ left' = [left EXCEPT ![c] = RequestTimeout]
  /\ UNCHANGED SharedVars

\* session.handle() returned and its response was sent.
Respond(c) ==
  /\ pc[c] = "busy"
  /\ Goto(c, "top")
  /\ left' = [left EXCEPT ![c] = 0]
  /\ UNCHANGED <<wire, SharedVars>>

\* The response cannot be sent, or the handler panics.
RequestFails(c) == pc[c] = "busy" /\ End(c) /\ UNCHANGED SharedVars

Timeout(c) == pc[c] = "busy" /\ left[c] = 0 /\ End(c) /\ UNCHANGED SharedVars

\* abort_all() cancels a task wherever it awaits.
Cancel(c) == phase = "aborting" /\ Live(c) /\ End(c) /\ UNCHANGED SharedVars

Task(c) == CheckStop(c) \/ PollStop(c) \/ PollWire(c) \/ Timeout(c) \/ Cancel(c)

-----------------------------------------------------------------------------
(* Time and the environment.                                               *)

\* The clock of the runtime takes a tick from every deadline that has not passed.
Down(n) == IF n > 0 THEN n - 1 ELSE 0

\* No tick falls inside the poll of a client task (between PollStop and PollWire).
Tick ==
  /\ drainLeft > 0 \/ \E c \in Clients : left[c] > 0
  /\ \A c \in Clients : pc[c] # "polled"
  /\ left' = [c \in Clients |-> Down(left[c])]
  /\ drainLeft' = Down(drainLeft)
  /\ UNCHANGED <<phase, poll, signalVars, genVars, buildVars, pc, wire, gen, chan, fileVars>>

\* The kernel coalesces a signal that is already pending.
SendReload ==
  /\ ~Ended /\ sent < MaxSignals
  /\ usr1' = TRUE /\ sent' = sent + 1 /\ unread' = TRUE
  /\ UNCHANGED <<loopVars, term, genVars, buildVars, clientVars, file, newest>>

SendShutdown ==
  /\ ~Ended /\ ~term
  /\ term' = TRUE
  /\ UNCHANGED <<loopVars, usr1, sent, genVars, buildVars, clientVars, fileVars>>

EditConfig ==
  /\ ~Ended
  /\ \E cfg \in Configs : cfg # file /\ file' = cfg
  /\ UNCHANGED <<loopVars, signalVars, genVars, buildVars, clientVars, unread, newest>>

Connect(c) ==
  /\ phase \in {"serving", "draining", "aborting"} /\ pc[c] = "none"
  /\ pc' = [pc EXCEPT ![c] = "backlog"]
  /\ UNCHANGED <<SharedVars, wire, left, gen, chan>>

\* The peer writes a request, or closes its end after the requests it wrote.
PeerActs(c) ==
  /\ (Live(c) \/ pc[c] = "backlog") /\ wire[c] = "idle"
  /\ \E w \in {"request", "closed"} : wire' = [wire EXCEPT ![c] = w]
  /\ UNCHANGED <<SharedVars, pc, left, gen, chan>>

System == \/ Start \/ StartFails \/ Loop \/ AcceptFails \/ DrainDone \/ DrainExpires \/ Tick
          \/ \E b \in reloads : FinishBuild(b)
          \/ \E c \in Clients : Task(c) \/ Respond(c) \/ RequestFails(c)

Environment == \/ SendReload \/ SendShutdown \/ EditConfig
               \/ \E c \in Clients : Connect(c) \/ PeerActs(c)

Idle == Terminated /\ UNCHANGED vars

Next == System \/ Environment \/ Idle

Spec == Init /\ [][Next]_vars

\* The runtime keeps polling what is ready, a build reads a local file, and time
\* passes. Nothing is assumed of the handlers, the peers or the signals.
Fairness ==
  /\ WF_vars(Start \/ StartFails) /\ WF_vars(Loop) /\ WF_vars(DrainDone) /\ WF_vars(DrainExpires)
  /\ SF_vars(Tick)
  /\ WF_vars(\E b \in reloads : FinishBuild(b))
  /\ \A c \in Clients : WF_vars(Task(c))

FairSpec == Spec /\ Fairness

-----------------------------------------------------------------------------
(* Properties.                                                             *)

\* A reload signal is never lost: as long as the file has not been read after
\* the last SIGUSR1, the signal is still pending in the process, recorded in
\* reload_pending, or a build that has not read the file yet is under way.
NoLostReload ==
  (phase = "serving" /\ unread) =>
    usr1 \/ reloadPending \/ \E b \in reloads : b.st = "running"

\* The active agent is always built from the newest valid configuration that a
\* build has read, or that build waits to be joined; a failed or older candidate
\* never replaces it.
NewestConfigWins ==
  phase = "serving" =>
    /\ agent.cfg \in ValidConfigs
    /\ \/ agent.cfg = newest
       \/ \E b \in reloads : b.st = "ok" /\ b.cfg = newest

\* spec.md "Drain the replaced generation": a live client has been told to stop
\* exactly when its generation was replaced or the drain began, however many
\* generations came and went since it was accepted.
GenerationSplit ==
  phase \in {"serving", "draining", "aborting"} =>
    \A c \in Clients : Live(c) =>
      (Stopped(c) <=> gen[c] # agent.gen \/ phase # "serving")

\* spec.md "allow in-flight requests to finish within their original deadlines":
\* when the drain deadline aborts the stragglers, no request is cut off before
\* its own deadline has passed.
NoPrematureAbort ==
  phase = "aborting" => \A c \in Clients : pc[c] = "busy" => left[c] = 0

\* What the administrator and the clients see of the loop: requests that wait for
\* a read, the read under way, the sessions and those told to stop.
Asked == (IF usr1 THEN 1 ELSE 0) + (IF reloadPending THEN 1 ELSE 0)
FoundBy(B) == IF B = {} THEN [st |-> "none", cfg |-> NoConfig]
              ELSE LET b == CHOOSE b \in B : TRUE IN [st |-> b.st, cfg |-> b.cfg]
Found == FoundBy(reloads)
Sessions == {c \in Clients : Live(c)}
Told == {c \in Sessions : Stopped(c)}

\* spec.md "Signal-driven config reload" and "graceful shutdown": the loop with its
\* signals, channels and task sets keeps the promise of AgentService.
Promise == INSTANCE AgentService WITH
  asked <- Asked, read <- Found, sessions <- Sessions, told <- Told,
  down <- phase \notin {"starting", "serving"}
ImplementsAgentService == Promise!Spec

\* A shutdown signal always ends the process, whatever the handlers and the peers
\* do and however it falls together with reload signals.
ShutdownCompletes == (term /\ ~Ended) ~> Terminated

\* spec.md "Drain the replaced generation": every client of a replaced
\* generation eventually ends, idle or in the middle of a request.
OldGenerationDrains ==
  \A c \in Clients : (Live(c) /\ Stopped(c)) ~> ~(Live(c) /\ Stopped(c))

\* A reload signal eventually leads to a read of the file, unless the process ends.
ReloadTakesEffect == unread ~> (~unread \/ phase # "serving")

=============================================================================
