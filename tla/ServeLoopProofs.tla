--------------------------- MODULE ServeLoopProofs ---------------------------
(***************************************************************************)
(* Proofs about ServeLoop, for any set of clients and configurations and   *)
(* any timeouts with RequestTimeout <= ShutdownTimeout.                    *)
(***************************************************************************)
EXTENDS ServeLoop, FiniteSetTheorems, TLAPS

-----------------------------------------------------------------------------
(* Type correctness.                                                       *)

\* A step that leaves a group of variables alone keeps the types of the group.
LEMMA Frames ==
  ASSUME TypeOK
  PROVE  /\ UNCHANGED loopVars => LoopType'
         /\ UNCHANGED signalVars => SignalType'
         /\ UNCHANGED genVars => GenType'
         /\ UNCHANGED buildVars => BuildType'
         /\ UNCHANGED clientVars => ClientType'
         /\ UNCHANGED fileVars => FileType'
<1> USE DEF TypeOK
<1>1. UNCHANGED loopVars => LoopType'      BY DEF loopVars, LoopType
<1>2. UNCHANGED signalVars => SignalType'  BY DEF signalVars, SignalType
<1>3. UNCHANGED genVars => GenType'        BY DEF genVars, GenType
<1>4. UNCHANGED buildVars => BuildType'    BY DEF buildVars, BuildType
<1>5. UNCHANGED clientVars => ClientType'  BY DEF clientVars, ClientType
<1>6. UNCHANGED fileVars => FileType'      BY DEF fileVars, FileType
<1> QED BY <1>1, <1>2, <1>3, <1>4, <1>5, <1>6

LEMMA InitType == Init => TypeOK
<1> SUFFICES ASSUME Init PROVE TypeOK OBVIOUS
<1> USE ServeAssumption DEF Init
<1>1. LoopType    BY DEF LoopType
<1>2. SignalType  BY DEF SignalType
<1>3. GenType     BY DEF GenType
<1>4. BuildType   BY DEF BuildType
<1>5. ClientType  BY DEF ClientType
<1>6. FileType    BY DEF FileType
<1> QED BY <1>1, <1>2, <1>3, <1>4, <1>5, <1>6 DEF TypeOK

LEMMA SpawnType ==
  ASSUME BuildType, NEW rest \in SUBSET Build, Spawn(rest)
  PROVE  reloads' \subseteq Build /\ builds' \in Nat
BY DEF BuildType, Spawn, NewBuild, Build

LEMMA SwapType ==
  ASSUME GenType, BuildType, NEW b \in reloads, Adopt(b)
  PROVE  GenType'
<1>1. CASE b.st = "ok"
  <2>1. agent' = [gen |-> agent.gen + 1, cfg |-> b.cfg] /\ stop' = stop + 1
        /\ stopped' = stopped \cup {stop}
    BY <1>1 DEF Adopt, Swap, StopCurrent
  <2>2. b.cfg \in Configs \cup {NoConfig} /\ agent.gen + 1 \in Nat
    BY DEF GenType, BuildType, Build
  <2> QED BY <2>1, <2>2 DEF GenType
<1>2. CASE b.st # "ok"
  BY <1>2 DEF Adopt, genVars, GenType
<1> QED BY <1>1, <1>2

\* The steps of a client's task only touch the client's own state.
LEMMA TaskType ==
  ASSUME TypeOK, NEW c \in Clients, Task(c) \/ Respond(c) \/ RequestFails(c)
  PROVE  ClientType' /\ UNCHANGED SharedVars
<1> USE ServeAssumption DEF ClientType, TypeOK
<1>1. End(c) => ClientType'
  BY DEF End
<1>2. CASE CheckStop(c)     BY <1>1, <1>2 DEF CheckStop, Goto
<1>3. CASE PollStop(c)      BY <1>1, <1>3 DEF PollStop, Goto
<1>4. CASE PollWire(c)      BY <1>1, <1>4 DEF PollWire, Goto
<1>5. CASE Timeout(c)       BY <1>1, <1>5 DEF Timeout
<1>6. CASE Cancel(c)        BY <1>1, <1>6 DEF Cancel
<1>7. CASE Respond(c)       BY <1>7 DEF Respond, Goto
<1>8. CASE RequestFails(c)  BY <1>1, <1>8 DEF RequestFails
<1> QED BY <1>2, <1>3, <1>4, <1>5, <1>6, <1>7, <1>8 DEF Task

LEMMA NextType == TypeOK /\ [Next]_vars => TypeOK'
<1> SUFFICES ASSUME TypeOK, [Next]_vars PROVE TypeOK'
  OBVIOUS
<1> USE Frames DEF TypeOK
<1>1. CASE Start
  <2>1. LoopType'  BY <1>1 DEF Start, LoopType
  <2>2. GenType'   BY <1>1, ServeAssumption DEF Start, GenType
  <2>3. FileType'  BY <1>1, ServeAssumption DEF Start, FileType
  <2> QED BY <1>1, <2>1, <2>2, <2>3 DEF Start
<1>2. CASE StartFails
  <2>1. LoopType'  BY <1>2 DEF StartFails, LoopType
  <2> QED BY <1>2, <2>1 DEF StartFails
<1>3. CASE OnReloadSignal
  <2>1. SignalType'  BY <1>3 DEF OnReloadSignal, OtherSignal, SignalType
  <2>2. BuildType'   BY <1>3, SpawnType DEF OnReloadSignal, BuildType, Coalesced
  <2> QED BY <1>3, <2>1, <2>2 DEF OnReloadSignal
<1>4. CASE OnShutdownSignal
  <2>1. LoopType'    BY <1>4, ServeAssumption DEF OnShutdownSignal, LoopType
  <2>2. SignalType'  BY <1>4 DEF OnShutdownSignal, SignalType
  <2>3. GenType'     BY <1>4 DEF OnShutdownSignal, StopCurrent, GenType
  <2> QED BY <1>4, <2>1, <2>2, <2>3 DEF OnShutdownSignal
<1>5. CASE NoSignal \/ NoBuild \/ NoJob
  <2>1. LoopType'  BY <1>5 DEF NoSignal, NoBuild, NoJob, Pass, LoopType
  <2> QED BY <1>5, <2>1 DEF NoSignal, NoBuild, NoJob
<1>6. ASSUME NEW b \in reloads, JoinBuild(b) PROVE TypeOK'
  <2>1. LoopType'  BY <1>6 DEF JoinBuild, Pass, LoopType
  <2>2. GenType'   BY <1>6, SwapType DEF JoinBuild
  <2>3. reloads \ {b} \in SUBSET Build  BY DEF BuildType
  <2>4. BuildType'  BY <1>6, <2>3, SpawnType DEF JoinBuild, BuildType
  <2> QED BY <1>6, <2>1, <2>2, <2>4 DEF JoinBuild
<1>7. ASSUME NEW c \in Clients, ReapJob(c) \/ Accept(c) PROVE TypeOK'
  <2>1. LoopType'    BY <1>7 DEF ReapJob, Accept, Pass, LoopType
  <2>2. ClientType'  BY <1>7 DEF ReapJob, Accept, ClientType, GenType
  <2> QED BY <1>7, <2>1, <2>2 DEF ReapJob, Accept
<1>8. CASE AcceptFails \/ DrainDone
  <2>1. LoopType'    BY <1>8 DEF AcceptFails, DrainDone, Return, LoopType
  <2>2. ClientType'  BY <1>8, ServeAssumption DEF AcceptFails, DrainDone, Return, ClientType
  <2> QED BY <1>8, <2>1, <2>2 DEF AcceptFails, DrainDone, Return
<1>9. CASE DrainExpires
  <2>1. LoopType'  BY <1>9 DEF DrainExpires, LoopType
  <2> QED BY <1>9, <2>1 DEF DrainExpires
<1>10. ASSUME NEW b \in reloads, FinishBuild(b) PROVE TypeOK'
  <2>1. BuildType'  BY <1>10 DEF FinishBuild, Report, BuildType, FileType, Build
  <2>2. FileType'   BY <1>10 DEF FinishBuild, FileType
  <2> QED BY <1>10, <2>1, <2>2 DEF FinishBuild
<1>11. ASSUME NEW c \in Clients, Task(c) \/ Respond(c) \/ RequestFails(c) PROVE TypeOK'
  BY <1>11, TaskType DEF SharedVars
<1>12. CASE Tick
  <2>1. LoopType'    BY <1>12, ServeAssumption DEF Tick, Down, LoopType
  <2>2. ClientType'  BY <1>12, ServeAssumption DEF Tick, Down, ClientType
  <2> QED BY <1>12, <2>1, <2>2 DEF Tick
<1>13. CASE SendReload \/ SendShutdown \/ EditConfig
  <2>1. SignalType'
    <3>1. CASE SendReload    BY <3>1 DEF SendReload, SignalType
    <3>2. CASE SendShutdown  BY <3>2 DEF SendShutdown, SignalType
    <3>3. CASE EditConfig    BY <3>3 DEF EditConfig
    <3> QED BY <1>13, <3>1, <3>2, <3>3
  <2>2. FileType'    BY <1>13 DEF SendReload, SendShutdown, EditConfig, FileType, fileVars
  <2> QED BY <1>13, <2>1, <2>2 DEF SendReload, SendShutdown, EditConfig
<1>14. ASSUME NEW c \in Clients, Connect(c) \/ PeerActs(c) PROVE TypeOK'
  <2>1. ClientType'  BY <1>14 DEF Connect, PeerActs, ClientType
  <2> QED BY <1>14, <2>1 DEF Connect, PeerActs, SharedVars
<1>15. CASE UNCHANGED vars
  BY <1>15 DEF vars
<1> QED
  BY <1>1, <1>2, <1>3, <1>4, <1>5, <1>6, <1>7, <1>8, <1>9, <1>10, <1>11, <1>12, <1>13, <1>14, <1>15
     DEF Next, System, Environment, Loop, Idle

\* Every variable keeps its type.
THEOREM TypeCorrect == Spec => []TypeOK
BY InitType, NextType, PTL DEF Spec
-----------------------------------------------------------------------------
(* Reloads: at most one build, no lost signal, the newest configuration.   *)

\* NewestConfigWins is not inductive: a finished candidate must hold the newest
\* configuration itself, and when there is none the agent must, which is only
\* stable because there is at most one build.
BuildInv ==
  /\ \A b1, b2 \in reloads : b1 = b2
  /\ phase = "starting" => reloads = {}
  /\ NoLostReload
  /\ \A b \in reloads : b.st = "ok" => b.cfg = newest /\ newest \in ValidConfigs
  /\ phase = "serving" => agent.cfg \in ValidConfigs
  /\ (phase = "serving" /\ \A b \in reloads : b.st # "ok") => agent.cfg = newest

LEMMA BuildStep == TypeOK /\ BuildInv /\ [Next]_vars => BuildInv'
<1> SUFFICES ASSUME TypeOK, BuildInv, [Next]_vars PROVE BuildInv'
  OBVIOUS
<1> USE DEF BuildInv, NoLostReload
<1>0. ASSUME UNCHANGED <<buildVars, agent, newest>>, unread' = unread, usr1' = usr1,
             phase' = phase \/ phase' \notin {"starting", "serving"}
      PROVE  BuildInv'
  BY <1>0 DEF buildVars
<1>1. CASE Start
  BY <1>1 DEF Start, buildVars
<1>2. CASE OnReloadSignal
  <2>1. CASE reloads = {}
    <3>1. reloads' = {NewBuild} /\ NewBuild.st = "running"
      BY <1>2, <2>1 DEF OnReloadSignal, MayBuild, Spawn, NewBuild
    <3> QED BY <1>2, <2>1, <3>1 DEF OnReloadSignal, Polling, genVars, fileVars, loopVars
  <2>2. CASE reloads # {}
    BY <1>2, <2>2 DEF OnReloadSignal, MayBuild, Coalesced, genVars, fileVars, loopVars
  <2> QED BY <2>1, <2>2
<1>3. CASE StartFails \/ OnShutdownSignal \/ NoSignal \/ NoBuild \/ NoJob \/ AcceptFails
           \/ DrainDone \/ DrainExpires \/ Tick \/ SendShutdown \/ UNCHANGED vars
  BY <1>0, <1>3
     DEF StartFails, OnShutdownSignal, NoSignal, NoBuild, NoJob, AcceptFails, DrainDone, Return,
         DrainExpires, Tick, SendShutdown, vars, Pass, genVars, fileVars, loopVars, signalVars
<1>4. ASSUME NEW b \in reloads, JoinBuild(b) PROVE BuildInv'
  <2>1. reloads = {b} /\ phase = "serving" /\ phase' = "serving"
    BY <1>4 DEF JoinBuild, Polling, Pass
  <2>2. UNCHANGED <<newest, unread, usr1>> /\ reloadPending' = FALSE
    BY <1>4 DEF JoinBuild, fileVars, signalVars
  <2>3. agent'.cfg = newest /\ newest \in ValidConfigs
    <3>1. CASE b.st = "ok"
      BY <1>4, <3>1 DEF JoinBuild, Adopt, Swap
    <3>2. CASE b.st # "ok"
      BY <1>4, <2>1, <3>2 DEF JoinBuild, Adopt, genVars
    <3> QED BY <3>1, <3>2
  <2>4. CASE reloadPending
    <3>1. reloads' = {NewBuild} /\ NewBuild.st = "running"
      BY <1>4, <2>1, <2>4 DEF JoinBuild, Spawn, NewBuild
    <3> QED BY <2>1, <2>2, <2>3, <3>1
  <2>5. CASE ~reloadPending
    <3>1. reloads' = {} /\ b.st # "running"
      BY <1>4, <2>1, <2>5 DEF JoinBuild
    <3> QED BY <2>1, <2>2, <2>3, <2>5, <3>1
  <2> QED BY <2>4, <2>5
<1>5. ASSUME NEW b \in reloads, FinishBuild(b) PROVE BuildInv'
  <2>1. reloads = {b} /\ b.st = "running"
    BY <1>5 DEF FinishBuild
  <2>2. unread' = FALSE /\ UNCHANGED <<agent, phase>>
    BY <1>5 DEF FinishBuild, genVars, loopVars
  <2>3. CASE file \in ValidConfigs /\ Report(b, "ok", file) /\ newest' = file
    <3>1. reloads' = {[id |-> b.id, st |-> "ok", cfg |-> file]}
      BY <2>1, <2>3 DEF Report
    <3> QED BY <2>1, <2>2, <2>3, <3>1
  <2>4. CASE Report(b, "failed", NoConfig) /\ UNCHANGED newest
    <3>1. reloads' = {[id |-> b.id, st |-> "failed", cfg |-> NoConfig]}
      BY <2>1, <2>4 DEF Report
    <3> QED BY <2>1, <2>2, <2>4, <3>1
  <2> QED BY <1>5, <2>3, <2>4 DEF FinishBuild
<1>6. ASSUME NEW c \in Clients,
             ReapJob(c) \/ Accept(c) \/ Task(c) \/ Respond(c) \/ RequestFails(c) \/ Connect(c) \/ PeerActs(c)
      PROVE  BuildInv'
  <2>1. CASE ReapJob(c) \/ Accept(c)
    BY <1>0, <2>1 DEF ReapJob, Accept, Pass, genVars, fileVars, signalVars
  <2>2. UNCHANGED SharedVars => BuildInv'
    BY <1>0 DEF SharedVars, loopVars, genVars, fileVars, signalVars
  <2> QED BY <1>6, <2>1, <2>2, TaskType DEF Connect, PeerActs
<1>7. CASE SendReload
  BY <1>7 DEF SendReload, buildVars, genVars, loopVars
<1>8. CASE EditConfig
  BY <1>0, <1>8 DEF EditConfig, loopVars, signalVars, genVars
<1> QED
  BY <1>1, <1>2, <1>3, <1>4, <1>5, <1>6, <1>7, <1>8 DEF Next, System, Environment, Loop, Idle

LEMMA BuildCorrect == Spec => []BuildInv
<1>1. Init => BuildInv
  BY DEF Init, BuildInv, NoLostReload
<1> QED BY <1>1, BuildStep, TypeCorrect, PTL DEF Spec

\* Two builds are never under way, or waiting to be joined, at once.
THEOREM OneBuild == Spec => [](Cardinality(reloads) <= 1)
<1>1. BuildInv => Cardinality(reloads) <= 1
  <2> SUFFICES ASSUME BuildInv PROVE Cardinality(reloads) <= 1
    OBVIOUS
  <2>1. CASE reloads = {}
    BY <2>1, FS_EmptySet
  <2>2. CASE \E b \in reloads : reloads = {b}
    BY <2>2, FS_Singleton
  <2> QED BY <2>1, <2>2 DEF BuildInv
<1> QED BY <1>1, BuildCorrect, PTL

\* No SIGUSR1 is ever lost.
THEOREM ReloadKept == Spec => []NoLostReload
<1>1. BuildInv => NoLostReload
  BY DEF BuildInv
<1> QED BY <1>1, BuildCorrect, PTL

\* The active agent is the newest valid configuration read, or is about to be.
THEOREM NewestConfig == Spec => []NewestConfigWins
<1>1. BuildInv => NewestConfigWins
  BY DEF BuildInv, NewestConfigWins
<1> QED BY <1>1, BuildCorrect, PTL
-----------------------------------------------------------------------------
(* Generations: who has been told to stop.                                 *)

\* GenerationSplit needs what makes a channel fresh: the active one has the
\* highest number and, until the drain, does not hold true; and every session of
\* the active generation listens to it.
SessionOK(c) ==
  /\ gen[c] = agent.gen => chan[c] = stop
  /\ gen[c] # agent.gen => gen[c] < agent.gen /\ chan[c] \in stopped
GenInv ==
  /\ \A n \in stopped : n <= stop
  /\ phase \in {"starting", "serving"} => stop \notin stopped
  /\ phase \in {"draining", "aborting"} => stop \in stopped
  /\ phase = "starting" => \A c \in Clients : pc[c] = "none"
  /\ \A c \in Clients : Live(c) => SessionOK(c)

\* A session ends, stays what it is, or is untouched.
LEMMA TaskSession ==
  ASSUME TypeOK, NEW c \in Clients, Task(c) \/ Respond(c) \/ RequestFails(c) \/ Connect(c) \/ PeerActs(c)
  PROVE  /\ UNCHANGED <<loopVars, genVars>>
         /\ pc[c] = "none" => phase # "starting"
         /\ \A d \in Clients : Live(d)' => Live(d) /\ gen'[d] = gen[d] /\ chan'[d] = chan[d]
         /\ \A d \in Clients \ {c} : pc'[d] = pc[d] /\ left'[d] = left[d]
<1> USE DEF TypeOK, ClientType, Live
<1>1. ASSUME End(c)
      PROVE  /\ \A d \in Clients : Live(d)' => Live(d) /\ gen'[d] = gen[d] /\ chan'[d] = chan[d]
             /\ \A d \in Clients \ {c} : pc'[d] = pc[d] /\ left'[d] = left[d]
  BY <1>1 DEF End
<1> USE DEF SharedVars, Goto
<1>2. CASE CheckStop(c)     BY <1>1, <1>2 DEF CheckStop
<1>3. CASE PollStop(c)      BY <1>1, <1>3 DEF PollStop
<1>4. CASE PollWire(c)      BY <1>1, <1>4 DEF PollWire
<1>5. CASE Timeout(c)       BY <1>1, <1>5 DEF Timeout
<1>6. CASE Cancel(c)        BY <1>1, <1>6 DEF Cancel
<1>7. CASE Respond(c)       BY <1>7 DEF Respond
<1>8. CASE RequestFails(c)  BY <1>1, <1>8 DEF RequestFails
<1>9. CASE Connect(c)       BY <1>9 DEF Connect
<1>10. CASE PeerActs(c)     BY <1>10 DEF PeerActs
<1> QED BY <1>2, <1>3, <1>4, <1>5, <1>6, <1>7, <1>8, <1>9, <1>10 DEF Task

LEMMA GenStep == TypeOK /\ GenInv /\ [Next]_vars => GenInv'
<1> SUFFICES ASSUME TypeOK, GenInv, [Next]_vars PROVE GenInv'
  OBVIOUS
<1> USE DEF GenInv, SessionOK
<1>0. ASSUME UNCHANGED <<pc, gen, chan, genVars>>,
             phase' = phase \/ phase' \in {"exited", "failed"}
                   \/ (phase = "starting" /\ phase' = "serving") \/ (phase = "draining" /\ phase' = "aborting")
      PROVE  GenInv'
  BY <1>0 DEF genVars, Live
<1>1. CASE Start
  BY <1>1 DEF Start, clientVars, Live
<1>2. CASE OnShutdownSignal
  BY <1>2 DEF OnShutdownSignal, Polling, StopCurrent, clientVars, Live, TypeOK, GenType
<1>3. CASE StartFails \/ OnReloadSignal \/ NoSignal \/ NoBuild \/ NoJob
           \/ DrainExpires \/ Tick \/ SendReload \/ SendShutdown \/ EditConfig \/ UNCHANGED vars
  BY <1>0, <1>3
     DEF StartFails, OnReloadSignal, NoSignal, NoBuild, NoJob, DrainExpires, Tick, SendReload,
         SendShutdown, EditConfig, vars, Pass, loopVars, clientVars
<1>4. CASE AcceptFails \/ DrainDone
  BY <1>4 DEF AcceptFails, DrainDone, Return, genVars, Live
<1>5. ASSUME NEW b \in reloads, JoinBuild(b) PROVE GenInv'
  <2>1. phase = "serving" /\ phase' = "serving" /\ UNCHANGED <<pc, gen, chan>>
    BY <1>5 DEF JoinBuild, Polling, Pass, clientVars
  <2>2. CASE b.st = "ok"
    <3>1. agent'.gen = agent.gen + 1 /\ stop' = stop + 1 /\ stopped' = stopped \cup {stop}
      BY <1>5, <2>2 DEF JoinBuild, Adopt, Swap, StopCurrent
    <3>2. agent.gen \in Nat /\ stop \in Nat /\ stopped \subseteq Nat
      BY DEF TypeOK, GenType
    <3>3. ASSUME NEW n \in stopped' PROVE n <= stop' /\ n # stop'
      <4>1. n = stop \/ n \in stopped
        BY <3>1
      <4>2. CASE n = stop
        BY <3>1, <3>2, <4>2
      <4>3. CASE n \in stopped
        <5>1. n \in Nat /\ n <= stop
          BY <3>2, <4>3
        <5> QED BY <3>1, <3>2, <5>1
      <4> QED BY <4>1, <4>2, <4>3
    <3>4. \A c \in Clients : gen[c] \in Nat
      BY DEF TypeOK, ClientType
    <3>5. \A c \in Clients : Live(c)' => SessionOK(c)'
      BY <2>1, <3>1, <3>2, <3>4 DEF Live
    <3> QED BY <2>1, <3>3, <3>5
  <2>3. CASE b.st # "ok"
    BY <1>0, <1>5, <2>1, <2>3 DEF JoinBuild, Adopt
  <2> QED BY <2>2, <2>3
<1>6. ASSUME NEW c \in Clients, ReapJob(c) \/ Accept(c) PROVE GenInv'
  BY <1>6 DEF ReapJob, Accept, Polling, Pass, genVars, Live, TypeOK, ClientType
<1>7. ASSUME NEW b \in reloads, FinishBuild(b) PROVE GenInv'
  BY <1>0, <1>7 DEF FinishBuild, loopVars, clientVars
<1>8. ASSUME NEW c \in Clients, Task(c) \/ Respond(c) \/ RequestFails(c) \/ Connect(c) \/ PeerActs(c)
      PROVE  GenInv'
  <2>1. UNCHANGED <<phase, agent, stop, stopped>>
    BY <1>8, TaskSession DEF loopVars, genVars
  <2>2. \A d \in Clients : Live(d)' => SessionOK(d)'
    BY <1>8, <2>1, TaskSession
  <2>3. phase # "starting"
    BY <1>8, TaskSession DEF Task, CheckStop, PollStop, PollWire, Timeout, Cancel, Respond, RequestFails,
       Connect, PeerActs, Live
  <2> QED BY <2>1, <2>2, <2>3
<1> QED
  BY <1>1, <1>2, <1>3, <1>4, <1>5, <1>6, <1>7, <1>8 DEF Next, System, Environment, Loop, Idle

LEMMA GenCorrect == Spec => []GenInv
<1>1. Init => GenInv
  BY DEF Init, GenInv, Live
<1> QED BY <1>1, GenStep, TypeCorrect, PTL DEF Spec

LEMMA SplitOfGen == GenInv => GenerationSplit
BY DEF GenInv, SessionOK, GenerationSplit, Stopped

\* A live client has been told to stop exactly when its generation was replaced
\* or the drain began.
THEOREM GenerationsSplit == Spec => []GenerationSplit
BY GenCorrect, SplitOfGen, PTL
-----------------------------------------------------------------------------
(* The drain never cuts a request short.                                   *)

\* While the loop drains, every request has at most as much time left as the
\* drain: it either began before the drain, or by a task that was in the middle
\* of a poll when the drain began, before any time passed.
DrainInv ==
  /\ phase = "draining" => \A c \in Clients :
       /\ pc[c] = "busy" => left[c] <= drainLeft
       /\ pc[c] = "polled" => drainLeft = ShutdownTimeout
  /\ phase = "aborting" => \A c \in Clients :
       pc[c] # "polled" /\ (pc[c] = "busy" => left[c] = 0)

\* A task that was told to stop begins no request unless it was in mid-poll.
LEMMA TaskDrain ==
  ASSUME TypeOK, NEW c \in Clients, Live(c) => Stopped(c),
         Task(c) \/ Respond(c) \/ RequestFails(c) \/ Connect(c) \/ PeerActs(c)
  PROVE  /\ pc'[c] = "polled" => pc[c] = "polled"
         /\ pc'[c] = "busy" => \/ pc[c] = "busy" /\ left'[c] = left[c]
                               \/ pc[c] = "polled" /\ left'[c] = RequestTimeout
<1> USE DEF TypeOK, ClientType, Live, Goto
<1>1. ASSUME End(c) PROVE pc'[c] = "done"
  BY <1>1 DEF End
<1>2. CASE CheckStop(c)     BY <1>1, <1>2 DEF CheckStop
<1>3. CASE PollStop(c)      BY <1>1, <1>3 DEF PollStop
<1>4. CASE PollWire(c)      BY <1>1, <1>4, ServeAssumption DEF PollWire
<1>5. CASE Timeout(c)       BY <1>1, <1>5 DEF Timeout
<1>6. CASE Cancel(c)        BY <1>1, <1>6 DEF Cancel
<1>7. CASE Respond(c)       BY <1>7 DEF Respond
<1>8. CASE RequestFails(c)  BY <1>1, <1>8 DEF RequestFails
<1>9. CASE Connect(c)       BY <1>9 DEF Connect
<1>10. CASE PeerActs(c)     BY <1>10 DEF PeerActs
<1> QED BY <1>2, <1>3, <1>4, <1>5, <1>6, <1>7, <1>8, <1>9, <1>10 DEF Task

LEMMA DrainStep == TypeOK /\ GenInv /\ DrainInv /\ [Next]_vars => DrainInv'
<1> SUFFICES ASSUME TypeOK, GenInv, DrainInv, [Next]_vars PROVE DrainInv'
  OBVIOUS
<1> USE DEF DrainInv
<1>0. ASSUME phase' \notin {"draining", "aborting"} PROVE DrainInv'
  BY <1>0
<1>1. CASE Start \/ StartFails \/ AcceptFails \/ DrainDone
  BY <1>0, <1>1 DEF Start, StartFails, AcceptFails, DrainDone, Return
<1>2. CASE OnReloadSignal \/ NoSignal \/ NoBuild \/ NoJob
  BY <1>0, <1>2 DEF OnReloadSignal, NoSignal, NoBuild, NoJob, Polling, Pass, loopVars
<1>3. ASSUME NEW x, JoinBuild(x) \/ ReapJob(x) \/ Accept(x) PROVE DrainInv'
  BY <1>0, <1>3 DEF JoinBuild, ReapJob, Accept, Polling, Pass
<1>4. CASE OnShutdownSignal
  <2>1. phase' = "draining" /\ drainLeft' = ShutdownTimeout /\ UNCHANGED <<pc, left>>
    BY <1>4 DEF OnShutdownSignal, clientVars
  <2>2. \A c \in Clients : left[c] <= ShutdownTimeout
    BY ServeAssumption DEF TypeOK, ClientType
  <2> QED BY <2>1, <2>2
<1>5. CASE DrainExpires
  <2>1. \A c \in Clients : pc[c] # "polled"
    BY <1>5, ServeAssumption DEF DrainExpires
  <2>2. \A c \in Clients : pc[c] = "busy" => left[c] = 0
    BY <1>5, ServeAssumption DEF DrainExpires, TypeOK, ClientType
  <2> QED BY <1>5, <2>1, <2>2 DEF DrainExpires, clientVars
<1>6. CASE Tick
  <2>1. phase' = phase /\ pc' = pc /\ \A c \in Clients : pc[c] # "polled"
    BY <1>6 DEF Tick
  <2>2. drainLeft' = Down(drainLeft) /\ \A c \in Clients : left'[c] = Down(left[c])
    BY <1>6 DEF Tick
  <2>3. \A c \in Clients : left[c] \in Nat /\ drainLeft \in Nat
    BY ServeAssumption DEF TypeOK, ClientType, LoopType
  <2> QED BY <2>1, <2>2, <2>3 DEF Down
<1>7. ASSUME NEW b \in reloads, FinishBuild(b) PROVE DrainInv'
  BY <1>7 DEF FinishBuild, loopVars, clientVars
<1>8. ASSUME NEW c \in Clients, Task(c) \/ Respond(c) \/ RequestFails(c) \/ Connect(c) \/ PeerActs(c)
      PROVE  DrainInv'
  <2>1. UNCHANGED <<phase, drainLeft>> /\ \A d \in Clients \ {c} : pc'[d] = pc[d] /\ left'[d] = left[d]
    BY <1>8, TaskSession DEF loopVars
  <2>2. CASE phase \in {"draining", "aborting"}
    <3>1. Live(c) => Stopped(c)
      BY <2>2, SplitOfGen DEF GenerationSplit
    <3>2. /\ pc'[c] = "polled" => pc[c] = "polled"
          /\ pc'[c] = "busy" => \/ pc[c] = "busy" /\ left'[c] = left[c]
                                \/ pc[c] = "polled" /\ left'[c] = RequestTimeout
      BY <1>8, <3>1, TaskDrain
    <3> QED BY <2>1, <2>2, <3>2, ServeAssumption
  <2>3. CASE phase \notin {"draining", "aborting"}
    BY <1>0, <2>1, <2>3
  <2> QED BY <2>2, <2>3
<1>9. CASE SendReload \/ SendShutdown \/ EditConfig \/ UNCHANGED vars
  BY <1>9 DEF SendReload, SendShutdown, EditConfig, vars, loopVars, clientVars
<1> QED
  BY <1>1, <1>2, <1>3, <1>4, <1>5, <1>6, <1>7, <1>8, <1>9 DEF Next, System, Environment, Loop, Idle

\* When the drain deadline aborts the stragglers, every request has already
\* outlived its own deadline.
THEOREM DrainKeepsDeadlines == Spec => []NoPrematureAbort
<1>1. Init => DrainInv
  BY DEF Init, DrainInv
<1>2. DrainInv => NoPrematureAbort
  BY DEF DrainInv, NoPrematureAbort
<1> QED BY <1>1, <1>2, DrainStep, GenCorrect, TypeCorrect, PTL DEF Spec
-----------------------------------------------------------------------------
(* The loop keeps the promise of AgentService.                             *)

\* Beyond what the invariants say: before the first agent there is none, a request
\* is only put off while a read is under way, and a read that runs has found
\* nothing yet.
LoadInv ==
  /\ phase = "starting" => agent = [gen |-> 0, cfg |-> NoConfig]
  /\ reloadPending => reloads # {}
  /\ \A b \in reloads : b.st # "ok" => b.cfg = NoConfig

LEMMA LoadStep == BuildInv /\ LoadInv /\ [Next]_vars => LoadInv'
<1> SUFFICES ASSUME BuildInv, LoadInv, [Next]_vars PROVE LoadInv'
  OBVIOUS
<1> USE DEF LoadInv
<1>0. ASSUME UNCHANGED <<agent, buildVars>>, phase' = phase \/ phase' # "starting" PROVE LoadInv'
  BY <1>0 DEF buildVars
<1>1. CASE Start
  BY <1>1 DEF Start, buildVars
<1>2. CASE OnReloadSignal
  <2>1. phase' # "starting" /\ phase = "serving"
    BY <1>2 DEF OnReloadSignal, Polling, loopVars
  <2>2. CASE reloads = {}
    <3>1. reloads' = {NewBuild} /\ NewBuild.cfg = NoConfig
      BY <1>2, <2>2 DEF OnReloadSignal, MayBuild, Spawn, NewBuild
    <3> QED BY <2>1, <3>1
  <2>3. CASE reloads # {}
    BY <1>2, <2>1, <2>3 DEF OnReloadSignal, MayBuild
  <2> QED BY <2>2, <2>3
<1>3. CASE StartFails \/ OnShutdownSignal \/ NoSignal \/ NoBuild \/ NoJob \/ AcceptFails
           \/ DrainDone \/ DrainExpires \/ Tick \/ SendReload \/ SendShutdown \/ EditConfig
           \/ UNCHANGED vars
  BY <1>0, <1>3
     DEF StartFails, OnShutdownSignal, NoSignal, NoBuild, NoJob, AcceptFails, DrainDone, Return,
         DrainExpires, Tick, SendReload, SendShutdown, EditConfig, vars, Pass, genVars, loopVars
<1>4. ASSUME NEW b \in reloads, JoinBuild(b) PROVE LoadInv'
  <2>1. phase' # "starting" /\ reloadPending' = FALSE
    BY <1>4 DEF JoinBuild, Polling, Pass
  <2>2. \A d \in reloads' : d \in reloads \/ d = NewBuild
    BY <1>4 DEF JoinBuild, Spawn
  <2> QED BY <2>1, <2>2 DEF NewBuild
<1>5. ASSUME NEW b \in reloads, FinishBuild(b) PROVE LoadInv'
  <2>1. UNCHANGED <<phase, agent>> /\ reloads' # {}
    BY <1>5 DEF FinishBuild, loopVars, genVars, Report
  <2>2. \A d \in reloads' : d \in reloads \/ d.st = "ok" \/ d.cfg = NoConfig
    BY <1>5 DEF FinishBuild, Report
  <2> QED BY <2>1, <2>2
<1>6. ASSUME NEW c \in Clients,
             ReapJob(c) \/ Accept(c) \/ Task(c) \/ Respond(c) \/ RequestFails(c) \/ Connect(c) \/ PeerActs(c)
      PROVE  LoadInv'
  <2>1. UNCHANGED <<phase, agent, buildVars>>
    BY <1>6 DEF ReapJob, Accept, Pass, Task, CheckStop, PollStop, PollWire, Timeout, Cancel, Respond,
       RequestFails, Connect, PeerActs, SharedVars, loopVars, genVars
  <2> QED BY <1>0, <2>1
<1> QED
  BY <1>1, <1>2, <1>3, <1>4, <1>5, <1>6 DEF Next, System, Environment, Loop, Idle

\* What is found by no build, by one, and by one that has just been spawned.
LEMMA FoundByOne ==
  /\ FoundBy({}) = Promise!NoRead
  /\ \A b : FoundBy({b}) = [st |-> b.st, cfg |-> b.cfg]
  /\ FoundBy({NewBuild}) = Promise!Reading
<1>1. FoundBy({}) = Promise!NoRead
  BY DEF FoundBy, Promise!NoRead
<1>2. \A b : FoundBy({b}) = [st |-> b.st, cfg |-> b.cfg]
  BY DEF FoundBy
<1>3. NewBuild.st = "running" /\ NewBuild.cfg = NoConfig
  BY DEF NewBuild
<1> QED BY <1>1, <1>2, <1>3 DEF Promise!Reading

LEMMA RefineInit == Init => Promise!Init
BY FoundByOne DEF Init, Promise!Init, Asked, Found, Sessions, Told, Live

\* Steps of the loop that the promise does not see.
LEMMA Unseen ==
  /\ UNCHANGED <<usr1, reloadPending>> => UNCHANGED Asked
  /\ UNCHANGED reloads => UNCHANGED Found
  /\ UNCHANGED <<pc, chan, stopped>> => UNCHANGED <<Sessions, Told>>
<1>1. UNCHANGED <<usr1, reloadPending>> => UNCHANGED Asked
  BY DEF Asked
<1>2. UNCHANGED reloads => UNCHANGED Found
  BY DEF Found
<1>3. UNCHANGED <<pc, chan, stopped>> => UNCHANGED <<Sessions, Told>>
  BY DEF Sessions, Told, Live, Stopped
<1> QED BY <1>1, <1>2, <1>3

\* A step of a client's task or peer, or the loop reaping it, at most ends its session.
LEMMA TaskCloses ==
  ASSUME TypeOK, NEW c \in Clients,
         ReapJob(c) \/ Task(c) \/ Respond(c) \/ RequestFails(c) \/ Connect(c) \/ PeerActs(c)
  PROVE  Promise!Close(c) \/ UNCHANGED Promise!vars
<1>1. CASE ReapJob(c)
  <2>1. \A d \in Clients : Live(d)' <=> Live(d)
    BY <1>1 DEF ReapJob, Live, TypeOK, ClientType
  <2>2. UNCHANGED <<Sessions, Told>>
    BY <1>1, <2>1 DEF ReapJob, Sessions, Told, Stopped, genVars
  <2>3. UNCHANGED <<Asked, Found>>
    BY <1>1, Unseen DEF ReapJob, signalVars, buildVars
  <2> QED BY <1>1, <2>2, <2>3 DEF ReapJob, Pass, genVars, fileVars, Promise!vars
<1>2. CASE Task(c) \/ Respond(c) \/ RequestFails(c) \/ Connect(c) \/ PeerActs(c)
  <2>1. UNCHANGED SharedVars
    BY <1>2, TaskType DEF Connect, PeerActs
  <2>2. UNCHANGED <<file, agent, Asked, Found, phase, stopped>>
    BY <2>1, Unseen DEF SharedVars, loopVars, signalVars, genVars, buildVars, fileVars
  <2>3. \A d \in Clients : Live(d)' => Live(d) /\ chan'[d] = chan[d]
    BY <1>2, TaskSession
  <2>4. \A d \in Clients \ {c} : Live(d)' <=> Live(d)
    BY <1>2, TaskSession DEF Live
  <2>5. CASE Live(c)' \/ ~Live(c)
    <3>1. UNCHANGED <<Sessions, Told>>
      BY <2>2, <2>3, <2>4, <2>5 DEF Sessions, Told, Stopped
    <3> QED BY <2>2, <3>1 DEF Promise!vars
  <2>6. CASE ~Live(c)' /\ Live(c)
    <3>1. Sessions' = Sessions \ {c} /\ Told' = Told \ {c}
      BY <2>2, <2>3, <2>4, <2>6 DEF Sessions, Told, Stopped
    <3> QED BY <2>2, <3>1 DEF Promise!Close
  <2> QED BY <2>5, <2>6
<1> QED BY <1>1, <1>2

\* A signal begins a read when none is under way, and is put off otherwise.
LEMMA SignalBegins ==
  ASSUME TypeOK, LoadInv, OnReloadSignal
  PROVE  Promise!Begin \/ Promise!Merge \/ UNCHANGED Promise!vars
<1>1. UNCHANGED <<file, agent, phase, Sessions, Told>> /\ phase = "serving"
  BY Unseen DEF OnReloadSignal, Polling, loopVars, genVars, clientVars, fileVars
<1>2. usr1 = TRUE /\ usr1' = FALSE
  BY DEF OnReloadSignal, TypeOK, SignalType
<1>3. CASE reloads = {}
  <2>1. reloadPending = FALSE /\ reloadPending' = FALSE
    BY <1>3 DEF OnReloadSignal, MayBuild, LoadInv, TypeOK, BuildType
  <2>2. Asked = 1 /\ Asked' = 0
    BY <1>2, <2>1 DEF Asked
  <2>3. reloads' = {NewBuild}
    BY <1>3 DEF OnReloadSignal, MayBuild, Spawn
  <2>4. Found = Promise!NoRead /\ Found' = Promise!Reading
    <3>1. Found = FoundBy({}) /\ Found' = FoundBy({NewBuild})
      BY <1>3, <2>3 DEF Found
    <3> QED BY <3>1, FoundByOne
  <2> QED BY <1>1, <2>2, <2>4 DEF Promise!Begin, Promise!BeginRead
<1>4. CASE reloads # {}
  <2>1. UNCHANGED reloads /\ reloadPending' = TRUE
    BY <1>4 DEF OnReloadSignal, MayBuild, Coalesced
  <2>2. UNCHANGED Found
    BY <2>1, Unseen
  <2>3. CASE reloadPending
    <3>1. Asked = 2 /\ Asked' = 1
      BY <1>2, <2>1, <2>3 DEF Asked
    <3>2. Found # Promise!NoRead
      <4>1. PICK b \in reloads : Found = [st |-> b.st, cfg |-> b.cfg]
        BY <1>4 DEF Found, FoundBy
      <4>2. b.st # "none"
        BY DEF TypeOK, BuildType, Build
      <4> QED BY <4>1, <4>2 DEF Promise!NoRead
    <3> QED BY <1>1, <2>2, <3>1, <3>2 DEF Promise!Merge
  <2>4. CASE ~reloadPending
    <3>1. Asked = 1 /\ Asked' = 1
      BY <1>2, <2>1, <2>4 DEF Asked
    <3> QED BY <1>1, <2>2, <3>1 DEF Promise!vars
  <2> QED BY <2>3, <2>4
<1> QED BY <1>3, <1>4

\* Joining the build concludes the read, and begins the one that was put off.
LEMMA JoinConcludes ==
  ASSUME TypeOK, BuildInv, GenInv, LoadInv, NEW b \in reloads, JoinBuild(b)
  PROVE  Promise!Conclude
<1>1. phase = "serving" /\ UNCHANGED <<file, phase, usr1, pc, chan>> /\ reloadPending' = FALSE
  BY DEF JoinBuild, Polling, Pass, signalVars, clientVars, fileVars
<1>2. reloads = {b} /\ Found = [st |-> b.st, cfg |-> b.cfg]
  <2>1. reloads = {b}
    BY DEF BuildInv
  <2> QED BY <2>1, FoundByOne DEF Found
<1>3. b.st \in {"ok", "failed"}
  BY DEF JoinBuild, TypeOK, BuildType, Build
<1>4. Sessions' = Sessions
  BY <1>1 DEF Sessions, Live
<1>5. IF Found.st = "ok" THEN agent' = [gen |-> agent.gen + 1, cfg |-> Found.cfg] /\ Told' = Sessions
                         ELSE UNCHANGED <<agent, Told>>
  <2>1. CASE b.st = "ok"
    <3>1. agent' = [gen |-> agent.gen + 1, cfg |-> b.cfg] /\ stopped' = stopped \cup {stop}
      BY <2>1 DEF JoinBuild, Adopt, Swap, StopCurrent
    <3>2. \A c \in Sessions : chan[c] \in stopped \cup {stop}
      BY DEF GenInv, SessionOK, Sessions
    <3>3. Told' = Sessions
      BY <1>1, <1>4, <3>1, <3>2 DEF Told, Stopped
    <3> QED BY <1>2, <2>1, <3>1, <3>3
  <2>2. CASE b.st # "ok"
    <3>1. UNCHANGED <<agent, stopped>>
      BY <2>2 DEF JoinBuild, Adopt, genVars
    <3> QED BY <1>1, <1>2, <2>2, <3>1, Unseen
  <2> QED BY <2>1, <2>2
<1>6. Promise!BeginRead \/ (Found' = Promise!NoRead /\ UNCHANGED Asked)
  <2>1. CASE reloadPending
    <3>1. reloads' = {NewBuild}
      BY <1>2, <2>1 DEF JoinBuild, Spawn
    <3>2. Found' = Promise!Reading
      <4>1. Found' = FoundBy({NewBuild})
        BY <3>1 DEF Found
      <4> QED BY <4>1, FoundByOne
    <3>3. Asked > 0 /\ Asked' = Asked - 1
      BY <1>1, <2>1 DEF Asked
    <3> QED BY <3>2, <3>3 DEF Promise!BeginRead
  <2>2. CASE ~reloadPending
    <3>1. reloads' = {} /\ reloadPending = FALSE
      BY <1>2, <2>2 DEF JoinBuild, TypeOK, BuildType
    <3>2. Found' = Promise!NoRead
      BY <3>1, FoundByOne DEF Found
    <3> QED BY <1>1, <3>1, <3>2, Unseen
  <2> QED BY <2>1, <2>2
<1> QED BY <1>1, <1>2, <1>3, <1>4, <1>5, <1>6 DEF Promise!Conclude

LEMMA RefineNext ==
  TypeOK /\ BuildInv /\ GenInv /\ LoadInv /\ [Next]_vars => [Promise!Next]_Promise!vars
<1> SUFFICES ASSUME TypeOK, BuildInv, GenInv, LoadInv, [Next]_vars
             PROVE  Promise!Next \/ UNCHANGED Promise!vars
  OBVIOUS
<1>1. CASE Start
  <2>1. UNCHANGED <<usr1, reloadPending, reloads, pc, chan, stopped, file>> /\ phase = "starting"
        /\ phase' = "serving" /\ agent' = [gen |-> 0, cfg |-> file] /\ file \in ValidConfigs
    BY <1>1 DEF Start, signalVars, buildVars, clientVars
  <2>2. agent = [gen |-> 0, cfg |-> NoConfig]
    BY <2>1 DEF LoadInv
  <2>3. Promise!Start
    BY <2>1, <2>2, Unseen DEF Promise!Start
  <2> QED BY <2>3 DEF Promise!Next
<1>2. CASE OnReloadSignal
  BY <1>2, SignalBegins DEF Promise!Next
<1>3. ASSUME phase \in {"starting", "serving"}, phase' \notin {"starting", "serving"},
             UNCHANGED <<file, agent, usr1, buildVars>>, Sessions' \in {Sessions, {}}, Told' = Sessions'
      PROVE  Promise!Next
  <2>1. Promise!GoDown
    BY <1>3, Unseen DEF Promise!GoDown, buildVars
  <2> QED BY <2>1 DEF Promise!Next
<1>4. CASE OnShutdownSignal
  <2>1. Sessions' = Sessions
    BY <1>4 DEF OnShutdownSignal, clientVars, Sessions, Live
  <2>2. \A c \in Sessions : chan[c] \in stopped \cup {stop}
    BY DEF GenInv, SessionOK, Sessions
  <2>3. Told' = Sessions'
    BY <1>4, <2>1, <2>2 DEF OnShutdownSignal, StopCurrent, clientVars, Told, Stopped
  <2> QED BY <1>3, <1>4, <2>1, <2>3 DEF OnShutdownSignal, Polling, fileVars
<1>5. CASE StartFails
  <2>1. Sessions = {} /\ Sessions' = {} /\ Told' = {}
    BY <1>5 DEF StartFails, clientVars, genVars, GenInv, Sessions, Told, Live
  <2> QED BY <1>3, <1>5, <2>1 DEF StartFails, signalVars, genVars, fileVars
<1>6. ASSUME NEW to, Return(to) PROVE Sessions' = {} /\ Told' = {}
  BY <1>6 DEF Return, Sessions, Told, Live
<1>7. CASE AcceptFails
  BY <1>3, <1>6, <1>7 DEF AcceptFails, Return, Polling, signalVars, genVars, fileVars
<1>8. CASE DrainDone
  <2>1. Sessions = {} /\ Told = {}
    BY <1>8 DEF DrainDone, Jobs, Sessions, Told, Live
  <2> QED BY <1>6, <1>8, <2>1, Unseen DEF DrainDone, Return, signalVars, genVars, buildVars, fileVars,
          Promise!vars
<1>9. CASE NoSignal \/ NoBuild \/ NoJob \/ DrainExpires \/ Tick \/ SendShutdown \/ UNCHANGED vars
  <2>1. UNCHANGED <<file, agent, usr1, reloadPending, reloads, pc, chan, stopped>>
    BY <1>9 DEF NoSignal, NoBuild, NoJob, DrainExpires, Tick, SendShutdown, vars, signalVars, genVars,
       buildVars, clientVars, fileVars
  <2>2. phase' = phase \/ (phase = "draining" /\ phase' = "aborting")
    BY <1>9 DEF NoSignal, NoBuild, NoJob, DrainExpires, Tick, SendShutdown, vars, loopVars, Pass
  <2> QED BY <2>1, <2>2, Unseen DEF Promise!vars
<1>10. ASSUME NEW b \in reloads, JoinBuild(b) PROVE Promise!Next
  BY <1>10, JoinConcludes DEF Promise!Next
<1>11. ASSUME NEW c \in Clients, Accept(c) PROVE Promise!Next
  <2>1. UNCHANGED <<file, agent, usr1, reloadPending, reloads, stopped, phase>> /\ phase = "serving"
        /\ pc[c] = "backlog" /\ pc' = [pc EXCEPT ![c] = "top"] /\ chan' = [chan EXCEPT ![c] = stop]
    BY <1>11 DEF Accept, Polling, Pass, signalVars, genVars, buildVars, fileVars
  <2>2. agent.cfg # NoConfig /\ stop \notin stopped
    BY <2>1, ServeAssumption DEF BuildInv, GenInv
  <2>3. c \notin Sessions /\ Sessions' = Sessions \cup {c} /\ Told' = Told
    BY <2>1, <2>2 DEF Sessions, Told, Live, Stopped, TypeOK, ClientType
  <2>4. Promise!Open(c)
    BY <2>1, <2>2, <2>3, Unseen DEF Promise!Open
  <2> QED BY <2>4 DEF Promise!Next
<1>12. ASSUME NEW b \in reloads, FinishBuild(b) PROVE Promise!Next
  <2>1. reloads = {b} /\ b.st = "running" /\ b.cfg = NoConfig
    BY <1>12 DEF FinishBuild, BuildInv, LoadInv
  <2>2. Found = Promise!Reading
    BY <2>1, FoundByOne DEF Found, Promise!Reading
  <2>3. UNCHANGED <<file, agent, usr1, reloadPending, pc, chan, stopped, phase>>
    BY <1>12 DEF FinishBuild, loopVars, signalVars, genVars, clientVars
  <2>4. ASSUME NEW st, NEW cfg, Report(b, st, cfg) PROVE Found' = [st |-> st, cfg |-> cfg]
    <3> DEFINE d == [id |-> b.id, st |-> st, cfg |-> cfg]
    <3>1. reloads' = {d} /\ d.st = st /\ d.cfg = cfg
      BY <2>1, <2>4 DEF Report
    <3> HIDE DEF d
    <3>2. Found' = FoundBy({d})
      BY <3>1 DEF Found
    <3> QED BY <3>1, <3>2, FoundByOne
  <2>5. \/ file \in ValidConfigs /\ Found' = [st |-> "ok", cfg |-> file]
        \/ Found' = [st |-> "failed", cfg |-> NoConfig]
    BY <1>12, <2>4 DEF FinishBuild
  <2>6. Promise!Finish
    BY <2>2, <2>3, <2>5, Unseen DEF Promise!Finish
  <2> QED BY <2>6 DEF Promise!Next
<1>13. ASSUME NEW c \in Clients,
              ReapJob(c) \/ Task(c) \/ Respond(c) \/ RequestFails(c) \/ Connect(c) \/ PeerActs(c)
       PROVE  Promise!Next \/ UNCHANGED Promise!vars
  BY <1>13, TaskCloses DEF Promise!Next
<1>14. CASE SendReload
  <2>1. UNCHANGED <<file, agent, reloadPending, reloads, pc, chan, stopped, phase>> /\ usr1' = TRUE
    BY <1>14 DEF SendReload, loopVars, genVars, buildVars, clientVars
  <2>2. Asked' \in {Asked, Asked + 1} \ {0}
    BY <2>1 DEF Asked, TypeOK, SignalType, BuildType
  <2>3. Promise!Ask
    BY <2>1, <2>2, Unseen DEF Promise!Ask
  <2> QED BY <2>3 DEF Promise!Next
<1>15. CASE EditConfig
  <2>1. UNCHANGED <<agent, usr1, reloadPending, reloads, pc, chan, stopped, phase>> /\ file' \in Configs
    BY <1>15 DEF EditConfig, loopVars, signalVars, genVars, buildVars, clientVars
  <2>2. Promise!Edit
    BY <2>1, Unseen DEF Promise!Edit
  <2> QED BY <2>2 DEF Promise!Next
<1> QED
  BY <1>1, <1>2, <1>4, <1>5, <1>7, <1>8, <1>9, <1>10, <1>11, <1>12, <1>13, <1>14, <1>15
     DEF Next, System, Environment, Loop, Idle

\* The service loop keeps the promise of AgentService: reads one at a time, each
\* paid by a request, an agent replaced only by a read that succeeded, with every
\* open session told, and nothing accepted or applied once it goes down.
THEOREM Refinement == Spec => ImplementsAgentService
<1>1. Init => LoadInv
  BY DEF Init, LoadInv
<1> QED
  BY <1>1, LoadStep, RefineInit, RefineNext, TypeCorrect, BuildCorrect, GenCorrect, PTL
     DEF Spec, ImplementsAgentService, Promise!Spec
=============================================================================
