----------------------- MODULE BitwardenProviderProofs -----------------------
(***************************************************************************)
(* Proofs about BitwardenProvider, for any number of requests and for all  *)
(* timeouts that nest as DeadlineAssumption says.                          *)
(***************************************************************************)
EXTENDS BitwardenProvider, WaitQueueProofs

LoadStates == {"idle", "wantRead", "read", "wantWrite", "recheck", "init"}
SyncStates == {"idle", "fresh", "wantGate", "recheck", "login", "bootstrap", "publish",
               "take", "sync", "wantGate401", "invalidate"}

-----------------------------------------------------------------------------
(* The composition adds no behaviour to its parts: what it does to the     *)
(* cell is a step of CacheCell, to the session a step of BitwardenSession. *)

LEMMA CellSteps == [Next]_vars => [Cell!Next]_Cell!vars
<1> SUFFICES ASSUME Next PROVE Cell!Next \/ UNCHANGED Cell!vars
  BY DEF vars, cell, Cell!vars
<1> USE DEF cell, Cell!vars
<1>1. CASE Tick
  BY <1>1 DEF Tick, Cell!Next
<1>2. CASE Revoke \/ Recover
  BY <1>2 DEF Revoke, Recover
<1>3. ASSUME NEW c \in Callers, Call(c) PROVE Cell!Next
  BY <1>3 DEF Call, Cell!Next
<1>4. ASSUME NEW c \in Callers, Look(c) PROVE Cell!Next
  BY <1>4 DEF Look, Cell!Next, Cell!Progress
<1>5. ASSUME NEW c \in Callers, Begin(c) \/ Talk(c) \/ Refused(c) PROVE UNCHANGED Cell!vars
  BY <1>5 DEF Begin, Talk, Refused
<1>6. ASSUME NEW c \in Callers, BuildFails(c) \/ FetchEnds(c) \/ FetchFails(c) PROVE Cell!Next
  BY <1>6 DEF BuildFails, FetchEnds, FetchFails, Finish, Cell!Next, Cell!Progress
<1>7. ASSUME NEW c \in Callers, Deadline(c) PROVE Cell!Next
  BY <1>7 DEF Deadline, Cell!Next
<1> QED BY <1>1, <1>2, <1>3, <1>4, <1>5, <1>6, <1>7 DEF Next, Work

LEMMA SessionSteps == [Next]_vars => [Session!Next]_Session!vars
<1> SUFFICES ASSUME Next PROVE Session!Next \/ UNCHANGED Session!vars
  BY DEF vars, session, Session!vars, Session!authVars, Session!gateVars, Session!serverVars
<1> USE DEF session, Session!vars, Session!authVars, Session!gateVars, Session!serverVars
<1>1. CASE Tick
  BY <1>1 DEF Tick, Session!Next
<1>2. CASE Revoke \/ Recover
  BY <1>2 DEF Revoke, Recover, Session!Next
<1>3. ASSUME NEW c \in Callers, Call(c) \/ Look(c) \/ BuildFails(c) PROVE UNCHANGED Session!vars
  BY <1>3 DEF Call, Look, BuildFails
<1>4. ASSUME NEW c \in Callers, Begin(c) PROVE Session!Next
  BY <1>4 DEF Begin, Session!Next
<1>5. ASSUME NEW c \in Callers, Talk(c) \/ Refused(c) \/ FetchEnds(c) \/ FetchFails(c) PROVE Session!Next
  BY <1>5 DEF Talk, Refused, FetchEnds, FetchFails, Session!Next, Session!Progress
<1>6. ASSUME NEW c \in Callers, Deadline(c) PROVE Session!Next \/ UNCHANGED Session!vars
  BY <1>6 DEF Deadline, DropSession, Session!Next
<1> QED BY <1>1, <1>2, <1>3, <1>4, <1>5, <1>6 DEF Next, Work

\* Whatever is shown of CacheCell and of BitwardenSession alone holds of them
\* inside the provider: it is one of their clients and nothing else.
THEOREM ProviderIsClient == Spec => Cell!Spec /\ Session!Spec
<1>1. Init => Cell!Init /\ Session!Init
  BY DEF Init
<1> QED BY <1>1, CellSteps, SessionSteps, PTL DEF Spec, Cell!Spec, Session!Spec

-----------------------------------------------------------------------------
(* The lock of the cell.                                                   *)

CellInv ==
  /\ val \in Values \cup {NoValue} /\ age \in 0..TTL
  /\ load \in [Callers -> LoadStates]
  /\ answer \in [Callers -> Values \cup {NoValue, Failed}]
  /\ writer \in Callers \cup {NoCaller}
  /\ readers = {c \in Callers : load[c] = "read"}
  /\ \A c \in Callers : writer = c <=> load[c] \in {"recheck", "init"}
  /\ writer # NoCaller => readers = {}

LEMMA CellInit == Init => CellInv
BY ProviderAssumption DEF Init, Cell!Init, CellInv, LoadStates

LEMMA CellStep == CellInv /\ [Next]_vars => CellInv'
<1> SUFFICES ASSUME CellInv, [Cell!Next]_Cell!vars PROVE CellInv'
  BY CellSteps
<1> USE ProviderAssumption DEF CellInv, LoadStates, Cell!Goto, Cell!Release, Cell!Return
<1>1. CASE Cell!Tick \/ UNCHANGED Cell!vars
  BY <1>1 DEF Cell!Tick, Cell!vars
<1>2. ASSUME NEW c \in Callers, Cell!Call(c) PROVE CellInv'
  BY <1>2 DEF Cell!Call
<1>3. ASSUME NEW c \in Callers, Cell!Grant(c) PROVE CellInv'
  <2>1. CASE load[c] = "wantRead"
    BY <1>3, <2>1 DEF Cell!Grant
  <2>2. CASE load[c] = "wantWrite"
    BY <1>3, <2>2 DEF Cell!Grant
  <2> QED BY <1>3, <2>1, <2>2 DEF Cell!Grant
<1>4. ASSUME NEW c \in Callers, Cell!CheckRead(c) PROVE CellInv'
  BY <1>4 DEF Cell!CheckRead, Cell!UpgradeGuard
<1>5. ASSUME NEW c \in Callers, Cell!Recheck(c) PROVE CellInv'
  BY <1>5 DEF Cell!Recheck
<1>6. ASSUME NEW c \in Callers, Cell!FinishInit(c) PROVE CellInv'
  BY <1>6 DEF Cell!FinishInit
<1>7. ASSUME NEW c \in Callers, Cell!Cancel(c) PROVE CellInv'
  BY <1>7 DEF Cell!Cancel
<1> QED BY <1>1, <1>2, <1>3, <1>4, <1>5, <1>6, <1>7 DEF Cell!Next, Cell!Progress

\* The steps that a request takes inside load() and outside of its initializer.
LEMMA LookMoves ==
  ASSUME CellInv, NEW c \in Callers, Look(c)
  PROVE  /\ UNCHANGED <<session, val, age>>
         /\ \E to \in LoadStates : load' = [load EXCEPT ![c] = to]
         /\ load[c] # "init" /\ load[c] # "idle"
         /\ load'[c] = "init" => load[c] = "recheck" /\ ~Cell!Fresh
<1> USE DEF CellInv, LoadStates, Cell!Goto, Cell!Return
<1>1. UNCHANGED session
  BY DEF Look
<1>2. CASE Cell!Grant(c)
  BY <1>1, <1>2 DEF Cell!Grant
<1>3. CASE Cell!CheckRead(c)
  BY <1>1, <1>3 DEF Cell!CheckRead
<1>4. CASE Cell!Recheck(c)
  BY <1>1, <1>4 DEF Cell!Recheck
<1> QED BY <1>2, <1>3, <1>4 DEF Look

\* How an initializer ends.
LEMMA FinishMoves ==
  ASSUME CellInv, NEW c \in Callers, NEW ok \in BOOLEAN, Finish(c, ok)
  PROVE  /\ load[c] = "init" /\ load' = [load EXCEPT ![c] = "idle"]
         /\ left' = [left EXCEPT ![c] = 0]
         /\ hurt' = IF ok THEN hurt ELSE hurt \cup Open
         /\ ok => val' # NoValue /\ age' = 0
<1>1. load[c] = "init" /\ load' = [load EXCEPT ![c] = "idle"]
  BY DEF Finish, Cell!FinishInit, Cell!Return, Cell!Goto
<1>2. ASSUME ok PROVE val' # NoValue /\ age' = 0
  <2>1. answer'[c] \in Values
    BY <1>2, Zenon DEF Finish
  <2>2. Cell!FinishInit(c)
    BY DEF Finish
  <2> QED BY <2>1, <2>2, ProviderAssumption DEF CellInv, Cell!FinishInit, Cell!Return
<1>3. left' = [left EXCEPT ![c] = 0] /\ hurt' = IF ok THEN hurt ELSE hurt \cup Open
  BY Zenon DEF Finish
<1> QED BY <1>1, <1>2, <1>3, Zenon

-----------------------------------------------------------------------------
(* The token.                                                              *)

\* Only the one initializer that runs is inside sync(), so the token it has made
\* sure of stays there until it takes it.
SyncInv ==
  /\ token \in Tokens \cup {None} /\ exp \in Nat \cup {None}
  /\ token = None <=> exp = None
  /\ pc \in [Callers -> SyncStates]
  /\ held \in [Callers -> [token : Tokens \cup {None}, left : Nat]]
  /\ \A c \in Callers :
       /\ pc[c] \in {"bootstrap", "publish"} => held[c].token # None
       /\ pc[c] = "take" => token # None
  /\ NoMissingToken

TokenInv == SyncInv /\ \A c \in Callers : pc[c] # "idle" => load[c] = "init"

LEMMA TokenInit == Init => TokenInv
BY ProviderAssumption DEF Init, Session!Init, Session!NoResponse, TokenInv, SyncInv, SyncStates, NoMissingToken

\* Nobody else is inside sync() while one call is.
Alone(c) == \A d \in Callers \ {c} : pc[d] = "idle"

LEMMA InitIsAlone ==
  ASSUME CellInv, TokenInv, NEW c \in Callers, load[c] = "init"
  PROVE  Alone(c) /\ \A d \in Callers \ {c} : load[d] # "init"
BY DEF CellInv, TokenInv, SyncInv, Alone

LEMMA EndSync ==
  ASSUME SyncInv, NEW c \in Callers, missed' = missed, Session!End(c),
         token' \in {token, None}, exp' \in {exp, None}, token' = None <=> exp' = None, Alone(c)
  PROVE  SyncInv' /\ pc' = [pc EXCEPT ![c] = "idle"]
BY ProviderAssumption DEF SyncInv, Alone, Session!End, Session!Goto, Session!NoResponse, SyncStates, NoMissingToken

LEMMA SyncStep ==
  ASSUME SyncInv, NEW c \in Callers, Alone(c), Session!Begin(c) \/ Session!Progress(c)
  PROVE  SyncInv' /\ \E to \in SyncStates : pc' = [pc EXCEPT ![c] = to]
<1> USE ProviderAssumption DEF SyncInv, SyncStates, Alone, Session!Goto, NoMissingToken,
        Session!authVars, Session!gateVars, Session!serverVars
<1>1. CASE Session!Begin(c)
  BY <1>1 DEF Session!Begin
<1>2. CASE Session!CheckFresh(c) \/ Session!GrantGate(c) \/ Session!Recheck(c)
  <2>1. UNCHANGED <<token, exp, held, missed>>
    BY <1>2 DEF Session!CheckFresh, Session!GrantGate, Session!Recheck
  <2>2. \/ \E to \in {"wantGate", "recheck", "invalidate", "login"} : pc' = [pc EXCEPT ![c] = to]
        \/ exp # None /\ pc' = [pc EXCEPT ![c] = "take"]
    BY <1>2 DEF Session!CheckFresh, Session!GrantGate, Session!Recheck, Session!Stale
  <2> QED BY <2>1, <2>2
<1>3. CASE Session!LoginReply(c)
  <2>1. Session!NewToken \in Tokens
    BY <1>3 DEF Session!LoginReply, Session!NewToken
  <2>2. PICK life \in 0..MaxLife : held' = [held EXCEPT ![c] = [token |-> Session!NewToken, left |-> life]]
    BY <1>3 DEF Session!LoginReply
  <2>3. UNCHANGED <<token, exp, missed>> /\ pc' = [pc EXCEPT ![c] = "bootstrap"]
    BY <1>3 DEF Session!LoginReply
  <2>4. held' \in [Callers -> [token : Tokens \cup {None}, left : Nat]] /\ held'[c].token # None
    BY <2>1, <2>2
  <2> QED BY <2>3, <2>4
<1>4. CASE Session!Bootstrap(c)
  BY <1>4 DEF Session!Bootstrap
<1>5. CASE Session!Publish(c)
  <2>1. held' \in [Callers -> [token : Tokens \cup {None}, left : Nat]]
    BY <1>5 DEF Session!Publish, Session!NoResponse
  <2>2. token' \in Tokens /\ exp' \in Nat /\ pc' = [pc EXCEPT ![c] = "take"] /\ UNCHANGED missed
    BY <1>5 DEF Session!Publish
  <2> QED BY <2>1, <2>2
<1>6. CASE Session!LoginFails(c) \/ Session!SyncOk(c) \/ Session!SyncFails(c)
  BY <1>6, EndSync DEF Session!LoginFails, Session!SyncOk, Session!SyncFails
<1>7. CASE Session!Take(c)
  BY <1>7 DEF Session!Take
<1>8. CASE Session!Sync401(c)
  BY <1>8 DEF Session!Sync401
<1>9. CASE Session!Invalidate(c)
  <2>1. token' \in {token, None} /\ exp' \in {exp, None} /\ (token' = None <=> exp' = None)
    BY <1>9 DEF Session!Invalidate, Session!ClearExp, Session!Rejected
  <2>2. CASE Session!LastAttempt(c)
    BY <1>9, <2>1, <2>2, EndSync DEF Session!Invalidate
  <2>3. CASE ~Session!LastAttempt(c)
    <3>1. UNCHANGED <<held, missed>>
      BY <1>9, <2>3 DEF Session!Invalidate
    <3>2. \/ pc' = [pc EXCEPT ![c] = "login"]
          \/ token' # None /\ pc' = [pc EXCEPT ![c] = "take"]
      BY <1>9, <2>3 DEF Session!Invalidate, Session!RefreshVia
    <3> QED BY <2>1, <3>1, <3>2
  <2> QED BY <2>2, <2>3
<1> QED BY <1>1, <1>2, <1>3, <1>4, <1>5, <1>6, <1>7, <1>8, <1>9 DEF Session!Progress

LEMMA TokenStep == CellInv /\ TokenInv /\ [Next]_vars => TokenInv'
<1> SUFFICES ASSUME CellInv, TokenInv, [Next]_vars PROVE TokenInv'
  OBVIOUS
<1>1. CASE UNCHANGED vars \/ Revoke \/ Recover
  BY <1>1 DEF TokenInv, SyncInv, NoMissingToken, Revoke, Recover, Session!Revoke, Session!authVars,
     vars, cell, session
<1>2. CASE Tick
  <2>1. UNCHANGED load
    BY <1>2 DEF Tick, Cell!Tick, cell
  <2>2. CASE UNCHANGED session
    BY <2>1, <2>2 DEF TokenInv, SyncInv, NoMissingToken, session
  <2>3. CASE Session!Tick
    <3>1. exp' \in Nat \cup {None} /\ (exp' = None <=> exp = None)
      BY <2>3, ProviderAssumption DEF Session!Tick, Session!Down, TokenInv, SyncInv
    <3>2. ASSUME NEW c \in Callers
          PROVE  held'[c] \in [token : Tokens \cup {None}, left : Nat] /\ held'[c].token = held[c].token
      <4>1. held[c] \in [token : Tokens \cup {None}, left : Nat]
        BY DEF TokenInv, SyncInv
      <4>2. Session!Down(held[c].left) \in Nat
        BY <4>1, ProviderAssumption DEF Session!Down
      <4>3. held'[c] = [token |-> held[c].token, left |-> Session!Down(held[c].left)]
        BY <2>3 DEF Session!Tick
      <4> QED BY <4>1, <4>2, <4>3
    <3>3. held' \in [Callers -> [token : Tokens \cup {None}, left : Nat]]
      BY <2>3, <3>2 DEF Session!Tick
    <3> QED BY <2>1, <2>3, <3>1, <3>2, <3>3 DEF Session!Tick, TokenInv, SyncInv, NoMissingToken
  <2> QED BY <1>2, <2>2, <2>3 DEF Tick
<1>3. ASSUME NEW c \in Callers, Call(c) \/ Look(c) PROVE TokenInv'
  <2>1. UNCHANGED session
    BY <1>3 DEF Call, Look
  <2>2. load[c] # "init" /\ \E to \in LoadStates : load' = [load EXCEPT ![c] = to]
    BY <1>3, LookMoves DEF Call, Cell!Call, Cell!Goto, LoadStates
  <2> QED BY <2>1, <2>2 DEF session, CellInv, TokenInv, SyncInv, NoMissingToken
<1>4. ASSUME NEW c \in Callers, Begin(c) \/ Talk(c) \/ Refused(c) PROVE TokenInv'
  <2>1. UNCHANGED load /\ (Session!Begin(c) \/ Session!Progress(c))
    BY <1>4 DEF Begin, Talk, Refused, cell, Session!Progress
  <2>2. load[c] = "init"
    BY <1>4 DEF Begin, Talk, Refused, Fetching, TokenInv, Session!CheckFresh, Session!GrantGate, Session!Recheck,
       Session!LoginReply, Session!Bootstrap, Session!Publish, Session!Take, Session!Invalidate, Session!Sync401
  <2> QED BY <2>1, <2>2, InitIsAlone, SyncStep DEF TokenInv, SyncInv
<1>5. ASSUME NEW c \in Callers, FetchEnds(c) \/ FetchFails(c) PROVE TokenInv'
  <2>1. Session!Progress(c) /\ \E ok \in BOOLEAN : Finish(c, ok)
    BY <1>5 DEF FetchEnds, FetchFails, Session!Progress
  <2>2. load[c] = "init" /\ load' = [load EXCEPT ![c] = "idle"]
    BY <2>1, FinishMoves
  <2>3. pc'[c] = "idle"
    BY <1>5 DEF FetchEnds, FetchFails, Session!SyncOk, Session!End, Session!Goto, TokenInv, SyncInv
  <2> QED BY <2>1, <2>2, <2>3, InitIsAlone, SyncStep DEF CellInv, TokenInv, SyncInv
<1>6. ASSUME NEW c \in Callers, BuildFails(c) PROVE TokenInv'
  <2>1. UNCHANGED session /\ pc[c] = "idle" /\ load' = [load EXCEPT ![c] = "idle"]
    BY <1>6, FinishMoves DEF BuildFails
  <2> QED BY <2>1 DEF session, CellInv, TokenInv, SyncInv, NoMissingToken
<1>7. ASSUME NEW c \in Callers, Deadline(c) PROVE TokenInv'
  <2>1. load' = [load EXCEPT ![c] = "idle"]
    BY <1>7 DEF Deadline, Cell!Cancel, Cell!Goto
  <2>2. SyncInv' /\ pc' = [pc EXCEPT ![c] = "idle"]
    <3>1. CASE pc[c] = "idle"
      BY <1>7, <3>1 DEF Deadline, DropSession, session, TokenInv, SyncInv, NoMissingToken
    <3>2. CASE pc[c] # "idle"
      BY <1>7, <3>2, ProviderAssumption DEF Deadline, DropSession, Session!Cancel, Session!Goto, Session!NoResponse,
         Session!authVars, SyncStates, TokenInv, SyncInv, NoMissingToken
    <3> QED BY <3>1, <3>2
  <2> QED BY <2>1, <2>2 DEF CellInv, TokenInv, SyncInv
<1> QED BY <1>1, <1>2, <1>3, <1>4, <1>5, <1>6, <1>7 DEF Next, Work

\* Behind the cell no call finds the token missing that it made sure of, though
\* the mutex of the session is released in between.
THEOREM TokenFound == Spec => []NoMissingToken
<1>1. TokenInv => NoMissingToken
  BY DEF TokenInv, SyncInv
<1> QED BY <1>1, CellInit, CellStep, TokenInit, TokenStep, PTL DEF Spec

-----------------------------------------------------------------------------
(* The budgets.                                                            *)

\* The longest time the fetch of c may still take before it ends or a refusal is
\* seen: one login and one sync at most, each within its own timeout.
Need(c) ==
  IF pc[c] \in {"idle", "fresh", "wantGate", "recheck", "wantGate401", "invalidate"} THEN ColdLoad
  ELSE IF pc[c] = "login" THEN http[c] + HttpTimeout
  ELSE IF pc[c] = "sync" THEN http[c]
  ELSE HttpTimeout

\* A request that saw no trouble has more time left than the fetch it waits for
\* may take; when no fetch runs it has the time for one, or a fresh snapshot to
\* pick up.
BudgetInv ==
  /\ left \in [Callers -> 0..RequestTimeout] /\ http \in [Callers -> 0..HttpTimeout]
  /\ cut \subseteq hurt
  /\ \A c \in Open \ hurt :
       /\ \A w \in Callers : load[w] = "init" => left[c] > Need(w)
       /\ (\A w \in Callers : load[w] # "init") => left[c] > ColdLoad \/ (left[c] > 0 /\ Cell!Fresh)

LEMMA NeedType ==
  ASSUME BudgetInv, NEW c \in Callers
  PROVE  Need(c) \in Nat /\ Need(c) <= ColdLoad
BY DeadlineAssumption DEF BudgetInv, Need, ColdLoad

LEMMA BudgetInit == Init => BudgetInv
BY DeadlineAssumption DEF Init, Cell!Init, BudgetInv, Open

\* Every request that is open has seen trouble: there is nothing to show.
LEMMA AllHurt ==
  ASSUME left' \in [Callers -> 0..RequestTimeout], http' \in [Callers -> 0..HttpTimeout],
         cut' \subseteq hurt', Open' \subseteq hurt'
  PROVE  BudgetInv'
BY DEF BudgetInv

\* A request with no time left has seen trouble.
LEMMA DeadlineIsHurt ==
  ASSUME BudgetInv, NEW c \in Open, left[c] = 0
  PROVE  c \in hurt
<1> SUFFICES ASSUME c \notin hurt PROVE FALSE
  OBVIOUS
<1>1. CASE \E w \in Callers : load[w] = "init"
  BY <1>1, NeedType DEF BudgetInv
<1>2. CASE \A w \in Callers : load[w] # "init"
  BY <1>2, DeadlineAssumption DEF BudgetInv, ColdLoad
<1> QED BY <1>1, <1>2

LEMMA BudgetStep == CellInv /\ TokenInv /\ BudgetInv /\ [Next]_vars => BudgetInv'
<1> SUFFICES ASSUME CellInv, TokenInv, BudgetInv, [Next]_vars PROVE BudgetInv'
  OBVIOUS
<1>0. left \in [Callers -> 0..RequestTimeout] /\ http \in [Callers -> 0..HttpTimeout] /\ cut \subseteq hurt
      /\ load \in [Callers -> LoadStates] /\ pc \in [Callers -> SyncStates]
  BY DEF BudgetInv, CellInv, TokenInv, SyncInv
<1>a. HttpTimeout \in Nat /\ HttpTimeout > 0 /\ RequestTimeout \in Nat /\ ColdLoad = 2 * HttpTimeout
  BY DeadlineAssumption DEF ColdLoad
<1>1. CASE UNCHANGED vars \/ Revoke \/ Recover
  <2>1. UNCHANGED <<cell, pc, left, http, cut, hurt>>
    BY <1>1 DEF Revoke, Recover, Session!Revoke, vars, session
  <2> QED BY <2>1 DEF cell, BudgetInv, Open, Need, Cell!Fresh
<1>2. CASE Tick
  <2>1. UNCHANGED <<load, val, pc, cut, hurt>>
    BY <1>2 DEF Tick, Cell!Tick, Session!Tick, cell, session
  <2>2. \A c \in Callers : left'[c] = Down(left[c]) /\ http'[c] = Down(http[c])
    BY <1>2 DEF Tick
  <2>3. left' \in [Callers -> 0..RequestTimeout] /\ http' \in [Callers -> 0..HttpTimeout]
    <3>1. \A c \in Callers : Down(left[c]) \in 0..RequestTimeout /\ Down(http[c]) \in 0..HttpTimeout
      BY <1>0, <1>a DEF Down
    <3> QED BY <1>2, <3>1 DEF Tick
  <2>4. ASSUME NEW c \in Open PROVE \E w \in Callers : load[w] = "init"
    <3>1. Waiting(c) /\ load[c] # "idle" /\ c \in Callers
      BY <1>2 DEF Tick, Open
    <3>2. CASE load[c] = "init"
      BY <3>1, <3>2
    <3>3. CASE readers # {}
      <4>1. PICK d \in Callers : load[d] = "read"
        BY <3>3 DEF CellInv
      <4> QED BY <1>2, <4>1 DEF Tick, Waiting, Fetching
    <3>4. CASE writer # NoCaller
      <4>1. writer \in Callers /\ load[writer] \in {"recheck", "init"}
        BY <3>4 DEF CellInv
      <4>2. load[writer] = "init"
        BY <1>2, <4>1 DEF Tick, Waiting, Fetching
      <4> QED BY <4>1, <4>2
    <3> QED BY <3>1, <3>2, <3>3, <3>4 DEF Waiting, Fetching
  <2>5. ASSUME NEW c \in Open \ hurt, NEW w \in Callers, load[w] = "init"
        PROVE  left'[c] > Need(w)'
    <3>1. left[c] > Need(w) /\ left[c] \in Nat /\ c \in Callers
      BY <1>0, <1>a, <2>5 DEF BudgetInv, Open
    <3>2. pc[w] \in OnWire /\ http[w] > 0 /\ http[w] \in Nat
      BY <1>0, <1>2, <2>5 DEF Tick, Waiting
    <3>3. http'[w] = http[w] - 1
      BY <2>2, <3>2 DEF Down
    <3>4. Need(w)' = Need(w) - 1 /\ Need(w) \in Nat
      BY <1>a, <2>1, <3>2, <3>3 DEF Need, OnWire
    <3>5. left'[c] = left[c] - 1
      BY <2>2, <3>1, <3>4 DEF Down
    <3> QED BY <3>1, <3>4, <3>5
  <2>6. Open' = Open
    BY <2>1 DEF Open
  <2>7. \A w \in Callers : load'[w] = load[w]
    BY <2>1
  <2>8. \A c \in Open' \ hurt' : \A w \in Callers : load'[w] = "init" => left'[c] > Need(w)'
    BY <2>1, <2>5, <2>6
  <2>9. \A c \in Open' \ hurt' : \E w \in Callers : load'[w] = "init"
    BY <2>1, <2>4, <2>6
  <2>10. cut' \subseteq hurt'
    BY <1>0, <2>1
  <2> QED BY <2>3, <2>8, <2>9, <2>10 DEF BudgetInv
<1>3. ASSUME NEW c \in Callers, Call(c) PROVE BudgetInv'
  <2>1. load[c] = "idle" /\ load' = [load EXCEPT ![c] = "wantRead"] /\ UNCHANGED <<val, age, pc, http>>
        /\ cut' = cut \ {c}
    BY <1>3 DEF Call, Cell!Call, Cell!Goto, session
  <2>2. PICK budget \in 1..RequestTimeout :
          /\ left' = [left EXCEPT ![c] = budget]
          /\ hurt' = IF budget > ColdLoad THEN hurt \ {c} ELSE hurt \cup {c}
    BY <1>3 DEF Call
  <2>3. \A w \in Callers : (load'[w] = "init" <=> load[w] = "init") /\ Need(w)' = Need(w)
    BY <1>0, <2>1 DEF Need
  <2>4. \A w \in Callers : budget > ColdLoad => budget > Need(w)
    BY <1>a, NeedType
  <2>5. Cell!Fresh' <=> Cell!Fresh
    BY <2>1 DEF Cell!Fresh
  <2>6. left' \in [Callers -> 0..RequestTimeout] /\ http' \in [Callers -> 0..HttpTimeout]
    BY <1>0, <1>a, <2>1, <2>2
  <2>7. ASSUME NEW d \in Open' \ hurt'
        PROVE  /\ d \in Callers
               /\ \/ d = c /\ left'[d] = budget /\ budget > ColdLoad
                  \/ d \in Open \ hurt /\ left'[d] = left[d]
    <3>1. CASE d = c
      BY <1>0, <2>2, <2>7, <3>1 DEF Open
    <3>2. CASE d # c
      BY <1>0, <2>1, <2>2, <2>7, <3>2 DEF Open
    <3> QED BY <3>1, <3>2
  <2>8. \A d \in Open' \ hurt' : \A w \in Callers : load'[w] = "init" => left'[d] > Need(w)'
    BY <2>3, <2>4, <2>7 DEF BudgetInv
  <2>9. \A d \in Open' \ hurt' : (\A w \in Callers : load'[w] # "init")
                                   => left'[d] > ColdLoad \/ (left'[d] > 0 /\ Cell!Fresh')
    BY <2>3, <2>5, <2>7 DEF BudgetInv
  <2>10. cut' \subseteq hurt'
    BY <1>0, <2>1, <2>2
  <2> QED BY <2>6, <2>8, <2>9, <2>10 DEF BudgetInv
<1>4. ASSUME NEW c \in Callers, Look(c) PROVE BudgetInv'
  <2>1. UNCHANGED <<val, age, pc, http, cut, hurt>> /\ load[c] # "init" /\ load[c] # "idle"
        /\ \E to \in LoadStates : load' = [load EXCEPT ![c] = to]
    BY <1>4, LookMoves DEF Look, session
  <2>2. left' = IF load'[c] = "idle" THEN [left EXCEPT ![c] = 0] ELSE left
    BY <1>4 DEF Look
  <2>3. left' \in [Callers -> 0..RequestTimeout] /\ http' \in [Callers -> 0..HttpTimeout]
    BY <1>0, <1>a, <2>1, <2>2
  <2>4. \A d \in Open' \ hurt' : d \in Open \ hurt /\ left'[d] = left[d]
    BY <1>0, <2>1, <2>2 DEF Open
  <2>5. \A w \in Callers : Need(w)' = Need(w) /\ (w # c => load'[w] = load[w])
    BY <1>0, <2>1 DEF Need
  <2>6. Cell!Fresh' <=> Cell!Fresh
    BY <2>1 DEF Cell!Fresh
  <2>7. CASE load'[c] # "init"
    <3>1. \A w \in Callers : load'[w] = "init" <=> load[w] = "init"
      BY <2>1, <2>5, <2>7
    <3>2. \A d \in Open' \ hurt' : \A w \in Callers : load'[w] = "init" => left'[d] > Need(w)'
      BY <2>4, <2>5, <3>1 DEF BudgetInv
    <3>3. \A d \in Open' \ hurt' : (\A w \in Callers : load'[w] # "init")
                                     => left'[d] > ColdLoad \/ (left'[d] > 0 /\ Cell!Fresh')
      BY <2>4, <2>6, <3>1 DEF BudgetInv
    <3> QED BY <1>0, <2>1, <2>3, <3>2, <3>3 DEF BudgetInv
  <2>8. CASE load'[c] = "init"
    <3>1. load[c] = "recheck" /\ ~Cell!Fresh
      BY <1>4, <2>8, LookMoves
    <3>2. \A w \in Callers : load[w] # "init"
      BY <3>1 DEF CellInv
    <3>3. \A d \in Open \ hurt : left[d] > ColdLoad /\ left[d] \in Nat
      BY <1>0, <3>1, <3>2 DEF BudgetInv, Open
    <3>4. \A w \in Callers : Need(w) \in Nat /\ Need(w) <= ColdLoad
      BY NeedType
    <3>5. \A d \in Open' \ hurt' : \A w \in Callers : left'[d] > Need(w)'
      BY <1>a, <2>4, <2>5, <3>3, <3>4
    <3> QED BY <1>0, <2>1, <2>3, <2>8, <3>5 DEF BudgetInv
  <2> QED BY <2>7, <2>8
<1>5. ASSUME NEW c \in Callers, Begin(c) \/ Talk(c) PROVE BudgetInv'
  <2>1. UNCHANGED <<cell, left, cut, hurt>> /\ http' \in [Callers -> 0..HttpTimeout]
    BY <1>0, <1>5, <1>a DEF Begin, Talk
  <2>2. load[c] = "init"
    BY <1>5 DEF Begin, Talk, Fetching, TokenInv, Session!CheckFresh, Session!GrantGate, Session!Recheck,
       Session!LoginReply, Session!Bootstrap, Session!Publish, Session!Take, Session!Invalidate
  <2>3. \A w \in Callers : load[w] = "init" => w = c
    BY <2>2, InitIsAlone
  <2>4. Need(c)' <= Need(c)
    <3>1. CASE Begin(c)
      BY <1>0, <1>a, <3>1 DEF Begin, Session!Begin, Session!Goto, Need
    <3>2. CASE Talk(c)
      <4>1. pc'[c] # "idle" /\ http'[c] = IF pc'[c] \in OnWire THEN HttpTimeout ELSE 0
        BY <1>0, <3>2 DEF Talk
      <4>2. \/ pc[c] = "fresh" /\ pc'[c] \in {"wantGate", "take"}
            \/ pc[c] = "wantGate" /\ pc'[c] = "recheck"
            \/ pc[c] = "wantGate401" /\ pc'[c] = "invalidate"
            \/ pc[c] = "recheck" /\ pc'[c] \in {"login", "take"}
            \/ pc[c] = "login" /\ pc'[c] = "bootstrap"
            \/ pc[c] = "bootstrap" /\ pc'[c] = "publish"
            \/ pc[c] = "publish" /\ pc'[c] = "take"
            \/ pc[c] = "take" /\ pc'[c] = "sync"
            \/ pc[c] = "invalidate" /\ pc'[c] \in {"login", "take"}
        BY <1>0, <3>2, <4>1 DEF Talk, Session!CheckFresh, Session!GrantGate, Session!Recheck, Session!LoginReply,
           Session!Bootstrap, Session!Publish, Session!Take, Session!Invalidate, Session!RefreshVia, Session!End,
           Session!Goto
      <4> QED BY <1>0, <1>a, <4>1, <4>2 DEF Need, OnWire
    <3> QED BY <1>5, <3>1, <3>2
  <2>5. UNCHANGED load /\ (Cell!Fresh' <=> Cell!Fresh) /\ Open' = Open
    BY <2>1 DEF cell, Cell!Fresh, Open
  <2>6. Need(c) \in Nat /\ Need(c)' \in Nat
    BY <1>a, <2>1, NeedType DEF Need
  <2>7. \A d \in Open' \ hurt' : \A w \in Callers : load'[w] = "init" => left'[d] > Need(w)'
    <3> SUFFICES ASSUME NEW d \in Open \ hurt PROVE left[d] > Need(c)'
      BY <2>1, <2>3, <2>5
    <3>1. left[d] > Need(c) /\ left[d] \in Nat
      BY <1>0, <1>a, <2>2 DEF BudgetInv, Open
    <3> QED BY <2>4, <2>6, <3>1
  <2>8. load'[c] = "init"
    BY <2>2, <2>5
  <2> QED BY <1>0, <2>1, <2>7, <2>8 DEF BudgetInv
<1>6. ASSUME NEW c \in Callers, Refused(c) PROVE BudgetInv'
  <2>1. hurt' = hurt \cup Open /\ Open' = Open /\ UNCHANGED <<left, cut>> /\ http' = [http EXCEPT ![c] = 0]
    BY <1>6 DEF Refused, cell, Open
  <2> QED BY <1>0, <1>a, <2>1, AllHurt
<1>7. ASSUME NEW c \in Callers, NEW ok \in BOOLEAN, Finish(c, ok),
             http' \in {http, [http EXCEPT ![c] = 0]}, UNCHANGED cut
      PROVE  BudgetInv'
  <2>1. /\ load[c] = "init" /\ load' = [load EXCEPT ![c] = "idle"]
        /\ left' = [left EXCEPT ![c] = 0]
        /\ hurt' = IF ok THEN hurt ELSE hurt \cup Open
        /\ ok => val' # NoValue /\ age' = 0
    BY <1>7, FinishMoves
  <2>2. left' \in [Callers -> 0..RequestTimeout] /\ http' \in [Callers -> 0..HttpTimeout] /\ cut' \subseteq hurt'
    BY <1>0, <1>7, <1>a, <2>1
  <2>3. Open' = Open \ {c}
    BY <1>0, <2>1 DEF Open, LoadStates
  <2>4. CASE ~ok
    <3>1. Open' \subseteq hurt'
      BY <2>1, <2>3, <2>4
    <3> QED BY <2>2, <3>1, AllHurt
  <2>5. CASE ok
    <3>1. hurt' = hurt /\ Cell!Fresh'
      BY <2>1, <2>5, ProviderAssumption DEF Cell!Fresh
    <3>2. \A w \in Callers : load'[w] # "init"
      BY <1>0, <2>1, InitIsAlone
    <3>3. ASSUME NEW d \in Open' \ hurt' PROVE left'[d] > 0
      <4>1. d \in Open \ hurt /\ d # c /\ d \in Callers
        BY <2>3, <3>1 DEF Open
      <4>2. left[d] > Need(c) /\ left[d] \in Nat /\ Need(c) \in Nat
        BY <1>0, <1>a, <2>1, <4>1, NeedType DEF BudgetInv
      <4> QED BY <1>0, <2>1, <4>1, <4>2
    <3> QED BY <2>2, <3>1, <3>2, <3>3 DEF BudgetInv
  <2> QED BY <2>4, <2>5
<1>8. ASSUME NEW c \in Callers, BuildFails(c) \/ FetchEnds(c) \/ FetchFails(c) PROVE BudgetInv'
  <2>1. CASE BuildFails(c)
    BY <1>7, <2>1 DEF BuildFails
  <2>2. CASE FetchEnds(c)
    BY <1>7, <2>2 DEF FetchEnds
  <2>3. CASE FetchFails(c)
    BY <1>7, <2>3 DEF FetchFails
  <2> QED BY <1>8, <2>1, <2>2, <2>3
<1>9. ASSUME NEW c \in Callers, Deadline(c) PROVE BudgetInv'
  <2>1. load[c] # "idle" /\ left[c] = 0 /\ load' = [load EXCEPT ![c] = "idle"] /\ http' = [http EXCEPT ![c] = 0]
        /\ cut' = cut \cup {c} /\ hurt' = hurt \cup (Open \ {c}) /\ UNCHANGED left
    BY <1>9 DEF Deadline, Cell!Cancel, Cell!Goto
  <2>2. c \in hurt
    BY <2>1, DeadlineIsHurt DEF Open
  <2>3. Open' \subseteq hurt'
    BY <1>0, <2>1 DEF Open
  <2> QED BY <1>0, <1>a, <2>1, <2>2, <2>3, AllHurt
<1> QED BY <1>1, <1>2, <1>3, <1>4, <1>5, <1>6, <1>8, <1>9 DEF Next, Work

\* No request is cut off by its deadline unless it came late or saw a fetch refused,
\* failed or cut off, however many queue for the same refresh and however slowly the server
\* answers within its timeouts.
THEOREM NeedlessCutNever == Spec => []CutOnlyInTrouble
<1>1. BudgetInv => CutOnlyInTrouble
  BY DEF BudgetInv, CutOnlyInTrouble
<1> QED BY <1>1, CellInit, CellStep, TokenInit, TokenStep, BudgetInit, BudgetStep, PTL DEF Spec

-----------------------------------------------------------------------------
(* The whole type invariant: the types of the cell and of the session hold *)
(* along the steps of each, which are all the composition takes.           *)

LEMMA CellWithout == \A q, c : Cell!Without(q, c) = Without(q, c)
BY DEF Cell!Without, Without, Cell!RemoveAt, RemoveAt

LEMMA SessionWithout == \A q, c : Session!Without(q, c) = Without(q, c)
BY DEF Session!Without, Without, Session!RemoveAt, RemoveAt

WaitersTyped == waiters \in Seq(Callers)

LEMMA WaitersStep == CellInv /\ WaitersTyped /\ [Next]_vars => WaitersTyped'
<1> SUFFICES ASSUME CellInv, waiters \in Seq(Callers), [Cell!Next]_Cell!vars PROVE waiters' \in Seq(Callers)
  BY CellSteps DEF WaitersTyped
<1>1. ASSUME NEW c \in Callers
      PROVE  Append(waiters, c) \in Seq(Callers) /\ Cell!Without(waiters, c) \in Seq(Callers)
  BY WithoutType, CellWithout
<1>2. waiters # <<>> => Tail(waiters) \in Seq(Callers)
  OBVIOUS
<1> QED BY <1>1, <1>2 DEF Cell!Next, Cell!Progress, Cell!Tick, Cell!Grant, Cell!Call, Cell!CheckRead, Cell!Recheck,
           Cell!FinishInit, Cell!Cancel, Cell!Request, Cell!Return, Cell!vars

\* The names the session works with: a call that has sent a request holds the
\* token it has sent.
NamesTyped ==
  /\ token \in Tokens \cup {None} /\ exp \in 0..MaxLife \cup {None}
  /\ pc \in [Callers -> SyncStates]
  /\ tok \in [Callers -> Tokens \cup {None}]
  /\ held \in [Callers -> [token : Tokens \cup {None}, left : 0..MaxLife]]
  /\ \A c \in Callers : pc[c] = "sync" => tok[c] # None

LEMMA NamesStep == NamesTyped /\ [Next]_vars => NamesTyped'
<1> SUFFICES ASSUME NamesTyped, [Session!Next]_Session!vars PROVE NamesTyped'
  BY SessionSteps
<1>h. 0 \in 0..MaxLife /\ Session!NoResponse \in [token : Tokens \cup {None}, left : 0..MaxLife]
  BY ProviderAssumption DEF Session!NoResponse
<1>1. CASE UNCHANGED Session!vars \/ \E t \in Tokens : Session!Revoke(t)
  BY <1>1 DEF Session!vars, Session!Revoke, Session!authVars, NamesTyped
<1>2. CASE Session!Tick
  <2>1. \A n \in 0..MaxLife : Session!Down(n) \in 0..MaxLife
    BY ProviderAssumption DEF Session!Down
  <2>2. exp' \in 0..MaxLife \cup {None}
    BY <1>2, <2>1 DEF Session!Tick, NamesTyped, Session!Down
  <2>3. held' \in [Callers -> [token : Tokens \cup {None}, left : 0..MaxLife]]
    BY <1>2, <2>1 DEF Session!Tick, NamesTyped
  <2> QED BY <1>2, <2>2, <2>3 DEF Session!Tick, NamesTyped
<1>3. ASSUME NEW c \in Callers, Session!End(c), token' \in {token, None}, exp' \in {exp, None} PROVE NamesTyped'
  BY <1>h, <1>3 DEF Session!End, Session!Goto, NamesTyped, SyncStates
<1>4. ASSUME NEW c \in Callers, NEW to \in SyncStates \ {"sync"}, Session!Goto(c, to), UNCHANGED tok,
             token' \in Tokens \cup {None}, exp' \in 0..MaxLife \cup {None},
             held' \in [Callers -> [token : Tokens \cup {None}, left : 0..MaxLife]]
      PROVE  NamesTyped'
  BY <1>4 DEF Session!Goto, NamesTyped
<1>5. ASSUME NEW c \in Callers,
             Session!Begin(c) \/ Session!CheckFresh(c) \/ Session!GrantGate(c)
             \/ Session!Recheck(c) \/ Session!Bootstrap(c) \/ Session!Sync401(c)
      PROVE  NamesTyped'
  <2>1. UNCHANGED <<token, exp, tok, held>>
    BY <1>5 DEF Session!Begin, Session!CheckFresh, Session!GrantGate, Session!Recheck, Session!Bootstrap,
       Session!Sync401, Session!authVars
  <2>2. \E to \in SyncStates \ {"sync"} : Session!Goto(c, to)
    BY <1>5 DEF Session!Begin, Session!CheckFresh, Session!GrantGate, Session!Recheck, Session!Bootstrap,
       Session!Sync401, SyncStates
  <2> QED BY <1>4, <2>1, <2>2 DEF NamesTyped
<1>6. ASSUME NEW c \in Callers, Session!LoginReply(c) PROVE NamesTyped'
  <2>1. Session!NewToken \in Tokens
    BY <1>6 DEF Session!LoginReply, Session!NewToken
  <2>2. held' \in [Callers -> [token : Tokens \cup {None}, left : 0..MaxLife]]
    BY <1>6, <2>1 DEF Session!LoginReply, NamesTyped
  <2>3. UNCHANGED <<token, exp, tok>> /\ Session!Goto(c, "bootstrap")
    BY <1>6 DEF Session!LoginReply, Session!authVars
  <2> QED BY <1>4, <2>2, <2>3 DEF NamesTyped, SyncStates
<1>7. ASSUME NEW c \in Callers, Session!Publish(c) PROVE NamesTyped'
  <2>1. token' \in Tokens \cup {None} /\ exp' \in 0..MaxLife
    BY <1>7 DEF Session!Publish, NamesTyped
  <2>2. held' \in [Callers -> [token : Tokens \cup {None}, left : 0..MaxLife]]
    BY <1>h, <1>7 DEF Session!Publish, NamesTyped
  <2>3. UNCHANGED tok /\ Session!Goto(c, "take")
    BY <1>7 DEF Session!Publish
  <2> QED BY <1>4, <2>1, <2>2, <2>3 DEF SyncStates
<1>8. ASSUME NEW c \in Callers, Session!LoginFails(c) \/ Session!SyncOk(c) \/ Session!SyncFails(c) PROVE NamesTyped'
  BY <1>3, <1>8 DEF Session!LoginFails, Session!SyncOk, Session!SyncFails, Session!authVars
<1>9. ASSUME NEW c \in Callers, Session!Take(c) PROVE NamesTyped'
  <2>1. CASE token = None
    BY <1>3, <1>9, <2>1 DEF Session!Take, Session!authVars
  <2>2. CASE token # None
    <3>1. UNCHANGED <<token, exp, held>> /\ Session!Goto(c, "sync") /\ tok' = [tok EXCEPT ![c] = token]
      BY <1>9, <2>2 DEF Session!Take, Session!authVars
    <3> QED BY <2>2, <3>1 DEF Session!Goto, NamesTyped, SyncStates
  <2> QED BY <2>1, <2>2
<1>10. ASSUME NEW c \in Callers, Session!Invalidate(c) PROVE NamesTyped'
  <2>1. token' \in {token, None} /\ exp' \in {exp, None}
    BY <1>10 DEF Session!Invalidate, Session!ClearExp
  <2>2. CASE Session!LastAttempt(c)
    BY <1>3, <1>10, <2>1, <2>2 DEF Session!Invalidate
  <2>3. CASE ~Session!LastAttempt(c)
    <3>1. UNCHANGED <<tok, held>> /\ \E to \in {"login", "take"} : Session!Goto(c, to)
      BY <1>10, <2>3 DEF Session!Invalidate, Session!RefreshVia
    <3> QED BY <1>4, <2>1, <3>1 DEF NamesTyped, SyncStates
  <2> QED BY <2>2, <2>3
<1>11. ASSUME NEW c \in Callers, Session!Cancel(c) PROVE NamesTyped'
  BY <1>h, <1>11 DEF Session!Cancel, Session!Goto, Session!authVars, NamesTyped, SyncStates
<1> QED BY <1>1, <1>2, <1>5, <1>6, <1>7, <1>8, <1>9, <1>10, <1>11 DEF Session!Next, Session!Progress

\* The gate is held by exactly the calls between its acquisition and its release.
GateHeld ==
  /\ gate \in Callers \cup {None}
  /\ \A c \in Callers : gate = c <=> pc[c] \in {"recheck", "login", "bootstrap", "publish", "invalidate"}

LEMMA GateStep == NamesTyped /\ GateHeld /\ [Next]_vars => GateHeld'
<1> SUFFICES ASSUME NamesTyped, GateHeld, [Session!Next]_Session!vars PROVE GateHeld'
  BY SessionSteps
<1>0. pc \in [Callers -> SyncStates] /\ None \notin Callers
  BY ProviderAssumption DEF NamesTyped
<1>1. CASE Session!Tick \/ (\E t \in Tokens : Session!Revoke(t)) \/ UNCHANGED Session!vars
  BY <1>1 DEF GateHeld, Session!Tick, Session!Revoke, Session!gateVars, Session!vars
<1>2. ASSUME NEW c \in Callers, Session!End(c) PROVE GateHeld'
  BY <1>0, <1>2 DEF GateHeld, Session!End, Session!Goto, Session!Leave, SyncStates
<1>3. ASSUME NEW c \in Callers, Session!Begin(c) PROVE GateHeld'
  BY <1>0, <1>3 DEF GateHeld, Session!Begin, Session!Goto, Session!gateVars, SyncStates
<1>4. ASSUME NEW c \in Callers, Session!LoginReply(c) \/ Session!Bootstrap(c) PROVE GateHeld'
  <2>1. gate' = gate /\ pc[c] \in {"login", "bootstrap"} /\ \E to \in {"bootstrap", "publish"} : Session!Goto(c, to)
    BY <1>4 DEF Session!LoginReply, Session!Bootstrap, Session!gateVars
  <2> QED BY <1>0, <2>1 DEF GateHeld, Session!Goto, SyncStates
<1>5. ASSUME NEW c \in Callers, Session!Publish(c) PROVE GateHeld'
  BY <1>0, <1>5 DEF GateHeld, Session!Publish, Session!Goto, Session!Leave, SyncStates
<1>6. ASSUME NEW c \in Callers, Session!CheckFresh(c) \/ Session!Recheck(c) PROVE GateHeld'
  <2>1. CASE Session!Stale
    BY <1>0, <1>6, <2>1 DEF GateHeld, Session!CheckFresh, Session!Recheck, Session!Goto, Session!Enter,
       Session!gateVars, SyncStates
  <2>2. CASE ~Session!Stale
    BY <1>0, <1>6, <2>2 DEF GateHeld, Session!CheckFresh, Session!Recheck, Session!Goto, Session!Leave,
       Session!gateVars, SyncStates
  <2> QED BY <2>1, <2>2
<1>7. ASSUME NEW c \in Callers, Session!GrantGate(c) PROVE GateHeld'
  BY <1>0, <1>7 DEF GateHeld, Session!GrantGate, Session!Goto, SyncStates
<1>8. ASSUME NEW c \in Callers, Session!LoginFails(c) \/ Session!SyncOk(c) \/ Session!SyncFails(c) PROVE GateHeld'
  BY <1>2, <1>8 DEF Session!LoginFails, Session!SyncOk, Session!SyncFails
<1>9. ASSUME NEW c \in Callers, Session!Take(c) PROVE GateHeld'
  <2>1. CASE token = None
    BY <1>2, <1>9, <2>1 DEF Session!Take
  <2>2. CASE token # None
    BY <1>0, <1>9, <2>2 DEF GateHeld, Session!Take, Session!Goto, Session!gateVars, SyncStates
  <2> QED BY <2>1, <2>2
<1>10. ASSUME NEW c \in Callers, Session!Sync401(c) PROVE GateHeld'
  BY <1>0, <1>10 DEF GateHeld, Session!Sync401, Session!Goto, Session!Enter, SyncStates
<1>11. ASSUME NEW c \in Callers, Session!Invalidate(c) PROVE GateHeld'
  <2>1. CASE Session!LastAttempt(c)
    BY <1>2, <1>11, <2>1 DEF Session!Invalidate
  <2>2. CASE ~Session!LastAttempt(c)
    BY <1>0, <1>11, <2>2 DEF GateHeld, Session!Invalidate, Session!RefreshVia, Session!Goto, Session!Leave,
       Session!gateVars, SyncStates
  <2> QED BY <2>1, <2>2
<1>12. ASSUME NEW c \in Callers, Session!Cancel(c) PROVE GateHeld'
  BY <1>0, <1>12 DEF GateHeld, Session!Cancel, Session!Goto, SyncStates
<1> QED
  BY <1>1, <1>3, <1>4, <1>5, <1>6, <1>7, <1>8, <1>9, <1>10, <1>11, <1>12 DEF Session!Next, Session!Progress

\* What the rest of the state depends on only through its type.
RestTyped ==
  /\ crypto \in BOOLEAN /\ keys \in BOOLEAN
  /\ queue \in Seq(Callers)
  /\ att \in [Callers -> {0, 1}]
  /\ missed \subseteq Callers /\ valid \subseteq Tokens /\ rejected \subseteq Tokens

LEMMA EndRest ==
  ASSUME RestTyped, NEW c \in Callers, Session!End(c), UNCHANGED <<crypto, keys, Session!serverVars>>,
         missed' \subseteq Callers
  PROVE  RestTyped'
BY DEF RestTyped, Session!End, Session!Leave, Session!serverVars

LEMMA RestStep == NamesTyped /\ RestTyped /\ [Next]_vars => RestTyped'
<1> SUFFICES ASSUME NamesTyped, RestTyped, [Session!Next]_Session!vars PROVE RestTyped'
  BY SessionSteps
<1> USE DEF Session!authVars, Session!gateVars, Session!serverVars
<1>1. CASE Session!Tick \/ UNCHANGED Session!vars
  BY <1>1 DEF RestTyped, Session!Tick, Session!vars
<1>2. ASSUME NEW t \in Tokens, Session!Revoke(t) PROVE RestTyped'
  BY <1>2 DEF RestTyped, Session!Revoke
<1>3. ASSUME NEW c \in Callers PROVE Append(queue, c) \in Seq(Callers) /\ Session!Without(queue, c) \in Seq(Callers)
  BY WithoutType, SessionWithout DEF RestTyped
<1>4. ASSUME NEW c \in Callers, Session!Begin(c) \/ Session!Bootstrap(c) \/ Session!Publish(c) PROVE RestTyped'
  BY <1>4 DEF RestTyped, Session!Begin, Session!Bootstrap, Session!Publish, Session!Leave
<1>5. ASSUME NEW c \in Callers, Session!CheckFresh(c) \/ Session!Recheck(c) PROVE RestTyped'
  <2>1. queue' \in {queue, Append(queue, c)} /\ UNCHANGED <<Session!authVars, Session!serverVars, att, missed>>
    BY <1>5 DEF Session!CheckFresh, Session!Recheck, Session!Enter, Session!Leave
  <2> QED BY <1>3, <2>1 DEF RestTyped
<1>6. ASSUME NEW c \in Callers, Session!GrantGate(c) PROVE RestTyped'
  <2>1. Tail(queue) \in Seq(Callers)
    BY <1>6 DEF RestTyped, Session!GrantGate
  <2> QED BY <1>6, <2>1 DEF RestTyped, Session!GrantGate
<1>7. ASSUME NEW c \in Callers, Session!LoginReply(c) PROVE RestTyped'
  BY <1>7 DEF RestTyped, Session!LoginReply, Session!NewToken
<1>8. ASSUME NEW c \in Callers, Session!LoginFails(c) \/ Session!SyncOk(c) \/ Session!SyncFails(c) PROVE RestTyped'
  BY <1>8, EndRest DEF RestTyped, Session!LoginFails, Session!SyncOk, Session!SyncFails
<1>9. ASSUME NEW c \in Callers, Session!Take(c) PROVE RestTyped'
  <2>1. CASE token = None
    BY <1>9, <2>1, EndRest DEF RestTyped, Session!Take
  <2>2. CASE token # None
    BY <1>9, <2>2 DEF RestTyped, Session!Take
  <2> QED BY <2>1, <2>2
<1>10. ASSUME NEW c \in Callers, Session!Sync401(c) PROVE RestTyped'
  <2>1. tok[c] \in Tokens
    BY <1>10 DEF Session!Sync401, NamesTyped
  <2> QED BY <1>3, <1>10, <2>1 DEF RestTyped, Session!Sync401, Session!Enter
<1>11. ASSUME NEW c \in Callers, Session!Invalidate(c) PROVE RestTyped'
  <2>1. UNCHANGED <<crypto, keys, Session!serverVars, missed>>
    BY <1>11 DEF Session!Invalidate
  <2>2. CASE Session!LastAttempt(c)
    BY <1>11, <2>1, <2>2, EndRest DEF RestTyped, Session!Invalidate
  <2>3. CASE ~Session!LastAttempt(c)
    <3>1. att[c] = 0 /\ att' = [att EXCEPT ![c] = att[c] + 1] /\ UNCHANGED <<queue, missed>>
      BY <1>11, <2>3 DEF RestTyped, Session!Invalidate, Session!LastAttempt, Session!RefreshVia, Session!Leave
    <3>2. att' \in [Callers -> {0, 1}]
      BY <3>1 DEF RestTyped
    <3> QED BY <2>1, <3>1, <3>2 DEF RestTyped
  <2> QED BY <2>2, <2>3
<1>12. ASSUME NEW c \in Callers, Session!Cancel(c) PROVE RestTyped'
  BY <1>3, <1>12 DEF RestTyped, Session!Cancel
<1> QED
  BY <1>1, <1>2, <1>4, <1>5, <1>6, <1>7, <1>8, <1>9, <1>10, <1>11, <1>12 DEF Session!Next, Session!Progress

FlagsTyped == built \in BOOLEAN /\ healthy \in BOOLEAN /\ hurt \subseteq Callers

LEMMA FlagsStep == FlagsTyped /\ [Next]_vars => FlagsTyped'
<1> SUFFICES ASSUME FlagsTyped, [Next]_vars PROVE FlagsTyped'
  OBVIOUS
<1>0. Open \subseteq Callers
  BY DEF Open
<1>1. CASE Tick \/ Revoke \/ Recover \/ UNCHANGED vars
  BY <1>1 DEF Tick, Revoke, Recover, vars, FlagsTyped
<1>2. ASSUME NEW c \in Callers, Call(c) \/ Look(c) \/ Begin(c) \/ Talk(c) PROVE FlagsTyped'
  BY <1>2 DEF Call, Look, Begin, Talk, FlagsTyped
<1>3. ASSUME NEW c \in Callers, Refused(c) \/ Deadline(c) PROVE FlagsTyped'
  BY <1>0, <1>3 DEF Refused, Deadline, FlagsTyped
<1>4. ASSUME NEW c \in Callers, BuildFails(c) \/ FetchEnds(c) \/ FetchFails(c) PROVE FlagsTyped'
  <2>1. UNCHANGED <<built, healthy>> /\ hurt' \in {hurt, hurt \cup Open}
    BY <1>4, Zenon DEF BuildFails, FetchEnds, FetchFails, Finish
  <2> QED BY <1>0, <2>1 DEF FlagsTyped
<1> QED BY <1>1, <1>2, <1>3, <1>4 DEF Next, Work

LEMMA RestInit == Init => WaitersTyped /\ NamesTyped /\ GateHeld /\ RestTyped
<1> SUFFICES ASSUME Session!Init, waiters = <<>>
             PROVE  WaitersTyped /\ NamesTyped /\ GateHeld /\ RestTyped
  BY DEF Init, Cell!Init
<1>1. NamesTyped
  BY ProviderAssumption DEF Session!Init, Session!NoResponse, NamesTyped, SyncStates
<1>2. GateHeld
  BY ProviderAssumption DEF Session!Init, GateHeld
<1>3. RestTyped
  <2>1. /\ queue \in Seq(Callers) /\ att \in [Callers -> {0, 1}]
        /\ missed \subseteq Callers /\ valid \subseteq Tokens /\ rejected \subseteq Tokens
    BY DEF Session!Init
  <2>2. crypto \in BOOLEAN /\ keys \in BOOLEAN
    BY DEF Session!Init
  <2> QED BY <2>1, <2>2, Zenon DEF RestTyped
<1> QED BY <1>1, <1>2, <1>3 DEF WaitersTyped

\* Every variable of the composition keeps its type, those of the cell and of the
\* session included; the lock and the gate are held by exactly the requests inside
\* their sections, and only a request inside the initializer is inside sync().
THEOREM ProviderType == Spec => []TypeOK
<1>1. CellInv /\ WaitersTyped => Cell!TypeOK
  BY DEF CellInv, WaitersTyped, LoadStates, Cell!TypeOK
<1>2. NamesTyped /\ GateHeld /\ RestTyped => Session!TypeOK
  <2>1. NamesTyped => /\ token \in Tokens \cup {None} /\ exp \in 0..MaxLife \cup {None}
                      /\ pc \in [Callers -> SyncStates]
                      /\ tok \in [Callers -> Tokens \cup {None}]
                      /\ held \in [Callers -> [token : Tokens \cup {None}, left : 0..MaxLife]]
    BY DEF NamesTyped
  <2> QED BY <2>1, Zenon DEF GateHeld, RestTyped, Session!TypeOK, SyncStates
<1>3. Cell!TypeOK /\ Session!TypeOK /\ TokenInv /\ BudgetInv /\ FlagsTyped => TypeOK
  <2>1. BudgetInv /\ FlagsTyped => cut \subseteq Callers
    BY DEF BudgetInv, FlagsTyped
  <2> QED BY <2>1, Zenon DEF TokenInv, BudgetInv, FlagsTyped, TypeOK
<1>4. Init => FlagsTyped
  BY DEF Init, FlagsTyped
<1> QED
  BY <1>1, <1>2, <1>3, <1>4, RestInit, CellInit, CellStep, WaitersStep, TokenInit, TokenStep, BudgetInit, BudgetStep,
     NamesStep, GateStep, RestStep, FlagsStep, PTL DEF Spec

-----------------------------------------------------------------------------
(* The two queues.                                                         *)

LoadWaiters == {c \in Callers : load[c] \in {"wantRead", "wantWrite"}}
GateWaiters == {c \in Callers : pc[c] \in {"wantGate", "wantGate401"}}
LoadQueued == QueueOf(waiters, LoadWaiters)
GateQueued == QueueOf(queue, GateWaiters)

LEMMA QueuesInit == Init => LoadQueued /\ GateQueued
<1> SUFFICES ASSUME Init PROVE QueueOf(<<>>, {})
  BY DEF Init, Cell!Init, Session!Init, LoadQueued, GateQueued, LoadWaiters, GateWaiters
<1> QED BY DEF QueueOf, ToSet, IsInjective

LEMMA LoadQueueStep == CellInv /\ WaitersTyped /\ LoadQueued /\ [Next]_vars => LoadQueued'
<1> SUFFICES ASSUME CellInv, WaitersTyped, QueueOf(waiters, LoadWaiters), [Cell!Next]_Cell!vars
             PROVE  QueueOf(waiters', LoadWaiters')
  BY CellSteps DEF LoadQueued, QueueOf, IsInjective, ToSet
<1>0. load \in [Callers -> LoadStates] /\ waiters \in Seq(Callers)
  BY DEF CellInv, WaitersTyped
<1>1. ASSUME NEW c \in Callers, NEW to \in LoadStates, Cell!Goto(c, to)
      PROVE  LoadWaiters' = IF to \in {"wantRead", "wantWrite"} THEN LoadWaiters \cup {c} ELSE LoadWaiters \ {c}
  BY <1>0, <1>1 DEF LoadWaiters, Cell!Goto
<1>2. ASSUME NEW c \in Callers, NEW to \in {"wantRead", "wantWrite"}, Cell!Goto(c, to), Cell!Request(c),
             c \notin LoadWaiters
      PROVE  QueueOf(waiters', LoadWaiters')
  <2>1. LoadWaiters' = LoadWaiters \cup {c}
    BY <1>1, <1>2 DEF LoadStates
  <2> QED BY <1>0, <1>2, <2>1, AppendQueue DEF Cell!Request
<1>3. ASSUME NEW c \in Callers, NEW to \in {"init", "idle"}, Cell!Goto(c, to), UNCHANGED waiters,
             c \notin LoadWaiters
      PROVE  QueueOf(waiters', LoadWaiters')
  <2>1. LoadWaiters' = LoadWaiters
    BY <1>1, <1>3 DEF LoadStates
  <2> QED BY <1>3, <2>1
<1>4. CASE Cell!Tick \/ UNCHANGED Cell!vars
  BY <1>4 DEF Cell!Tick, Cell!vars, LoadWaiters
<1>5. ASSUME NEW c \in Callers, Cell!Call(c) PROVE QueueOf(waiters', LoadWaiters')
  BY <1>2, <1>5 DEF Cell!Call, LoadWaiters
<1>6. ASSUME NEW c \in Callers, Cell!Grant(c) PROVE QueueOf(waiters', LoadWaiters')
  <2>1. /\ waiters # <<>> /\ Head(waiters) = c /\ waiters' = Tail(waiters)
        /\ \E to \in {"read", "recheck"} : Cell!Goto(c, to)
    BY <1>6 DEF Cell!Grant
  <2>2. LoadWaiters' = LoadWaiters \ {c}
    BY <1>1, <2>1 DEF LoadStates
  <2> QED BY <1>0, <2>1, <2>2, TailQueue
<1>7. ASSUME NEW c \in Callers, Cell!CheckRead(c) PROVE QueueOf(waiters', LoadWaiters')
  <2>1. c \notin LoadWaiters
    BY <1>7 DEF Cell!CheckRead, LoadWaiters
  <2>2. \/ Cell!Goto(c, "idle") /\ UNCHANGED waiters
        \/ Cell!Goto(c, "wantWrite") /\ Cell!Request(c)
    BY <1>7 DEF Cell!CheckRead, Cell!Return
  <2> QED BY <1>2, <1>3, <2>1, <2>2
<1>8. ASSUME NEW c \in Callers, Cell!Recheck(c) \/ Cell!FinishInit(c) PROVE QueueOf(waiters', LoadWaiters')
  <2>1. c \notin LoadWaiters
    BY <1>8 DEF Cell!Recheck, Cell!FinishInit, LoadWaiters
  <2>2. UNCHANGED waiters /\ \E to \in {"init", "idle"} : Cell!Goto(c, to)
    BY <1>8 DEF Cell!Recheck, Cell!FinishInit, Cell!Return
  <2> QED BY <1>3, <2>1, <2>2
<1>9. ASSUME NEW c \in Callers, Cell!Cancel(c) PROVE QueueOf(waiters', LoadWaiters')
  <2>1. LoadWaiters' = LoadWaiters \ {c}
    BY <1>1, <1>9 DEF Cell!Cancel, LoadStates
  <2> QED BY <1>0, <1>9, <2>1, WithoutQueue, CellWithout DEF Cell!Cancel
<1> QED BY <1>4, <1>5, <1>6, <1>7, <1>8, <1>9 DEF Cell!Next, Cell!Progress

LEMMA GateQueueStep == NamesTyped /\ RestTyped /\ GateQueued /\ [Next]_vars => GateQueued'
<1> SUFFICES ASSUME NamesTyped, RestTyped, QueueOf(queue, GateWaiters), [Session!Next]_Session!vars
             PROVE  QueueOf(queue', GateWaiters')
  BY SessionSteps DEF GateQueued, QueueOf, IsInjective, ToSet
<1>0. pc \in [Callers -> SyncStates] /\ queue \in Seq(Callers)
  BY DEF NamesTyped, RestTyped
<1>1. ASSUME NEW c \in Callers, NEW to \in SyncStates, Session!Goto(c, to)
      PROVE  GateWaiters' = IF to \in {"wantGate", "wantGate401"} THEN GateWaiters \cup {c} ELSE GateWaiters \ {c}
  BY <1>0, <1>1 DEF GateWaiters, Session!Goto
<1>2. ASSUME NEW c \in Callers, NEW to \in {"wantGate", "wantGate401"}, Session!Goto(c, to), Session!Enter(c),
             c \notin GateWaiters
      PROVE  QueueOf(queue', GateWaiters')
  <2>1. GateWaiters' = GateWaiters \cup {c}
    BY <1>1, <1>2 DEF SyncStates
  <2> QED BY <1>0, <1>2, <2>1, AppendQueue DEF Session!Enter
<1>3. ASSUME NEW c \in Callers, NEW to \in SyncStates \ {"wantGate", "wantGate401"}, Session!Goto(c, to),
             UNCHANGED queue, c \notin GateWaiters
      PROVE  QueueOf(queue', GateWaiters')
  <2>1. GateWaiters' = GateWaiters
    BY <1>1, <1>3
  <2> QED BY <1>3, <2>1
<1>4. CASE Session!Tick \/ (\E t \in Tokens : Session!Revoke(t)) \/ UNCHANGED Session!vars
  BY <1>4 DEF Session!Tick, Session!Revoke, Session!vars, Session!gateVars, GateWaiters
<1>5. ASSUME NEW c \in Callers, Session!End(c), c \notin GateWaiters PROVE QueueOf(queue', GateWaiters')
  BY <1>3, <1>5 DEF Session!End, Session!Leave, SyncStates
<1>6. ASSUME NEW c \in Callers, Session!CheckFresh(c) \/ Session!Sync401(c) PROVE QueueOf(queue', GateWaiters')
  <2>1. c \notin GateWaiters
    BY <1>6 DEF Session!CheckFresh, Session!Sync401, GateWaiters
  <2>2. \/ \E to \in {"wantGate", "wantGate401"} : Session!Goto(c, to) /\ Session!Enter(c)
        \/ Session!Goto(c, "take") /\ UNCHANGED queue
    BY <1>6 DEF Session!CheckFresh, Session!Sync401, Session!gateVars
  <2> QED BY <1>2, <1>3, <2>1, <2>2 DEF SyncStates
<1>7. ASSUME NEW c \in Callers, Session!GrantGate(c) PROVE QueueOf(queue', GateWaiters')
  <2>1. /\ queue # <<>> /\ Head(queue) = c /\ queue' = Tail(queue)
        /\ \E to \in {"recheck", "invalidate"} : Session!Goto(c, to)
    BY <1>7 DEF Session!GrantGate
  <2>2. GateWaiters' = GateWaiters \ {c}
    BY <1>1, <2>1 DEF SyncStates
  <2> QED BY <1>0, <2>1, <2>2, TailQueue
<1>8. ASSUME NEW c \in Callers, Session!Begin(c) \/ Session!Recheck(c) \/ Session!LoginReply(c)
                                \/ Session!Bootstrap(c) \/ Session!Publish(c)
      PROVE  QueueOf(queue', GateWaiters')
  <2>1. c \notin GateWaiters /\ UNCHANGED queue
    BY <1>8 DEF Session!Begin, Session!Recheck, Session!LoginReply, Session!Bootstrap, Session!Publish,
       Session!Leave, Session!gateVars, GateWaiters
  <2>2. \E to \in SyncStates \ {"wantGate", "wantGate401"} : Session!Goto(c, to)
    BY <1>8 DEF Session!Begin, Session!Recheck, Session!LoginReply, Session!Bootstrap, Session!Publish, SyncStates
  <2> QED BY <1>3, <2>1, <2>2
<1>9. ASSUME NEW c \in Callers, Session!LoginFails(c) \/ Session!SyncOk(c) \/ Session!SyncFails(c) \/ Session!Take(c)
      PROVE  QueueOf(queue', GateWaiters')
  <2>1. c \notin GateWaiters
    BY <1>9 DEF Session!LoginFails, Session!SyncOk, Session!SyncFails, Session!Take, GateWaiters
  <2>2. Session!End(c) \/ (Session!Goto(c, "sync") /\ UNCHANGED queue)
    BY <1>9 DEF Session!LoginFails, Session!SyncOk, Session!SyncFails, Session!Take, Session!gateVars
  <2> QED BY <1>3, <1>5, <2>1, <2>2 DEF SyncStates
<1>10. ASSUME NEW c \in Callers, Session!Invalidate(c) PROVE QueueOf(queue', GateWaiters')
  <2>1. c \notin GateWaiters
    BY <1>10 DEF Session!Invalidate, GateWaiters
  <2>2. Session!End(c) \/ (UNCHANGED queue /\ \E to \in {"login", "take"} : Session!Goto(c, to))
    BY <1>10 DEF Session!Invalidate, Session!RefreshVia, Session!Leave, Session!gateVars
  <2> QED BY <1>3, <1>5, <2>1, <2>2 DEF SyncStates
<1>11. ASSUME NEW c \in Callers, Session!Cancel(c) PROVE QueueOf(queue', GateWaiters')
  <2>1. GateWaiters' = GateWaiters \ {c}
    BY <1>1, <1>11 DEF Session!Cancel, SyncStates
  <2> QED BY <1>0, <1>11, <2>1, WithoutQueue, SessionWithout DEF Session!Cancel
<1> QED BY <1>4, <1>6, <1>7, <1>8, <1>9, <1>10, <1>11 DEF Session!Next, Session!Progress

\* The first in a queue of waiters that is not empty.
LEMMA FirstWaiter ==
  ASSUME NEW q \in Seq(Callers), NEW W, QueueOf(q, W), W # {}
  PROVE  q # <<>> /\ Head(q) \in W
<1>1. q # <<>>
  BY DEF QueueOf, ToSet
<1> QED BY <1>1, TailQueue

\* Some request inside the provider can always go on: the lock order is the cell's
\* lock, then the gate, only one request at a time comes to the gate, and neither a
\* deadline nor an error leaves a lock or a place in a queue behind.
THEOREM DeadlockFree == Spec => []NoDeadlock
<1> DEFINE Locks == CellInv /\ WaitersTyped /\ LoadQueued /\ TokenInv /\ NamesTyped /\ GateHeld /\ RestTyped /\ GateQueued
<1>1. Locks => NoDeadlock
  <2> SUFFICES ASSUME Locks, NEW d \in Open,
                      \A c \in Open : c \in LoadWaiters \/ (load[c] = "init" /\ c \in GateWaiters)
               PROVE  \E c \in Open :
                        \/ c \in LoadWaiters /\ waiters # <<>> /\ Head(waiters) = c /\ writer = NoCaller /\ readers = {}
                        \/ /\ load[c] = "init" /\ c \in GateWaiters
                           /\ queue # <<>> /\ Head(queue) = c /\ gate = None
    BY DEF NoDeadlock, LoadWaiters, GateWaiters, Open, Fetching
  <2>1. CASE \E c \in Open : load[c] = "init"
    <3>1. PICK c \in Open : load[c] = "init"
      BY <2>1
    <3>2. c \in Callers /\ c \in GateWaiters /\ Alone(c)
      BY <3>1, InitIsAlone DEF Open, LoadWaiters
    <3>3. GateWaiters = {c}
      BY <3>2 DEF Alone, GateWaiters
    <3>4. queue # <<>> /\ Head(queue) = c
      <4>1. queue # <<>> /\ Head(queue) \in GateWaiters
        BY <3>2, FirstWaiter DEF RestTyped, GateQueued
      <4> QED BY <3>3, <4>1
    <3>5. gate = None
      BY <3>2 DEF GateHeld, Alone, GateWaiters
    <3> QED BY <3>1, <3>2, <3>4, <3>5
  <2>2. CASE ~\E c \in Open : load[c] = "init"
    <3>1. \A c \in Callers : load[c] = "idle" \/ c \in LoadWaiters
      BY <2>2 DEF Open
    <3>2. writer = NoCaller /\ readers = {}
      BY <3>1 DEF CellInv, LoadWaiters
    <3>3. waiters # <<>> /\ Head(waiters) \in LoadWaiters
      BY <3>1, FirstWaiter DEF WaitersTyped, LoadQueued, Open
    <3>4. Head(waiters) \in Open
      BY <3>3 DEF LoadWaiters, Open
    <3> QED BY <3>2, <3>3, <3>4
  <2> QED BY <2>1, <2>2
<1>2. Init => Locks
  BY CellInit, QueuesInit, RestInit, TokenInit
<1>3. Locks /\ [Next]_vars => Locks'
  BY CellStep, WaitersStep, LoadQueueStep, TokenStep, NamesStep, GateStep, RestStep, GateQueueStep
<1> QED BY <1>1, <1>2, <1>3, PTL DEF Spec
=============================================================================
