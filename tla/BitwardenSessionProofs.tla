----------------------- MODULE BitwardenSessionProofs -----------------------
(***************************************************************************)
(* Proofs about BitwardenSession, for any number of callers and any bounds *)
(* on tokens and lifetimes.                                                *)
(***************************************************************************)
EXTENDS BitwardenSession, WaitQueueProofs

States == {"idle", "fresh", "wantGate", "recheck", "login", "bootstrap", "publish",
           "take", "sync", "wantGate401", "invalidate"}

\* The part of the state that the publication of a token depends on.
AuthInv ==
  /\ token \in Tokens \cup {None} /\ exp \in 0..MaxLife \cup {None}
  /\ pc \in [Callers -> States]
  /\ tok \in [Callers -> Tokens \cup {None}]
  /\ held \in [Callers -> [token : Tokens \cup {None}, left : 0..MaxLife]]
  /\ AuthTogether
  /\ crypto => keys
  /\ \A c \in Callers :
       /\ pc[c] \in {"bootstrap", "publish"} => held[c].token # None
       /\ pc[c] = "publish" => keys
       /\ pc[c] \in {"sync", "wantGate401", "invalidate"} => tok[c] # None
       /\ pc[c] \in {"wantGate401", "invalidate"} => tok[c] \in rejected

LEMMA NewTokenName ==
  ASSUME \E t \in Tokens : t \notin Remembered
  PROVE  NewToken \in Tokens /\ NewToken \notin Remembered
BY DEF NewToken

LEMMA EndAuth ==
  ASSUME AuthInv, NEW c \in Callers, End(c), UNCHANGED <<authVars, serverVars>>
  PROVE  AuthInv'
BY SessionAssumption DEF AuthInv, End, Goto, authVars, serverVars, NoResponse, States, AuthTogether

LEMMA AuthStep == AuthInv /\ [Next]_vars => AuthInv'
<1> SUFFICES ASSUME AuthInv, [Next]_vars PROVE AuthInv'
  OBVIOUS
<1> USE SessionAssumption DEF Goto, authVars, serverVars, AuthTogether
<1>1. CASE UNCHANGED vars
  BY <1>1 DEF vars, AuthInv, States
<1>2. CASE Tick
  <2>1. \A n \in 0..MaxLife : Down(n) \in 0..MaxLife /\ n # None /\ Down(n) # None
    BY DEF Down
  <2>2. exp' \in 0..MaxLife \cup {None} /\ (exp' = None <=> exp = None)
    BY <1>2, <2>1 DEF Tick, AuthInv, Down
  <2>3. ASSUME NEW c \in Callers
        PROVE  held'[c] \in [token : Tokens \cup {None}, left : 0..MaxLife] /\ held'[c].token = held[c].token
    <3>1. held[c] \in [token : Tokens \cup {None}, left : 0..MaxLife]
      BY DEF AuthInv
    <3>2. Down(held[c].left) \in 0..MaxLife
      BY <3>1, <2>1
    <3>3. held'[c] = [token |-> held[c].token, left |-> Down(held[c].left)]
      BY <1>2 DEF Tick
    <3> QED BY <3>1, <3>2, <3>3
  <2>4. held' \in [Callers -> [token : Tokens \cup {None}, left : 0..MaxLife]]
    BY <1>2, <2>3 DEF Tick
  <2> QED BY <1>2, <2>2, <2>3, <2>4 DEF Tick, AuthInv
<1>3. ASSUME NEW t \in Tokens, Revoke(t) PROVE AuthInv'
  BY <1>3 DEF Revoke, AuthInv
<1>4. ASSUME NEW c \in Callers, Begin(c) \/ CheckFresh(c) \/ GrantGate(c) \/ Recheck(c) PROVE AuthInv'
  <2>1. UNCHANGED <<authVars, serverVars, tok, held>>
    BY <1>4 DEF Begin, CheckFresh, GrantGate, Recheck
  <2>2. \/ \E to \in {"fresh", "wantGate", "take", "recheck", "login"} : pc' = [pc EXCEPT ![c] = to]
        \/ pc[c] = "wantGate401" /\ pc' = [pc EXCEPT ![c] = "invalidate"]
    BY <1>4 DEF Begin, CheckFresh, GrantGate, Recheck
  <2> QED BY <2>1, <2>2 DEF AuthInv, States
<1>5. ASSUME NEW c \in Callers, LoginReply(c) PROVE AuthInv'
  <2>0. NewToken \in Tokens /\ NewToken # None
    BY <1>5, NewTokenName DEF LoginReply
  <2>1. PICK life \in 0..MaxLife : held' = [held EXCEPT ![c] = [token |-> NewToken, left |-> life]]
    BY <1>5 DEF LoginReply
  <2>2. held' \in [Callers -> [token : Tokens \cup {None}, left : 0..MaxLife]]
    BY <2>0, <2>1 DEF AuthInv
  <2>3. \A d \in Callers : pc'[d] \in {"bootstrap", "publish"} => held'[d].token # None
    BY <1>5, <2>0, <2>1 DEF LoginReply, AuthInv
  <2>4. \A d \in Callers : tok[d] \in rejected => tok'[d] \in rejected'
    BY <1>5 DEF LoginReply, Remembered
  <2>5. pc[c] = "login" /\ pc' = [pc EXCEPT ![c] = "bootstrap"] /\ UNCHANGED <<token, exp, crypto, keys, tok>>
    BY <1>5 DEF LoginReply
  <2> QED BY <2>2, <2>3, <2>4, <2>5 DEF AuthInv, States
<1>6. ASSUME NEW c \in Callers, Bootstrap(c) PROVE AuthInv'
  BY <1>6 DEF Bootstrap, AuthInv, States
<1>7. ASSUME NEW c \in Callers, Publish(c) PROVE AuthInv'
  <2>1. held' \in [Callers -> [token : Tokens \cup {None}, left : 0..MaxLife]]
        /\ \A d \in Callers : d # c => held'[d] = held[d]
    BY <1>7 DEF Publish, AuthInv, NoResponse
  <2>2. token' \in Tokens /\ exp' \in 0..MaxLife /\ crypto' /\ keys'
    BY <1>7 DEF Publish, AuthInv
  <2> QED BY <1>7, <2>1, <2>2 DEF Publish, AuthInv, States
<1>8. ASSUME NEW c \in Callers, LoginFails(c) \/ SyncOk(c) \/ SyncFails(c) PROVE AuthInv'
  BY <1>8, EndAuth DEF LoginFails, SyncOk, SyncFails
<1>9. ASSUME NEW c \in Callers, Take(c) PROVE AuthInv'
  <2>1. CASE token = None
    BY <1>9, <2>1, EndAuth DEF Take
  <2>2. CASE token # None
    <3>1. UNCHANGED <<authVars, rejected, held>> /\ pc' = [pc EXCEPT ![c] = "sync"] /\ tok' = [tok EXCEPT ![c] = token]
      BY <1>9, <2>2 DEF Take
    <3>2. token \in Tokens
      BY <2>2 DEF AuthInv
    <3> QED BY <2>2, <3>1, <3>2 DEF AuthInv, States
  <2> QED BY <2>1, <2>2
<1>10. ASSUME NEW c \in Callers, Sync401(c) PROVE AuthInv'
  BY <1>10 DEF Sync401, AuthInv, States
<1>11. ASSUME NEW c \in Callers, Invalidate(c) PROVE AuthInv'
  <2>1. (token' = None <=> exp' = None) /\ (token' # None => token' = token)
        /\ token' \in Tokens \cup {None} /\ exp' \in 0..MaxLife \cup {None}
    BY <1>11 DEF Invalidate, ClearExp, Rejected, AuthInv
  <2>2. UNCHANGED <<crypto, keys, serverVars>> /\ pc[c] = "invalidate"
    BY <1>11 DEF Invalidate
  <2>3. CASE LastAttempt(c)
    <3>1. End(c)
      BY <1>11, <2>3 DEF Invalidate
    <3> QED BY <2>1, <2>2, <3>1 DEF End, AuthInv, NoResponse, States
  <2>4. CASE ~LastAttempt(c)
    <3>1. UNCHANGED <<tok, held>> /\ \E to \in {"login", "take"} : pc' = [pc EXCEPT ![c] = to]
      BY <1>11, <2>4 DEF Invalidate, RefreshVia
    <3> QED BY <2>1, <2>2, <3>1 DEF AuthInv, States
  <2> QED BY <2>3, <2>4
<1>12. ASSUME NEW c \in Callers, Cancel(c) PROVE AuthInv'
  BY <1>12 DEF Cancel, AuthInv, NoResponse, States
<1> QED
  BY <1>1, <1>2, <1>3, <1>4, <1>5, <1>6, <1>7, <1>8, <1>9, <1>10, <1>11, <1>12 DEF Next, Progress

LEMMA AuthInit == Init => AuthInv
BY SessionAssumption DEF Init, AuthInv, AuthTogether, NoResponse, States

-----------------------------------------------------------------------------
(* The whole type invariant.                                               *)

\* The gate is held by exactly the calls between its acquisition and its release.
GateHeld ==
  /\ gate \in Callers \cup {None}
  /\ \A c \in Callers : gate = c <=> pc[c] \in {"recheck", "login", "bootstrap", "publish", "invalidate"}

LEMMA GateStep == AuthInv /\ GateHeld /\ [Next]_vars => GateHeld'
<1> SUFFICES ASSUME AuthInv, GateHeld, [Next]_vars PROVE GateHeld'
  OBVIOUS
<1>0. pc \in [Callers -> States] /\ None \notin Callers
  BY SessionAssumption DEF AuthInv
<1>1. CASE Tick \/ (\E t \in Tokens : Revoke(t)) \/ UNCHANGED vars
  BY <1>1 DEF GateHeld, Tick, Revoke, gateVars, vars
<1>2. ASSUME NEW c \in Callers, End(c) PROVE GateHeld'
  BY <1>0, <1>2 DEF GateHeld, End, Goto, Leave, States
<1>3. ASSUME NEW c \in Callers, Begin(c) PROVE GateHeld'
  BY <1>0, <1>3 DEF GateHeld, Begin, Goto, gateVars, States
<1>4. ASSUME NEW c \in Callers, LoginReply(c) \/ Bootstrap(c) PROVE GateHeld'
  <2>1. gate' = gate /\ pc[c] \in {"login", "bootstrap"} /\ \E to \in {"bootstrap", "publish"} : Goto(c, to)
    BY <1>4 DEF LoginReply, Bootstrap, gateVars
  <2> QED BY <1>0, <2>1 DEF GateHeld, Goto, States
<1>5. ASSUME NEW c \in Callers, Publish(c) PROVE GateHeld'
  BY <1>0, <1>5 DEF GateHeld, Publish, Goto, Leave, States
<1>6. ASSUME NEW c \in Callers, CheckFresh(c) \/ Recheck(c) PROVE GateHeld'
  <2>1. CASE Stale
    BY <1>0, <1>6, <2>1 DEF GateHeld, CheckFresh, Recheck, Goto, Enter, gateVars, States
  <2>2. CASE ~Stale
    BY <1>0, <1>6, <2>2 DEF GateHeld, CheckFresh, Recheck, Goto, Leave, gateVars, States
  <2> QED BY <2>1, <2>2
<1>7. ASSUME NEW c \in Callers, GrantGate(c) PROVE GateHeld'
  BY <1>0, <1>7 DEF GateHeld, GrantGate, Goto, States
<1>8. ASSUME NEW c \in Callers, LoginFails(c) \/ SyncOk(c) \/ SyncFails(c) PROVE GateHeld'
  BY <1>2, <1>8 DEF LoginFails, SyncOk, SyncFails
<1>9. ASSUME NEW c \in Callers, Take(c) PROVE GateHeld'
  <2>1. CASE token = None
    BY <1>2, <1>9, <2>1 DEF Take
  <2>2. CASE token # None
    BY <1>0, <1>9, <2>2 DEF GateHeld, Take, Goto, gateVars, States
  <2> QED BY <2>1, <2>2
<1>10. ASSUME NEW c \in Callers, Sync401(c) PROVE GateHeld'
  BY <1>0, <1>10 DEF GateHeld, Sync401, Goto, Enter, States
<1>11. ASSUME NEW c \in Callers, Invalidate(c) PROVE GateHeld'
  <2>1. CASE LastAttempt(c)
    BY <1>2, <1>11, <2>1 DEF Invalidate
  <2>2. CASE ~LastAttempt(c)
    BY <1>0, <1>11, <2>2 DEF GateHeld, Invalidate, RefreshVia, Goto, Leave, gateVars, States
  <2> QED BY <2>1, <2>2
<1>12. ASSUME NEW c \in Callers, Cancel(c) PROVE GateHeld'
  BY <1>0, <1>12 DEF GateHeld, Cancel, Goto, States
<1> QED
  BY <1>1, <1>3, <1>4, <1>5, <1>6, <1>7, <1>8, <1>9, <1>10, <1>11, <1>12 DEF Next, Progress

\* What the rest of the state depends on only through its type.
RestTyped ==
  /\ crypto \in BOOLEAN /\ keys \in BOOLEAN
  /\ queue \in Seq(Callers)
  /\ att \in [Callers -> {0, 1}]
  /\ missed \subseteq Callers /\ valid \subseteq Tokens /\ rejected \subseteq Tokens

LEMMA EndRest ==
  ASSUME RestTyped, NEW c \in Callers, End(c), UNCHANGED <<crypto, keys, serverVars>>,
         missed' \subseteq Callers
  PROVE  RestTyped'
BY DEF RestTyped, End, Leave, serverVars

LEMMA RestStep == AuthInv /\ RestTyped /\ [Next]_vars => RestTyped'
<1> SUFFICES ASSUME AuthInv, RestTyped, [Next]_vars PROVE RestTyped'
  OBVIOUS
<1> USE DEF authVars, gateVars, serverVars
<1>1. CASE Tick \/ UNCHANGED vars
  BY <1>1 DEF RestTyped, Tick, vars
<1>2. ASSUME NEW t \in Tokens, Revoke(t) PROVE RestTyped'
  BY <1>2 DEF RestTyped, Revoke
<1>3. ASSUME NEW c \in Callers PROVE Append(queue, c) \in Seq(Callers) /\ Without(queue, c) \in Seq(Callers)
  BY WithoutType DEF RestTyped
<1>4. ASSUME NEW c \in Callers, Begin(c) \/ Bootstrap(c) \/ Publish(c) PROVE RestTyped'
  BY <1>4 DEF RestTyped, Begin, Bootstrap, Publish, Leave
<1>5. ASSUME NEW c \in Callers, CheckFresh(c) \/ Recheck(c) PROVE RestTyped'
  <2>1. queue' \in {queue, Append(queue, c)} /\ UNCHANGED <<authVars, serverVars, att, missed>>
    BY <1>5 DEF CheckFresh, Recheck, Enter, Leave
  <2> QED BY <1>3, <2>1 DEF RestTyped
<1>6. ASSUME NEW c \in Callers, GrantGate(c) PROVE RestTyped'
  <2>1. Tail(queue) \in Seq(Callers)
    BY <1>6 DEF RestTyped, GrantGate
  <2> QED BY <1>6, <2>1 DEF RestTyped, GrantGate
<1>7. ASSUME NEW c \in Callers, LoginReply(c) PROVE RestTyped'
  BY <1>7, NewTokenName DEF RestTyped, LoginReply
<1>8. ASSUME NEW c \in Callers, LoginFails(c) \/ SyncOk(c) \/ SyncFails(c) PROVE RestTyped'
  BY <1>8, EndRest DEF RestTyped, LoginFails, SyncOk, SyncFails
<1>9. ASSUME NEW c \in Callers, Take(c) PROVE RestTyped'
  <2>1. CASE token = None
    BY <1>9, <2>1, EndRest DEF RestTyped, Take
  <2>2. CASE token # None
    BY <1>9, <2>2 DEF RestTyped, Take
  <2> QED BY <2>1, <2>2
<1>10. ASSUME NEW c \in Callers, Sync401(c) PROVE RestTyped'
  <2>1. tok[c] \in Tokens
    BY <1>10 DEF Sync401, AuthInv
  <2> QED BY <1>3, <1>10, <2>1 DEF RestTyped, Sync401, Enter
<1>11. ASSUME NEW c \in Callers, Invalidate(c) PROVE RestTyped'
  <2>1. UNCHANGED <<crypto, keys, serverVars, missed>>
    BY <1>11 DEF Invalidate
  <2>2. CASE LastAttempt(c)
    BY <1>11, <2>1, <2>2, EndRest DEF RestTyped, Invalidate
  <2>3. CASE ~LastAttempt(c)
    <3>1. att[c] = 0 /\ att' = [att EXCEPT ![c] = att[c] + 1] /\ UNCHANGED <<queue, missed>>
      BY <1>11, <2>3 DEF RestTyped, Invalidate, LastAttempt, RefreshVia, Leave
    <3>2. att' \in [Callers -> {0, 1}]
      BY <3>1 DEF RestTyped
    <3> QED BY <2>1, <3>1, <3>2 DEF RestTyped
  <2> QED BY <2>2, <2>3
<1>12. ASSUME NEW c \in Callers, Cancel(c) PROVE RestTyped'
  BY <1>3, <1>12 DEF RestTyped, Cancel
<1> QED
  BY <1>1, <1>2, <1>4, <1>5, <1>6, <1>7, <1>8, <1>9, <1>10, <1>11, <1>12 DEF Next, Progress

LEMMA RestInit == Init => GateHeld /\ RestTyped
<1> SUFFICES ASSUME Init PROVE GateHeld /\ RestTyped
  OBVIOUS
<1>1. GateHeld
  BY SessionAssumption DEF Init, GateHeld
<1>2. crypto \in BOOLEAN /\ keys \in BOOLEAN
  BY DEF Init
<1>3. /\ queue \in Seq(Callers)
      /\ att \in [Callers -> {0, 1}]
      /\ missed \subseteq Callers /\ valid \subseteq Tokens /\ rejected \subseteq Tokens
  BY DEF Init
<1> QED BY <1>1, <1>2, <1>3, Zenon DEF RestTyped

\* Every variable of the session keeps its type, and the gate is held by exactly
\* the calls that are between its acquisition and its release.
THEOREM SessionType == Spec => []TypeOK
<1>1. AuthInv /\ GateHeld /\ RestTyped => TypeOK
  <2>1. AuthInv => /\ token \in Tokens \cup {None} /\ exp \in 0..MaxLife \cup {None}
                   /\ pc \in [Callers -> States]
                   /\ tok \in [Callers -> Tokens \cup {None}]
                   /\ held \in [Callers -> [token : Tokens \cup {None}, left : 0..MaxLife]]
    BY DEF AuthInv
  <2> QED BY <2>1, Zenon DEF GateHeld, RestTyped, TypeOK, States
<1> QED BY <1>1, RestInit, AuthInit, AuthStep, GateStep, RestStep, PTL DEF Spec

-----------------------------------------------------------------------------
(* The queue of the gate.                                                  *)

Waiters == {c \in Callers : pc[c] \in {"wantGate", "wantGate401"}}

LEMMA QueueStep ==
  ASSUME AuthInv, GateHeld, RestTyped, QueueOf(queue, Waiters), [Next]_vars
  PROVE  QueueOf(queue, Waiters)'
<1>0. pc \in [Callers -> States] /\ queue \in Seq(Callers) /\ None \notin Callers
  BY SessionAssumption DEF AuthInv, RestTyped
<1> SUFFICES QueueOf(queue', Waiters')
  BY DEF QueueOf, IsInjective, ToSet
<1>1. ASSUME NEW c \in Callers, NEW to \in States, Goto(c, to)
      PROVE  Waiters' = IF to \in {"wantGate", "wantGate401"} THEN Waiters \cup {c} ELSE Waiters \ {c}
  BY <1>0, <1>1 DEF Waiters, Goto
<1>2. ASSUME NEW c \in Callers, NEW to \in {"wantGate", "wantGate401"}, Goto(c, to), Enter(c), c \notin Waiters
      PROVE  QueueOf(queue', Waiters')
  <2>1. Waiters' = Waiters \cup {c}
    BY <1>1, <1>2 DEF States
  <2> QED BY <1>0, <1>2, <2>1, AppendQueue DEF Enter
<1>3. ASSUME NEW c \in Callers, NEW to \in States \ {"wantGate", "wantGate401"}, Goto(c, to),
             UNCHANGED queue, c \notin Waiters
      PROVE  QueueOf(queue', Waiters')
  <2>1. Waiters' = Waiters
    BY <1>1, <1>3
  <2> QED BY <1>3, <2>1
<1>4. CASE Tick \/ (\E t \in Tokens : Revoke(t)) \/ UNCHANGED vars
  BY <1>4 DEF Tick, Revoke, vars, gateVars, Waiters
<1>5. ASSUME NEW c \in Callers, End(c), c \notin Waiters PROVE QueueOf(queue', Waiters')
  BY <1>3, <1>5 DEF End, Leave, States
<1>6. ASSUME NEW c \in Callers, CheckFresh(c) \/ Sync401(c) PROVE QueueOf(queue', Waiters')
  <2>1. c \notin Waiters
    BY <1>6 DEF CheckFresh, Sync401, Waiters
  <2>2. \/ \E to \in {"wantGate", "wantGate401"} : Goto(c, to) /\ Enter(c)
        \/ Goto(c, "take") /\ UNCHANGED queue
    BY <1>6 DEF CheckFresh, Sync401, gateVars
  <2> QED BY <1>2, <1>3, <2>1, <2>2 DEF States
<1>7. ASSUME NEW c \in Callers, GrantGate(c) PROVE QueueOf(queue', Waiters')
  <2>1. queue # <<>> /\ Head(queue) = c /\ queue' = Tail(queue) /\ \E to \in {"recheck", "invalidate"} : Goto(c, to)
    BY <1>7 DEF GrantGate
  <2>2. Waiters' = Waiters \ {c}
    BY <1>1, <2>1 DEF States
  <2> QED BY <1>0, <2>1, <2>2, TailQueue
<1>8. ASSUME NEW c \in Callers, Begin(c) \/ Recheck(c) \/ LoginReply(c) \/ Bootstrap(c) \/ Publish(c)
      PROVE  QueueOf(queue', Waiters')
  <2>1. c \notin Waiters /\ UNCHANGED queue
    BY <1>8 DEF Begin, Recheck, LoginReply, Bootstrap, Publish, Leave, gateVars, Waiters
  <2>2. \E to \in States \ {"wantGate", "wantGate401"} : Goto(c, to)
    BY <1>8 DEF Begin, Recheck, LoginReply, Bootstrap, Publish, States
  <2> QED BY <1>3, <2>1, <2>2
<1>9. ASSUME NEW c \in Callers, LoginFails(c) \/ SyncOk(c) \/ SyncFails(c) \/ Take(c)
      PROVE  QueueOf(queue', Waiters')
  <2>1. c \notin Waiters
    BY <1>9 DEF LoginFails, SyncOk, SyncFails, Take, Waiters
  <2>2. End(c) \/ (Goto(c, "sync") /\ UNCHANGED queue)
    BY <1>9 DEF LoginFails, SyncOk, SyncFails, Take, gateVars
  <2> QED BY <1>3, <1>5, <2>1, <2>2 DEF States
<1>10. ASSUME NEW c \in Callers, Invalidate(c) PROVE QueueOf(queue', Waiters')
  <2>1. c \notin Waiters
    BY <1>10 DEF Invalidate, Waiters
  <2>2. End(c) \/ (UNCHANGED queue /\ \E to \in {"login", "take"} : Goto(c, to))
    BY <1>10 DEF Invalidate, RefreshVia, Leave, gateVars
  <2> QED BY <1>3, <1>5, <2>1, <2>2 DEF States
<1>11. ASSUME NEW c \in Callers, Cancel(c) PROVE QueueOf(queue', Waiters')
  <2>1. Waiters' = Waiters \ {c}
    BY <1>1, <1>11 DEF Cancel, States
  <2> QED BY <1>0, <1>11, <2>1, WithoutQueue DEF Cancel
<1> QED BY <1>4, <1>6, <1>7, <1>8, <1>9, <1>10, <1>11 DEF Next, Progress

\* A call never waits for the gate while it or another waiter holds it, and no
\* dropped future keeps its place, for any number of concurrent calls: the recovery
\* after a 401 logs in under its own guard, and not through token().
THEOREM DeadlockFree == Spec => []NoDeadlock
<1>1. Init => QueueOf(queue, Waiters)
  <2> SUFFICES ASSUME Init PROVE QueueOf(<<>>, {})
    BY DEF Init, Waiters
  <2> QED BY DEF QueueOf, ToSet, IsInjective
<1>2. GateHeld /\ QueueOf(queue, Waiters) => NoDeadlock
  BY DEF GateHeld, NoDeadlock, Waiters
<1>3. AuthInv /\ GateHeld /\ RestTyped /\ QueueOf(queue, Waiters) /\ [Next]_vars => QueueOf(queue, Waiters)'
  BY QueueStep
<1> QED BY <1>1, <1>2, <1>3, RestInit, AuthInit, AuthStep, GateStep, RestStep, PTL DEF Spec

-----------------------------------------------------------------------------
(* Publication, invalidation and renewal.                                  *)

\* Token and expiry are published and withdrawn together, and only over an
\* initialized key store.
THEOREM AuthPublication == Spec => []AuthTogether
<1>1. AuthInv => AuthTogether
  BY DEF AuthInv
<1> QED BY <1>1, AuthInit, AuthStep, PTL DEF Spec

\* A token that was not answered with 401 is never withdrawn.
THEOREM InvalidationIsPrecise == Spec => OnlyRejectedCleared
<1>1. AuthInv /\ [Next]_vars => [token # None /\ token' = None => token \in rejected]_vars
  <2> SUFFICES ASSUME AuthInv, Next, token # None, token' = None PROVE token \in rejected
    OBVIOUS
  <2>1. CASE \E c \in Callers : Invalidate(c)
    BY <2>1 DEF Invalidate, Rejected, AuthInv
  <2>2. CASE \E c \in Callers : Publish(c)
    BY <2>2 DEF Publish, AuthInv
  <2> QED
    BY <2>1, <2>2 DEF Next, Progress, Tick, Revoke, Begin, CheckFresh, GrantGate, Recheck, LoginReply, Bootstrap,
       LoginFails, Take, SyncOk, SyncFails, Sync401, Cancel, authVars
<1> QED BY <1>1, AuthInit, AuthStep, PTL DEF Spec, OnlyRejectedCleared

\* No login starts while the published token is neither rejected nor about to
\* expire: a 401 of an older request never makes its caller log in again.
THEOREM LoginIsNeeded == Spec => NoRedundantLogin
<1>1. AuthInv /\ [Next]_vars =>
        [\A c \in Callers : pc[c] # "login" /\ pc'[c] = "login" => (exp = None \/ exp = 0 \/ token \in rejected)]_vars
  <2> SUFFICES ASSUME AuthInv, Next, NEW c \in Callers, pc[c] # "login", pc'[c] = "login"
               PROVE  exp = None \/ exp = 0 \/ token \in rejected
    OBVIOUS
  <2>0. pc \in [Callers -> States]
    BY DEF AuthInv
  <2>1. ASSUME NEW d \in Callers, Recheck(d) PROVE exp = None \/ exp = 0
    BY <2>0, <2>1 DEF Recheck, Goto, Stale
  <2>2. ASSUME NEW d \in Callers, Invalidate(d) PROVE exp = None \/ token \in rejected
    <3>0. ~LastAttempt(d)
      BY <2>0, <2>2 DEF Invalidate, End, Goto
    <3>1. d = c /\ token' = None
      BY <2>0, <2>2, <3>0 DEF Invalidate, RefreshVia, Goto
    <3>2. token = None \/ token = tok[c]
      BY <2>2, <3>1 DEF Invalidate, Rejected
    <3> QED BY <2>2, <3>1, <3>2, Zenon DEF Invalidate, AuthInv, AuthTogether
  <2>3. ASSUME NEW d \in Callers, NEW to, Goto(d, to), to # "login" PROVE FALSE
    BY <2>0, <2>3 DEF Goto
  <2>4. CASE \E d \in Callers : Begin(d) \/ CheckFresh(d) \/ GrantGate(d) \/ LoginReply(d) \/ Bootstrap(d)
                                \/ Publish(d) \/ Sync401(d) \/ Cancel(d)
    BY <2>3, <2>4 DEF Begin, CheckFresh, GrantGate, LoginReply, Bootstrap, Publish, Sync401, Cancel
  <2>5. CASE \E d \in Callers : LoginFails(d) \/ Take(d) \/ SyncOk(d) \/ SyncFails(d)
    BY <2>3, <2>5 DEF LoginFails, Take, SyncOk, SyncFails, End
  <2>6. CASE Tick \/ \E t \in Tokens : Revoke(t)
    BY <2>6 DEF Tick, Revoke
  <2> QED BY <2>1, <2>2, <2>4, <2>5, <2>6 DEF Next, Progress
<1> QED BY <1>1, AuthInit, AuthStep, PTL DEF Spec, NoRedundantLogin

-----------------------------------------------------------------------------
(* The retry.                                                              *)

\* A token in a login response is known to nobody else yet, and a call on its
\* second attempt has left the token it was refused with behind.
RetryInv ==
  /\ att \in [Callers -> {0, 1}]
  /\ \A c \in Callers : pc[c] \in {"idle", "fresh", "wantGate", "recheck"} => att[c] = 0
  /\ \A c, d \in Callers : held[c].token # None =>
       held[c].token # token /\ held[c].token # tok[d] /\ (c # d => held[c].token # held[d].token)
  /\ \A c \in Callers : att[c] = 1 /\ pc[c] \in {"login", "bootstrap", "publish", "take"} =>
       tok[c] # None /\ tok[c] # token

LEMMA EndRetry ==
  ASSUME AuthInv, RetryInv, NEW c \in Callers, End(c), token' \in {token, None}
  PROVE  RetryInv'
BY DEF AuthInv, RetryInv, End, Goto, NoResponse

LEMMA RetryStep == AuthInv /\ RestTyped /\ RetryInv /\ [Next]_vars => RetryInv'
<1> SUFFICES ASSUME AuthInv, RestTyped, RetryInv, [Next]_vars PROVE RetryInv'
  OBVIOUS
<1> USE DEF authVars, States
<1>1. CASE UNCHANGED vars \/ \E t \in Tokens : Revoke(t)
  BY <1>1 DEF RetryInv, Revoke, vars
<1>2. CASE Tick
  <2>1. \A c \in Callers : held'[c].token = held[c].token
    BY <1>2 DEF Tick
  <2> QED BY <1>2, <2>1 DEF RetryInv, Tick
<1>3. ASSUME NEW c \in Callers, Begin(c) \/ CheckFresh(c) \/ GrantGate(c) \/ Recheck(c) \/ Bootstrap(c) \/ Sync401(c)
      PROVE  RetryInv'
  <2>1. UNCHANGED <<token, att, tok, held>>
    BY <1>3 DEF Begin, CheckFresh, GrantGate, Recheck, Bootstrap, Sync401
  <2>2. /\ Begin(c) \/ Sync401(c) => \E to \in {"fresh", "wantGate401"} : Goto(c, to)
        /\ CheckFresh(c) => att[c] = 0 /\ \E to \in {"wantGate", "take"} : Goto(c, to)
        /\ GrantGate(c) => Goto(c, "recheck") \/ Goto(c, "invalidate")
        /\ Recheck(c) => att[c] = 0 /\ \E to \in {"take", "login"} : Goto(c, to)
        /\ Bootstrap(c) => pc[c] = "bootstrap" /\ Goto(c, "publish")
    BY DEF RetryInv, Begin, CheckFresh, GrantGate, Recheck, Bootstrap, Sync401
  <2>3. \A d \in Callers : pc'[d] \in {"idle", "fresh", "wantGate", "recheck"} => att[d] = 0
    BY <1>3 DEF RetryInv, AuthInv, Goto, Begin, CheckFresh, GrantGate, Recheck, Bootstrap, Sync401
  <2> QED BY <1>3, <2>1, <2>2, <2>3 DEF RetryInv, AuthInv, Goto
<1>4. ASSUME NEW c \in Callers, LoginReply(c) PROVE RetryInv'
  <2>1. PICK life \in 0..MaxLife : held' = [held EXCEPT ![c] = [token |-> NewToken, left |-> life]]
    BY <1>4 DEF LoginReply
  <2>2. NewToken \notin Remembered
    BY <1>4, NewTokenName DEF LoginReply
  <2>3. \A d \in Callers : held'[d].token = IF d = c THEN NewToken ELSE held[d].token
    BY <2>1 DEF AuthInv
  <2>4. UNCHANGED <<token, att, tok>> /\ pc[c] = "login" /\ Goto(c, "bootstrap")
    BY <1>4 DEF LoginReply
  <2>5. \A d, e \in Callers : held'[d].token # None =>
          held'[d].token # token /\ held'[d].token # tok[e] /\ (d # e => held'[d].token # held'[e].token)
    BY <2>2, <2>3 DEF RetryInv, Remembered
  <2>6. \A d \in Callers : att[d] = 1 /\ pc'[d] \in {"login", "bootstrap", "publish", "take"} =>
          tok[d] # None /\ tok[d] # token
    BY <2>4 DEF RetryInv, AuthInv, Goto
  <2>7. \A d \in Callers : pc'[d] \in {"idle", "fresh", "wantGate", "recheck"} => att[d] = 0
    BY <2>4 DEF RetryInv, AuthInv, Goto
  <2> QED BY <2>4, <2>5, <2>6, <2>7 DEF RetryInv
<1>5. ASSUME NEW c \in Callers, Publish(c) PROVE RetryInv'
  <2>1. token' = held[c].token /\ held[c].token # None /\ UNCHANGED <<att, tok>>
        /\ pc[c] = "publish" /\ Goto(c, "take")
    BY <1>5 DEF Publish, AuthInv
  <2>2. \A d \in Callers : held'[d].token = IF d = c THEN None ELSE held[d].token
    BY <1>5 DEF Publish, NoResponse, AuthInv
  <2>3. \A d \in Callers : att[d] = 1 /\ pc'[d] \in {"login", "bootstrap", "publish", "take"} =>
          tok[d] # None /\ tok[d] # held[c].token
    BY <2>1 DEF RetryInv, AuthInv, Goto
  <2>4. \A d, e \in Callers : held'[d].token # None =>
          held'[d].token # token' /\ held'[d].token # tok[e] /\ (d # e => held'[d].token # held'[e].token)
    BY <2>1, <2>2 DEF RetryInv
  <2>5. \A d \in Callers : pc'[d] \in {"idle", "fresh", "wantGate", "recheck"} => att[d] = 0
    BY <2>1 DEF RetryInv, AuthInv, Goto
  <2> QED BY <2>1, <2>3, <2>4, <2>5 DEF RetryInv
<1>6. ASSUME NEW c \in Callers, LoginFails(c) \/ SyncOk(c) \/ SyncFails(c) PROVE RetryInv'
  BY <1>6, EndRetry DEF LoginFails, SyncOk, SyncFails
<1>7. ASSUME NEW c \in Callers, Take(c) PROVE RetryInv'
  <2>1. CASE token = None
    BY <1>7, <2>1, EndRetry DEF Take
  <2>2. CASE token # None
    BY <1>7, <2>2 DEF Take, Goto, RetryInv, AuthInv
  <2> QED BY <2>1, <2>2
<1>8. ASSUME NEW c \in Callers, Invalidate(c) PROVE RetryInv'
  <2>1. token' = IF token = tok[c] THEN None ELSE token
    BY <1>8 DEF Invalidate, Rejected
  <2>2. CASE LastAttempt(c)
    BY <1>8, <2>1, <2>2, EndRetry DEF Invalidate
  <2>3. CASE ~LastAttempt(c)
    <3>1. UNCHANGED <<tok, held>> /\ \E to \in {"login", "take"} : Goto(c, to)
      BY <1>8, <2>3 DEF Invalidate, RefreshVia
    <3>2. att[c] = 0 /\ att' = [att EXCEPT ![c] = 1]
      BY <1>8, <2>3 DEF Invalidate, LastAttempt, RetryInv
    <3>3. tok[c] # None
      BY <1>8 DEF Invalidate, AuthInv
    <3>4. \A d \in Callers : att'[d] = 1 /\ pc'[d] \in {"login", "bootstrap", "publish", "take"} =>
            tok[d] # None /\ tok[d] # token'
      BY <2>1, <3>1, <3>2, <3>3 DEF RetryInv, AuthInv, Goto
    <3>5. \A d, e \in Callers : held[d].token # None => held[d].token # token'
      BY <2>1 DEF RetryInv
    <3>6. \A d \in Callers : pc'[d] \in {"idle", "fresh", "wantGate", "recheck"} => att'[d] = 0
      BY <3>1, <3>2 DEF RetryInv, AuthInv, Goto
    <3> QED BY <3>1, <3>2, <3>4, <3>5, <3>6 DEF RetryInv
  <2> QED BY <2>2, <2>3
<1>9. ASSUME NEW c \in Callers, Cancel(c) PROVE RetryInv'
  BY <1>9 DEF Cancel, Goto, NoResponse, RetryInv, AuthInv
<1> QED BY <1>1, <1>2, <1>3, <1>4, <1>5, <1>6, <1>7, <1>8, <1>9 DEF Next, Progress

\* The second attempt of a sync goes out with another token than the one that was
\* refused, whoever else logs in, is refused or is cancelled in between.
THEOREM RetryIsNew == Spec => RetryUsesNewToken
<1>1. Init => RetryInv
  BY DEF Init, RetryInv, NoResponse
<1>2. AuthInv /\ RetryInv /\ [Next]_vars =>
        [\A c \in Callers : pc[c] = "take" /\ pc'[c] = "sync" /\ att[c] = 1 => tok'[c] # tok[c]]_vars
  <2> SUFFICES ASSUME AuthInv, RetryInv, Next, NEW c \in Callers, pc[c] = "take", pc'[c] = "sync", att[c] = 1
               PROVE  tok'[c] # tok[c]
    OBVIOUS
  <2>0. pc \in [Callers -> States]
    BY DEF AuthInv
  <2>1. ASSUME NEW d \in Callers, Take(d) PROVE tok'[c] # tok[c]
    <3>1. d = c /\ token # None
      BY <2>0, <2>1 DEF Take, End, Goto
    <3> QED BY <2>1, <3>1 DEF Take, AuthInv, RetryInv
  <2>2. ASSUME NEW d \in Callers, NEW to, Goto(d, to), to # "sync" PROVE FALSE
    BY <2>0, <2>2 DEF Goto
  <2>3. CASE \E d \in Callers : Begin(d) \/ CheckFresh(d) \/ GrantGate(d) \/ Recheck(d) \/ LoginReply(d)
                                \/ Bootstrap(d) \/ Publish(d) \/ Sync401(d) \/ Cancel(d)
    BY <2>2, <2>3 DEF Begin, CheckFresh, GrantGate, Recheck, LoginReply, Bootstrap, Publish, Sync401, Cancel
  <2>4. CASE \E d \in Callers : LoginFails(d) \/ SyncOk(d) \/ SyncFails(d) \/ Invalidate(d)
    BY <2>2, <2>4 DEF LoginFails, SyncOk, SyncFails, Invalidate, RefreshVia, End
  <2>5. CASE Tick \/ \E t \in Tokens : Revoke(t)
    BY <2>5 DEF Tick, Revoke
  <2> QED BY <2>1, <2>3, <2>4, <2>5 DEF Next, Progress
<1> QED BY <1>1, <1>2, AuthInit, AuthStep, RestInit, RestStep, RetryStep, PTL DEF Spec, RetryUsesNewToken
=============================================================================
