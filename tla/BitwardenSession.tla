-------------------------- MODULE BitwardenSession --------------------------
(***************************************************************************)
(* The authentication state of one Bitwarden provider (session.rs): sync() *)
(* with its token check, login, and the retry after HTTP 401, called by    *)
(* concurrent tasks that may be cancelled at every await, against a server *)
(* that issues and revokes bearer tokens. The state mutex is never held    *)
(* across an await, so each of its critical sections is one step; the gate *)
(* mutex is held across whole logins and is modelled as a lock.            *)
(***************************************************************************)
EXTENDS Integers, WaitQueue

CONSTANTS
  Callers,    \* tasks calling sync()
  None,       \* no token, no expiry, nobody
  Tokens,     \* names of bearer tokens
  MaxLife     \* bound: the longest time a token stays out of the renewal window

ASSUME SessionAssumption ==
  /\ MaxLife \in Nat
  /\ None \notin Nat \cup Tokens \cup Callers

VARIABLES
  token, exp, crypto,  \* Auth; exp is the time left before the renewal window
  keys,                \* the key store holds the user key
  gate, queue,         \* holder of the gate mutex and its waiters, in order
  pc,                  \* where each call is
  att, tok,            \* attempt of each call, and the token it took for it
  held,                \* the login response each call works on
  missed,              \* history: callers whose last call found no token to send
  valid,               \* server: tokens it accepts
  rejected             \* history: tokens that were answered with 401

authVars   == <<token, exp, crypto, keys>>
gateVars   == <<gate, queue>>
serverVars == <<valid, rejected>>
vars == <<authVars, gateVars, serverVars, pc, att, tok, held, missed>>

TypeOK ==
  /\ token \in Tokens \cup {None} /\ exp \in 0..MaxLife \cup {None}
  /\ crypto \in BOOLEAN /\ keys \in BOOLEAN
  /\ gate \in Callers \cup {None} /\ queue \in Seq(Callers)
  /\ pc \in [Callers -> {"idle", "fresh", "wantGate", "recheck", "login", "bootstrap", "publish",
                         "take", "sync", "wantGate401", "invalidate"}]
  /\ att \in [Callers -> {0, 1}] /\ tok \in [Callers -> Tokens \cup {None}]
  /\ held \in [Callers -> [token : Tokens \cup {None}, left : 0..MaxLife]]
  /\ missed \subseteq Callers /\ valid \subseteq Tokens /\ rejected \subseteq Tokens
  /\ \A c \in Callers : gate = c <=> pc[c] \in {"recheck", "login", "bootstrap", "publish", "invalidate"}

NoResponse == [token |-> None, left |-> 0]

Init ==
  /\ token = None /\ exp = None /\ crypto = FALSE /\ keys = FALSE
  /\ gate = None /\ queue = <<>>
  /\ pc = [c \in Callers |-> "idle"]
  /\ att = [c \in Callers |-> 0] /\ tok = [c \in Callers |-> None]
  /\ held = [c \in Callers |-> NoResponse]
  /\ missed = {} /\ valid = {} /\ rejected = {}

Goto(c, to) == pc' = [pc EXCEPT ![c] = to]
Enter(c) == queue' = Append(queue, c) /\ UNCHANGED gate
Leave(c) == gate' = (IF gate = c THEN None ELSE gate) /\ UNCHANGED queue

\* The call returns: its locals and its guard go.
End(c) ==
  /\ Goto(c, "idle")
  /\ Leave(c)
  /\ att' = [att EXCEPT ![c] = 0] /\ tok' = [tok EXCEPT ![c] = None]
  /\ held' = [held EXCEPT ![c] = NoResponse]

-----------------------------------------------------------------------------
(* token(): ensure a usable token.                                         *)

Stale == exp = None \/ exp = 0

Begin(c) ==
  /\ pc[c] = "idle" /\ Goto(c, "fresh")
  /\ missed' = missed \ {c}
  /\ UNCHANGED <<authVars, gateVars, serverVars, att, tok, held>>

CheckFresh(c) ==
  /\ pc[c] = "fresh"
  /\ IF Stale THEN Goto(c, "wantGate") /\ Enter(c) ELSE Goto(c, "take") /\ UNCHANGED gateVars
  /\ UNCHANGED <<authVars, serverVars, att, tok, held, missed>>

\* tokio's Mutex serves its waiters first come, first served.
GrantGate(c) ==
  /\ gate = None /\ queue # <<>> /\ Head(queue) = c
  /\ gate' = c /\ queue' = Tail(queue)
  /\ \/ pc[c] = "wantGate" /\ Goto(c, "recheck")
     \/ pc[c] = "wantGate401" /\ Goto(c, "invalidate")
  /\ UNCHANGED <<authVars, serverVars, att, tok, held, missed>>

Recheck_Skipped(c) ==
  /\ pc[c] = "recheck" /\ Goto(c, "login")
  /\ UNCHANGED <<authVars, gateVars, serverVars, att, tok, held, missed>>
\* Another waiter may have logged in while this task was queued.
Recheck(c) ==
  /\ pc[c] = "recheck"
  /\ IF Stale THEN Goto(c, "login") /\ UNCHANGED gateVars ELSE Goto(c, "take") /\ Leave(c)
  /\ UNCHANGED <<authVars, serverVars, att, tok, held, missed>>

-----------------------------------------------------------------------------
(* login(), with the gate held.                                            *)

\* The server never issues a token twice. The name of one that nobody holds any
\* more stands for a token not seen before.
Remembered == {token} \cup {tok[c] : c \in Callers} \cup {held[c].token : c \in Callers}
NewToken == CHOOSE t \in Tokens : t \notin Remembered

\* request_api_key_token: a new token, with any time to live.
LoginReply(c) ==
  /\ pc[c] = "login"
  /\ \E t \in Tokens : t \notin Remembered  \* bound: the names suffice
  /\ valid' = (valid \cap Remembered) \cup {NewToken} /\ rejected' = rejected \cap Remembered
  /\ \E life \in 0..MaxLife : held' = [held EXCEPT ![c] = [token |-> NewToken, left |-> life]]
  /\ Goto(c, "bootstrap")
  /\ UNCHANGED <<authVars, gateVars, att, tok, missed>>

\* initialize_user_crypto, only until it has succeeded once and been published.
Bootstrap(c) ==
  /\ pc[c] = "bootstrap" /\ Goto(c, "publish")
  /\ keys' = TRUE
  /\ UNCHANGED <<token, exp, crypto, gateVars, serverVars, att, tok, held, missed>>

Publish(c) ==
  /\ pc[c] = "publish"
  /\ token' = held[c].token /\ exp' = held[c].left /\ crypto' = TRUE
  /\ held' = [held EXCEPT ![c] = NoResponse]
  /\ Goto(c, "take") /\ Leave(c)
  /\ UNCHANGED <<keys, serverVars, att, tok, missed>>

\* The identity request, the expiry arithmetic or the bootstrap fails.
LoginFails(c) ==
  /\ pc[c] = "login" \/ (pc[c] = "bootstrap" /\ ~crypto)
  /\ End(c)
  /\ UNCHANGED <<authVars, serverVars, missed>>

-----------------------------------------------------------------------------
(* sync()                                                                  *)

Take(c) ==
  /\ pc[c] = "take"
  /\ IF token = None
     THEN End(c) /\ missed' = missed \cup {c}
     ELSE Goto(c, "sync") /\ tok' = [tok EXCEPT ![c] = token] /\ UNCHANGED <<gateVars, att, held, missed>>
  /\ UNCHANGED <<authVars, serverVars>>

SyncOk(c) ==
  pc[c] = "sync" /\ tok[c] \in valid /\ End(c) /\ UNCHANGED <<authVars, serverVars, missed>>

\* Another status, a transport error, a body that cannot be read or parsed.
SyncFails(c) == pc[c] = "sync" /\ End(c) /\ UNCHANGED <<authVars, serverVars, missed>>

Sync401(c) ==
  /\ pc[c] = "sync" /\ tok[c] \notin valid
  /\ rejected' = rejected \cup {tok[c]}
  /\ Goto(c, "wantGate401") /\ Enter(c)
  /\ UNCHANGED <<authVars, valid, att, tok, held, missed>>

Rejected_Any(c) == TRUE
Rejected_Never(c) == FALSE
\* A late 401 must not clear a token another caller has already replaced.
Rejected(c) == token = tok[c]

ClearExp_Forgotten(c) == UNCHANGED exp
ClearExp(c) == exp' = IF Rejected(c) THEN None ELSE exp

RefreshVia_Token(c) == Goto(c, "wantGate") /\ Enter(c)
\* login() under the gate this call already holds.
RefreshVia(c) == Goto(c, "login") /\ UNCHANGED gateVars

LastAttempt_Unbounded(c) == FALSE
LastAttempt(c) == att[c] = 1

Invalidate(c) ==
  /\ pc[c] = "invalidate"
  /\ token' = IF Rejected(c) THEN None ELSE token
  /\ ClearExp(c)
  /\ IF LastAttempt(c) THEN End(c)
     ELSE /\ att' = [att EXCEPT ![c] = @ + 1]
          /\ IF token' = None THEN RefreshVia(c) ELSE Goto(c, "take") /\ Leave(c)
          /\ UNCHANGED <<tok, held>>
  /\ UNCHANGED <<crypto, keys, serverVars, missed>>

-----------------------------------------------------------------------------
(* Cancellation, time and the server.                                      *)

\* The caller's future is dropped at an await.
Cancel(c) ==
  /\ pc[c] # "idle"
  /\ Goto(c, "idle")
  /\ gate' = IF gate = c THEN None ELSE gate
  /\ queue' = Without(queue, c)
  /\ att' = [att EXCEPT ![c] = 0] /\ tok' = [tok EXCEPT ![c] = None]
  /\ held' = [held EXCEPT ![c] = NoResponse]
  /\ UNCHANGED <<authVars, serverVars, missed>>

Down(n) == IF n = None \/ n = 0 THEN n ELSE n - 1

Tick ==
  /\ ~Stale \/ \E c \in Callers : held[c].left > 0
  /\ exp' = Down(exp)
  /\ held' = [c \in Callers |-> [token |-> held[c].token, left |-> Down(held[c].left)]]
  /\ UNCHANGED <<token, crypto, keys, gateVars, serverVars, pc, att, tok, missed>>

\* The server stops accepting a token, expired or revoked.
Revoke(t) ==
  /\ t \in valid /\ valid' = valid \ {t}
  /\ UNCHANGED <<authVars, gateVars, rejected, pc, att, tok, held, missed>>

\* What the runtime and the HTTP timeouts make sure of: every await of a call ends.
Progress(c) == \/ CheckFresh(c) \/ GrantGate(c) \/ Recheck(c) \/ LoginReply(c) \/ Bootstrap(c)
               \/ Publish(c) \/ LoginFails(c) \/ Take(c) \/ SyncOk(c) \/ SyncFails(c) \/ Sync401(c)
               \/ Invalidate(c)

Next == \/ Tick \/ \E t \in Tokens : Revoke(t)
        \/ \E c \in Callers : Progress(c) \/ Begin(c) \/ Cancel(c)

Spec == Init /\ [][Next]_vars

FairSpec == Spec /\ \A c \in Callers : WF_vars(Progress(c))

-----------------------------------------------------------------------------
(* Properties.                                                             *)

\* spec.md "Atomic authentication publication": token and expiry come and go
\* together, and only over an initialized key store, whatever is cancelled.
AuthTogether ==
  /\ token = None <=> exp = None
  /\ token # None => crypto /\ keys

\* spec.md "Token invalidation SHALL affect only the token used by the rejected
\* request": a token nobody was refused with is never cleared.
OnlyRejectedCleared == [][token # None /\ token' = None => token \in rejected]_vars

\* spec.md "concurrent recovery SHALL reuse an already replaced token": no login
\* starts while the published token is neither rejected nor about to expire.
NoRedundantLogin ==
  [][\A c \in Callers : pc[c] # "login" /\ pc'[c] = "login" => (exp = None \/ exp = 0 \/ token \in rejected)]_vars

\* The retry after a 401 never sends the rejected token again.
RetryUsesNewToken ==
  [][\A c \in Callers : pc[c] = "take" /\ pc'[c] = "sync" /\ att[c] = 1 => tok'[c] # tok[c]]_vars

\* The calls never all wait for the gate: every waiter has its place in the
\* queue, nobody's is left behind by a dropped future, and the gate is free for the
\* first one or held by a call that is not itself waiting for it.
NoDeadlock ==
  LET waiting == {c \in Callers : pc[c] \in {"wantGate", "wantGate401"}}
  IN  QueueOf(queue, waiting) /\ gate \notin waiting

\* Every call of sync() ends.
EverySyncEnds == \A c \in Callers : pc[c] # "idle" ~> pc[c] = "idle"
=============================================================================
