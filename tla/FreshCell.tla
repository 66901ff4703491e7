------------------------------ MODULE FreshCell ------------------------------
(***************************************************************************)
(* What keyring_core::CacheCell promises its callers, without its lock: a  *)
(* call returns the cached value only while it is fresh, or else the       *)
(* outcome of a refresh of its own; a refresh starts only when there is no *)
(* fresh value, and one at a time; a refresh that fails or is cancelled    *)
(* changes nothing.                                                        *)
(***************************************************************************)
EXTENDS Naturals

CONSTANTS Callers, Values, NoValue, Failed, NoCaller, TTL

VARIABLES
  val, age,   \* the cached value and the time since it was stored, up to TTL
  open,       \* the callers inside get_or_try_init
  refresher,  \* the caller whose initializer runs
  answer      \* what the last finished call of each caller returned

vars == <<val, age, open, refresher, answer>>

Fresh == val # NoValue /\ age < TTL

Init ==
  /\ val = NoValue /\ age = TTL
  /\ open = {} /\ refresher = NoCaller
  /\ answer = [c \in Callers |-> NoValue]

Return(c, v) == open' = open \ {c} /\ answer' = [answer EXCEPT ![c] = v]

Call(c) ==
  /\ c \notin open
  /\ open' = open \cup {c}
  /\ answer' = [answer EXCEPT ![c] = NoValue]
  /\ UNCHANGED <<val, age, refresher>>

Hit(c) == c \in open /\ c # refresher /\ Fresh /\ Return(c, val) /\ UNCHANGED <<val, age, refresher>>

StartRefresh(c) ==
  /\ c \in open /\ refresher = NoCaller /\ ~Fresh
  /\ refresher' = c
  /\ UNCHANGED <<val, age, open, answer>>

Refresh(c) ==
  /\ refresher = c /\ refresher' = NoCaller
  /\ \/ \E v \in Values : val' = v /\ age' = 0 /\ Return(c, v)
     \/ Return(c, Failed) /\ UNCHANGED <<val, age>>

\* The caller drops its future.
Cancel(c) ==
  /\ c \in open /\ open' = open \ {c}
  /\ refresher' = IF refresher = c THEN NoCaller ELSE refresher
  /\ UNCHANGED <<val, age, answer>>

Tick == age < TTL /\ age' = age + 1 /\ UNCHANGED <<val, open, refresher, answer>>

Next == Tick \/ \E c \in Callers : Call(c) \/ Hit(c) \/ StartRefresh(c) \/ Refresh(c) \/ Cancel(c)

Spec == Init /\ [][Next]_vars
=============================================================================
