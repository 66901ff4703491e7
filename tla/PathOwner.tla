----------------------------- MODULE PathOwner -----------------------------
(***************************************************************************)
(* What Listener of keyring-cli promises about its path, without its       *)
(* system calls: one process serves at a time, the path leads to it until  *)
(* it leaves or is killed itself, only a socket nobody answers on is ever  *)
(* removed by another, and a file that is not a socket stays.              *)
(***************************************************************************)
CONSTANT Procs

VARIABLES
  entry,   \* what the path names: nothing, a foreign file, a dead or a live socket
  serving  \* the processes that serve

vars == <<entry, serving>>

Init == entry \in {"nothing", "foreign", "dead"} /\ serving = {}

\* A socket exists before anybody answers on it.
Create == entry = "nothing" /\ entry' = "dead" /\ UNCHANGED serving
Serve(p) == entry = "dead" /\ entry' = "live" /\ serving = {} /\ serving' = {p}
Reclaim == entry = "dead" /\ entry' = "nothing" /\ UNCHANGED serving

\* The process takes its socket away, or dies and leaves it behind.
Leave(p) ==
  /\ entry = "live" /\ p \in serving
  /\ entry' \in {"nothing", "dead"} /\ serving' = serving \ {p}

Next == Create \/ Reclaim \/ \E p \in Procs : Serve(p) \/ Leave(p)

Spec == Init /\ [][Next]_vars
=============================================================================
