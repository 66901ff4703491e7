----------------------------- MODULE MCServeLoop -----------------------------
(* Model-checking instances of ServeLoop.                                   *)
EXTENDS ServeLoop, TLC

\* Interchangeable connections. The generation and channel of a connection only
\* depend on when it is accepted, so permuting Clients is sound for invariants.
Symmetry == Permutations(Clients)
=============================================================================
