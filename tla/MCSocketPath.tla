---------------------------- MODULE MCSocketPath ----------------------------
(* Model-checking instances of SocketPath.                                 *)
EXTENDS SocketPath, TLC

\* Processes and inode numbers are interchangeable.
Symmetry == Permutations(Procs) \cup Permutations(Inodes)
=============================================================================
