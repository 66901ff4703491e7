------------------------------ MODULE WaitQueue -------------------------------
(***************************************************************************)
(* The waiters of a tokio lock, first come, first served.                  *)
(***************************************************************************)
EXTENDS SequencesExt

\* The place of a waiter whose future is dropped is unlinked, wherever it is.
Without(q, c) ==
  IF \E i \in DOMAIN q : q[i] = c THEN RemoveAt(q, CHOOSE i \in DOMAIN q : q[i] = c) ELSE q

\* q holds one place for every member of W, and no other.
QueueOf(q, W) == ToSet(q) = W /\ IsInjective(q)
=============================================================================
