----------------------------- MODULE MCKeyStore -----------------------------
(* Model-checking instances of KeyStore.                                    *)
EXTENDS KeyStore, TLC

\* Organizations and items are interchangeable.
Symmetry == Permutations(Orgs) \cup Permutations(Items)
=============================================================================
