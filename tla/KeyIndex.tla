------------------------------ MODULE KeyIndex ------------------------------
(***************************************************************************)
(* The keys of a snapshot by their public key, and what a merge of the     *)
(* snapshots of several providers is.                                      *)
(***************************************************************************)
EXTENDS Naturals, Sequences

CONSTANTS
  Pubs,    \* public keys
  Keys,    \* key pairs, told apart by comment
  PubOf,   \* the public key of each key pair
  KindOf,  \* what sig() can do with each key pair
  Absent   \* no key pair; nothing listed or signed yet

Index == [Pubs -> Keys \cup {Absent}]
NoKeys == [p \in Pubs |-> Absent]
Empty == [set |-> FALSE, index |-> NoKeys]
Flags == SUBSET {"sha256", "sha512"}

\* What sig() signs with: RSA only with a SHA-2 flag, and no other algorithm, key
\* that is encrypted, inconsistent or too small.
CanSign(k, flags) == KindOf[k] = "ed25519" \/ (KindOf[k] = "rsa" /\ flags # {})

At(content, p) == {i \in DOMAIN content : PubOf[content[i]] = p}

\* The key at place j of provider i has public key p, and none after it has.
LastOccurrence(g, i, j, p) ==
  /\ i \in DOMAIN g /\ j \in DOMAIN g[i] /\ PubOf[g[i][j]] = p
  /\ \A m \in DOMAIN g : \A n \in At(g[m], p) : m < i \/ (m = i /\ n <= j)

Merges(index, g) ==
  \A p \in Pubs :
    IF \E m \in DOMAIN g : At(g[m], p) # {}
    THEN \E i \in DOMAIN g : \E j \in DOMAIN g[i] : LastOccurrence(g, i, j, p) /\ index[p] = g[i][j]
    ELSE index[p] = Absent
=============================================================================
