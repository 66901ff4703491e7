--------------------------- MODULE SnapshotAgent ----------------------------
(***************************************************************************)
(* What an agent session of keyring-service promises its client, without   *)
(* the requests that load it: at some moment of its life the session takes *)
(* one snapshot, which merges an answer of every provider, and from then   *)
(* until it closes it lists and signs from that one only.                  *)
(***************************************************************************)
EXTENDS KeyIndex

CONSTANTS Sessions, NumProviders, Contents, Ids

VARIABLES
  open,    \* the sessions that are open
  snap,    \* the snapshot of each
  answers, \* history: what the providers answered to it
  listed,  \* the last list of identities each client was given
  signed,  \* the key pair of each client's last signature
  binds    \* the accepted session-bind records

vars == <<open, snap, answers, listed, signed, binds>>

Init ==
  /\ open = {}
  /\ snap = [s \in Sessions |-> Empty] /\ listed = [s \in Sessions |-> Empty]
  /\ answers = [s \in Sessions |-> <<>>]
  /\ signed = [s \in Sessions |-> Absent] /\ binds = [s \in Sessions |-> <<>>]

Open(s) == s \notin open /\ open' = open \cup {s} /\ UNCHANGED <<snap, answers, listed, signed, binds>>

Close(s) ==
  /\ s \in open /\ open' = open \ {s}
  /\ snap' = [snap EXCEPT ![s] = Empty] /\ listed' = [listed EXCEPT ![s] = Empty]
  /\ answers' = [answers EXCEPT ![s] = <<>>]
  /\ signed' = [signed EXCEPT ![s] = Absent] /\ binds' = [binds EXCEPT ![s] = <<>>]

Take(s) ==
  /\ s \in open /\ ~snap[s].set
  /\ \E a \in [1..NumProviders -> Contents], index \in Index :
       /\ Merges(index, a)
       /\ snap' = [snap EXCEPT ![s] = [set |-> TRUE, index |-> index]]
       /\ answers' = [answers EXCEPT ![s] = a]
  /\ UNCHANGED <<open, listed, signed, binds>>

List(s) ==
  /\ s \in open /\ snap[s].set
  /\ listed' = [listed EXCEPT ![s] = snap[s]]
  /\ UNCHANGED <<open, snap, answers, signed, binds>>

Sign(s, p, flags) ==
  LET k == snap[s].index[p] IN
  /\ s \in open /\ snap[s].set
  /\ k # Absent /\ CanSign(k, flags)
  /\ signed' = [signed EXCEPT ![s] = k]
  /\ UNCHANGED <<open, snap, answers, listed, binds>>

\* Hops follow each other until one authenticates, and no hop comes twice.
Bind(s, id, fwd) ==
  /\ s \in open /\ \A i \in DOMAIN binds[s] : binds[s][i].fwd /\ binds[s][i].id # id
  /\ binds' = [binds EXCEPT ![s] = Append(@, [id |-> id, fwd |-> fwd])]
  /\ UNCHANGED <<open, snap, answers, listed, signed>>

Next == \E s \in Sessions :
  \/ Open(s) \/ Close(s) \/ Take(s) \/ List(s)
  \/ \E p \in Pubs, flags \in Flags : Sign(s, p, flags)
  \/ \E id \in Ids, fwd \in BOOLEAN : Bind(s, id, fwd)

Spec == Init /\ [][Next]_vars
=============================================================================
