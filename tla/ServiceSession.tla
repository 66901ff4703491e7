--------------------------- MODULE ServiceSession ---------------------------
(***************************************************************************)
(* The agent sessions of keyring-service (runtime.rs): each connection     *)
(* loads the keys of all providers once, lists and signs from that         *)
(* snapshot, and collects session-bind records. The requests of one        *)
(* connection follow each other; the providers are shared by all and       *)
(* answer differently from load to load.                                   *)
(***************************************************************************)
EXTENDS KeyIndex

CONSTANTS
  Sessions,      \* client connections
  NumProviders,  \* length of the provider list, in the order of the configuration
  Contents,      \* snapshots a provider may return
  Ids            \* session identifiers of session-bind

ASSUME SessionAssumption ==
  /\ NumProviders \in Nat \ {0}
  /\ PubOf \in [Keys -> Pubs]
  /\ KindOf \in [Keys -> {"ed25519", "rsa", "unfit"}]
  /\ Contents \subseteq Seq(Keys)
  /\ Absent \notin Keys \cup Pubs

VARIABLES
  pc,      \* closed, between requests, loading for one, or about to answer it
  want,    \* the request under way
  out,     \* the index that load() is building
  got,     \* history: what the providers returned to the load or the snapshot
  keys,    \* the OnceCell: whether it is set, and its value
  listed,  \* history: the last list of identities the client was given
  signed,  \* history: the key pair of the last signature
  binds    \* the accepted session-bind records

vars == <<pc, want, out, got, keys, listed, signed, binds>>

Listing == [pub |-> Absent, flags |-> {}]
Requests == {Listing} \cup [pub : Pubs, flags : Flags]
Bind == [id : Ids, fwd : BOOLEAN]

TypeOK ==
  /\ pc \in [Sessions -> {"closed", "idle", "loading", "answering"}]
  /\ want \in [Sessions -> Requests]
  /\ out \in [Sessions -> Index]
  /\ got \in [Sessions -> Seq(Contents)]
  /\ keys \in [Sessions -> [set : BOOLEAN, index : Index]]
  /\ listed \in [Sessions -> [set : BOOLEAN, index : Index]]
  /\ signed \in [Sessions -> Keys \cup {Absent}]
  /\ binds \in [Sessions -> Seq(Bind)]
  /\ \A s \in Sessions : pc[s] = "answering" => keys[s].set

Init ==
  /\ pc = [s \in Sessions |-> "closed"] /\ want = [s \in Sessions |-> Listing]
  /\ out = [s \in Sessions |-> NoKeys] /\ got = [s \in Sessions |-> <<>>]
  /\ keys = [s \in Sessions |-> Empty] /\ listed = [s \in Sessions |-> Empty]
  /\ signed = [s \in Sessions |-> Absent] /\ binds = [s \in Sessions |-> <<>>]

Goto(s, to) == pc' = [pc EXCEPT ![s] = to]

-----------------------------------------------------------------------------
(* The life of a session.                                                  *)

\* new_session
Open(s) ==
  /\ pc[s] = "closed" /\ Goto(s, "idle")
  /\ UNCHANGED <<want, out, got, keys, listed, signed, binds>>

\* The client task ends and drops the session, a load under way included.
Close(s) ==
  /\ pc[s] # "closed" /\ Goto(s, "closed")
  /\ want' = [want EXCEPT ![s] = Listing]
  /\ out' = [out EXCEPT ![s] = NoKeys] /\ got' = [got EXCEPT ![s] = <<>>]
  /\ keys' = [keys EXCEPT ![s] = Empty] /\ listed' = [listed EXCEPT ![s] = Empty]
  /\ signed' = [signed EXCEPT ![s] = Absent] /\ binds' = [binds EXCEPT ![s] = <<>>]

-----------------------------------------------------------------------------
(* request_identities and sign.                                            *)

Memoized_Never(s) == FALSE
Memoized(s) == keys[s].set

\* load_once: a snapshot is loaded by the first request that needs it.
Ask(s) ==
  /\ pc[s] = "idle"
  /\ \E r \in Requests : want' = [want EXCEPT ![s] = r]
  /\ IF Memoized(s)
     THEN Goto(s, "answering") /\ UNCHANGED <<out, got>>
     ELSE /\ Goto(s, "loading")
          /\ out' = [out EXCEPT ![s] = NoKeys] /\ got' = [got EXCEPT ![s] = <<>>]
  /\ UNCHANGED <<keys, listed, signed, binds>>

LastAt(content, p) == CHOOSE i \in At(content, p) : \A j \in At(content, p) : j <= i
Extend_KeepFirst(index, content) ==
  [p \in Pubs |-> IF index[p] # Absent \/ At(content, p) = {} THEN index[p] ELSE content[LastAt(content, p)]]
\* HashMap::extend: a later key replaces an earlier one with its public key.
Extend(index, content) ==
  [p \in Pubs |-> IF At(content, p) = {} THEN index[p] ELSE content[LastAt(content, p)]]

Load(s) ==
  /\ pc[s] = "loading" /\ Len(got[s]) < NumProviders
  /\ \E content \in Contents : /\ out' = [out EXCEPT ![s] = Extend(@, content)]
                               /\ got' = [got EXCEPT ![s] = Append(@, content)]
  /\ UNCHANGED <<pc, want, keys, listed, signed, binds>>

LoadFails_Swallowed(s) == Goto(s, "answering") /\ UNCHANGED <<out, got, keys>>
\* The first provider that fails ends the load; the cell stays empty.
LoadFails(s) == /\ Goto(s, "idle")
                /\ out' = [out EXCEPT ![s] = NoKeys] /\ got' = [got EXCEPT ![s] = <<>>]
                /\ UNCHANGED keys

ProviderFails(s) ==
  /\ pc[s] = "loading" /\ Len(got[s]) < NumProviders
  /\ LoadFails(s)
  /\ UNCHANGED <<want, listed, signed, binds>>

Store(s) ==
  /\ pc[s] = "loading" /\ Len(got[s]) = NumProviders
  /\ Goto(s, "answering")
  /\ keys' = [keys EXCEPT ![s] = [set |-> TRUE, index |-> out[s]]]
  /\ out' = [out EXCEPT ![s] = NoKeys]
  /\ UNCHANGED <<want, got, listed, signed, binds>>

List(s) ==
  /\ pc[s] = "answering" /\ want[s] = Listing /\ Goto(s, "idle")
  /\ listed' = [listed EXCEPT ![s] = keys[s]]
  /\ UNCHANGED <<want, out, got, keys, signed, binds>>

Resolved(s) == keys[s].index[want[s].pub]
Answerable(s) == Resolved(s) # Absent /\ CanSign(Resolved(s), want[s].flags)

Sign(s) ==
  /\ pc[s] = "answering" /\ want[s] # Listing /\ Goto(s, "idle")
  /\ Answerable(s)
  /\ signed' = [signed EXCEPT ![s] = Resolved(s)]
  /\ UNCHANGED <<want, out, got, keys, listed, binds>>

\* The key was not published, or sig() fails.
SignFails(s) ==
  /\ pc[s] = "answering" /\ want[s] # Listing /\ Goto(s, "idle")
  /\ ~Answerable(s)
  /\ UNCHANGED <<want, out, got, keys, listed, signed, binds>>

-----------------------------------------------------------------------------
(* extension: session-bind@openssh.com.                                    *)

Known(s, id) == \E i \in DOMAIN binds[s] : binds[s][i].id = id
Locked_First(s) == binds[s] # <<>> /\ ~Head(binds[s]).fwd
Locked(s) == \E i \in DOMAIN binds[s] : ~binds[s][i].fwd

\* A record that parses and verifies; all others are refused without a trace.
SessionBind(s, id, fwd) ==
  /\ pc[s] = "idle"
  /\ ~Known(s, id) /\ ~Locked(s)
  /\ binds' = [binds EXCEPT ![s] = Append(@, [id |-> id, fwd |-> fwd])]
  /\ UNCHANGED <<pc, want, out, got, keys, listed, signed>>

Next == \E s \in Sessions :
  \/ Open(s) \/ Close(s) \/ Ask(s) \/ Load(s) \/ ProviderFails(s) \/ Store(s)
  \/ List(s) \/ Sign(s) \/ SignFails(s)
  \/ \E id \in Ids, fwd \in BOOLEAN : SessionBind(s, id, fwd)

Spec == Init /\ [][Next]_vars

-----------------------------------------------------------------------------
(* Properties.                                                             *)

\* spec.md "the last loaded occurrence supplies the single published identity"
\* and "Failed loads SHALL fail the request without initializing the session
\* cache": a snapshot merges the answers of all providers, each asked once.
SnapshotWhole ==
  \A s \in Sessions : keys[s].set => Len(got[s]) = NumProviders /\ Merges(keys[s].index, got[s])

\* A client signs with the very key pair it was shown under that public key,
\* though the providers answer otherwise by then.
SignsWhatWasListed ==
  \A s \in Sessions : listed[s].set /\ signed[s] # Absent => listed[s].index[PubOf[signed[s]]] = signed[s]

\* spec.md "reuses the already loaded session-local private-key cache instead of
\* calling provider `load` again": a client that was shown a key gets its
\* signature, whatever has happened to the providers since.
ListedKeySigns ==
  [][\A s \in Sessions :
       LET k == listed[s].index[want[s].pub] IN
       /\ pc[s] \in {"loading", "answering"} /\ pc'[s] = "idle"
       /\ listed[s].set /\ want[s] # Listing
       /\ k # Absent /\ CanSign(k, want[s].flags)
       => signed'[s] = k]_vars

\* The records form a chain of distinct forwarding hops with at most one
\* authentication, at its end.
BindChain ==
  \A s \in Sessions : \A i, j \in DOMAIN binds[s] :
    i < j => binds[s][i].fwd /\ binds[s][i].id # binds[s][j].id

\* What a client can tell of its session, and the answers its snapshot merges.
OpenSessions == {s \in Sessions : pc[s] # "closed"}
Merged == [s \in Sessions |-> IF keys[s].set THEN got[s] ELSE <<>>]

\* spec.md "Session-scoped provider loading": loads that fail, are dropped or see the
\* providers change half-way keep the promise of SnapshotAgent.
Promise == INSTANCE SnapshotAgent WITH open <- OpenSessions, snap <- keys, answers <- Merged
ImplementsSnapshotAgent == Promise!Spec
=============================================================================
