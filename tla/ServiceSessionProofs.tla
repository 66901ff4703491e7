------------------------ MODULE ServiceSessionProofs ------------------------
(***************************************************************************)
(* Proofs about ServiceSession, for any sessions, any list of providers    *)
(* and any snapshots they return.                                          *)
(***************************************************************************)
EXTENDS ServiceSession, TLAPS, WellFoundedInduction

-----------------------------------------------------------------------------
(* What HashMap::extend does with one provider's snapshot.                 *)

LEMMA NatMin ==
  ASSUME NEW T, T \subseteq Nat, T # {}
  PROVE  \E x \in T : \A y \in T : x <= y
<1>1. PICK x \in T : \A y \in T : ~ (<<y, x>> \in OpToRel(<, Nat))
  BY NatLessThanWellFounded, WFMin
<1>2. ASSUME NEW y \in T PROVE x <= y
  <2>1. OpToRel(<, Nat) = {ss \in Nat \X Nat : ss[1] < ss[2]}
    BY Zenon DEF OpToRel
  <2>2. y < x => <<y, x>> \in OpToRel(<, Nat)
    BY <2>1
  <2>3. ~(y < x)
    BY <1>1, <2>2, Zenon
  <2>4. x \in Nat /\ y \in Nat
    OBVIOUS
  <2> QED BY <2>3, <2>4
<1> QED BY <1>2

\* A public key that occurs in a snapshot has a last occurrence.
LEMMA LastAtIs ==
  ASSUME NEW content \in Seq(Keys), NEW p \in Pubs, At(content, p) # {}
  PROVE  LastAt(content, p) \in At(content, p) /\ \A j \in At(content, p) : j <= LastAt(content, p)
<1> DEFINE T == {Len(content) - i : i \in At(content, p)}
<1>1. \A i \in At(content, p) : i \in 1..Len(content)
  BY DEF At
<1>2. T \subseteq Nat /\ T # {}
  BY <1>1
<1> HIDE DEF T
<1>3. PICK x \in T : \A y \in T : x <= y
  BY <1>2, NatMin
<1>4. PICK i \in At(content, p) : x = Len(content) - i
  BY DEF T
<1>5. \A j \in At(content, p) : j <= i
  <2> TAKE j \in At(content, p)
  <2>1. x <= Len(content) - j
    BY <1>3 DEF T
  <2> QED BY <1>1, <1>4, <2>1
<1> QED BY <1>5 DEF LastAt

LEMMA ExtendType ==
  ASSUME NEW index \in Index, NEW content \in Seq(Keys)
  PROVE  Extend(index, content) \in Index
<1> SUFFICES ASSUME NEW p \in Pubs, At(content, p) # {} PROVE content[LastAt(content, p)] \in Keys
  BY DEF Extend, Index
<1> QED BY LastAtIs DEF At

\* The index after one more provider merges one more answer.
LEMMA ExtendMerges ==
  ASSUME NEW index \in Index, NEW content \in Seq(Keys), NEW g \in Seq(Seq(Keys)), Merges(index, g)
  PROVE  Merges(Extend(index, content), Append(g, content))
<1> DEFINE h == Append(g, content)
           n == Len(g) + 1
           after == Extend(index, content)
<1>1. /\ DOMAIN h = 1..n /\ DOMAIN g = 1..Len(g) /\ h[n] = content /\ n \in DOMAIN h
      /\ \A m \in DOMAIN g : h[m] = g[m] /\ m < n /\ m \in DOMAIN h
      /\ \A m \in DOMAIN h : m = n \/ m \in DOMAIN g
  OBVIOUS
<1> HIDE DEF h, n
<1> SUFFICES ASSUME NEW p \in Pubs
             PROVE  IF \E m \in DOMAIN h : At(h[m], p) # {}
                    THEN \E i \in DOMAIN h : \E j \in DOMAIN h[i] : LastOccurrence(h, i, j, p) /\ after[p] = h[i][j]
                    ELSE after[p] = Absent
  BY DEF Merges, h
<1>2. CASE At(content, p) # {}
  <2> DEFINE j == LastAt(content, p)
  <2>1. j \in DOMAIN content /\ PubOf[content[j]] = p /\ \A k \in At(content, p) : k <= j
    BY <1>2, LastAtIs DEF At
  <2>2. after[p] = h[n][j]
    BY <1>1, <1>2 DEF Extend
  <2> HIDE DEF j
  <2>3. LastOccurrence(h, n, j, p)
    BY <1>1, <2>1 DEF LastOccurrence
  <2> QED BY <1>1, <1>2, <2>1, <2>2, <2>3
<1>3. CASE At(content, p) = {}
  <2>1. after[p] = index[p]
    BY <1>3 DEF Extend
  <2> HIDE DEF after
  <2>2. CASE \E m \in DOMAIN g : At(g[m], p) # {}
    <3>1. PICK i \in DOMAIN g : \E j \in DOMAIN g[i] : LastOccurrence(g, i, j, p) /\ index[p] = g[i][j]
      BY <2>2 DEF Merges
    <3>2. PICK j \in DOMAIN g[i] : LastOccurrence(g, i, j, p) /\ index[p] = g[i][j]
      BY <3>1
    <3>3. LastOccurrence(h, i, j, p)
      BY <1>1, <1>3, <3>2 DEF LastOccurrence
    <3> QED BY <1>1, <2>1, <2>2, <3>2, <3>3
  <2>3. CASE ~\E m \in DOMAIN g : At(g[m], p) # {}
    <3>1. index[p] = Absent
      BY <2>3 DEF Merges
    <3>2. ~\E m \in DOMAIN h : At(h[m], p) # {}
      BY <1>1, <1>3, <2>3
    <3> QED BY <2>1, <3>1, <3>2
  <2> QED BY <2>2, <2>3
<1> QED BY <1>2, <1>3

-----------------------------------------------------------------------------
(* Types.                                                                  *)

LEMMA EmptyType == NoKeys \in Index /\ Empty \in [set : BOOLEAN, index : Index] /\ ~Empty.set
BY DEF NoKeys, Index, Empty

LEMMA ListingType == Listing \in Requests
BY DEF Requests

\* A request that is not for the list names a public key.
LEMMA PubWanted == TypeOK => \A s \in Sessions : want[s] # Listing => want[s].pub \in Pubs
BY DEF TypeOK, Requests

LEMMA TypeStep == TypeOK /\ [Next]_vars => TypeOK'
<1> SUFFICES ASSUME TypeOK, [Next]_vars PROVE TypeOK'
  OBVIOUS
<1> USE SessionAssumption DEF TypeOK, Goto
<1>1. CASE UNCHANGED vars
  BY <1>1 DEF vars
<1>2. ASSUME NEW s \in Sessions, Open(s) PROVE TypeOK'
  BY <1>2 DEF Open
<1>3. ASSUME NEW s \in Sessions, Close(s) PROVE TypeOK'
  <2>1. /\ pc' \in [Sessions -> {"closed", "idle", "loading", "answering"}]
        /\ \A t \in Sessions : pc'[t] = "answering" => t # s /\ pc[t] = "answering"
    BY <1>3 DEF Close
  <2>2. want' \in [Sessions -> Requests] /\ signed' \in [Sessions -> Keys \cup {Absent}]
    BY <1>3, ListingType DEF Close
  <2>3. out' \in [Sessions -> Index] /\ got' \in [Sessions -> Seq(Contents)] /\ binds' \in [Sessions -> Seq(Bind)]
    BY <1>3, EmptyType DEF Close
  <2>4. /\ keys' \in [Sessions -> [set : BOOLEAN, index : Index]]
        /\ listed' \in [Sessions -> [set : BOOLEAN, index : Index]]
        /\ \A t \in Sessions : t # s => keys'[t] = keys[t]
    BY <1>3, EmptyType DEF Close
  <2> QED BY <2>1, <2>2, <2>3, <2>4
<1>4. ASSUME NEW s \in Sessions, Ask(s) PROVE TypeOK'
  <2>1. want' \in [Sessions -> Requests]
    BY <1>4 DEF Ask
  <2>2. out' \in [Sessions -> Index] /\ got' \in [Sessions -> Seq(Contents)]
    <3>1. CASE keys[s].set
      BY <1>4, <3>1 DEF Ask, Memoized
    <3>2. CASE ~keys[s].set
      <4>1. out' = [out EXCEPT ![s] = NoKeys] /\ got' = [got EXCEPT ![s] = <<>>]
        BY <1>4, <3>2 DEF Ask, Memoized
      <4>2. <<>> \in Seq(Contents)
        OBVIOUS
      <4> QED BY <4>1, <4>2, EmptyType
    <3> QED BY <3>1, <3>2
  <2>3. /\ pc' \in [Sessions -> {"closed", "idle", "loading", "answering"}]
        /\ \A t \in Sessions : pc'[t] = "answering" => keys[t].set
    <3>1. CASE keys[s].set
      BY <1>4, <3>1 DEF Ask, Memoized
    <3>2. CASE ~keys[s].set
      BY <1>4, <3>2 DEF Ask, Memoized
    <3> QED BY <3>1, <3>2
  <2> QED BY <1>4, <2>1, <2>2, <2>3 DEF Ask
<1>5. ASSUME NEW s \in Sessions, Load(s) PROVE TypeOK'
  <2>1. PICK content \in Contents : /\ out' = [out EXCEPT ![s] = Extend(@, content)]
                                    /\ got' = [got EXCEPT ![s] = Append(@, content)]
    BY <1>5 DEF Load
  <2>2. Extend(out[s], content) \in Index
    BY ExtendType
  <2> QED BY <1>5, <2>1, <2>2 DEF Load
<1>6. ASSUME NEW s \in Sessions, ProviderFails(s) PROVE TypeOK'
  BY <1>6, EmptyType DEF ProviderFails, LoadFails
<1>7. ASSUME NEW s \in Sessions, Store(s) PROVE TypeOK'
  <2>1. /\ keys' \in [Sessions -> [set : BOOLEAN, index : Index]]
        /\ keys'[s].set /\ \A t \in Sessions : t # s => keys'[t] = keys[t]
    BY <1>7 DEF Store
  <2>2. out' \in [Sessions -> Index]
    BY <1>7, EmptyType DEF Store
  <2> QED BY <1>7, <2>1, <2>2 DEF Store
<1>8. ASSUME NEW s \in Sessions, List(s) \/ Sign(s) \/ SignFails(s) PROVE TypeOK'
  <2>1. pc' = [pc EXCEPT ![s] = "idle"] /\ UNCHANGED <<want, out, got, keys, binds>>
    BY <1>8 DEF List, Sign, SignFails
  <2>2. listed' \in [Sessions -> [set : BOOLEAN, index : Index]]
    BY <1>8 DEF List, Sign, SignFails
  <2>3. signed' \in [Sessions -> Keys \cup {Absent}]
    <3>1. keys[s].index \in Index
      OBVIOUS
    <3>2. want[s] # Listing => Resolved(s) \in Keys \cup {Absent}
      BY <3>1, PubWanted DEF Index, Resolved
    <3> QED BY <1>8, <3>2 DEF List, Sign, SignFails
  <2> QED BY <2>1, <2>2, <2>3
<1>9. ASSUME NEW s \in Sessions, NEW id \in Ids, NEW fwd \in BOOLEAN, SessionBind(s, id, fwd) PROVE TypeOK'
  <2>1. [id |-> id, fwd |-> fwd] \in Bind
    BY DEF Bind
  <2> QED BY <1>9, <2>1 DEF SessionBind
<1> QED
  BY <1>1, <1>2, <1>3, <1>4, <1>5, <1>6, <1>7, <1>8, <1>9 DEF Next

LEMMA TypeInit == Init => TypeOK
BY EmptyType, ListingType DEF Init, TypeOK

\* Every variable keeps its type, and a request is answered only from a cell
\* that is set.
THEOREM SessionType == Spec => []TypeOK
BY TypeInit, TypeStep, PTL DEF Spec

-----------------------------------------------------------------------------
(* The snapshot.                                                           *)

\* What a session holds at each point: an index in the making merges the answers
\* so far, the cell merges those of all providers, and whatever the client was
\* shown or was signed with comes from the cell.
HoldsOne(s) ==
  /\ pc[s] = "loading" => ~keys[s].set /\ Merges(out[s], got[s])
  /\ keys[s].set => Len(got[s]) = NumProviders /\ Merges(keys[s].index, got[s])
  /\ listed[s].set => keys[s].set /\ listed[s].index = keys[s].index
  /\ signed[s] # Absent => keys[s].set /\ keys[s].index[PubOf[signed[s]]] = signed[s]

SessionInv == TypeOK /\ \A s \in Sessions : HoldsOne(s)

LEMMA EmptyMerges == Merges(NoKeys, <<>>)
BY DEF Merges, NoKeys

\* A merged index maps each public key to a key pair that has it.
LEMMA MergedPub ==
  ASSUME NEW index, NEW g, Merges(index, g), NEW p \in Pubs, index[p] # Absent
  PROVE  PubOf[index[p]] = p
BY DEF Merges, LastOccurrence

LEMMA GotType == TypeOK => \A s \in Sessions : got[s] \in Seq(Seq(Keys)) /\ Len(got[s]) \in Nat
<1> SUFFICES ASSUME TypeOK, NEW s \in Sessions PROVE got[s] \in Seq(Seq(Keys)) /\ Len(got[s]) \in Nat
  OBVIOUS
<1>1. got[s] \in Seq(Contents)
  BY DEF TypeOK
<1>2. \A i \in 1..Len(got[s]) : got[s][i] \in Seq(Keys)
  BY <1>1, SessionAssumption
<1>3. got[s] \in [1..Len(got[s]) -> Seq(Keys)] /\ Len(got[s]) \in Nat
  BY <1>1, <1>2
<1> QED BY <1>3

LEMMA SessionStep == SessionInv /\ [Next]_vars => SessionInv'
<1> SUFFICES ASSUME SessionInv, [Next]_vars, NEW t \in Sessions PROVE HoldsOne(t)'
  BY TypeStep DEF SessionInv
<1>0. HoldsOne(t) /\ TypeOK
  BY DEF SessionInv
<1> DEFINE Same == UNCHANGED <<pc[t], out[t], got[t], keys[t], listed[t], signed[t]>>
<1>1. Same => HoldsOne(t)'
  BY <1>0 DEF HoldsOne
<1>2. CASE UNCHANGED vars
  BY <1>1, <1>2 DEF vars
<1>3. ASSUME NEW s \in Sessions, s # t,
             \/ Open(s) \/ Close(s) \/ Ask(s) \/ Load(s) \/ ProviderFails(s) \/ Store(s)
             \/ List(s) \/ Sign(s) \/ SignFails(s)
             \/ \E id \in Ids, fwd \in BOOLEAN : SessionBind(s, id, fwd)
      PROVE  HoldsOne(t)'
  <2>1. Same
    BY <1>0, <1>3 DEF Open, Close, Ask, Load, ProviderFails, LoadFails, Store, List, Sign, SignFails, SessionBind,
       Goto, TypeOK
  <2> QED BY <1>1, <2>1
<1>4. CASE Open(t) \/ SignFails(t)
  BY <1>0, <1>4 DEF Open, SignFails, Goto, TypeOK, HoldsOne
<1>5. CASE Close(t)
  BY <1>0, <1>5, EmptyType DEF Close, Goto, TypeOK, HoldsOne
<1>6. CASE Ask(t)
  <2>1. CASE keys[t].set
    BY <1>0, <1>6, <2>1 DEF Ask, Memoized, Goto, TypeOK, HoldsOne
  <2>2. CASE ~keys[t].set
    <3>1. out'[t] = NoKeys /\ got'[t] = <<>> /\ UNCHANGED <<keys, listed, signed>>
      BY <1>0, <1>6, <2>2 DEF Ask, Memoized, TypeOK
    <3> QED BY <1>0, <2>2, <3>1, EmptyMerges DEF HoldsOne
  <2> QED BY <2>1, <2>2
<1>7. CASE Load(t)
  <2>1. PICK content \in Contents : /\ out' = [out EXCEPT ![t] = Extend(@, content)]
                                    /\ got' = [got EXCEPT ![t] = Append(@, content)]
    BY <1>7 DEF Load
  <2>2. out'[t] = Extend(out[t], content) /\ got'[t] = Append(got[t], content)
    BY <1>0, <2>1 DEF TypeOK
  <2>3. pc[t] = "loading" /\ UNCHANGED <<pc, keys, listed, signed>>
    BY <1>7 DEF Load
  <2>4. ~keys[t].set /\ Merges(out[t], got[t])
    BY <1>0, <2>3 DEF HoldsOne
  <2>5. out[t] \in Index /\ content \in Seq(Keys)
    BY <1>0, SessionAssumption DEF TypeOK
  <2>6. Merges(out'[t], got'[t])
    BY <1>0, <2>2, <2>4, <2>5, ExtendMerges, GotType
  <2> QED BY <1>0, <2>3, <2>4, <2>6 DEF HoldsOne
<1>8. CASE ProviderFails(t)
  <2>1. pc'[t] = "idle" /\ pc[t] = "loading" /\ UNCHANGED <<keys, listed, signed>>
    BY <1>0, <1>8 DEF ProviderFails, LoadFails, Goto, TypeOK
  <2> QED BY <1>0, <2>1 DEF HoldsOne
<1>9. CASE Store(t)
  <2>1. /\ pc[t] = "loading" /\ pc'[t] = "answering" /\ Len(got[t]) = NumProviders
        /\ keys'[t] = [set |-> TRUE, index |-> out[t]]
        /\ UNCHANGED <<got, listed, signed>>
    BY <1>0, <1>9 DEF Store, Goto, TypeOK
  <2> QED BY <1>0, <2>1 DEF HoldsOne
<1>10. CASE List(t)
  <2>1. pc'[t] = "idle" /\ listed'[t] = keys[t] /\ keys[t].set /\ UNCHANGED <<got, keys, signed>>
    BY <1>0, <1>10 DEF List, Goto, TypeOK
  <2> QED BY <1>0, <2>1 DEF HoldsOne
<1>11. CASE Sign(t)
  <2>1. /\ pc'[t] = "idle" /\ want[t].pub \in Pubs /\ keys[t].set /\ UNCHANGED <<got, keys, listed>>
        /\ keys[t].index[want[t].pub] # Absent /\ signed'[t] = keys[t].index[want[t].pub]
    BY <1>0, <1>11, PubWanted DEF Sign, Answerable, Resolved, Goto, TypeOK
  <2>2. PubOf[signed'[t]] = want[t].pub
    BY <1>0, <2>1, MergedPub DEF HoldsOne
  <2> QED BY <1>0, <2>1, <2>2 DEF HoldsOne
<1>12. ASSUME NEW id \in Ids, NEW fwd \in BOOLEAN, SessionBind(t, id, fwd) PROVE HoldsOne(t)'
  BY <1>1, <1>12 DEF SessionBind
<1>13. ASSUME NEW s \in Sessions,
             \/ Open(s) \/ Close(s) \/ Ask(s) \/ Load(s) \/ ProviderFails(s) \/ Store(s)
             \/ List(s) \/ Sign(s) \/ SignFails(s)
             \/ \E id \in Ids, fwd \in BOOLEAN : SessionBind(s, id, fwd)
       PROVE HoldsOne(t)'
  <2>1. CASE s # t
    BY <1>3, <1>13, <2>1
  <2>2. CASE s = t
    BY <1>4, <1>5, <1>6, <1>7, <1>8, <1>9, <1>10, <1>11, <1>12, <1>13, <2>2
  <2> QED BY <2>1, <2>2
<1> QED
  BY <1>2, <1>13 DEF Next

LEMMA SessionCorrect == Spec => []SessionInv
<1>1. Init => SessionInv
  BY TypeInit, EmptyType DEF Init, SessionInv, HoldsOne
<1> QED BY <1>1, SessionStep, PTL DEF Spec

\* The snapshot of a session merges the answers of all providers, and a failed
\* load leaves none behind.
THEOREM WholeSnapshot == Spec => []SnapshotWhole
<1>1. SessionInv => SnapshotWhole
  BY DEF SessionInv, HoldsOne, SnapshotWhole
<1> QED BY <1>1, SessionCorrect, PTL

\* The key pair that signs is the one the client was shown, however the
\* providers answer in the meantime.
THEOREM ListedSigns == Spec => []SignsWhatWasListed
<1>1. SessionInv => SignsWhatWasListed
  BY DEF SessionInv, HoldsOne, SignsWhatWasListed
<1> QED BY <1>1, SessionCorrect, PTL

\* A client that was shown a key that can sign gets its signature: its session
\* loads nothing any more, and resolves the key to the pair it showed.
THEOREM ShownKeySigns == Spec => ListedKeySigns
<1>1. SessionInv /\ [Next]_vars =>
        [\A s \in Sessions :
           LET k == listed[s].index[want[s].pub] IN
           /\ pc[s] \in {"loading", "answering"} /\ pc'[s] = "idle"
           /\ listed[s].set /\ want[s] # Listing
           /\ k # Absent /\ CanSign(k, want[s].flags)
           => signed'[s] = k]_vars
  <2> SUFFICES ASSUME SessionInv, Next, NEW t \in Sessions,
                      pc[t] \in {"loading", "answering"}, pc'[t] = "idle",
                      listed[t].set, want[t] # Listing,
                      listed[t].index[want[t].pub] # Absent,
                      CanSign(listed[t].index[want[t].pub], want[t].flags)
               PROVE  signed'[t] = listed[t].index[want[t].pub]
    OBVIOUS
  <2>1. TypeOK /\ HoldsOne(t)
    BY DEF SessionInv
  <2>2. pc[t] = "answering" /\ listed[t].index = keys[t].index
    BY <2>1 DEF HoldsOne
  <2>3. Answerable(t) /\ Resolved(t) = listed[t].index[want[t].pub]
    BY <2>2 DEF Answerable, Resolved
  <2>4. ASSUME NEW s \in Sessions,
               \/ Open(s) \/ Close(s) \/ Ask(s) \/ Load(s) \/ ProviderFails(s) \/ Store(s)
               \/ List(s) \/ SignFails(s) \/ \E id \in Ids, fwd \in BOOLEAN : SessionBind(s, id, fwd)
        PROVE  FALSE
    <3>1. CASE s # t
      <4>1. pc'[t] = pc[t]
        BY <2>1, <2>4, <3>1 DEF TypeOK, Goto, Open, Close, Ask, Load, ProviderFails, LoadFails, Store, List,
           SignFails, SessionBind
      <4> QED BY <2>2, <4>1
    <3>2. CASE s = t
      BY <2>1, <2>2, <2>3, <2>4, <3>2 DEF Open, Close, Ask, Load, ProviderFails, Store, List, SignFails,
         SessionBind, Goto, TypeOK
    <3> QED BY <3>1, <3>2
  <2>5. PICK s \in Sessions : Sign(s)
    BY <2>4 DEF Next
  <2>6. s = t
    BY <2>1, <2>2, <2>5 DEF Sign, Goto, TypeOK
  <2> QED BY <2>1, <2>3, <2>5, <2>6 DEF Sign, TypeOK
<1> QED BY <1>1, SessionCorrect, PTL DEF Spec, ListedKeySigns

\* Whatever records are sent and in whatever order, the accepted ones form a
\* chain of distinct hops that at most one authentication ends.
THEOREM BindsChain == Spec => []BindChain
<1>1. Init => BindChain
  BY DEF Init, BindChain
<1>2. TypeOK /\ BindChain /\ [Next]_vars => BindChain'
  <2> SUFFICES ASSUME TypeOK, BindChain, [Next]_vars, NEW t \in Sessions,
                      NEW i \in DOMAIN binds'[t], NEW j \in DOMAIN binds'[t], i < j
               PROVE  binds'[t][i].fwd /\ binds'[t][i].id # binds'[t][j].id
    BY DEF BindChain
  <2>1. CASE binds'[t] = binds[t]
    BY <2>1 DEF BindChain
  <2>2. CASE binds'[t] = <<>>
    BY <2>2
  <2>3. ASSUME NEW id \in Ids, NEW fwd \in BOOLEAN, SessionBind(t, id, fwd)
        PROVE  binds'[t][i].fwd /\ binds'[t][i].id # binds'[t][j].id
    <3>1. binds'[t] = Append(binds[t], [id |-> id, fwd |-> fwd]) /\ binds[t] \in Seq(Bind)
      BY <2>3 DEF SessionBind, TypeOK
    <3>2. i \in DOMAIN binds[t] /\ binds'[t][i] = binds[t][i]
      BY <3>1
    <3>3. CASE j \in DOMAIN binds[t]
      BY <3>1, <3>2, <3>3 DEF BindChain
    <3>4. CASE j \notin DOMAIN binds[t]
      <4>1. binds'[t][j].id = id
        BY <3>1, <3>4
      <4> QED BY <2>3, <3>2, <4>1 DEF SessionBind, Known, Locked
    <3> QED BY <3>3, <3>4
  <2>4. binds'[t] = binds[t] \/ binds'[t] = <<>> \/ \E id \in Ids, fwd \in BOOLEAN : SessionBind(t, id, fwd)
    BY DEF Next, vars, TypeOK, Open, Close, Ask, Load, ProviderFails, Store, List, Sign, SignFails, SessionBind
  <2> QED BY <2>1, <2>2, <2>3, <2>4
<1> QED BY <1>1, <1>2, SessionType, PTL DEF Spec
-----------------------------------------------------------------------------
(* A session keeps the promise of SnapshotAgent.                           *)

\* The two modules share their definitions of a merge and of the empty snapshot.
LEMMA SameIndex ==
  /\ Promise!Index = Index /\ Promise!Empty = Empty /\ Promise!Flags = Flags
  /\ \A index, g : Promise!Merges(index, g) <=> Merges(index, g)
  /\ \A k, flags : Promise!CanSign(k, flags) <=> CanSign(k, flags)
<1>1. Promise!Index = Index /\ Promise!Empty = Empty /\ Promise!Flags = Flags
  BY DEF Promise!Index, Index, Promise!Empty, Empty, Promise!NoKeys, NoKeys, Promise!Flags, Flags
<1>2. \A content, p : Promise!At(content, p) = At(content, p)
  BY DEF Promise!At, At
<1>3. \A g, i, j, p : Promise!LastOccurrence(g, i, j, p) <=> LastOccurrence(g, i, j, p)
  BY <1>2 DEF Promise!LastOccurrence, LastOccurrence
<1>4. \A index, g : Promise!Merges(index, g) <=> Merges(index, g)
  BY <1>2, <1>3 DEF Promise!Merges, Merges
<1>5. \A k, flags : Promise!CanSign(k, flags) <=> CanSign(k, flags)
  BY DEF Promise!CanSign, CanSign
<1> QED BY <1>1, <1>4, <1>5

\* A step that neither opens nor closes a session.
LEMMA StillOpen ==
  ASSUME TypeOK, NEW s \in Sessions, NEW to, pc[s] # "closed", to # "closed", Goto(s, to)
  PROVE  UNCHANGED OpenSessions
BY DEF Goto, OpenSessions, TypeOK

\* A step that leaves the cells alone, and touches the answers only of a session
\* that has no snapshot.
LEMMA SameMerged ==
  ASSUME UNCHANGED keys, \A s \in Sessions : keys[s].set => got'[s] = got[s]
  PROVE  UNCHANGED Merged
BY DEF Merged

LEMMA PromiseStep ==
  ASSUME SessionInv, NEW s \in Sessions,
         \/ Open(s) \/ Close(s) \/ Ask(s) \/ Load(s) \/ ProviderFails(s) \/ Store(s)
         \/ List(s) \/ Sign(s) \/ SignFails(s)
         \/ \E id \in Ids, fwd \in BOOLEAN : SessionBind(s, id, fwd)
  PROVE  Promise!Next \/ UNCHANGED Promise!vars
<1>0. TypeOK /\ HoldsOne(s)
  BY DEF SessionInv
<1>1. CASE Open(s)
  <2>1. s \notin OpenSessions /\ OpenSessions' = OpenSessions \cup {s}
    BY <1>0, <1>1 DEF Open, Goto, TypeOK, OpenSessions
  <2>2. UNCHANGED Merged
    BY <1>1, SameMerged DEF Open
  <2>3. Promise!Open(s)
    BY <1>1, <2>1, <2>2 DEF Open, Promise!Open
  <2> QED BY <2>3 DEF Promise!Next
<1>2. CASE Close(s)
  <2>1. s \in OpenSessions /\ OpenSessions' = OpenSessions \ {s}
    BY <1>0, <1>2 DEF Close, Goto, TypeOK, OpenSessions
  <2>2. Merged' = [Merged EXCEPT ![s] = <<>>]
    BY <1>0, <1>2, EmptyType DEF Close, Merged, TypeOK
  <2>3. Promise!Close(s)
    BY <1>2, <2>1, <2>2, SameIndex DEF Close, Promise!Close
  <2> QED BY <2>3 DEF Promise!Next
<1>3. CASE Ask(s) \/ ProviderFails(s) \/ SignFails(s)
  <2>1. UNCHANGED OpenSessions
    BY <1>0, <1>3, StillOpen DEF Ask, ProviderFails, LoadFails, SignFails
  <2>2. UNCHANGED <<keys, listed, signed, binds>>
    BY <1>3 DEF Ask, ProviderFails, LoadFails, SignFails
  <2>3. \A t \in Sessions : keys[t].set => got'[t] = got[t]
    BY <1>0, <1>3 DEF Ask, Memoized, ProviderFails, LoadFails, SignFails, HoldsOne, TypeOK
  <2>4. UNCHANGED Merged
    BY <2>2, <2>3, SameMerged
  <2> QED BY <2>1, <2>2, <2>4 DEF Promise!vars
<1>4. CASE Load(s)
  <2>1. UNCHANGED <<pc, keys, listed, signed, binds>>
    BY <1>4 DEF Load
  <2>2. \A t \in Sessions : keys[t].set => got'[t] = got[t]
    BY <1>0, <1>4 DEF Load, HoldsOne, TypeOK
  <2>3. UNCHANGED Merged
    BY <2>1, <2>2, SameMerged
  <2> QED BY <2>1, <2>3 DEF Promise!vars, OpenSessions
<1>5. CASE Store(s)
  <2>1. s \in OpenSessions /\ UNCHANGED OpenSessions
    BY <1>0, <1>5, StillOpen DEF Store, OpenSessions
  <2>2. ~keys[s].set /\ Merges(out[s], got[s]) /\ Len(got[s]) = NumProviders
    BY <1>0, <1>5 DEF Store, HoldsOne
  <2>3. got[s] \in [1..NumProviders -> Contents] /\ out[s] \in Index
    <3>1. got[s] \in Seq(Contents)
      BY <1>0 DEF TypeOK
    <3> QED BY <1>0, <2>2, <3>1 DEF TypeOK
  <2>4. keys' = [keys EXCEPT ![s] = [set |-> TRUE, index |-> out[s]]] /\ UNCHANGED <<got, listed, signed, binds>>
    BY <1>5 DEF Store
  <2>5. Merged' = [Merged EXCEPT ![s] = got[s]]
    BY <1>0, <2>4 DEF Merged, TypeOK
  <2>6. Promise!Take(s)
    BY <2>1, <2>2, <2>3, <2>4, <2>5, SameIndex DEF Promise!Take
  <2> QED BY <2>6 DEF Promise!Next
<1>6. CASE List(s)
  <2>1. s \in OpenSessions /\ UNCHANGED OpenSessions
    BY <1>0, <1>6, StillOpen DEF List, OpenSessions
  <2>2. keys[s].set /\ UNCHANGED Merged
    BY <1>0, <1>6, SameMerged DEF List, TypeOK
  <2>3. Promise!List(s)
    BY <1>6, <2>1, <2>2 DEF List, Promise!List
  <2> QED BY <2>3 DEF Promise!Next
<1>7. CASE Sign(s)
  <2>1. s \in OpenSessions /\ UNCHANGED OpenSessions
    BY <1>0, <1>7, StillOpen DEF Sign, OpenSessions
  <2>2. keys[s].set /\ want[s].pub \in Pubs /\ want[s].flags \in Flags /\ UNCHANGED Merged
    BY <1>0, <1>7, PubWanted, SameMerged DEF Sign, TypeOK, Requests
  <2>3. Promise!Sign(s, want[s].pub, want[s].flags)
    BY <1>7, <2>1, <2>2, SameIndex DEF Sign, Answerable, Resolved, Promise!Sign
  <2> QED BY <2>2, <2>3, SameIndex DEF Promise!Next
<1>8. ASSUME NEW id \in Ids, NEW fwd \in BOOLEAN, SessionBind(s, id, fwd) PROVE Promise!Next
  <2>1. s \in OpenSessions /\ UNCHANGED <<OpenSessions, Merged>>
    BY <1>8, SameMerged DEF SessionBind, OpenSessions
  <2>2. \A i \in DOMAIN binds[s] : binds[s][i].fwd /\ binds[s][i].id # id
    BY <1>8 DEF SessionBind, Known, Locked
  <2>3. Promise!Bind(s, id, fwd)
    BY <1>8, <2>1, <2>2 DEF SessionBind, Promise!Bind
  <2> QED BY <2>3 DEF Promise!Next
<1> QED BY <1>1, <1>2, <1>3, <1>4, <1>5, <1>6, <1>7, <1>8

\* Whatever the providers answer, fail or change, a session takes one whole snapshot
\* at one moment and serves its client from that one until it closes.
THEOREM Refinement == Spec => ImplementsSnapshotAgent
<1>1. Init => Promise!Init
  BY SameIndex, EmptyType DEF Init, Promise!Init, OpenSessions, Merged
<1>2. SessionInv /\ [Next]_vars => [Promise!Next]_Promise!vars
  <2> SUFFICES ASSUME SessionInv, [Next]_vars PROVE Promise!Next \/ UNCHANGED Promise!vars
    OBVIOUS
  <2>1. CASE UNCHANGED vars
    BY <2>1 DEF vars, Promise!vars, OpenSessions, Merged
  <2>2. CASE Next
    BY <2>2, PromiseStep DEF Next
  <2> QED BY <2>1, <2>2
<1> QED BY <1>1, <1>2, SessionCorrect, PTL DEF Spec, ImplementsSnapshotAgent, Promise!Spec
=============================================================================
