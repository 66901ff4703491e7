--------------------------- MODULE KeyStoreProofs ---------------------------
(***************************************************************************)
(* Proofs about KeyStore, for any organizations and items and any number   *)
(* of rotations.                                                           *)
(***************************************************************************)
EXTENDS KeyStore, TLAPS

\* What the import relies on: the server sends no item of an organization that
\* the profile does not list, and only a private key that unwraps is persisted.
ServerInv ==
  /\ private => unwraps
  /\ \A i \in Items : vault[i].owner # NoOrg => vault[i].owner \in Listed

\* Where the import stands: what it has gone through is as the profile has it,
\* what is still to do is empty, and nothing is left of earlier imports.
ImportInv ==
  /\ todo \subseteq Listed
  /\ Importing => user
  /\ Importing /\ Listed # {} =>
       /\ private
       /\ \A o \in Orgs : orgKeys[o] = IF entry[o] = "good" /\ o \notin todo THEN version[o] ELSE 0

StoreInv == TypeOK /\ ServerInv /\ ImportInv

LEMMA StoreInit == Init => StoreInv
<1> SUFFICES ASSUME Init PROVE StoreInv
  OBVIOUS
<1> USE KeyStoreAssumption
<1>1. vault \in [Items -> Item] /\ \A i \in Items : vault[i].owner = NoOrg
  BY DEF Init, Item
<1>2. version \in [Orgs -> 1..MaxVersion] /\ orgKeys \in [Orgs -> 0..MaxVersion]
  BY DEF Init
<1>3. entry \in [Orgs -> {"none", "keyless", "garbled", "good"}]
  BY DEF Init
<1>4. /\ unwraps \in BOOLEAN /\ user \in BOOLEAN /\ private \in BOOLEAN /\ ~private
      /\ todo = {} /\ fetch = "none" /\ published = {}
  BY DEF Init
<1>5. \A o \in Orgs : orgKeys[o] = 0
  BY DEF Init
<1> QED BY <1>1, <1>2, <1>3, <1>4, <1>5 DEF StoreInv, TypeOK, ServerInv, ImportInv, Importing

-----------------------------------------------------------------------------
(* The bootstrap and the import.                                           *)

LEMMA LoginStep ==
  ASSUME StoreInv, Bootstrap \/ LoginFails \/ SyncFails \/ NoPrivateKey \/ Discover
  PROVE  StoreInv'
<1> USE DEF StoreInv, TypeOK, serverVars, storeVars, fetchVars, Importing, Listed
<1>1. CASE Bootstrap
  BY <1>1 DEF Bootstrap, ServerInv, ImportInv
<1>2. CASE LoginFails
  BY <1>2 DEF LoginFails, Halfway, ServerInv, ImportInv
<1>3. CASE SyncFails \/ NoPrivateKey
  BY <1>3 DEF SyncFails, NoPrivateKey, ServerInv, ImportInv
<1>4. CASE Discover
  BY <1>4 DEF Discover, ServerInv, ImportInv
<1> QED BY <1>1, <1>2, <1>3, <1>4

LEMMA BeginStep == StoreInv /\ BeginImport => StoreInv'
<1> SUFFICES ASSUME StoreInv, BeginImport PROVE StoreInv'
  OBVIOUS
<1> USE KeyStoreAssumption DEF StoreInv, serverVars
<1>1. UNCHANGED <<serverVars, user, private, published>> /\ todo' = Listed /\ fetch' = "importing" /\ user
  BY DEF BeginImport
<1>2. CASE Listed = {} /\ UNCHANGED orgKeys
  BY <1>1, <1>2 DEF TypeOK, ServerInv, ImportInv, Importing, Listed
<1>3. CASE private /\ orgKeys' = [o \in Orgs |-> Retained(o)]
  <2>1. orgKeys' \in [Orgs -> 0..MaxVersion] /\ \A o \in Orgs : orgKeys'[o] = 0
    BY <1>3 DEF Retained
  <2>2. TypeOK'
    BY <1>1, <2>1 DEF TypeOK, Listed
  <2> QED BY <1>1, <1>3, <2>1, <2>2 DEF ServerInv, ImportInv, Listed
<1> QED BY <1>2, <1>3 DEF BeginImport

LEMMA OrgStep ==
  ASSUME StoreInv, NEW o \in Orgs, ImportOrg(o) \/ PassOver(o) \/ ImportFails(o)
  PROVE  StoreInv'
<1> USE KeyStoreAssumption DEF StoreInv, serverVars, storeVars
<1>0. Importing /\ Listed # {} /\ private /\ user
  BY DEF TypeOK, ImportInv, ImportOrg, PassOver, ImportFails, Importing
<1>1. CASE ImportOrg(o)
  <2>1. TypeOK'
    BY <1>0, <1>1 DEF ImportOrg, TypeOK
  <2> QED BY <1>0, <1>1, <2>1 DEF ImportOrg, TypeOK, ServerInv, ImportInv, Importing, Listed
<1>2. CASE PassOver(o)
  <2>1. TypeOK'
    BY <1>0, <1>2 DEF PassOver, After, TypeOK
  <2> QED BY <1>0, <1>2, <2>1 DEF PassOver, After, TypeOK, ServerInv, ImportInv, Importing, Listed
<1>3. CASE ImportFails(o)
  BY <1>0, <1>3 DEF ImportFails, TypeOK, ServerInv, ImportInv, Importing, Listed
<1> QED BY <1>1, <1>2, <1>3

-----------------------------------------------------------------------------
(* The server.                                                             *)

LEMMA ServerStep ==
  ASSUME StoreInv, (\E o \in Orgs : ChangeOrg(o) \/ Rotate(o)) \/ (\E i \in Items : ChangeItem(i))
  PROVE  StoreInv'
<1> USE KeyStoreAssumption DEF StoreInv, storeVars, Importing
<1>0. UNCHANGED <<unwraps, storeVars, todo, published>> /\ fetch' = "none" /\ todo = {}
  BY DEF ChangeOrg, Rotate, ChangeItem, TypeOK
<1>1. ImportInv'
  BY <1>0 DEF ImportInv
<1>2. ASSUME NEW o \in Orgs, ChangeOrg(o) PROVE StoreInv'
  <2>1. PICK e \in {"none", "keyless", "garbled", "good"} :
          /\ entry' = [entry EXCEPT ![o] = e]
          /\ vault' = [i \in Items |-> IF e = "none" /\ vault[i].owner = o
                                       THEN [class |-> "filtered", owner |-> NoOrg] ELSE vault[i]]
    BY <1>2 DEF ChangeOrg
  <2>2. entry' \in [Orgs -> {"none", "keyless", "garbled", "good"}]
    BY <2>1 DEF TypeOK
  <2>3. vault' \in [Items -> Item]
    BY <2>1 DEF TypeOK, Item
  <2>4. ASSUME NEW i \in Items, vault'[i].owner # NoOrg PROVE vault'[i].owner \in Listed'
    <3>1. vault'[i] = vault[i] /\ (vault[i].owner = o => e # "none")
      BY <2>1, <2>4
    <3> QED BY <2>1, <2>4, <3>1 DEF TypeOK, Item, ServerInv, Listed
  <2> QED BY <1>0, <1>1, <1>2, <2>2, <2>3, <2>4 DEF ChangeOrg, TypeOK, ServerInv
<1>3. ASSUME NEW o \in Orgs, Rotate(o) PROVE StoreInv'
  <2>1. version' \in [Orgs -> 1..MaxVersion]
    BY <1>3 DEF Rotate, TypeOK
  <2> QED BY <1>0, <1>1, <1>3, <2>1 DEF Rotate, TypeOK, ServerInv, Listed
<1>4. ASSUME NEW i \in Items, ChangeItem(i) PROVE StoreInv'
  BY <1>0, <1>1, <1>4 DEF ChangeItem, TypeOK, ServerInv, Listed
<1> QED BY <1>2, <1>3, <1>4

LEMMA StoreStep == StoreInv /\ [Next]_vars => StoreInv'
<1>1. StoreInv /\ UNCHANGED vars => StoreInv'
  BY DEF vars, serverVars, storeVars, fetchVars, StoreInv, TypeOK, ServerInv, ImportInv, Importing, Listed
<1> QED BY <1>1, LoginStep, BeginStep, OrgStep, ServerStep DEF Next

LEMMA StoreCorrect == Spec => []StoreInv
BY StoreInit, StoreStep, PTL DEF Spec

\* The store keeps its type; in particular it holds an organization key only
\* over the private key that decrypts it, and none that is still to be imported.
THEOREM StoreType == Spec => []TypeOK
<1>1. StoreInv => TypeOK
  BY DEF StoreInv
<1> QED BY <1>1, StoreCorrect, PTL

-----------------------------------------------------------------------------
(* What the fetch promises.                                                *)

\* The user key is there only over the complete baseline, wherever the
\* bootstrap was interrupted.
THEOREM Baseline == Spec => []BaselineComplete
<1>1. Init => BaselineComplete
  BY DEF Init, BaselineComplete
<1>2. BaselineComplete /\ [Next]_vars => BaselineComplete'
  BY DEF BaselineComplete, Next, vars, serverVars, storeVars, fetchVars, Bootstrap, LoginFails, Halfway, SyncFails,
         BeginImport, NoPrivateKey, ImportOrg, PassOver, ImportFails, Discover, ChangeOrg, Rotate, ChangeItem
<1> QED BY <1>1, <1>2, PTL DEF Spec

\* Every step that does not end an import or a fetch leaves what was found at the
\* end of the last one, or moves on from it.
LEMMA OtherSteps ==
  ASSUME StoreInv, [Next]_vars, ~Discover, \A o \in Orgs : ~ImportFails(o), ~NoPrivateKey
  PROVE  fetch' \notin {"ok", "orgsFailed"} \/ UNCHANGED <<entry, version, vault, orgKeys, fetch, published>>
<1> USE DEF serverVars, storeVars, fetchVars
<1>1. CASE UNCHANGED vars \/ Bootstrap \/ LoginFails \/ SyncFails \/ BeginImport
  BY <1>1 DEF vars, Bootstrap, LoginFails, SyncFails, BeginImport
<1>2. ASSUME NEW o \in Orgs, ImportOrg(o) \/ PassOver(o) PROVE fetch' \notin {"ok", "orgsFailed"}
  BY <1>2 DEF ImportOrg, PassOver, StoreInv, TypeOK
<1>3. CASE (\E o \in Orgs : ChangeOrg(o) \/ Rotate(o)) \/ (\E i \in Items : ChangeItem(i))
  BY <1>3 DEF ChangeOrg, Rotate, ChangeItem
<1> QED BY <1>1, <1>2, <1>3 DEF Next

\* After an import the organization keys are those of the profile, or a part of
\* them if it broke off.
THEOREM OrgKeys == Spec => []KeysFollowProfile
<1>1. Init => KeysFollowProfile
  BY DEF Init, KeysFollowProfile
<1>2. StoreInv /\ KeysFollowProfile /\ [Next]_vars => KeysFollowProfile'
  <2> SUFFICES ASSUME StoreInv, KeysFollowProfile, [Next]_vars PROVE KeysFollowProfile'
    OBVIOUS
  <2> USE DEF serverVars, storeVars, Listed
  <2>1. CASE Discover
    BY <2>1 DEF Discover, KeysFollowProfile, StoreInv, TypeOK, ImportInv
  <2>2. ASSUME NEW o \in Orgs, ImportFails(o) PROVE KeysFollowProfile'
    BY <2>2 DEF ImportFails, KeysFollowProfile, StoreInv, TypeOK, ImportInv, Importing
  <2>3. CASE NoPrivateKey
    BY <2>3 DEF NoPrivateKey, KeysFollowProfile, StoreInv, TypeOK
  <2> QED BY <2>1, <2>2, <2>3, OtherSteps DEF KeysFollowProfile
<1> QED BY <1>1, <1>2, StoreCorrect, PTL DEF Spec

\* A fetch publishes every item that is usable under the profile, and only those.
THEOREM Discovery == Spec => []UsablePublished
<1>1. Init => UsablePublished
  BY DEF Init, UsablePublished
<1>2. StoreInv /\ UsablePublished /\ [Next]_vars => UsablePublished'
  <2> SUFFICES ASSUME StoreInv, UsablePublished, [Next]_vars PROVE UsablePublished'
    OBVIOUS
  <2> USE DEF serverVars, storeVars
  <2>1. CASE Discover
    <3>1. ASSUME NEW i \in Items, vault[i].owner # NoOrg
          PROVE  orgKeys[vault[i].owner] = version[vault[i].owner] <=> entry[vault[i].owner] = "good"
      <4> DEFINE o == vault[i].owner
      <4>1. o \in Listed /\ o \in Orgs /\ version[o] # 0
        BY <3>1, KeyStoreAssumption DEF StoreInv, ServerInv, TypeOK, Listed
      <4>2. orgKeys[o] = IF entry[o] = "good" THEN version[o] ELSE 0
        BY <2>1, <4>1 DEF Discover, StoreInv, ImportInv
      <4> QED BY <4>1, <4>2
    <3>2. \A i \in Items : Opens(i) <=> /\ vault[i].class = "usable"
                                        /\ vault[i].owner = NoOrg \/ entry[vault[i].owner] = "good"
      BY <3>1 DEF Opens
    <3> QED BY <2>1, <3>2 DEF Discover, UsablePublished
  <2>2. CASE NoPrivateKey \/ \E o \in Orgs : ImportFails(o)
    BY <2>2 DEF NoPrivateKey, ImportFails, UsablePublished
  <2> QED BY <2>1, <2>2, OtherSteps DEF UsablePublished
<1> QED BY <1>1, <1>2, StoreCorrect, PTL DEF Spec
=============================================================================
