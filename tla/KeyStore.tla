------------------------------ MODULE KeyStore ------------------------------
(***************************************************************************)
(* The key store of one Bitwarden provider and the fetch cycle around it   *)
(* (crypto.rs, provider.rs): the bootstrap of the account's keys within    *)
(* login, the import of organization keys from every sync, and the         *)
(* discovery of SSH keys, against a server whose organizations, keys and   *)
(* vault items change between the fetches.                                 *)
(*                                                                         *)
(* Fetches do not overlap: the provider's cache runs them one at a time.   *)
(* The import goes through the organizations of one sync response, so the  *)
(* server stands still while it is under way: what it changes meanwhile is *)
(* in the next response.                                                   *)
(***************************************************************************)
EXTENDS Naturals

CONSTANTS
  Orgs,       \* organizations
  Items,      \* items of the vault
  NoOrg,      \* the owner of a personal item
  MaxVersion  \* bound: how often the key of an organization is rotated

ASSUME KeyStoreAssumption == MaxVersion \in Nat \ {0} /\ NoOrg \notin Orgs

VARIABLES
  unwraps,              \* account: its private key can be unwrapped with the user key
  entry,                \* server: how the profile lists each organization
  version,              \* server: the version of each organization's key
  vault,                \* server: the items
  user, private,        \* store: the user key and the private key are there
  orgKeys,              \* store: the version of each organization's key, 0 if absent
  todo,                 \* the organizations that the import has still to go through
  fetch,                \* the fetch is importing, or how the last one ended; "none" once
                        \* the server changed
  published             \* the items whose keys the last successful fetch returned

serverVars == <<unwraps, entry, version, vault>>
storeVars  == <<user, private, orgKeys>>
fetchVars  == <<todo, fetch, published>>
vars == <<serverVars, storeVars, fetchVars>>

\* "filtered" stands for every item that discovery drops before it decrypts or
\* for want of a private key; "malformed" for what fails to decrypt or parse.
Item == [class : {"usable", "filtered", "malformed"}, owner : Orgs \cup {NoOrg}]

TypeOK ==
  /\ unwraps \in BOOLEAN
  /\ entry \in [Orgs -> {"none", "keyless", "garbled", "good"}]
  /\ version \in [Orgs -> 1..MaxVersion]
  /\ vault \in [Items -> Item]
  /\ user \in BOOLEAN /\ private \in BOOLEAN
  /\ orgKeys \in [Orgs -> 0..MaxVersion]
  /\ fetch \in {"none", "importing", "ok", "loginFailed", "syncFailed", "orgsFailed"}
  /\ published \subseteq Items /\ todo \subseteq Orgs
  /\ todo # {} => fetch = "importing"
  /\ \A o \in todo : orgKeys[o] = 0
  /\ \A o \in Orgs : orgKeys[o] # 0 => user /\ private

\* The server sends no item of an organization the account is not in.
Init ==
  /\ unwraps \in BOOLEAN
  /\ entry \in [Orgs -> {"none", "good"}]
  /\ version = [o \in Orgs |-> 1]
  /\ vault = [i \in Items |-> [class |-> "usable", owner |-> NoOrg]]
  /\ user = FALSE /\ private = FALSE /\ orgKeys = [o \in Orgs |-> 0]
  /\ todo = {} /\ fetch = "none" /\ published = {}

Listed == {o \in Orgs : entry[o] # "none"}
Garbled == {o \in Orgs : entry[o] = "garbled"}
Importing == fetch = "importing"

-----------------------------------------------------------------------------
(* initialize_user_crypto, once in the life of the store.                  *)

Bootstrap ==
  /\ ~user /\ user' = TRUE
  /\ private' = (private \/ unwraps)
  /\ UNCHANGED <<serverVars, orgKeys, fetchVars>>

Halfway_UserFirst == user' = TRUE /\ UNCHANGED private
\* The private key is persisted first and the user key last.
Halfway == private' = unwraps /\ UNCHANGED user

\* The token request or a step of the bootstrap fails, before or after it has
\* persisted something.
LoginFails ==
  /\ ~user /\ fetch' = "loginFailed"
  /\ Halfway \/ UNCHANGED <<user, private>>
  /\ UNCHANGED <<serverVars, orgKeys, todo, published>>

-----------------------------------------------------------------------------
(* fetch(): sync, initialize_org_keys, discovery.                          *)

\* A later login or the request fails, or the response has no profile.
SyncFails ==
  /\ user /\ ~Importing /\ fetch' = "syncFailed"
  /\ UNCHANGED <<serverVars, storeVars, todo, published>>

Retained_All(o) == orgKeys[o]
\* retain_symmetric_keys drops every organization key before the import.
Retained(o) == 0

\* A profile without organizations leaves the store as it is.
BeginImport ==
  /\ user /\ ~Importing
  /\ \/ Listed = {} /\ UNCHANGED orgKeys
     \/ Listed # {} /\ private /\ orgKeys' = [o \in Orgs |-> Retained(o)]
  /\ todo' = Listed /\ fetch' = "importing"
  /\ UNCHANGED <<serverVars, user, private, published>>

NoPrivateKey ==
  /\ user /\ ~Importing
  /\ Listed # {} /\ ~private
  /\ fetch' = "orgsFailed"
  /\ UNCHANGED <<serverVars, storeVars, todo, published>>

ImportOrg(o) ==
  /\ o \in todo /\ entry[o] = "good"
  /\ orgKeys' = [orgKeys EXCEPT ![o] = version[o]]
  /\ todo' = todo \ {o}
  /\ UNCHANGED <<serverVars, user, private, fetch, published>>

After_Return(o) == {}
After(o) == todo \ {o}
\* An entry without an id or a key is passed over.
PassOver(o) ==
  /\ o \in todo /\ entry[o] = "keyless"
  /\ todo' = After(o)
  /\ UNCHANGED <<serverVars, storeVars, fetch, published>>

\* A key that does not parse or decrypt ends the import; what it has imported
\* before stays in the store.
ImportFails(o) ==
  /\ o \in todo \cap Garbled
  /\ todo' = {} /\ fetch' = "orgsFailed"
  /\ UNCHANGED <<serverVars, storeVars, published>>

\* An item is encrypted with the user key or its organization's current key.
Opens(i) ==
  /\ vault[i].class = "usable"
  /\ vault[i].owner = NoOrg \/ orgKeys[vault[i].owner] = version[vault[i].owner]

\* Discovery skips what it cannot use.
Discover ==
  /\ Importing /\ todo = {}
  /\ published' = {i \in Items : Opens(i)}
  /\ fetch' = "ok"
  /\ UNCHANGED <<serverVars, storeVars, todo>>

-----------------------------------------------------------------------------
(* The server.                                                             *)

\* The account joins or leaves an organization, or its entry breaks or heals.
ChangeOrg(o) ==
  /\ ~Importing
  /\ \E e \in {"none", "keyless", "garbled", "good"} :
       /\ entry' = [entry EXCEPT ![o] = e]
       /\ vault' = [i \in Items |-> IF e = "none" /\ vault[i].owner = o
                                    THEN [class |-> "filtered", owner |-> NoOrg] ELSE vault[i]]
  /\ fetch' = "none"
  /\ UNCHANGED <<unwraps, version, storeVars, todo, published>>

Rotate(o) ==
  /\ ~Importing /\ version[o] < MaxVersion
  /\ version' = [version EXCEPT ![o] = @ + 1]
  /\ fetch' = "none"
  /\ UNCHANGED <<unwraps, entry, vault, storeVars, todo, published>>

ChangeItem(i) ==
  /\ ~Importing
  /\ \E item \in Item : /\ item.owner # NoOrg => item.owner \in Listed
                        /\ vault' = [vault EXCEPT ![i] = item]
  /\ fetch' = "none"
  /\ UNCHANGED <<unwraps, entry, version, storeVars, todo, published>>

Next == \/ Bootstrap \/ LoginFails \/ SyncFails \/ BeginImport \/ NoPrivateKey \/ Discover
        \/ \E o \in Orgs : ImportOrg(o) \/ PassOver(o) \/ ImportFails(o)
        \/ \E o \in Orgs : ChangeOrg(o) \/ Rotate(o)
        \/ \E i \in Items : ChangeItem(i)

Spec == Init /\ [][Next]_vars

-----------------------------------------------------------------------------
(* Properties.                                                             *)

\* crypto.rs "Persist the user symmetric key last so later loads see a fully
\* initialized baseline state": an interrupted bootstrap never leaves the user
\* key, which ends all further attempts, without the private key.
BaselineComplete == user /\ unwraps => private

\* Once an import that found organizations has ended, half-way or not, the store
\* holds no key but current ones of organizations in the profile, whatever earlier
\* imports, departures and rotations left behind; and all of them if it ended well.
KeysFollowProfile ==
  Listed # {} =>
    /\ fetch \in {"ok", "orgsFailed"} =>
         \A o \in Orgs : orgKeys[o] # 0 => entry[o] = "good" /\ orgKeys[o] = version[o]
    /\ fetch = "ok" => \A o \in Orgs : entry[o] = "good" => orgKeys[o] = version[o]

\* A fetch publishes exactly the usable items whose owner's key the profile has:
\* no rotation or earlier failure hides one, and no broken item hides another.
UsablePublished ==
  fetch = "ok" =>
    published = {i \in Items : /\ vault[i].class = "usable"
                               /\ vault[i].owner = NoOrg \/ entry[vault[i].owner] = "good"}

\* crypto.rs "so stale memberships or rotated keys do not linger in memory":
\* after a fetch the store holds no key of an organization the account is not in.
NoStaleOrgKeys == fetch = "ok" => \A o \in Orgs : orgKeys[o] # 0 => o \in Listed

\* crypto.rs "user-level item decryption can still proceed if that unwrap fails":
\* only a broken organization key makes the import fail.
PersonalItemsSurvive == fetch = "orgsFailed" => Garbled # {}
=============================================================================
