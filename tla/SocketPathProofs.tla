-------------------------- MODULE SocketPathProofs --------------------------
(***************************************************************************)
(* The reclaim of a stale socket is safe, for any number of processes and  *)
(* inodes, when starts do not overlap.                                     *)
(***************************************************************************)
EXTENDS SocketPath, TLAPS

LEMMA PathTypeStep == TypeOK /\ [Next]_vars => TypeOK'
<1> SUFFICES ASSUME TypeOK, [Next]_vars PROVE TypeOK'
  OBVIOUS
<1> USE SocketAssumption DEF TypeOK, Goto
<1>1. CASE UNCHANGED vars
  BY <1>1 DEF vars
<1>2. ASSUME NEW p \in Procs, NEW to \in {"lstat", "failed"}, TryBind(p, to),
             pc[p] \in {"bind", "rebind"}, seen' \in {seen, [seen EXCEPT ![p] = NoInode]}
      PROVE  TypeOK'
  <2>1. CASE path = NoFile
    <3>1. PICK i \in Inodes \ InUse :
            path' = [kind |-> "socket", ino |-> i] /\ bound' = [bound EXCEPT ![p] = i]
      BY <1>2, <2>1 DEF TryBind
    <3>2. pc' = [pc EXCEPT ![p] = "listen"]
      BY <1>2, <2>1 DEF TryBind
    <3> QED BY <1>2, <3>1, <3>2 DEF Entry
  <2>2. CASE path # NoFile
    BY <1>2, <2>2 DEF TryBind
  <2> QED BY <2>1, <2>2
<1>3. ASSUME NEW p \in Procs, Bind(p) \/ Rebind(p) PROVE TypeOK'
  BY <1>2, <1>3 DEF Bind, Rebind
<1>4. ASSUME NEW p \in Procs, Lstat(p) PROVE TypeOK'
  BY <1>4 DEF Lstat, IsSocket, Entry
<1>5. ASSUME NEW p \in Procs,
             Start(p) \/ Probe(p) \/ Recheck(p) \/ CallFails(p) \/ Unlink(p) \/ Listen(p)
      PROVE  TypeOK'
  <2>1. UNCHANGED <<bound, seen>> /\ path' \in {path, NoFile}
        /\ \/ \E to \in {"bind", "rebind", "failed", "recheck", "unlink"} :
                pc[p] \notin {"listen", "serving", "closing"} /\ pc' = [pc EXCEPT ![p] = to]
           \/ pc[p] = "listen" /\ pc' = [pc EXCEPT ![p] = "serving"]
    BY <1>5 DEF Start, Probe, Recheck, CallFails, Unlink, Listen
  <2> QED BY <2>1
<1>6. ASSUME NEW p \in Procs, Drop(p) PROVE TypeOK'
  <2>1. CASE pc[p] = "serving"
    BY <1>6, <2>1 DEF Drop
  <2>2. CASE pc[p] = "closing"
    BY <1>6, <2>2 DEF Drop
  <2> QED BY <1>6, <2>1, <2>2 DEF Drop
<1>7. ASSUME NEW p \in Procs, Crash(p) PROVE TypeOK'
  BY <1>7 DEF Crash
<1> QED BY <1>1, <1>3, <1>4, <1>5, <1>6, <1>7 DEF Next, Step

\* A process has a bound socket exactly from its bind to the end of its Listener,
\* overlapping starts, crashes and inconclusive probes included.
THEOREM PathType == Spec => []TypeOK
<1>1. Init => TypeOK
  BY SocketAssumption DEF Init, TypeOK, Entry
<1> QED BY <1>1, PathTypeStep, PTL DEF Spec

\* A starter that decided the socket is stale is alone with it: nobody can have
\* bound the path since its probe, and who serves it would have answered.
SocketInv ==
  /\ TypeOK
  /\ \A p, q \in Procs : bound[p] = bound[q] /\ bound[p] # NoInode => p = q
  /\ \A p \in Procs : pc[p] \in {"listen", "serving"} => path = [kind |-> "socket", ino |-> bound[p]]
  /\ \A p, q \in Procs : pc[p] \in {"recheck", "unlink"} => pc[q] # "serving"
  /\ \A p, q \in Procs : Starting(p) /\ Starting(q) => p = q

LEMMA InitInv == Init => SocketInv
BY SocketAssumption DEF Init, SocketInv, TypeOK, Starting, Entry

LEMMA BindInv ==
  ASSUME Serial, SocketInv, NEW p \in Procs, Bind(p) \/ Rebind(p)
  PROVE  SocketInv'
<1> USE SocketAssumption DEF SocketInv, Goto
<1>1. CASE path = NoFile
  <2>1. PICK i \in Inodes \ InUse :
          path' = [kind |-> "socket", ino |-> i] /\ bound' = [bound EXCEPT ![p] = i]
    BY <1>1 DEF Bind, Rebind, TryBind
  <2>2. pc' = [pc EXCEPT ![p] = "listen"] /\ pc[p] \in {"bind", "rebind"}
    BY <1>1 DEF Bind, Rebind, TryBind
  <2>3. TypeOK'
    BY <2>1, <2>2 DEF Bind, Rebind, TypeOK, Entry
  <2>4. \A q \in Procs : pc[q] \notin {"listen", "serving"} /\ bound[q] # i
    <3>1. ASSUME NEW q \in Procs, pc[q] \in {"listen", "serving"} PROVE FALSE
      <4>1. bound[q] \in Inodes /\ path = [kind |-> "socket", ino |-> bound[q]]
        BY <3>1 DEF TypeOK
      <4>2. path \in Entry
        BY <4>1 DEF Entry
      <4> QED BY <1>1, <4>2
    <3> QED BY <2>1, <3>1 DEF InUse
  <2>5. \A q, r \in Procs : bound'[q] = bound'[r] /\ bound'[q] # NoInode => q = r
    BY <2>1, <2>4 DEF TypeOK
  <2>6. \A q \in Procs : pc'[q] \in {"listen", "serving"} => path' = [kind |-> "socket", ino |-> bound'[q]]
    BY <2>1, <2>2, <2>4 DEF TypeOK
  <2>7. \A q \in Procs : pc'[q] \notin {"recheck", "unlink"}
    BY <2>2 DEF TypeOK, Starting
  <2>8. \A q, r \in Procs : Starting(q)' /\ Starting(r)' => q = r
    BY <2>2 DEF Starting, TypeOK
  <2> QED BY <2>3, <2>5, <2>6, <2>7, <2>8
<1>2. CASE path # NoFile
  <2>1. UNCHANGED <<path, bound>> /\ pc[p] \in {"bind", "rebind"}
        /\ \/ pc' = [pc EXCEPT ![p] = "lstat"]
           \/ pc' = [pc EXCEPT ![p] = "failed"]
    BY <1>2 DEF Bind, Rebind, TryBind
  <2>2. TypeOK'
    BY <2>1 DEF Bind, Rebind, TypeOK
  <2> QED BY <2>1, <2>2 DEF TypeOK, Starting
<1> QED BY <1>1, <1>2

LEMMA InspectInv ==
  ASSUME Serial, SocketInv, NEW p \in Procs,
         Start(p) \/ Lstat(p) \/ Probe(p) \/ Recheck(p) \/ CallFails(p) \/ Listen(p)
  PROVE  SocketInv'
<1> USE SocketAssumption DEF SocketInv, Goto
<1>1. CASE Listen(p)
  <2>1. \A q \in Procs : pc[q] \notin {"recheck", "unlink"}
    BY <1>1 DEF Listen, Starting
  <2> QED BY <1>1, <2>1 DEF Listen, TypeOK, Starting
<1>2. CASE ~Listen(p)
  <2>1. UNCHANGED <<path, bound>> /\ \E to \in {"bind", "rebind", "failed", "probe", "recheck", "unlink"} :
          pc' = [pc EXCEPT ![p] = to]
    BY <1>2 DEF Start, Lstat, Probe, Recheck, CallFails
  <2>2. TypeOK'
    BY <1>2, <2>1 DEF Start, Lstat, Probe, Recheck, CallFails, TypeOK, IsSocket, Entry
  <2>3. pc[p] \notin {"listen", "serving", "closing"} /\ pc'[p] \notin {"listen", "serving", "closing"}
    BY <1>2, <2>1 DEF Start, Lstat, Probe, Recheck, CallFails, TypeOK
  <2>4. \A q \in Procs : pc'[q] \in {"listen", "serving"} => path' = [kind |-> "socket", ino |-> bound'[q]]
    BY <2>1, <2>3 DEF TypeOK
  <2>5. pc'[p] \in {"recheck", "unlink"} => \A q \in Procs : pc[q] # "serving"
    <3>1. CASE Probe(p)
      BY <3>1 DEF Probe, Answered, TypeOK, IsSocket
    <3>2. CASE Recheck(p)
      BY <3>2 DEF Recheck
    <3>3. CASE Start(p) \/ Lstat(p) \/ CallFails(p)
      BY <3>3 DEF Start, Lstat, CallFails, TypeOK
    <3> QED BY <1>2, <3>1, <3>2, <3>3
  <2>6. \A q, r \in Procs : pc'[q] \in {"recheck", "unlink"} => pc'[r] # "serving"
    BY <2>1, <2>3, <2>5 DEF TypeOK
  <2>7. \A q, r \in Procs : Starting(q)' /\ Starting(r)' => q = r
    BY <1>2, <2>1 DEF Start, Lstat, Probe, Recheck, CallFails, Starting, TypeOK
  <2> QED BY <2>1, <2>2, <2>4, <2>6, <2>7
<1> QED BY <1>1, <1>2

LEMMA RemoveInv ==
  ASSUME Serial, SocketInv, NEW p \in Procs, Unlink(p) \/ Drop(p) \/ Crash(p)
  PROVE  SocketInv'
<1> USE SocketAssumption DEF SocketInv, Goto
<1>1. CASE Unlink(p)
  <2>1. TypeOK' /\ path' = NoFile
    BY <1>1 DEF Unlink, TypeOK
  <2>2. \A q \in Procs : pc[q] \notin {"listen", "serving"}
    BY <1>1 DEF Unlink, Starting
  <2> QED BY <1>1, <2>1, <2>2 DEF Unlink, TypeOK, Starting
<1>2. CASE Drop(p)
  <2>1. CASE pc[p] = "serving"
    <3>1. path' = NoFile /\ pc' = [pc EXCEPT ![p] = "closing"] /\ UNCHANGED <<bound, seen>>
      BY <1>2, <2>1 DEF Drop
    <3>2. TypeOK'
      BY <2>1, <3>1 DEF TypeOK
    <3>3. \A q \in Procs : pc[q] \in {"listen", "serving"} => q = p
      BY <2>1 DEF TypeOK
    <3> QED BY <2>1, <3>1, <3>2, <3>3 DEF TypeOK, Starting
  <2>2. CASE pc[p] = "closing"
    <3>1. bound' = [bound EXCEPT ![p] = NoInode] /\ pc' = [pc EXCEPT ![p] = "off"] /\ UNCHANGED <<path, seen>>
      BY <1>2, <2>2 DEF Drop
    <3>2. TypeOK'
      BY <2>2, <3>1 DEF TypeOK
    <3> QED BY <2>2, <3>1, <3>2 DEF TypeOK, Starting
  <2> QED BY <1>2, <2>1, <2>2 DEF Drop
<1>3. CASE Crash(p)
  <2>1. TypeOK'
    BY <1>3 DEF Crash, TypeOK
  <2> QED BY <1>3, <2>1 DEF Crash, TypeOK, Starting
<1> QED BY <1>1, <1>2, <1>3

LEMMA SocketStep == Serial /\ SocketInv /\ [Next]_vars => SocketInv'
<1> SUFFICES ASSUME Serial, SocketInv, [Next]_vars PROVE SocketInv'
  OBVIOUS
<1>1. CASE UNCHANGED vars
  BY <1>1 DEF vars, SocketInv, TypeOK, Starting
<1>2. CASE Next
  BY <1>2, BindInv, InspectInv, RemoveInv DEF Next, Step
<1> QED BY <1>1, <1>2

\* A running service stays reachable through its path when starts do not
\* overlap, whoever is killed and whatever the probes find.
THEOREM ReclaimSafe ==
  ASSUME Serial
  PROVE  Spec => []ServingReachable
<1>1. SocketInv /\ [Next]_vars => SocketInv'
  BY SocketStep
<1>2. SocketInv => ServingReachable
  BY DEF SocketInv, ServingReachable
<1> QED BY <1>1, <1>2, InitInv, PTL DEF Spec

\* Under the same condition a dropping listener never unlinks another's socket.
THEOREM DropSafe ==
  ASSUME Serial
  PROVE  Spec => DropKeepsOthers
<1>1. SocketInv /\ [Next]_vars => SocketInv'
  BY SocketStep
<1>2. SocketInv /\ [Next]_vars =>
        [\A p, q \in Procs :
           (/\ pc[p] \in {"serving", "closing"} /\ pc'[p] # pc[p] /\ q # p
            /\ pc[q] = "serving" /\ path = [kind |-> "socket", ino |-> bound[q]])
             => path' = path]_vars
  <2> SUFFICES ASSUME SocketInv, Next, NEW p \in Procs, NEW q \in Procs, q # p,
                      pc[p] \in {"serving", "closing"}, pc'[p] # pc[p], pc[q] = "serving"
               PROVE  path' = path
    OBVIOUS
  <2>1. pc[p] = "closing"
    BY SocketAssumption DEF SocketInv, TypeOK
  <2>2. PICK r \in Procs : Step(r) \/ Start(r) \/ CallFails(r) \/ Drop(r) \/ Crash(r)
    BY DEF Next
  <2>3. r = p
    BY <2>1, <2>2 DEF SocketInv, TypeOK, Goto, Step, Bind, Rebind, TryBind, Lstat, Probe, Recheck, Unlink, Listen,
       Start, CallFails, Drop, Crash
  <2> QED BY <2>1, <2>2, <2>3 DEF Step, Bind, Rebind, Lstat, Probe, Recheck, Unlink, Listen, Start,
             CallFails, Drop, Crash
<1> QED BY <1>1, <1>2, InitInv, PTL DEF Spec, DropKeepsOthers
-----------------------------------------------------------------------------
(* The system calls keep the promise of PathOwner.                         *)

\* What a starter is about to unlink is still the socket it has looked at twice.
UnlinkInv == \A p \in Procs : pc[p] = "unlink" => IsSocket

LEMMA UnlinkStep == Serial /\ SocketInv /\ UnlinkInv /\ [Next]_vars => UnlinkInv'
<1> SUFFICES ASSUME Serial, SocketInv, UnlinkInv, [Next]_vars,
                    NEW p \in Procs, pc'[p] = "unlink"
             PROVE  IsSocket'
  BY DEF UnlinkInv
<1>1. CASE UNCHANGED vars
  BY <1>1 DEF vars, UnlinkInv, IsSocket
<1>2. ASSUME NEW q \in Procs, Step(q) \/ Start(q) \/ CallFails(q) \/ Drop(q) \/ Crash(q)
      PROVE  IsSocket'
  <2>1. CASE q = p
    <3>1. Recheck(p)
      BY <1>2, <2>1 DEF SocketInv, TypeOK, Goto, Step, Bind, Rebind, TryBind, Lstat, Probe, Recheck, Unlink,
         Listen, Start, CallFails, Drop, Crash
    <3> QED BY <3>1 DEF Recheck, Goto, SocketInv, TypeOK, IsSocket
  <2>2. CASE q # p
    <3>1. pc[p] = "unlink"
      BY <1>2, <2>2 DEF SocketInv, TypeOK, Goto, Step, Bind, Rebind, TryBind, Lstat, Probe, Recheck, Unlink,
         Listen, Start, CallFails, Drop, Crash
    <3>2. ~Starting(q) /\ pc[q] # "serving" /\ IsSocket
      BY <2>2, <3>1 DEF SocketInv, UnlinkInv, Starting
    <3>3. UNCHANGED path
      BY <1>2, <3>2 DEF Starting, Step, Bind, Rebind, Lstat, Probe, Recheck, Unlink, Listen, Start, CallFails,
         Drop, Crash
    <3> QED BY <3>2, <3>3 DEF IsSocket
  <2> QED BY <2>1, <2>2
<1> QED BY <1>1, <1>2 DEF Next

\* Who serves is alone, and the path leads to it.
LEMMA OneServer ==
  ASSUME SocketInv
  PROVE  /\ \A p \in Servers : Servers = {p} /\ Found = "live"
         /\ \A p \in Procs : pc[p] = "listen" => Servers = {} /\ Found = "dead"
         /\ path = NoFile => Servers = {} /\ Found = "nothing"
         /\ Servers = {} => Found = IF path = NoFile THEN "nothing" ELSE IF path.kind = "file" THEN "foreign" ELSE "dead"
<1> USE SocketAssumption DEF SocketInv
<1>1. ASSUME NEW p \in Procs, pc[p] \in {"listen", "serving"}
      PROVE  path # NoFile /\ path.kind = "socket" /\ path.ino = bound[p] /\ bound[p] # NoInode
  BY <1>1 DEF TypeOK, Entry
<1>2. ASSUME NEW p \in Procs, NEW q \in Procs, pc[p] \in {"listen", "serving"}, pc[q] \in {"listen", "serving"}
      PROVE  p = q
  BY <1>1, <1>2
<1>3. \A p \in Servers : Servers = {p} /\ Found = "live"
  BY <1>1, <1>2 DEF Servers, Found
<1>4. \A p \in Procs : pc[p] = "listen" => Servers = {} /\ Found = "dead"
  BY <1>1, <1>2 DEF Servers, Found
<1>5. path = NoFile => Servers = {} /\ Found = "nothing"
  BY <1>1 DEF Servers, Found
<1>6. Servers = {} => Found = IF path = NoFile THEN "nothing" ELSE IF path.kind = "file" THEN "foreign" ELSE "dead"
  BY DEF Found
<1> QED BY <1>3, <1>4, <1>5, <1>6

LEMMA OwnerNext == Serial /\ SocketInv /\ UnlinkInv /\ [Next]_vars => [Promise!Next]_Promise!vars
<1> SUFFICES ASSUME Serial, SocketInv, UnlinkInv, [Next]_vars
             PROVE  Promise!Next \/ UNCHANGED Promise!vars
  OBVIOUS
<1> USE SocketAssumption DEF Goto
<1>1. UNCHANGED <<path, Servers>> /\ (\A p \in Servers : bound'[p] = bound[p]) => UNCHANGED Promise!vars
  BY DEF Promise!vars, Found
<1>2. CASE UNCHANGED vars
  BY <1>1, <1>2 DEF vars, Servers
<1>3. ASSUME NEW p \in Procs, Start(p) \/ Lstat(p) \/ Probe(p) \/ Recheck(p) \/ CallFails(p)
      PROVE  UNCHANGED Promise!vars
  <2>1. UNCHANGED <<path, bound>> /\ pc[p] # "serving" /\ pc'[p] # "serving"
        /\ \A q \in Procs \ {p} : pc'[q] = pc[q]
    BY <1>3 DEF Start, Lstat, Probe, Recheck, CallFails, SocketInv, TypeOK
  <2>2. UNCHANGED Servers
    BY <2>1 DEF Servers
  <2> QED BY <1>1, <2>1, <2>2
<1>4. ASSUME NEW p \in Procs, Bind(p) \/ Rebind(p) PROVE Promise!Create \/ UNCHANGED Promise!vars
  <2>1. pc[p] \in {"bind", "rebind"} /\ pc'[p] \in {"lstat", "failed", "listen"}
        /\ \A q \in Procs \ {p} : pc'[q] = pc[q]
    BY <1>4 DEF Bind, Rebind, TryBind, SocketInv, TypeOK
  <2>2. UNCHANGED Servers
    BY <2>1 DEF Servers
  <2>3. CASE path = NoFile
    <3>1. Servers' = {} /\ Found = "nothing"
      BY <2>2, <2>3, OneServer
    <3>2. path' \in Entry /\ path'.kind = "socket"
      BY <1>4, <2>3 DEF Bind, Rebind, TryBind, Entry
    <3>3. Found' = "dead"
      BY <3>1, <3>2 DEF Found
    <3> QED BY <2>2, <3>1, <3>3 DEF Promise!Create
  <2>4. CASE path # NoFile
    BY <1>1, <1>4, <2>2, <2>4 DEF Bind, Rebind, TryBind
  <2> QED BY <2>3, <2>4
<1>5. ASSUME NEW p \in Procs, Listen(p) PROVE Promise!Serve(p)
  <2>1. Servers = {} /\ Found = "dead"
    BY <1>5, OneServer DEF Listen
  <2>2. Servers' = {p}
    BY <1>5, <2>1 DEF Listen, Servers, SocketInv, TypeOK
  <2>3. path' = [kind |-> "socket", ino |-> bound'[p]] /\ path' # NoFile
    BY <1>5 DEF Listen, SocketInv, TypeOK, Entry
  <2>4. Found' = "live"
    BY <2>2, <2>3 DEF Found
  <2> QED BY <2>1, <2>2, <2>4 DEF Promise!Serve
<1>6. ASSUME NEW p \in Procs, Unlink(p) PROVE Promise!Reclaim
  <2>1. Servers = {}
    BY <1>6 DEF Unlink, Servers, SocketInv
  <2>2. Found = "dead"
    BY <1>6, <2>1, OneServer DEF Unlink, UnlinkInv, IsSocket
  <2>3. Servers' = {}
    BY <1>6, <2>1 DEF Unlink, Servers, SocketInv, TypeOK
  <2>4. Found' = "nothing"
    BY <1>6 DEF Unlink, Found
  <2> QED BY <2>1, <2>2, <2>3, <2>4 DEF Promise!Reclaim
<1>7. ASSUME NEW p \in Procs, pc[p] = "serving", Drop(p) \/ Crash(p) PROVE Promise!Leave(p)
  <2>1. Servers = {p} /\ Found = "live"
    BY <1>7, OneServer DEF Servers
  <2>2. Servers' = {}
    BY <1>7, <2>1 DEF Drop, Crash, Servers, SocketInv, TypeOK
  <2>3. path # NoFile /\ path.kind = "socket" /\ path' \in {path, NoFile}
    BY <1>7 DEF Drop, Crash, SocketInv, TypeOK, Entry
  <2>4. Found' \in {"nothing", "dead"}
    BY <2>2, <2>3 DEF Found
  <2> QED BY <2>1, <2>2, <2>4 DEF Promise!Leave
<1>8. ASSUME NEW p \in Procs, pc[p] # "serving", Drop(p) \/ Crash(p) PROVE UNCHANGED Promise!vars
  <2>1. pc' = [pc EXCEPT ![p] = "off"] /\ bound' = [bound EXCEPT ![p] = NoInode] /\ UNCHANGED path
    BY <1>8 DEF Drop, Crash
  <2>2. UNCHANGED Servers
    BY <1>8, <2>1 DEF Servers, SocketInv, TypeOK
  <2>3. \A q \in Servers : bound'[q] = bound[q]
    BY <1>8, <2>1 DEF Servers, SocketInv, TypeOK
  <2> QED BY <1>1, <2>1, <2>2, <2>3
<1> QED
  BY <1>2, <1>3, <1>4, <1>5, <1>6, <1>7, <1>8 DEF Next, Step, Promise!Next

LEMMA OwnerInit == Init => Promise!Init
BY SocketAssumption DEF Init, Promise!Init, Found, Servers, Entry

\* When starts do not overlap, the path passes from one process to the next only
\* after the one it leads to has left or died, and no foreign file is ever touched.
THEOREM Refinement ==
  ASSUME Serial
  PROVE  Spec => ImplementsPathOwner
<1>1. SocketInv /\ [Next]_vars => SocketInv'
  BY SocketStep
<1>2. SocketInv /\ UnlinkInv /\ [Next]_vars => UnlinkInv'
  BY UnlinkStep
<1>3. SocketInv /\ UnlinkInv /\ [Next]_vars => [Promise!Next]_Promise!vars
  BY OwnerNext
<1>4. Init => UnlinkInv
  BY DEF Init, UnlinkInv
<1> QED BY <1>1, <1>2, <1>3, <1>4, InitInv, OwnerInit, PTL DEF Spec, ImplementsPathOwner, Promise!Spec
=============================================================================
