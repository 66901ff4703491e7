----------------------------- MODULE SocketPath -----------------------------
(***************************************************************************)
(* The Unix socket path of keyring-cli (platform.rs): several processes    *)
(* started on one path bind it, reclaim a stale socket, serve, unlink the  *)
(* path when their Listener drops, or are killed and leave it behind. Each *)
(* system call is a step.                                                  *)
(***************************************************************************)
EXTENDS Naturals, FiniteSets

CONSTANTS
  Procs,    \* processes started with the same --path
  Inodes,   \* inode numbers of the directory's file system; freed ones are reused
  NoFile,   \* nothing at the path
  NoInode,  \* not bound; nothing seen
  Serial,   \* TRUE: a process starts only when no other is starting
  Crashes,  \* TRUE: processes may be killed, now or before the beginning
  Faults    \* TRUE: a system call may fail for a reason of its own, a probe may time out

Entry == [kind : {"socket", "file"}, ino : Inodes]

ASSUME SocketAssumption ==
  /\ {Serial, Crashes, Faults} \subseteq BOOLEAN
  /\ NoFile \notin Entry /\ NoInode \notin Inodes
  /\ Cardinality(Inodes) > Cardinality(Procs)

VARIABLES
  path,   \* the directory entry: nothing, or the kind and inode it names
  pc,     \* where each process is
  bound,  \* the inode each process' listener is bound to
  seen    \* `original`: the inode each starter saw before its probe

vars == <<path, pc, bound, seen>>

Starting(p) == pc[p] \in {"bind", "lstat", "probe", "recheck", "unlink", "rebind", "listen"}

TypeOK ==
  /\ path \in Entry \cup {NoFile}
  /\ pc \in [Procs -> {"off", "bind", "lstat", "probe", "recheck", "unlink", "rebind",
                       "listen", "serving", "closing", "failed"}]
  /\ bound \in [Procs -> Inodes \cup {NoInode}]
  /\ seen \in [Procs -> Inodes \cup {NoInode}]
  /\ \A p \in Procs : bound[p] # NoInode <=> pc[p] \in {"listen", "serving", "closing"}

Init ==
  /\ path \in {NoFile} \cup {e \in Entry : e.kind = "file" \/ Crashes}
  /\ pc = [p \in Procs |-> "off"]
  /\ bound = [p \in Procs |-> NoInode] /\ seen = [p \in Procs |-> NoInode]

Goto(p, to) == pc' = [pc EXCEPT ![p] = to]
IsSocket == path # NoFile /\ path.kind = "socket"
\* A connection to the path is accepted: its socket is bound and listens.
Answered == IsSocket /\ \E q \in Procs : bound[q] = path.ino /\ pc[q] # "listen"
InUse == {bound[q] : q \in Procs} \cup (IF path = NoFile THEN {} ELSE {path.ino})

-----------------------------------------------------------------------------
(* Listener::bind                                                          *)

Start(p) ==
  /\ pc[p] \in {"off", "failed"}
  /\ Serial => \A q \in Procs : ~Starting(q)
  /\ Goto(p, "bind")
  /\ UNCHANGED <<path, bound, seen>>

\* UnixListener::bind is two system calls: bind() creates the socket, or fails
\* when the name exists, and listen() then opens it to connections.
TryBind(p, onInUse) ==
  \/ /\ path = NoFile
     /\ \E i \in Inodes \ InUse :
          path' = [kind |-> "socket", ino |-> i] /\ bound' = [bound EXCEPT ![p] = i]
     /\ Goto(p, "listen")
  \/ path # NoFile /\ Goto(p, onInUse) /\ UNCHANGED <<path, bound>>

Bind(p)   == pc[p] = "bind"   /\ TryBind(p, "lstat")  /\ UNCHANGED seen
Rebind(p) == pc[p] = "rebind" /\ TryBind(p, "failed") /\ seen' = [seen EXCEPT ![p] = NoInode]
Listen(p) == pc[p] = "listen" /\ Goto(p, "serving") /\ UNCHANGED <<path, bound, seen>>

\* reclaim_stale_socket, first symlink_metadata.
Lstat(p) ==
  /\ pc[p] = "lstat"
  /\ \/ path = NoFile /\ Goto(p, "rebind") /\ UNCHANGED seen
     \/ path # NoFile /\ ~IsSocket /\ Goto(p, "failed") /\ UNCHANGED seen
     \/ IsSocket /\ Goto(p, "probe") /\ seen' = [seen EXCEPT ![p] = path.ino]
  /\ UNCHANGED <<path, bound>>

Probe_Skipped(p) ==
  pc[p] = "probe" /\ Goto(p, "recheck") /\ UNCHANGED <<path, bound, seen>>
Probe_RefusedIsInconclusive(p) ==
  pc[p] = "probe" /\ Goto(p, IF path = NoFile THEN "rebind" ELSE "failed") /\ UNCHANGED <<path, bound, seen>>
\* UnixStream::connect: refused when nobody listens on what the path names.
Probe(p) ==
  /\ pc[p] = "probe"
  /\ Goto(p, IF path = NoFile THEN "rebind" ELSE IF Answered THEN "failed" ELSE "recheck")
  /\ UNCHANGED <<path, bound, seen>>

Recheck(p) ==
  /\ pc[p] = "recheck"
  /\ Goto(p, IF path = NoFile THEN "rebind"
             ELSE IF ~IsSocket \/ path.ino # seen[p] THEN "failed" ELSE "unlink")
  /\ UNCHANGED <<path, bound, seen>>

\* remove_file: unlinks whatever the name names by now.
Unlink(p) ==
  /\ pc[p] = "unlink"
  /\ path' = NoFile /\ Goto(p, "rebind")
  /\ UNCHANGED <<bound, seen>>

\* An error of bind, lstat, connect or remove_file other than the ones above, or a
\* probe timeout: the start fails and the path stays as it is.
CallFails(p) ==
  /\ Faults /\ pc[p] \in {"bind", "lstat", "probe", "recheck", "unlink", "rebind"}
  /\ Goto(p, "failed") /\ UNCHANGED <<path, bound, seen>>

-----------------------------------------------------------------------------
(* Drop for Listener, and death.                                           *)

Drop_CloseFirst(p) ==
  \/ pc[p] = "serving" /\ bound' = [bound EXCEPT ![p] = NoInode] /\ Goto(p, "closing") /\ UNCHANGED <<path, seen>>
  \/ pc[p] = "closing" /\ path' = NoFile /\ Goto(p, "off") /\ UNCHANGED <<bound, seen>>
\* Drop::drop unlinks the path, then the fields drop and the socket closes.
Drop(p) ==
  \/ pc[p] = "serving" /\ path' = NoFile /\ Goto(p, "closing") /\ UNCHANGED <<bound, seen>>
  \/ pc[p] = "closing" /\ bound' = [bound EXCEPT ![p] = NoInode] /\ Goto(p, "off") /\ UNCHANGED <<path, seen>>

Crash(p) ==
  /\ Crashes /\ pc[p] # "off"
  /\ Goto(p, "off")
  /\ bound' = [bound EXCEPT ![p] = NoInode] /\ seen' = [seen EXCEPT ![p] = NoInode]
  /\ UNCHANGED path

Step(p) == Bind(p) \/ Lstat(p) \/ Probe(p) \/ Recheck(p) \/ Unlink(p) \/ Rebind(p) \/ Listen(p)

Next == \E p \in Procs : Step(p) \/ Start(p) \/ CallFails(p) \/ Drop(p) \/ Crash(p)

Spec == Init /\ [][Next]_vars

\* A starter runs on; nothing makes a server stop or a process start.
FairSpec == Spec /\ \A p \in Procs : WF_vars(Step(p))

-----------------------------------------------------------------------------
(* Properties.                                                             *)

\* spec.md "Preserve an occupied or unsafe path": while a process serves, the
\* path leads to it, whatever other processes try to start.
ServingReachable ==
  \A p \in Procs : pc[p] = "serving" => path = [kind |-> "socket", ino |-> bound[p]]

\* spec.md "release its owned socket path": a listener that drops never unlinks
\* the socket another process is serving on.
DropKeepsOthers ==
  [][\A p, q \in Procs :
       (/\ pc[p] \in {"serving", "closing"} /\ pc'[p] # pc[p] /\ q # p
        /\ pc[q] = "serving" /\ path = [kind |-> "socket", ino |-> bound[q]])
         => path' = path]_vars

\* What a connection to the path would find, and who serves.
Servers == {p \in Procs : pc[p] = "serving"}
Found == IF path = NoFile THEN "nothing"
         ELSE IF path.kind = "file" THEN "foreign"
         ELSE IF \E p \in Servers : bound[p] = path.ino THEN "live" ELSE "dead"

\* spec.md "Reclaim a stale Unix socket" and "Preserve an occupied or unsafe path":
\* the system calls of starts that do not overlap, of drops and of deaths keep the
\* promise of PathOwner.
Promise == INSTANCE PathOwner WITH entry <- Found, serving <- Servers
ImplementsPathOwner == Promise!Spec

\* spec.md "Reclaim a stale Unix socket": a process that starts while nobody else
\* runs gets the path back from a predecessor that was killed.
StaleReclaimed ==
  \A p \in Procs :
    (/\ pc[p] = "bind" /\ (path = NoFile \/ IsSocket)
     /\ \A q \in Procs \ {p} : pc[q] \in {"off", "failed"})
    ~> pc[p] \in {"serving", "off"}
=============================================================================
