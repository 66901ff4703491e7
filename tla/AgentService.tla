---------------------------- MODULE AgentService ----------------------------
(***************************************************************************)
(* What the service loop of keyring-cli promises the administrator and the *)
(* clients, without its select, stop channels and task sets: every reload  *)
(* that was asked for leads to a read of the file that begins later, reads *)
(* come one at a time, each is paid by one request, a read that succeeded  *)
(* replaces the agent and tells every open session to stop, one that       *)
(* failed changes nothing, and a service that goes down tells every        *)
(* session, accepts no other and applies no other configuration.           *)
(***************************************************************************)
EXTENDS Naturals

CONSTANTS Clients, Configs, ValidConfigs, NoConfig

VARIABLES
  file,      \* the content of the configuration file
  agent,     \* the generation that serves new clients and what it was built from
  asked,     \* the requests for a reload that no read has answered
  read,      \* the read of the file that is under way, and what it has found
  sessions,  \* the clients with a session
  told,      \* those whose session has been told to stop
  down       \* the service has begun to stop

vars == <<file, agent, asked, read, sessions, told, down>>

NoRead == [st |-> "none", cfg |-> NoConfig]
Reading == [st |-> "running", cfg |-> NoConfig]

Init ==
  /\ file \in Configs /\ agent = [gen |-> 0, cfg |-> NoConfig]
  /\ asked = 0 /\ read = NoRead
  /\ sessions = {} /\ told = {} /\ down = FALSE

\* The first agent, before any client.
Start ==
  /\ ~down /\ agent.cfg = NoConfig /\ file \in ValidConfigs
  /\ agent' = [agent EXCEPT !.cfg = file]
  /\ UNCHANGED <<file, asked, read, sessions, told, down>>

Edit == file' \in Configs /\ UNCHANGED <<agent, asked, read, sessions, told, down>>

\* Requests may merge, but the last one stays until a read answers it.
Ask == asked' \in {asked, asked + 1} \ {0} /\ UNCHANGED <<file, agent, read, sessions, told, down>>
Merge ==
  /\ asked > 1 /\ read # NoRead
  /\ asked' = asked - 1
  /\ UNCHANGED <<file, agent, read, sessions, told, down>>

BeginRead == asked > 0 /\ asked' = asked - 1 /\ read' = Reading

Begin == ~down /\ read = NoRead /\ BeginRead /\ UNCHANGED <<file, agent, sessions, told, down>>

Finish ==
  /\ read = Reading
  /\ \/ file \in ValidConfigs /\ read' = [st |-> "ok", cfg |-> file]
     \/ read' = [st |-> "failed", cfg |-> NoConfig]
  /\ UNCHANGED <<file, agent, asked, sessions, told, down>>

\* The outcome of a read is applied, and the next read may begin at once.
Conclude ==
  /\ ~down /\ read.st \in {"ok", "failed"}
  /\ IF read.st = "ok" THEN agent' = [gen |-> agent.gen + 1, cfg |-> read.cfg] /\ told' = sessions
                       ELSE UNCHANGED <<agent, told>>
  /\ BeginRead \/ (read' = NoRead /\ UNCHANGED asked)
  /\ UNCHANGED <<file, sessions, down>>

\* A session that begins is one of the agent that serves then.
Open(c) ==
  /\ ~down /\ agent.cfg # NoConfig /\ c \notin sessions
  /\ sessions' = sessions \cup {c}
  /\ UNCHANGED <<file, agent, asked, read, told, down>>

Close(c) ==
  /\ sessions' = sessions \ {c} /\ told' = told \ {c}
  /\ UNCHANGED <<file, agent, asked, read, down>>

\* A shutdown lets the sessions end; a service that fails takes them along.
GoDown ==
  /\ ~down /\ down' = TRUE
  /\ sessions' \in {sessions, {}} /\ told' = sessions'
  /\ UNCHANGED <<file, agent, asked, read>>

Next == \/ Start \/ Edit \/ Ask \/ Merge \/ Begin \/ Finish \/ Conclude \/ GoDown
        \/ \E c \in Clients : Open(c) \/ Close(c)

Spec == Init /\ [][Next]_vars
=============================================================================
