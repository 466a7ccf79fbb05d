----------------------------- MODULE ServerStart -----------------------------
(***************************************************************************)
(* How the servers of one redundancy group set up their znodes.            *)
(*                                                                         *)
(*   /Servers/<group>/Queue/<endpoint>    the tasks of a server, kept      *)
(*   /Servers/<group>/Active/<endpoint>   ephemeral: that server is alive  *)
(*                                                                         *)
(* Every process that starts makes what is missing, all at the same time   *)
(* and without a lock. Three of the creates are asynchronous and nobody    *)
(* looks at their results: they lean on ZooKeeper answering the requests   *)
(* of one session in the order they were made. A process may crash or lose *)
(* its connection anywhere; its session, and with it the ephemeral znode,  *)
(* lives on until ZooKeeper gives it up.                                   *)
(***************************************************************************)
EXTENDS Naturals, Sequences

CONSTANTS
  Processes,    \* places a server process can run, with a configuration file
  Endpoints,    \* encoded server URIs
  EndpointOf,   \* Hostname and PortNumber of the configuration
  MaxSession,   \* bound: ZooKeeper sessions, one for each start
  MaxLoss       \* bound: calls that fail with the connection to ZooKeeper

ASSUME EndpointAssumption == EndpointOf \in [Processes -> Endpoints]
ASSUME BoundAssumption == MaxSession \in Nat /\ MaxLoss \in Nat

VARIABLES
  \* ZooKeeper
  tree,         \* the persistent znodes above the endpoints
  tasks,        \* endpoints with a znode below Queue
  active,       \* the session that owns the znode below Active, by endpoint
  expired,      \* sessions ZooKeeper has given up
  \* a process
  pc,           \* the next step of init_ZUTH_Server
  session,      \* its session
  pending,      \* asynchronous creates that are not answered
  running,
  refused,      \* history: why a create made it give up
  \* bounds
  sessions, losses

zookeeper == <<tree, tasks, active, expired>>
vars      == <<zookeeper, pc, session, pending, running, refused, sessions, losses>>

NoSession == 0

Parent == [Servers |-> "root", Group |-> "Servers", Active |-> "Group", Queue |-> "Group"]

Path == DOMAIN Parent

Init ==
  /\ tree = {"root"} /\ tasks = {} /\ active = [e \in Endpoints |-> NoSession] /\ expired = {}
  /\ pc = [p \in Processes |-> "off"] /\ session = [p \in Processes |-> NoSession]
  /\ pending = [p \in Processes |-> <<>>] /\ running = [p \in Processes |-> FALSE]
  /\ refused = [p \in Processes |-> "no"] /\ sessions = 0 /\ losses = 0

-----------------------------------------------------------------------------
(* A call on ZooKeeper: its session is alive, and it is answered after every *)
(* request made before it. Or the connection is lost meanwhile; then all     *)
(* requests that are not answered yet fail with it, done or not.             *)

Goto(p, here, there) == pc[p] = here /\ pc' = [pc EXCEPT ![p] = there]

Alive(p) == session[p] # NoSession /\ session[p] \notin expired

Answered(p) == Alive(p) /\ pending[p] = <<>> /\ UNCHANGED <<pending, losses>>

Fails(p) ==
  \/ ~Alive(p) /\ UNCHANGED <<pending, losses>>
  \/ /\ losses < MaxLoss /\ losses' = losses + 1
     /\ pending' = [pending EXCEPT ![p] = <<>>]

With(path) == IF Parent[path] \in tree THEN tree \cup {path} ELSE tree

\* intHandler(SIGINT): the process goes on to UA_Server_run, which returns.
GiveUp(p, why) ==
  /\ running' = [running EXCEPT ![p] = FALSE]
  /\ refused' = [refused EXCEPT ![p] = why]

-----------------------------------------------------------------------------
\* Mutant: the session is one that was there before.
Start_OldSession(p) ==
  /\ Goto(p, "off", "check")
  /\ sessions < MaxSession /\ session' = [session EXCEPT ![p] = sessions + 1]
  /\ running' = [running EXCEPT ![p] = TRUE] /\ refused' = [refused EXCEPT ![p] = "no"]
  /\ UNCHANGED <<zookeeper, pending, sessions, losses>>

\* main: zookeeper_init
Start(p) ==
  /\ Goto(p, "off", "check")
  /\ sessions < MaxSession /\ sessions' = sessions + 1
  /\ session' = [session EXCEPT ![p] = sessions + 1]
  /\ running' = [running EXCEPT ![p] = TRUE] /\ refused' = [refused EXCEPT ![p] = "no"]
  /\ UNCHANGED <<zookeeper, pending, losses>>

\* zkUA_initializeZkServerQueuePath: zoo_exists on the Queue path. Every error
\* is taken for a path that does not exist.
CheckQueue(p) ==
  /\ \/ Answered(p) /\ "Queue" \in tree /\ Goto(p, "check", "tasks")
     \/ Answered(p) /\ "Queue" \notin tree /\ Goto(p, "check", "Servers")
     \/ Fails(p) /\ Goto(p, "check", "Servers")
  /\ UNCHANGED <<zookeeper, session, running, refused, sessions>>

\* zoo_create(/Servers); the result is only printed.
CreateServers(p) ==
  /\ Goto(p, "Servers", "Group")
  /\ \/ Answered(p) /\ tree' = With("Servers")
     \/ Fails(p) /\ tree' = tree
     \/ Alive(p) /\ Fails(p) /\ tree' = With("Servers")
  /\ UNCHANGED <<tasks, active, expired, session, running, refused, sessions>>

\* Mutant: the queues are created before the path for the active servers.
Follows_QueueFirst == [Group |-> "Queue", Queue |-> "Active", Active |-> "tasks"]

\* The order of the three zoo_acreate calls.
Follows == [Group |-> "Active", Active |-> "Queue", Queue |-> "tasks"]

AsyncCreate(p) ==
  \E path \in DOMAIN Follows :
    /\ Goto(p, path, Follows[path])
    /\ pending' = IF Alive(p) THEN [pending EXCEPT ![p] = Append(@, path)] ELSE pending
    /\ UNCHANGED <<zookeeper, session, running, refused, sessions, losses>>

\* ZooKeeper serves the requests of a session in order.
Serve(p) ==
  /\ Alive(p) /\ pending[p] # <<>>
  /\ tree' = With(Head(pending[p]))
  /\ pending' = [pending EXCEPT ![p] = Tail(@)]
  /\ UNCHANGED <<tasks, active, expired, pc, session, running, refused, sessions, losses>>

\* The connection is lost between two calls.
Lose(p) ==
  /\ pending[p] # <<>> /\ losses < MaxLoss /\ losses' = losses + 1
  /\ pending' = [pending EXCEPT ![p] = <<>>]
  /\ UNCHANGED <<zookeeper, pc, session, running, refused, sessions>>

\* Mutant: the result is only printed.
CreateTasks_AnyResult(p) ==
  /\ Goto(p, "tasks", "active")
  /\ \/ Answered(p) /\ "Queue" \in tree /\ tasks' = tasks \cup {EndpointOf[p]}
     \/ Fails(p) /\ UNCHANGED tasks
  /\ UNCHANGED <<tree, active, expired, session, running, refused, sessions>>

\* init_ZUTH_Server: zoo_create of the queue; that it exists is fine.
CreateTasks(p) ==
  /\ Goto(p, "tasks", "active")
  /\ \/ /\ Answered(p) /\ "Queue" \in tree
        /\ tasks' = tasks \cup {EndpointOf[p]} /\ UNCHANGED <<running, refused>>
     \/ Answered(p) /\ "Queue" \notin tree /\ GiveUp(p, "no parent") /\ UNCHANGED tasks
     \/ Fails(p) /\ GiveUp(p, "connection") /\ UNCHANGED tasks
     \/ /\ Alive(p) /\ Fails(p) /\ GiveUp(p, "connection")
        /\ "Queue" \in tree /\ tasks' = tasks \cup {EndpointOf[p]}
  /\ UNCHANGED <<tree, active, expired, session, sessions>>

\* Mutant: that the znode exists is fine here too.
CreateActive_ExistsIsFine(p) ==
  LET e == EndpointOf[p]
      own == active' = [active EXCEPT ![e] = session[p]]
  IN /\ Goto(p, "active", "run")
     /\ \/ Answered(p) /\ "Active" \in tree /\ active[e] = NoSession /\ own
           /\ UNCHANGED <<running, refused>>
        \/ /\ Answered(p) /\ "Active" \in tree /\ active[e] # NoSession
           /\ UNCHANGED <<active, running, refused>>
        \/ Answered(p) /\ "Active" \notin tree /\ GiveUp(p, "no parent") /\ UNCHANGED active
        \/ Fails(p) /\ GiveUp(p, "connection") /\ UNCHANGED active
     /\ UNCHANGED <<tree, tasks, expired, session, sessions>>

\* zoo_create of the ephemeral znode. That it exists is an error: the server,
\* or the session of one that crashed, is still there.
CreateActive(p) ==
  LET e == EndpointOf[p]
      own == active' = [active EXCEPT ![e] = session[p]]
  IN /\ Goto(p, "active", "run")
     /\ \/ Answered(p) /\ "Active" \in tree /\ active[e] = NoSession /\ own
           /\ UNCHANGED <<running, refused>>
        \/ /\ Answered(p) /\ "Active" \in tree /\ active[e] # NoSession
           /\ GiveUp(p, "exists") /\ UNCHANGED active
        \/ Answered(p) /\ "Active" \notin tree /\ GiveUp(p, "no parent") /\ UNCHANGED active
        \/ Fails(p) /\ GiveUp(p, "connection") /\ UNCHANGED active
        \/ /\ Alive(p) /\ Fails(p) /\ GiveUp(p, "connection")
           /\ "Active" \in tree /\ active[e] = NoSession /\ own
     /\ UNCHANGED <<tree, tasks, expired, session, sessions>>

\* ctrl-c
Interrupt(p) ==
  /\ pc[p] # "off" /\ running[p]
  /\ running' = [running EXCEPT ![p] = FALSE]
  /\ UNCHANGED <<zookeeper, pc, session, pending, refused, sessions, losses>>

Ends(p) ==
  /\ pc' = [pc EXCEPT ![p] = "off"] /\ running' = [running EXCEPT ![p] = FALSE]
  /\ session' = [session EXCEPT ![p] = NoSession]
  /\ pending' = [pending EXCEPT ![p] = <<>>]

Gone(s) ==
  /\ expired' = expired \cup {s}
  /\ active' = [e \in Endpoints |-> IF active[e] = s THEN NoSession ELSE active[e]]

\* UA_Server_run returns, and main ends with zookeeper_close.
Exit(p) ==
  /\ pc[p] = "run" /\ ~running[p] /\ Ends(p)
  /\ IF Alive(p) THEN Gone(session[p]) ELSE UNCHANGED <<expired, active>>
  /\ UNCHANGED <<tree, tasks, refused, sessions, losses>>

\* What was sent may be served yet; what was not is lost with the process.
Crash(p) ==
  /\ pc[p] # "off" /\ Ends(p)
  /\ UNCHANGED <<zookeeper, refused, sessions, losses>>

\* ZooKeeper has not heard of a session for its timeout. The znode goes, and
\* with it what was pending.
Expire(s) ==
  /\ s \in 1 .. sessions /\ s \notin expired
  /\ Gone(s)
  /\ pending' = [p \in Processes |-> IF session[p] = s THEN <<>> ELSE pending[p]]
  /\ UNCHANGED <<tree, tasks, pc, session, running, refused, sessions, losses>>

Setup(p) ==
  \/ CheckQueue(p) \/ CreateServers(p) \/ AsyncCreate(p) \/ CreateTasks(p) \/ CreateActive(p)

Next ==
  \/ \E p \in Processes :
       Start(p) \/ Setup(p) \/ Serve(p) \/ Lose(p) \/ Interrupt(p) \/ Exit(p) \/ Crash(p)
  \/ \E s \in 1 .. sessions : Expire(s)

Spec == Init /\ [][Next]_vars

-----------------------------------------------------------------------------
\* The states of ZooKeeper and of the processes; a session was opened by a start.
TypeOK ==
  /\ tree \subseteq Path \cup {"root"} /\ tasks \subseteq Endpoints
  /\ active \in [Endpoints -> 0 .. sessions] /\ expired \subseteq 1 .. sessions
  /\ pc \in [Processes -> {"off", "check", "tasks", "active", "run"} \cup Path]
  /\ session \in [Processes -> 0 .. sessions]
  /\ pending \in [Processes -> Seq(Path)]
  /\ running \in [Processes -> BOOLEAN]
  /\ refused \in [Processes -> {"no", "no parent", "exists", "connection"}]
  /\ sessions \in 0 .. MaxSession /\ losses \in 0 .. MaxLoss

\* The process works on the tasks of its endpoint: its session is alive and it
\* did not give up.
Works(p) == pc[p] = "run" /\ running[p] /\ Alive(p)

\* At most one server works on a queue, however many were started for it.
OneServer ==
  \A p, q \in Processes : Works(p) /\ Works(q) /\ EndpointOf[p] = EndpointOf[q] => p = q

\* A server that works has its queue, and is seen to be alive.
SetUp ==
  \A p \in Processes : Works(p) =>
    "Queue" \in tree /\ EndpointOf[p] \in tasks /\ active[EndpointOf[p]] = session[p]

\* Unless a connection is lost, no server gives up for want of a parent znode,
\* however many set up the group at the same time and wherever they crash. (If
\* one is lost between the creates of Active and of Queue, Queue is there and
\* Active is not: no later server makes it, and all of them give up.)
ParentsFirst == losses = 0 => \A p \in Processes : refused[p] # "no parent"
=============================================================================
