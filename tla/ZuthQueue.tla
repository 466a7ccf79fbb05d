------------------------------- MODULE ZuthQueue -------------------------------
(***************************************************************************)
(* The task queue of one zuthServer: the sequential znodes the clients     *)
(* create under <Queue>/<serverUri>, the one-shot child watch on that      *)
(* path, and the two threads of the server that meet there.                *)
(*                                                                         *)
(*  - the main thread runs init_ZUTH_Server: it registers the server,      *)
(*    issues the first zoo_aget_children, creates the UA server and blocks *)
(*    in UA_Server_run until running is false;                             *)
(*  - the ZooKeeper completion thread runs zkUA_queueWatcher (watch and    *)
(*    session events) and zuth_processTasks (the answer to                 *)
(*    zoo_aget_children), one callback at a time.                          *)
(*                                                                         *)
(* ZooKeeper is external: it is modelled from the calls the server makes.  *)
(***************************************************************************)
EXTENDS Integers, Sequences

CONSTANTS
  MaxTask,      \* bound: tasks ever created
  MaxFault,     \* bound: failed ZooKeeper calls and session expiries
  MaxStart,     \* bound: starts of the server process
  Oversize,     \* may a task be longer than the 65535 bytes zoo_get reads?
  StaleBytes    \* what the three bytes above a Byte may hold when it is read
                \* through an Int32 pointer: the values of their 24 bits

ASSUME BoundsAssumption ==
  /\ MaxTask \in Nat
  /\ MaxFault \in Nat
  /\ MaxStart \in Nat
ASSUME OversizeAssumption == Oversize \subseteq BOOLEAN
ASSUME StaleBytesAssumption == StaleBytes \subseteq Int

VARIABLES
  \* ZooKeeper
  queue,        \* sequence numbers of the task znodes that exist
  nextTask,     \* the number ZOO_SEQUENCE gives the next task
  oversize,     \* the tasks whose data does not fit the buffer of zoo_get
  active,       \* owner of the ephemeral Active node: none, mine, stale
  session,      \* ZooKeeper session of this server process: live, expired
  armed,        \* is a child watch of this session set on the queue path?
  asked,        \* zoo_aget_children sent and not answered
  inbox,        \* events and completions the completion thread has to run
  faults,       \* faults so far
  \* server process
  starts,       \* starts so far
  main,         \* main thread: down, init, run, deleted
  running,      \* the global running
  pc,           \* completion thread: idle, gate, loop, process, delete, closed
  value,        \* local value of zkUA_queueWatcher
  batch,        \* tasks of strings->data that zuth_processTasks has still to do
  current,      \* the task zuth_executeRequest is working on
  \* history
  missed        \* tasks whose zoo_get or zoo_delete failed since they were listed

zkVars     == <<queue, nextTask, oversize, active, session, armed, asked, inbox, faults>>
serverVars == <<starts, main, running, pc, value, batch, current>>
vars       == <<zkVars, serverVars, missed>>

Tasks == 1 .. MaxTask
NoTask == 0

Child      == [kind |-> "child",   ids |-> {}]
Listed(S)  == [kind |-> "list",    ids |-> S]
ListFailed == [kind |-> "failed",  ids |-> {}]
Expired    == [kind |-> "expired", ids |-> {}]
Messages   == [kind : {"child", "list", "failed", "expired"}, ids : SUBSET Tasks]

\* A task znode was created or deleted: a set watch fires once.
FireWatch ==
  IF armed
  THEN armed' = FALSE /\ inbox' = Append(inbox, Child)
  ELSE UNCHANGED <<armed, inbox>>

Fault == faults < MaxFault /\ faults' = faults + 1

-----------------------------------------------------------------------------
Init ==
  /\ queue = {} /\ nextTask = 1 /\ oversize = {}
  /\ active = "none" /\ session = "expired"
  /\ armed = FALSE /\ asked = FALSE /\ inbox = <<>> /\ faults = 0
  /\ starts = 0 /\ main = "down" /\ running = TRUE
  /\ pc = "closed" /\ value = 0 /\ batch = {} /\ current = NoTask
  /\ missed = {}

(***************************************************************************)
(* Clients and ZooKeeper                                                   *)
(***************************************************************************)

\* A client pushes a task: zoo_create with ZOO_SEQUENCE under the queue path,
\* which exists once a server has been started.
CreateTask ==
  /\ starts > 0
  /\ nextTask <= MaxTask
  /\ queue' = queue \cup {nextTask}
  /\ nextTask' = nextTask + 1
  /\ \E big \in Oversize : oversize' = IF big THEN oversize \cup {nextTask} ELSE oversize
  /\ FireWatch
  /\ UNCHANGED <<active, session, asked, faults, serverVars, missed>>

\* Mutant: zoo_aget_children without the watch flag.
AnswerList_NoWatch ==
  /\ asked
  /\ asked' = FALSE
  /\ inbox' = Append(inbox, Listed(queue))
  /\ UNCHANGED <<queue, nextTask, oversize, active, session, armed, faults, serverVars, missed>>

\* ZooKeeper answers zoo_aget_children: the children, and the watch is set.
AnswerList ==
  /\ asked
  /\ asked' = FALSE
  /\ armed' = TRUE
  /\ inbox' = Append(inbox, Listed(queue))
  /\ UNCHANGED <<queue, nextTask, oversize, active, session, faults, serverVars, missed>>

\* The connection is lost while zoo_aget_children is outstanding: its
\* completion runs with an error code and no watch is set.
FailList ==
  /\ asked /\ Fault
  /\ asked' = FALSE
  /\ inbox' = Append(inbox, ListFailed)
  /\ UNCHANGED <<queue, nextTask, oversize, active, session, armed, serverVars, missed>>

\* The session of the running server expires: its ephemeral node and its
\* watch are gone. What it asked fails, before the server hears of the expiry or after it.
ExpireSession ==
  /\ main # "down" /\ session = "live" /\ Fault
  /\ session' = "expired"
  /\ active' = IF active = "mine" THEN "none" ELSE active
  /\ armed' = FALSE /\ asked' = FALSE
  /\ \/ ~asked /\ inbox' = Append(inbox, Expired)
     \/ asked /\ inbox' = Append(Append(inbox, ListFailed), Expired)
     \/ asked /\ inbox' = Append(Append(inbox, Expired), ListFailed)
  /\ UNCHANGED <<queue, nextTask, oversize, serverVars, missed>>

\* The session of a crashed server process times out.
ExpireStale ==
  /\ active = "stale"
  /\ active' = "none"
  /\ UNCHANGED <<queue, nextTask, oversize, session, armed, asked, inbox, faults, serverVars, missed>>

(***************************************************************************)
(* Main thread: init_ZUTH_Server                                           *)
(***************************************************************************)

\* zookeeper_init, the queue path, the Active node, the first
\* zoo_aget_children. An error only clears running.
StartServer ==
  /\ main = "down" /\ starts < MaxStart
  /\ starts' = starts + 1
  /\ main' = "init"
  /\ session' = "live"
  /\ \/ /\ active = "none"
        /\ active' = "mine" /\ running' = TRUE /\ UNCHANGED faults
     \/ /\ active = "stale"                      \* ZNODEEXISTS
        /\ running' = FALSE /\ UNCHANGED <<active, faults>>
     \/ /\ Fault                                  \* a zoo_create fails
        /\ running' = FALSE
        /\ active' \in (IF active = "none" THEN {"none", "mine"} ELSE {active})
  /\ armed' = FALSE /\ asked' = TRUE /\ inbox' = <<>>
  /\ pc' = "idle" /\ value' = 0 /\ batch' = {} /\ current' = NoTask
  /\ UNCHANGED <<queue, nextTask, oversize, missed>>

\* server = UA_Server_new(config), then UA_Server_run.
RunServer ==
  /\ main = "init"
  /\ main' = "run"
  /\ UNCHANGED <<zkVars, starts, running, pc, value, batch, current, missed>>

\* intHandler: ctrl-c
Interrupt ==
  /\ main \in {"init", "run"} /\ running
  /\ running' = FALSE
  /\ UNCHANGED <<zkVars, starts, main, pc, value, batch, current, missed>>

\* UA_Server_run returns because running is false; UA_Server_delete.
DeleteServer ==
  /\ main = "run" /\ ~running
  /\ main' = "deleted"
  /\ UNCHANGED <<zkVars, starts, running, pc, value, batch, current, missed>>

\* The process is gone: its volatile state with it.
Stop ==
  /\ main' = "down" /\ session' = "expired"
  /\ armed' = FALSE /\ asked' = FALSE /\ inbox' = <<>>
  /\ pc' = "closed" /\ value' = 0 /\ batch' = {} /\ current' = NoTask
  /\ UNCHANGED <<queue, nextTask, oversize, faults, starts, running, missed>>

\* zookeeper_close(zh) waits for the callback that runs and ends the
\* session; the process exits.
ExitServer ==
  /\ main = "deleted" /\ pc \in {"idle", "closed"}
  /\ active' = IF active = "mine" THEN "none" ELSE active
  /\ Stop

\* The process dies without closing its session.
Crash ==
  /\ main # "down"
  /\ active' = IF active = "mine" THEN "stale" ELSE active
  /\ Stop

(***************************************************************************)
(* Completion thread                                                       *)
(***************************************************************************)

Receive(kind, pcs) ==
  /\ main # "down" /\ pc \in pcs
  /\ inbox # <<>> /\ Head(inbox).kind = kind
  /\ inbox' = Tail(inbox)

\* zkUA_queueWatcher, ZOO_CHILD_EVENT. Before UA_Server_new the global server
\* is NULL and the read of the service level does not return: see NullServer.
ReceiveChild ==
  /\ Receive("child", {"idle"})
  /\ main # "init"
  /\ pc' = "gate" /\ value' = 0
  /\ UNCHANGED <<queue, nextTask, oversize, active, session, armed, asked, faults,
                 starts, main, running, batch, current, missed>>

\* Mutant: the service level is read once; if it is bad the event is dropped.
ReadServiceLevel_Once ==
  /\ pc = "gate"
  /\ \E stale \in StaleBytes : value' = 255 + 256 * stale
  /\ pc' = "idle" /\ asked' = (session = "live" /\ value' >= 200)
  /\ UNCHANGED <<queue, nextTask, oversize, active, session, armed, inbox, faults,
                 starts, main, running, batch, current, missed>>

\* One turn of while(value < 200): the Byte 255 of ServiceLevel is read as an
\* Int32, the three bytes above it are whatever the heap holds. Then
\* zoo_aget_children with the watch flag; on an expired session it is refused
\* and its return code is not looked at.
ReadServiceLevel ==
  /\ pc = "gate"
  /\ \E stale \in StaleBytes : value' = 255 + 256 * stale
  /\ IF value' < 200
     THEN UNCHANGED <<pc, asked>>
     ELSE pc' = "idle" /\ asked' = (session = "live")
  /\ UNCHANGED <<queue, nextTask, oversize, active, session, armed, inbox, faults,
                 starts, main, running, batch, current, missed>>

\* zkUA_queueWatcher, ZOO_EXPIRED_SESSION_STATE: zookeeper_close(zzh); zh = 0.
\* The completion thread ends once what is queued has run; running is left alone.
ReceiveExpired ==
  /\ Receive("expired", {"idle"})
  /\ pc' = "closed"
  /\ UNCHANGED <<queue, nextTask, oversize, active, session, armed, asked, faults,
                 starts, main, running, value, batch, current, missed>>

\* zuth_processTasks with an error code: intHandler, no children; also when it is queued
\* behind the callback that closed the handle.
ReceiveFailure ==
  /\ Receive("failed", {"idle", "closed"})
  /\ running' = FALSE
  /\ UNCHANGED <<queue, nextTask, oversize, active, session, armed, asked, faults,
                 starts, main, pc, value, batch, current, missed>>

\* Mutant: zuth_processTasks asks for the children again before it works on
\* these.
ReceiveList_AsksAgain ==
  /\ Receive("list", {"idle"})
  /\ batch' = Head(inbox).ids
  /\ missed' = missed \ batch'
  /\ pc' = "loop"
  /\ asked' = (session = "live")
  /\ UNCHANGED <<queue, nextTask, oversize, active, session, armed, faults,
                 starts, main, running, value, current>>

\* zuth_processTasks: the children, sorted by task number.
ReceiveList ==
  /\ Receive("list", {"idle"})
  /\ batch' = Head(inbox).ids
  /\ missed' = missed \ batch'
  /\ pc' = "loop"
  /\ UNCHANGED <<queue, nextTask, oversize, active, session, armed, asked, faults,
                 starts, main, running, value, current>>

\* Mutant: the children are not sorted.
FirstOf_Unsorted(t, S) == t \in S

FirstOf(t, S) == t \in S /\ \A u \in S : t <= u

\* Mutant: off by one in strings->data[i].
GetTask_OffByOne ==
  /\ pc = "loop"
  /\ \E t \in batch :
       /\ FirstOf(t, batch)
       /\ t \in queue /\ session = "live" /\ t \notin oversize
       /\ current' = t + 1
  /\ pc' = "process"
  /\ UNCHANGED <<zkVars, starts, main, running, value, batch, missed>>

\* zuth_executeRequest up to the parsed document.
GetTask ==
  /\ pc = "loop"
  /\ \E t \in batch :
       /\ FirstOf(t, batch)
       /\ t \in queue /\ session = "live" /\ t \notin oversize
       /\ current' = t
  /\ pc' = "process"
  /\ UNCHANGED <<zkVars, starts, main, running, value, batch, missed>>

\* zoo_get fails, or the data is cut off at 65535 bytes: json_loads fails and
\* the task is left where it is.
GetTaskFails ==
  /\ pc = "loop"
  /\ \E t \in batch :
       /\ FirstOf(t, batch)
       /\ IF t \notin queue \/ session = "expired" \/ t \in oversize
          THEN UNCHANGED faults
          ELSE Fault
       /\ batch' = batch \ {t}
       /\ missed' = missed \cup {t}
  /\ UNCHANGED <<queue, nextTask, oversize, active, session, armed, asked, inbox,
                 starts, main, running, pc, value, current>>

\* UA_SecureChannel_processChunks returns, whatever it made of the chunk.
ProcessTask ==
  /\ pc = "process"
  /\ main # "init"
  /\ pc' = "delete"
  /\ UNCHANGED <<zkVars, starts, main, running, value, batch, current, missed>>

\* zoo_delete and the next turn of the loop.
DeleteTask ==
  /\ pc = "delete"
  /\ batch' = batch \ {current}
  /\ current' = NoTask
  /\ pc' = "loop"
  /\ \/ /\ session = "live"
        /\ queue' = queue \ {current} /\ FireWatch
        /\ UNCHANGED <<faults, missed>>
     \/ /\ session = "live" /\ Fault                \* deleted, or not
        /\ \/ queue' = queue \ {current} /\ FireWatch
           \/ UNCHANGED <<queue, armed, inbox>>
        /\ missed' = missed \cup {current}
     \/ /\ session = "expired"
        /\ missed' = missed \cup {current}
        /\ UNCHANGED <<queue, armed, inbox, faults>>
  /\ UNCHANGED <<nextTask, oversize, active, session, asked, starts, main, running, value>>

\* zuth_processTasks returns.
EndBatch ==
  /\ pc = "loop" /\ batch = {}
  /\ pc' = "idle"
  /\ UNCHANGED <<zkVars, starts, main, running, value, batch, current, missed>>

\* A callback reaches for the server before init_ZUTH_Server created it:
\* UA_Server_readValue or ZUTH_getSecureChannel dereferences NULL.
NullServer ==
  /\ main = "init"
  /\ \/ pc = "process"
     \/ pc = "idle" /\ inbox # <<>> /\ Head(inbox).kind = "child"
  /\ Crash

CompletionThread ==
  \/ ReceiveChild \/ ReadServiceLevel \/ ReceiveExpired \/ ReceiveFailure
  \/ ReceiveList \/ GetTask \/ GetTaskFails \/ ProcessTask \/ DeleteTask \/ EndBatch

MainThread == RunServer \/ DeleteServer \/ ExitServer

Next ==
  \/ CreateTask \/ AnswerList \/ FailList \/ ExpireSession \/ ExpireStale
  \/ StartServer \/ Interrupt \/ MainThread
  \/ CompletionThread \/ NullServer \/ Crash

Spec == Init /\ [][Next]_vars

(***************************************************************************)
(* Fairness: the two threads of a running process are scheduled and        *)
(* ZooKeeper answers. Nothing is assumed of clients, faults, signals,      *)
(* crashes and restarts.                                                   *)
(***************************************************************************)
Fairness ==
  /\ WF_vars(AnswerList)
  /\ WF_vars(MainThread)
  /\ WF_vars(CompletionThread)

FairSpec == Spec /\ Fairness

-----------------------------------------------------------------------------
\* The states a server process, its session and its queue can be in.
TypeOK ==
  /\ queue \subseteq Tasks /\ nextTask \in 1 .. MaxTask + 1
  /\ oversize \subseteq Tasks
  /\ active \in {"none", "mine", "stale"} /\ session \in {"live", "expired"}
  /\ armed \in BOOLEAN /\ asked \in BOOLEAN
  /\ inbox \in Seq(Messages) /\ faults \in 0 .. MaxFault
  /\ starts \in 0 .. MaxStart
  /\ main \in {"down", "init", "run", "deleted"} /\ running \in BOOLEAN
  /\ pc \in {"idle", "gate", "loop", "process", "delete", "closed"}
  /\ value \in Int
  /\ batch \subseteq Tasks /\ current \in Tasks \cup {NoTask}
  /\ missed \subseteq Tasks

\* Positions in the inbox of the messages that make the server look again.
EarMessages == {i \in DOMAIN inbox : inbox[i].kind \in {"child", "failed"}}
Lists       == {i \in DOMAIN inbox : inbox[i].kind = "list"}

SomeEar == armed \/ asked \/ pc = "gate" \/ EarMessages # {}

OneEarAtMost ==
  /\ armed       => ~asked /\ pc # "gate" /\ EarMessages = {}
  /\ asked       => pc # "gate" /\ EarMessages = {}
  /\ pc = "gate" => EarMessages = {}
  /\ \A i, j \in EarMessages : i = j

\* As long as its session lives and no zoo_aget_children has failed, the
\* server has exactly one of: a set watch, an unanswered request for the
\* children, a child event it has not looked at, a watcher callback in its
\* service-level loop. With none a new task would never be noticed (the watch
\* is one-shot); with two, two lists could be fetched at once.
OneEar ==
  main # "down" =>
    /\ OneEarAtMost
    /\ session = "live" /\ running => SomeEar

\* A server at rest has seen every task that exists: what is left in the queue
\* is what it fetched and could not read or delete (zuth_executeRequest
\* returns without zoo_delete, or only logs its error).
AtRest ==
  /\ main # "down" /\ session = "live" /\ running
  /\ pc = "idle" /\ inbox = <<>> /\ ~asked

NoTaskOverlooked == AtRest => queue \subseteq missed

\* zuth_processTasks never works on a stale list: every task it has still to
\* do, and every task of a list it has not looked at, is in the queue.
ListIsFresh ==
  /\ batch \subseteq queue
  /\ \A i \in Lists : inbox[i].ids \subseteq queue

\* Tasks are processed in the order ZooKeeper numbered them, across lists: when
\* a task is handed to the UA server, an older task still in the queue is one
\* that was tried and could not be read or deleted.
NoOvertaking ==
  pc = "process" => \A u \in queue : u < current => u \in missed

Serving == main = "run" /\ running /\ session = "live"

\* While the server serves, every task is eventually taken from the queue or
\* tried in vain: no task waits for another event that may never come. Only the
\* loop that reads the service level may keep it waiting (zuthServer.c 211-226, 258-309).
EveryTaskTried ==
  []<>(pc # "gate") => \A t \in Tasks : (t \in queue /\ Serving) ~> (t \notin queue \/ t \in missed \/ ~Serving)

Abstract == INSTANCE TaskQueue
  WITH phase <- IF pc \in {"process", "delete"} THEN pc ELSE "idle"

\* The queue keeps the promise of TaskQueue: one task at a time, oldest first,
\* none dropped without having been worked on.
Implements == Abstract!QueueSpec

\* "200-255 is healthy. See OPC UA Part 4": ServiceLevel reads 255, so the
\* watcher's loop ends with the first read.
HealthyLevelEndsLoop ==
  [][ ~(pc = "gate" /\ pc' = "gate" /\ value' # value) ]_vars

\* "Session expired. Shutting down...": the server that has closed its
\* ZooKeeper handle stops serving.
ExpiryShutsDown == (pc = "closed" /\ main = "run") ~> main # "run"

=============================================================================
