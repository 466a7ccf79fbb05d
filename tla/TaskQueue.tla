------------------------------ MODULE TaskQueue ------------------------------
(***************************************************************************)
(* What the task queue of a zuthServer promises, without watches, lists,   *)
(* sessions and threads: tasks are numbered as they come, one is worked on *)
(* at a time, a task is taken only after every older one still queued has  *)
(* been tried, and a task leaves the queue only when it was worked on.     *)
(* ZuthQueue implements it (ZuthQueue!Implements); Throttle builds on it.  *)
(***************************************************************************)
EXTENDS Integers

CONSTANT MaxTask     \* bound: tasks ever created

VARIABLES
  queue,        \* the tasks that exist
  nextTask,     \* the number of the next task
  missed,       \* tasks that could not be read or deleted since last listed
  phase,        \* idle, process (current was read), delete (it was handled)
  current       \* the task worked on

queueVars == <<queue, nextTask, missed, phase, current>>

Tasks  == 1 .. MaxTask
NoTask == 0

QueueInit ==
  queue = {} /\ nextTask = 1 /\ missed = {} /\ phase = "idle" /\ current = NoTask

\* Everything older than t was tried.
OldestFirst(t) == \A u \in queue : u < t => u \in missed

\* A client pushes a task.
Create ==
  /\ nextTask <= MaxTask
  /\ queue' = queue \cup {nextTask} /\ nextTask' = nextTask + 1
  /\ UNCHANGED <<missed, phase, current>>

\* The children are listed: what was missed may be tried again.
Relist ==
  /\ phase = "idle"
  /\ \E S \in SUBSET missed : missed' = missed \ S
  /\ UNCHANGED <<queue, nextTask, phase, current>>

\* A task is read, or cannot be read.
Take ==
  /\ phase = "idle" /\ phase' = "process"
  /\ \E t \in queue \ missed : OldestFirst(t) /\ current' = t
  /\ UNCHANGED <<queue, nextTask, missed>>

Miss ==
  /\ phase = "idle"
  /\ \E t \in queue \ missed : OldestFirst(t) /\ missed' = missed \cup {t}
  /\ UNCHANGED <<queue, nextTask, phase, current>>

\* The task is handed to the UA server.
Handle ==
  /\ phase = "process" /\ phase' = "delete"
  /\ UNCHANGED <<queue, nextTask, missed, current>>

\* The task is deleted; if zoo_delete fails it may be gone or not.
Finish ==
  /\ phase = "delete" /\ phase' = "idle" /\ current' = NoTask
  /\ \/ queue' = queue \ {current} /\ missed' = missed
     \/ queue' \in {queue, queue \ {current}} /\ missed' = missed \cup {current}
  /\ UNCHANGED nextTask

\* The server stops, whatever it was doing.
Abort ==
  /\ phase' = "idle" /\ current' = NoTask
  /\ UNCHANGED <<queue, nextTask, missed>>

QueueNext == Create \/ Relist \/ Take \/ Miss \/ Handle \/ Finish \/ Abort

QueueSpec == QueueInit /\ [][QueueNext]_queueVars
=============================================================================
