---------------------------- MODULE RepeatedJobs ----------------------------
(***************************************************************************)
(* The repeated jobs of the server loop (open62541.c 18022-18221) and the  *)
(* order of an iteration (18461-18537).                                    *)
(*                                                                         *)
(* The jobs are in a list, sorted by the time each is due.  An iteration   *)
(* walks over those that are due, runs each, and moves it to its new place *)
(* in the same list.  A job may remove itself or others: the cleanup       *)
(* removes the sampling and publishing jobs of the sessions that have      *)
(* timed out, and a publishing job those of a subscription at its end.     *)
(* None of the server's own jobs adds a repeated job.                      *)
(***************************************************************************)
EXTENDS Integers, FiniteSets, Sequences, SequencesExt

CONSTANTS
  JobIds,       \* jobs that may be added, each once (bound)
  Intervals,    \* the intervals asked for
  MinInterval,  \* the least interval accepted (5 ms)
  Second,       \* jobs of one interval are run together within this time
  MaxTime,      \* the clock stops here (bound)
  NoJob

JobsAssumption ==
  /\ NoJob \notin JobIds /\ Intervals \subseteq Nat
  /\ {MinInterval, Second, MaxTime} \subseteq Nat /\ MinInterval > 0

VARIABLES
  now,       \* UA_DateTime_nowMonotonic
  jobs,      \* server->repeatedJobs, first element first
  fresh,     \* jobs not added yet
  round,     \* the iteration under way: local variables of processRepeatedJobs
  callbacks, \* server->delayedCallbacks: the jobs that added one, first element first
  tied,      \* history: a job was due again at the very time of an iteration that ran it
  broken     \* history: an iteration went on from a job that had been freed

jobVars == <<now, jobs, fresh, round, callbacks, tied, broken>>

Idle == [phase |-> "idle", current |-> 0, at |-> NoJob, lastNow |-> NoJob, last |-> NoJob]

JobsInit ==
  /\ now = 0
  /\ jobs = <<>> /\ fresh = JobIds
  /\ round = Idle /\ callbacks = <<>>
  /\ tied = FALSE /\ broken = FALSE

IdsOf(list) == {list[k].id : k \in DOMAIN list}
Place(list, id) == CHOOSE k \in DOMAIN list : list[k].id = id
Entry(list, id) == list[Place(list, id)]
NextOf(list, id) ==
  IF Place(list, id) = Len(list) THEN NoJob ELSE list[Place(list, id) + 1].id
PreviousOf(list, id) == IF Place(list, id) = 1 THEN NoJob ELSE list[Place(list, id) - 1].id
Without(list, ids) ==
  LET kept[k \in 0 .. Len(list)] ==
        IF k = 0 THEN <<>>
        ELSE IF list[k].id \in ids THEN kept[k - 1]
        ELSE Append(kept[k - 1], list[k])
  IN kept[Len(list)]
After(list, id, job) == InsertAt(list, Place(list, id) + 1, job)

\* addRepeatedJob looks for the job to insert after: the last one due before the
\* new job, or the first of the same interval due less than a second before, whose time it takes.
Search(list, interval) ==
  LET found[k \in 0 .. Len(list)] ==
        IF k = 0 THEN [max |-> now + interval, after |-> 0]
        ELSE LET s == found[k - 1] IN
             IF s.after # k - 1 \/ list[k].next >= s.max THEN s
             ELSE [max |-> IF list[k].interval = interval /\ list[k].next > s.max - Second
                           THEN list[k].next ELSE s.max,
                   after |-> k]
  IN found[Len(list)]

Added(list, id, interval) ==
  LET s == Search(list, interval)
  IN InsertAt(list, s.after + 1, [id |-> id, next |-> s.max, interval |-> interval])

\* UA_Server_addRepeatedJob, from outside the loop or by a service.
AddJob(id, interval) ==
  /\ round.phase \in {"idle", "network"} /\ id \in fresh
  /\ IF interval < MinInterval THEN UNCHANGED <<jobs, fresh>>
     ELSE jobs' = Added(jobs, id, interval) /\ fresh' = fresh \ {id}
  /\ UNCHANGED <<now, round, callbacks, tied, broken>>

\* UA_Server_removeRepeatedJob, likewise.
RemoveJob(id) ==
  /\ round.phase \in {"idle", "network"} /\ id \in IdsOf(jobs)
  /\ jobs' = Without(jobs, {id})
  /\ UNCHANGED <<now, fresh, round, callbacks, tied, broken>>

Tick ==
  /\ now < MaxTime /\ ~broken
  /\ now' = now + 1
  /\ UNCHANGED <<jobs, fresh, round, callbacks, tied, broken>>

(***************************************************************************)
(* An iteration.                                                           *)
(***************************************************************************)

\* The last of the leading jobs that are due.
LastDue(t) ==
  LET due == {k \in DOMAIN jobs : \A i \in 1 .. k : jobs[i].next <= t}
  IN IF due = {} THEN NoJob ELSE jobs[Max(due)].id

BeginRound ==
  /\ round.phase = "idle" /\ ~broken
  /\ round' = [phase |-> "jobs", current |-> now, lastNow |-> LastDue(now), last |-> NoJob,
               at |-> IF jobs = <<>> THEN NoJob ELSE jobs[1].id]
  /\ UNCHANGED <<now, jobs, fresh, callbacks, tied, broken>>

Due ==
  /\ round.phase = "jobs" /\ ~broken /\ round.at # NoJob
  /\ Entry(jobs, round.at).next <= round.current

\* Mutant: what is late is not put off, but made up for.
Later_MakesUp(job) == job.next + job.interval

\* When a job that has run is due again.
Later(job) ==
  IF job.next + job.interval < round.current THEN round.current + 1
  ELSE job.next + job.interval

\* The job that has run has its new time in the list, but is still at its old place.
Timed(list, next) == [list EXCEPT ![Place(list, round.at)].next = next]

\* It is due together with the one that ran before.
Batched(timed, next) ==
  /\ round.last # NoJob /\ round.last \in IdsOf(timed)
  /\ Entry(timed, round.last).next = next

\* The jobs that are read to find its new place, freed or not.
Uses(timed, next) ==
  {round.last} \cup (IF Batched(timed, next) THEN {} ELSE {round.lastNow})

\* The job to go behind: the one that ran before, or, from the last due one on, the
\* first that is followed by none due earlier.
Predecessor(timed, next) ==
  IF Batched(timed, next) THEN round.last
  ELSE LET stops == {k \in Place(timed, round.lastNow) .. Len(timed) :
                       k = Len(timed) \/ timed[k + 1].next >= next}
       IN timed[Min(stops)].id

Moved(timed, next) ==
  LET before == Predecessor(timed, next)
  IN IF before = round.at THEN timed
     ELSE After(RemoveAt(timed, Place(timed, round.at)), before, Entry(timed, round.at))

\* One job: what it does to the list, then its own new place.  The element that follows
\* was fetched before, and the one in front of it tells afterwards whether the job removed
\* itself; the walk goes on from the former and reads the latter, freed or not.
RunJob(list, calls) ==
  LET next == Later(Entry(jobs, round.at))
      saved == NextOf(jobs, round.at)
      moves == round.at \in IdsOf(list)
      used == {saved, PreviousOf(jobs, round.at)} \cup
              (IF moves THEN Uses(Timed(list, next), next) ELSE {})
  IN /\ broken' = ~ (used \ {NoJob} \subseteq IdsOf(list))
     /\ jobs' = IF moves /\ ~broken' THEN Moved(Timed(list, next), next) ELSE list
     /\ tied' = (tied \/ (moves /\ next = round.current))
     /\ callbacks' = calls \o callbacks
     /\ round' = [round EXCEPT !.at = saved, !.last = IF moves THEN round.at ELSE @]
     /\ UNCHANGED <<now, fresh>>

RunPlain == Due /\ RunJob(jobs, <<>>)

RunDelays == Due /\ Len(callbacks) < 2 /\ RunJob(jobs, <<round.at>>)

RunRemoves(ids) == Due /\ RunJob(Without(jobs, ids), <<>>)

EndJobs ==
  /\ round.phase = "jobs" /\ ~broken /\ ~Due
  /\ round' = [round EXCEPT !.phase = "network"]
  /\ UNCHANGED <<now, jobs, fresh, callbacks, tied, broken>>

\* The network jobs are run (see AddJob, RemoveJob), then the delayed callbacks,
\* all of them, the youngest first.
EndRound ==
  /\ round.phase = "network"
  /\ round' = [Idle EXCEPT !.current = round.current]
  /\ callbacks' = <<>>
  /\ UNCHANGED <<now, jobs, fresh, tied, broken>>

JobsNext ==
  \/ Tick \/ BeginRound \/ RunPlain \/ RunDelays \/ EndJobs \/ EndRound
  \/ \E id \in JobIds :
       RemoveJob(id) \/ \E interval \in Intervals : AddJob(id, interval)
  \/ \E ids \in SUBSET IdsOf(jobs) : ids # {} /\ RunRemoves(ids)

JobsSpec == JobsInit /\ [][JobsNext]_jobVars

(***************************************************************************)
(* Properties                                                              *)
(***************************************************************************)

Job == [id : JobIds, next : Nat, interval : Intervals]

\* An id is in a list once.
Distinct(list) == \A i, k \in DOMAIN list : list[i].id = list[k].id => i = k

JobsTypeOK ==
  /\ now \in 0 .. MaxTime
  /\ jobs \in Seq(Job) /\ Distinct(jobs)
  /\ fresh \subseteq JobIds \ IdsOf(jobs)
  /\ round \in [phase : {"idle", "jobs", "network"}, current : 0 .. now,
                at : JobIds \cup {NoJob}, lastNow : JobIds \cup {NoJob},
                last : JobIds \cup {NoJob}]
  /\ callbacks \in Seq(JobIds)
  /\ tied \in BOOLEAN /\ broken \in BOOLEAN

\* No job is overlooked, and none is put off for longer than its interval: after
\* an iteration each is due after the time of that iteration, and within its
\* interval from then on, or from when it was added (18037-18064, 18147-18183).  Not so once an
\* interval has ended at the very time of an iteration (18152): the job then stays in front of
\* others that are due, and the list is no longer sorted.
Punctual ==
  (round.phase # "jobs" /\ ~tied /\ ~broken) =>
    \A k \in DOMAIN jobs :
      /\ round.phase = "network" => round.current < jobs[k].next
      /\ jobs[k].next <= now + jobs[k].interval

=============================================================================
