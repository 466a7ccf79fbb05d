----------------------------- MODULE NetworkLayer -----------------------------
(***************************************************************************)
(* The TCP network layer of the server (open62541.c 26553-27046) and the   *)
(* server loop that runs its jobs (17920-17952, 18460-18565).              *)
(*                                                                         *)
(* The layer maps descriptors to connections.  In each iteration it asks   *)
(* the kernel which of them can be read, reads one after the other, and    *)
(* turns what it reads into jobs: a message, or, when the connection is at *)
(* its end, to detach it from its channel and to free it.  Writes are made *)
(* by the services and by the ZooKeeper thread, which opens and closes     *)
(* descriptors as well, also while the layer reads.                        *)
(***************************************************************************)
EXTENDS Integers, FiniteSets, Sequences, SequencesExt

CONSTANTS
  Conns,        \* connections that clients open, one after the other, an interval (bound)
  Fds,          \* descriptors the kernel has to give, an interval (bound)
  Other,        \* owner of a descriptor that is not the layer's
  Free,         \* a descriptor that is not open
  MaxSend,      \* messages per client (bound)
  MaxOther      \* times that others open a descriptor (bound)

\* Descriptors are numbers, and connections are numbered in the order of their arrival.
NetworkAssumption ==
  /\ Conns \subseteq Nat /\ Fds \subseteq Nat
  /\ Conns \cap {Other, Free} = {} /\ Other # Free
  /\ MaxSend \in Nat /\ MaxOther \in Nat

VARIABLES
  mappings,   \* layer->mappings
  fds,        \* the kernel: what each descriptor is
  peer,       \* the client's end: "none", "waiting" (for accept), "open", "closed", "reset"
  unread,     \* messages in the socket that have not been read
  sends,      \* messages sent
  others,     \* descriptors opened by others so far
  shut,       \* connections that were shut down by the server
  ready,      \* what select reported: fdset and errset
  at,         \* the mapping that is read next; 0 while who connects is to be accepted
  jobList,    \* jobs of this iteration still to be run
  attached,   \* connections a channel may still write to
  freed,      \* how often each connection was freed
  failed,     \* history: has a write failed?
  stopped     \* has the server stopped?

kernel == <<fds, peer, unread, sends, others>>
loop == <<ready, at, jobList>>
networkVars == <<mappings, kernel, shut, loop, attached, freed, failed, stopped>>

NetworkInit ==
  /\ mappings = <<>> /\ fds = [d \in Fds |-> Free]
  /\ peer = [c \in Conns |-> "none"] /\ unread = [c \in Conns |-> 0]
  /\ sends = [c \in Conns |-> 0] /\ others = 0
  /\ shut = {} /\ ready = {} /\ at = 1 /\ jobList = <<>> /\ attached = {}
  /\ freed = [c \in Conns |-> 0]
  /\ failed = FALSE /\ stopped = FALSE

Mapped == {mappings[k].conn : k \in DOMAIN mappings}
FreeFds == {d \in Fds : fds[d] = Free}
Lowest(S) == CHOOSE d \in S : \A e \in S : d <= e

(***************************************************************************)
(* Clients and other users of descriptors.                                 *)
(***************************************************************************)

Connect(c) ==
  /\ peer[c] = "none" /\ ~stopped /\ \A b \in Conns : b < c => peer[b] # "none"
  /\ peer' = [peer EXCEPT ![c] = "waiting"]
  /\ UNCHANGED <<mappings, fds, unread, sends, others, shut, loop, attached, freed, failed, stopped>>

ClientSends(c) ==
  /\ peer[c] \in {"waiting", "open"} /\ sends[c] < MaxSend /\ c \notin shut
  /\ sends' = [sends EXCEPT ![c] = @ + 1]
  /\ unread' = [unread EXCEPT ![c] = @ + 1]
  /\ UNCHANGED <<mappings, fds, peer, others, shut, loop, attached, freed, failed, stopped>>

\* An orderly end, after which what was sent is still read, or a reset.
ClientEnds(c, how) ==
  /\ peer[c] = "open"
  /\ peer' = [peer EXCEPT ![c] = how]
  /\ unread' = IF how = "reset" THEN [unread EXCEPT ![c] = 0] ELSE unread
  /\ UNCHANGED <<mappings, fds, sends, others, shut, loop, attached, freed, failed, stopped>>

OtherOpens ==
  /\ others < MaxOther /\ FreeFds # {}
  /\ others' = others + 1
  /\ fds' = [fds EXCEPT ![Lowest(FreeFds)] = Other]
  /\ UNCHANGED <<mappings, peer, unread, sends, shut, loop, attached, freed, failed, stopped>>

OtherCloses(d) ==
  /\ fds[d] = Other
  /\ fds' = [fds EXCEPT ![d] = Free]
  /\ UNCHANGED <<mappings, peer, unread, sends, others, shut, loop, attached, freed, failed, stopped>>

(***************************************************************************)
(* ServerNetworkLayerTCP_getJobs.                                          *)
(***************************************************************************)

\* select reports these descriptors; another's one may be readable or not.
Readable(d) ==
  fds[d] \in Conns /\ (unread[fds[d]] > 0 \/ peer[fds[d]] \in {"closed", "reset"} \/ fds[d] \in shut)

MappedFds == {mappings[k].fd : k \in DOMAIN mappings}
SelectFails == \E d \in MappedFds : fds[d] = Free   \* EBADF
Ready(more) == {d \in MappedFds : Readable(d) \/ (fds[d] = Other /\ more)}
Arriving == {c \in Conns : peer[c] = "waiting"}

\* The last mapping takes the place of the one that is removed.
Removed(list, k) == SubSeq([list EXCEPT ![k] = Last(list)], 1, Len(list) - 1)

\* Is the client accepted that has waited longest?  The kernel must have a descriptor for it.
Accepts == Arriving # {} /\ FreeFds # {}
Newcomer == [conn |-> Lowest(Arriving), fd |-> Lowest(FreeFds)]

Reading == at \in DOMAIN mappings /\ Len(jobList) < Cardinality(ready)
Resting == at # 0 /\ ~Reading /\ jobList = <<>>

\* select; nothing if it fails.  Others may write, open or close descriptors before accept.
GetJobs(more) ==
  /\ ~stopped /\ Resting /\ ~SelectFails
  /\ ready' = Ready(more) /\ at' = IF Arriving = {} THEN 1 ELSE 0
  /\ UNCHANGED <<mappings, kernel, shut, jobList, attached, freed, failed, stopped>>

\* Whoever is accepted is mapped before the others are read, and read the next time.
Accept ==
  /\ at = 0 /\ at' = 1
  /\ IF Accepts
     THEN /\ mappings' = Append(mappings, Newcomer)
          /\ fds' = [fds EXCEPT ![Newcomer.fd] = Newcomer.conn]
          /\ peer' = [peer EXCEPT ![Newcomer.conn] = "open"]
          /\ attached' = attached \cup {Newcomer.conn}
     ELSE UNCHANGED <<mappings, fds, peer, attached>>
  /\ UNCHANGED <<unread, sends, others, shut, ready, jobList, freed, failed, stopped>>

\* What is read is what there is at the descriptor by now, whoever owns it.  There may
\* be nothing any more, which makes an empty message.
Reads(c, d) ==
  /\ IF fds[d] \in Conns THEN unread[fds[d]] > 0 \/ ~Readable(d) ELSE fds[d] = Other
  /\ unread' = [x \in Conns |-> IF x = fds[d] /\ unread[x] > 0 THEN unread[x] - 1 ELSE unread[x]]
  /\ jobList' = Append(jobList, [type |-> "message", conn |-> c])
  /\ UNCHANGED <<mappings, fds>>

\* The end of what can be read, or an error.
Ends(c, d) ==
  /\ fds[d] \in Conns => unread[fds[d]] = 0 /\ Readable(d)
  /\ fds' = [fds EXCEPT ![d] = Free]
  /\ jobList' = jobList \o << [type |-> "detach", conn |-> c], [type |-> "free", conn |-> c] >>
  /\ mappings' = Removed(mappings, at)
  /\ UNCHANGED unread

\* One turn of the loop, which goes on as long as there are fewer jobs than descriptors
\* reported: a connection that ends makes two.
ReadNext ==
  /\ Reading
  /\ LET c == mappings[at].conn
         d == mappings[at].fd
     IN \/ d \notin ready /\ UNCHANGED <<mappings, fds, unread, jobList>>
        \/ d \in ready /\ (Reads(c, d) \/ Ends(c, d))
  /\ at' = at + 1
  /\ UNCHANGED <<peer, sends, others, shut, ready, attached, freed, failed, stopped>>

(***************************************************************************)
(* processJob, and what services do to a connection.                       *)
(***************************************************************************)

\* Mutant: the connection stays with its channel.
Detached_Not(job) == attached

Detached(job) == IF job.type = "detach" THEN attached \ {job.conn} ELSE attached

ProcessJob ==
  /\ jobList # <<>> /\ ~Reading
  /\ LET job == Head(jobList)
     IN /\ attached' = Detached(job)
        /\ freed' = IF job.type = "free" THEN [freed EXCEPT ![job.conn] = @ + 1] ELSE freed
  /\ jobList' = Tail(jobList) /\ ready' = {} /\ at' = 1
  /\ UNCHANGED <<mappings, kernel, shut, failed, stopped>>

\* The connection that has the descriptor by now, if any has
Owner(d) == {fds[d]} \cap Conns

\* ServerNetworkLayerTCP_closeConnection
ServerCloses(c) ==
  /\ c \in attached \ shut /\ ~stopped
  /\ \E k \in DOMAIN mappings :
       mappings[k].conn = c /\ shut' = shut \cup {c} \cup Owner(mappings[k].fd)
  /\ UNCHANGED <<mappings, kernel, loop, attached, freed, failed, stopped>>

\* send fails on a connection that was reset, on a closed descriptor, and maybe on another's.
SendFails(d) == fds[d] \in Conns => peer[fds[d]] = "reset"

\* socket_write: it shuts down and closes the descriptor too, whoever has it by now.  Once
\* the mapping is gone only another could have it, and would see it close (OtherCloses).
WriteFails(c) ==
  /\ c \in attached /\ ~stopped
  /\ \E k \in DOMAIN mappings :
       /\ mappings[k].conn = c /\ SendFails(mappings[k].fd)
       /\ fds' = [fds EXCEPT ![mappings[k].fd] = Free]
       /\ shut' = shut \cup {c} \cup Owner(mappings[k].fd)
  /\ failed' = TRUE
  /\ UNCHANGED <<mappings, peer, unread, sends, others, loop, attached, freed, stopped>>

\* ServerNetworkLayerTCP_stop and the jobs it returns.
Stop ==
  /\ ~stopped /\ Resting
  /\ stopped' = TRUE
  /\ fds' = [d \in Fds |-> IF d \in MappedFds THEN Free ELSE fds[d]]
  /\ attached' = attached \ Mapped
  /\ freed' = [c \in Conns |-> IF c \in Mapped THEN freed[c] + 1 ELSE freed[c]]
  /\ mappings' = <<>>
  /\ UNCHANGED <<peer, unread, sends, others, shut, loop, failed>>

NetworkNext ==
  \/ \E c \in Conns :
       \/ Connect(c) \/ ClientSends(c) \/ ServerCloses(c) \/ WriteFails(c)
       \/ \E how \in {"closed", "reset"} : ClientEnds(c, how)
  \/ OtherOpens \/ \E d \in Fds : OtherCloses(d)
  \/ \E more \in BOOLEAN : GetJobs(more)
  \/ Accept \/ ReadNext \/ ProcessJob \/ Stop

NetworkSpec == NetworkInit /\ [][NetworkNext]_networkVars

(***************************************************************************)
(* Properties                                                              *)
(***************************************************************************)

NetworkTypeOK ==
  /\ mappings \in Seq([conn : Conns, fd : Fds])
  /\ fds \in [Fds -> Conns \cup {Other, Free}]
  /\ peer \in [Conns -> {"none", "waiting", "open", "closed", "reset"}]
  /\ unread \in [Conns -> 0 .. MaxSend] /\ sends \in [Conns -> 0 .. MaxSend]
  /\ others \in 0 .. MaxOther
  /\ ready \subseteq Fds /\ at \in Nat
  /\ jobList \in Seq([type : {"message", "detach", "free"}, conn : Conns])
  /\ shut \cup attached \subseteq Conns /\ freed \in [Conns -> Nat]
  /\ failed \in BOOLEAN /\ stopped \in BOOLEAN

\* A connection is freed once, after its channel has let go of it, and
\* then neither a mapping nor a job of the iteration refers to it any more; and when
\* the layer has stopped, all have been freed (26956-26982, 26994-27017): although mappings
\* change places while they are read, and connections end while there are jobs. Nor does a mapping
\* outlive its descriptor ("only "shutdown" here. this triggers the select, where the
\* socket is "closed" in the mainloop", 26791), until a write fails: socket_write
\* then closes a descriptor that is still mapped (26581), and the next time that of whoever
\* has got the number since.
FreedLast ==
  /\ \A c \in Conns :
       freed[c] > 0 => /\ freed[c] = 1 /\ c \notin attached /\ c \notin Mapped
                       /\ \A k \in DOMAIN jobList : jobList[k].conn # c
  /\ stopped => \A c \in Conns : peer[c] \notin {"none", "waiting"} => freed[c] = 1
  /\ ~failed => \A k \in DOMAIN mappings : fds[mappings[k].fd] = mappings[k].conn
=============================================================================
