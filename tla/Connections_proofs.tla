-------------------------- MODULE Connections_proofs --------------------------
(***************************************************************************)
(* Proofs about connections: that the network layer frees each of them     *)
(* once, when nothing refers to it any more; and that a channel hands on   *)
(* the messages sent over one of them whole and in order, whatever pieces  *)
(* the bytes come in. The two have no state in common, and each theorem    *)
(* is about one of them.                                                   *)
(***************************************************************************)
EXTENDS NetworkLayer, Reception, SequenceTheorems, WellFoundedInduction, TLAPS

\* A set of numbers has a least one.
LEMMA LeastOf ==
  ASSUME NEW S, S \subseteq Nat, S # {}
  PROVE  \E d \in S : \A e \in S : d <= e
<1>1. \E d \in S : \A e \in S : ~(<<e, d>> \in OpToRel(<, Nat))
  BY NatLessThanWellFounded, WFMin
<1>2. PICK d \in S : \A e \in S : ~(<<e, d>> \in OpToRel(<, Nat))
  BY <1>1
<1>3. ASSUME NEW e \in S PROVE d <= e
  <2>1. ~(e < d)
    BY <1>2 DEF OpToRel
  <2> QED BY <2>1
<1> QED BY <1>3

\* The elements of a sequence.
LEMMA ElementsOfSeq ==
  ASSUME NEW S, NEW list \in Seq(S)
  PROVE  DOMAIN list = 1 .. Len(list) /\ Len(list) \in Nat /\ \A k \in DOMAIN list : list[k] \in S
OBVIOUS

(***************************************************************************)
(* Lemmas about the helpers.                                               *)
(***************************************************************************)

LEMMA LowestIsElement ==
  ASSUME NEW S, S \subseteq Nat, S # {}
  PROVE  Lowest(S) \in S
BY LeastOf DEF Lowest

LEMMA RemovedSeq ==
  ASSUME NEW S, NEW list \in Seq(S), NEW k \in 1 .. Len(list)
  PROVE  /\ Removed(list, k) \in Seq(S)
         /\ Len(Removed(list, k)) = Len(list) - 1
         /\ \A i \in 1 .. Len(list) - 1 :
              Removed(list, k)[i] = IF i = k THEN list[Len(list)] ELSE list[i]
<1> DEFINE moved == [list EXCEPT ![k] = Last(list)]
<1>1. moved \in Seq(S) /\ Len(moved) = Len(list)
  BY DEF Last
<1>2. \A i \in 1 .. Len(list) : moved[i] = IF i = k THEN list[Len(list)] ELSE list[i]
  BY DEF Last
<1>3. Removed(list, k) = SubSeq(moved, 1, Len(moved) - 1)
  BY <1>1 DEF Removed
<1> HIDE DEF moved
<1> QED BY <1>1, <1>2, <1>3

(***************************************************************************)
(* The types.                                                              *)
(***************************************************************************)

\* No more is unread than was sent.
Sent == \A c \in Conns : unread[c] <= sends[c]

Mapping == [conn : Conns, fd : Fds]
JobOf == [type : {"message", "detach", "free"}, conn : Conns]

LEMMA Elements ==
  ASSUME NetworkTypeOK
  PROVE  /\ mappings \in Seq(Mapping) /\ DOMAIN mappings = 1 .. Len(mappings)
         /\ Len(mappings) \in Nat
         /\ \A k \in DOMAIN mappings : /\ mappings[k] \in Mapping
                                      /\ mappings[k].conn \in Conns /\ mappings[k].fd \in Fds
         /\ jobList \in Seq(JobOf) /\ DOMAIN jobList = 1 .. Len(jobList)
         /\ Len(jobList) \in Nat
         /\ \A k \in DOMAIN jobList : jobList[k] \in JobOf /\ jobList[k].conn \in Conns
<1>1. mappings \in Seq(Mapping) /\ jobList \in Seq(JobOf)
  BY DEF NetworkTypeOK, Mapping, JobOf
<1>2. /\ DOMAIN mappings = 1 .. Len(mappings) /\ \A k \in DOMAIN mappings : mappings[k] \in Mapping
      /\ DOMAIN jobList = 1 .. Len(jobList) /\ \A k \in DOMAIN jobList : jobList[k] \in JobOf
      /\ Len(mappings) \in Nat /\ Len(jobList) \in Nat
  BY <1>1, ElementsOfSeq
<1>3. /\ \A k \in DOMAIN mappings : mappings[k].conn \in Conns /\ mappings[k].fd \in Fds
      /\ \A k \in DOMAIN jobList : jobList[k].conn \in Conns
  BY <1>2 DEF Mapping, JobOf
<1> QED BY <1>1, <1>2, <1>3

LEMMA NewcomerIsMapping ==
  ASSUME NetworkAssumption, Accepts
  PROVE  /\ Newcomer \in Mapping
         /\ peer[Newcomer.conn] = "waiting" /\ fds[Newcomer.fd] = Free
<1>1. Arriving \subseteq Nat /\ FreeFds \subseteq Nat
  BY DEF NetworkAssumption, Arriving, FreeFds
<1>2. Lowest(Arriving) \in Arriving /\ Lowest(FreeFds) \in FreeFds
  BY <1>1, LowestIsElement DEF Accepts
<1> QED BY <1>2 DEF Newcomer, Mapping, Arriving, FreeFds

LEMMA TypeInit ==
  ASSUME NetworkAssumption, NetworkInit
  PROVE  NetworkTypeOK /\ Sent
<1>1. 0 \in 0 .. MaxSend /\ 0 \in 0 .. MaxOther
  BY DEF NetworkAssumption
<1>2. unread \in [Conns -> 0 .. MaxSend] /\ sends \in [Conns -> 0 .. MaxSend] /\ Sent
  BY <1>1 DEF NetworkInit, Sent
<1>3. mappings \in Seq(Mapping) /\ jobList \in Seq(JobOf)
  BY DEF NetworkInit
<1>4. mappings \in Seq([conn : Conns, fd : Fds])
  BY <1>3 DEF Mapping
<1>5. jobList \in Seq([type : {"message", "detach", "free"}, conn : Conns])
  BY <1>3 DEF JobOf
<1>6. /\ fds \in [Fds -> Conns \cup {Other, Free}] /\ freed \in [Conns -> Nat]
      /\ peer \in [Conns -> {"none", "waiting", "open", "closed", "reset"}]
  BY DEF NetworkInit
<1>7. at \in Nat /\ ready \subseteq Fds /\ shut \cup attached \subseteq Conns
  BY DEF NetworkInit
<1>8. failed \in BOOLEAN /\ stopped \in BOOLEAN /\ others \in 0 .. MaxOther
  BY <1>1, Zenon DEF NetworkInit
<1> QED BY <1>2, <1>4, <1>5, <1>6, <1>7, <1>8 DEF NetworkTypeOK

LEMMA TypeStep ==
  ASSUME NetworkAssumption, NetworkTypeOK, Sent, [NetworkNext]_networkVars
  PROVE  NetworkTypeOK' /\ Sent'
<1> USE DEF Mapping, JobOf
<1>1. ASSUME NEW c \in Conns, Connect(c)
      PROVE  NetworkTypeOK' /\ Sent'
  BY <1>1 DEF NetworkTypeOK, Sent, Connect, loop
<1>2. ASSUME NEW c \in Conns, ClientSends(c)
      PROVE  NetworkTypeOK' /\ Sent'
  <2>1. unread[c] + 1 \in 0 .. MaxSend /\ sends[c] + 1 \in 0 .. MaxSend
    BY <1>2 DEF NetworkTypeOK, Sent, ClientSends, NetworkAssumption
  <2>2. /\ unread' \in [Conns -> 0 .. MaxSend] /\ sends' \in [Conns -> 0 .. MaxSend]
        /\ Sent'
    BY <1>2, <2>1 DEF NetworkTypeOK, Sent, ClientSends
  <2> QED BY <1>2, <2>2 DEF NetworkTypeOK, ClientSends, loop
<1>3. ASSUME NEW c \in Conns, NEW how \in {"closed", "reset"}, ClientEnds(c, how)
      PROVE  NetworkTypeOK' /\ Sent'
  <2>1. unread' \in [Conns -> 0 .. MaxSend] /\ Sent'
    BY <1>3 DEF NetworkTypeOK, Sent, ClientEnds, NetworkAssumption
  <2> QED BY <1>3, <2>1 DEF NetworkTypeOK, ClientEnds, loop
<1>4. ASSUME OtherOpens
      PROVE  NetworkTypeOK' /\ Sent'
  <2>1. fds' \in [Fds -> Conns \cup {Other, Free}]
    BY <1>4 DEF NetworkTypeOK, OtherOpens
  <2>2. others' \in 0 .. MaxOther
    BY <1>4 DEF NetworkTypeOK, OtherOpens, NetworkAssumption
  <2> QED BY <1>4, <2>1, <2>2 DEF NetworkTypeOK, Sent, OtherOpens, loop
<1>5. ASSUME NEW d \in Fds, OtherCloses(d)
      PROVE  NetworkTypeOK' /\ Sent'
  BY <1>5 DEF NetworkTypeOK, Sent, OtherCloses, loop
<1>6. ASSUME NEW more \in BOOLEAN, GetJobs(more)
      PROVE  NetworkTypeOK' /\ Sent'
  <2>1. ready' \subseteq Fds /\ at' \in Nat
    <3>1. MappedFds \subseteq Fds
      BY Elements DEF MappedFds
    <3> QED BY <1>6, <3>1 DEF GetJobs, Ready
  <2> QED BY <1>6, <2>1 DEF NetworkTypeOK, Sent, GetJobs, kernel
<1>7. ASSUME ReadNext
      PROVE  NetworkTypeOK' /\ Sent'
  <2> DEFINE c == mappings[at].conn
             d == mappings[at].fd
  <2>0. at \in 1 .. Len(mappings) /\ at' \in Nat
    BY <1>7, Elements DEF NetworkTypeOK, ReadNext, Reading
  <2>1. at \in 1 .. Len(mappings) /\ mappings[at] \in Mapping /\ at' \in Nat
    BY <2>0, Elements
  <2>2. c \in Conns /\ d \in Fds
    BY <2>1
  <2> HIDE DEF c, d
  <2>3. CASE UNCHANGED <<mappings, fds, unread, jobList>>
    BY <1>7, <2>1, <2>3 DEF NetworkTypeOK, Sent, ReadNext
  <2>4. CASE Reads(c, d)
    <3>1. unread' \in [Conns -> 0 .. MaxSend] /\ Sent'
      BY <1>7, <2>4, SMTT(40) DEF NetworkTypeOK, Sent, ReadNext, Reads, NetworkAssumption
    <3>2. jobList' \in Seq(JobOf)
      BY <2>2, <2>4 DEF NetworkTypeOK, Reads
    <3> QED BY <1>7, <2>1, <2>4, <3>1, <3>2 DEF NetworkTypeOK, ReadNext, Reads
  <2>5. CASE Ends(c, d)
    <3>1. mappings' \in Seq(Mapping)
      BY <2>1, <2>5, RemovedSeq DEF NetworkTypeOK, Ends
    <3>2. jobList' \in Seq(JobOf)
      BY <2>2, <2>5 DEF NetworkTypeOK, Ends
    <3>3. fds' \in [Fds -> Conns \cup {Other, Free}]
      BY <2>5 DEF NetworkTypeOK, Ends
    <3> QED BY <1>7, <2>1, <2>5, <3>1, <3>2, <3>3 DEF NetworkTypeOK, Sent, ReadNext, Ends
  <2> QED BY <1>7, <2>3, <2>4, <2>5 DEF ReadNext, c, d
<1>8. ASSUME ProcessJob
      PROVE  NetworkTypeOK' /\ Sent'
  <2>1. Head(jobList) \in JobOf /\ jobList' \in Seq(JobOf)
    <3>1. jobList' = Tail(jobList) /\ jobList # <<>>
      BY <1>8 DEF ProcessJob
    <3>2. Head(jobList) = jobList[1] /\ 1 \in DOMAIN jobList
      BY <3>1, Elements
    <3>3. Tail(jobList) \in Seq(JobOf)
      BY <3>1, Elements, HeadTailProperties
    <3> QED BY <3>1, <3>2, <3>3, Elements
  <2>2. attached' \subseteq Conns /\ freed' \in [Conns -> Nat]
    BY SMTT(30), <1>8, <2>1 DEF NetworkTypeOK, ProcessJob, Detached
  <2> QED BY SMTT(30), <1>8, <2>1, <2>2 DEF NetworkTypeOK, Sent, ProcessJob, kernel
<1>9. ASSUME NEW c \in Conns, ServerCloses(c)
      PROVE  NetworkTypeOK' /\ Sent'
  <2>1. shut' \subseteq Conns
    BY <1>9 DEF NetworkTypeOK, ServerCloses, Owner
  <2> QED BY <1>9, <2>1 DEF NetworkTypeOK, Sent, ServerCloses, kernel, loop
<1>10. ASSUME NEW c \in Conns, WriteFails(c)
       PROVE  NetworkTypeOK' /\ Sent'
  <2>1. PICK k \in DOMAIN mappings : /\ fds' = [fds EXCEPT ![mappings[k].fd] = Free]
                                    /\ shut' = shut \cup {c} \cup Owner(mappings[k].fd)
    BY <1>10 DEF WriteFails
  <2>2. fds' \in [Fds -> Conns \cup {Other, Free}] /\ shut' \subseteq Conns
    BY <2>1 DEF NetworkTypeOK, Owner
  <2> QED BY <1>10, <2>2 DEF NetworkTypeOK, Sent, WriteFails, loop
<1>11. ASSUME Stop
       PROVE  NetworkTypeOK' /\ Sent'
  <2>1. /\ fds' \in [Fds -> Conns \cup {Other, Free}]
        /\ freed' \in [Conns -> Nat] /\ attached' \subseteq Conns
    BY <1>11 DEF NetworkTypeOK, Stop
  <2> QED BY <1>11, <2>1 DEF NetworkTypeOK, Sent, Stop, loop
<1>12. ASSUME UNCHANGED networkVars
       PROVE  NetworkTypeOK' /\ Sent'
  BY <1>12 DEF NetworkTypeOK, Sent, networkVars, kernel, loop
<1>13. ASSUME Accept
       PROVE  NetworkTypeOK' /\ Sent'
  <2>1. at' \in Nat
    BY <1>13 DEF Accept
  <2>2. /\ mappings' \in Seq(Mapping) /\ fds' \in [Fds -> Conns \cup {Other, Free}]
        /\ peer' \in [Conns -> {"none", "waiting", "open", "closed", "reset"}]
        /\ attached' \subseteq Conns
    <3>1. CASE Accepts
      <4>1. mappings' = Append(mappings, Newcomer)
        BY <1>13, <3>1 DEF Accept
      <4>2. mappings' \in Seq(Mapping)
        BY <4>1, NewcomerIsMapping, <3>1, Elements
      <4>3. Newcomer.conn \in Conns /\ Newcomer.fd \in Fds
        BY NewcomerIsMapping, <3>1 DEF Mapping
      <4> QED BY <1>13, <3>1, <4>2, <4>3 DEF NetworkTypeOK, Accept
    <3>2. CASE ~Accepts
      BY <1>13, <3>2 DEF NetworkTypeOK, Accept
    <3> QED BY <3>1, <3>2
  <2> QED BY <1>13, <2>1, <2>2 DEF NetworkTypeOK, Sent, Accept
<1> QED
  BY <1>1, <1>2, <1>3, <1>4, <1>5, <1>6, <1>7, <1>8, <1>9, <1>10, <1>11, <1>12, <1>13 DEF NetworkNext

(***************************************************************************)
(* The invariant: what is known of a connection, by where it is mentioned. *)
(***************************************************************************)

Accepted(c) == peer[c] \notin {"none", "waiting"}
DetachJob(c) == [type |-> "detach", conn |-> c]
FreeJob(c) == [type |-> "free", conn |-> c]
Named(c) == \E k \in DOMAIN jobList : jobList[k].conn = c

\* No connection is mapped twice.
Distinct == \A k, l \in DOMAIN mappings : mappings[k].conn = mappings[l].conn => k = l

\* A mapping outlives its descriptor only if a write has failed.
Open == ~failed => \A k \in DOMAIN mappings : fds[mappings[k].fd] = mappings[k].conn

\* Only a connection that was accepted is mentioned; only its messages are, while it is mapped.
Known(c) ==
  /\ c \in Mapped \/ c \in attached \/ Named(c) \/ freed[c] > 0 => Accepted(c)
  /\ c \in Mapped => /\ freed[c] = 0
                     /\ \A k \in DOMAIN jobList : jobList[k].conn = c => jobList[k].type = "message"

\* Nothing mentions it after it was freed, or after the job that will free it.
Gone(c) ==
  /\ freed[c] > 0 => freed[c] = 1 /\ c \notin attached /\ ~Named(c)
  /\ \A k, l \in DOMAIN jobList :
       jobList[k] = FreeJob(c) /\ k < l => jobList[l].conn # c

\* Its channel lets go of it before it is freed.
LetGo(c) ==
  c \in attached =>
    /\ c \in Mapped \/ \E k \in DOMAIN jobList : jobList[k] = DetachJob(c)
    /\ \A k \in DOMAIN jobList :
         jobList[k] = FreeJob(c) => \E j \in DOMAIN jobList : j < k /\ jobList[j] = DetachJob(c)

\* Who was accepted is mapped, freed, or about to be freed.
Kept(c) ==
  Accepted(c) => c \in Mapped \/ freed[c] = 1 \/ \E k \in DOMAIN jobList : jobList[k] = FreeJob(c)

Of(c) == Known(c) /\ Gone(c) /\ LetGo(c) /\ Kept(c)

AtEnd == stopped => mappings = <<>> /\ jobList = <<>>

\* Between select and accept nothing was read yet.
Accepting == at = 0 => jobList = <<>> /\ ~stopped

IInv == Distinct /\ Open /\ AtEnd /\ Accepting /\ \A c \in Conns : Of(c)

LEMMA InvInit ==
  ASSUME NetworkAssumption, NetworkInit
  PROVE  IInv
<1>1. Distinct /\ Open /\ AtEnd /\ Accepting
  BY DEF NetworkInit, Distinct, Open, AtEnd, Accepting
<1>2. ASSUME NEW c \in Conns PROVE Of(c)
  BY DEF NetworkInit, Of, Known, Gone, LetGo, Kept, Accepted, Named, Mapped
<1> QED BY <1>1, <1>2 DEF IInv

\* Nothing changes for the connections while no job is run and nothing is read.
LEMMA Quiet ==
  ASSUME IInv, UNCHANGED <<mappings, jobList, attached, freed, stopped>>,
         \A c \in Conns : Accepted(c)' <=> Accepted(c), Open', Accepting'
  PROVE  IInv'
<1>1. Distinct' /\ AtEnd'
  BY DEF IInv, Distinct, AtEnd
<1>2. ASSUME NEW c \in Conns PROVE Of(c)'
  <2>1. Of(c)
    BY DEF IInv
  <2>2. (Accepted(c)' <=> Accepted(c)) /\ (c \in Mapped' <=> c \in Mapped)
        /\ (Named(c)' <=> Named(c))
    BY DEF Mapped, Named
  <2> QED BY <2>1, <2>2 DEF Of, Known, Gone, LetGo, Kept
<1> QED BY <1>1, <1>2 DEF IInv

\* The newcomer takes a descriptor that no mapping has, and was not mentioned before.
LEMMA AcceptStep ==
  ASSUME NetworkAssumption, NetworkTypeOK, IInv, Accept, Accepts
  PROVE  IInv'
<1> DEFINE n == Newcomer.conn
           d == Newcomer.fd
<1>1. /\ n \in Conns /\ d \in Fds /\ peer[n] = "waiting" /\ fds[d] = Free
      /\ Newcomer = [conn |-> n, fd |-> d]
  BY NewcomerIsMapping DEF Mapping
<1>2. /\ mappings' = Append(mappings, Newcomer) /\ fds' = [fds EXCEPT ![d] = n]
      /\ peer' = [peer EXCEPT ![n] = "open"] /\ attached' = attached \cup {n}
      /\ UNCHANGED <<jobList, freed, failed, stopped>> /\ at' # 0
      /\ jobList = <<>> /\ ~stopped
  BY DEF Accept, IInv, Accepting
<1> HIDE DEF n, d
<1>3. /\ DOMAIN mappings = 1 .. Len(mappings) /\ DOMAIN mappings' = 1 .. Len(mappings) + 1
      /\ Len(mappings) \in Nat
      /\ \A k \in DOMAIN mappings :
           mappings'[k] = mappings[k] /\ mappings[k].conn \in Conns /\ mappings[k].fd \in Fds
      /\ mappings'[Len(mappings) + 1].conn = n /\ mappings'[Len(mappings) + 1].fd = d
  BY <1>1, <1>2, Elements, AppendProperties
<1>4. Mapped' = Mapped \cup {n}
  BY <1>3 DEF Mapped
<1>5. Of(n) /\ ~Accepted(n)
  BY <1>1 DEF IInv, Accepted
<1>6. n \notin Mapped /\ n \notin attached /\ ~(freed[n] > 0)
  BY <1>5 DEF Of, Known
<1>7. Distinct'
  <2>1. \A k \in DOMAIN mappings : mappings[k].conn # n
    BY <1>6 DEF Mapped
  <2> QED BY <1>3, <2>1 DEF IInv, Distinct
<1>8. Open'
  <2>1. SUFFICES ASSUME ~failed, NEW k \in DOMAIN mappings'
                 PROVE  fds'[mappings'[k].fd] = mappings'[k].conn
    BY <1>2 DEF Open
  <2>2. CASE k \in DOMAIN mappings
    <3>1. fds[mappings[k].fd] = mappings[k].conn
      BY <2>1, <2>2 DEF IInv, Open
    <3>2. mappings[k].fd # d
      BY <3>1, <1>1, <1>3, <2>2 DEF NetworkAssumption
    <3> QED BY <3>1, <3>2, <1>2, <1>3, <2>2 DEF NetworkTypeOK
  <2>3. CASE k = Len(mappings) + 1
    BY <2>3, <1>1, <1>2, <1>3 DEF NetworkTypeOK
  <2> QED BY <1>3, <2>2, <2>3
<1>9. AtEnd' /\ Accepting'
  BY <1>2 DEF AtEnd, Accepting
<1>10. ASSUME NEW c \in Conns PROVE Of(c)'
  <2>1. Of(c) /\ freed[c] \in Nat
    BY DEF IInv, NetworkTypeOK
  <2>2. ~Named(c)' /\ ~Named(c) /\ DOMAIN jobList' = {} /\ DOMAIN jobList = {}
    BY <1>2 DEF Named
  <2>3. CASE c = n
    <3>1. Accepted(c)' /\ c \in Mapped' /\ freed'[c] = 0
      BY <1>1, <1>2, <1>4, <1>6, <2>1, <2>3 DEF Accepted, NetworkTypeOK
    <3> QED BY <3>1, <2>2 DEF Of, Known, Gone, LetGo, Kept
  <2>4. CASE c # n
    <3>1. /\ (Accepted(c)' <=> Accepted(c)) /\ (c \in Mapped' <=> c \in Mapped)
          /\ (c \in attached' <=> c \in attached) /\ freed'[c] = freed[c]
      BY <1>2, <1>4, <2>4 DEF Accepted, NetworkTypeOK
    <3> QED BY <3>1, <2>1, <2>2 DEF Of, Known, Gone, LetGo, Kept
  <2> QED BY <2>3, <2>4
<1> QED BY <1>7, <1>8, <1>9, <1>10 DEF IInv

\* A message names a connection that is mapped.
LEMMA ReadsStep ==
  ASSUME NetworkTypeOK, IInv, ReadNext, at \in 1 .. Len(mappings), NEW d,
         Reads(mappings[at].conn, d)
  PROVE  IInv'
<1> DEFINE m == mappings[at].conn
<1>1. /\ UNCHANGED <<mappings, fds, peer, attached, freed, failed, stopped>>
      /\ jobList' = Append(jobList, [type |-> "message", conn |-> m])
  BY DEF ReadNext, Reads
<1>2. m \in Conns /\ m \in Mapped
  BY Elements DEF Mapped
<1> HIDE DEF m
<1>3. /\ DOMAIN jobList = 1 .. Len(jobList) /\ DOMAIN jobList' = 1 .. Len(jobList) + 1
      /\ Len(jobList) \in Nat
      /\ \A k \in DOMAIN jobList : jobList'[k] = jobList[k]
      /\ jobList'[Len(jobList) + 1] = [type |-> "message", conn |-> m]
  BY <1>1, <1>2, Elements, AppendProperties DEF JobOf
<1>4. Distinct' /\ Open'
  BY <1>1 DEF IInv, Distinct, Open
<1>5. AtEnd' /\ Accepting'
  <2>1. ~stopped
    BY DEF IInv, AtEnd
  <2>2. at' # 0
    BY DEF ReadNext
  <2> QED BY <2>1, <2>2, <1>1 DEF AtEnd, Accepting
<1>6. ASSUME NEW c \in Conns PROVE Of(c)'
  <2>1. Of(c) /\ Of(m)
    BY <1>2 DEF IInv
  <2>2. /\ (Accepted(c)' <=> Accepted(c)) /\ Mapped' = Mapped
        /\ (Named(c)' <=> Named(c) \/ c = m)
    BY <1>1, <1>3 DEF Accepted, Mapped, Named
  <2>3. Known(c)'
    BY <1>1, <1>2, <1>3, <2>1, <2>2 DEF Of, Known
  <2>4. Gone(c)'
    <3>1. freed'[c] > 0 => freed'[c] = 1 /\ c \notin attached' /\ ~Named(c)'
      BY <1>1, <1>2, <2>1, <2>2 DEF Of, Known, Gone, NetworkTypeOK
    <3>2. ASSUME NEW k \in DOMAIN jobList', NEW l \in DOMAIN jobList',
                 jobList'[k] = FreeJob(c), k < l
          PROVE  jobList'[l].conn # c
      <4>1. k \in DOMAIN jobList /\ jobList[k] = FreeJob(c)
        BY <1>3, <3>2
      <4>2. c # m
        BY <4>1, <1>2, <2>1 DEF Of, Known, FreeJob
      <4> QED BY <4>1, <4>2, <1>3, <2>1, <3>2 DEF Of, Gone
    <3> QED BY <3>1, <3>2 DEF Gone, FreeJob
  <2>5. LetGo(c)'
    BY <1>1, <1>3, <2>1, <2>2 DEF Of, LetGo, FreeJob, DetachJob
  <2>6. Kept(c)'
    BY <1>1, <1>3, <2>1, <2>2 DEF Of, Kept, FreeJob
  <2> QED BY <2>3, <2>4, <2>5, <2>6 DEF Of
<1> QED BY <1>4, <1>5, <1>6 DEF IInv

\* A connection that ends loses its mapping, and gets its last two jobs.
LEMMA EndsStep ==
  ASSUME NetworkAssumption, NetworkTypeOK, IInv, ReadNext, at \in 1 .. Len(mappings),
         Ends(mappings[at].conn, mappings[at].fd)
  PROVE  IInv'
<1> DEFINE m == mappings[at].conn
           d == mappings[at].fd
           n == Len(mappings)
           j == Len(jobList)
<1>1. /\ UNCHANGED <<peer, attached, freed, failed, stopped>>
      /\ mappings' = Removed(mappings, at) /\ fds' = [fds EXCEPT ![d] = Free]
      /\ jobList' = jobList \o <<DetachJob(m), FreeJob(m)>>
  BY DEF ReadNext, Ends, DetachJob, FreeJob
<1>2. m \in Conns /\ d \in Fds /\ m \in Mapped /\ n \in Nat /\ j \in Nat
  BY Elements DEF Mapped
<1>3. /\ DOMAIN mappings = 1 .. n /\ DOMAIN mappings' = 1 .. n - 1
      /\ \A k \in 1 .. n - 1 : mappings'[k] = IF k = at THEN mappings[n] ELSE mappings[k]
  <2>1. /\ mappings' \in Seq(Mapping) /\ Len(mappings') = Len(mappings) - 1
        /\ \A k \in 1 .. Len(mappings) - 1 :
             mappings'[k] = IF k = at THEN mappings[Len(mappings)] ELSE mappings[k]
    BY <1>1, Elements, RemovedSeq
  <2>2. DOMAIN mappings' = 1 .. Len(mappings')
    BY <2>1, ElementsOfSeq
  <2> QED BY <2>1, <2>2, Elements
<1>4. /\ DOMAIN jobList = 1 .. j /\ DOMAIN jobList' = 1 .. j + 2
      /\ \A k \in DOMAIN jobList : jobList'[k] = jobList[k]
      /\ jobList'[j + 1] = DetachJob(m) /\ jobList'[j + 2] = FreeJob(m)
  <2>1. <<DetachJob(m), FreeJob(m)>> \in Seq(JobOf) /\ Len(<<DetachJob(m), FreeJob(m)>>) = 2
    BY <1>2 DEF DetachJob, FreeJob, JobOf
  <2> HIDE DEF m, d, n
  <2> QED BY <1>1, <2>1, Elements, ConcatProperties
<1>5. ~stopped
  BY DEF IInv, AtEnd
<1>6. at \in 1 .. n /\ \A k, l \in 1 .. n : mappings[k].conn = mappings[l].conn => k = l
  BY <1>3 DEF IInv, Distinct
<1>7. m = mappings[at].conn /\ d = mappings[at].fd
  OBVIOUS
<1> HIDE DEF m, d, n, j
<1>8. Mapped' = Mapped \ {m}
  <2>1. ASSUME NEW c \in Mapped' PROVE c \in Mapped \ {m}
    <3>1. PICK k \in 1 .. n - 1 : c = mappings'[k].conn
      BY <1>3, <2>1 DEF Mapped
    <3>2. PICK l \in 1 .. n : c = mappings[l].conn /\ l # at
      <4>1. CASE k = at
        BY <3>1, <4>1, <1>2, <1>3
      <4>2. CASE k # at
        BY <3>1, <4>2, <1>2, <1>3
      <4> QED BY <4>1, <4>2
    <3> QED BY <3>2, <1>3, <1>6, <1>7 DEF Mapped
  <2>2. ASSUME NEW c \in Mapped, c # m PROVE c \in Mapped'
    <3>1. PICK l \in 1 .. n : c = mappings[l].conn
      BY <1>3, <2>2 DEF Mapped
    <3>2. l # at
      BY <3>1, <2>2, <1>7
    <3>3. \E k \in 1 .. n - 1 : mappings'[k].conn = c
      <4>1. CASE l = n
        <5>1. at \in 1 .. n - 1 /\ mappings'[at] = mappings[n]
          BY <3>2, <4>1, <1>2, <1>3, <1>6
        <5> QED BY <5>1, <4>1, <3>1
      <4>2. CASE l # n
        <5>1. l \in 1 .. n - 1 /\ mappings'[l] = mappings[l]
          BY <3>2, <4>2, <1>2, <1>3
        <5> QED BY <5>1, <3>1
      <4> QED BY <4>1, <4>2
    <3> QED BY <3>3, <1>3 DEF Mapped
  <2> QED BY <2>1, <2>2
<1>9. Distinct'
  <2>1. ASSUME NEW k \in 1 .. n - 1, NEW l \in 1 .. n - 1, mappings'[k].conn = mappings'[l].conn
        PROVE  k = l
    BY <2>1, <1>2, <1>3, <1>6
  <2> QED BY <2>1, <1>3 DEF Distinct
<1>10. Open'
  <2>1. SUFFICES ASSUME ~failed, NEW k \in 1 .. n - 1
                 PROVE  fds'[mappings'[k].fd] = mappings'[k].conn
    BY <1>1, <1>3 DEF Open
  <2>2. PICK l \in 1 .. n : mappings'[k] = mappings[l] /\ l # at
    BY <1>2, <1>3
  <2>3. fds[mappings[l].fd] = mappings[l].conn /\ fds[d] = m /\ mappings[l].fd \in Fds
    BY <2>1, <1>3, <1>7, <1>6, Elements DEF IInv, Open
  <2>4. mappings[l].fd # d
    BY <2>2, <2>3, <1>6, <1>7
  <2> QED BY <2>2, <2>3, <2>4, <1>1 DEF NetworkTypeOK
<1>11. AtEnd' /\ Accepting'
  <2>1. at' # 0
    BY <1>2, <1>6 DEF ReadNext
  <2> QED BY <2>1, <1>1, <1>5 DEF AtEnd, Accepting
<1>12. ASSUME NEW c \in Conns PROVE Of(c)'
  <2>1. Of(c) /\ Of(m)
    BY <1>2 DEF IInv
  <2>2. Accepted(c)' <=> Accepted(c)
    BY <1>1 DEF Accepted
  <2>3. CASE c = m
    <3>1. /\ Accepted(c) /\ freed[c] = 0 /\ c \notin Mapped'
          /\ \A k \in DOMAIN jobList : jobList[k].conn = c => jobList[k].type = "message"
      BY <1>2, <1>8, <2>1, <2>3 DEF Of, Known
    <3>2. \A k \in DOMAIN jobList' : jobList'[k] = FreeJob(c) <=> k = j + 2
      <4>1. \A k \in DOMAIN jobList : jobList[k] # FreeJob(c)
        BY <3>1 DEF FreeJob
      <4>2. DetachJob(c) # FreeJob(c)
        BY DEF DetachJob, FreeJob
      <4> QED BY <4>1, <4>2, <1>2, <1>4, <2>3
    <3>3. Known(c)'
      BY <2>2, <3>1 DEF Known
    <3>4. Gone(c)'
      <4>1. ~(freed'[c] > 0)
        BY <1>1, <3>1
      <4>2. ~(\E k, l \in DOMAIN jobList' : jobList'[k] = FreeJob(c) /\ k < l)
        BY <3>2, <1>2, <1>4
      <4> QED BY <4>1, <4>2 DEF Gone, FreeJob
    <3>5. LetGo(c)'
      <4>1. j + 1 \in DOMAIN jobList' /\ j + 1 < j + 2 /\ jobList'[j + 1] = DetachJob(c)
        BY <1>2, <1>4, <2>3
      <4> QED BY <4>1, <3>2 DEF LetGo, FreeJob, DetachJob
    <3>6. Kept(c)'
      <4>1. j + 2 \in DOMAIN jobList' /\ jobList'[j + 2] = FreeJob(c)
        BY <1>2, <1>4, <2>3
      <4> QED BY <4>1 DEF Kept, FreeJob
    <3> QED BY <3>3, <3>4, <3>5, <3>6 DEF Of
  <2>4. CASE c # m
    <3>1. /\ c \in Mapped' <=> c \in Mapped
          /\ \A k \in DOMAIN jobList' : jobList'[k].conn = c => k \in DOMAIN jobList
          /\ DOMAIN jobList \subseteq DOMAIN jobList'
      BY <1>2, <1>4, <1>8, <2>4 DEF DetachJob, FreeJob
    <3>2. Named(c)' <=> Named(c)
      BY <3>1, <1>4 DEF Named
    <3>3. Known(c)'
      BY <1>1, <1>4, <2>1, <2>2, <3>1, <3>2 DEF Of, Known
    <3>4. Gone(c)'
      <4>1. freed'[c] > 0 => freed'[c] = 1 /\ c \notin attached' /\ ~Named(c)'
        BY <1>1, <2>1, <3>2 DEF Of, Gone
      <4>2. ASSUME NEW k \in DOMAIN jobList', NEW l \in DOMAIN jobList',
                   jobList'[k] = FreeJob(c), k < l
            PROVE  jobList'[l].conn # c
        <5>1. k \in DOMAIN jobList /\ jobList[k] = FreeJob(c)
          <6>1. jobList'[k].conn = c
            BY <4>2 DEF FreeJob
          <6> QED BY <6>1, <4>2, <3>1, <1>4
        <5>2. l \in DOMAIN jobList => jobList[l].conn # c
          BY <5>1, <4>2, <2>1 DEF Of, Gone
        <5> QED BY <5>2, <3>1, <1>4
      <4> QED BY <4>1, <4>2 DEF Gone, FreeJob
    <3>5. LetGo(c)'
      <4>1. SUFFICES ASSUME c \in attached PROVE LetGo(c)'
        BY <1>1 DEF LetGo
      <4>2. /\ c \in Mapped \/ \E k \in DOMAIN jobList : jobList[k] = DetachJob(c)
            /\ \A k \in DOMAIN jobList : jobList[k] = FreeJob(c) =>
                 \E i \in DOMAIN jobList : i < k /\ jobList[i] = DetachJob(c)
        BY <2>1, <4>1 DEF Of, LetGo
      <4>3. c \in Mapped' \/ \E k \in DOMAIN jobList' : jobList'[k] = DetachJob(c)
        BY <4>2, <3>1, <1>4
      <4>4. ASSUME NEW k \in DOMAIN jobList', jobList'[k] = FreeJob(c)
            PROVE  \E i \in DOMAIN jobList' : i < k /\ jobList'[i] = DetachJob(c)
        <5>1. k \in DOMAIN jobList /\ jobList[k] = FreeJob(c)
          <6>1. jobList'[k].conn = c
            BY <4>4 DEF FreeJob
          <6> QED BY <6>1, <4>4, <3>1, <1>4
        <5> QED BY <5>1, <4>2, <3>1, <1>4
      <4> QED BY <4>3, <4>4 DEF LetGo, FreeJob, DetachJob
    <3>6. Kept(c)'
      BY <1>1, <1>4, <2>1, <2>2, <3>1 DEF Of, Kept, FreeJob
    <3> QED BY <3>3, <3>4, <3>5, <3>6 DEF Of
  <2> QED BY <2>3, <2>4
<1> QED BY <1>9, <1>10, <1>11, <1>12 DEF IInv

\* The first job is run; what it names is either one of those read, or let go or freed.
LEMMA RunJobStep ==
  ASSUME NetworkTypeOK, IInv, ProcessJob
  PROVE  IInv'
<1> DEFINE job == jobList[1]
           m == job.conn
           j == Len(jobList)
<1>1. /\ jobList # <<>> /\ jobList' = Tail(jobList) /\ Head(jobList) = job
      /\ UNCHANGED <<mappings, fds, peer, failed, stopped>>
  BY Elements DEF ProcessJob, kernel
<1>2. /\ j \in Nat \ {0} /\ DOMAIN jobList = 1 .. j /\ DOMAIN jobList' = 1 .. j - 1
      /\ \A k \in 1 .. j - 1 : jobList'[k] = jobList[k + 1]
  BY <1>1, Elements, HeadTailProperties
<1>3. /\ job \in JobOf /\ m \in Conns
      /\ attached' = IF job.type = "detach" THEN attached \ {m} ELSE attached
      /\ freed' = IF job.type = "free" THEN [freed EXCEPT ![m] = @ + 1] ELSE freed
  <2>1. job \in JobOf /\ m \in Conns
    BY <1>2, Elements
  <2>2. attached' = Detached(job)
    BY <1>1 DEF ProcessJob
  <2>3. freed' = IF job.type = "free" THEN [freed EXCEPT ![m] = @ + 1] ELSE freed
    BY <1>1 DEF ProcessJob
  <2> QED BY <2>1, <2>2, <2>3 DEF Detached
<1>4. 1 \in DOMAIN jobList /\ job = jobList[1] /\ m = job.conn
  BY <1>2
<1>5. job = [type |-> job.type, conn |-> m]
  BY <1>3 DEF JobOf
<1> HIDE DEF job, m, j
<1>6. Distinct' /\ Open' /\ Mapped' = Mapped
  BY <1>1 DEF IInv, Distinct, Open, Mapped
<1>7. AtEnd' /\ Accepting'
  BY <1>1 DEF IInv, AtEnd, Accepting, ProcessJob
<1>8. ASSUME NEW c \in Conns PROVE Of(c)'
  <2>1. Of(c) /\ freed[c] \in Nat
    BY DEF IInv, NetworkTypeOK
  <2>2. /\ Accepted(c)' <=> Accepted(c)
        /\ c \in attached' => c \in attached
        /\ c # m => freed'[c] = freed[c] /\ (c \in attached <=> c \in attached')
    BY <1>1, <1>3 DEF Accepted, NetworkTypeOK
  <2>3. /\ \A k \in DOMAIN jobList' : k + 1 \in DOMAIN jobList /\ jobList'[k] = jobList[k + 1]
        /\ \A k \in DOMAIN jobList : k # 1 => k - 1 \in DOMAIN jobList' /\ jobList'[k - 1] = jobList[k]
    BY <1>2
  <2>4. Named(c)' => Named(c)
    BY <2>3 DEF Named
  <2>5. c = m => Named(c)
    BY <1>4 DEF Named
  <2>6. c = m /\ job.type = "free" =>
          /\ job = FreeJob(c) /\ c \notin Mapped /\ c \notin attached /\ ~Named(c)'
          /\ freed[c] = 0 /\ freed'[c] = 1
    <3>1. SUFFICES ASSUME c = m, job.type = "free"
                   PROVE  /\ job = FreeJob(c) /\ c \notin Mapped /\ c \notin attached /\ ~Named(c)'
                          /\ freed[c] = 0 /\ freed'[c] = 1
      OBVIOUS
    <3>2. job = FreeJob(c)
      BY <1>5, <3>1 DEF FreeJob
    <3>3. c \notin Mapped
      BY <3>1, <1>4, <2>1 DEF Of, Known
    <3>4. c \notin attached
      <4>1. SUFFICES ASSUME c \in attached PROVE FALSE
        OBVIOUS
      <4>2. \E i \in DOMAIN jobList : i < 1 /\ jobList[i] = DetachJob(c)
        BY <4>1, <3>2, <1>4, <2>1 DEF Of, LetGo
      <4> QED BY <4>2, <1>2
    <3>5. ~Named(c)'
      <4>1. \A l \in DOMAIN jobList : 1 < l => jobList[l].conn # c
        BY <3>2, <1>4, <2>1 DEF Of, Gone
      <4> QED BY <4>1, <1>2, <2>3 DEF Named
    <3>6. freed[c] = 0
      BY <2>1, <2>5, <3>1 DEF Of, Gone
    <3> QED BY <3>1, <3>2, <3>3, <3>4, <3>5, <3>6, <1>3 DEF NetworkTypeOK
  <2>7. ~(c = m /\ job.type = "free") => freed'[c] = freed[c]
    BY <1>3, <2>2
  <2>8. Known(c)'
    <3>1. c \in Mapped' => freed'[c] = 0
      BY <1>6, <2>1, <2>6, <2>7 DEF Of, Known
    <3>2. c \in Mapped' \/ c \in attached' \/ Named(c)' \/ freed'[c] > 0 => Accepted(c)'
      BY <1>6, <2>1, <2>2, <2>4, <2>5, <2>6, <2>7 DEF Of, Known
    <3>3. ASSUME c \in Mapped', NEW k \in DOMAIN jobList', jobList'[k].conn = c
          PROVE  jobList'[k].type = "message"
      BY <3>3, <1>6, <2>1, <2>3 DEF Of, Known
    <3> QED BY <3>1, <3>2, <3>3 DEF Known
  <2>9. Gone(c)'
    <3>1. freed'[c] > 0 => freed'[c] = 1 /\ c \notin attached' /\ ~Named(c)'
      BY <2>1, <2>2, <2>4, <2>6, <2>7 DEF Of, Gone
    <3>2. ASSUME NEW k \in DOMAIN jobList', NEW l \in DOMAIN jobList',
                 jobList'[k] = FreeJob(c), k < l
          PROVE  jobList'[l].conn # c
      <4>1. k + 1 < l + 1
        BY <3>2, <1>2
      <4> QED BY <4>1, <3>2, <2>1, <2>3 DEF Of, Gone
    <3> QED BY <3>1, <3>2 DEF Gone, FreeJob
  <2>10. LetGo(c)'
    <3>1. SUFFICES ASSUME c \in attached' PROVE LetGo(c)'
      BY DEF LetGo
    <3>2. job # DetachJob(c)
      <4>1. SUFFICES ASSUME job = DetachJob(c) PROVE FALSE
        OBVIOUS
      <4>2. job.type = "detach" /\ m = c
        BY <4>1, <1>4 DEF DetachJob
      <4> QED BY <4>2, <1>3, <3>1
    <3>3. /\ c \in Mapped \/ \E k \in DOMAIN jobList : jobList[k] = DetachJob(c)
          /\ \A k \in DOMAIN jobList : jobList[k] = FreeJob(c) =>
               \E i \in DOMAIN jobList : i < k /\ jobList[i] = DetachJob(c)
      BY <2>1, <2>2, <3>1 DEF Of, LetGo
    <3>4. \A k \in DOMAIN jobList : jobList[k] = DetachJob(c) => k # 1
      BY <3>2, <1>4
    <3>5. c \in Mapped' \/ \E k \in DOMAIN jobList' : jobList'[k] = DetachJob(c)
      BY <3>3, <3>4, <1>6, <2>3
    <3>6. ASSUME NEW k \in DOMAIN jobList', jobList'[k] = FreeJob(c)
          PROVE  \E i \in DOMAIN jobList' : i < k /\ jobList'[i] = DetachJob(c)
      <4>1. PICK i \in DOMAIN jobList : i < k + 1 /\ jobList[i] = DetachJob(c)
        BY <3>3, <3>6, <2>3
      <4>2. i - 1 \in DOMAIN jobList' /\ jobList'[i - 1] = jobList[i] /\ i - 1 < k
        BY <4>1, <3>4, <2>3, <1>2
      <4> QED BY <4>1, <4>2
    <3> QED BY <3>5, <3>6 DEF LetGo, FreeJob, DetachJob
  <2>11. Kept(c)'
    <3>1. SUFFICES ASSUME Accepted(c), c \notin Mapped, freed'[c] # 1
                   PROVE  \E k \in DOMAIN jobList' : jobList'[k] = FreeJob(c)
      BY <1>6, <2>2 DEF Kept, FreeJob
    <3>2. freed[c] # 1
      BY <3>1, <2>6, <2>7
    <3>3. PICK k \in DOMAIN jobList : jobList[k] = FreeJob(c)
      BY <3>1, <3>2, <2>1 DEF Of, Kept
    <3>4. k # 1
      <4>1. SUFFICES ASSUME k = 1 PROVE FALSE
        OBVIOUS
      <4>2. job.type = "free" /\ c = m
        BY <4>1, <3>3, <1>4 DEF FreeJob
      <4> QED BY <4>2, <2>6, <3>1
    <3> QED BY <3>3, <3>4, <2>3
  <2> QED BY <2>8, <2>9, <2>10, <2>11 DEF Of
<1> QED BY <1>6, <1>7, <1>8 DEF IInv

\* When the layer stops, every connection that is mapped is let go and freed.
LEMMA StopStep ==
  ASSUME NetworkTypeOK, IInv, Stop
  PROVE  IInv'
<1>1. /\ mappings' = <<>> /\ jobList = <<>> /\ jobList' = <<>> /\ UNCHANGED <<peer, failed>>
      /\ attached' = attached \ Mapped
      /\ freed' = [c \in Conns |-> IF c \in Mapped THEN freed[c] + 1 ELSE freed[c]]
  BY DEF Stop, Resting, loop
<1>2. DOMAIN mappings' = {} /\ DOMAIN jobList = {} /\ DOMAIN jobList' = {}
  BY <1>1
<1>3. Distinct' /\ Open' /\ AtEnd' /\ Accepting' /\ Mapped' = {}
  BY <1>1, <1>2 DEF Distinct, Open, AtEnd, Accepting, Mapped, Stop, Resting, loop
<1>4. ASSUME NEW c \in Conns PROVE Of(c)'
  <2>1. Of(c) /\ freed[c] \in Nat
    BY DEF IInv, NetworkTypeOK
  <2>2. (Accepted(c)' <=> Accepted(c)) /\ ~Named(c)' /\ ~Named(c)
    BY <1>1, <1>2 DEF Accepted, Named
  <2>3. c \notin attached'
    BY <1>1, <1>2, <2>1 DEF Of, LetGo
  <2>4. freed'[c] = IF c \in Mapped THEN 1 ELSE freed[c]
    BY <1>1, <2>1 DEF Of, Known
  <2>5. Known(c)'
    BY <1>3, <2>1, <2>2, <2>3, <2>4 DEF Of, Known
  <2>6. Gone(c)' /\ LetGo(c)'
    BY <1>2, <2>1, <2>2, <2>3, <2>4 DEF Of, Gone, LetGo
  <2>7. Kept(c)'
    BY <1>2, <2>1, <2>2, <2>4 DEF Of, Kept
  <2> QED BY <2>5, <2>6, <2>7 DEF Of
<1> QED BY <1>3, <1>4 DEF IInv

LEMMA InvStep ==
  ASSUME NetworkAssumption, NetworkTypeOK, IInv, [NetworkNext]_networkVars
  PROVE  IInv'
<1>1. ASSUME NEW c \in Conns, Connect(c)
      PROVE  IInv'
  <2>1. /\ UNCHANGED <<mappings, fds, jobList, at, attached, freed, failed, stopped>>
        /\ \A b \in Conns : Accepted(b)' <=> Accepted(b)
    BY <1>1 DEF NetworkTypeOK, Connect, loop, Accepted
  <2> QED BY <2>1, Quiet DEF IInv, Open, Accepting
<1>2. ASSUME NEW c \in Conns, ClientSends(c)
      PROVE  IInv'
  <2>1. UNCHANGED <<mappings, fds, peer, jobList, at, attached, freed, failed, stopped>>
    BY <1>2 DEF ClientSends, loop
  <2> QED BY <2>1, Quiet DEF IInv, Open, Accepting, Accepted
<1>3. ASSUME NEW c \in Conns, NEW how \in {"closed", "reset"}, ClientEnds(c, how)
      PROVE  IInv'
  <2>1. /\ UNCHANGED <<mappings, fds, jobList, at, attached, freed, failed, stopped>>
        /\ \A b \in Conns : Accepted(b)' <=> Accepted(b)
    BY <1>3 DEF NetworkTypeOK, ClientEnds, loop, Accepted
  <2> QED BY <2>1, Quiet DEF IInv, Open, Accepting
<1>4. ASSUME OtherOpens
      PROVE  IInv'
  <2>1. /\ UNCHANGED <<mappings, peer, jobList, at, attached, freed, failed, stopped>>
        /\ fds' = [fds EXCEPT ![Lowest(FreeFds)] = Other] /\ FreeFds # {}
    BY <1>4 DEF OtherOpens, loop
  <2>2. FreeFds \subseteq Nat
    BY DEF FreeFds, NetworkAssumption
  <2>3. fds[Lowest(FreeFds)] = Free
    BY <2>1, <2>2, LowestIsElement DEF FreeFds
  <2>4. Open'
    <3>1. SUFFICES ASSUME ~failed, NEW k \in DOMAIN mappings
                   PROVE  fds'[mappings[k].fd] = mappings[k].conn
      BY <2>1 DEF Open
    <3>2. /\ fds[mappings[k].fd] = mappings[k].conn /\ mappings[k].conn \in Conns
          /\ mappings[k].fd \in Fds
      BY <3>1, Elements DEF IInv, Open
    <3>3. mappings[k].fd # Lowest(FreeFds)
      BY <2>3, <3>2 DEF NetworkAssumption
    <3> QED BY <2>1, <3>2, <3>3 DEF NetworkTypeOK
  <2> QED BY <2>1, <2>4, Quiet DEF IInv, Accepting, Accepted
<1>5. ASSUME NEW d \in Fds, OtherCloses(d)
      PROVE  IInv'
  <2>1. /\ UNCHANGED <<mappings, peer, jobList, at, attached, freed, failed, stopped>>
        /\ fds' = [fds EXCEPT ![d] = Free] /\ fds[d] = Other
    BY <1>5 DEF OtherCloses, loop
  <2>2. Open'
    <3>1. SUFFICES ASSUME ~failed, NEW k \in DOMAIN mappings
                   PROVE  fds'[mappings[k].fd] = mappings[k].conn
      BY <2>1 DEF Open
    <3>2. /\ fds[mappings[k].fd] = mappings[k].conn /\ mappings[k].conn \in Conns
          /\ mappings[k].fd \in Fds
      BY <3>1, Elements DEF IInv, Open
    <3>3. mappings[k].fd # d
      BY <2>1, <3>2 DEF NetworkAssumption
    <3> QED BY <2>1, <3>2, <3>3 DEF NetworkTypeOK
  <2> QED BY <2>1, <2>2, Quiet DEF IInv, Accepting, Accepted
<1>6. ASSUME NEW more \in BOOLEAN, GetJobs(more)
      PROVE  IInv'
  <2>1. /\ UNCHANGED <<mappings, fds, peer, jobList, attached, freed, failed, stopped>>
        /\ jobList = <<>> /\ ~stopped
    BY <1>6 DEF GetJobs, Resting, kernel
  <2> QED BY <2>1, Quiet DEF IInv, Open, Accepting, Accepted
<1>7. ASSUME ReadNext
      PROVE  IInv'
  <2>1. at \in 1 .. Len(mappings)
    BY <1>7, Elements DEF NetworkTypeOK, ReadNext, Reading
  <2>2. CASE UNCHANGED <<mappings, fds, unread, jobList>>
    <3>1. UNCHANGED <<mappings, fds, peer, jobList, attached, freed, failed, stopped>> /\ at' # 0
      BY <1>7, <2>1, <2>2, Elements DEF ReadNext
    <3> QED BY <3>1, Quiet DEF IInv, Open, Accepting, Accepted
  <2>3. CASE Reads(mappings[at].conn, mappings[at].fd)
    BY <1>7, <2>1, <2>3, ReadsStep
  <2>4. CASE Ends(mappings[at].conn, mappings[at].fd)
    BY <1>7, <2>1, <2>4, EndsStep
  <2> QED BY <1>7, <2>2, <2>3, <2>4 DEF ReadNext
<1>8. ASSUME ProcessJob
      PROVE  IInv'
  BY <1>8, RunJobStep
<1>9. ASSUME NEW c \in Conns, ServerCloses(c)
      PROVE  IInv'
  <2>1. UNCHANGED <<mappings, fds, peer, jobList, at, attached, freed, failed, stopped>>
    BY <1>9 DEF ServerCloses, kernel, loop
  <2> QED BY <2>1, Quiet DEF IInv, Open, Accepting, Accepted
<1>10. ASSUME NEW c \in Conns, WriteFails(c)
       PROVE  IInv'
  <2>1. UNCHANGED <<mappings, peer, jobList, at, attached, freed, stopped>> /\ failed'
    BY <1>10 DEF WriteFails, loop
  <2> QED BY <2>1, Quiet DEF IInv, Open, Accepting, Accepted
<1>11. ASSUME Stop
       PROVE  IInv'
  BY <1>11, StopStep
<1>12. ASSUME UNCHANGED networkVars
       PROVE  IInv'
  <2>1. UNCHANGED <<mappings, fds, peer, jobList, at, attached, freed, failed, stopped>>
    BY <1>12 DEF networkVars, kernel, loop
  <2> QED BY <2>1, Quiet DEF IInv, Open, Accepting, Accepted
<1>13. ASSUME Accept
       PROVE  IInv'
  <2>1. CASE Accepts
    BY <1>13, <2>1, AcceptStep
  <2>2. CASE ~Accepts
    <3>1. UNCHANGED <<mappings, fds, peer, jobList, attached, freed, failed, stopped>> /\ at' # 0
      BY <1>13, <2>2 DEF Accept
    <3> QED BY <3>1, Quiet DEF IInv, Open, Accepting, Accepted
  <2> QED BY <2>1, <2>2
<1> QED
  BY <1>1, <1>2, <1>3, <1>4, <1>5, <1>6, <1>7, <1>8, <1>9, <1>10, <1>11, <1>12, <1>13 DEF NetworkNext

LEMMA InvImpliesFreedLast ==
  ASSUME IInv
  PROVE  FreedLast
<1>1. ASSUME NEW c \in Conns, freed[c] > 0
      PROVE  /\ freed[c] = 1 /\ c \notin attached /\ c \notin Mapped
             /\ \A k \in DOMAIN jobList : jobList[k].conn # c
  BY <1>1 DEF IInv, Of, Known, Gone, Named
<1>2. ASSUME stopped, NEW c \in Conns, peer[c] \notin {"none", "waiting"}
      PROVE  freed[c] = 1
  <2>1. Kept(c) /\ Accepted(c) /\ mappings = <<>> /\ jobList = <<>>
    BY <1>2 DEF IInv, Of, AtEnd, Accepted
  <2>2. DOMAIN mappings = {} /\ DOMAIN jobList = {}
    BY <2>1
  <2> QED BY <2>1, <2>2 DEF Kept, Mapped
<1>3. ~failed => \A k \in DOMAIN mappings : fds[mappings[k].fd] = mappings[k].conn
  BY DEF IInv, Open
<1> QED BY <1>1, <1>2, <1>3 DEF FreedLast

(***************************************************************************)
(* The theorems.                                                           *)
(***************************************************************************)

LEMMA Invariance ==
  ASSUME NetworkAssumption
  PROVE  NetworkSpec => [](NetworkTypeOK /\ Sent /\ IInv)
<1>1. NetworkInit => NetworkTypeOK /\ Sent /\ IInv
  BY TypeInit, InvInit
<1>2. NetworkTypeOK /\ Sent /\ IInv /\ [NetworkNext]_networkVars
      => (NetworkTypeOK /\ Sent /\ IInv)'
  BY TypeStep, InvStep
<1> QED BY <1>1, <1>2, PTL DEF NetworkSpec

\* The layer's variables keep their types, whatever clients and others do to the
\* descriptors that it selects and reads (26913-26991).
THEOREM TypesKept ==
  ASSUME NetworkAssumption
  PROVE  NetworkSpec => []NetworkTypeOK
BY Invariance, PTL

\* A connection is freed once, after its channel has let go of it, and nothing
\* refers to it then; when the layer has stopped, all have been freed; and until a write
\* fails no mapping outlives its descriptor (26956-26982, 26994-27017): for any number of
\* clients and descriptors, and although mappings change places while they are read.
THEOREM FreedOnceAndLast ==
  ASSUME NetworkAssumption
  PROVE  NetworkSpec => []FreedLast
<1>1. NetworkTypeOK /\ Sent /\ IInv => FreedLast
  BY InvImpliesFreedLast
<1> QED BY <1>1, Invariance, PTL

(***************************************************************************)
(* Reception: helpers.                                                     *)
(***************************************************************************)

\* f is computed from a base and by steps within S, the first n of them.
IsComputed(f, n, base, step, S) ==
  f \in [0 .. n -> S] /\ f[0] = base /\ \A k \in 1 .. n : f[k] = step[<<k, f[k - 1]>>]

\* A recursive function exists if its values stay in a set; by contradiction, with the least
\* number of steps for which there is none.
LEMMA Computed ==
  ASSUME NEW S, NEW N \in Nat, NEW base \in S, NEW step \in [(1 .. N) \X S -> S]
  PROVE  \E f : IsComputed(f, N, base, step, S)
<1> DEFINE None == {m \in 0 .. N : ~ \E f : IsComputed(f, m, base, step, S)}
<1>1. None = {}
  <2>1. SUFFICES ASSUME None # {} PROVE FALSE
    OBVIOUS
  <2>2. None \subseteq Nat
    OBVIOUS
  <2>3. PICK m \in None : \A k \in None : m <= k
    BY <2>1, <2>2, LeastOf
  <2>4. m \in 0 .. N /\ ~ \E f : IsComputed(f, m, base, step, S)
    BY <2>3
  <2>5. m # 0
    <3>1. IsComputed([k \in 0 .. 0 |-> base], 0, base, step, S)
      BY DEF IsComputed
    <3> QED BY <2>4, <3>1
  <2>6. m - 1 \in 0 .. N /\ m - 1 \notin None /\ m \in 1 .. N
    BY <2>3, <2>4, <2>5
  <2>7. PICK g : IsComputed(g, m - 1, base, step, S)
    BY <2>6
  <2> DEFINE h == [k \in 0 .. m |-> IF k < m THEN g[k] ELSE step[<<m, g[m - 1]>>]]
  <2>8. g \in [0 .. m - 1 -> S] /\ g[0] = base /\ \A k \in 1 .. m - 1 : g[k] = step[<<k, g[k - 1]>>]
    BY <2>7 DEF IsComputed
  <2>9. g[m - 1] \in S /\ step[<<m, g[m - 1]>>] \in S
    <3>1. g[m - 1] \in S
      BY <2>6, <2>8
    <3>2. <<m, g[m - 1]>> \in (1 .. N) \X S
      BY <2>6, <3>1
    <3> QED BY <3>1, <3>2
  <2>10. h \in [0 .. m -> S]
    BY <2>6, <2>8, <2>9
  <2>11. h[0] = base
    BY <2>6, <2>8
  <2>12. ASSUME NEW k \in 1 .. m PROVE h[k] = step[<<k, h[k - 1]>>]
    <3>1. k - 1 \in 0 .. m /\ k - 1 < m /\ h[k - 1] = g[k - 1]
      BY <2>6
    <3>2. CASE k < m
      <4>1. h[k] = g[k] /\ k \in 1 .. m - 1
        BY <2>6, <3>2
      <4> QED BY <2>8, <3>1, <4>1
    <3>3. CASE k = m
      BY <2>6, <3>1, <3>3
    <3> QED BY <2>6, <3>2, <3>3
  <2> HIDE DEF h
  <2>13. IsComputed(h, m, base, step, S)
    BY <2>10, <2>11, <2>12 DEF IsComputed
  <2> QED BY <2>4, <2>13
<1>2. N \in 0 .. N /\ N \notin None
  BY <1>1
<1> QED BY <1>2

\* Induction, with a set for the property.
LEMMA Reached ==
  ASSUME NEW P, NEW N \in Nat, 0 \in P, \A k \in 1 .. N : k - 1 \in P => k \in P
  PROVE  \A k \in 0 .. N : k \in P
<1> DEFINE Out == {k \in 0 .. N : k \notin P}
<1>1. Out = {}
  <2>1. SUFFICES ASSUME Out # {} PROVE FALSE
    OBVIOUS
  <2>2. Out \subseteq Nat
    OBVIOUS
  <2>3. PICK k \in Out : \A m \in Out : k <= m
    BY <2>1, <2>2, LeastOf
  <2>4. k \in 1 .. N /\ k - 1 \in 0 .. N
    BY <2>3
  <2>5. k - 1 \notin Out
    BY <2>3, <2>4
  <2> QED BY <2>3, <2>4, <2>5
<1> QED BY <1>1

\* A sequence without the elements from a + 1 to b.
Cut(list, a, b) == SubSeq(list, 1, a) \o SubSeq(list, b + 1, Len(list))

\* Where an element of it was before.
WasAt(k, a, b) == IF k <= a THEN k ELSE k + b - a

\* The elements of a sequence with some cut out.
LEMMA CutElements ==
  ASSUME NEW S, NEW list \in Seq(S), NEW a \in 0 .. Len(list), NEW b \in a .. Len(list)
  PROVE  /\ Cut(list, a, b) \in Seq(S) /\ Len(Cut(list, a, b)) = Len(list) - b + a
         /\ \A k \in 1 .. Len(list) - b + a :
              /\ WasAt(k, a, b) \in 1 .. Len(list)
              /\ Cut(list, a, b)[k] = list[WasAt(k, a, b)]
<1> DEFINE s == SubSeq(list, 1, a)
           t == SubSeq(list, b + 1, Len(list))
<1>1. s \in Seq(S) /\ Len(s) = a /\ \A k \in 1 .. a : s[k] = list[k]
  OBVIOUS
<1>2. /\ t \in Seq(S) /\ Len(t) = Len(list) - b
      /\ \A k \in 1 .. Len(list) - b : t[k] = list[k + b]
  OBVIOUS
<1>3. Cut(list, a, b) = s \o t
  BY DEF Cut
<1> HIDE DEF s, t
<1>4. /\ s \o t \in Seq(S) /\ Len(s \o t) = Len(s) + Len(t)
      /\ \A k \in 1 .. Len(s) + Len(t) : (s \o t)[k] = IF k <= Len(s) THEN s[k] ELSE t[k - Len(s)]
  <2>1. s \in Seq(S) /\ t \in Seq(S)
    BY <1>1, <1>2
  <2> QED BY <2>1
<1>5. ASSUME NEW k \in 1 .. Len(list) - b + a
      PROVE  WasAt(k, a, b) \in 1 .. Len(list) /\ (s \o t)[k] = list[WasAt(k, a, b)]
  <2>1. Len(list) \in Nat /\ a \in Nat /\ b \in Nat /\ a <= b /\ b <= Len(list)
    OBVIOUS
  <2>2. CASE k <= a
    <3>1. (s \o t)[k] = s[k] /\ s[k] = list[k]
      BY <1>1, <1>2, <1>4, <2>1, <2>2
    <3> QED BY <2>1, <2>2, <3>1 DEF WasAt
  <2>3. CASE k > a
    <3>1. k - a \in 1 .. Len(list) - b /\ (s \o t)[k] = t[k - a]
      BY <1>1, <1>2, <1>4, <2>1, <2>3
    <3>2. t[k - a] = list[(k - a) + b] /\ (k - a) + b = k + b - a
      BY <1>2, <2>1, <3>1
    <3> QED BY <2>1, <2>3, <3>1, <3>2 DEF WasAt
  <2>4. k <= a \/ k > a
    BY <2>1
  <2> QED BY <2>2, <2>3, <2>4
<1> QED BY <1>1, <1>2, <1>3, <1>4, <1>5

\* The elements of a concatenation.
LEMMA JoinedElements ==
  ASSUME NEW S, NEW s \in Seq(S), NEW t \in Seq(S)
  PROVE  /\ s \o t \in Seq(S) /\ Len(s \o t) = Len(s) + Len(t)
         /\ \A k \in 1 .. Len(s) : (s \o t)[k] = s[k]
         /\ \A k \in 1 .. Len(t) : (s \o t)[Len(s) + k] = t[k]
OBVIOUS

(***************************************************************************)
(* The numbers.                                                            *)
(***************************************************************************)

\* The number of the k-th chunk.
NumberOf(k) == (FirstNumber + k - 1) % Width

LEMMA Remainders ==
  ASSUME NEW p \in Nat \ {0}, NEW a \in Int, NEW b \in Int
  PROVE  /\ a % p \in 0 .. p - 1
         /\ ((a % p) + 1) % p = (a + 1) % p
         /\ a <= b /\ b < a + p /\ a % p = b % p => a = b
<1>1. /\ a = p * (a \div p) + (a % p) /\ a \div p \in Int /\ a % p \in 0 .. p - 1
      /\ b = p * (b \div p) + (b % p) /\ b \div p \in Int
  OBVIOUS
<1>2. ((a % p) + 1) % p = (a + 1) % p
  <2>1. PICK d \in Int : a = p * d + (a % p)
    BY <1>1
  <2> DEFINE r == a % p
  <2>2. r \in 0 .. p - 1 /\ a + 1 = p * d + (r + 1)
    BY <1>1, <2>1
  <2> HIDE DEF r
  <2>3. CASE r + 1 < p
    <3>1. (r + 1) % p = r + 1
      BY <2>2, <2>3
    <3>2. (p * d + (r + 1)) % p = r + 1
      BY <2>2, <2>3
    <3> QED BY <2>2, <3>1, <3>2 DEF r
  <2>4. CASE r + 1 = p
    <3>1. (r + 1) % p = 0
      BY <2>4
    <3>2. (p * (d + 1)) % p = 0 /\ p * (d + 1) = p * d + p
      OBVIOUS
    <3> QED BY <2>2, <2>4, <3>1, <3>2 DEF r
  <2> QED BY <2>2, <2>3, <2>4
<1>3. ASSUME a <= b, b < a + p, a % p = b % p PROVE a = b
  <2>1. PICK d \in Int, e \in Int : a = p * d + (a % p) /\ b = p * e + (a % p)
    BY <1>1, <1>3
  <2>2. b - a = p * (e - d) /\ e - d \in Int
    BY <2>1
  <2> DEFINE n == e - d
  <2>3. n \in Int /\ p * n >= 0 /\ p * n < p
    BY <1>3, <2>2
  <2> HIDE DEF n
  <2>4. n = 0
    <3>1. CASE n >= 1
      <4>1. p * n >= p
        BY <3>1, <2>3
      <4> QED BY <2>3, <4>1
    <3>2. CASE n <= -1
      <4>1. p * n < 0
        BY <3>2, <2>3
      <4> QED BY <2>3, <4>1
    <3> QED BY <2>3, <3>1, <3>2
  <2> QED BY <2>2, <2>4 DEF n
<1> QED BY <1>1, <1>2, <1>3

\* The numbers follow one another, and are different within a round.
LEMMA NumbersOf ==
  ASSUME ReceptionAssumption, NEW i \in Nat, NEW j \in Nat
  PROVE  /\ NumberOf(i) \in 0 .. Width - 1
         /\ (NumberOf(i) + 1) % Width = NumberOf(i + 1)
         /\ i <= j /\ j < i + Width /\ NumberOf(i) = NumberOf(j) => i = j
<1>1. Width \in Nat \ {0} /\ FirstNumber \in Nat
  BY DEF ReceptionAssumption
<1> DEFINE a == FirstNumber + i - 1
           b == FirstNumber + j - 1
<1>2. a \in Int /\ b \in Int /\ a + 1 = FirstNumber + (i + 1) - 1
  BY <1>1
<1> HIDE DEF a, b
<1>3. /\ a % Width \in 0 .. Width - 1 /\ ((a % Width) + 1) % Width = (a + 1) % Width
      /\ a <= b /\ b < a + Width /\ a % Width = b % Width => a = b
  BY <1>1, <1>2, Remainders
<1> QED BY <1>1, <1>2, <1>3 DEF NumberOf, a, b

(***************************************************************************)
(* Chunks and units.                                                       *)
(***************************************************************************)

Chunk == [type : {"MSG", "OPN"}, request : 0 .. MaxMessage, part : Nat,
          final : {"C", "F", "A"}, number : 0 .. Width - 1]

\* A chunk without its number, and a message.
Written == [type : {"MSG"}, request : 1 .. MaxMessage, part : Nat, final : {"C", "F", "A"}]
Message == [request : 1 .. MaxMessage, parts : Seq(Nat)]

IsForeign(u) == u.chunk.type = "???"

\* A chunk begins.
Begins(u) == u.unit = 1 /\ ~IsForeign(u)

LEMMA UnitParts ==
  ASSUME ReceptionAssumption, NEW u \in Unit
  PROVE  /\ u.unit \in Nat /\ u.size \in Nat \ {0, 1}
         /\ ~IsForeign(u) => u.chunk \in Chunk
         /\ ~IsForeign(u) <=> u.chunk.type \in {"MSG", "OPN"}
<1>1. CASE u \in [chunk : [type : {"???"}], unit : 1 .. 2, size : {2}]
  BY <1>1 DEF IsForeign
<1>2. CASE u \in [chunk : Chunk, unit : Nat, size : Units]
  <2>1. u.chunk \in Chunk /\ u.unit \in Nat /\ u.size \in Units
    BY <1>2
  <2>2. u.chunk.type \in {"MSG", "OPN"}
    BY <2>1 DEF Chunk
  <2> QED BY <2>1, <2>2 DEF IsForeign, ReceptionAssumption
<1> QED BY <1>1, <1>2 DEF Unit, Chunk

\* b may follow a in the stream.
Follows(a, b) ==
  IF a.unit = a.size THEN b.unit = 1
  ELSE b.chunk = a.chunk /\ b.unit = a.unit + 1 /\ b.size = a.size

\* Chunks one after the other, the first of which may have lost its beginning.
Linked(list) ==
  /\ \A k \in 1 .. Len(list) - 1 : Follows(list[k], list[k + 1])
  /\ list # <<>> => list[Len(list)].unit = list[Len(list)].size

LEMMA ElementsOfUnits ==
  ASSUME ReceptionAssumption, NEW list \in Seq(Unit)
  PROVE  /\ Len(list) \in Nat
         /\ \A k \in 1 .. Len(list) :
              /\ list[k] \in Unit /\ list[k].unit \in Nat /\ list[k].size \in Nat \ {0, 1}
              /\ ~IsForeign(list[k]) => list[k].chunk \in Chunk
<1>1. Len(list) \in Nat /\ \A k \in 1 .. Len(list) : list[k] \in Unit
  OBVIOUS
<1> QED BY <1>1, UnitParts

\* From where a chunk begins, its units follow, as far as the sequence goes.
LEMMA UnitsOfChunk ==
  ASSUME ReceptionAssumption, NEW list \in Seq(Unit), NEW n \in 0 .. Len(list),
         \A k \in 1 .. n - 1 : Follows(list[k], list[k + 1]),
         NEW k \in 1 .. n, list[k].unit = 1
  PROVE  \A j \in 0 .. list[k].size - 1 :
            k + j <= n => /\ list[k + j].chunk = list[k].chunk /\ list[k + j].unit = j + 1
                          /\ list[k + j].size = list[k].size
<1> DEFINE size == list[k].size
           P == {j \in 0 .. size - 1 : k + j <= n =>
                   /\ list[k + j].chunk = list[k].chunk /\ list[k + j].unit = j + 1
                   /\ list[k + j].size = size}
<1>1. size \in Nat \ {0, 1} /\ size - 1 \in Nat /\ n \in Nat /\ k \in Nat
  BY ElementsOfUnits
<1>2. 0 \in P
  BY <1>1
<1>3. ASSUME NEW j \in 1 .. size - 1, j - 1 \in P PROVE j \in P
  <2>1. SUFFICES ASSUME k + j <= n
                 PROVE  /\ list[k + j].chunk = list[k].chunk /\ list[k + j].unit = j + 1
                        /\ list[k + j].size = size
    BY <1>1
  <2>2. /\ list[k + (j - 1)].chunk = list[k].chunk /\ list[k + (j - 1)].unit = (j - 1) + 1
        /\ list[k + (j - 1)].size = size
    BY <1>1, <1>3, <2>1
  <2>3. k + (j - 1) \in 1 .. n - 1 /\ (k + (j - 1)) + 1 = k + j
    BY <1>1, <2>1
  <2>4. Follows(list[k + (j - 1)], list[k + j])
    BY <2>3
  <2> QED BY <1>1, <2>2, <2>4 DEF Follows
<1> HIDE DEF P
<1>4. \A j \in 0 .. size - 1 : j \in P
  BY <1>1, <1>2, <1>3, Reached
<1> QED BY <1>4 DEF P

(***************************************************************************)
(* The whole chunks of a piece of the stream.                              *)
(***************************************************************************)

Extended(bytes, k, until) ==
  IF until = k - 1 /\ WholeAt(bytes, k - 1) THEN k - 1 + bytes[k].size ELSE until

LEMMA UntilSteps ==
  ASSUME ReceptionAssumption, NEW bytes \in Seq(Unit)
  PROVE  \E f : /\ f[0] = 0 /\ \A k \in 0 .. Len(bytes) : f[k] \in Nat
                /\ \A k \in 1 .. Len(bytes) : f[k] = Extended(bytes, k, f[k - 1])
                /\ CompleteUntil(bytes) = f[Len(bytes)]
<1> DEFINE step == [p \in (1 .. Len(bytes)) \X Nat |-> Extended(bytes, p[1], p[2])]
           Is(f) == f = [k \in 0 .. Len(bytes) |->
                           IF k = 0 THEN 0 ELSE Extended(bytes, k, f[k - 1])]
<1>1. Len(bytes) \in Nat /\ 0 \in Nat
  OBVIOUS
<1>2. step \in [(1 .. Len(bytes)) \X Nat -> Nat]
  <2>1. ASSUME NEW p \in (1 .. Len(bytes)) \X Nat
        PROVE  Extended(bytes, p[1], p[2]) \in Nat
    <3>1. p[1] \in 1 .. Len(bytes) /\ p[2] \in Nat
      BY <2>1
    <3>2. bytes[p[1]].size \in Nat
      BY <3>1, ElementsOfUnits
    <3>3. p[1] - 1 + bytes[p[1]].size \in Nat
      BY <3>1, <3>2
    <3> QED BY <3>1, <3>3 DEF Extended
  <2> QED BY <2>1
<1>3. PICK g : IsComputed(g, Len(bytes), 0, step, Nat)
  <2> HIDE DEF step
  <2> QED BY <1>1, <1>2, Computed
<1>4. /\ g \in [0 .. Len(bytes) -> Nat] /\ g[0] = 0
      /\ \A k \in 1 .. Len(bytes) : g[k] = Extended(bytes, k, g[k - 1])
  <2>1. \A k \in 1 .. Len(bytes) : k - 1 \in 0 .. Len(bytes)
    BY <1>1
  <2> QED BY <1>3, <2>1 DEF IsComputed
<1>5. Is(g)
  <2>1. g = [k \in 0 .. Len(bytes) |-> g[k]]
    BY <1>4
  <2>2. \A k \in 0 .. Len(bytes) : g[k] = IF k = 0 THEN 0 ELSE Extended(bytes, k, g[k - 1])
    BY <1>1, <1>4
  <2> QED BY <2>1, <2>2
<1> DEFINE until == CHOOSE f : Is(f)
<1>6. Is(until)
  BY <1>5
<1>7. CompleteUntil(bytes) = until[Len(bytes)]
  BY DEF CompleteUntil, Extended
<1> HIDE DEF until
<1>8. \A k \in 0 .. Len(bytes) : until[k] = IF k = 0 THEN 0 ELSE Extended(bytes, k, until[k - 1])
  BY <1>6
<1>9. until[0] = 0 /\ \A k \in 1 .. Len(bytes) : until[k] = Extended(bytes, k, until[k - 1])
  BY <1>1, <1>8
<1>10. \A k \in 0 .. Len(bytes) : until[k] \in Nat
  <2>1. ASSUME NEW k \in 1 .. Len(bytes), until[k - 1] \in Nat PROVE until[k] \in Nat
    <3>1. bytes[k].size \in Nat
      BY ElementsOfUnits
    <3>2. k - 1 + bytes[k].size \in Nat
      BY <3>1
    <3> QED BY <1>9, <2>1, <3>2 DEF Extended
  <2> DEFINE P == {k \in 0 .. Len(bytes) : until[k] \in Nat}
  <2>2. 0 \in P /\ \A k \in 1 .. Len(bytes) : k - 1 \in P => k \in P
    BY <1>1, <1>9, <2>1
  <2> HIDE DEF P
  <2>3. \A k \in 0 .. Len(bytes) : k \in P
    BY <1>1, <2>2, Reached
  <2> QED BY <2>3 DEF P
<1> QED BY <1>7, <1>9, <1>10

\* The whole chunks end where a chunk ends, with the next one not whole yet, and all
\* of their units are of the channel.
LEMMA UntilIs ==
  ASSUME ReceptionAssumption, NEW bytes \in Seq(Unit),
         \A k \in 1 .. Len(bytes) - 1 : Follows(bytes[k], bytes[k + 1]),
         NEW until, until = CompleteUntil(bytes)
  PROVE  /\ until \in 0 .. Len(bytes)
         /\ until = 0 \/ bytes[until].unit = bytes[until].size
         /\ \A k \in 1 .. until : ~IsForeign(bytes[k])
         /\ ~WholeAt(bytes, until)
<1> DEFINE N == Len(bytes)
           Over(u) == /\ u \in 0 .. N
                      /\ u = 0 \/ bytes[u].unit = bytes[u].size
                      /\ \A k \in 1 .. u : ~IsForeign(bytes[k])
<1>1. PICK f : /\ f[0] = 0 /\ \A k \in 0 .. N : f[k] \in Nat
               /\ \A k \in 1 .. N : f[k] = Extended(bytes, k, f[k - 1])
               /\ until = f[N]
  BY UntilSteps
<1> DEFINE P == {k \in 0 .. N : Over(f[k]) /\ (f[k] >= k \/ ~WholeAt(bytes, f[k]))}
<1>2. N \in Nat
  OBVIOUS
<1>3. 0 \in P
  BY <1>1, <1>2
<1>4. ASSUME NEW k \in 1 .. N, k - 1 \in P PROVE k \in P
  <2>1. k - 1 \in 0 .. N /\ k \in 0 .. N /\ f[k - 1] \in Nat
    BY <1>1, <1>2
  <2>2. Over(f[k - 1]) /\ (f[k - 1] >= k - 1 \/ ~WholeAt(bytes, f[k - 1]))
    BY <1>4
  <2>3. f[k] = Extended(bytes, k, f[k - 1])
    BY <1>1
  <2>4. CASE f[k - 1] = k - 1 /\ WholeAt(bytes, k - 1)
    <3> DEFINE size == bytes[k].size
    <3>1. f[k] = k - 1 + size
      BY <2>3, <2>4 DEF Extended
    <3>2. size \in Nat \ {0, 1} /\ bytes[k].unit = 1 /\ ~IsForeign(bytes[k]) /\ k - 1 + size <= N
      <4>1. (k - 1) + 1 = k
        OBVIOUS
      <4> QED BY <2>4, <4>1, ElementsOfUnits DEF WholeAt, HeaderAt, IsForeign
    <3>3. \A j \in 0 .. size - 1 : k + j <= N =>
            /\ bytes[k + j].chunk = bytes[k].chunk /\ bytes[k + j].unit = j + 1
            /\ bytes[k + j].size = size
      <4>1. N \in 0 .. Len(bytes)
        BY <1>2
      <4> HIDE DEF N
      <4> QED BY <3>2, <4>1, UnitsOfChunk DEF N
    <3> HIDE DEF size
    <3>4. size - 1 \in 0 .. size - 1 /\ k + (size - 1) <= N /\ k + (size - 1) = f[k]
      <4>1. k \in Nat /\ size - 1 \in Nat /\ k + (size - 1) = k - 1 + size
        BY <3>2
      <4> QED BY <3>1, <3>2, <4>1
    <3>5. bytes[f[k]].unit = bytes[f[k]].size
      <4>1. bytes[k + (size - 1)].unit = (size - 1) + 1 /\ bytes[k + (size - 1)].size = size
        BY <3>3, <3>4
      <4> QED BY <3>2, <3>4, <4>1
    <3>6. ASSUME NEW i \in 1 .. f[k] PROVE ~IsForeign(bytes[i])
      <4>1. CASE i <= k - 1
        BY <2>2, <2>4, <4>1
      <4>2. CASE i > k - 1
        <5>1. i - k \in 0 .. size - 1 /\ k + (i - k) <= N /\ k + (i - k) = i
          BY <2>1, <3>1, <3>2, <4>2
        <5>2. bytes[i].chunk = bytes[k].chunk
          BY <3>3, <5>1
        <5> QED BY <3>2, <5>2 DEF IsForeign
      <4> QED BY <4>1, <4>2, <2>1, <3>1, <3>2
    <3>7. f[k] \in 0 .. N /\ f[k] >= k
      BY <1>2, <3>1, <3>2
    <3> QED BY <2>1, <3>5, <3>6, <3>7
  <2>5. CASE ~(f[k - 1] = k - 1 /\ WholeAt(bytes, k - 1))
    <3>1. f[k] = f[k - 1]
      BY <2>3, <2>5 DEF Extended
    <3>2. f[k] >= k \/ ~WholeAt(bytes, f[k])
      BY <2>1, <2>2, <2>5, <3>1
    <3> QED BY <2>1, <2>2, <3>1, <3>2
  <2> QED BY <2>4, <2>5
<1>5. N \in P
  <2> HIDE DEF P
  <2>1. \A k \in 0 .. N : k \in P
    BY <1>2, <1>3, <1>4, Reached
  <2> QED BY <1>2, <2>1
<1>6. Over(until) /\ (until >= N \/ ~WholeAt(bytes, until))
  BY <1>1, <1>5
<1>7. ~WholeAt(bytes, until)
  BY <1>2, <1>6 DEF WholeAt
<1> QED BY <1>6, <1>7

(***************************************************************************)
(* The invariant. all is every chunk of the messages begun, and of the     *)
(* OPNs, in order, n of which have been sent; nr says which of them       *)
(* begins at a unit in transit; and q is the last one that was processed.  *)
(***************************************************************************)

IsMessage(c) == c.type = "MSG"

Upto(m) == [k \in 1 .. m |-> k]

\* a comes before b, not necessarily at once.
Before(a, b) ==
  /\ a.request <= b.request
  /\ a.final # "C" \/ b.part = 1 => a.request < b.request

Ordered(all) ==
  /\ \A i, j \in 1 .. Len(all) :
       i < j /\ IsMessage(all[i]) /\ IsMessage(all[j]) => Before(all[i], all[j])
  /\ \A i \in 1 .. Len(all) : all[i].final = "C" =>
       /\ i < Len(all) /\ IsMessage(all[i + 1])
       /\ all[i + 1].request = all[i].request /\ all[i + 1].part = all[i].part + 1
  /\ \A i \in 1 .. Len(all) :
       IsMessage(all[i]) /\ (i = 1 \/ all[i - 1].final # "C") => all[i].part = 1

Sequenced(all, begun, whole) ==
  /\ all \in Seq(Chunk)
  /\ \A i \in 1 .. Len(all) :
       /\ all[i].number = NumberOf(i)
       /\ ~IsMessage(all[i]) => all[i].final = "F"
       /\ IsMessage(all[i]) => all[i].request \in 1 .. begun /\ all[i].part >= 1
       /\ IsMessage(all[i]) /\ all[i].final = "F" =>
            [request |-> all[i].request, parts |-> Upto(all[i].part)] \in ToSet(whole)
  /\ Ordered(all)

\* The messages sent whole, in the order of their requests.
Sorted(whole, begun) ==
  /\ \A k \in 1 .. Len(whole) : whole[k].request <= begun
  /\ \A i, k \in 1 .. Len(whole) : i < k => whole[i].request < whole[k].request

\* There are no more chunks than their messages may need.
Few(all, begun, renewed) ==
  \A most \in Nat : (\A m \in PartCounts : m <= most) => Len(all) <= most * begun + renewed

Sending(all, n, out, next) ==
  /\ n \in 0 .. Len(all) /\ next = NumberOf(n + 1) /\ Len(out) = Len(all) - n
  /\ \A k \in 1 .. Len(out) : all[n + k] = Numbered(out[k], NumberOf(n + k))

\* The chunks that begin in a sequence of units, beyond the first so many of them.
InTransit(list, nr, q, n, all, from) ==
  /\ \A i \in from + 1 .. Len(list) :
       Begins(list[i]) => nr[i] \in q + 1 .. n /\ list[i].chunk = all[nr[i]]
  /\ \A i, j \in from + 1 .. Len(list) :
       i < j /\ Begins(list[i]) /\ Begins(list[j]) => nr[i] < nr[j]

\* None that was sent is missing.
Covered(list, nr, q, n, from) ==
  \A p \in q + 1 .. n : \E i \in from + 1 .. Len(list) : Begins(list[i]) /\ nr[i] = p

\* The channel, as ProcessChunk has it.
ChannelState ==
  [received : 0 .. Width - 1, partial : [1 .. MaxMessage -> Seq(Nat)],
   delivered : Seq(Message), jumped : BOOLEAN, stopped : BOOLEAN]

\* Of the message that goes on, the parts so far are there; of those to come, none are.
PartsKept(partialOf, q, all, begun) ==
  /\ \A p \in q + 1 .. Len(all) :
       IsMessage(all[p]) /\ all[p].part = 1 => partialOf[all[p].request] = NoParts
  /\ q < Len(all) /\ IsMessage(all[q + 1]) =>
       partialOf[all[q + 1].request] = Upto(all[q + 1].part - 1)
  /\ \A r \in 1 .. MaxMessage : r > begun => partialOf[r] = NoParts

\* What was handed on comes before all that is still to come.
InOrder(handed, q, all, whole) ==
  /\ \A k \in 1 .. Len(handed) : handed[k] \in ToSet(whole)
  /\ \A i, k \in 1 .. Len(handed) : i < k => handed[i].request < handed[k].request
  /\ \A k \in 1 .. Len(handed), p \in q + 1 .. Len(all) :
       IsMessage(all[p]) => handed[k].request < all[p].request

\* Nothing was left out.
Complete(partialOf, handed, q, all, whole) ==
  /\ Len(handed) <= Len(whole)
  /\ \A k \in 1 .. Len(handed) : handed[k] = whole[k]
  /\ \A k \in Len(handed) + 1 .. Len(whole) : \E p \in q + 1 .. Len(all) :
       IsMessage(all[p]) /\ all[p].final = "F" /\ all[p].request = whole[k].request
  /\ \A r \in 1 .. MaxMessage : partialOf[r] # NoParts =>
       q >= 1 /\ IsMessage(all[q]) /\ all[q].final = "C" /\ all[q].request = r

Receiver(s, q, all, begun, whole, lost) ==
  /\ s.received = NumberOf(q)
  /\ lost = 0 => ~s.jumped
  /\ ~s.jumped /\ (lost = 0 \/ FewerThanNumbers) =>
       PartsKept(s.partial, q, all, begun) /\ InOrder(s.delivered, q, all, whole)
  /\ lost = 0 => Complete(s.partial, s.delivered, q, all, whole)

Channel ==
  [received |-> received, partial |-> partial, delivered |-> delivered, jumped |-> jumped,
   stopped |-> FALSE]

(***************************************************************************)
(* What is in transit.                                                     *)
(***************************************************************************)

\* Units that leave, from those in transit, leave the others in their order.
LEMMA TransitCut ==
  ASSUME ReceptionAssumption, NEW list \in Seq(Unit), NEW nr, NEW q \in Nat, NEW n \in Nat,
         NEW all, NEW from \in 0 .. Len(list), InTransit(list, nr, q, n, all, from),
         NEW a \in 0 .. Len(list), NEW b \in a .. Len(list), from = 0 \/ (a = 0 /\ b = from)
  PROVE  \E nr2 :
           /\ InTransit(Cut(list, a, b), nr2, q, n, all, 0)
           /\ Covered(list, nr, q, n, from) /\ (a = b \/ b = from) =>
                Covered(Cut(list, a, b), nr2, q, n, 0)
<1> DEFINE new == Cut(list, a, b)
           nr2 == [k \in 1 .. Len(new) |-> nr[WasAt(k, a, b)]]
<1>1. /\ Len(list) \in Nat /\ Len(new) = Len(list) - b + a
      /\ \A k \in 1 .. Len(new) : /\ WasAt(k, a, b) \in 1 .. Len(list)
                                  /\ new[k] = list[WasAt(k, a, b)]
  <2>1. /\ Cut(list, a, b) \in Seq(Unit) /\ Len(Cut(list, a, b)) = Len(list) - b + a
        /\ \A k \in 1 .. Len(list) - b + a :
             /\ WasAt(k, a, b) \in 1 .. Len(list)
             /\ Cut(list, a, b)[k] = list[WasAt(k, a, b)]
    <3> HIDE DEF nr2, new
    <3>1. \A c \in 0 .. Len(list) : \A d \in c .. Len(list) :
        /\ Cut(list, c, d) \in Seq(Unit) /\ Len(Cut(list, c, d)) = Len(list) - d + c
        /\ \A k \in 1 .. Len(list) - d + c :
             /\ WasAt(k, c, d) \in 1 .. Len(list)
             /\ Cut(list, c, d)[k] = list[WasAt(k, c, d)]
      BY ONLY list \in Seq(Unit), CutElements, ZenonT(60)
    <3> QED BY ONLY <3>1, a \in 0 .. Len(list), b \in a .. Len(list)
  <2> QED BY <2>1
<1> HIDE DEF new
<1>2. \A k \in 1 .. Len(new) : /\ WasAt(k, a, b) \in from + 1 .. Len(list)
                               /\ nr2[k] = nr[WasAt(k, a, b)]
  BY <1>1 DEF WasAt
<1>3. \A i, j \in 1 .. Len(new) : i < j => WasAt(i, a, b) < WasAt(j, a, b)
  BY <1>1 DEF WasAt
<1> HIDE DEF nr2
<1>4. InTransit(new, nr2, q, n, all, 0)
  <2>1. ASSUME NEW i \in 0 + 1 .. Len(new), Begins(new[i])
        PROVE  nr2[i] \in q + 1 .. n /\ new[i].chunk = all[nr2[i]]
    <3>1. i \in 1 .. Len(new)
      OBVIOUS
    <3> QED BY <1>1, <1>2, <2>1, <3>1 DEF InTransit
  <2>2. ASSUME NEW i \in 0 + 1 .. Len(new), NEW j \in 0 + 1 .. Len(new), i < j,
               Begins(new[i]), Begins(new[j])
        PROVE  nr2[i] < nr2[j]
    <3>1. i \in 1 .. Len(new) /\ j \in 1 .. Len(new)
      OBVIOUS
    <3> QED BY <1>1, <1>2, <1>3, <2>2, <3>1 DEF InTransit
  <2> QED BY <2>1, <2>2 DEF InTransit
<1>5. ASSUME Covered(list, nr, q, n, from), a = b \/ b = from PROVE Covered(new, nr2, q, n, 0)
  <2>1. SUFFICES ASSUME NEW p \in q + 1 .. n
                 PROVE  \E i \in 0 + 1 .. Len(new) : Begins(new[i]) /\ nr2[i] = p
    BY DEF Covered
  <2>2. PICK i \in from + 1 .. Len(list) : Begins(list[i]) /\ nr[i] = p
    BY <1>5 DEF Covered
  <2>3. i - (b - a) \in 1 .. Len(new) /\ WasAt(i - (b - a), a, b) = i
    BY <1>1, <1>5 DEF WasAt
  <2>4. i - (b - a) \in 0 + 1 .. Len(new)
    BY <2>3
  <2> QED BY <1>1, <1>2, <2>2, <2>3, <2>4
<1> QED BY <1>4, <1>5 DEF new

\* Units that are sent come after those in transit.
LEMMA TransitGrows ==
  ASSUME ReceptionAssumption, NEW list \in Seq(Unit), NEW more \in Seq(Unit), NEW nr,
         NEW n \in Nat, NEW q \in 0 .. n, NEW all, InTransit(list, nr, q, n, all, 0),
         NEW m \in n .. n + 1,
         \A k \in 1 .. Len(more) : Begins(more[k]) => k = 1 /\ m = n + 1,
         m = n + 1 => more # <<>> /\ Begins(more[1]) /\ more[1].chunk = all[n + 1]
  PROVE  \E nr2 :
           /\ InTransit(list \o more, nr2, q, m, all, 0)
           /\ Covered(list, nr, q, n, 0) => Covered(list \o more, nr2, q, m, 0)
<1> DEFINE new == list \o more
           nr2 == [k \in 1 .. Len(new) |-> IF k <= Len(list) THEN nr[k] ELSE n + 1]
<1>1. /\ Len(list) \in Nat /\ Len(more) \in Nat /\ Len(new) = Len(list) + Len(more)
      /\ \A k \in 1 .. Len(list) : new[k] = list[k]
      /\ \A k \in 1 .. Len(more) : new[Len(list) + k] = more[k]
  BY JoinedElements
<1> HIDE DEF new
<1>2. ASSUME NEW k \in 1 .. Len(new), Begins(new[k])
      PROVE  \/ k \in 1 .. Len(list) /\ Begins(list[k]) /\ nr2[k] = nr[k] /\ new[k] = list[k]
             \/ /\ k = Len(list) + 1 /\ m = n + 1 /\ nr2[k] = n + 1
                /\ new[k].chunk = all[n + 1]
  <2>1. CASE k <= Len(list)
    BY <1>1, <1>2, <2>1
  <2>2. CASE k > Len(list)
    <3>1. k - Len(list) \in 1 .. Len(more) /\ new[k] = more[k - Len(list)]
      <4>1. k - Len(list) \in 1 .. Len(more) /\ Len(list) + (k - Len(list)) = k
        BY <1>1, <2>2
      <4> QED BY <1>1, <4>1
    <3>2. k - Len(list) = 1 /\ m = n + 1
      BY <1>2, <3>1
    <3>3. k = Len(list) + 1 /\ nr2[k] = n + 1
      BY <1>1, <2>2, <3>2
    <3> QED BY <3>1, <3>2, <3>3
  <2> QED BY <1>1, <2>1, <2>2
<1>3. \A k \in 1 .. Len(list) : k \in 1 .. Len(new) /\ nr2[k] = nr[k] /\ new[k] = list[k]
  BY <1>1
<1>4. m = n + 1 =>
        Len(list) + 1 \in 1 .. Len(new) /\ nr2[Len(list) + 1] = n + 1 /\ Begins(new[Len(list) + 1])
  <2>1. SUFFICES ASSUME m = n + 1
                 PROVE  /\ Len(list) + 1 \in 1 .. Len(new) /\ nr2[Len(list) + 1] = n + 1
                        /\ Begins(new[Len(list) + 1])
    OBVIOUS
  <2>2. 1 \in 1 .. Len(more)
    BY <2>1
  <2>3. Len(list) + 1 \in 1 .. Len(new) /\ ~(Len(list) + 1 <= Len(list))
    BY <1>1, <2>2
  <2> QED BY <1>1, <2>1, <2>2, <2>3
<1> HIDE DEF nr2
<1>5. InTransit(new, nr2, q, m, all, 0)
  <2>1. \A i \in 1 .. Len(list) : Begins(list[i]) => nr[i] \in q + 1 .. n /\ list[i].chunk = all[nr[i]]
    BY DEF InTransit
  <2>2. \A i, j \in 1 .. Len(list) : i < j /\ Begins(list[i]) /\ Begins(list[j]) => nr[i] < nr[j]
    BY DEF InTransit
  <2>3. ASSUME NEW i \in 1 .. Len(new), Begins(new[i])
        PROVE  nr2[i] \in q + 1 .. m /\ new[i].chunk = all[nr2[i]]
    BY <1>2, <2>1, <2>3, SMTT(40)
  <2>4. ASSUME NEW i \in 1 .. Len(new), NEW j \in 1 .. Len(new), i < j,
               Begins(new[i]), Begins(new[j])
        PROVE  nr2[i] < nr2[j]
    BY <1>1, <1>2, <2>1, <2>2, <2>4
  <2> QED BY <2>3, <2>4 DEF InTransit
<1>6. ASSUME Covered(list, nr, q, n, 0) PROVE Covered(new, nr2, q, m, 0)
  <2>1. SUFFICES ASSUME NEW p \in q + 1 .. m
                 PROVE  \E i \in 1 .. Len(new) : Begins(new[i]) /\ nr2[i] = p
    BY DEF Covered
  <2>2. CASE p <= n
    <3>1. p \in q + 1 .. n
      BY <2>2
    <3>2. PICK i \in 1 .. Len(list) : Begins(list[i]) /\ nr[i] = p
      BY <1>6, <3>1 DEF Covered
    <3> QED BY <1>3, <3>2
  <2>3. CASE p = n + 1 /\ m = n + 1
    BY <1>4, <2>3
  <2> QED BY <2>2, <2>3
<1> QED BY <1>5, <1>6 DEF new

(***************************************************************************)
(* How the units go on.                                                    *)
(***************************************************************************)

LEMMA EndOf ==
  ASSUME NEW S, NEW list \in Seq(S), NEW c \in 0 .. Len(list)
  PROVE  /\ SubSeq(list, c + 1, Len(list)) \in Seq(S)
         /\ Len(SubSeq(list, c + 1, Len(list))) = Len(list) - c
         /\ \A k \in 1 .. Len(list) - c : SubSeq(list, c + 1, Len(list))[k] = list[k + c]
OBVIOUS

LEMMA StartOf ==
  ASSUME NEW S, NEW list \in Seq(S), NEW c \in 0 .. Len(list)
  PROVE  /\ SubSeq(list, 1, c) \in Seq(S) /\ Len(SubSeq(list, 1, c)) = c
         /\ \A k \in 1 .. c : SubSeq(list, 1, c)[k] = list[k]
OBVIOUS

LEMMA SameSeq ==
  ASSUME NEW S, NEW s \in Seq(S), NEW t \in Seq(S), Len(s) = Len(t),
         \A k \in 1 .. Len(s) : s[k] = t[k]
  PROVE  s = t
OBVIOUS

\* What was read of b after a, and what was not.
Joined(a, b, n) == a \o SubSeq(b, 1, n)
Unread(b, n) == SubSeq(b, n + 1, Len(b))
FirstOf(b, n) == SubSeq(b, 1, n)

LEMMA Pieces ==
  ASSUME NEW S, NEW a \in Seq(S), NEW b \in Seq(S), NEW n \in 1 .. Len(b)
  PROVE  /\ Joined(a, b, n) \in Seq(S) /\ Unread(b, n) \in Seq(S)
         /\ a \o b = Joined(a, b, n) \o Unread(b, n)
         /\ Len(Unread(b, n)) = Len(b) - n
<1>1. Len(a) \in Nat /\ Len(b) \in Nat /\ n \in 0 .. Len(b) /\ n \in Nat
  OBVIOUS
<1> DEFINE s == SubSeq(b, 1, n)
           bytes == a \o s
           t == SubSeq(b, n + 1, Len(b))
<1>2. s \in Seq(S) /\ Len(s) = n /\ \A k \in 1 .. n : s[k] = b[k]
  BY <1>1, StartOf
<1>3. t \in Seq(S) /\ Len(t) = Len(b) - n /\ \A k \in 1 .. Len(b) - n : t[k] = b[k + n]
  BY <1>1, EndOf
<1> HIDE DEF s, bytes, t
<1>4. /\ bytes \in Seq(S) /\ Len(bytes) = Len(a) + n
      /\ \A k \in 1 .. Len(a) : bytes[k] = a[k]
      /\ \A k \in 1 .. n : bytes[Len(a) + k] = s[k]
  <2>1. bytes = a \o s
    BY DEF bytes
  <2> QED BY <1>2, <2>1, JoinedElements
<1> DEFINE v == a \o b
           w == bytes \o t
<1>5. /\ v \in Seq(S) /\ Len(v) = Len(a) + Len(b)
      /\ \A k \in 1 .. Len(a) : v[k] = a[k]
      /\ \A k \in 1 .. Len(b) : v[Len(a) + k] = b[k]
  BY JoinedElements
<1>6. /\ w \in Seq(S) /\ Len(w) = Len(bytes) + Len(t)
      /\ \A k \in 1 .. Len(bytes) : w[k] = bytes[k]
      /\ \A k \in 1 .. Len(t) : w[Len(bytes) + k] = t[k]
  <2>1. bytes \in Seq(S) /\ t \in Seq(S)
    BY <1>3, <1>4
  <2> QED BY <2>1, JoinedElements
<1> HIDE DEF v, w
<1>7. ASSUME NEW k \in 1 .. Len(v) PROVE v[k] = w[k]
  <2>1. k \in Nat /\ Len(v) = Len(a) + Len(b)
    BY <1>1, <1>5
  <2>2. CASE k <= Len(a)
    <3>1. k \in 1 .. Len(a) /\ k \in 1 .. Len(bytes)
      BY <1>1, <1>4, <2>1, <2>2
    <3>2. v[k] = a[k] /\ w[k] = bytes[k] /\ bytes[k] = a[k]
      BY <1>4, <1>5, <1>6, <3>1
    <3> QED BY <3>2
  <2>3. CASE k > Len(a) /\ k <= Len(a) + n
    <3>1. k - Len(a) \in 1 .. n /\ k - Len(a) \in 1 .. Len(b) /\ Len(a) + (k - Len(a)) = k
      BY <1>1, <2>1, <2>3
    <3>2. v[k] = b[k - Len(a)]
      BY <1>5, <3>1
    <3>3. bytes[k] = s[k - Len(a)] /\ s[k - Len(a)] = b[k - Len(a)]
      BY <1>2, <1>4, <3>1
    <3>4. w[k] = bytes[k]
      <4>1. k \in 1 .. Len(bytes)
        BY <1>1, <1>4, <2>1, <2>3
      <4> QED BY <1>6, <4>1
    <3> QED BY <3>2, <3>3, <3>4
  <2>4. CASE k > Len(a) + n
    <3>1. /\ k - Len(a) \in 1 .. Len(b) /\ Len(a) + (k - Len(a)) = k
          /\ k - Len(bytes) \in 1 .. Len(t) /\ Len(bytes) + (k - Len(bytes)) = k
          /\ (k - Len(bytes)) + n = k - Len(a)
      BY <1>1, <1>3, <1>4, <2>1, <2>4
    <3>2. v[k] = b[k - Len(a)]
      BY <1>5, <3>1
    <3>3. w[k] = t[k - Len(bytes)]
      BY <1>6, <3>1
    <3>4. t[k - Len(bytes)] = b[k - Len(a)]
      BY <1>3, <3>1
    <3> QED BY <3>2, <3>3, <3>4
  <2> QED BY <1>1, <2>1, <2>2, <2>3, <2>4
<1>8. v = w
  <2>1. v \in Seq(S) /\ w \in Seq(S) /\ Len(v) = Len(w)
    BY <1>1, <1>3, <1>4, <1>5, <1>6
  <2> QED BY <1>7, <2>1, SameSeq
<1> QED BY <1>3, <1>4, <1>8 DEF v, w, bytes, s, t, Joined, Unread

\* What is left of a sequence and what comes after it.
LEMMA RestOf ==
  ASSUME NEW S, NEW s \in Seq(S), NEW t \in Seq(S), NEW u \in 0 .. Len(s)
  PROVE  /\ SubSeq(s, u + 1, Len(s)) \o t = SubSeq(s \o t, u + 1, Len(s \o t))
         /\ SubSeq(s, 1, u) = SubSeq(s \o t, 1, u)
         /\ t = SubSeq(s \o t, Len(s) + 1, Len(s \o t))
         /\ u \in 0 .. Len(s \o t) /\ Len(s) \in 0 .. Len(s \o t)
<1> DEFINE v == s \o t
           e == SubSeq(s, u + 1, Len(s))
<1>1. /\ v \in Seq(S) /\ Len(v) = Len(s) + Len(t) /\ Len(s) \in Nat /\ Len(t) \in Nat
      /\ \A k \in 1 .. Len(s) : v[k] = s[k]
      /\ \A k \in 1 .. Len(t) : v[Len(s) + k] = t[k]
  BY JoinedElements
<1>2. e \in Seq(S) /\ Len(e) = Len(s) - u /\ \A k \in 1 .. Len(s) - u : e[k] = s[k + u]
  BY EndOf
<1> HIDE DEF v, e
<1>3. u \in 0 .. Len(v) /\ Len(s) \in 0 .. Len(v) /\ u \in Nat
  BY <1>1
<1>4. /\ e \o t \in Seq(S) /\ Len(e \o t) = Len(e) + Len(t)
      /\ \A k \in 1 .. Len(e) : (e \o t)[k] = e[k]
      /\ \A k \in 1 .. Len(t) : (e \o t)[Len(e) + k] = t[k]
  <2>1. e \in Seq(S)
    BY <1>2
  <2> QED BY ONLY <2>1, t \in Seq(S), JoinedElements
<1> DEFINE w == e \o t
           x == SubSeq(v, u + 1, Len(v))
<1>5. x \in Seq(S) /\ Len(x) = Len(v) - u /\ \A k \in 1 .. Len(v) - u : x[k] = v[k + u]
  BY <1>1, <1>3, EndOf
<1> HIDE DEF w, x
<1>6. w = x
  <2>1. w \in Seq(S) /\ Len(w) = Len(x)
    BY <1>1, <1>2, <1>3, <1>4, <1>5 DEF w
  <2>2. ASSUME NEW k \in 1 .. Len(w) PROVE w[k] = x[k]
    <3>1. x[k] = v[k + u] /\ k \in Nat
      BY <1>5, <2>1
    <3>2. CASE k <= Len(s) - u
      <4>1. k \in 1 .. Len(e) /\ k + u \in 1 .. Len(s)
        BY <1>1, <1>2, <1>3, <3>1, <3>2
      <4> QED BY <1>1, <1>2, <1>4, <3>1, <4>1 DEF w
    <3>3. CASE k > Len(s) - u
      <4>1. /\ k - Len(e) \in 1 .. Len(t) /\ Len(e) + (k - Len(e)) = k
            /\ Len(s) + (k - Len(e)) = k + u
        BY <1>1, <1>2, <1>3, <1>4, <3>1, <3>3 DEF w
      <4>2. w[k] = t[k - Len(e)]
        BY <1>4, <4>1 DEF w
      <4>3. v[k + u] = t[k - Len(e)]
        BY <1>1, <4>1
      <4> QED BY <3>1, <4>2, <4>3
    <3> QED BY <1>1, <1>3, <3>1, <3>2, <3>3
  <2> QED BY <1>5, <2>1, <2>2, SameSeq
<1>7. SubSeq(s, 1, u) = SubSeq(v, 1, u)
  <2> DEFINE y == SubSeq(s, 1, u)
             z == SubSeq(v, 1, u)
  <2>1. y \in Seq(S) /\ Len(y) = u /\ \A k \in 1 .. u : y[k] = s[k]
    BY StartOf
  <2>2. z \in Seq(S) /\ Len(z) = u /\ \A k \in 1 .. u : z[k] = v[k]
    BY <1>1, <1>3, StartOf
  <2> HIDE DEF y, z
  <2>3. ASSUME NEW k \in 1 .. Len(y) PROVE y[k] = z[k]
    <3>1. k \in 1 .. u /\ k \in 1 .. Len(s)
      BY <1>1, <2>1
    <3>2. y[k] = s[k] /\ z[k] = v[k] /\ v[k] = s[k]
      BY <1>1, <2>1, <2>2, <3>1
    <3> QED BY <3>2
  <2>4. y = z
    BY <2>1, <2>2, <2>3, SameSeq
  <2> QED BY <2>4 DEF y, z
<1>8. t = SubSeq(v, Len(s) + 1, Len(v))
  <2> DEFINE z == SubSeq(v, Len(s) + 1, Len(v))
  <2>1. z \in Seq(S) /\ Len(z) = Len(v) - Len(s) /\ \A k \in 1 .. Len(v) - Len(s) : z[k] = v[k + Len(s)]
    BY <1>1, <1>3, EndOf
  <2> HIDE DEF z
  <2>2. ASSUME NEW k \in 1 .. Len(t) PROVE t[k] = z[k]
    <3>1. z[k] = v[k + Len(s)] /\ k + Len(s) = Len(s) + k
      BY <1>1, <2>1
    <3> QED BY <1>1, <3>1
  <2>3. t = z
    BY <1>1, <2>1, <2>2, SameSeq
  <2> QED BY <2>3 DEF z
<1> QED BY <1>3, <1>6, <1>7, <1>8 DEF v, w, x, e

\* The end of a linked sequence is linked.
LEMMA LinkedEnd ==
  ASSUME NEW list \in Seq(Unit), Linked(list), NEW c \in 0 .. Len(list)
  PROVE  Linked(SubSeq(list, c + 1, Len(list)))
<1> DEFINE new == SubSeq(list, c + 1, Len(list))
<1>1. /\ new \in Seq(Unit) /\ Len(new) = Len(list) - c /\ Len(list) \in Nat
      /\ \A k \in 1 .. Len(list) - c : new[k] = list[k + c]
  BY EndOf
<1> HIDE DEF new
<1>2. ASSUME NEW k \in 1 .. Len(new) - 1 PROVE Follows(new[k], new[k + 1])
  <2>1. k + c \in 1 .. Len(list) - 1 /\ (k + 1) + c = (k + c) + 1
    BY <1>1
  <2>2. Follows(list[k + c], list[(k + c) + 1])
    BY <2>1 DEF Linked
  <2>3. new[k] = list[k + c] /\ new[k + 1] = list[(k + 1) + c]
    BY <1>1
  <2> QED BY <2>1, <2>2, <2>3
<1>3. ASSUME new # <<>> PROVE new[Len(new)].unit = new[Len(new)].size
  <2>1. Len(new) # 0
    BY <1>1, <1>3
  <2>2. Len(new) \in 1 .. Len(list) - c /\ Len(new) + c = Len(list) /\ list # <<>>
    BY <1>1, <2>1
  <2>3. new[Len(new)] = list[Len(list)]
    BY <1>1, <2>2
  <2> QED BY <2>2, <2>3 DEF Linked
<1>4. Linked(new)
  BY <1>2, <1>3 DEF Linked
<1> QED BY <1>4 DEF new

\* Whole chunks go on after whole chunks.
LEMMA LinkedGrows ==
  ASSUME NEW list \in Seq(Unit), NEW more \in Seq(Unit), Linked(list), Linked(more),
         more # <<>>, more[1].unit = 1
  PROVE  Linked(list \o more)
<1> DEFINE new == list \o more
<1>1. /\ Len(list) \in Nat /\ Len(more) \in Nat /\ Len(new) = Len(list) + Len(more)
      /\ new \in Seq(Unit)
      /\ \A k \in 1 .. Len(list) : new[k] = list[k]
      /\ \A k \in 1 .. Len(more) : new[Len(list) + k] = more[k]
  BY JoinedElements
<1>2. Len(more) >= 1
  BY <1>1
<1> HIDE DEF new
<1>3. ASSUME NEW k \in 1 .. Len(new) - 1 PROVE Follows(new[k], new[k + 1])
  <2>1. k \in Nat
    OBVIOUS
  <2>2. CASE k < Len(list)
    <3>1. k \in 1 .. Len(list) - 1 /\ k + 1 \in 1 .. Len(list) /\ k \in 1 .. Len(list)
      BY <1>1, <2>1, <2>2
    <3>2. Follows(list[k], list[k + 1])
      BY <3>1 DEF Linked
    <3> QED BY <1>1, <3>1, <3>2
  <2>3. CASE k = Len(list)
    <3>1. list # <<>> /\ k \in 1 .. Len(list) /\ 1 \in 1 .. Len(more)
      BY <1>1, <1>2, <2>3
    <3>2. list[k].unit = list[k].size
      BY <2>3, <3>1 DEF Linked
    <3>3. new[k] = list[k] /\ new[k + 1] = more[1]
      BY <1>1, <2>3, <3>1
    <3> QED BY <3>2, <3>3 DEF Follows
  <2>4. CASE k > Len(list)
    <3>1. /\ k - Len(list) \in 1 .. Len(more) - 1 /\ k - Len(list) \in 1 .. Len(more)
          /\ (k - Len(list)) + 1 \in 1 .. Len(more) /\ Len(list) + (k - Len(list)) = k
          /\ Len(list) + ((k - Len(list)) + 1) = k + 1
      BY <1>1, <2>1, <2>4
    <3>2. Follows(more[k - Len(list)], more[(k - Len(list)) + 1])
      BY <3>1 DEF Linked
    <3>3. new[k] = more[k - Len(list)] /\ new[k + 1] = more[(k - Len(list)) + 1]
      BY <1>1, <3>1, SMTT(40)
    <3> QED BY <3>2, <3>3
  <2> QED BY <1>1, <2>1, <2>2, <2>3, <2>4
<1>4. new[Len(new)].unit = new[Len(new)].size
  <2>1. Len(more) \in 1 .. Len(more) /\ new[Len(new)] = more[Len(more)]
    BY <1>1, <1>2
  <2> QED BY <2>1 DEF Linked
<1>5. Linked(new)
  BY <1>3, <1>4 DEF Linked
<1> QED BY <1>5 DEF new

\* The units of one chunk.
LEMMA BytesAre ==
  ASSUME ReceptionAssumption, NEW chunk, NEW size,
         (chunk \in Chunk /\ size \in Units) \/ (chunk = [type |-> "???"] /\ size = 2)
  PROVE  /\ Bytes(chunk, size) \in Seq(Unit) /\ Linked(Bytes(chunk, size))
         /\ Len(Bytes(chunk, size)) = size /\ size \in Nat \ {0, 1}
         /\ \A k \in 1 .. size : /\ Bytes(chunk, size)[k].unit = k
                                 /\ Bytes(chunk, size)[k].chunk = chunk
<1> DEFINE s == Bytes(chunk, size)
<1>1. size \in Nat \ {0, 1}
  <2>1. Units \subseteq Nat \ {0, 1}
    BY DEF ReceptionAssumption
  <2>2. 2 \in Nat \ {0, 1}
    OBVIOUS
  <2> QED BY <2>1, <2>2
<1>2. DOMAIN s = 1 .. size /\ \A k \in 1 .. size : s[k] = [chunk |-> chunk, unit |-> k, size |-> size]
  BY DEF Bytes
<1>3. \A k \in 1 .. size : s[k] \in Unit
  <2>1. TAKE k \in 1 .. size
  <2>2. CASE chunk \in Chunk /\ size \in Units
    <3>1. s[k] \in [chunk : Chunk, unit : Nat, size : Units]
      BY <1>1, <1>2, <2>2
    <3> QED BY <3>1 DEF Unit, Chunk
  <2>3. CASE chunk = [type |-> "???"] /\ size = 2
    <3>1. s[k] \in [chunk : [type : {"???"}], unit : 1 .. 2, size : {2}]
      BY <1>1, <1>2, <2>3
    <3> QED BY <3>1 DEF Unit
  <2> QED BY <2>2, <2>3
<1>4. s \in Seq(Unit) /\ Len(s) = size
  <2>1. s = [k \in 1 .. size |-> [chunk |-> chunk, unit |-> k, size |-> size]]
    BY DEF Bytes
  <2>2. s \in [1 .. size -> Unit]
    BY <1>3, <2>1
  <2> HIDE DEF s
  <2> QED BY <1>1, <2>1, <2>2
<1> HIDE DEF s
<1>5. Linked(s)
  <2>1. \A k \in 1 .. size - 1 : Follows(s[k], s[k + 1])
    <3>1. TAKE k \in 1 .. size - 1
    <3>2. /\ s[k] = [chunk |-> chunk, unit |-> k, size |-> size]
          /\ s[k + 1] = [chunk |-> chunk, unit |-> k + 1, size |-> size] /\ k # size
      BY <1>1, <1>2
    <3> QED BY <3>2 DEF Follows
  <2>2. s[size].unit = s[size].size
    BY <1>1, <1>2
  <2> QED BY <1>1, <1>4, <2>1, <2>2 DEF Linked
<1> QED BY <1>1, <1>2, <1>4, <1>5 DEF s

(***************************************************************************)
(* What the sender adds: the chunks of a message, or an OPN.               *)
(***************************************************************************)

Added(more, after, request) ==
  /\ more \in Seq(Chunk) /\ Len(more) >= 1
  /\ \A k \in 1 .. Len(more) : more[k].number = NumberOf(after + k)
  /\ \A k \in 1 .. Len(more) : more[k].final = "C" <=> k < Len(more)
  /\ \A k \in 1 .. Len(more) : IsMessage(more[k]) => more[k].request = request /\ more[k].part = k
  /\ \A k \in 1 .. Len(more) : ~IsMessage(more[k]) => Len(more) = 1 /\ more[k].final = "F"

LEMMA UptoSeq ==
  ASSUME NEW m \in Nat
  PROVE  /\ Upto(m) \in Seq(Nat) /\ Len(Upto(m)) = m /\ Append(Upto(m), m + 1) = Upto(m + 1)
<1>1. Upto(m) \in Seq(Nat) /\ Len(Upto(m)) = m /\ \A k \in 1 .. m : Upto(m)[k] = k
  BY DEF Upto
<1>2. m + 1 \in Nat
  OBVIOUS
<1>3. Upto(m + 1) \in Seq(Nat) /\ Len(Upto(m + 1)) = m + 1 /\ \A k \in 1 .. m + 1 : Upto(m + 1)[k] = k
  BY <1>2 DEF Upto
<1>4. /\ Append(Upto(m), m + 1) \in Seq(Nat) /\ Len(Append(Upto(m), m + 1)) = m + 1
      /\ \A k \in 1 .. m + 1 : Append(Upto(m), m + 1)[k] = k
  BY <1>1, <1>2
<1>5. Append(Upto(m), m + 1) = Upto(m + 1)
  <2> DEFINE s == Append(Upto(m), m + 1)
             t == Upto(m + 1)
  <2>1. s \in Seq(Nat) /\ t \in Seq(Nat) /\ Len(s) = Len(t) /\ \A k \in 1 .. Len(s) : s[k] = t[k]
    BY <1>3, <1>4
  <2> HIDE DEF s, t
  <2>2. s = t
    BY <2>1, SameSeq
  <2> QED BY <2>2 DEF s, t
<1> QED BY <1>1, <1>5

LEMMA UptoNone == Upto(0) = NoParts
<1>1. Upto(0) \in Seq(Nat) /\ Len(Upto(0)) = 0
  BY UptoSeq
<1> QED BY <1>1 DEF NoParts

\* The chunks of a message.
AreChunks(c, request, m, fails) == c = Chunks(request, m, fails)

\* The chunks a message is cut into: all but the last are intermediate, and one that is
\* final has all parts before it.
LEMMA ChunksAre ==
  ASSUME ReceptionAssumption, NEW request \in 1 .. MaxMessage, NEW m \in Nat \ {0}, NEW fails \in 0 .. m,
         NEW c, AreChunks(c, request, m, fails)
  PROVE  /\ c \in Seq(Written) /\ Len(c) \in 1 .. m
         /\ \A k \in 1 .. Len(c) : /\ c[k].request = request /\ c[k].part = k
                                   /\ c[k].final = "C" <=> k < Len(c)
         /\ c[Len(c)].final = "F" => Len(c) = m
<1> DEFINE limit == IF MaxChunkCount = 0 THEN m ELSE MaxChunkCount
           whole == IF fails < limit THEN fails ELSE limit
           len == IF m <= whole THEN m ELSE whole + 1
           end == IF m <= whole THEN "F" ELSE "A"
           list(x, e) == [k \in 1 .. x |-> [type |-> "MSG", request |-> request, part |-> k,
                                            final |-> IF k = x THEN e ELSE "C"]]
<1>1. MaxChunkCount \in Nat
  BY DEF ReceptionAssumption
<1>2. limit \in Nat /\ whole \in Nat /\ len \in 1 .. m /\ end \in {"F", "A"}
  <2>1. limit \in Nat
    BY <1>1
  <2> HIDE DEF limit
  <2>2. whole \in Nat
    BY <2>1
  <2> HIDE DEF whole
  <2> QED BY <2>1, <2>2
<1>3. end = "F" => len = m
  OBVIOUS
<1>4. Chunks(request, m, fails) = list(len, end)
  <2>1. CASE m <= whole
    BY <2>1 DEF Chunks
  <2>2. CASE ~(m <= whole)
    BY <2>2 DEF Chunks
  <2> QED BY <2>1, <2>2
<1> DEFINE new == list(len, end)
<1> HIDE DEF limit, whole, len, end
<1>5. \A k \in 1 .. len : new[k] \in Written
  BY <1>2 DEF Written
<1>6. new \in Seq(Written) /\ Len(new) = len
  <2>1. new \in [1 .. len -> Written]
    BY <1>5
  <2>2. DOMAIN new = 1 .. len /\ len \in Nat
    BY <1>2
  <2> HIDE DEF new
  <2> QED BY <2>1, <2>2
<1>7. \A k \in 1 .. len : /\ new[k].request = request /\ new[k].part = k
                          /\ new[k].final = IF k = len THEN end ELSE "C"
  OBVIOUS
<1> HIDE DEF new, list
<1>8. \A k \in 1 .. len : new[k].final = "C" <=> k < len
  BY <1>2, <1>7
<1>9. new[len].final = end
  BY <1>2, <1>7
<1>10. c = new
  BY <1>4 DEF AreChunks, new
<1> QED BY <1>2, <1>3, <1>6, <1>7, <1>8, <1>9, <1>10

\* More chunks after those numbered so far.
LEMMA SequencedGrows ==
  ASSUME ReceptionAssumption, NEW begun \in Nat, NEW whole,
         NEW all, Sequenced(all, begun, whole),
         NEW request, NEW more, Added(more, Len(all), request),
         NEW begun2 \in Nat, begun <= begun2, NEW whole2, ToSet(whole) \subseteq ToSet(whole2),
         \A k \in 1 .. Len(more) : IsMessage(more[k]) =>
           /\ request = begun + 1 /\ request <= begun2
           /\ more[k].final = "F" =>
                [request |-> request, parts |-> Upto(Len(more))] \in ToSet(whole2)
  PROVE  Sequenced(all \o more, begun2, whole2)
<1> DEFINE new == all \o more
           n == Len(all)
           m == Len(more)
<1>1. all \in Seq(Chunk) /\ more \in Seq(Chunk) /\ m >= 1
  BY DEF Sequenced, Added
<1>2. /\ new \in Seq(Chunk) /\ Len(new) = n + m /\ n \in Nat /\ m \in Nat
      /\ \A k \in 1 .. n : new[k] = all[k]
      /\ \A k \in 1 .. m : new[n + k] = more[k]
  <2>1. n \in Nat /\ m \in Nat
    BY <1>1
  <2> QED BY <1>1, <2>1, JoinedElements
<1> HIDE DEF new
<1>3. /\ \A i \in 1 .. n :
           /\ all[i].number = NumberOf(i)
           /\ ~IsMessage(all[i]) => all[i].final = "F"
           /\ IsMessage(all[i]) => all[i].request \in 1 .. begun /\ all[i].part >= 1
           /\ IsMessage(all[i]) /\ all[i].final = "F" =>
                [request |-> all[i].request, parts |-> Upto(all[i].part)] \in ToSet(whole)
      /\ \A i, j \in 1 .. n :
           i < j /\ IsMessage(all[i]) /\ IsMessage(all[j]) => Before(all[i], all[j])
      /\ \A i \in 1 .. n : all[i].final = "C" =>
           /\ i < n /\ IsMessage(all[i + 1])
           /\ all[i + 1].request = all[i].request /\ all[i + 1].part = all[i].part + 1
      /\ \A i \in 1 .. n :
           IsMessage(all[i]) /\ (i = 1 \/ all[i - 1].final # "C") => all[i].part = 1
  BY DEF Sequenced, Ordered
<1>4. /\ \A k \in 1 .. m : more[k].number = NumberOf(n + k)
      /\ \A k \in 1 .. m : more[k].final = "C" <=> k < m
      /\ \A k \in 1 .. m : IsMessage(more[k]) => more[k].request = request /\ more[k].part = k
      /\ \A k \in 1 .. m : ~IsMessage(more[k]) => m = 1 /\ more[k].final = "F"
  BY DEF Added
<1> HIDE DEF n, m
<1>5. ASSUME NEW i \in 1 .. n + m
      PROVE  \/ i \in 1 .. n /\ new[i] = all[i]
             \/ i - n \in 1 .. m /\ new[i] = more[i - n] /\ i = n + (i - n) /\ i > n
  <2>1. CASE i <= n
    BY <1>2, <2>1
  <2>2. CASE i > n
    <3>1. i - n \in 1 .. m /\ i = n + (i - n)
      BY <1>2, <2>2
    <3> QED BY <1>2, <2>2, <3>1
  <2> QED BY <1>2, <2>1, <2>2
<1>6. ASSUME NEW i \in 1 .. n + m
      PROVE  /\ new[i].number = NumberOf(i)
             /\ ~IsMessage(new[i]) => new[i].final = "F"
             /\ IsMessage(new[i]) => new[i].request \in 1 .. begun2 /\ new[i].part >= 1
             /\ IsMessage(new[i]) /\ new[i].final = "F" =>
                  [request |-> new[i].request, parts |-> Upto(new[i].part)] \in ToSet(whole2)
  <2>1. CASE i \in 1 .. n /\ new[i] = all[i]
    <3>1. 1 .. begun \subseteq 1 .. begun2
      OBVIOUS
    <3> QED BY <1>3, <2>1, <3>1
  <2>2. CASE i - n \in 1 .. m /\ new[i] = more[i - n] /\ i = n + (i - n)
    <3>1. new[i].number = NumberOf(i) /\ (~IsMessage(new[i]) => new[i].final = "F")
      BY <1>4, <2>2
    <3>2. ASSUME IsMessage(new[i]) PROVE new[i].request \in 1 .. begun2 /\ new[i].part >= 1
      BY <1>4, <2>2, <3>2 DEF m
    <3>3. ASSUME IsMessage(new[i]), new[i].final = "F"
          PROVE  [request |-> new[i].request, parts |-> Upto(new[i].part)] \in ToSet(whole2)
      <4>1. i - n = m
        <5>1. ~(i - n < m) /\ i - n \in 1 .. m
          BY <1>4, <2>2, <3>3
        <5> QED BY ONLY <5>1, <1>2
      <4>2. new[i].request = request /\ new[i].part = m
        BY <1>4, <2>2, <3>3, <4>1
      <4> QED BY <2>2, <3>3, <4>2 DEF m
    <3> QED BY <3>1, <3>2, <3>3
  <2> QED BY <1>5, <2>1, <2>2
<1>7. ASSUME NEW i \in 1 .. n + m, NEW j \in 1 .. n + m, i < j,
             IsMessage(new[i]), IsMessage(new[j])
      PROVE  Before(new[i], new[j])
  <2>1. CASE j \in 1 .. n /\ new[j] = all[j]
    <3>1. i \in 1 .. n /\ new[i] = all[i]
      BY <1>2, <1>7, <2>1
    <3> QED BY <1>3, <1>7, <2>1, <3>1
  <2>2. CASE i \in 1 .. n /\ new[i] = all[i] /\ j - n \in 1 .. m /\ new[j] = more[j - n]
    <3>1. new[i].request \in 1 .. begun /\ new[j].request = begun + 1
      <4>1. new[i].request \in 1 .. begun
        BY <1>3, <1>7, <2>2
      <4>2. new[j].request = begun + 1
        BY <1>4, <1>7, <2>2 DEF m
      <4> QED BY <4>1, <4>2
    <3> QED BY <3>1 DEF Before
  <2>3. CASE i - n \in 1 .. m /\ new[i] = more[i - n] /\ j - n \in 1 .. m /\ new[j] = more[j - n]
    <3>1. i - n < j - n /\ i - n < m /\ j - n # 1
      BY <1>2, <1>7, <2>3
    <3>2. new[i].final = "C" /\ new[i].request = request /\ new[j].request = request /\ new[j].part # 1
      BY <1>4, <1>7, <2>3, <3>1
    <3>3. request = begun + 1
      BY <1>7, <2>3 DEF m
    <3> QED BY <3>2, <3>3 DEF Before
  <2> QED BY <1>2, <1>5, <1>7, <2>1, <2>2, <2>3
<1>8. ASSUME NEW i \in 1 .. n + m, new[i].final = "C"
      PROVE  /\ i < n + m /\ IsMessage(new[i + 1])
             /\ new[i + 1].request = new[i].request /\ new[i + 1].part = new[i].part + 1
  <2>1. CASE i \in 1 .. n /\ new[i] = all[i]
    <3>1. /\ i < n /\ IsMessage(all[i + 1])
          /\ all[i + 1].request = all[i].request /\ all[i + 1].part = all[i].part + 1
      BY <1>3, <1>8, <2>1
    <3>2. i + 1 \in 1 .. n /\ new[i + 1] = all[i + 1]
      BY <1>2, <2>1, <3>1
    <3> QED BY <1>2, <2>1, <3>1, <3>2
  <2>2. CASE i - n \in 1 .. m /\ new[i] = more[i - n] /\ i = n + (i - n)
    <3>1. i - n < m
      BY <1>4, <1>8, <2>2
    <3>2. (i - n) + 1 \in 1 .. m /\ i + 1 = n + ((i - n) + 1) /\ m # 1
      BY <1>2, <2>2, <3>1
    <3>3. new[i + 1] = more[(i - n) + 1]
      BY <1>2, <3>2
    <3>4. IsMessage(more[i - n]) /\ IsMessage(more[(i - n) + 1])
      BY <1>4, <2>2, <3>2
    <3> QED BY <1>2, <1>4, <2>2, <3>1, <3>2, <3>3, <3>4
  <2> QED BY <1>5, <2>1, <2>2
<1>9. ASSUME NEW i \in 1 .. n + m, IsMessage(new[i]), i = 1 \/ new[i - 1].final # "C"
      PROVE  new[i].part = 1
  <2>1. CASE i \in 1 .. n /\ new[i] = all[i]
    <3>1. i = 1 \/ (i - 1 \in 1 .. n /\ new[i - 1] = all[i - 1])
      BY <1>2, <2>1
    <3> QED BY <1>3, <1>9, <2>1, <3>1
  <2>2. CASE i - n \in 1 .. m /\ new[i] = more[i - n] /\ i = n + (i - n)
    <3>1. new[i].part = i - n
      BY <1>4, <1>9, <2>2
    <3>2. CASE i - n > 1
      <4>1. (i - n) - 1 \in 1 .. m /\ (i - n) - 1 < m /\ n + ((i - n) - 1) = i - 1 /\ i # 1
        BY <1>2, <2>2, <3>2
      <4>2. new[i - 1] = more[(i - n) - 1]
        BY <1>2, <4>1
      <4>3. new[i - 1].final = "C"
        BY <1>4, <4>1, <4>2
      <4> QED BY <1>9, <4>1, <4>3
    <3> QED BY <1>2, <2>2, <3>1, <3>2
  <2> QED BY <1>5, <2>1, <2>2
<1>10. Ordered(new)
  BY <1>2, <1>7, <1>8, <1>9 DEF Ordered
<1> QED BY <1>2, <1>6, <1>10 DEF Sequenced, new

\* What the channel has taken in does not depend on the chunks sent later.
LEMMA ReceiverSees ==
  ASSUME ReceptionAssumption, NEW begun \in Nat, NEW whole \in Seq(Message), Sorted(whole, begun),
         NEW all \in Seq(Chunk), NEW q \in 0 .. Len(all),
         NEW s \in ChannelState, NEW lost, Receiver(s, q, all, begun, whole, lost),
         NEW request, NEW more, Added(more, Len(all), request),
         NEW begun2 \in Nat, begun <= begun2, begun2 <= MaxMessage, NEW whole2,
         \A k \in 1 .. Len(more) : IsMessage(more[k]) => request = begun + 1 /\ request <= begun2,
         \/ whole2 = whole
         \/ \E m : /\ whole2 = Append(whole, m) /\ m \in Message /\ m.request = request
                   /\ IsMessage(more[Len(more)]) /\ more[Len(more)].final = "F"
  PROVE  Receiver(s, q, all \o more, begun2, whole2, lost)
<1> DEFINE new == all \o more
           n == Len(all)
           m == Len(more)
<1>1. more \in Seq(Chunk) /\ m >= 1
  BY DEF Added
<1>2. /\ new \in Seq(Chunk) /\ Len(new) = n + m /\ n \in Nat /\ m \in Nat
      /\ \A k \in 1 .. n : new[k] = all[k]
      /\ \A k \in 1 .. m : new[n + k] = more[k]
  <2>1. n \in Nat /\ m \in Nat
    BY <1>1
  <2> QED BY <1>1, <2>1, JoinedElements
<1> HIDE DEF new
<1>3. \A k \in 1 .. m : IsMessage(more[k]) =>
        /\ more[k].request = request /\ more[k].part = k
        /\ request = begun + 1 /\ request <= begun2 /\ request \in 1 .. MaxMessage
  <2>1. MaxMessage \in Nat
    BY DEF ReceptionAssumption
  <2>2. \A k \in 1 .. m : IsMessage(more[k]) => more[k].request = request /\ more[k].part = k
    BY DEF Added
  <2> QED BY <2>1, <2>2
<1>4. /\ Len(whole) \in Nat /\ Len(whole) <= Len(whole2)
      /\ \A k \in 1 .. Len(whole) : whole2[k] = whole[k]
      /\ ToSet(whole) \subseteq ToSet(whole2)
      /\ \A k \in Len(whole) + 1 .. Len(whole2) :
           /\ whole2[k].request = request /\ IsMessage(more[m]) /\ more[m].final = "F"
  <2>1. CASE whole2 = whole
    BY <2>1
  <2>2. CASE whole2 # whole
    <3>1. PICK msg : /\ whole2 = Append(whole, msg) /\ msg \in Message /\ msg.request = request
                     /\ IsMessage(more[m]) /\ more[m].final = "F"
      BY <2>2
    <3>2. /\ Len(whole2) = Len(whole) + 1 /\ Len(whole) \in Nat /\ DOMAIN whole = 1 .. Len(whole)
          /\ DOMAIN whole2 = 1 .. Len(whole) + 1
          /\ \A k \in 1 .. Len(whole) : whole2[k] = whole[k]
          /\ whole2[Len(whole) + 1] = msg
      BY <3>1
    <3>3. \A k \in Len(whole) + 1 .. Len(whole2) : k = Len(whole) + 1
      BY <3>2
    <3>4. ToSet(whole) \subseteq ToSet(whole2)
      BY <3>2 DEF ToSet
    <3>5. ASSUME NEW k \in Len(whole) + 1 .. Len(whole2)
          PROVE  whole2[k].request = request /\ IsMessage(more[m]) /\ more[m].final = "F"
      <4>1. whole2[k] = msg
        BY <3>2, <3>3
      <4> QED BY <3>1, <4>1
    <3> QED BY <3>2, <3>4, <3>5
  <2> QED BY <2>1, <2>2
<1> HIDE DEF n, m
<1>5. q \in Nat /\ q <= n
  BY DEF n
<1>6. ASSUME NEW p \in q + 1 .. n + m
      PROVE  \/ p \in q + 1 .. n /\ p \in 1 .. n /\ new[p] = all[p]
             \/ p - n \in 1 .. m /\ new[p] = more[p - n] /\ p > n
  <2>1. CASE p <= n
    BY <1>2, <1>5, <2>1
  <2>2. CASE p > n
    <3>1. p - n \in 1 .. m /\ p = n + (p - n)
      BY <1>2, <1>5, <2>2
    <3> QED BY <1>2, <2>2, <3>1
  <2> QED BY <1>2, <1>5, <2>1, <2>2
<1>7. ASSUME ~s.jumped /\ (lost = 0 \/ FewerThanNumbers)
      PROVE  PartsKept(s.partial, q, new, begun2) /\ InOrder(s.delivered, q, new, whole2)
  <2>1. PartsKept(s.partial, q, all, begun) /\ InOrder(s.delivered, q, all, whole)
    BY <1>7 DEF Receiver
  <2>2. ASSUME NEW p \in q + 1 .. n + m, IsMessage(new[p]), new[p].part = 1
        PROVE  s.partial[new[p].request] = NoParts
    <3>1. CASE p \in q + 1 .. n /\ new[p] = all[p]
      BY <2>1, <2>2, <3>1 DEF PartsKept, n
    <3>2. CASE p - n \in 1 .. m /\ new[p] = more[p - n]
      <4>1. new[p].request = begun + 1 /\ begun + 1 \in 1 .. MaxMessage
        BY <1>3, <2>2, <3>2
      <4> QED BY <2>1, <4>1 DEF PartsKept
    <3> QED BY <1>6, <3>1, <3>2
  <2>3. ASSUME q < n + m, IsMessage(new[q + 1])
        PROVE  s.partial[new[q + 1].request] = Upto(new[q + 1].part - 1)
    <3>1. CASE q < n
      <4>1. new[q + 1] = all[q + 1]
        BY <1>2, <1>5, <3>1
      <4> QED BY <2>1, <2>3, <3>1, <4>1 DEF PartsKept, n
    <3>2. CASE q = n
      <4>1. new[q + 1] = more[1] /\ 1 \in 1 .. m
        BY <1>1, <1>2, <3>2 DEF m
      <4>2. new[q + 1].request = begun + 1 /\ begun + 1 \in 1 .. MaxMessage /\ new[q + 1].part = 1
        BY <1>3, <2>3, <4>1
      <4>3. s.partial[new[q + 1].request] = NoParts
        BY <2>1, <4>2 DEF PartsKept
      <4> QED BY <4>2, <4>3, UptoNone
    <3> QED BY <1>2, <1>5, <3>1, <3>2
  <2>4. \A r \in 1 .. MaxMessage : r > begun2 => s.partial[r] = NoParts
    BY <2>1 DEF PartsKept
  <2>5. \A k \in 1 .. Len(s.delivered) : s.delivered[k] \in ToSet(whole2)
    BY <1>4, <2>1 DEF InOrder
  <2>6. \A i, k \in 1 .. Len(s.delivered) : i < k => s.delivered[i].request < s.delivered[k].request
    BY <2>1 DEF InOrder
  <2>7. ASSUME NEW k \in 1 .. Len(s.delivered), NEW p \in q + 1 .. n + m, IsMessage(new[p])
        PROVE  s.delivered[k].request < new[p].request
    <3>1. CASE p \in q + 1 .. n /\ new[p] = all[p]
      BY <2>1, <2>7, <3>1 DEF InOrder, n
    <3>2. CASE p - n \in 1 .. m /\ new[p] = more[p - n]
      <4>1. new[p].request = begun + 1
        BY <1>3, <2>7, <3>2
      <4>2. PICK j \in 1 .. Len(whole) : s.delivered[k] = whole[j]
        <5>1. s.delivered[k] \in ToSet(whole) /\ DOMAIN whole = 1 .. Len(whole)
          BY <2>1 DEF InOrder
        <5> QED BY <5>1 DEF ToSet
      <4>3. s.delivered[k].request <= begun /\ whole[j] \in Message
        BY <4>2 DEF Sorted
      <4>4. s.delivered[k].request \in Nat
        BY <4>2, <4>3 DEF Message
      <4> QED BY <4>1, <4>3, <4>4
    <3> QED BY <1>6, <3>1, <3>2
  <2> QED BY <1>2, <2>2, <2>3, <2>4, <2>5, <2>6, <2>7 DEF PartsKept, InOrder
<1>8. ASSUME lost = 0 PROVE Complete(s.partial, s.delivered, q, new, whole2)
  <2>1. Complete(s.partial, s.delivered, q, all, whole)
    BY <1>8 DEF Receiver
  <2>2. Len(s.delivered) \in Nat
    BY DEF ChannelState
  <2>3. Len(s.delivered) <= Len(whole2) /\ \A k \in 1 .. Len(s.delivered) : s.delivered[k] = whole2[k]
    <3>1. Len(s.delivered) <= Len(whole)
      BY <2>1 DEF Complete
    <3>2. whole2 \in Seq(Message) /\ Len(whole2) \in Nat
      BY <1>4, SMTT(40)
    <3> QED BY <1>4, <2>1, <2>2, <3>1, <3>2 DEF Complete
  <2>4. ASSUME NEW k \in Len(s.delivered) + 1 .. Len(whole2)
        PROVE  \E p \in q + 1 .. n + m :
                 IsMessage(new[p]) /\ new[p].final = "F" /\ new[p].request = whole2[k].request
    <3>1. CASE k <= Len(whole)
      <4>1. k \in Len(s.delivered) + 1 .. Len(whole) /\ whole2[k] = whole[k]
        BY <1>4, <2>2, <3>1
      <4>2. PICK p \in q + 1 .. n :
              IsMessage(all[p]) /\ all[p].final = "F" /\ all[p].request = whole[k].request
        BY <2>1, <4>1 DEF Complete, n
      <4>3. p \in 1 .. n /\ p \in q + 1 .. n + m
        BY <1>2, <1>5
      <4> QED BY <1>2, <4>1, <4>2, <4>3
    <3>2. CASE k > Len(whole)
      <4>1. k \in Len(whole) + 1 .. Len(whole2)
        BY <1>4, <2>2, <3>2
      <4>2. whole2[k].request = request /\ IsMessage(more[m]) /\ more[m].final = "F"
        BY <1>4, <4>1
      <4>3. m \in 1 .. m /\ n + m \in q + 1 .. n + m /\ new[n + m] = more[m]
        BY <1>1, <1>2, <1>5 DEF m
      <4> QED BY <1>3, <4>2, <4>3
    <3> QED BY <1>4, <2>2, <3>1, <3>2
  <2>5. ASSUME NEW r \in 1 .. MaxMessage, s.partial[r] # NoParts
        PROVE  q >= 1 /\ IsMessage(new[q]) /\ new[q].final = "C" /\ new[q].request = r
    <3>1. q >= 1 /\ IsMessage(all[q]) /\ all[q].final = "C" /\ all[q].request = r
      BY <2>1, <2>5 DEF Complete
    <3> QED BY <1>2, <1>5, <3>1
  <2> QED BY <1>2, <2>3, <2>4, <2>5 DEF Complete
<1> QED BY <1>7, <1>8 DEF Receiver, new

(***************************************************************************)
(* One chunk.                                                              *)
(***************************************************************************)

LEMMA ChunkOf ==
  ASSUME ReceptionAssumption, NEW begun \in 0 .. MaxMessage, NEW whole,
         NEW all, Sequenced(all, begun, whole), NEW p \in 1 .. Len(all)
  PROVE  /\ all \in Seq(Chunk) /\ Len(all) \in Nat /\ all[p] \in Chunk
         /\ all[p].number = NumberOf(p) /\ all[p].part \in Nat
         /\ all[p].number \in 0 .. Width - 1 /\ all[p].final \in {"C", "F", "A"}
         /\ ~IsMessage(all[p]) => all[p].final = "F" /\ all[p].type = "OPN"
         /\ IsMessage(all[p]) => /\ all[p].request \in 1 .. begun /\ all[p].part >= 1
                                 /\ all[p].request \in 1 .. MaxMessage /\ all[p].type # "OPN"
<1>1. all \in Seq(Chunk) /\ Len(all) \in Nat /\ all[p] \in Chunk
  BY DEF Sequenced
<1>2. /\ all[p].part \in Nat /\ all[p].number \in 0 .. Width - 1
      /\ all[p].type \in {"MSG", "OPN"} /\ all[p].final \in {"C", "F", "A"}
  BY <1>1 DEF Chunk
<1>3. 1 .. begun \subseteq 1 .. MaxMessage
  <2>1. MaxMessage \in Nat
    BY DEF ReceptionAssumption
  <2> QED BY <2>1
<1>4. /\ all[p].number = NumberOf(p)
      /\ ~IsMessage(all[p]) => all[p].final = "F"
      /\ IsMessage(all[p]) => all[p].request \in 1 .. begun /\ all[p].part >= 1
  BY DEF Sequenced
<1>5. /\ ~IsMessage(all[p]) => all[p].type = "OPN"
      /\ IsMessage(all[p]) => all[p].type # "OPN"
  BY <1>2 DEF IsMessage
<1> QED BY <1>1, <1>2, <1>3, <1>4, <1>5

\* Where no message goes on, one begins or an OPN comes.
LEMMA FirstPart ==
  ASSUME NEW all, Ordered(all), NEW p \in 1 .. Len(all), all[p].final # "C",
         p < Len(all), IsMessage(all[p + 1])
  PROVE  all[p + 1].part = 1
<1>1. p + 1 \in 1 .. Len(all) /\ (p + 1) - 1 = p
  OBVIOUS
<1> QED BY <1>1 DEF Ordered

\* An OPN takes the place of all that was lost before it.
LEMMA RenewedPasses ==
  ASSUME ReceptionAssumption, NEW begun \in 0 .. MaxMessage, NEW whole,
         NEW all, Sequenced(all, begun, whole), NEW q \in Nat, NEW p \in q + 1 .. Len(all),
         ~IsMessage(all[p]), NEW partialOf, NEW handed
  PROVE  /\ PartsKept(partialOf, q, all, begun) => PartsKept(partialOf, p, all, begun)
         /\ InOrder(handed, q, all, whole) => InOrder(handed, p, all, whole)
         /\ p = q + 1 /\ Complete(partialOf, handed, q, all, whole) =>
              Complete(partialOf, handed, p, all, whole)
<1>1. p \in 1 .. Len(all) /\ all[p].final = "F" /\ Len(all) \in Nat
  <2>1. p \in 1 .. Len(all)
    OBVIOUS
  <2> QED BY <2>1, ChunkOf
<1>2. \A e \in p + 1 .. Len(all) : e \in q + 1 .. Len(all)
  OBVIOUS
<1>3. ASSUME PartsKept(partialOf, q, all, begun) PROVE PartsKept(partialOf, p, all, begun)
  <2>1. ASSUME p < Len(all), IsMessage(all[p + 1])
        PROVE  partialOf[all[p + 1].request] = Upto(all[p + 1].part - 1)
    <3>1. all[p + 1].part = 1
      BY <1>1, <2>1, FirstPart DEF Sequenced
    <3>2. p + 1 \in q + 1 .. Len(all)
      BY <2>1, <1>1
    <3>3. partialOf[all[p + 1].request] = NoParts
      BY <1>3, <2>1, <3>1, <3>2 DEF PartsKept
    <3> QED BY <3>1, <3>3, UptoNone
  <2> QED BY <1>2, <1>3, <2>1 DEF PartsKept
<1>4. ASSUME InOrder(handed, q, all, whole) PROVE InOrder(handed, p, all, whole)
  BY <1>2, <1>4 DEF InOrder
<1>5. ASSUME p = q + 1, Complete(partialOf, handed, q, all, whole)
      PROVE  Complete(partialOf, handed, p, all, whole)
  <2>1. ASSUME NEW k \in Len(handed) + 1 .. Len(whole)
        PROVE  \E e \in p + 1 .. Len(all) :
                 IsMessage(all[e]) /\ all[e].final = "F" /\ all[e].request = whole[k].request
    <3>1. PICK e \in q + 1 .. Len(all) :
            IsMessage(all[e]) /\ all[e].final = "F" /\ all[e].request = whole[k].request
      BY <1>5 DEF Complete
    <3>2. e # p
      BY <3>1
    <3>3. e \in p + 1 .. Len(all)
      BY <1>5, <3>2
    <3> QED BY <3>1, <3>3
  <2>2. ASSUME NEW r \in 1 .. MaxMessage, partialOf[r] # NoParts PROVE FALSE
    <3>1. q >= 1 /\ IsMessage(all[q]) /\ all[q].final = "C"
      BY <1>5, <2>2 DEF Complete
    <3>2. q \in 1 .. Len(all)
      BY <1>1, <1>5, <3>1
    <3>3. IsMessage(all[q + 1])
      BY <3>1, <3>2 DEF Sequenced, Ordered
    <3> QED BY <1>5, <3>3
  <2> QED BY <1>5, <2>1, <2>2 DEF Complete
<1> QED BY <1>3, <1>4, <1>5

\* The channel after a chunk of a message.
StoredIn(s, c) == Stored(s.partial, c)
HandedOn(s, c) ==
  IF c.final # "F" THEN s.delivered
  ELSE Append(s.delivered, [request |-> c.request, parts |-> Append(s.partial[c.request], c.part)])

LEMMA StoredParts ==
  ASSUME NEW s \in ChannelState, NEW c \in Chunk, c.request \in 1 .. MaxMessage
  PROVE  /\ StoredIn(s, c) \in [1 .. MaxMessage -> Seq(Nat)]
         /\ StoredIn(s, c)[c.request] =
              IF c.final = "C" THEN Append(s.partial[c.request], c.part) ELSE NoParts
         /\ \A r \in 1 .. MaxMessage : r # c.request => StoredIn(s, c)[r] = s.partial[r]
         /\ HandedOn(s, c) \in Seq(Message)
<1>1. /\ s.partial \in [1 .. MaxMessage -> Seq(Nat)] /\ s.delivered \in Seq(Message)
      /\ c.part \in Nat
  BY DEF ChannelState, Chunk
<1>2. Append(s.partial[c.request], c.part) \in Seq(Nat) /\ NoParts \in Seq(Nat)
  <2>1. s.partial[c.request] \in Seq(Nat)
    BY <1>1
  <2>2. Append(s.partial[c.request], c.part) \in Seq(Nat)
    BY <1>1, <2>1
  <2> QED BY <2>2 DEF NoParts
<1>3. [request |-> c.request, parts |-> Append(s.partial[c.request], c.part)] \in Message
  BY <1>2 DEF Message
<1>4. HandedOn(s, c) \in Seq(Message)
  BY <1>1, <1>3 DEF HandedOn
<1> QED BY <1>1, <1>2, <1>4 DEF StoredIn, Stored

\* The chunk that is next keeps the parts in order.
LEMMA NextPasses ==
  ASSUME ReceptionAssumption, NEW begun \in 0 .. MaxMessage, NEW whole \in Seq(Message),
         NEW all, Sequenced(all, begun, whole), NEW q \in Nat, q < Len(all),
         NEW c, c = all[q + 1], IsMessage(c), NEW s \in ChannelState,
         PartsKept(s.partial, q, all, begun), InOrder(s.delivered, q, all, whole)
  PROVE  /\ PartsKept(StoredIn(s, c), q + 1, all, begun)
         /\ InOrder(HandedOn(s, c), q + 1, all, whole)
         /\ c.final = "F" => Append(s.partial[c.request], c.part) = Upto(c.part)
<1> DEFINE p == q + 1
           parts == StoredIn(s, c)
           handed == HandedOn(s, c)
<1>1. p \in 1 .. Len(all) /\ p \in q + 1 .. Len(all) /\ p \in Nat
  <2>1. Len(all) \in Nat
    BY DEF Sequenced
  <2> QED BY <2>1
<1>2. /\ Len(all) \in Nat /\ c \in Chunk /\ c.part \in Nat /\ c.part >= 1
      /\ c.request \in 1 .. begun /\ c.request \in 1 .. MaxMessage
      /\ c.final \in {"C", "F", "A"}
  BY <1>1, ChunkOf
<1>3. /\ parts[c.request] = IF c.final = "C" THEN Append(s.partial[c.request], c.part) ELSE NoParts
      /\ \A r \in 1 .. MaxMessage : r # c.request => parts[r] = s.partial[r]
  BY <1>2, StoredParts
<1>4. s.partial[c.request] = Upto(c.part - 1)
  BY DEF PartsKept
<1>5. Append(s.partial[c.request], c.part) = Upto(c.part)
  <2>1. c.part - 1 \in Nat /\ (c.part - 1) + 1 = c.part
    BY <1>2
  <2> QED BY <1>4, <2>1, UptoSeq
<1>6. \A e \in p + 1 .. Len(all) :
        /\ e \in q + 1 .. Len(all) /\ e \in 1 .. Len(all) /\ p < e
        /\ IsMessage(all[e]) => Before(c, all[e])
  <2>1. TAKE e \in p + 1 .. Len(all)
  <2>2. e \in q + 1 .. Len(all) /\ e \in 1 .. Len(all) /\ p < e
    BY <1>1, <1>2
  <2> QED BY <1>1, <2>2 DEF Sequenced, Ordered
<1> HIDE DEF parts, handed
<1>7. ASSUME NEW e \in p + 1 .. Len(all), IsMessage(all[e]), all[e].part = 1
      PROVE  parts[all[e].request] = NoParts
  <2>1. c.request < all[e].request
    BY <1>6, <1>7 DEF Before
  <2>2. s.partial[all[e].request] = NoParts
    BY <1>6, <1>7 DEF PartsKept
  <2>3. all[e].request \in 1 .. MaxMessage
    BY <1>6, <1>7, ChunkOf
  <2> QED BY <1>2, <1>3, <2>1, <2>2, <2>3
<1>8. ASSUME p < Len(all), IsMessage(all[p + 1])
      PROVE  parts[all[p + 1].request] = Upto(all[p + 1].part - 1)
  <2>1. CASE c.final = "C"
    <3>1. all[p + 1].request = c.request /\ all[p + 1].part = c.part + 1
      BY <1>1, <2>1 DEF Sequenced, Ordered
    <3>2. all[p + 1].part - 1 = c.part
      BY <1>2, <3>1
    <3> QED BY <1>3, <1>5, <2>1, <3>1, <3>2
  <2>2. CASE c.final # "C"
    <3>1. all[p + 1].part = 1
      BY <1>1, <1>8, <2>2, FirstPart DEF Sequenced
    <3>2. p + 1 \in p + 1 .. Len(all)
      BY <1>1, <1>2, <1>8
    <3>3. parts[all[p + 1].request] = NoParts
      BY <1>7, <1>8, <3>1, <3>2
    <3> QED BY <3>1, <3>3, UptoNone
  <2> QED BY <2>1, <2>2
<1>9. \A r \in 1 .. MaxMessage : r > begun => parts[r] = NoParts
  <2>1. TAKE r \in 1 .. MaxMessage
  <2>2. r > begun => r # c.request
    BY <1>2
  <2> QED BY <1>3, <2>2 DEF PartsKept
<1>10. PartsKept(parts, p, all, begun)
  BY <1>7, <1>8, <1>9 DEF PartsKept
<1>11. InOrder(handed, p, all, whole)
  <2>1. CASE c.final # "F"
    <3>1. handed = s.delivered
      BY <2>1 DEF handed, HandedOn
    <3> QED BY <1>6, <3>1 DEF InOrder
  <2>2. CASE c.final = "F"
    <3> DEFINE m == [request |-> c.request, parts |-> Upto(c.part)]
               n == Len(s.delivered)
    <3>1. handed = Append(s.delivered, m)
      BY <1>5, <2>2 DEF handed, HandedOn
    <3>2. s.delivered \in Seq(Message) /\ n \in Nat
      BY DEF ChannelState
    <3>3. m \in ToSet(whole) /\ m.request = c.request
      BY <1>1, <2>2 DEF Sequenced
    <3>4. /\ Len(handed) = n + 1 /\ handed[n + 1] = m
          /\ \A k \in 1 .. n : handed[k] = s.delivered[k]
      BY <3>1, <3>2
    <3> HIDE DEF m, n
    <3>5. ASSUME NEW k \in 1 .. Len(handed) PROVE (k \in 1 .. n /\ handed[k] = s.delivered[k]) \/ (k = n + 1 /\ handed[k] = m)
      BY <3>2, <3>4
    <3>6. \A k \in 1 .. Len(handed) : handed[k] \in ToSet(whole)
      BY <3>3, <3>5 DEF InOrder, n
    <3>7. ASSUME NEW i \in 1 .. Len(handed), NEW k \in 1 .. Len(handed), i < k
          PROVE  handed[i].request < handed[k].request
      <4>1. i \in 1 .. n /\ handed[i] = s.delivered[i]
        BY <3>2, <3>4, <3>5, <3>7
      <4>2. CASE k \in 1 .. n /\ handed[k] = s.delivered[k]
        BY <3>7, <4>1, <4>2 DEF InOrder, n
      <4>3. CASE k = n + 1 /\ handed[k] = m
        BY <1>1, <3>3, <4>1, <4>3 DEF InOrder, n
      <4> QED BY <3>5, <4>2, <4>3
    <3>8. ASSUME NEW k \in 1 .. Len(handed), NEW e \in p + 1 .. Len(all), IsMessage(all[e])
          PROVE  handed[k].request < all[e].request
      <4>1. CASE k \in 1 .. n /\ handed[k] = s.delivered[k]
        BY <1>6, <3>8, <4>1 DEF InOrder, n
      <4>2. CASE k = n + 1 /\ handed[k] = m
        BY <1>6, <2>2, <3>3, <3>8, <4>2 DEF Before
      <4> QED BY <3>5, <4>1, <4>2
    <3> QED BY <3>6, <3>7, <3>8 DEF InOrder
  <2> QED BY <2>1, <2>2
<1> QED BY <1>5, <1>10, <1>11 DEF parts, handed

\* Where nothing is lost, the next chunk leaves nothing out.
LEMMA NextCompletes ==
  ASSUME ReceptionAssumption, NEW begun \in 0 .. MaxMessage, NEW whole \in Seq(Message),
         Sorted(whole, begun),
         NEW all, Sequenced(all, begun, whole), NEW q \in Nat, q < Len(all),
         NEW c, c = all[q + 1], IsMessage(c), NEW s \in ChannelState,
         PartsKept(s.partial, q, all, begun), InOrder(s.delivered, q, all, whole),
         Complete(s.partial, s.delivered, q, all, whole)
  PROVE  Complete(StoredIn(s, c), HandedOn(s, c), q + 1, all, whole)
<1> DEFINE p == q + 1
           parts == StoredIn(s, c)
           handed == HandedOn(s, c)
           n == Len(s.delivered)
<1>1. p \in 1 .. Len(all) /\ p \in q + 1 .. Len(all) /\ p \in Nat /\ Len(all) \in Nat
  <2>1. Len(all) \in Nat
    BY DEF Sequenced
  <2> QED BY <2>1
<1>2. /\ c \in Chunk /\ c.request \in 1 .. begun /\ c.request \in 1 .. MaxMessage
      /\ c.final \in {"C", "F", "A"}
  BY <1>1, ChunkOf
<1>3. /\ parts[c.request] = IF c.final = "C" THEN Append(s.partial[c.request], c.part) ELSE NoParts
      /\ \A r \in 1 .. MaxMessage : r # c.request => parts[r] = s.partial[r]
  BY <1>2, StoredParts
<1>4. c.final = "F" => Append(s.partial[c.request], c.part) = Upto(c.part)
  BY NextPasses, SMTT(40)
<1>5. s.delivered \in Seq(Message) /\ n \in Nat /\ Len(whole) \in Nat
  BY DEF ChannelState
<1>6. /\ n <= Len(whole)
      /\ \A k \in 1 .. n : s.delivered[k] = whole[k]
      /\ \A k \in n + 1 .. Len(whole) : \E e \in q + 1 .. Len(all) :
           IsMessage(all[e]) /\ all[e].final = "F" /\ all[e].request = whole[k].request
      /\ \A r \in 1 .. MaxMessage : s.partial[r] # NoParts =>
           q >= 1 /\ IsMessage(all[q]) /\ all[q].final = "C" /\ all[q].request = r
  BY DEF Complete
<1> HIDE DEF parts, handed, n
<1>7. ASSUME NEW r \in 1 .. MaxMessage, parts[r] # NoParts
      PROVE  p >= 1 /\ IsMessage(all[p]) /\ all[p].final = "C" /\ all[p].request = r
  <2>1. CASE r = c.request
    BY <1>1, <1>3, <1>7, <2>1
  <2>2. CASE r # c.request
    <3>1. q >= 1 /\ IsMessage(all[q]) /\ all[q].final = "C" /\ all[q].request = r
      BY <1>3, <1>6, <1>7, <2>2
    <3>2. q \in 1 .. Len(all)
      BY <1>1, <3>1
    <3>3. c.request = r
      BY <3>1, <3>2 DEF Sequenced, Ordered
    <3> QED BY <2>2, <3>3
  <2> QED BY <2>1, <2>2
<1>8. CASE c.final # "F"
  <2>1. handed = s.delivered
    BY <1>8 DEF handed, HandedOn
  <2>2. ASSUME NEW k \in n + 1 .. Len(whole)
        PROVE  \E e \in p + 1 .. Len(all) :
                 IsMessage(all[e]) /\ all[e].final = "F" /\ all[e].request = whole[k].request
    <3>1. PICK e \in q + 1 .. Len(all) :
            IsMessage(all[e]) /\ all[e].final = "F" /\ all[e].request = whole[k].request
      BY <1>6
    <3>2. e # p
      BY <1>8, <3>1
    <3>3. e \in p + 1 .. Len(all)
      BY <1>1, <3>2
    <3> QED BY <3>1, <3>3
  <2> QED BY <1>6, <1>7, <2>1, <2>2 DEF Complete, n, parts, handed
<1>9. CASE c.final = "F"
  <2> DEFINE m == [request |-> c.request, parts |-> Upto(c.part)]
  <2>1. handed = Append(s.delivered, m)
    BY <1>4, <1>9 DEF handed, HandedOn
  <2>2. m \in ToSet(whole) /\ m.request = c.request
    BY <1>1, <1>9 DEF Sequenced
  <2> HIDE DEF m
  <2>3. /\ Len(handed) = n + 1 /\ handed[n + 1] = m
        /\ \A k \in 1 .. n : handed[k] = s.delivered[k]
    BY <1>5, <2>1 DEF n
  <2>4. PICK j \in 1 .. Len(whole) : whole[j] = m
    <3>1. DOMAIN whole = 1 .. Len(whole)
      OBVIOUS
    <3> QED BY <2>2, <3>1 DEF ToSet
  <2>5. j > n
    <3>1. SUFFICES ASSUME j \in 1 .. n PROVE FALSE
      BY <1>5
    <3>2. s.delivered[j] = m
      BY <1>6, <2>4, <3>1
    <3>3. s.delivered[j].request < c.request
      BY <1>1, <3>1 DEF InOrder, n
    <3> QED BY <1>2, <2>2, <3>2, <3>3
  <2>6. \A i, k \in 1 .. Len(whole) : i < k => whole[i].request < whole[k].request
    BY DEF Sorted
  <2>7. ASSUME NEW k \in n + 1 .. Len(whole), k # j
        PROVE  \E e \in p + 1 .. Len(all) :
                 IsMessage(all[e]) /\ all[e].final = "F" /\ all[e].request = whole[k].request
    <3>1. PICK e \in q + 1 .. Len(all) :
            IsMessage(all[e]) /\ all[e].final = "F" /\ all[e].request = whole[k].request
      BY <1>6
    <3>2. whole[k].request # whole[j].request
      <4>1. k \in 1 .. Len(whole) /\ (k < j \/ j < k)
        BY <1>5, <2>7
      <4>2. whole[k] \in Message /\ whole[j] \in Message
        BY <4>1
      <4>3. whole[k].request \in Nat /\ whole[j].request \in Nat
        BY <4>2, SMTT(40) DEF Message
      <4> QED BY <2>6, <4>1, <4>3
    <3>3. e # p
      BY <2>2, <2>4, <3>1, <3>2
    <3>4. e \in p + 1 .. Len(all)
      BY <1>1, <3>3
    <3> QED BY <3>1, <3>4
  <2>8. j = n + 1
    <3>1. SUFFICES ASSUME j # n + 1 PROVE FALSE
      OBVIOUS
    <3>2. n + 1 \in n + 1 .. Len(whole) /\ n + 1 < j /\ n + 1 \in 1 .. Len(whole)
      BY <1>5, <2>5, <3>1
    <3>3. PICK e \in p + 1 .. Len(all) :
            IsMessage(all[e]) /\ all[e].request = whole[n + 1].request
      BY <2>7, <3>1, <3>2
    <3>4. whole[n + 1].request < c.request
      BY <2>2, <2>4, <2>6, <3>2
    <3>5. e \in 1 .. Len(all) /\ p < e
      BY <1>1
    <3>6. c.request < all[e].request
      BY <1>1, <1>9, <3>3, <3>5 DEF Sequenced, Ordered, Before
    <3>7. all[e].request \in Nat
      BY <3>3, <3>5, ChunkOf
    <3> QED BY <1>2, <3>3, <3>4, <3>6, <3>7
  <2>9. n + 1 <= Len(whole) /\ \A k \in 1 .. n + 1 : handed[k] = whole[k]
    <3>1. n + 1 <= Len(whole)
      BY <2>8
    <3>2. ASSUME NEW k \in 1 .. n + 1 PROVE handed[k] = whole[k]
      <4>1. CASE k \in 1 .. n
        BY <1>6, <2>3, <4>1
      <4>2. CASE k = n + 1
        BY <2>3, <2>4, <2>8, <4>2
      <4> QED BY <1>5, <4>1, <4>2
    <3> QED BY <3>1, <3>2
  <2>10. \A k \in (n + 1) + 1 .. Len(whole) : k \in n + 1 .. Len(whole) /\ k # j
    BY <1>5, <2>8
  <2> QED BY <1>7, <2>3, <2>7, <2>9, <2>10 DEF Complete, parts, handed
<1> QED BY <1>8, <1>9

\* A bound on the parts of a message bounds the chunks by the numbers.
LEMMA FewNumbers ==
  ASSUME ReceptionAssumption, NEW all, Len(all) \in Nat, NEW begun \in 0 .. MaxMessage,
         NEW renewed \in 0 .. MaxRenew, Few(all, begun, renewed), FewerThanNumbers
  PROVE  Len(all) < Width
<1>1. PICK most \in PartCounts : /\ \A m \in PartCounts : m <= most
                                 /\ MaxMessage * most + MaxRenew < Width
  BY DEF FewerThanNumbers
<1>2. most \in Nat /\ MaxMessage \in Nat /\ MaxRenew \in Nat /\ Width \in Nat
  BY DEF ReceptionAssumption
<1>3. Len(all) <= most * begun + renewed
  BY <1>1, <1>2 DEF Few
<1>4. most * begun <= MaxMessage * most
  <2>1. PICK d \in Nat : MaxMessage = begun + d
    <3>1. MaxMessage - begun \in Nat /\ MaxMessage = begun + (MaxMessage - begun)
      BY <1>2
    <3> QED BY <3>1
  <2>2. MaxMessage * most = most * begun + d * most /\ d * most \in Nat /\ most * begun \in Nat
    BY <1>2, <2>1
  <2> QED BY <2>2
<1>5. most * begun \in Nat /\ MaxMessage * most \in Nat
  BY <1>2
<1> QED BY <1>1, <1>2, <1>3, <1>4, <1>5

\* A chunk that comes after those processed, and at once after them if nothing is lost.
LEMMA ChunkProcessed ==
  ASSUME ReceptionAssumption, NEW begun \in 0 .. MaxMessage, NEW whole \in Seq(Message),
         Sorted(whole, begun), NEW all, Sequenced(all, begun, whole),
         FewerThanNumbers => Len(all) < Width,
         NEW q \in Nat, NEW p \in q + 1 .. Len(all), NEW s \in ChannelState, NEW lost,
         Receiver(s, q, all, begun, whole, lost), lost = 0 => p = q + 1 /\ ~s.stopped,
         NEW t, t = ProcessChunk(s, all[p])
  PROVE  /\ t \in ChannelState
         /\ \E r \in {q, p} : /\ Receiver(t, r, all, begun, whole, lost)
                              /\ lost = 0 => r = p /\ ~t.stopped
<1> DEFINE c == all[p]
<1>1. p \in 1 .. Len(all) /\ p \in Nat /\ Len(all) \in Nat
  <2>1. Len(all) \in Nat
    BY DEF Sequenced
  <2> QED BY <2>1
<1>2. /\ c \in Chunk /\ c.number = NumberOf(p) /\ c.number \in 0 .. Width - 1
      /\ ~IsMessage(c) => c.type = "OPN"
      /\ IsMessage(c) => c.type # "OPN" /\ c.request \in 1 .. MaxMessage
  BY <1>1, ChunkOf
<1>3. /\ s.received = NumberOf(q) /\ s.received \in 0 .. Width - 1
      /\ s.partial \in [1 .. MaxMessage -> Seq(Nat)] /\ s.delivered \in Seq(Message)
      /\ s.jumped \in BOOLEAN /\ s.stopped \in BOOLEAN
      /\ s = [received |-> s.received, partial |-> s.partial, delivered |-> s.delivered,
              jumped |-> s.jumped, stopped |-> s.stopped]
  BY DEF Receiver, ChannelState
<1> HIDE DEF c
<1>4. CASE s.stopped
  <2>1. t = s
    BY <1>4 DEF ProcessChunk
  <2> QED BY <1>4, <2>1
<1>5. CASE ~s.stopped /\ ~IsMessage(c)
  <2>1. t = [s EXCEPT !.received = c.number]
    BY <1>2, <1>5 DEF ProcessChunk, c
  <2>2. /\ t \in ChannelState /\ t.received = NumberOf(p) /\ t.partial = s.partial
        /\ t.delivered = s.delivered /\ t.jumped = s.jumped /\ t.stopped = s.stopped
    BY <1>2, <1>3, <2>1 DEF ChannelState
  <2>3. /\ PartsKept(s.partial, q, all, begun) => PartsKept(s.partial, p, all, begun)
        /\ InOrder(s.delivered, q, all, whole) => InOrder(s.delivered, p, all, whole)
        /\ p = q + 1 /\ Complete(s.partial, s.delivered, q, all, whole) =>
             Complete(s.partial, s.delivered, p, all, whole)
    BY <1>5, RenewedPasses DEF c
  <2>4. Receiver(t, p, all, begun, whole, lost)
    BY <2>2, <2>3 DEF Receiver
  <2> QED BY <1>5, <2>2, <2>4
<1>6. CASE /\ ~s.stopped /\ IsMessage(c)
           /\ ~IsNext(c.number, s.received) /\ ~RollsOver(c.number, s.received)
  <2>1. t = [s EXCEPT !.stopped = TRUE]
    BY <1>2, <1>6 DEF ProcessChunk, c
  <2>2. /\ t \in ChannelState /\ t.received = s.received /\ t.partial = s.partial
        /\ t.delivered = s.delivered /\ t.jumped = s.jumped
    BY <1>3, <2>1 DEF ChannelState
  <2>3. lost # 0
    <3>1. SUFFICES ASSUME p = q + 1 PROVE FALSE
      OBVIOUS
    <3>2. (NumberOf(q) + 1) % Width = NumberOf(q + 1)
      BY NumbersOf
    <3> QED BY <1>2, <1>3, <1>6, <3>1, <3>2 DEF IsNext
  <2>4. Receiver(t, q, all, begun, whole, lost)
    BY <2>2 DEF Receiver
  <2> QED BY <2>2, <2>3, <2>4
<1>7. CASE /\ ~s.stopped /\ IsMessage(c)
           /\ (IsNext(c.number, s.received) \/ RollsOver(c.number, s.received))
  <2>1. t = [s EXCEPT !.received = c.number,
                      !.jumped = s.jumped \/ ~IsNext(c.number, s.received),
                      !.partial = StoredIn(s, c), !.delivered = HandedOn(s, c)]
    BY <1>2, <1>7 DEF ProcessChunk, StoredIn, HandedOn, c
  <2>2. /\ StoredIn(s, c) \in [1 .. MaxMessage -> Seq(Nat)] /\ HandedOn(s, c) \in Seq(Message)
    BY <1>2, <1>7, StoredParts
  <2>3. /\ t \in ChannelState /\ t.received = NumberOf(p) /\ t.partial = StoredIn(s, c)
        /\ t.delivered = HandedOn(s, c) /\ ~t.stopped
        /\ t.jumped <=> s.jumped \/ ~IsNext(c.number, s.received)
    <3> DEFINE j == s.jumped \/ ~IsNext(c.number, s.received)
               parts == StoredIn(s, c)
               handed == HandedOn(s, c)
    <3>1. j \in BOOLEAN
      BY <1>3
    <3> HIDE DEF j, parts, handed
    <3>2. t = [s EXCEPT !.received = c.number, !.jumped = j, !.partial = parts, !.delivered = handed]
      BY <2>1 DEF j, parts, handed
    <3>3. t = [received |-> c.number, partial |-> parts, delivered |-> handed, jumped |-> j,
               stopped |-> s.stopped]
      BY <1>3, <3>2
    <3>4. t \in ChannelState
      BY <1>2, <1>3, <2>2, <3>1, <3>3 DEF ChannelState, parts, handed
    <3>5. /\ t.received = NumberOf(p) /\ t.partial = parts /\ t.delivered = handed /\ ~t.stopped
          /\ t.jumped = j
      BY <1>2, <1>7, <3>3
    <3>6. t.jumped <=> s.jumped \/ ~IsNext(c.number, s.received)
      BY <3>5 DEF j
    <3> QED BY <3>4, <3>5, <3>6 DEF parts, handed
  <2>4. ASSUME p = q + 1 PROVE ~t.jumped <=> ~s.jumped
    <3>1. (NumberOf(q) + 1) % Width = NumberOf(q + 1)
      BY NumbersOf
    <3>2. IsNext(c.number, s.received)
      BY <1>2, <1>3, <2>4, <3>1 DEF IsNext
    <3> QED BY <2>3, <3>2
  <2>5. ASSUME ~t.jumped, lost = 0 \/ FewerThanNumbers PROVE p = q + 1 /\ ~s.jumped
    <3>1. CASE lost = 0
      BY <2>3, <2>5, <3>1
    <3>2. CASE FewerThanNumbers
      <4>1. ~s.jumped /\ IsNext(c.number, s.received)
        BY <2>3, <2>5
      <4>2. NumberOf(p) = NumberOf(q + 1)
        <5>1. (NumberOf(q) + 1) % Width = NumberOf(q + 1)
          BY NumbersOf
        <5> QED BY <1>2, <1>3, <4>1, <5>1 DEF IsNext
      <4>3. q + 1 <= p /\ p < (q + 1) + Width /\ q + 1 \in Nat
        <5>1. Width \in Nat
          BY DEF ReceptionAssumption
        <5> QED BY <1>1, <3>2, <5>1
      <4>4. q + 1 = p
        BY <1>1, <4>2, <4>3, NumbersOf
      <4> QED BY <4>1, <4>4
    <3> QED BY <2>5, <3>1, <3>2
  <2>6. ASSUME p = q + 1, PartsKept(s.partial, q, all, begun), InOrder(s.delivered, q, all, whole)
        PROVE  /\ PartsKept(t.partial, p, all, begun) /\ InOrder(t.delivered, p, all, whole)
               /\ Complete(s.partial, s.delivered, q, all, whole) =>
                    Complete(t.partial, t.delivered, p, all, whole)
    <3>1. q < Len(all) /\ c = all[q + 1]
      BY <1>1, <2>6 DEF c
    <3>2. /\ PartsKept(StoredIn(s, c), q + 1, all, begun)
          /\ InOrder(HandedOn(s, c), q + 1, all, whole)
      BY <1>7, <2>6, <3>1, NextPasses
    <3>3. Complete(s.partial, s.delivered, q, all, whole) =>
            Complete(StoredIn(s, c), HandedOn(s, c), q + 1, all, whole)
      BY <1>7, <2>6, <3>1, NextCompletes
    <3> QED BY <2>3, <2>6, <3>2, <3>3
  <2>7. Receiver(t, p, all, begun, whole, lost)
    <3>1. ASSUME lost = 0 PROVE ~t.jumped /\ Complete(t.partial, t.delivered, p, all, whole)
      <4>1. p = q + 1 /\ ~s.jumped
        BY <3>1 DEF Receiver
      <4>2. /\ PartsKept(s.partial, q, all, begun) /\ InOrder(s.delivered, q, all, whole)
            /\ Complete(s.partial, s.delivered, q, all, whole)
        BY <3>1, <4>1 DEF Receiver
      <4> QED BY <2>4, <2>6, <4>1, <4>2
    <3>2. ASSUME ~t.jumped /\ (lost = 0 \/ FewerThanNumbers)
          PROVE  PartsKept(t.partial, p, all, begun) /\ InOrder(t.delivered, p, all, whole)
      <4>1. p = q + 1 /\ ~s.jumped
        BY <2>5, <3>2
      <4>2. PartsKept(s.partial, q, all, begun) /\ InOrder(s.delivered, q, all, whole)
        BY <3>2, <4>1 DEF Receiver
      <4> QED BY <2>6, <4>1, <4>2
    <3> QED BY <2>3, <3>1, <3>2 DEF Receiver
  <2> QED BY <2>3, <2>7
<1> QED BY <1>4, <1>5, <1>6, <1>7

\* A unit that was looked at.
LEMMA TransitPasses ==
  ASSUME ReceptionAssumption, NEW list \in Seq(Unit), NEW k \in 1 .. Len(list), NEW nr, NEW q \in Nat,
         NEW n \in Nat, NEW all, InTransit(list, nr, q, n, all, k - 1)
  PROVE  /\ ~Begins(list[k]) =>
              /\ InTransit(list, nr, q, n, all, k)
              /\ Covered(list, nr, q, n, k - 1) => Covered(list, nr, q, n, k)
         /\ Begins(list[k]) =>
              /\ nr[k] \in q + 1 .. n /\ list[k].chunk = all[nr[k]]
              /\ \A r \in {q, nr[k]} : InTransit(list, nr, r, n, all, k)
              /\ Covered(list, nr, q, n, k - 1) =>
                   nr[k] = q + 1 /\ Covered(list, nr, nr[k], n, k)
<1>1. /\ k \in (k - 1) + 1 .. Len(list) /\ Len(list) \in Nat /\ k \in Nat
      /\ \A i \in k + 1 .. Len(list) : i \in (k - 1) + 1 .. Len(list) /\ k < i
      /\ \A i \in (k - 1) + 1 .. Len(list) : i = k \/ i \in k + 1 .. Len(list)
  OBVIOUS
<1>2. InTransit(list, nr, q, n, all, k)
  BY <1>1 DEF InTransit
<1>3. ASSUME ~Begins(list[k]), Covered(list, nr, q, n, k - 1)
      PROVE  Covered(list, nr, q, n, k)
  <2>1. SUFFICES ASSUME NEW p \in q + 1 .. n
                 PROVE  \E i \in k + 1 .. Len(list) : Begins(list[i]) /\ nr[i] = p
    BY DEF Covered
  <2>2. PICK i \in (k - 1) + 1 .. Len(list) : Begins(list[i]) /\ nr[i] = p
    BY <1>3 DEF Covered
  <2> QED BY <1>1, <1>3, <2>2
<1>4. ASSUME Begins(list[k])
      PROVE  /\ nr[k] \in q + 1 .. n /\ list[k].chunk = all[nr[k]]
             /\ \A i \in k + 1 .. Len(list) : Begins(list[i]) => nr[k] < nr[i] /\ nr[i] \in q + 1 .. n
  BY <1>1, <1>4 DEF InTransit
<1>5. ASSUME Begins(list[k]) PROVE InTransit(list, nr, nr[k], n, all, k)
  <2>1. \A i \in k + 1 .. Len(list) :
          Begins(list[i]) => nr[i] \in nr[k] + 1 .. n /\ list[i].chunk = all[nr[i]]
    <3>1. TAKE i \in k + 1 .. Len(list)
    <3>2. SUFFICES ASSUME Begins(list[i]) PROVE nr[i] \in nr[k] + 1 .. n /\ list[i].chunk = all[nr[i]]
      OBVIOUS
    <3>3. nr[k] \in q + 1 .. n /\ nr[k] < nr[i] /\ nr[i] \in q + 1 .. n
      BY <1>4, <1>5, <3>2
    <3>4. nr[i] \in nr[k] + 1 .. n
      BY <3>3
    <3> QED BY <1>2, <3>2, <3>4 DEF InTransit
  <2> QED BY <1>2, <2>1 DEF InTransit
<1>6. ASSUME Begins(list[k]), Covered(list, nr, q, n, k - 1)
      PROVE  nr[k] = q + 1 /\ Covered(list, nr, nr[k], n, k)
  <2>1. q + 1 \in q + 1 .. n /\ nr[k] \in Nat
    BY <1>4, <1>6
  <2>2. PICK i \in (k - 1) + 1 .. Len(list) : Begins(list[i]) /\ nr[i] = q + 1
    BY <1>6, <2>1 DEF Covered
  <2>3. i = k
    BY <1>1, <1>4, <1>6, <2>2
  <2>4. ASSUME NEW p \in nr[k] + 1 .. n
        PROVE  \E e \in k + 1 .. Len(list) : Begins(list[e]) /\ nr[e] = p
    <3>1. p \in q + 1 .. n /\ p # nr[k]
      BY <2>1, <2>2, <2>3
    <3>2. PICK e \in (k - 1) + 1 .. Len(list) : Begins(list[e]) /\ nr[e] = p
      BY <1>6, <3>1 DEF Covered
    <3> QED BY <1>1, <3>1, <3>2
  <2> QED BY <2>2, <2>3, <2>4 DEF Covered
<1> QED BY <1>2, <1>3, <1>4, <1>5, <1>6

(***************************************************************************)
(* The chunks of the buffer.                                               *)
(***************************************************************************)

\* The channel with the chunk that begins at the k-th unit.
UnitProcessed(k, s) == IF buffer[k].unit = 1 THEN ProcessChunk(s, buffer[k].chunk) ELSE s

\* A chunk leaves the channel what it is, for a message, and for an OPN.
LEMMA ChannelStays ==
  ASSUME ReceptionAssumption, NEW s \in ChannelState, NEW c \in Chunk,
         c.type = "OPN" \/ c.request \in 1 .. MaxMessage
  PROVE  ProcessChunk(s, c) \in ChannelState
<1> DEFINE t == ProcessChunk(s, c)
           parts == StoredIn(s, c)
           handed == HandedOn(s, c)
           j == s.jumped \/ ~IsNext(c.number, s.received)
<1>1. /\ s.received \in 0 .. Width - 1
      /\ s.partial \in [1 .. MaxMessage -> Seq(Nat)] /\ s.delivered \in Seq(Message)
      /\ s.jumped \in BOOLEAN /\ s.stopped \in BOOLEAN
      /\ s = [received |-> s.received, partial |-> s.partial, delivered |-> s.delivered,
              jumped |-> s.jumped, stopped |-> s.stopped]
      /\ c.number \in 0 .. Width - 1 /\ j \in BOOLEAN
  BY DEF ChannelState, Chunk
<1>2. c.type # "OPN" => parts \in [1 .. MaxMessage -> Seq(Nat)] /\ handed \in Seq(Message)
  BY StoredParts
<1>3. \/ t = s
      \/ c.type = "OPN" /\ t = [s EXCEPT !.received = c.number]
      \/ t = [s EXCEPT !.stopped = TRUE]
      \/ c.type # "OPN" /\ t = [s EXCEPT !.received = c.number, !.jumped = j, !.partial = parts, !.delivered = handed]
  BY DEF ProcessChunk, StoredIn, HandedOn
<1> HIDE DEF t, parts, handed, j
<1>4. CASE t = s
  BY <1>4 DEF t
<1>5. CASE t = [s EXCEPT !.received = c.number]
  BY <1>1, <1>5 DEF ChannelState, t
<1>6. CASE t = [s EXCEPT !.stopped = TRUE]
  BY <1>1, <1>6 DEF ChannelState, t
<1>7. CASE c.type # "OPN" /\ t = [s EXCEPT !.received = c.number, !.jumped = j, !.partial = parts, !.delivered = handed]
  <2>1. t = [received |-> c.number, partial |-> parts, delivered |-> handed, jumped |-> j,
             stopped |-> s.stopped]
    BY <1>1, <1>7
  <2> QED BY <1>1, <1>2, <1>7, <2>1 DEF ChannelState, t
<1> QED BY <1>3, <1>4, <1>5, <1>6, <1>7

\* The fold over the buffer exists, and goes unit by unit.
LEMMA ProcessedSteps ==
  ASSUME ReceptionAssumption, buffer \in Seq(Unit), Channel \in ChannelState,
         \A k \in 1 .. Len(buffer) : buffer[k].unit = 1 =>
           buffer[k].chunk \in Chunk /\ (buffer[k].chunk.type = "OPN" \/ buffer[k].chunk.request \in 1 .. MaxMessage)
  PROVE  \E f : /\ \A k \in 0 .. Len(buffer) : f[k] \in ChannelState
                /\ f[0] = Channel
                /\ \A k \in 1 .. Len(buffer) : f[k] = UnitProcessed(k, f[k - 1])
                /\ Processed = f[Len(buffer)]
<1> DEFINE N == Len(buffer)
           step == [p \in (1 .. N) \X ChannelState |-> UnitProcessed(p[1], p[2])]
           Is(f) == f = [k \in 0 .. N |-> IF k = 0 THEN Channel ELSE UnitProcessed(k, f[k - 1])]
<1>1. N \in Nat
  OBVIOUS
<1>2. \A k \in 1 .. N : \A s \in ChannelState : UnitProcessed(k, s) \in ChannelState
  BY ChannelStays DEF UnitProcessed
<1>3. step \in [(1 .. N) \X ChannelState -> ChannelState]
  BY <1>2
<1>4. PICK g : IsComputed(g, N, Channel, step, ChannelState)
  <2> HIDE DEF step, N
  <2> QED BY <1>1, <1>3, Computed
<1>5. /\ g \in [0 .. N -> ChannelState] /\ g[0] = Channel
      /\ \A k \in 1 .. N : g[k] = UnitProcessed(k, g[k - 1])
  <2>1. \A k \in 1 .. N : k - 1 \in 0 .. N
    BY <1>1
  <2> QED BY <1>4, <2>1 DEF IsComputed
<1>6. Is(g)
  <2>1. g = [k \in 0 .. N |-> g[k]]
    BY <1>5
  <2>2. \A k \in 0 .. N : g[k] = IF k = 0 THEN Channel ELSE UnitProcessed(k, g[k - 1])
    BY <1>1, <1>5
  <2> QED BY <2>1, <2>2
<1> DEFINE state == CHOOSE f : Is(f)
<1>7. Is(state)
  BY <1>6
<1>8. Processed = state[N]
  <2>1. \A k \in 0 .. N : \A s : (IF k = 0 THEN Channel ELSE UnitProcessed(k, s)) =
          (IF k = 0 THEN Channel ELSE IF buffer[k].unit = 1 THEN ProcessChunk(s, buffer[k].chunk) ELSE s)
    BY DEF UnitProcessed
  <2> QED BY <2>1 DEF Processed, Channel, UnitProcessed
<1> HIDE DEF state
<1>9. \A k \in 0 .. N : state[k] = IF k = 0 THEN Channel ELSE UnitProcessed(k, state[k - 1])
  BY <1>7
<1>10. state[0] = Channel /\ \A k \in 1 .. N : state[k] = UnitProcessed(k, state[k - 1])
  BY <1>1, <1>9
<1>11. \A k \in 0 .. N : state[k] \in ChannelState
  <2>1. ASSUME NEW k \in 1 .. N, state[k - 1] \in ChannelState PROVE state[k] \in ChannelState
    BY <1>2, <1>10, <2>1
  <2> DEFINE P == {k \in 0 .. N : state[k] \in ChannelState}
  <2>2. 0 \in P /\ \A k \in 1 .. N : k - 1 \in P => k \in P
    BY <1>1, <1>10, <2>1
  <2> HIDE DEF P
  <2>3. \A k \in 0 .. N : k \in P
    BY <1>1, <2>2, Reached
  <2> QED BY <2>3 DEF P
<1> QED BY <1>8, <1>10, <1>11

\* After the buffer the channel is where some later chunk has left it.
LEMMA BufferProcessed ==
  ASSUME ReceptionAssumption, NEW begun \in 0 .. MaxMessage, NEW whole \in Seq(Message),
         Sorted(whole, begun), NEW all, Sequenced(all, begun, whole),
         FewerThanNumbers => Len(all) < Width, NEW n \in 0 .. Len(all),
         buffer \in Seq(Unit), \A k \in 1 .. Len(buffer) : ~IsForeign(buffer[k]),
         NEW list \in Seq(Unit), Len(buffer) <= Len(list),
         \A k \in 1 .. Len(buffer) : list[k] = buffer[k],
         NEW nr, NEW q \in 0 .. n, InTransit(list, nr, q, n, all, 0), NEW lost,
         lost = 0 => Covered(list, nr, q, n, 0),
         Channel \in ChannelState, Receiver(Channel, q, all, begun, whole, lost)
  PROVE  /\ Processed \in ChannelState
         /\ \E r \in 0 .. n : /\ Receiver(Processed, r, all, begun, whole, lost)
                              /\ InTransit(list, nr, r, n, all, Len(buffer))
                              /\ lost = 0 => Covered(list, nr, r, n, Len(buffer))
<1> DEFINE N == Len(buffer)
<1>1. N \in Nat /\ Len(list) \in Nat /\ Len(all) \in Nat /\ n \in Nat
  BY DEF Sequenced
<1>2. \A k \in 1 .. N : buffer[k].unit = 1 <=> Begins(list[k])
  BY DEF Begins
<1>3. ASSUME NEW k \in 1 .. N, buffer[k].unit = 1
      PROVE  /\ buffer[k].chunk \in Chunk
             /\ buffer[k].chunk.type = "OPN" \/ buffer[k].chunk.request \in 1 .. MaxMessage
  <2>1. k \in 0 + 1 .. Len(list)
    BY <1>1
  <2>2. nr[k] \in q + 1 .. n /\ buffer[k].chunk = all[nr[k]]
    BY <1>2, <1>3, <2>1 DEF InTransit
  <2>3. nr[k] \in 1 .. Len(all)
    BY <1>1, <2>2
  <2> QED BY <2>2, <2>3, ChunkOf
<1>4. PICK f : /\ \A k \in 0 .. N : f[k] \in ChannelState
               /\ f[0] = Channel
               /\ \A k \in 1 .. N : f[k] = UnitProcessed(k, f[k - 1])
               /\ Processed = f[N]
  BY <1>3, ProcessedSteps
<1> DEFINE Holds(s, r, k) == /\ Receiver(s, r, all, begun, whole, lost)
                             /\ InTransit(list, nr, r, n, all, k)
                             /\ lost = 0 => Covered(list, nr, r, n, k) /\ ~s.stopped
           P == {k \in 0 .. N : \E r \in 0 .. n : Holds(f[k], r, k)}
<1>5. 0 \in P
  <2>1. ~Channel.stopped
    BY DEF Channel
  <2>2. Holds(f[0], q, 0)
    BY <1>4, <2>1
  <2> HIDE DEF Holds
  <2> QED BY <1>1, <2>2
<1>6. ASSUME NEW k \in 1 .. N, k - 1 \in P PROVE k \in P
  <2>1. PICK r \in 0 .. n : Holds(f[k - 1], r, k - 1)
    BY <1>6
  <2>2. k \in 1 .. Len(list) /\ r \in Nat /\ k - 1 \in 0 .. N /\ f[k - 1] \in ChannelState /\ k \in 0 .. N
    BY <1>1, <1>4
  <2>3. f[k] = UnitProcessed(k, f[k - 1])
    BY <1>4
  <2>4. CASE ~Begins(list[k])
    <3>1. f[k] = f[k - 1]
      BY <1>2, <2>3, <2>4 DEF UnitProcessed
    <3>2. /\ InTransit(list, nr, r, n, all, k)
          /\ Covered(list, nr, r, n, k - 1) => Covered(list, nr, r, n, k)
      BY <1>1, <2>1, <2>2, <2>4, TransitPasses
    <3>3. Holds(f[k], r, k)
      BY <2>1, <3>1, <3>2
    <3> HIDE DEF Holds
    <3> QED BY <2>2, <3>3
  <2>5. CASE Begins(list[k])
    <3> DEFINE p == nr[k]
    <3>1. /\ p \in r + 1 .. n /\ list[k].chunk = all[p]
          /\ \A e \in {r, p} : InTransit(list, nr, e, n, all, k)
          /\ Covered(list, nr, r, n, k - 1) => p = r + 1 /\ Covered(list, nr, p, n, k)
      BY <1>1, <2>1, <2>2, <2>5, TransitPasses
    <3> HIDE DEF p
    <3>2. f[k] = ProcessChunk(f[k - 1], all[p])
      BY <1>2, <2>3, <2>5, <3>1 DEF UnitProcessed
    <3>3. p \in r + 1 .. Len(all) /\ p \in 0 .. n
      BY <1>1, <2>2, <3>1
    <3>4. /\ Receiver(f[k - 1], r, all, begun, whole, lost)
          /\ lost = 0 => p = r + 1 /\ ~f[k - 1].stopped
      BY <2>1, <3>1
    <3>5. PICK e \in {r, p} : /\ Receiver(f[k], e, all, begun, whole, lost)
                              /\ lost = 0 => e = p /\ ~f[k].stopped
      BY <2>2, <3>2, <3>3, <3>4, ChunkProcessed
    <3>6. Holds(f[k], e, k) /\ e \in 0 .. n
      BY <2>1, <3>1, <3>3, <3>5
    <3> HIDE DEF Holds
    <3> QED BY <2>2, <3>6
  <2> QED BY <2>4, <2>5
<1>7. N \in P
  <2> HIDE DEF P, N
  <2>1. \A k \in 0 .. N : k \in P
    BY <1>1, <1>5, <1>6, Reached
  <2> QED BY <1>1, <2>1
<1>8. PICK r \in 0 .. n : Holds(f[N], r, N)
  BY <1>7
<1>9. f[N] \in ChannelState
  BY <1>1, <1>4
<1> QED BY <1>4, <1>8, <1>9

(***************************************************************************)
(* The steps.                                                              *)
(***************************************************************************)

Typed ==
  /\ stream \in Seq(Unit) /\ kept \in Seq(Unit) /\ buffer \in Seq(Unit)
  /\ outbox \in Seq(Written) /\ nextOut \in 0 .. Width - 1
  /\ sent \in 0 .. MaxMessage /\ losses \in 0 .. MaxLoss /\ renewals \in 0 .. MaxRenew
  /\ complete \in Seq(Message) /\ Channel \in ChannelState

\* The units yet to be looked at, and all in transit.
Ahead == kept \o stream
Units0 == buffer \o Ahead

\* Nothing is lost: the bytes ahead begin with a chunk, and none are kept when all were read.
Aligned ==
  /\ \A k \in 1 .. Len(Ahead) : ~IsForeign(Ahead[k])
  /\ Ahead # <<>> => Ahead[1].unit = 1
  /\ stream = <<>> => kept = <<>>

Framed ==
  /\ Linked(Ahead)
  /\ \A k \in 1 .. Len(buffer) : ~IsForeign(buffer[k])
  /\ losses = 0 => Aligned

Traced(all, n, nr, q) ==
  /\ q \in 0 .. n
  /\ Sequenced(all, sent, complete) /\ Few(all, sent, renewals)
  /\ Sending(all, n, outbox, nextOut)
  /\ InTransit(Units0, nr, q, n, all, 0)
  /\ losses = 0 => Covered(Units0, nr, q, n, 0)
  /\ Receiver(Channel, q, all, sent, complete, losses)

StreamInv ==
  /\ Typed /\ Framed /\ Sorted(complete, sent)
  /\ \E all, n, nr, q : Traced(all, n, nr, q)

LEMMA JoinedThree ==
  ASSUME NEW S, NEW a \in Seq(S), NEW b \in Seq(S), NEW c \in Seq(S)
  PROVE  a \o (b \o c) = (a \o b) \o c
<1> DEFINE bc == b \o c
           ab == a \o b
<1>1. /\ bc \in Seq(S) /\ Len(bc) = Len(b) + Len(c)
      /\ \A k \in 1 .. Len(b) : bc[k] = b[k]
      /\ \A k \in 1 .. Len(c) : bc[Len(b) + k] = c[k]
  BY JoinedElements
<1>2. /\ ab \in Seq(S) /\ Len(ab) = Len(a) + Len(b)
      /\ \A k \in 1 .. Len(a) : ab[k] = a[k]
      /\ \A k \in 1 .. Len(b) : ab[Len(a) + k] = b[k]
  BY JoinedElements
<1>3. Len(a) \in Nat /\ Len(b) \in Nat /\ Len(c) \in Nat
  OBVIOUS
<1> HIDE DEF bc, ab
<1> DEFINE v == a \o bc
           w == ab \o c
<1>4. /\ v \in Seq(S) /\ Len(v) = Len(a) + Len(bc)
      /\ \A k \in 1 .. Len(a) : v[k] = a[k]
      /\ \A k \in 1 .. Len(bc) : v[Len(a) + k] = bc[k]
  <2>1. bc \in Seq(S)
    BY <1>1
  <2> QED BY ONLY <2>1, a \in Seq(S), JoinedElements
<1>5. /\ w \in Seq(S) /\ Len(w) = Len(ab) + Len(c)
      /\ \A k \in 1 .. Len(ab) : w[k] = ab[k]
      /\ \A k \in 1 .. Len(c) : w[Len(ab) + k] = c[k]
  <2>1. ab \in Seq(S)
    BY <1>2
  <2> QED BY ONLY <2>1, c \in Seq(S), JoinedElements
<1> HIDE DEF v, w
<1>6. ASSUME NEW k \in 1 .. Len(v) PROVE v[k] = w[k]
  <2>1. k \in Nat /\ Len(v) = Len(a) + Len(b) + Len(c) /\ k >= 1 /\ k <= Len(v)
    BY <1>1, <1>3, <1>4
  <2>2. CASE k <= Len(a)
    <3>1. k \in 1 .. Len(a) /\ k \in 1 .. Len(ab)
      BY <1>2, <1>3, <2>1, <2>2
    <3> QED BY <1>2, <1>4, <1>5, <3>1
  <2>3. CASE k > Len(a) /\ k <= Len(a) + Len(b)
    <3>1. /\ k - Len(a) \in 1 .. Len(b) /\ k - Len(a) \in 1 .. Len(bc)
          /\ Len(a) + (k - Len(a)) = k /\ k \in 1 .. Len(ab)
      BY <1>1, <1>2, <1>3, <2>1, <2>3
    <3>2. v[k] = bc[k - Len(a)] /\ bc[k - Len(a)] = b[k - Len(a)]
      BY <1>1, <1>4, <3>1
    <3>3. w[k] = ab[k] /\ ab[k] = b[k - Len(a)]
      BY <1>2, <1>5, <3>1
    <3> QED BY <3>2, <3>3
  <2>4. CASE k > Len(a) + Len(b)
    <3> DEFINE d == k - (Len(a) + Len(b))
    <3>1. /\ d \in 1 .. Len(c) /\ k - Len(a) \in 1 .. Len(bc) /\ Len(a) + (k - Len(a)) = k
          /\ Len(b) + d = k - Len(a) /\ Len(ab) + d = k
      BY <1>1, <1>2, <1>3, <2>1, <2>4
    <3> HIDE DEF d
    <3>2. v[k] = bc[k - Len(a)] /\ bc[k - Len(a)] = c[d]
      BY <1>1, <1>4, <3>1
    <3>3. w[k] = c[d]
      BY <1>5, <3>1
    <3> QED BY <3>2, <3>3
  <2> QED BY <1>3, <2>1, <2>2, <2>3, <2>4
<1>7. v = w
  <2>1. Len(v) = Len(w)
    BY <1>1, <1>2, <1>3, <1>4, <1>5
  <2> QED BY <1>4, <1>5, <1>6, <2>1, SameSeq
<1> QED BY <1>7 DEF v, w, ab, bc

\* Nothing has been sent yet.
LEMMA StreamStart ==
  ASSUME ReceptionAssumption, StreamInit
  PROVE  StreamInv
<1>1. /\ MaxMessage \in Nat /\ MaxLoss \in Nat /\ MaxRenew \in Nat /\ Width \in Nat \ {0}
      /\ FirstNumber \in 0 .. Width - 1
  BY DEF ReceptionAssumption
<1>2. received = NumberOf(0) /\ received \in 0 .. Width - 1 /\ nextOut = NumberOf(1)
      /\ nextOut \in 0 .. Width - 1
  <2>1. FirstNumber + 0 - 1 = FirstNumber - 1 /\ FirstNumber + 1 - 1 = FirstNumber
    BY <1>1
  <2>2. NumberOf(0) \in 0 .. Width - 1
    BY NumbersOf
  <2>3. received = NumberOf(0)
    BY <2>1 DEF StreamInit, NumberOf
  <2>4. FirstNumber % Width = FirstNumber
    BY <1>1
  <2>5. nextOut = NumberOf(1)
    BY <2>1, <2>4 DEF StreamInit, NumberOf
  <2>6. nextOut \in 0 .. Width - 1
    BY <1>1 DEF StreamInit
  <2> QED BY <2>2, <2>3, <2>5, <2>6
<1>3. Channel \in ChannelState
  <2>1. NoParts \in Seq(Nat) /\ <<>> \in Seq(Message)
    BY DEF NoParts
  <2>2. /\ partial \in [1 .. MaxMessage -> Seq(Nat)] /\ delivered \in Seq(Message)
        /\ jumped \in BOOLEAN
    BY <2>1 DEF StreamInit
  <2> QED BY <1>2, <2>2 DEF Channel, ChannelState
<1>4. Typed
  BY <1>1, <1>2, <1>3 DEF Typed, StreamInit
<1>5. Ahead = <<>> /\ Units0 = <<>>
  BY DEF StreamInit, Ahead, Units0
<1>6. Framed
  BY <1>5 DEF Framed, Aligned, Linked, StreamInit
<1>7. Sorted(complete, sent)
  BY DEF Sorted, StreamInit
<1>8. Traced(<<>>, 0, <<>>, 0)
  <2>1. Sequenced(<<>>, sent, complete)
    BY DEF Sequenced, Ordered
  <2>2. Few(<<>>, sent, renewals)
    BY DEF Few, StreamInit
  <2>3. Sending(<<>>, 0, outbox, nextOut)
    BY <1>2 DEF Sending, StreamInit
  <2>4. InTransit(Units0, <<>>, 0, 0, <<>>, 0) /\ Covered(Units0, <<>>, 0, 0, 0)
    BY <1>5 DEF InTransit, Covered
  <2>5. Receiver(Channel, 0, <<>>, sent, complete, losses)
    <3>1. /\ Channel.received = NumberOf(0) /\ ~Channel.jumped /\ Channel.delivered = <<>>
          /\ Channel.partial = [r \in 1 .. MaxMessage |-> NoParts]
      BY <1>2 DEF Channel, StreamInit
    <3>2. PartsKept(Channel.partial, 0, <<>>, sent)
      BY <3>1 DEF PartsKept
    <3>3. InOrder(Channel.delivered, 0, <<>>, complete)
      BY <3>1 DEF InOrder
    <3>4. Complete(Channel.partial, Channel.delivered, 0, <<>>, complete)
      BY <3>1 DEF Complete, StreamInit
    <3> QED BY <3>1, <3>2, <3>3, <3>4 DEF Receiver
  <2> QED BY <2>1, <2>2, <2>3, <2>4, <2>5 DEF Traced
<1> QED BY <1>4, <1>6, <1>7, <1>8 DEF StreamInv

\* The stream becomes longer by whole chunks.
LEMMA StreamGrows ==
  ASSUME ReceptionAssumption, Typed, Framed, NEW more \in Seq(Unit), Linked(more), more # <<>>,
         more[1].unit = 1, stream' = stream \o more, UNCHANGED <<kept, buffer>>
  PROVE  /\ stream' \in Seq(Unit) /\ Linked(Ahead') /\ Units0' = Units0 \o more
         /\ Units0 \in Seq(Unit)
         /\ Aligned /\ (\A k \in 1 .. Len(more) : ~IsForeign(more[k])) => Aligned'
<1>1. stream \in Seq(Unit) /\ kept \in Seq(Unit) /\ buffer \in Seq(Unit)
  BY DEF Typed
<1>2. Ahead \in Seq(Unit) /\ Units0 \in Seq(Unit) /\ stream' \in Seq(Unit)
  <2>1. Ahead \in Seq(Unit)
    BY <1>1, JoinedElements DEF Ahead
  <2>2. Units0 \in Seq(Unit)
    BY <1>1, <2>1, JoinedElements DEF Units0
  <2>3. stream \o more \in Seq(Unit)
    BY <1>1, JoinedElements
  <2> QED BY <2>1, <2>2, <2>3
<1>3. Ahead' = Ahead \o more
  <2>1. Ahead' = kept \o (stream \o more)
    BY DEF Ahead
  <2>2. kept \o (stream \o more) = (kept \o stream) \o more
    BY ONLY <1>1, JoinedThree
  <2> QED BY <2>1, <2>2 DEF Ahead
<1>4. Units0' = Units0 \o more
  <2>1. Units0' = buffer \o (Ahead \o more)
    BY <1>3 DEF Units0
  <2>2. buffer \o (Ahead \o more) = (buffer \o Ahead) \o more
    BY <1>1, <1>2, JoinedThree, SMTT(40)
  <2> QED BY <2>1, <2>2 DEF Units0
<1>5. Linked(Ahead')
  BY <1>2, <1>3, LinkedGrows DEF Framed
<1>6. ASSUME Aligned, \A k \in 1 .. Len(more) : ~IsForeign(more[k]) PROVE Aligned'
  <2> DEFINE v == Ahead
             w == Ahead'
  <2>1. /\ Len(w) = Len(v) + Len(more) /\ Len(v) \in Nat /\ Len(more) \in Nat /\ Len(more) >= 1
        /\ \A k \in 1 .. Len(v) : w[k] = v[k]
        /\ \A k \in 1 .. Len(more) : w[Len(v) + k] = more[k]
    <3>1. Len(more) >= 1
      OBVIOUS
    <3> QED BY <1>2, <1>3, <3>1, JoinedElements
  <2>2. ASSUME NEW k \in 1 .. Len(w) PROVE ~IsForeign(w[k])
    <3>1. CASE k <= Len(v)
      <4>1. k \in 1 .. Len(v)
        BY <2>1, <3>1
      <4> QED BY <1>6, <2>1, <4>1 DEF Aligned
    <3>2. CASE k > Len(v)
      <4>1. k - Len(v) \in 1 .. Len(more) /\ Len(v) + (k - Len(v)) = k
        BY <2>1, <3>2
      <4> QED BY <1>6, <2>1, <4>1
    <3> QED BY <2>1, <3>1, <3>2
  <2>3. w[1].unit = 1
    <3>1. CASE v = <<>>
      <4>1. Len(v) = 0 /\ 1 \in 1 .. Len(more) /\ Len(v) + 1 = 1
        BY <2>1, <3>1
      <4> QED BY <2>1, <4>1
    <3>2. CASE v # <<>>
      <4>1. 1 \in 1 .. Len(v)
        BY <1>2, <3>2
      <4> QED BY <1>6, <2>1, <3>2, <4>1 DEF Aligned
    <3> QED BY <3>1, <3>2
  <2>4. stream' # <<>>
    <3>1. Len(stream \o more) = Len(stream) + Len(more) /\ Len(stream) \in Nat
      BY <1>1
    <3>2. Len(stream') # 0
      BY <2>1, <3>1
    <3> QED BY <3>2
  <2> QED BY <2>2, <2>3, <2>4 DEF Aligned
<1> QED BY <1>2, <1>4, <1>5, <1>6

\* Chunks added later change nothing of those in transit.
LEMMA TransitSame ==
  ASSUME NEW list, NEW nr, NEW q \in Nat, NEW n \in Nat, NEW all, NEW all2,
         \A k \in 1 .. n : all2[k] = all[k], InTransit(list, nr, q, n, all, 0)
  PROVE  InTransit(list, nr, q, n, all2, 0)
<1>1. \A p \in q + 1 .. n : all2[p] = all[p]
  OBVIOUS
<1> QED BY <1>1 DEF InTransit

\* One more OPN, or the chunks of one more message.
LEMMA FewMore ==
  ASSUME ReceptionAssumption, NEW all, Len(all) \in Nat, NEW begun \in Nat, NEW renewed \in Nat,
         Few(all, begun, renewed), NEW all2
  PROVE  /\ Len(all2) = Len(all) + 1 => Few(all2, begun, renewed + 1)
         /\ \A m \in PartCounts :
              Len(all2) \in Nat /\ Len(all2) <= Len(all) + m => Few(all2, begun + 1, renewed)
<1>1. ASSUME NEW most \in Nat, \A m \in PartCounts : m <= most
      PROVE  Len(all) <= most * begun + renewed /\ most * begun \in Nat
             /\ most * (begun + 1) = most * begun + most
  BY <1>1 DEF Few
<1>2. ASSUME Len(all2) = Len(all) + 1 PROVE Few(all2, begun, renewed + 1)
  <2>1. SUFFICES ASSUME NEW most \in Nat, \A m \in PartCounts : m <= most
                 PROVE  Len(all2) <= most * begun + (renewed + 1)
    BY DEF Few
  <2>2. Len(all) <= most * begun + renewed /\ most * begun \in Nat
    BY <1>1, <2>1
  <2> QED BY <1>2, <2>2
<1>3. ASSUME NEW m \in PartCounts, Len(all2) \in Nat, Len(all2) <= Len(all) + m
      PROVE  Few(all2, begun + 1, renewed)
  <2>1. SUFFICES ASSUME NEW most \in Nat, \A e \in PartCounts : e <= most
                 PROVE  Len(all2) <= most * (begun + 1) + renewed
    BY DEF Few
  <2>2. /\ Len(all) <= most * begun + renewed /\ most * begun \in Nat
        /\ most * (begun + 1) = most * begun + most
    BY <1>1, <2>1
  <2>3. m <= most /\ m \in Nat
    BY <2>1 DEF ReceptionAssumption
  <2> QED BY <1>3, <2>2, <2>3
<1> QED BY <1>2, <1>3

\* A chunk with its number.
LEMMA NumberedIs ==
  ASSUME ReceptionAssumption, NEW c \in Written, NEW number \in 0 .. Width - 1
  PROVE  /\ Numbered(c, number) \in Chunk /\ IsMessage(Numbered(c, number))
         /\ Numbered(c, number).request = c.request /\ Numbered(c, number).part = c.part
         /\ Numbered(c, number).final = c.final /\ Numbered(c, number).number = number
<1>1. /\ c.type = "MSG" /\ c.request \in 1 .. MaxMessage /\ c.part \in Nat
      /\ c.final \in {"C", "F", "A"}
  BY DEF Written
<1>2. c.request \in 0 .. MaxMessage
  BY <1>1
<1> QED BY <1>1, <1>2 DEF Numbered, Chunk, IsMessage

\* UA_SecureChannel_sendBinaryMessage: its chunks come after all that were sent.
LEMMA MessageBegun ==
  ASSUME ReceptionAssumption, StreamInv, NEW m \in PartCounts, NEW fails \in 0 .. m,
         SendMessage(m, fails)
  PROVE  StreamInv'
<1>1. PICK all, n, nr, q : Traced(all, n, nr, q)
  BY DEF StreamInv
<1> DEFINE new == outbox'
           N == Len(all)
           more == [k \in 1 .. Len(new) |-> Numbered(new[k], NumberOf(N + k))]
           all2 == all \o more
           request == sent + 1
<1>2. /\ Typed /\ Framed /\ Sorted(complete, sent)
      /\ outbox = <<>> /\ sent < MaxMessage /\ sent' = request /\ new = Chunks(request, m, fails)
      /\ UNCHANGED <<nextOut, renewals, stream, kept, buffer, received, partial, delivered, jumped, losses>>
  BY DEF StreamInv, SendMessage, receiver
<1>3. /\ m \in Nat \ {0} /\ MaxMessage \in Nat /\ sent \in Nat /\ request \in 1 .. MaxMessage
      /\ sent \in 0 .. MaxMessage /\ request \in Nat /\ renewals \in Nat
  <2>1. m \in Nat \ {0} /\ MaxMessage \in Nat /\ MaxRenew \in Nat
    BY DEF ReceptionAssumption
  <2> QED BY <1>2, <2>1 DEF Typed
<1>4. /\ new \in Seq(Written) /\ Len(new) \in 1 .. m
      /\ \A k \in 1 .. Len(new) : /\ new[k].request = request /\ new[k].part = k
                                  /\ new[k].final = "C" <=> k < Len(new)
      /\ new[Len(new)].final = "F" => Len(new) = m
  <2>1. PICK x, c : x = request /\ c = new
    OBVIOUS
  <2>2. x \in 1 .. MaxMessage /\ m \in Nat \ {0} /\ fails \in 0 .. m /\ AreChunks(c, x, m, fails)
    BY <1>2, <1>3, <2>1 DEF AreChunks
  <2>3. /\ c \in Seq(Written) /\ Len(c) \in 1 .. m
        /\ \A k \in 1 .. Len(c) : /\ c[k].request = x /\ c[k].part = k
                                  /\ c[k].final = "C" <=> k < Len(c)
        /\ c[Len(c)].final = "F" => Len(c) = m
    BY ONLY ReceptionAssumption, <2>2, ChunksAre
  <2> QED BY <2>1, <2>3
<1>5. all \in Seq(Chunk) /\ N \in Nat /\ n = N /\ q \in 0 .. n /\ nextOut = NumberOf(n + 1)
  <2>1. all \in Seq(Chunk) /\ N \in Nat
    BY <1>1 DEF Traced, Sequenced
  <2>2. Len(outbox) = 0
    BY <1>2
  <2> QED BY <1>1, <2>1, <2>2 DEF Traced, Sending
<1> HIDE DEF new, N, request
<1>6. ASSUME NEW k \in 1 .. Len(new)
      PROVE  /\ more[k] \in Chunk /\ more[k] = Numbered(new[k], NumberOf(N + k))
             /\ more[k].request = request /\ more[k].part = k /\ IsMessage(more[k])
             /\ more[k].final = new[k].final /\ more[k].number = NumberOf(N + k)
  <2>1. new[k] \in Written /\ N + k \in Nat /\ more[k] = Numbered(new[k], NumberOf(N + k))
    BY <1>4, <1>5
  <2>2. NumberOf(N + k) \in 0 .. Width - 1
    BY <2>1, NumbersOf
  <2> HIDE DEF more
  <2> QED BY <1>4, <2>1, <2>2, NumberedIs
<1>7. more \in Seq(Chunk) /\ Len(more) = Len(new) /\ Len(new) \in Nat /\ Len(new) >= 1
  <2>1. Len(new) \in Nat /\ Len(new) >= 1
    BY <1>4
  <2>2. more \in [1 .. Len(new) -> Chunk] /\ DOMAIN more = 1 .. Len(new)
    BY <1>6
  <2> HIDE DEF more
  <2> QED BY <2>1, <2>2
<1> HIDE DEF more
<1>8. Added(more, N, request)
  BY <1>4, <1>6, <1>7 DEF Added
<1>9. /\ all2 \in Seq(Chunk) /\ Len(all2) = N + Len(more)
      /\ \A k \in 1 .. N : all2[k] = all[k]
      /\ \A k \in 1 .. Len(more) : all2[N + k] = more[k]
  <2>1. all \in Seq(Chunk) /\ more \in Seq(Chunk)
    BY <1>5, <1>7
  <2> QED BY ONLY <2>1, JoinedElements DEF N
<1> HIDE DEF all2
<1> DEFINE msg == [request |-> request, parts |-> [k \in 1 .. m |-> k]]
<1>10. /\ msg \in Message /\ msg.request = request /\ complete \in Seq(Message)
       /\ \/ complete' = complete /\ more[Len(more)].final # "F"
          \/ complete' = Append(complete, msg) /\ more[Len(more)].final = "F"
  <2>1. complete \in Seq(Message)
    BY <1>2 DEF Typed
  <2>2. msg \in Message /\ msg.request = request
    <3>1. [k \in 1 .. m |-> k] \in Seq(Nat)
      BY <1>3
    <3> QED BY <1>3, <3>1 DEF Message, request
  <2>3. Last(new) = new[Len(new)] /\ new[Len(new)].final = more[Len(more)].final
    <3>1. Len(new) \in 1 .. Len(new)
      BY <1>7
    <3> QED BY <1>6, <1>7, <3>1 DEF Last
  <2>4. complete' = IF Last(new).final = "F" THEN Append(complete, msg) ELSE complete
    BY DEF SendMessage, new, request
  <2> QED BY <2>1, <2>2, <2>3, <2>4
<1> HIDE DEF msg
<1>11. /\ complete' \in Seq(Message) /\ ToSet(complete) \subseteq ToSet(complete')
       /\ more[Len(more)].final = "F" => msg \in ToSet(complete')
       /\ Sorted(complete', sent')
  <2>1. CASE complete' = complete /\ more[Len(more)].final # "F"
    <3>1. Sorted(complete, request)
      <4>1. \A k \in 1 .. Len(complete) : complete[k].request \in Nat
        <5>1. \A k \in 1 .. Len(complete) : complete[k] \in Message
          BY <1>10
        <5> QED BY <5>1 DEF Message
      <4> QED BY <1>2, <1>3, <4>1 DEF Sorted, request
    <3> QED BY <1>2, <1>10, <2>1, <3>1
  <2>2. CASE complete' = Append(complete, msg) /\ more[Len(more)].final = "F"
    <3>1. /\ complete' \in Seq(Message) /\ Len(complete') = Len(complete) + 1 /\ Len(complete) \in Nat
          /\ DOMAIN complete = 1 .. Len(complete) /\ DOMAIN complete' = 1 .. Len(complete) + 1
          /\ \A k \in 1 .. Len(complete) : complete'[k] = complete[k]
          /\ complete'[Len(complete) + 1] = msg
      BY <1>10, <2>2
    <3>2. ToSet(complete) \subseteq ToSet(complete') /\ msg \in ToSet(complete')
      <4>1. \A k \in DOMAIN complete : k \in DOMAIN complete' /\ complete'[k] = complete[k]
        BY <3>1
      <4>2. Len(complete) + 1 \in DOMAIN complete'
        BY <3>1
      <4> QED BY <3>1, <4>1, <4>2 DEF ToSet
    <3>3. Sorted(complete', request)
      <4>1. \A k \in 1 .. Len(complete) : complete[k].request \in Nat /\ complete[k].request <= sent
        <5>1. \A k \in 1 .. Len(complete) : complete[k] \in Message
          BY <1>10
        <5> QED BY <1>2, <5>1 DEF Message, Sorted
      <4>2. ASSUME NEW k \in 1 .. Len(complete')
            PROVE  \/ k \in 1 .. Len(complete) /\ complete'[k] = complete[k]
                   \/ k = Len(complete) + 1 /\ complete'[k] = msg
        BY <3>1
      <4>3. \A k \in 1 .. Len(complete') : complete'[k].request <= request
        BY <1>3, <1>10, <4>1, <4>2 DEF request
      <4>4. ASSUME NEW i \in 1 .. Len(complete'), NEW k \in 1 .. Len(complete'), i < k
            PROVE  complete'[i].request < complete'[k].request
        <5>1. i \in 1 .. Len(complete) /\ complete'[i] = complete[i]
          BY <3>1, <4>2, <4>4
        <5>2. CASE k \in 1 .. Len(complete) /\ complete'[k] = complete[k]
          BY <1>2, <4>4, <5>1, <5>2 DEF Sorted
        <5>3. CASE k = Len(complete) + 1 /\ complete'[k] = msg
          BY <1>3, <1>10, <4>1, <5>1, <5>3 DEF request
        <5> QED BY <4>2, <5>2, <5>3
      <4> QED BY <4>3, <4>4 DEF Sorted
    <3> QED BY <1>2, <3>1, <3>2, <3>3
  <2> QED BY <1>10, <2>1, <2>2
<1>12. Sequenced(all2, sent', complete')
  <2>1. ASSUME NEW k \in 1 .. Len(more), IsMessage(more[k])
        PROVE  /\ request = sent + 1 /\ request <= request
               /\ more[k].final = "F" =>
                    [request |-> request, parts |-> Upto(Len(more))] \in ToSet(complete')
    <3>1. ASSUME more[k].final = "F"
          PROVE  [request |-> request, parts |-> Upto(Len(more))] \in ToSet(complete')
      <4>1. k = Len(more)
        BY <1>8, <3>1 DEF Added
      <4>2. Len(more) = m
        BY <1>4, <1>6, <1>7, <3>1, <4>1
      <4>3. msg = [request |-> request, parts |-> Upto(Len(more))]
        BY <4>2 DEF msg, Upto
      <4> QED BY <1>11, <3>1, <4>1, <4>3
    <3> QED BY <1>3, <3>1 DEF request
  <2>2. Sequenced(all, sent, complete)
    BY <1>1 DEF Traced
  <2>3. sent <= request
    BY <1>3 DEF request
  <2> QED BY <1>2, <1>3, <1>8, <1>11, <2>1, <2>2, <2>3, SequencedGrows DEF N, all2
<1>13. Receiver(Channel', q, all2, sent', complete', losses')
  <2>1. Receiver(Channel, q, all, sent, complete, losses) /\ Channel' = Channel /\ Channel \in ChannelState
    BY <1>1, <1>2 DEF Traced, Typed, Channel
  <2>2. sent <= request /\ request <= MaxMessage
    BY <1>3 DEF request
  <2>3. \A k \in 1 .. Len(more) : IsMessage(more[k]) => request = sent + 1 /\ request <= request
    BY <1>3 DEF request
  <2>4. IsMessage(more[Len(more)])
    BY <1>6, <1>7
  <2>5. \/ complete' = complete
        \/ \E e : /\ complete' = Append(complete, e) /\ e \in Message /\ e.request = request
                  /\ IsMessage(more[Len(more)]) /\ more[Len(more)].final = "F"
    BY <1>10, <2>4
  <2>6. q \in 0 .. Len(all)
    BY <1>5 DEF N
  <2>7. Receiver(Channel, q, all \o more, request, complete', losses)
    BY <1>2, <1>3, <1>5, <1>8, <1>10, <2>1, <2>2, <2>3, <2>5, <2>6, ReceiverSees DEF N
  <2> QED BY <1>2, <2>1, <2>7 DEF all2
<1>14. Sending(all2, n, outbox', nextOut')
  <2>1. n \in 0 .. Len(all2) /\ Len(new) = Len(all2) - n
    BY <1>5, <1>7, <1>9
  <2>2. ASSUME NEW k \in 1 .. Len(new) PROVE all2[n + k] = Numbered(new[k], NumberOf(n + k))
    BY <1>5, <1>6, <1>7, <1>9
  <2> QED BY <1>2, <1>5, <2>1, <2>2 DEF Sending, new
<1>15. Few(all2, sent', renewals')
  <2>1. Len(all2) \in Nat /\ Len(all2) <= Len(all) + m
    BY <1>3, <1>4, <1>5, <1>7, <1>9 DEF N
  <2>2. Few(all, sent, renewals)
    BY <1>1 DEF Traced
  <2>3. Len(all) \in Nat
    BY <1>5 DEF N
  <2>4. Few(all2, sent + 1, renewals)
    BY <1>3, <2>1, <2>2, <2>3, FewMore
  <2> QED BY <1>2, <2>4 DEF request
<1>16. Units0' = Units0 /\ Ahead' = Ahead /\ InTransit(Units0, nr, q, n, all2, 0)
  <2>1. Units0' = Units0 /\ Ahead' = Ahead
    BY <1>2 DEF Units0, Ahead
  <2>2. InTransit(Units0, nr, q, n, all, 0) /\ q \in Nat /\ n \in Nat
    BY <1>1, <1>5 DEF Traced
  <2> QED BY <1>5, <1>9, <2>1, <2>2, TransitSame
<1>17. PICK all3 : all3 = all2
  OBVIOUS
<1>20. Traced(all3, n, nr, q)'
  <2>1. losses = 0 => Covered(Units0, nr, q, n, 0)
    BY <1>1 DEF Traced
  <2> QED BY <1>2, <1>5, <1>12, <1>13, <1>14, <1>15, <1>16, <1>17, <2>1 DEF Traced
<1>18. Typed'
  <2>1. Channel' = Channel
    BY <1>2 DEF Channel
  <2> QED BY <1>2, <1>3, <1>4, <1>11, <2>1 DEF Typed, new
<1>19. Framed'
  BY <1>2, <1>16 DEF Framed, Aligned
<1> QED BY <1>11, <1>18, <1>19, <1>20 DEF StreamInv

\* UA_SecureChannel_sendChunk: the next chunk enters the socket.
LEMMA ChunkSent ==
  ASSUME ReceptionAssumption, StreamInv, NEW size \in Units, SendChunk(size)
  PROVE  StreamInv'
<1>1. PICK all, n, nr, q : Traced(all, n, nr, q)
  BY DEF StreamInv
<1> DEFINE c == Numbered(Head(outbox), nextOut)
           more == Bytes(c, size)
<1>2. /\ Typed /\ Framed /\ Sorted(complete, sent)
      /\ outbox # <<>> /\ stream' = stream \o more /\ nextOut' = (nextOut + 1) % Width
      /\ outbox' = Tail(outbox)
      /\ UNCHANGED <<sent, complete, renewals, kept, buffer, received, partial, delivered, jumped, losses>>
  BY DEF StreamInv, SendChunk, NumberAfter, receiver
<1>3. /\ all \in Seq(Chunk) /\ Len(all) \in Nat /\ n \in 0 .. Len(all) /\ q \in 0 .. n /\ n \in Nat
      /\ nextOut = NumberOf(n + 1) /\ Len(outbox) = Len(all) - n
      /\ \A k \in 1 .. Len(outbox) : all[n + k] = Numbered(outbox[k], NumberOf(n + k))
      /\ outbox \in Seq(Written)
  <2>1. all \in Seq(Chunk) /\ Len(all) \in Nat
    BY <1>1 DEF Traced, Sequenced
  <2> QED BY <1>1, <1>2, <2>1 DEF Traced, Sending, Typed
<1>4. Len(outbox) >= 1 /\ Head(outbox) = outbox[1] /\ n + 1 \in 1 .. Len(all)
  <2>1. Len(outbox) >= 1 /\ Head(outbox) = outbox[1]
    BY <1>2, <1>3
  <2> QED BY <1>3, <2>1
<1>5. c = all[n + 1] /\ c \in Chunk
  <2>1. 1 \in 1 .. Len(outbox)
    BY <1>3, <1>4
  <2>2. all[n + 1] = Numbered(outbox[1], NumberOf(n + 1))
    BY <1>3, <2>1
  <2> QED BY <1>3, <1>4, <2>2
<1> HIDE DEF c
<1>6. /\ more \in Seq(Unit) /\ Linked(more) /\ Len(more) = size /\ size \in Nat \ {0, 1}
      /\ \A k \in 1 .. size : more[k].unit = k /\ more[k].chunk = c
  <2>1. size \in Units
    OBVIOUS
  <2> QED BY ONLY ReceptionAssumption, <1>5, <2>1, BytesAre
<1> HIDE DEF more
<1>7. c.type # "???"
  BY <1>5 DEF Chunk
<1>8. /\ more # <<>> /\ more[1].unit = 1 /\ Begins(more[1]) /\ more[1].chunk = all[n + 1]
      /\ \A k \in 1 .. Len(more) : ~IsForeign(more[k]) /\ (Begins(more[k]) => k = 1)
  <2>1. 1 \in 1 .. size /\ more # <<>>
    BY <1>6
  <2> QED BY <1>5, <1>6, <1>7, <2>1 DEF Begins, IsForeign
<1>9. /\ stream' \in Seq(Unit) /\ Linked(Ahead') /\ Units0' = Units0 \o more
      /\ Units0 \in Seq(Unit) /\ (Aligned => Aligned')
  BY <1>2, <1>6, <1>8, StreamGrows
<1>10. PICK nr2 : /\ InTransit(Units0 \o more, nr2, q, n + 1, all, 0)
                  /\ Covered(Units0, nr, q, n, 0) => Covered(Units0 \o more, nr2, q, n + 1, 0)
  <2>1. InTransit(Units0, nr, q, n, all, 0)
    BY <1>1 DEF Traced
  <2>2. n + 1 \in n .. n + 1
    BY <1>3
  <2> QED BY <1>3, <1>6, <1>8, <1>9, <2>1, <2>2, TransitGrows
<1>11. Sending(all, n + 1, outbox', nextOut')
  <2>1. /\ Len(outbox') = Len(outbox) - 1 /\ outbox' \in Seq(Written)
        /\ \A k \in 1 .. Len(outbox) - 1 : outbox'[k] = outbox[k + 1]
    BY <1>2, <1>3, <1>4
  <2>2. ASSUME NEW k \in 1 .. Len(outbox')
        PROVE  all[(n + 1) + k] = Numbered(outbox'[k], NumberOf((n + 1) + k))
    <3>1. k + 1 \in 1 .. Len(outbox) /\ n + (k + 1) = (n + 1) + k
      BY <1>3, <2>1
    <3> QED BY <1>3, <2>1, <3>1
  <2>3. nextOut' = NumberOf((n + 1) + 1)
    <3>1. n + 1 \in Nat
      BY <1>3
    <3> QED BY <1>2, <1>3, <3>1, NumbersOf
  <2>4. n + 1 \in 0 .. Len(all) /\ Len(outbox') = Len(all) - (n + 1)
    BY <1>3, <1>4, <2>1
  <2> QED BY <2>2, <2>3, <2>4 DEF Sending
<1>12. Channel' = Channel
  BY <1>2 DEF Channel
<1>13. Traced(all, n + 1, nr2, q)'
  <2>1. /\ Sequenced(all, sent, complete) /\ Few(all, sent, renewals)
        /\ losses = 0 => Covered(Units0, nr, q, n, 0)
        /\ Receiver(Channel, q, all, sent, complete, losses)
    BY <1>1 DEF Traced
  <2>2. q \in 0 .. n + 1
    BY <1>3
  <2> QED BY <1>2, <1>9, <1>10, <1>11, <1>12, <2>1, <2>2 DEF Traced
<1>14. Typed'
  <2>1. nextOut' \in 0 .. Width - 1
    <3>1. nextOut' = NumberOf((n + 1) + 1) /\ (n + 1) + 1 \in Nat
      BY <1>3, <1>11 DEF Sending
    <3> QED BY <3>1, NumbersOf
  <2>2. outbox' \in Seq(Written)
    BY <1>2, <1>3
  <2> QED BY <1>2, <1>9, <1>12, <2>1, <2>2 DEF Typed
<1>15. Framed'
  BY <1>2, <1>9 DEF Framed
<1> QED BY <1>2, <1>13, <1>14, <1>15 DEF StreamInv

\* An OPN enters the socket, with the next number.
LEMMA ChannelRenewed ==
  ASSUME ReceptionAssumption, StreamInv, NEW size \in Units, Renew(size)
  PROVE  StreamInv'
<1>1. PICK all, n, nr, q : Traced(all, n, nr, q)
  BY DEF StreamInv
<1> DEFINE c == [type |-> "OPN", request |-> 0, part |-> 1, final |-> "F", number |-> nextOut]
           units == Bytes(c, size)
           more == <<c>>
           all2 == all \o more
<1>2. /\ Typed /\ Framed /\ Sorted(complete, sent)
      /\ outbox = <<>> /\ stream' = stream \o units /\ nextOut' = (nextOut + 1) % Width
      /\ renewals < MaxRenew /\ renewals' = renewals + 1
      /\ UNCHANGED <<outbox, sent, complete, kept, buffer, received, partial, delivered, jumped, losses>>
  BY DEF StreamInv, Renew, NumberAfter, receiver
<1>3. /\ all \in Seq(Chunk) /\ Len(all) \in Nat /\ n = Len(all) /\ q \in 0 .. n /\ n \in Nat
      /\ nextOut = NumberOf(n + 1) /\ nextOut \in 0 .. Width - 1
      /\ sent \in 0 .. MaxMessage /\ sent \in Nat /\ MaxMessage \in Nat
      /\ renewals \in Nat /\ MaxRenew \in Nat /\ complete \in Seq(Message)
  <2>1. all \in Seq(Chunk) /\ Len(all) \in Nat
    BY <1>1 DEF Traced, Sequenced
  <2>2. Len(outbox) = 0
    BY <1>2
  <2>3. MaxMessage \in Nat /\ MaxRenew \in Nat
    BY DEF ReceptionAssumption
  <2> QED BY <1>1, <1>2, <2>1, <2>2, <2>3 DEF Traced, Sending, Typed
<1>4. c \in Chunk /\ ~IsMessage(c) /\ c.type # "???" /\ c.final = "F" /\ c.number = NumberOf(n + 1)
  BY <1>3 DEF Chunk, IsMessage
<1> HIDE DEF c
<1>5. more \in Seq(Chunk) /\ Len(more) = 1 /\ more[1] = c /\ \A k \in 1 .. Len(more) : k = 1
  BY <1>4
<1> HIDE DEF more
<1>6. Added(more, Len(all), sent + 1)
  BY <1>3, <1>4, <1>5 DEF Added
<1>7. /\ all2 \in Seq(Chunk) /\ Len(all2) = n + 1
      /\ \A k \in 1 .. n : all2[k] = all[k]
      /\ all2[n + 1] = c
  <2>1. /\ all \o more \in Seq(Chunk) /\ Len(all \o more) = Len(all) + Len(more)
        /\ \A k \in 1 .. Len(all) : (all \o more)[k] = all[k]
        /\ \A k \in 1 .. Len(more) : (all \o more)[Len(all) + k] = more[k]
    <3>1. all \in Seq(Chunk) /\ more \in Seq(Chunk)
      BY <1>3, <1>5
    <3> QED BY ONLY <3>1, JoinedElements
  <2>2. 1 \in 1 .. Len(more)
    BY <1>5
  <2> QED BY <1>3, <1>5, <2>1, <2>2
<1> HIDE DEF all2
<1>8. Sequenced(all2, sent, complete)
  <2>1. Sequenced(all, sent, complete)
    BY <1>1 DEF Traced
  <2>2. \A k \in 1 .. Len(more) : ~IsMessage(more[k])
    BY <1>4, <1>5
  <2>3. sent \in Nat /\ sent <= sent
    BY <1>3
  <2>4. ToSet(complete) \subseteq ToSet(complete)
    OBVIOUS
  <2>5. \A k \in 1 .. Len(more) : IsMessage(more[k]) =>
          /\ sent + 1 = sent + 1 /\ sent + 1 <= sent
          /\ more[k].final = "F" =>
               [request |-> sent + 1, parts |-> Upto(Len(more))] \in ToSet(complete)
    BY <2>2
  <2>6. Sequenced(all \o more, sent, complete)
    BY ONLY ReceptionAssumption, <1>6, <2>1, <2>3, <2>4, <2>5, SequencedGrows
  <2> QED BY <2>6 DEF all2
<1>9. Receiver(Channel, q, all2, sent, complete, losses) /\ Channel \in ChannelState
  <2>1. Receiver(Channel, q, all, sent, complete, losses) /\ Channel \in ChannelState
    BY <1>1, <1>2 DEF Traced, Typed
  <2>2. \A k \in 1 .. Len(more) : ~IsMessage(more[k])
    BY <1>4, <1>5
  <2>3. sent <= MaxMessage /\ q \in 0 .. Len(all)
    BY <1>3
  <2> QED BY <1>2, <1>3, <1>6, <2>1, <2>2, <2>3, ReceiverSees DEF all2
<1>10. /\ units \in Seq(Unit) /\ Linked(units) /\ Len(units) = size /\ size \in Nat \ {0, 1}
       /\ \A k \in 1 .. size : units[k].unit = k /\ units[k].chunk = c
  BY <1>4, BytesAre
<1> HIDE DEF units
<1>11. /\ units # <<>> /\ units[1].unit = 1 /\ Begins(units[1]) /\ units[1].chunk = all2[n + 1]
       /\ \A k \in 1 .. Len(units) : ~IsForeign(units[k]) /\ (Begins(units[k]) => k = 1)
  <2>1. 1 \in 1 .. size /\ units # <<>>
    BY <1>10
  <2> QED BY <1>4, <1>7, <1>10, <2>1 DEF Begins, IsForeign
<1>12. /\ stream' \in Seq(Unit) /\ Linked(Ahead') /\ Units0' = Units0 \o units
       /\ Units0 \in Seq(Unit) /\ (Aligned => Aligned')
  BY <1>2, <1>10, <1>11, StreamGrows
<1>13. PICK nr2 : /\ InTransit(Units0 \o units, nr2, q, n + 1, all2, 0)
                  /\ Covered(Units0, nr, q, n, 0) => Covered(Units0 \o units, nr2, q, n + 1, 0)
  <2>1. InTransit(Units0, nr, q, n, all2, 0)
    <3>1. InTransit(Units0, nr, q, n, all, 0) /\ q \in Nat
      BY <1>1, <1>3 DEF Traced
    <3> QED BY <1>3, <1>7, <3>1, TransitSame
  <2>2. n + 1 \in n .. n + 1
    BY <1>3
  <2> QED BY <1>3, <1>10, <1>11, <1>12, <2>1, <2>2, TransitGrows
<1>14. Sending(all2, n + 1, outbox', nextOut') /\ nextOut' \in 0 .. Width - 1
  <2>1. nextOut' = NumberOf((n + 1) + 1) /\ nextOut' \in 0 .. Width - 1
    <3>1. n + 1 \in Nat /\ (n + 1) + 1 \in Nat
      BY <1>3
    <3>2. nextOut' = NumberOf((n + 1) + 1)
      BY <1>2, <1>3, <3>1, NumbersOf
    <3> QED BY <3>1, <3>2, NumbersOf
  <2>2. outbox' = <<>> /\ Len(outbox') = 0
    BY <1>2
  <2> QED BY <1>3, <1>7, <2>1, <2>2 DEF Sending
<1>15. Few(all2, sent, renewals')
  <2>1. Few(all, sent, renewals) /\ Len(all2) = Len(all) + 1
    BY <1>1, <1>3, <1>7 DEF Traced
  <2> QED BY <1>2, <1>3, <2>1, FewMore
<1>16. Channel' = Channel
  BY <1>2 DEF Channel
<1>17. PICK all3 : all3 = all2
  OBVIOUS
<1>18. Traced(all3, n + 1, nr2, q)'
  <2>1. losses = 0 => Covered(Units0, nr, q, n, 0)
    BY <1>1 DEF Traced
  <2>2. q \in 0 .. n + 1
    BY <1>3
  <2> QED BY <1>2, <1>8, <1>9, <1>12, <1>13, <1>14, <1>15, <1>16, <1>17, <2>1, <2>2 DEF Traced
<1>19. Typed'
  <2>1. renewals' \in 0 .. MaxRenew
    BY <1>2, <1>3
  <2> QED BY <1>2, <1>12, <1>14, <1>16, <2>1 DEF Typed
<1>20. Framed'
  BY <1>2, <1>12 DEF Framed
<1> QED BY <1>2, <1>18, <1>19, <1>20 DEF StreamInv

\* When more is lost, less is known of the channel.
LEMMA ReceiverLoses ==
  ASSUME NEW s, NEW q, NEW all, NEW begun, NEW whole, NEW lost \in Nat,
         Receiver(s, q, all, begun, whole, lost)
  PROVE  Receiver(s, q, all, begun, whole, lost + 1)
<1>1. lost + 1 # 0
  OBVIOUS
<1> QED BY <1>1 DEF Receiver

\* Bytes that are no chunk are no part of what was sent.
LEMMA ForeignSent ==
  ASSUME ReceptionAssumption, StreamInv, SendForeign
  PROVE  StreamInv'
<1>1. PICK all, n, nr, q : Traced(all, n, nr, q)
  BY DEF StreamInv
<1> DEFINE c == [type |-> "???"]
           more == Bytes(c, 2)
<1>2. /\ Typed /\ Framed /\ Sorted(complete, sent)
      /\ stream' = stream \o more /\ losses < MaxLoss /\ losses' = losses + 1
      /\ UNCHANGED <<outbox, nextOut, sent, complete, renewals, kept, buffer, received, partial,
                     delivered, jumped>>
  BY DEF StreamInv, SendForeign, sender, receiver
<1>3. losses \in Nat /\ MaxLoss \in Nat /\ losses' # 0 /\ losses' \in 0 .. MaxLoss
  <2>1. MaxLoss \in Nat
    BY DEF ReceptionAssumption
  <2> QED BY <1>2, <2>1 DEF Typed
<1>4. /\ more \in Seq(Unit) /\ Linked(more) /\ Len(more) = 2
      /\ \A k \in 1 .. 2 : more[k].unit = k /\ more[k].chunk = c
  <2>1. more \in Seq(Unit) /\ Linked(more) /\ Len(more) = 2
    BY ONLY ReceptionAssumption, BytesAre
  <2>2. \A k \in 1 .. 2 : more[k].unit = k /\ more[k].chunk = c
    BY ONLY ReceptionAssumption, BytesAre
  <2> QED BY <2>1, <2>2
<1> HIDE DEF more
<1>5. more # <<>> /\ more[1].unit = 1 /\ \A k \in 1 .. Len(more) : ~Begins(more[k])
  <2>1. 1 \in 1 .. 2 /\ more # <<>>
    <3>1. Len(more) = 2 /\ Len(<<>>) = 0
      BY <1>4
    <3>2. Len(more) # Len(<<>>)
      BY <3>1
    <3> QED BY <3>2
  <2> QED BY <1>4, <2>1 DEF Begins, IsForeign
<1>6. /\ stream' \in Seq(Unit) /\ Linked(Ahead') /\ Units0' = Units0 \o more
      /\ Units0 \in Seq(Unit)
  BY <1>2, <1>4, <1>5, StreamGrows
<1>7. n \in Nat /\ q \in 0 .. n
  <2>1. Len(all) \in Nat
    BY <1>1 DEF Traced, Sequenced
  <2> QED BY <1>1, <2>1 DEF Traced, Sending
<1>8. PICK nr2 : InTransit(Units0 \o more, nr2, q, n, all, 0)
  <2>1. InTransit(Units0, nr, q, n, all, 0)
    BY <1>1 DEF Traced
  <2>2. n \in n .. n + 1 /\ n # n + 1
    BY <1>7
  <2> QED BY <1>4, <1>5, <1>6, <1>7, <2>1, <2>2, TransitGrows
<1>9. Channel' = Channel
  BY <1>2 DEF Channel
<1>10. Traced(all, n, nr2, q)'
  <2>1. /\ Sequenced(all, sent, complete) /\ Few(all, sent, renewals)
        /\ Sending(all, n, outbox, nextOut)
        /\ Receiver(Channel, q, all, sent, complete, losses + 1)
    BY <1>1, <1>3, ReceiverLoses DEF Traced
  <2> QED BY <1>2, <1>3, <1>6, <1>7, <1>8, <1>9, <2>1 DEF Traced
<1>11. Typed'
  BY <1>2, <1>3, <1>6, <1>9 DEF Typed
<1>12. Framed'
  BY <1>2, <1>3, <1>6 DEF Framed
<1> QED BY <1>2, <1>10, <1>11, <1>12 DEF StreamInv

\* The bytes a read hands to completeMessages, what stays in the socket, and their whole chunks.
IsPiece(n, bytes, t, until) ==
  /\ n \in 1 .. Len(stream) /\ bytes = Joined(kept, stream, n) /\ t = Unread(stream, n)
  /\ until = CompleteUntil(bytes)

\* What happens to the units ahead when n of the stream are read, and all up to c of them leave.
LEMMA PieceRead ==
  ASSUME ReceptionAssumption, Typed, Framed,
         NEW n, NEW bytes, NEW t, NEW until, IsPiece(n, bytes, t, until)
  PROVE  /\ bytes \in Seq(Unit) /\ t \in Seq(Unit) /\ Ahead \in Seq(Unit)
         /\ Ahead = bytes \o t /\ Len(bytes) \in 0 .. Len(Ahead) /\ Len(t) = Len(stream) - n
         /\ until \in 0 .. Len(bytes) /\ until \in 0 .. Len(Ahead)
         /\ until = 0 \/ Ahead[until].unit = Ahead[until].size
         /\ \A k \in 1 .. until : ~IsForeign(Ahead[k])
         /\ ~WholeAt(bytes, until)
         /\ FirstOf(bytes, until) = FirstOf(Ahead, until)
         /\ Unread(bytes, until) \o t = Unread(Ahead, until)
         /\ t = Unread(Ahead, Len(bytes))
         /\ \A k \in 1 .. Len(bytes) : bytes[k] = Ahead[k]
<1>0. /\ n \in 1 .. Len(stream) /\ bytes = Joined(kept, stream, n) /\ t = Unread(stream, n)
      /\ until = CompleteUntil(bytes)
  BY DEF IsPiece
<1>1. stream \in Seq(Unit) /\ kept \in Seq(Unit)
  BY DEF Typed
<1>2. /\ bytes \in Seq(Unit) /\ t \in Seq(Unit) /\ Ahead = bytes \o t /\ Len(t) = Len(stream) - n
  <2>1. n \in 1 .. Len(stream)
    BY <1>0
  <2>2. /\ Joined(kept, stream, n) \in Seq(Unit) /\ Unread(stream, n) \in Seq(Unit)
        /\ kept \o stream = Joined(kept, stream, n) \o Unread(stream, n)
        /\ Len(Unread(stream, n)) = Len(stream) - n
    BY ONLY <1>1, <2>1, Pieces
  <2>3. bytes = Joined(kept, stream, n) /\ t = Unread(stream, n)
    BY <1>0
  <2> QED BY ONLY <2>2, <2>3 DEF Ahead
<1>3. /\ Ahead \in Seq(Unit) /\ Len(Ahead) = Len(bytes) + Len(t) /\ Len(bytes) \in Nat /\ Len(t) \in Nat
      /\ \A k \in 1 .. Len(bytes) : bytes[k] = Ahead[k]
  <2>1. bytes \in Seq(Unit) /\ t \in Seq(Unit)
    BY <1>2
  <2>2. /\ bytes \o t \in Seq(Unit) /\ Len(bytes \o t) = Len(bytes) + Len(t)
        /\ \A k \in 1 .. Len(bytes) : (bytes \o t)[k] = bytes[k]
    BY ONLY <2>1, JoinedElements
  <2> QED BY <1>2, <2>1, <2>2
<1>4. \A k \in 1 .. Len(bytes) - 1 : Follows(bytes[k], bytes[k + 1])
  <2>1. TAKE k \in 1 .. Len(bytes) - 1
  <2>2. k \in 1 .. Len(Ahead) - 1 /\ k \in 1 .. Len(bytes) /\ k + 1 \in 1 .. Len(bytes)
    BY <1>3
  <2>3. Follows(Ahead[k], Ahead[k + 1])
    BY <2>2 DEF Framed, Linked
  <2> QED BY <1>3, <2>2, <2>3
<1>5. /\ until \in 0 .. Len(bytes)
      /\ until = 0 \/ bytes[until].unit = bytes[until].size
      /\ \A k \in 1 .. until : ~IsForeign(bytes[k])
      /\ ~WholeAt(bytes, until)
  BY <1>0, <1>2, <1>4, UntilIs
<1>6. /\ Unread(bytes, until) \o t = Unread(Ahead, until)
      /\ FirstOf(bytes, until) = FirstOf(Ahead, until)
      /\ t = Unread(Ahead, Len(bytes))
      /\ until \in 0 .. Len(Ahead) /\ Len(bytes) \in 0 .. Len(Ahead)
  <2>1. bytes \in Seq(Unit) /\ t \in Seq(Unit) /\ until \in 0 .. Len(bytes)
    BY <1>2, <1>5
  <2>2. /\ SubSeq(bytes, until + 1, Len(bytes)) \o t = SubSeq(bytes \o t, until + 1, Len(bytes \o t))
        /\ SubSeq(bytes, 1, until) = SubSeq(bytes \o t, 1, until)
        /\ t = SubSeq(bytes \o t, Len(bytes) + 1, Len(bytes \o t))
        /\ until \in 0 .. Len(bytes \o t) /\ Len(bytes) \in 0 .. Len(bytes \o t)
    BY ONLY <2>1, RestOf
  <2> QED BY <1>2, <2>2 DEF Unread, FirstOf
<1>7. until = 0 \/ Ahead[until].unit = Ahead[until].size
  <2>1. until # 0 => until \in 1 .. Len(bytes)
    BY <1>3, <1>5
  <2> QED BY <1>3, <1>5, <2>1
<1>8. \A k \in 1 .. until : ~IsForeign(Ahead[k])
  <2>1. \A k \in 1 .. until : k \in 1 .. Len(bytes)
    BY <1>3, <1>5
  <2> QED BY <1>3, <1>5, <2>1
<1> QED BY <1>2, <1>3, <1>5, <1>6, <1>7, <1>8

\* The units up to a come into the buffer, those from a + 1 to b are dropped.
LEMMA UnitsCut ==
  ASSUME NEW list \in Seq(Unit), NEW a \in 0 .. Len(list), NEW b \in a .. Len(list),
         buffer = <<>>, Ahead = list, buffer' = SubSeq(list, 1, a),
         Ahead' = SubSeq(list, b + 1, Len(list))
  PROVE  Units0 = list /\ Units0' = Cut(list, a, b)
<1>1. <<>> \o list = list
  OBVIOUS
<1> QED BY <1>1 DEF Units0, Cut

\* Where nothing is lost, the rest is the beginning of a chunk, and is none when all was read.
LEMMA NothingDropped ==
  ASSUME ReceptionAssumption, Typed, Framed, Aligned,
         NEW n, NEW bytes, NEW t, NEW until, IsPiece(n, bytes, t, until)
  PROVE  /\ Rest(bytes, until) = SubSeq(bytes, until + 1, Len(bytes))
         /\ n = Len(stream) => until = Len(bytes)
         /\ until < Len(Ahead) => Ahead[until + 1].unit = 1
<1>1. /\ bytes \in Seq(Unit) /\ t \in Seq(Unit) /\ Ahead \in Seq(Unit)
      /\ Ahead = bytes \o t /\ Len(bytes) \in 0 .. Len(Ahead) /\ Len(t) = Len(stream) - n
      /\ until \in 0 .. Len(bytes) /\ until \in 0 .. Len(Ahead)
      /\ until = 0 \/ Ahead[until].unit = Ahead[until].size
      /\ ~WholeAt(bytes, until)
      /\ \A k \in 1 .. Len(bytes) : bytes[k] = Ahead[k]
  BY PieceRead
<1>2. /\ Len(bytes) \in Nat /\ Len(Ahead) \in Nat /\ until \in Nat
      /\ \A k \in 1 .. Len(Ahead) : /\ Ahead[k].unit \in Nat /\ Ahead[k].size \in Nat \ {0, 1}
                                    /\ ~IsForeign(Ahead[k]) /\ Ahead[k].chunk.type \in {"MSG", "OPN"}
                                    /\ Ahead[k] \in Unit
  <2>1. Len(bytes) \in Nat /\ Len(Ahead) \in Nat /\ until \in Nat
    BY <1>1
  <2>2. \A k \in 1 .. Len(Ahead) : ~IsForeign(Ahead[k]) /\ Ahead[k] \in Unit
    BY <1>1 DEF Aligned
  <2> QED BY <2>1, <2>2, UnitParts
<1>3. \A k \in 1 .. Len(Ahead) - 1 : Follows(Ahead[k], Ahead[k + 1])
  BY DEF Framed, Linked
<1>4. ASSUME until < Len(Ahead) PROVE Ahead[until + 1].unit = 1
  <2>1. CASE until = 0
    <3>1. Ahead # <<>>
      <4>1. Len(Ahead) # Len(<<>>)
        BY <1>2, <1>4
      <4> QED BY <4>1
    <3> QED BY <2>1, <3>1 DEF Aligned
  <2>2. CASE until # 0
    <3>1. until \in 1 .. Len(Ahead) - 1
      BY <1>2, <1>4, <2>2
    <3>2. Follows(Ahead[until], Ahead[until + 1])
      BY <1>3, <3>1
    <3> QED BY <1>1, <2>2, <3>2 DEF Follows
  <2> QED BY <2>1, <2>2
<1>5. ASSUME Len(bytes) - until >= 2 PROVE HeaderAt(bytes, until)
  <2>1. /\ until + 1 \in 1 .. Len(bytes) /\ until + 2 \in 1 .. Len(bytes)
        /\ until + 1 \in 1 .. Len(Ahead) - 1 /\ (until + 1) + 1 = until + 2 /\ until < Len(Ahead)
        /\ until + 1 \in 1 .. Len(Ahead)
    BY <1>1, <1>2, <1>5
  <2>2. Ahead[until + 1].unit = 1 /\ Follows(Ahead[until + 1], Ahead[until + 2])
    BY <1>3, <1>4, <2>1
  <2>3. Ahead[until + 1].size # 1
    BY <1>2, <2>1
  <2>4. Ahead[until + 2].unit = 2
    BY <2>2, <2>3 DEF Follows
  <2> QED BY <1>1, <1>2, <2>1, <2>2, <2>4 DEF HeaderAt
<1>6. Rest(bytes, until) = SubSeq(bytes, until + 1, Len(bytes))
  BY <1>5 DEF Rest
<1>7. ASSUME n = Len(stream), until # Len(bytes) PROVE FALSE
  <2>1. Len(Ahead) = Len(bytes)
    <3>1. Len(t) = 0
      BY <1>1, <1>7
    <3>2. Len(bytes \o t) = Len(bytes) + Len(t)
      <4>1. bytes \in Seq(Unit) /\ t \in Seq(Unit)
        BY <1>1
      <4> QED BY ONLY <4>1, JoinedElements
    <3> QED BY <1>1, <1>2, <3>1, <3>2
  <2> DEFINE k == until + 1
             N == Len(Ahead)
             size == Ahead[k].size
  <2>2. k \in 1 .. N /\ until < N /\ k \in Nat /\ N \in Nat /\ size \in Nat \ {0, 1}
    <3>1. until < Len(Ahead)
      <4>1. until \in 0 .. Len(bytes) /\ Len(bytes) \in Nat /\ until # Len(bytes)
        BY <1>1, <1>2, <1>7
      <4> HIDE DEF k, N, size
      <4>2. until < Len(bytes)
        BY ONLY <4>1
      <4> QED BY <2>1, <4>2
    <3>2. until + 1 \in 1 .. Len(Ahead)
      BY <1>2, <3>1
    <3>3. Ahead[until + 1].size \in Nat \ {0, 1}
      BY <1>2, <3>2
    <3> QED BY <1>2, <3>1, <3>2, <3>3
  <2>3. Ahead[k].unit = 1
    BY <1>4, <2>2
  <2>4. Ahead[N].unit = Ahead[N].size
    <3>1. Ahead # <<>>
      BY <2>2
    <3> QED BY <3>1 DEF Framed, Linked
  <2>5. \A j \in 0 .. size - 1 :
          k + j <= N => /\ Ahead[k + j].chunk = Ahead[k].chunk /\ Ahead[k + j].unit = j + 1
                        /\ Ahead[k + j].size = size
    <3>1. N \in 0 .. Len(Ahead) /\ k \in 1 .. N
      BY <1>2, <2>2
    <3>2. \A i \in 1 .. N - 1 : Follows(Ahead[i], Ahead[i + 1])
      BY <1>3
    <3> HIDE DEF k, N
    <3> QED BY <1>1, <2>3, <3>1, <3>2, UnitsOfChunk
  <2> HIDE DEF k, N, size
  <2>6. until + size <= N
    <3>1. SUFFICES ASSUME N - k < size - 1 PROVE FALSE
      BY <1>2, <2>2 DEF k
    <3>2. N - k \in 0 .. size - 1 /\ k + (N - k) = N
      BY <2>2, <3>1
    <3>3. Ahead[N].unit = (N - k) + 1 /\ Ahead[N].size = size
      <4> DEFINE j == N - k
      <4>1. j \in 0 .. size - 1 /\ k + j = N /\ k + j <= N
        BY <2>2, <3>2
      <4> HIDE DEF j
      <4>2. Ahead[k + j].unit = j + 1 /\ Ahead[k + j].size = size
        BY <2>5, <4>1
      <4>3. j + 1 = (N - k) + 1
        BY DEF j
      <4> QED BY <4>1, <4>2, <4>3
    <3>4. (N - k) + 1 = size
      BY <2>4, <3>3, <1>1 DEF N
    <3> QED BY <2>2, <3>1, <3>4
  <2>7. Len(bytes) - until >= 2 /\ until + bytes[until + 1].size <= Len(bytes)
    <3>1. bytes[until + 1] = Ahead[until + 1] /\ Len(bytes) = N
      BY <1>1, <2>1, <2>2 DEF k, N
    <3>2. Ahead[until + 1].size = size
      BY DEF size, k
    <3>3. size \in Nat /\ size >= 2 /\ until \in Nat /\ N \in Nat
      BY <1>2, <2>2
    <3>4. bytes[until + 1].size = size
      BY <3>1, <3>2
    <3>5. N - until >= 2 /\ until + size <= N
      BY ONLY <2>6, <3>3
    <3> QED BY <3>1, <3>4, <3>5
  <2> QED BY <1>1, <1>5, <2>7 DEF WholeAt
<1> QED BY <1>4, <1>6, <1>7

\* The units of a piece go to the buffer up to a, and are kept from b + 1 on.
LEMMA PieceTaken ==
  ASSUME ReceptionAssumption, StreamInv, buffer = <<>>,
         NEW a \in 0 .. Len(Ahead), NEW b \in a .. Len(Ahead),
         stream' \in Seq(Unit), kept' \in Seq(Unit),
         buffer' = SubSeq(Ahead, 1, a), Ahead' = SubSeq(Ahead, b + 1, Len(Ahead)),
         \A k \in 1 .. a : ~IsForeign(Ahead[k]),
         UNCHANGED <<sender, received, partial, delivered, jumped>>,
         losses' \in 0 .. MaxLoss, losses' = losses \/ losses' = losses + 1,
         losses' = 0 => a = b /\ Aligned'
  PROVE  StreamInv'
<1>1. PICK all, n, nr, q : Traced(all, n, nr, q)
  BY DEF StreamInv
<1>2. PICK list : list = Ahead
  OBVIOUS
<1>3. /\ Typed /\ Framed /\ Sorted(complete, sent)
      /\ UNCHANGED <<outbox, nextOut, sent, complete, renewals, received, partial, delivered, jumped>>
  BY DEF StreamInv, sender
<1>4. list \in Seq(Unit)
  <2>1. kept \in Seq(Unit) /\ stream \in Seq(Unit)
    BY <1>3 DEF Typed
  <2>2. kept \o stream \in Seq(Unit)
    BY ONLY <2>1, JoinedElements
  <2> QED BY <1>2, <2>2 DEF Ahead
<1>5. a \in 0 .. Len(list) /\ b \in a .. Len(list)
  BY <1>2
<1>6. Units0 = list /\ Units0' = Cut(list, a, b)
  <2>1. /\ buffer = <<>> /\ Ahead = list /\ buffer' = SubSeq(list, 1, a)
        /\ Ahead' = SubSeq(list, b + 1, Len(list))
    BY <1>2
  <2> QED BY ONLY <1>4, <1>5, <2>1, UnitsCut
<1>7. losses \in Nat /\ n \in Nat /\ q \in Nat /\ q \in 0 .. n
  <2>1. Len(all) \in Nat
    BY <1>1 DEF Traced, Sequenced
  <2>2. n \in 0 .. Len(all) /\ q \in 0 .. n
    BY <1>1 DEF Traced, Sending
  <2>3. losses \in Nat
    BY <1>3 DEF Typed
  <2> QED BY ONLY <2>1, <2>2, <2>3
<1>8. PICK nr2 : /\ InTransit(Cut(list, a, b), nr2, q, n, all, 0)
                 /\ Covered(list, nr, q, n, 0) /\ a = b => Covered(Cut(list, a, b), nr2, q, n, 0)
  <2>1. InTransit(list, nr, q, n, all, 0)
    BY <1>1, <1>6 DEF Traced
  <2>2. 0 \in 0 .. Len(list)
    BY <1>4
  <2>3. \E nr2 : /\ InTransit(Cut(list, a, b), nr2, q, n, all, 0)
                 /\ Covered(list, nr, q, n, 0) /\ (a = b \/ b = 0) =>
                      Covered(Cut(list, a, b), nr2, q, n, 0)
    BY ONLY ReceptionAssumption, <1>4, <1>5, <1>7, <2>1, <2>2, TransitCut
  <2> QED BY <2>3
<1>9. Channel' = Channel
  BY <1>3 DEF Channel
<1>10. Traced(all, n, nr2, q)'
  <2>1. Receiver(Channel, q, all, sent, complete, losses')
    <3>1. Receiver(Channel, q, all, sent, complete, losses)
      BY <1>1 DEF Traced
    <3>2. Receiver(Channel, q, all, sent, complete, losses + 1)
      BY <1>7, <3>1, ReceiverLoses
    <3> QED BY <3>1, <3>2
  <2>2. losses' = 0 => Covered(Units0', nr2, q, n, 0)
    <3>1. losses' = 0 => losses = 0 /\ a = b
      BY <1>7
    <3>2. losses = 0 => Covered(list, nr, q, n, 0)
      BY <1>1, <1>6 DEF Traced
    <3> QED BY <1>6, <1>8, <3>1, <3>2
  <2>3. Sequenced(all, sent, complete) /\ Few(all, sent, renewals) /\ Sending(all, n, outbox, nextOut)
    BY <1>1 DEF Traced
  <2> QED BY <1>3, <1>6, <1>7, <1>8, <1>9, <2>1, <2>2, <2>3 DEF Traced
<1>11. buffer' \in Seq(Unit) /\ \A k \in 1 .. Len(buffer') : ~IsForeign(buffer'[k])
  <2>1. /\ SubSeq(list, 1, a) \in Seq(Unit) /\ Len(SubSeq(list, 1, a)) = a
        /\ \A k \in 1 .. a : SubSeq(list, 1, a)[k] = list[k]
    BY ONLY <1>4, <1>5, StartOf
  <2>2. buffer' = SubSeq(list, 1, a)
    BY <1>2
  <2> QED BY <1>2, <2>1, <2>2
<1>12. Linked(Ahead')
  <2>1. Linked(list)
    BY <1>2, <1>3 DEF Framed
  <2>2. b \in 0 .. Len(list)
    BY <1>4, <1>5
  <2>3. Linked(SubSeq(list, b + 1, Len(list)))
    BY ONLY <1>4, <2>1, <2>2, LinkedEnd
  <2> QED BY <1>2, <2>3
<1>13. Typed'
  BY <1>3, <1>9, <1>11 DEF Typed
<1>14. Framed'
  BY <1>11, <1>12 DEF Framed
<1> QED BY <1>3, <1>10, <1>13, <1>14 DEF StreamInv

\* UA_Connection_completeMessages: the whole chunks of what was kept and read.
LEMMA PieceArrived ==
  ASSUME ReceptionAssumption, StreamInv, NEW n, Arrive(n)
  PROVE  StreamInv'
<1>1. PICK bytes, t, until : IsPiece(n, bytes, t, until)
  <2>1. n \in 1 .. Len(stream)
    BY DEF Arrive
  <2> QED BY <2>1 DEF IsPiece
<1>2. /\ n \in 1 .. Len(stream) /\ bytes = Joined(kept, stream, n) /\ t = Unread(stream, n)
      /\ until = CompleteUntil(bytes)
  BY <1>1 DEF IsPiece
<1> DEFINE rest == Unread(bytes, until)
<1>3. /\ buffer = <<>> /\ n \in 1 .. Len(stream) /\ stream' = t
      /\ buffer' = SubSeq(bytes, 1, until) /\ kept' = Rest(bytes, until)
      /\ UNCHANGED <<sender, received, partial, delivered, jumped, losses>>
  BY <1>2 DEF Arrive, Joined, Unread
<1>4. Typed /\ Framed
  BY DEF StreamInv
<1>5. /\ bytes \in Seq(Unit) /\ t \in Seq(Unit) /\ Ahead \in Seq(Unit)
      /\ Len(bytes) \in 0 .. Len(Ahead) /\ Len(t) = Len(stream) - n
      /\ until \in 0 .. Len(bytes) /\ until \in 0 .. Len(Ahead)
      /\ \A k \in 1 .. until : ~IsForeign(Ahead[k])
      /\ SubSeq(bytes, 1, until) = SubSeq(Ahead, 1, until)
      /\ rest \o t = SubSeq(Ahead, until + 1, Len(Ahead))
      /\ t = SubSeq(Ahead, Len(bytes) + 1, Len(Ahead))
  <2>2. /\ bytes \in Seq(Unit) /\ t \in Seq(Unit) /\ Ahead \in Seq(Unit)
        /\ Len(bytes) \in 0 .. Len(Ahead) /\ Len(t) = Len(stream) - n
        /\ until \in 0 .. Len(bytes) /\ until \in 0 .. Len(Ahead)
        /\ \A k \in 1 .. until : ~IsForeign(Ahead[k])
        /\ FirstOf(bytes, until) = FirstOf(Ahead, until)
        /\ Unread(bytes, until) \o t = Unread(Ahead, until)
        /\ t = Unread(Ahead, Len(bytes))
    BY ONLY ReceptionAssumption, <1>1, <1>4, PieceRead
  <2> QED BY <2>2 DEF FirstOf, Unread
<1>6. /\ Len(bytes) \in Nat /\ Len(Ahead) \in Nat /\ until \in Nat /\ until <= Len(bytes)
      /\ Len(bytes) \in until .. Len(Ahead) /\ until \in until .. Len(Ahead)
  BY ONLY <1>5
<1>7. rest \in Seq(Unit) /\ <<>> \in Seq(Unit) /\ Len(rest) = Len(bytes) - until
  <2>1. /\ SubSeq(bytes, until + 1, Len(bytes)) \in Seq(Unit)
        /\ Len(SubSeq(bytes, until + 1, Len(bytes))) = Len(bytes) - until
    BY ONLY <1>5, EndOf
  <2> QED BY <2>1 DEF Unread
<1> HIDE DEF rest
<1>8. losses \in 0 .. MaxLoss /\ losses' = losses
  BY <1>3, <1>4 DEF Typed
<1>9. CASE kept' = rest
  <2>1. Ahead' = SubSeq(Ahead, until + 1, Len(Ahead))
    BY <1>3, <1>5, <1>9 DEF Ahead
  <2>2. ASSUME losses' = 0 PROVE Aligned'
    <3>1. Aligned
      BY <1>4, <1>8, <2>2 DEF Framed
    <3>2. /\ n = Len(stream) => until = Len(bytes)
          /\ until < Len(Ahead) => Ahead[until + 1].unit = 1
      BY <1>1, <1>4, <3>1, NothingDropped
    <3>3. PICK list : list = Ahead
      OBVIOUS
    <3> DEFINE new == SubSeq(list, until + 1, Len(list))
    <3>4. /\ new \in Seq(Unit) /\ Len(new) = Len(list) - until
          /\ \A k \in 1 .. Len(list) - until : new[k] = list[k + until]
      <4>1. list \in Seq(Unit) /\ until \in 0 .. Len(list)
        BY <1>5, <3>3
      <4> QED BY ONLY <4>1, EndOf
    <3>5. new = Ahead'
      BY <2>1, <3>3
    <3> HIDE DEF new
    <3>6. \A k \in 1 .. Len(new) : ~IsForeign(new[k])
      <4>1. ASSUME NEW k \in 1 .. Len(new) PROVE ~IsForeign(new[k])
        <5>1. k \in 1 .. Len(list) - until /\ k + until \in 1 .. Len(list)
          BY <1>6, <3>3, <3>4
        <5>2. ~IsForeign(list[k + until])
          BY <3>1, <3>3, <5>1 DEF Aligned
        <5> QED BY <3>4, <5>1, <5>2
      <4> QED BY <4>1
    <3>7. ASSUME new # <<>> PROVE new[1].unit = 1
      <4>1. Len(new) # 0
        BY <3>4, <3>7
      <4>2. 1 \in 1 .. Len(list) - until /\ until < Len(Ahead)
        BY <1>6, <3>3, <3>4, <4>1
      <4>3. new[1] = list[1 + until] /\ 1 + until = until + 1
        BY <1>6, <3>4, <4>2
      <4> QED BY <3>2, <3>3, <4>2, <4>3
    <3>8. ASSUME t = <<>> PROVE rest = <<>>
      <4>1. n = Len(stream)
        <5>1. Len(t) = 0
          BY <3>8
        <5>2. stream \in Seq(Unit)
          BY <1>4 DEF Typed
        <5> QED BY <1>3, <1>5, <5>1, <5>2
      <4>2. until = Len(bytes)
        BY <3>2, <4>1
      <4>3. Len(rest) = 0
        BY <1>6, <1>7, <4>2
      <4> QED BY <1>7, <4>3
    <3> QED BY <1>3, <1>9, <3>5, <3>6, <3>7, <3>8 DEF Aligned
  <2>3. kept' \in Seq(Unit) /\ stream' \in Seq(Unit) /\ buffer' = SubSeq(Ahead, 1, until)
    BY <1>3, <1>5, <1>7, <1>9
  <2>4. UNCHANGED <<sender, received, partial, delivered, jumped>>
    BY <1>3
  <2> QED BY <1>3, <1>5, <1>6, <1>8, <2>1, <2>2, <2>3, <2>4, PieceTaken
<1>10. CASE kept' # rest
  <2>1. losses # 0
    <3>1. SUFFICES ASSUME losses = 0 PROVE FALSE
      OBVIOUS
    <3>2. Aligned
      BY <1>4, <3>1 DEF Framed
    <3>3. Rest(bytes, until) = SubSeq(bytes, until + 1, Len(bytes))
      BY <1>1, <1>4, <3>2, NothingDropped
    <3> QED BY <1>3, <1>10, <3>3 DEF rest, Unread
  <2>2. kept' = <<>>
    BY <1>3, <1>10 DEF Rest, rest, Unread
  <2>3. Ahead' = SubSeq(Ahead, Len(bytes) + 1, Len(Ahead))
    <3>1. <<>> \o t = t
      BY <1>5
    <3> QED BY <1>3, <1>5, <2>2, <3>1 DEF Ahead
  <2>4. kept' \in Seq(Unit) /\ stream' \in Seq(Unit) /\ buffer' = SubSeq(Ahead, 1, until)
    BY <1>3, <1>5, <1>7, <2>2
  <2>5. UNCHANGED <<sender, received, partial, delivered, jumped>>
    BY <1>3
  <2> QED BY <1>3, <1>5, <1>6, <1>8, <2>1, <2>3, <2>4, <2>5, PieceTaken
<1> QED BY <1>9, <1>10

\* A buffer could not be allocated: what was kept and read is gone.
LEMMA PieceLost ==
  ASSUME ReceptionAssumption, StreamInv, NEW n, ArriveLost(n)
  PROVE  StreamInv'
<1>1. PICK bytes, t, until : IsPiece(n, bytes, t, until)
  <2>1. n \in 1 .. Len(stream)
    BY DEF ArriveLost
  <2> QED BY <2>1 DEF IsPiece
<1>2. /\ buffer = <<>> /\ stream' = t /\ kept' = <<>> /\ buffer' = <<>>
      /\ losses < MaxLoss /\ losses' = losses + 1
      /\ UNCHANGED <<sender, received, partial, delivered, jumped>>
  BY <1>1 DEF ArriveLost, IsPiece, Unread
<1>3. Typed /\ Framed
  BY DEF StreamInv
<1>4. /\ t \in Seq(Unit) /\ Ahead \in Seq(Unit) /\ Len(bytes) \in 0 .. Len(Ahead)
      /\ t = Unread(Ahead, Len(bytes))
  BY ONLY ReceptionAssumption, <1>1, <1>3, PieceRead
<1>5. losses' \in 0 .. MaxLoss /\ losses' # 0
  <2>1. MaxLoss \in Nat
    BY DEF ReceptionAssumption
  <2>2. losses \in 0 .. MaxLoss
    BY <1>3 DEF Typed
  <2> QED BY <1>2, <2>1, <2>2
<1>6. buffer' = SubSeq(Ahead, 1, 0)
  <2>1. 0 \in 0 .. Len(Ahead)
    BY <1>4
  <2>2. SubSeq(Ahead, 1, 0) \in Seq(Unit) /\ Len(SubSeq(Ahead, 1, 0)) = 0
    BY ONLY <1>4, <2>1, StartOf
  <2> QED BY <1>2, <2>2
<1>7. Ahead' = SubSeq(Ahead, Len(bytes) + 1, Len(Ahead))
  <2>1. <<>> \o t = t
    BY <1>4
  <2> QED BY <1>2, <1>4, <2>1 DEF Ahead, Unread
<1>8. /\ stream' \in Seq(Unit) /\ kept' \in Seq(Unit)
      /\ 0 \in 0 .. Len(Ahead) /\ Len(bytes) \in 0 .. Len(Ahead)
      /\ \A k \in 1 .. 0 : ~IsForeign(Ahead[k])
  BY <1>2, <1>4
<1> QED BY <1>2, <1>5, <1>6, <1>7, <1>8, PieceTaken

\* UA_Server_processBinaryMessage: the chunks of the buffer.
LEMMA BufferDone ==
  ASSUME ReceptionAssumption, StreamInv, Process
  PROVE  StreamInv'
<1>1. PICK all, n, nr, q : Traced(all, n, nr, q)
  BY DEF StreamInv
<1>2. PICK list : list = Units0
  OBVIOUS
<1>3. /\ Typed /\ Framed /\ Sorted(complete, sent)
      /\ received' = Processed.received /\ partial' = Processed.partial
      /\ delivered' = Processed.delivered /\ jumped' = Processed.jumped /\ buffer' = <<>>
      /\ UNCHANGED <<outbox, nextOut, sent, complete, renewals, stream, kept, losses>>
  BY DEF StreamInv, Process, sender
<1>4. /\ buffer \in Seq(Unit) /\ Ahead \in Seq(Unit) /\ list \in Seq(Unit)
      /\ Len(buffer) \in 0 .. Len(list) /\ Len(buffer) <= Len(list)
      /\ \A k \in 1 .. Len(buffer) : list[k] = buffer[k]
      /\ Ahead = SubSeq(list, Len(buffer) + 1, Len(list))
  <2>1. buffer \in Seq(Unit) /\ kept \in Seq(Unit) /\ stream \in Seq(Unit)
    BY <1>3 DEF Typed
  <2>2. kept \o stream \in Seq(Unit)
    BY ONLY <2>1, JoinedElements
  <2>3. Ahead \in Seq(Unit)
    BY <2>2 DEF Ahead
  <2>4. PICK rest : rest = Ahead
    OBVIOUS
  <2>5. rest \in Seq(Unit) /\ buffer \in Seq(Unit)
    BY <2>1, <2>3, <2>4
  <2>6. /\ buffer \o rest \in Seq(Unit) /\ Len(buffer \o rest) = Len(buffer) + Len(rest)
        /\ \A k \in 1 .. Len(buffer) : (buffer \o rest)[k] = buffer[k]
    BY ONLY <2>5, JoinedElements
  <2>7. Len(buffer) \in 0 .. Len(buffer)
    BY <2>1
  <2>8. /\ rest = SubSeq(buffer \o rest, Len(buffer) + 1, Len(buffer \o rest))
        /\ Len(buffer) \in 0 .. Len(buffer \o rest)
    BY ONLY <2>5, <2>7, RestOf
  <2>9. list = buffer \o rest
    BY <1>2, <2>4 DEF Units0
  <2>10. Len(buffer) <= Len(buffer \o rest)
    BY ONLY <2>5, <2>8
  <2> QED BY <2>1, <2>3, <2>4, <2>6, <2>8, <2>9, <2>10
<1>5. /\ Sequenced(all, sent, complete) /\ Few(all, sent, renewals) /\ Sending(all, n, outbox, nextOut)
      /\ InTransit(list, nr, q, n, all, 0) /\ (losses = 0 => Covered(list, nr, q, n, 0))
      /\ Receiver(Channel, q, all, sent, complete, losses) /\ Channel \in ChannelState
      /\ n \in 0 .. Len(all) /\ q \in 0 .. n /\ n \in Nat /\ Len(all) \in Nat
      /\ sent \in 0 .. MaxMessage /\ renewals \in 0 .. MaxRenew /\ complete \in Seq(Message)
  <2>1. /\ Sequenced(all, sent, complete) /\ Few(all, sent, renewals) /\ Sending(all, n, outbox, nextOut)
        /\ InTransit(list, nr, q, n, all, 0) /\ (losses = 0 => Covered(list, nr, q, n, 0))
        /\ Receiver(Channel, q, all, sent, complete, losses) /\ q \in 0 .. n
    BY <1>1, <1>2 DEF Traced
  <2>2. Len(all) \in Nat /\ n \in 0 .. Len(all)
    BY <2>1 DEF Sequenced, Sending
  <2>3. n \in Nat
    BY ONLY <2>2
  <2> QED BY <1>3, <2>1, <2>2, <2>3 DEF Typed
<1>6. FewerThanNumbers => Len(all) < Width
  BY ONLY ReceptionAssumption, <1>5, FewNumbers
<1>7. \A k \in 1 .. Len(buffer) : ~IsForeign(buffer[k])
  BY <1>3 DEF Framed
<1>8. Processed \in ChannelState
  BY ONLY ReceptionAssumption, <1>3, <1>4, <1>5, <1>6, <1>7, BufferProcessed
<1>9. PICK r \in 0 .. n : /\ Receiver(Processed, r, all, sent, complete, losses)
                          /\ InTransit(list, nr, r, n, all, Len(buffer))
                          /\ losses = 0 => Covered(list, nr, r, n, Len(buffer))
  BY ONLY ReceptionAssumption, <1>3, <1>4, <1>5, <1>6, <1>7, BufferProcessed
<1>10. /\ Channel' \in ChannelState /\ Receiver(Channel', r, all, sent, complete, losses)
  <2> DEFINE p == Processed
  <2>1. p \in ChannelState
    BY <1>8
  <2>2. Channel' = [received |-> p.received, partial |-> p.partial, delivered |-> p.delivered,
                    jumped |-> p.jumped, stopped |-> FALSE]
    BY <1>3 DEF Channel
  <2> HIDE DEF p
  <2>3. /\ Channel' \in ChannelState /\ Channel'.received = p.received
        /\ Channel'.partial = p.partial /\ Channel'.delivered = p.delivered
        /\ Channel'.jumped = p.jumped
    BY <2>1, <2>2 DEF ChannelState
  <2>4. Receiver(p, r, all, sent, complete, losses)
    BY <1>9 DEF p
  <2> QED BY <2>3, <2>4 DEF Receiver
<1>11. Ahead' = Ahead /\ Units0' = Cut(list, 0, Len(buffer))
  <2>1. Ahead' = Ahead
    BY <1>3 DEF Ahead
  <2>2. Units0' = <<>> \o Ahead
    BY <1>3, <2>1 DEF Units0
  <2>3. SubSeq(list, 1, 0) = <<>>
    <3>1. 0 \in 0 .. Len(list)
      BY <1>4
    <3>2. SubSeq(list, 1, 0) \in Seq(Unit) /\ Len(SubSeq(list, 1, 0)) = 0
      BY ONLY <1>4, <3>1, StartOf
    <3> QED BY <3>2
  <2> QED BY <1>4, <2>1, <2>2, <2>3 DEF Cut
<1>12. PICK nr2 : /\ InTransit(Cut(list, 0, Len(buffer)), nr2, r, n, all, 0)
                  /\ Covered(list, nr, r, n, Len(buffer)) =>
                       Covered(Cut(list, 0, Len(buffer)), nr2, r, n, 0)
  <2>1. PICK from : from = Len(buffer)
    OBVIOUS
  <2>2. from \in 0 .. Len(list) /\ 0 \in 0 .. Len(list)
    BY <1>4, <2>1
  <2>3. r \in Nat /\ n \in Nat
    BY <1>5
  <2>4. InTransit(list, nr, r, n, all, from)
    BY <1>9, <2>1
  <2>5. \E nr2 : /\ InTransit(Cut(list, 0, from), nr2, r, n, all, 0)
                 /\ Covered(list, nr, r, n, from) => Covered(Cut(list, 0, from), nr2, r, n, 0)
    BY <1>4, <2>2, <2>3, <2>4, TransitCut
  <2> QED BY <2>1, <2>5
<1>13. Traced(all, n, nr2, r)'
  BY <1>3, <1>5, <1>9, <1>10, <1>11, <1>12 DEF Traced
<1>14. Typed'
  <2>1. <<>> \in Seq(Unit)
    OBVIOUS
  <2> QED BY <1>3, <1>10, <2>1 DEF Typed
<1>15. Framed'
  <2>1. \A k \in 1 .. Len(buffer') : ~IsForeign(buffer'[k])
    BY <1>3
  <2>2. Aligned' <=> Aligned
    BY <1>3, <1>11 DEF Aligned
  <2> QED BY <1>3, <1>11, <2>1, <2>2 DEF Framed
<1> QED BY <1>3, <1>13, <1>14, <1>15 DEF StreamInv

\* The first state: nothing was sent, and nothing arrived.
LEMMA StreamInvInit ==
  ASSUME ReceptionAssumption, StreamInit
  PROVE  StreamInv
BY StreamStart

\* Every step of the two ends, and of what is between them, keeps the invariant.
LEMMA StreamInvStays ==
  ASSUME ReceptionAssumption, StreamInv, [StreamNext]_streamVars
  PROVE  StreamInv'
<1>1. CASE StreamNext
  <2>1. CASE \E n \in PartCounts : \E fails \in 0 .. n : SendMessage(n, fails)
    BY <2>1, MessageBegun
  <2>2. CASE \E size \in Units : SendChunk(size) \/ Renew(size)
    BY <2>2, ChunkSent, ChannelRenewed
  <2>3. CASE SendForeign
    BY <2>3, ForeignSent
  <2>4. CASE \E n \in 1 .. MaxInFlight : Arrive(n) \/ ArriveLost(n)
    BY <2>4, PieceArrived, PieceLost
  <2>5. CASE Process
    BY <2>5, BufferDone
  <2> QED BY <1>1, <2>1, <2>2, <2>3, <2>4, <2>5 DEF StreamNext
<1>2. CASE UNCHANGED streamVars
  <2>1. UNCHANGED <<outbox, nextOut, sent, complete, renewals, stream, kept, buffer, received,
                    partial, delivered, jumped, losses>>
    BY <1>2 DEF streamVars, sender, receiver
  <2>2. Channel' = Channel /\ Ahead' = Ahead /\ Units0' = Units0
    BY <2>1 DEF Channel, Ahead, Units0
  <2>3. PICK all, n, nr, q : Traced(all, n, nr, q)
    BY DEF StreamInv
  <2>4. Traced(all, n, nr, q)'
    BY <2>1, <2>2, <2>3 DEF Traced
  <2>5. Typed' /\ Framed' /\ Sorted(complete', sent')
    BY <2>1, <2>2 DEF StreamInv, Typed, Framed, Aligned
  <2> QED BY <2>4, <2>5 DEF StreamInv
<1> QED BY <1>1, <1>2

LEMMA StreamInvTypes ==
  ASSUME ReceptionAssumption, StreamInv
  PROVE  StreamTypeOK
<1>1. Typed
  BY DEF StreamInv
<1>2. \A u \in ToSet(stream) \cup ToSet(kept) \cup ToSet(buffer) : u \in Unit
  <2>1. stream \in Seq(Unit) /\ kept \in Seq(Unit) /\ buffer \in Seq(Unit)
    BY <1>1 DEF Typed
  <2>2. /\ \A k \in DOMAIN stream : stream[k] \in Unit
        /\ \A k \in DOMAIN kept : kept[k] \in Unit
        /\ \A k \in DOMAIN buffer : buffer[k] \in Unit
    BY ONLY <2>1, ElementsOfSeq
  <2> QED BY <2>2 DEF ToSet
<1>3. /\ received \in 0 .. Width - 1 /\ partial \in [1 .. MaxMessage -> Seq(Nat)]
      /\ delivered \in Seq(Message) /\ jumped \in BOOLEAN
  BY <1>1 DEF Typed, Channel, ChannelState
<1>4. \A k \in DOMAIN delivered : delivered[k] \in [request : 1 .. MaxMessage, parts : Seq(Nat)]
  BY <1>3, ElementsOfSeq DEF Message
<1>5. /\ nextOut \in 0 .. Width - 1 /\ sent \in 0 .. MaxMessage /\ losses \in 0 .. MaxLoss
      /\ renewals \in 0 .. MaxRenew
  BY <1>1 DEF Typed
<1> QED BY <1>2, <1>3, <1>4, <1>5 DEF StreamTypeOK

LEMMA StreamInvWhole ==
  ASSUME ReceptionAssumption, FewerThanNumbers, StreamInv
  PROVE  WholeMessages
<1>1. PICK all, n, nr, q : Traced(all, n, nr, q)
  BY DEF StreamInv
<1>2. Receiver(Channel, q, all, sent, complete, losses) /\ Typed
  BY <1>1 DEF StreamInv, Traced
<1>3. losses \in Nat /\ jumped \in BOOLEAN /\ delivered \in Seq(Message)
  BY <1>2 DEF Typed, Channel, ChannelState
<1>4. losses = 0 => ~jumped
  BY <1>2 DEF Receiver, Channel
<1>5. ASSUME ~jumped PROVE InOrder(delivered, q, all, complete)
  BY <1>2, <1>5 DEF Receiver, Channel
<1>6. DOMAIN delivered = 1 .. Len(delivered)
  BY <1>3
<1>7. ASSUME ~jumped
      PROVE  /\ \A k \in DOMAIN delivered : delivered[k] \in ToSet(complete)
             /\ \A i, k \in DOMAIN delivered : i < k => delivered[i].request < delivered[k].request
  BY <1>5, <1>6, <1>7 DEF InOrder
<1>8. jumped => losses > 0
  BY <1>3, <1>4
<1> QED BY <1>3, <1>7, <1>8 DEF WholeMessages

LEMMA StreamInvLeft ==
  ASSUME ReceptionAssumption, StreamInv
  PROVE  NothingLeft
<1>1. SUFFICES ASSUME losses = 0, stream = <<>>, buffer = <<>>, outbox = <<>>
               PROVE  /\ delivered = complete /\ kept = <<>>
                      /\ \A r \in 1 .. MaxMessage : partial[r] = NoParts
  BY DEF NothingLeft
<1>2. PICK all, n, nr, q : Traced(all, n, nr, q)
  BY DEF StreamInv
<1>3. /\ Typed /\ Sequenced(all, sent, complete) /\ Sending(all, n, outbox, nextOut)
      /\ Covered(Units0, nr, q, n, 0) /\ Receiver(Channel, q, all, sent, complete, 0)
      /\ q \in 0 .. n
  BY <1>1, <1>2 DEF StreamInv, Traced
<1>4. kept = <<>>
  BY <1>1 DEF StreamInv, Framed, Aligned
<1>5. Len(all) \in Nat /\ n = Len(all) /\ q \in Nat /\ q <= n
  <2>1. Len(all) \in Nat /\ n \in 0 .. Len(all) /\ Len(outbox) = Len(all) - n
    BY <1>3 DEF Sequenced, Sending
  <2>2. Len(outbox) = 0
    BY <1>1
  <2> QED BY <1>3, <2>1, <2>2
<1>6. q = n
  <2>1. Len(Units0) = 0
    <3>1. Units0 = <<>>
      BY <1>1, <1>4 DEF Units0, Ahead
    <3> QED BY <3>1
  <2>2. SUFFICES ASSUME q # n PROVE FALSE
    OBVIOUS
  <2>3. q + 1 \in q + 1 .. n
    BY <1>5, <2>2
  <2>4. PICK i \in 0 + 1 .. Len(Units0) : nr[i] = q + 1
    BY <1>3, <2>3 DEF Covered
  <2> QED BY <2>1, <2>4
<1>7. Complete(partial, delivered, q, all, complete)
  BY <1>3 DEF Receiver, Channel
<1>8. delivered \in Seq(Message) /\ complete \in Seq(Message)
  BY <1>3 DEF Typed, Channel, ChannelState
<1>9. delivered = complete
  <2>1. /\ Len(delivered) \in Nat /\ Len(complete) \in Nat /\ Len(delivered) <= Len(complete)
        /\ \A k \in 1 .. Len(delivered) : delivered[k] = complete[k]
    BY <1>7, <1>8 DEF Complete
  <2>2. Len(delivered) = Len(complete)
    <3>1. SUFFICES ASSUME Len(delivered) # Len(complete) PROVE FALSE
      OBVIOUS
    <3>2. Len(delivered) + 1 \in Len(delivered) + 1 .. Len(complete)
      BY <2>1, <3>1
    <3>3. PICK p \in q + 1 .. Len(all) : IsMessage(all[p])
      BY <1>7, <3>2 DEF Complete
    <3> QED BY <1>5, <1>6, <3>3
  <2> QED BY ONLY <1>8, <2>1, <2>2, SameSeq
<1>10. ASSUME NEW r \in 1 .. MaxMessage, partial[r] # NoParts PROVE FALSE
  <2>1. q >= 1 /\ all[q].final = "C"
    BY <1>7, <1>10 DEF Complete
  <2>2. q \in 1 .. Len(all)
    BY <1>5, <1>6, <2>1
  <2>3. q < Len(all)
    BY <1>3, <2>1, <2>2 DEF Sequenced, Ordered
  <2> QED BY <1>5, <1>6, <2>3
<1> QED BY <1>4, <1>9, <1>10

\* The units in transit, the numbers, the parts and the messages of one channel stay within
\* their types (14765-14868, 15160-15495).
THEOREM ReceptionTypes ==
  ASSUME ReceptionAssumption PROVE StreamSpec => []StreamTypeOK
<1>1. StreamSpec => []StreamInv
  BY StreamInvInit, StreamInvStays, PTL DEF StreamSpec
<1>2. StreamInv => StreamTypeOK
  BY StreamInvTypes
<1> QED BY <1>1, <1>2, PTL

\* Whatever pieces the bytes come in, and although some are lost, what a channel hands on are
\* messages that were sent, whole, each at most once and in their order, as long as fewer
\* chunks are sent than there are numbers (14789-14847, 15387-15397, 15456-15490).
THEOREM MessagesStayWhole ==
  ASSUME ReceptionAssumption, FewerThanNumbers PROVE StreamSpec => []WholeMessages
<1>1. StreamSpec => []StreamInv
  BY StreamInvInit, StreamInvStays, PTL DEF StreamSpec
<1>2. StreamInv => WholeMessages
  BY StreamInvWhole
<1> QED BY <1>1, <1>2, PTL

\* Where nothing was lost and all was read, every whole message has been handed on, and
\* neither the connection nor the channel keeps a part of one (14833-14856, 15298, 15356).
THEOREM NoPartIsLeft ==
  ASSUME ReceptionAssumption PROVE StreamSpec => []NothingLeft
<1>1. StreamSpec => []StreamInv
  BY StreamInvInit, StreamInvStays, PTL DEF StreamSpec
<1>2. StreamInv => NothingLeft
  BY StreamInvLeft
<1> QED BY <1>1, <1>2, PTL

=============================================================================
