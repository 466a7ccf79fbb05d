--------------------------- MODULE Throttle_proofs ---------------------------
(* Service calls: at most once, in the order of the calls, each result to its  *)
(* own call, whatever the number of clients, tasks, faults, renewals and       *)
(* restarts.                                                                   *)
EXTENDS Throttle, SequenceTheorems, TLAPS

Own(c) == {t \in Tasks : task[t].by = c}

\* The tasks of c bear the numbers c gave out, each once; those that were pushed
\* after the same OPN bear its number, and no OPN was sent between them.
Numbered(c) ==
  /\ client[c].base <= client[c].seq
  /\ state[c] = "off" => Own(c) = {} /\ wire[c] = <<>>
  /\ \A t \in Own(c) :
       /\ task[t].ch = client[c].ch
       /\ task[t].base < task[t].seq /\ task[t].seq <= client[c].seq
       /\ task[t].base <= client[c].base
       /\ client[c].base < task[t].seq => task[t].base = client[c].base
       /\ task[t].req <= client[c].req
  /\ \A t, u \in Own(c) :
       /\ task[t].seq = task[u].seq \/ task[t].req = task[u].req => t = u
       /\ task[u].base < task[t].seq /\ task[t].seq < task[u].seq => task[u].base = task[t].base

\* The request that is waited for is the last one; if its task could not be
\* created no other task bears its id.
Waited(c) ==
  state[c] = "waiting" => \A t \in Own(c) : task[t].req = client[c].req => t = call[c]

Counted(m) == m.kind \in {"opn", "close"}

\* An OPN under way was sent after the tasks with lower numbers and before those
\* that bear a base as high as its own; CloseSession was sent after all tasks.
Placed(c, m) ==
  /\ m.kind = "opn" =>
       /\ 0 < m.seq /\ m.seq <= client[c].base
       /\ \A t \in Own(c) : task[t].seq < m.seq \/ m.seq <= task[t].base
  /\ m.kind = "close" =>
       /\ state[c] \in {"closing", "gone"}
       /\ client[c].base < m.seq /\ m.seq = client[c].seq
       /\ \A t \in Own(c) : task[t].seq < m.seq

\* What was sent by TCP comes in the order it was sent.
Wired(c) ==
  /\ \A i \in DOMAIN wire[c] : Placed(c, wire[c][i])
  /\ \A i, k \in DOMAIN wire[c] :
       i < k /\ Counted(wire[c][i]) /\ Counted(wire[c][k]) => wire[c][i].seq < wire[c][k].seq

\* A channel belongs to the one client that opened it.
Owned ==
  \A id \in DOMAIN channels :
    LET c == channels[id].owner
    IN client[c].ch = id /\ state[c] # "off" /\ channels[id].peer \in {c, NoClient}

\* The tasks that exist were pushed by clients, and one of them is worked on.
Queued ==
  /\ queue \subseteq 1 .. nextTask - 1
  /\ phase # "idle" => current \in 1 .. nextTask - 1
  /\ \A t \in Tasks : task[t].by \in Clients <=> t < nextTask
  /\ \A i \in DOMAIN executed : executed[i] < nextTask
  /\ held # NoChannel => phase = "process" /\ held = task[current].ch

\* Every call of c after the OPN with number b was carried out, up to number r.
CarriedOut(c, b, r) ==
  \A n \in b + 1 .. r : \E i \in DOMAIN executed :
    LET u == task[executed[i]] IN u.by = c /\ u.base = b /\ u.seq = n

\* What the sequence number r of the channel of c says of what is behind it and
\* of what is still to come; open: the session is not closed.
Reached(c, r, open) ==
  /\ r <= client[c].seq
  /\ \A i \in DOMAIN wire[c] : Counted(wire[c][i]) => r < wire[c][i].seq
  /\ \A i \in DOMAIN executed : task[executed[i]].by = c => task[executed[i]].seq <= r
  /\ open => CarriedOut(c, client[c].base, r)
  /\ \A t \in Own(c) : r < task[t].seq => CarriedOut(c, task[t].base, r)
  /\ ~open => r = client[c].seq /\ state[c] \in {"closing", "gone"}

\* The sequence number of a channel is not behind what its client had carried out
\* before it first renewed its token, whosever tasks the channel accepted.
First(id) ==
  \A i \in DOMAIN executed :
    LET u == task[executed[i]]
    IN u.by = channels[id].owner /\ u.base = 0 => u.seq <= channels[id].received

Passed(id) ==
  /\ First(id)
  /\ OwnNumber(channels[id].owner) =>
       Reached(channels[id].owner, channels[id].received, channels[id].session)

\* A result is that of the task it names; that of CloseSession comes when no
\* call is waited for any more.
Answering(c) ==
  \A i \in DOMAIN replies[c] :
    LET r == replies[c][i]
    IN r.kind = "result" =>
         IF r.of = NoTask THEN state[c] \in {"closing", "gone"}
         ELSE task[r.of].by = c /\ task[r.of].req = r.req

Related ==
  /\ Owned
  /\ \A c \in Clients : Numbered(c) /\ Waited(c) /\ Wired(c) /\ Answering(c)
  /\ \A id \in DOMAIN channels : Passed(id)
  /\ AtMostOnce /\ InCallOrder /\ CloseWaits

IInv == TypeOK /\ Queued /\ Related

-----------------------------------------------------------------------------
(* Types                                                                       *)

Messages == [kind : {"opn", "close", "clo", "fin"}, token : Nat, seq : Nat]

ClientRecords ==
  [ch : Nat, base : Nat, seq : Nat, req : Nat, token : Nat, heard : BOOLEAN]

Answers ==
  [kind : {"opn", "result", "error"}, token : Nat, req : Nat, of : Tasks \cup {NoTask}]

\* Channels of a server that gave out the tokens below n.
SecureChannels(n) ==
  [peer : Clients \cup {NoClient}, owner : Clients, session : BOOLEAN, received : Nat,
   token : 1 .. n - 1, next : 0 .. n - 1]

QueueTyped ==
  /\ queue \subseteq Tasks /\ nextTask \in 1 .. MaxTask + 1 /\ missed \subseteq Tasks
  /\ phase \in {"idle", "process", "delete"} /\ current \in Tasks \cup {NoTask}

TaskTyped == task \in [Tasks -> Chunks]

StateTyped ==
  state \in [Clients -> {"off", "open", "renewing", "renewed", "failed", "waiting",
                         "closing", "gone"}]

ClientTyped == client \in [Clients -> ClientRecords]

CallTyped == call \in [Clients -> Tasks \cup {NoTask}] /\ due \in [Clients -> BOOLEAN]

SocketTyped == socket \in [Clients -> {"none", "up", "reset", "shut"}]

WireTyped == wire \in [Clients -> Seq(Messages)]

RepliesTyped == replies \in [Clients -> Seq(Answers)]

ServerTyped ==
  up \in BOOLEAN /\ lastChannelId \in Nat \ {0} /\ lastTokenId \in Nat \ {0} /\ held \in Nat

ChannelsTyped ==
  /\ DOMAIN channels \subseteq 1 .. lastChannelId - 1
  /\ \A id \in DOMAIN channels : channels[id] \in SecureChannels(lastTokenId)

BoundsTyped == faults \in 0 .. MaxFault /\ renewals \in 0 .. MaxRenew /\ starts \in 0 .. MaxStart

HistoryTyped == executed \in Seq(Tasks) /\ gaveUp \subseteq Clients

Typed ==
  /\ QueueTyped /\ TaskTyped
  /\ StateTyped /\ ClientTyped /\ CallTyped
  /\ SocketTyped /\ WireTyped /\ RepliesTyped
  /\ ServerTyped /\ ChannelsTyped
  /\ BoundsTyped /\ HistoryTyped

SameNumbers(c) ==
  /\ client'[c].ch = client[c].ch /\ client'[c].base = client[c].base
  /\ client'[c].seq = client[c].seq /\ client'[c].req = client[c].req

\* Tokens apart, channels j and k are in the same state.
SameButTokens(j, k) ==
  j.peer = k.peer /\ j.owner = k.owner /\ j.session = k.session /\ j.received = k.received

LEMMA Parts == TypeOK <=> Typed
BY DEF TypeOK, Typed, QueueTyped, TaskTyped, StateTyped, ClientTyped, CallTyped, SocketTyped,
       WireTyped, RepliesTyped, ServerTyped, ChannelsTyped, BoundsTyped, HistoryTyped, Messages,
       Answers, SecureChannels, ClientRecords

\* g is f but for c, whose record has these fields.
Becomes(f, g, c, ch, base, seq, req, token, heard) ==
  /\ g \in [Clients -> ClientRecords]
  /\ \A d \in Clients \ {c} : g[d] = f[d]
  /\ g[c] = [ch |-> ch, base |-> base, seq |-> seq, req |-> req, token |-> token, heard |-> heard]

LEMMA Fields ==
  ASSUME NEW f \in [Clients -> ClientRecords], NEW c \in Clients, NEW n \in Nat, NEW h \in BOOLEAN,
         NEW k, k = f[c]
  PROVE  /\ Becomes(f, [f EXCEPT ![c].ch = n], c, n, k.base, k.seq, k.req, k.token, k.heard)
         /\ Becomes(f, [f EXCEPT ![c].base = n], c, k.ch, n, k.seq, k.req, k.token, k.heard)
         /\ Becomes(f, [f EXCEPT ![c].seq = n], c, k.ch, k.base, n, k.req, k.token, k.heard)
         /\ Becomes(f, [f EXCEPT ![c].req = n], c, k.ch, k.base, k.seq, n, k.token, k.heard)
         /\ Becomes(f, [f EXCEPT ![c].token = n], c, k.ch, k.base, k.seq, k.req, n, k.heard)
         /\ Becomes(f, [f EXCEPT ![c].heard = h], c, k.ch, k.base, k.seq, k.req, k.token, h)
BY DEF ClientRecords, Becomes

LEMMA Connected ==
  ASSUME ClientTyped, ServerTyped, NEW c \in Clients, Connect(c), NEW k, k = client[c]
  PROVE  Becomes(client, client', c, lastChannelId, k.base, k.seq, k.req, lastTokenId, k.heard)
<1>0. lastChannelId \in Nat /\ lastTokenId \in Nat /\ client \in [Clients -> ClientRecords]
  BY DEF ServerTyped, ClientTyped
<1>1. PICK j : j = [client EXCEPT ![c].ch = lastChannelId]
  OBVIOUS
<1>2. client' = [j EXCEPT ![c].token = lastTokenId]
  BY <1>1 DEF Connect
<1>3. Becomes(client, j, c, lastChannelId, k.base, k.seq, k.req, k.token, k.heard)
  BY <1>0, <1>1, Fields
<1>4. j \in [Clients -> ClientRecords]
  BY <1>3 DEF Becomes
<1>5. Becomes(j, client', c, j[c].ch, j[c].base, j[c].seq, j[c].req, lastTokenId, j[c].heard)
  BY <1>0, <1>2, <1>4, Fields
<1> QED BY <1>3, <1>5 DEF Becomes

LEMMA CountedOn ==
  ASSUME ClientTyped, NEW c \in Clients, NEW k, k = client[c]
  PROVE  Becomes(client, [client EXCEPT ![c].seq = @ + 1, ![c].req = @ + 1],
                 c, k.ch, k.base, k.seq + 1, k.req + 1, k.token, k.heard)
<1>1. PICK g : g = [client EXCEPT ![c].seq = @ + 1, ![c].req = @ + 1]
  OBVIOUS
<1>2. PICK j : j = [client EXCEPT ![c].seq = k.seq + 1]
  OBVIOUS
<1>3. client \in [Clients -> ClientRecords] /\ k.seq + 1 \in Nat /\ k.req + 1 \in Nat
  BY DEF ClientTyped, ClientRecords
<1>4. Becomes(client, j, c, k.ch, k.base, k.seq + 1, k.req, k.token, k.heard)
  BY <1>2, <1>3, Fields
<1>5. j \in [Clients -> ClientRecords] /\ j[c].req = k.req
  BY <1>4 DEF Becomes
<1>6. g = [j EXCEPT ![c].req = k.req + 1]
  BY <1>1, <1>2, <1>5
<1>7. Becomes(j, g, c, j[c].ch, j[c].base, j[c].seq, k.req + 1, j[c].token, j[c].heard)
  BY <1>3, <1>5, <1>6, Fields
<1>8. Becomes(client, g, c, k.ch, k.base, k.seq + 1, k.req + 1, k.token, k.heard)
  BY <1>4, <1>7 DEF Becomes
<1> QED BY <1>1, <1>8

LEMMA Renewing ==
  ASSUME ClientTyped, NEW c \in Clients, Renew(c), NEW k, k = client[c]
  PROVE  Becomes(client, client', c, k.ch, k.seq + 1, k.seq + 1, k.req + 1, k.token, k.heard)
<1>0. client \in [Clients -> ClientRecords] /\ k.seq + 1 \in Nat
  BY DEF ClientTyped, ClientRecords
<1>1. PICK j : j = [client EXCEPT ![c].seq = @ + 1, ![c].req = @ + 1]
  OBVIOUS
<1>2. client' = [j EXCEPT ![c].base = k.seq + 1]
  BY <1>1 DEF Renew
<1>3. Becomes(client, j, c, k.ch, k.base, k.seq + 1, k.req + 1, k.token, k.heard)
  BY <1>1, CountedOn
<1>4. j \in [Clients -> ClientRecords]
  BY <1>3 DEF Becomes
<1>5. Becomes(j, client', c, j[c].ch, k.seq + 1, j[c].seq, j[c].req, j[c].token, j[c].heard)
  BY <1>0, <1>2, <1>4, Fields
<1> QED BY <1>3, <1>5 DEF Becomes

LEMMA HeardOf ==
  ASSUME ClientTyped, NEW c \in Clients, NEW n \in Nat, NEW h \in BOOLEAN, NEW k, k = client[c]
  PROVE  /\ Becomes(client, [client EXCEPT ![c].token = n, ![c].heard = h],
                    c, k.ch, k.base, k.seq, k.req, n, h)
         /\ Becomes(client, [client EXCEPT ![c].heard = h],
                    c, k.ch, k.base, k.seq, k.req, k.token, h)
<1>1. PICK g : g = [client EXCEPT ![c].token = n, ![c].heard = h]
  OBVIOUS
<1>2. PICK j : j = [client EXCEPT ![c].token = n]
  OBVIOUS
<1>3. client \in [Clients -> ClientRecords]
  BY DEF ClientTyped
<1>4. Becomes(client, j, c, k.ch, k.base, k.seq, k.req, n, k.heard)
  BY <1>2, <1>3, Fields
<1>5. j \in [Clients -> ClientRecords]
  BY <1>4 DEF Becomes
<1>6. g = [j EXCEPT ![c].heard = h]
  BY <1>1, <1>2
<1>7. Becomes(j, g, c, j[c].ch, j[c].base, j[c].seq, j[c].req, j[c].token, h)
  BY <1>5, <1>6, Fields
<1>8. Becomes(client, g, c, k.ch, k.base, k.seq, k.req, n, h)
  BY <1>4, <1>7 DEF Becomes
<1>9. Becomes(client, [client EXCEPT ![c].heard = h],
              c, k.ch, k.base, k.seq, k.req, k.token, h)
  BY <1>3, Fields
<1> QED BY <1>1, <1>8, <1>9

LEMMA Sending ==
  ASSUME WireTyped, ClientTyped, NEW c \in Clients, NEW s \in Seq(Messages), Send(c, s)
  PROVE  WireTyped'
BY DEF WireTyped, Send

LEMMA Messaging ==
  ASSUME ClientTyped, NEW c \in Clients, NEW kind \in {"opn", "close", "clo", "fin"}, NEW n \in Nat
  PROVE  Message(kind, c, n) \in Messages
BY DEF ClientTyped, ClientRecords, Message, Messages

LEMMA Shutting ==
  ASSUME WireTyped, SocketTyped, RepliesTyped, ClientTyped, NEW c \in Clients,
         NEW s \in Seq(Messages), Shut(c, s)
  PROVE  WireTyped' /\ SocketTyped' /\ RepliesTyped'
<1>1. s \o <<Message("fin", c, 0)>> \in Seq(Messages)
  BY Messaging
<1>2. WireTyped'
  BY <1>1, Sending DEF Shut
<1>3. SocketTyped' /\ RepliesTyped'
  BY DEF Shut, SocketTyped, RepliesTyped
<1> QED BY <1>2, <1>3

LEMMA AnswerTyped ==
  ASSUME RepliesTyped, NEW c \in Clients, NEW kind \in {"opn", "result", "error"},
         NEW token \in Nat, NEW req \in Nat, NEW t \in Tasks \cup {NoTask},
         Answer(c, kind, token, req, t)
  PROVE  RepliesTyped'
<1> DEFINE a == [kind |-> kind, token |-> token, req |-> req, of |-> t]
<1>1. a \in Answers
  BY DEF Answers
<1>2. replies[c] \in Seq(Answers) /\ Append(replies[c], a) \in Seq(Answers)
  BY <1>1 DEF RepliesTyped
<1>3. replies' = IF socket[c] = "up" THEN [replies EXCEPT ![c] = Append(replies[c], a)] ELSE replies
  BY DEF Answer
<1> QED BY <1>2, <1>3 DEF RepliesTyped

LEMMA Reading ==
  ASSUME RepliesTyped, NEW c \in Clients, replies[c] # <<>>
  PROVE  /\ Head(replies[c]) \in Answers
         /\ [replies EXCEPT ![c] = Tail(@)] \in [Clients -> Seq(Answers)]
BY DEF RepliesTyped

\* A message the client takes or drops changes none of its numbers.
LEMMA Receiving ==
  ASSUME ClientTyped, RepliesTyped, NEW c \in Clients,
         ReceiveRenewal(c) \/ ReceiveReply(c) \/ DropReply(c)
  PROVE  ClientTyped' /\ RepliesTyped' /\ \A d \in Clients : SameNumbers(d)
<1>1. replies[c] # <<>> /\ replies' = [replies EXCEPT ![c] = Tail(@)]
  BY DEF ReceiveRenewal, ReceiveReply, DropReply
<1>2. RepliesTyped' /\ Head(replies[c]).token \in Nat
  BY <1>1, Reading DEF RepliesTyped, Answers
<1>3. PICK n \in Nat, h \in BOOLEAN :
        \/ client' = [client EXCEPT ![c].token = n, ![c].heard = h]
        \/ client' = [client EXCEPT ![c].heard = h]
  <2>1. CASE ReceiveRenewal(c)
    BY <1>2, <2>1 DEF ReceiveRenewal
  <2>2. CASE ReceiveReply(c)
    BY <2>2 DEF ReceiveReply, ClientTyped, ClientRecords
  <2>3. CASE DropReply(c)
    BY <2>3 DEF DropReply
  <2> QED BY <2>1, <2>2, <2>3
<1>4. PICK k : k = client[c]
  OBVIOUS
<1>5. PICK m : Becomes(client, client', c, k.ch, k.base, k.seq, k.req, m, h)
  <2>1. /\ Becomes(client, [client EXCEPT ![c].token = n, ![c].heard = h],
                   c, k.ch, k.base, k.seq, k.req, n, h)
        /\ Becomes(client, [client EXCEPT ![c].heard = h],
                   c, k.ch, k.base, k.seq, k.req, k.token, h)
    BY <1>4, HeardOf
  <2>2. CASE client' = [client EXCEPT ![c].token = n, ![c].heard = h]
    BY <2>1, <2>2, Zenon
  <2>3. CASE client' = [client EXCEPT ![c].heard = h]
    BY <2>1, <2>3, Zenon
  <2> QED BY <1>3, <2>2, <2>3, Zenon
<1>6. /\ client' \in [Clients -> ClientRecords]
      /\ \A d \in Clients \ {c} : client'[d] = client[d]
  BY <1>5 DEF Becomes
<1>7. SameNumbers(c)
  BY <1>4, <1>5 DEF Becomes, SameNumbers
<1> QED BY <1>2, <1>6, <1>7 DEF ClientTyped, SameNumbers

LEMMA Taking ==
  ASSUME WireTyped, NEW c \in Clients, wire[c] # <<>>
  PROVE  /\ Head(wire[c]) \in Messages
         /\ [wire EXCEPT ![c] = Tail(@)] \in [Clients -> Seq(Messages)]
BY DEF WireTyped

LEMMA SeenTyped ==
  ASSUME ChannelsTyped, ServerTyped, NEW id \in DOMAIN channels
  PROVE  /\ Revolve(channels[id]) \in SecureChannels(lastTokenId)
         /\ SameButTokens(Revolve(channels[id]), channels[id])
         /\ \A token : Seen(id, token) \in {channels[id], Revolve(channels[id])}
<1>1. PICK k : k = channels[id]
  OBVIOUS
<1>2. k \in SecureChannels(lastTokenId)
  BY <1>1 DEF ChannelsTyped
<1>3. PICK j : j = [k EXCEPT !.token = k.next]
  OBVIOUS
<1>4. j = [peer |-> k.peer, owner |-> k.owner, session |-> k.session, received |-> k.received,
           token |-> k.next, next |-> k.next]
  BY <1>2, <1>3 DEF SecureChannels
<1>5. [j EXCEPT !.next = NoToken] =
        [peer |-> k.peer, owner |-> k.owner, session |-> k.session, received |-> k.received,
         token |-> k.next, next |-> NoToken]
  BY <1>4
<1>6. [k EXCEPT !.token = k.next, !.next = NoToken] = [j EXCEPT !.next = NoToken]
  BY <1>3
<1>7. Revolve(k) = IF k.next = NoToken THEN k
                   ELSE [peer |-> k.peer, owner |-> k.owner, session |-> k.session,
                         received |-> k.received, token |-> k.next, next |-> NoToken]
  BY <1>5, <1>6 DEF Revolve
<1>8. Revolve(k) \in SecureChannels(lastTokenId) /\ SameButTokens(Revolve(k), k)
  BY <1>2, <1>7 DEF SecureChannels, SameButTokens, ServerTyped, NoToken
<1> QED BY <1>1, <1>8 DEF Seen

LEMMA ChannelChanged ==
  ASSUME ChannelsTyped, lastTokenId \in Nat, lastTokenId' \in Nat, lastTokenId' >= lastTokenId,
         lastChannelId' = lastChannelId, NEW id, NEW k \in SecureChannels(lastTokenId'),
         channels' = [channels EXCEPT ![id] = k]
  PROVE  ChannelsTyped'
<1>1. DOMAIN channels' = DOMAIN channels
  OBVIOUS
<1>2. ASSUME NEW j \in DOMAIN channels PROVE channels'[j] \in SecureChannels(lastTokenId')
  <2>1. channels[j] \in SecureChannels(lastTokenId)
    BY DEF ChannelsTyped
  <2> QED BY <2>1 DEF SecureChannels
<1> QED BY <1>1, <1>2 DEF ChannelsTyped

LEMMA Renumbered ==
  ASSUME NEW n \in Nat, NEW m \in Nat, n <= m, NEW k \in SecureChannels(n), NEW r \in Nat,
         NEW t \in 0 .. m - 1
  PROVE  /\ [k EXCEPT !.received = r, !.next = t] \in SecureChannels(m)
         /\ [k EXCEPT !.received = r, !.next = t].received = r
         /\ [k EXCEPT !.received = r, !.next = t].peer = k.peer
         /\ [k EXCEPT !.received = r, !.next = t].owner = k.owner
         /\ [k EXCEPT !.received = r, !.next = t].session = k.session
<1>1. PICK j : j = [k EXCEPT !.received = r]
  OBVIOUS
<1>2. j = [peer |-> k.peer, owner |-> k.owner, session |-> k.session, received |-> r,
           token |-> k.token, next |-> k.next]
  BY <1>1 DEF SecureChannels
<1>3. PICK i : i = [j EXCEPT !.next = t]
  OBVIOUS
<1>4. i = [peer |-> k.peer, owner |-> k.owner, session |-> k.session, received |-> r,
           token |-> k.token, next |-> t]
  BY <1>2, <1>3
<1>5. i = [k EXCEPT !.received = r, !.next = t]
  BY <1>1, <1>3
<1>6. i \in SecureChannels(m) /\ i.received = r /\ i.peer = k.peer /\ i.owner = k.owner
      /\ i.session = k.session
  BY <1>4 DEF SecureChannels
<1> QED BY <1>5, <1>6, Zenon

LEMMA Closed ==
  ASSUME NEW n, NEW k \in SecureChannels(n)
  PROVE  /\ [k EXCEPT !.received = @ + 1, !.session = FALSE] \in SecureChannels(n)
         /\ [k EXCEPT !.received = @ + 1, !.session = FALSE].received = k.received + 1
         /\ [k EXCEPT !.received = @ + 1, !.session = FALSE].peer = k.peer
         /\ [k EXCEPT !.received = @ + 1, !.session = FALSE].owner = k.owner
         /\ [k EXCEPT !.received = @ + 1, !.session = FALSE].session = FALSE
<1>1. PICK j : j = [k EXCEPT !.received = @ + 1]
  OBVIOUS
<1>2. j = [peer |-> k.peer, owner |-> k.owner, session |-> k.session, received |-> k.received + 1,
           token |-> k.token, next |-> k.next]
  BY <1>1 DEF SecureChannels
<1>3. PICK i : i = [j EXCEPT !.session = FALSE]
  OBVIOUS
<1>4. i = [peer |-> k.peer, owner |-> k.owner, session |-> FALSE, received |-> k.received + 1,
           token |-> k.token, next |-> k.next]
  BY <1>2, <1>3
<1>5. i = [k EXCEPT !.received = @ + 1, !.session = FALSE]
  BY <1>1, <1>3
<1>6. i \in SecureChannels(n) /\ i.received = k.received + 1 /\ i.peer = k.peer
      /\ i.owner = k.owner /\ i.session = FALSE
  BY <1>4 DEF SecureChannels
<1> QED BY <1>5, <1>6, Zenon

LEMMA ConnectTypes == ASSUME Typed, NEW c \in Clients, Connect(c) PROVE Typed'
<1>1. QueueTyped' /\ TaskTyped' /\ StateTyped' /\ CallTyped' /\ SocketTyped'
  BY DEF Typed, Connect, queueVars, QueueTyped, TaskTyped, StateTyped, CallTyped, SocketTyped
<1>2. WireTyped' /\ RepliesTyped' /\ BoundsTyped' /\ HistoryTyped'
  BY DEF Typed, Connect, bounds, history, WireTyped, RepliesTyped, BoundsTyped, HistoryTyped
<1>3. ClientTyped'
  BY Connected DEF Typed, ClientTyped, Becomes
<1>4. ServerTyped'
  BY DEF Typed, Connect, ServerTyped
<1>5. ChannelsTyped'
  <2>1. lastChannelId \in Nat \ {0} /\ lastTokenId \in Nat \ {0} /\ lastTokenId' = lastTokenId + 1
        /\ lastChannelId' = lastChannelId + 1
    BY DEF Typed, ServerTyped, Connect
  <2>2. DOMAIN channels' = DOMAIN channels \cup {lastChannelId}
    BY DEF Connect
  <2>3. DOMAIN channels' \subseteq 1 .. lastChannelId' - 1
    BY <2>1, <2>2 DEF Typed, ChannelsTyped
  <2>4. channels'[lastChannelId] \in SecureChannels(lastTokenId')
    <3>1. channels'[lastChannelId] =
            [peer |-> c, owner |-> c, session |-> TRUE, received |-> 0, token |-> lastTokenId,
             next |-> NoToken]
      BY DEF Connect
    <3> QED BY <2>1, <3>1 DEF SecureChannels, NoToken
  <2>5. ASSUME NEW id \in DOMAIN channels PROVE channels'[id] \in SecureChannels(lastTokenId')
    <3>1. channels'[id] = channels[id] /\ channels[id] \in SecureChannels(lastTokenId)
      BY <2>1 DEF Typed, ChannelsTyped, Connect
    <3> QED BY <2>1, <3>1 DEF SecureChannels
  <2> QED BY <2>2, <2>3, <2>4, <2>5 DEF ChannelsTyped
<1> QED BY <1>1, <1>2, <1>3, <1>4, <1>5 DEF Typed

LEMMA RenewTypes == ASSUME Typed, NEW c \in Clients, Renew(c) PROVE Typed'
<1>1. QueueTyped' /\ TaskTyped' /\ StateTyped' /\ CallTyped' /\ SocketTyped' /\ RepliesTyped'
  BY DEF Typed, Renew, queueVars, QueueTyped, TaskTyped, StateTyped, CallTyped, SocketTyped, RepliesTyped
<1>2. ServerTyped' /\ ChannelsTyped' /\ HistoryTyped'
  BY DEF Typed, Renew, channelVars, history, ServerTyped, ChannelsTyped, HistoryTyped
<1>3. ClientTyped'
  BY Renewing DEF Typed, ClientTyped, Becomes
<1>4. WireTyped'
  <2>1. client[c].seq + 1 \in Nat
    BY DEF Typed, ClientTyped, ClientRecords
  <2>2. <<Message("opn", c, client[c].seq + 1)>> \in Seq(Messages)
    BY <2>1, Messaging DEF Typed
  <2> QED BY <2>2, Sending DEF Typed, Renew
<1>5. BoundsTyped'
  BY BoundAssumption DEF Typed, Renew, BoundsTyped
<1> QED BY <1>1, <1>2, <1>3, <1>4, <1>5 DEF Typed

LEMMA ReceiveRenewalTypes == ASSUME Typed, NEW c \in Clients, ReceiveRenewal(c) PROVE Typed'
<1>1. QueueTyped' /\ TaskTyped' /\ CallTyped' /\ SocketTyped' /\ WireTyped'
  BY DEF Typed, ReceiveRenewal, queueVars, QueueTyped, TaskTyped, CallTyped, SocketTyped, WireTyped
<1>2. ServerTyped' /\ ChannelsTyped' /\ HistoryTyped' /\ BoundsTyped'
  BY DEF Typed, ReceiveRenewal, channelVars, history, bounds, ServerTyped, ChannelsTyped,
         HistoryTyped, BoundsTyped
<1>3. ClientTyped' /\ RepliesTyped'
  BY Receiving DEF Typed
<1>4. StateTyped'
  BY DEF Typed, StateTyped, ReceiveRenewal
<1> QED BY <1>1, <1>2, <1>3, <1>4 DEF Typed

LEMMA PushTaskTypes == ASSUME Typed, NEW c \in Clients, PushTask(c) PROVE Typed'
<1>1. SocketTyped' /\ WireTyped' /\ RepliesTyped' /\ StateTyped'
  BY DEF Typed, PushTask, tcpVars, SocketTyped, WireTyped, RepliesTyped, StateTyped
<1>2. ServerTyped' /\ ChannelsTyped' /\ HistoryTyped'
  BY DEF Typed, PushTask, channelVars, history, ServerTyped, ChannelsTyped, HistoryTyped
<1>3. ClientTyped'
  BY CountedOn DEF Typed, ClientTyped, Becomes, PushTask
<1>4. QueueTyped' /\ CallTyped' /\ BoundsTyped'
  <2>1. CASE Create /\ call' = [call EXCEPT ![c] = nextTask] /\ due' = due
             /\ faults' = faults /\ renewals' = renewals /\ starts' = starts
    BY <2>1, BoundAssumption DEF Typed, Create, QueueTyped, CallTyped, BoundsTyped, Tasks
  <2>2. CASE Fault /\ call' = [call EXCEPT ![c] = NoTask] /\ due' = due
             /\ queue' = queue /\ nextTask' = nextTask /\ missed' = missed
             /\ phase' = phase /\ current' = current
    BY <2>2, BoundAssumption DEF Typed, Fault, QueueTyped, CallTyped, BoundsTyped
  <2> QED BY <2>1, <2>2 DEF PushTask, queueVars, bounds
<1>5. TaskTyped'
  <2>1. CASE Create /\ task' = [task EXCEPT ![nextTask] =
             [by |-> c, ch |-> client[c].ch, token |-> client[c].token, base |-> client[c].base,
              seq |-> client'[c].seq, req |-> client'[c].req]]
    <3>1. client[c] \in ClientRecords /\ client'[c] \in ClientRecords
      BY <1>3 DEF Typed, ClientTyped
    <3>2. [by |-> c, ch |-> client[c].ch, token |-> client[c].token, base |-> client[c].base,
           seq |-> client'[c].seq, req |-> client'[c].req] \in Chunks
      BY <3>1 DEF ClientRecords, Chunks
    <3> QED BY <2>1, <3>2 DEF Typed, TaskTyped
  <2>2. CASE task' = task
    BY <2>2 DEF Typed, TaskTyped
  <2> QED BY <2>1, <2>2 DEF PushTask
<1> QED BY <1>1, <1>2, <1>3, <1>4, <1>5 DEF Typed

LEMMA ReceiveReplyTypes == ASSUME Typed, NEW c \in Clients, ReceiveReply(c) PROVE Typed'
<1>1. QueueTyped' /\ TaskTyped' /\ StateTyped' /\ CallTyped' /\ SocketTyped' /\ WireTyped'
  BY DEF Typed, ReceiveReply, queueVars, QueueTyped, TaskTyped, StateTyped, CallTyped,
         SocketTyped, WireTyped
<1>2. ServerTyped' /\ ChannelsTyped' /\ HistoryTyped' /\ BoundsTyped'
  BY DEF Typed, ReceiveReply, channelVars, history, bounds, ServerTyped, ChannelsTyped,
         HistoryTyped, BoundsTyped
<1>3. ClientTyped' /\ RepliesTyped'
  BY Receiving DEF Typed
<1> QED BY <1>1, <1>2, <1>3 DEF Typed

LEMMA DropReplyTypes == ASSUME Typed, NEW c \in Clients, DropReply(c) PROVE Typed'
<1>1. QueueTyped' /\ TaskTyped' /\ StateTyped' /\ CallTyped' /\ SocketTyped' /\ WireTyped'
  BY DEF Typed, DropReply, queueVars, QueueTyped, TaskTyped, StateTyped, CallTyped,
         SocketTyped, WireTyped
<1>2. ServerTyped' /\ ChannelsTyped' /\ HistoryTyped' /\ BoundsTyped'
  BY DEF Typed, DropReply, channelVars, bounds, ServerTyped, ChannelsTyped, HistoryTyped,
         BoundsTyped
<1>3. ClientTyped' /\ RepliesTyped'
  BY Receiving DEF Typed
<1> QED BY <1>1, <1>2, <1>3 DEF Typed

LEMMA TokenGetsDueTypes == ASSUME Typed, NEW c \in Clients, TokenGetsDue(c) PROVE Typed'
BY DEF Typed, TokenGetsDue, queueVars, tcpVars, channelVars, bounds, history, QueueTyped, TaskTyped,
       StateTyped, ClientTyped, CallTyped, SocketTyped, WireTyped, RepliesTyped, ServerTyped,
       ChannelsTyped, BoundsTyped, HistoryTyped

\* What a client does with its socket, at most closing it with a last message.
LEMMA ClosingTypes ==
  ASSUME Typed, NEW c \in Clients, Timeout(c) \/ EndDisconnect(c) \/ ClientDies(c)
  PROVE  SocketTyped' /\ WireTyped' /\ RepliesTyped'
<1>1. PICK s \in Seq(Messages) : Shut(c, s) \/ UNCHANGED tcpVars
  <2>1. client[c].seq + 1 \in Nat
    BY DEF Typed, ClientTyped, ClientRecords
  <2>2. <<Message("clo", c, client[c].seq + 1)>> \in Seq(Messages)
    BY <2>1, Messaging DEF Typed
  <2>3. <<>> \in Seq(Messages)
    OBVIOUS
  <2> QED BY <2>2, <2>3 DEF Timeout, EndDisconnect, ClientDies
<1>2. CASE Shut(c, s)
  BY <1>2, Shutting DEF Typed
<1>3. CASE UNCHANGED tcpVars
  BY <1>3 DEF Typed, tcpVars, SocketTyped, WireTyped, RepliesTyped
<1> QED BY <1>1, <1>2, <1>3

LEMMA TimeoutTypes == ASSUME Typed, NEW c \in Clients, Timeout(c) PROVE Typed'
<1>1. QueueTyped' /\ TaskTyped' /\ StateTyped' /\ ClientTyped' /\ CallTyped'
  BY DEF Typed, Timeout, queueVars, QueueTyped, TaskTyped, StateTyped, ClientTyped, CallTyped
<1>2. ServerTyped' /\ ChannelsTyped' /\ BoundsTyped' /\ HistoryTyped'
  BY DEF Typed, Timeout, channelVars, bounds, history, ServerTyped, ChannelsTyped, BoundsTyped,
         HistoryTyped
<1> QED BY <1>1, <1>2, ClosingTypes DEF Typed

LEMMA IncompleteTimeoutTypes == ASSUME Typed, NEW c \in Clients, IncompleteTimeout(c) PROVE Typed'
<1>1. QueueTyped' /\ TaskTyped' /\ StateTyped' /\ ClientTyped' /\ CallTyped'
  BY DEF Typed, IncompleteTimeout, queueVars, QueueTyped, TaskTyped, StateTyped, ClientTyped,
         CallTyped
<1>2. SocketTyped' /\ WireTyped' /\ RepliesTyped' /\ ServerTyped' /\ ChannelsTyped'
      /\ BoundsTyped' /\ HistoryTyped'
  BY DEF Typed, IncompleteTimeout, tcpVars, channelVars, bounds, SocketTyped, WireTyped,
         RepliesTyped, ServerTyped, ChannelsTyped, BoundsTyped, HistoryTyped
<1> QED BY <1>1, <1>2 DEF Typed

LEMMA DisconnectTypes == ASSUME Typed, NEW c \in Clients, Disconnect(c) PROVE Typed'
<1>1. QueueTyped' /\ TaskTyped' /\ StateTyped' /\ CallTyped' /\ SocketTyped' /\ RepliesTyped'
  BY DEF Typed, Disconnect, queueVars, QueueTyped, TaskTyped, StateTyped, CallTyped, SocketTyped,
         RepliesTyped
<1>2. ServerTyped' /\ ChannelsTyped' /\ HistoryTyped' /\ BoundsTyped'
  BY DEF Typed, Disconnect, channelVars, history, bounds, ServerTyped, ChannelsTyped, HistoryTyped,
         BoundsTyped
<1>3. ClientTyped'
  BY CountedOn DEF Typed, ClientTyped, Becomes, Disconnect
<1>4. WireTyped'
  <2>1. client'[c].seq \in Nat
    BY <1>3 DEF ClientTyped, ClientRecords
  <2>2. <<Message("close", c, client'[c].seq)>> \in Seq(Messages)
    BY <2>1, Messaging DEF Typed
  <2> QED BY <2>2, Sending DEF Typed, Disconnect
<1> QED BY <1>1, <1>2, <1>3, <1>4 DEF Typed

LEMMA EndDisconnectTypes == ASSUME Typed, NEW c \in Clients, EndDisconnect(c) PROVE Typed'
<1>1. QueueTyped' /\ TaskTyped' /\ StateTyped' /\ ClientTyped' /\ CallTyped'
  BY DEF Typed, EndDisconnect, queueVars, QueueTyped, TaskTyped, StateTyped, ClientTyped, CallTyped
<1>2. ServerTyped' /\ ChannelsTyped' /\ BoundsTyped' /\ HistoryTyped'
  BY DEF Typed, EndDisconnect, channelVars, bounds, history, ServerTyped, ChannelsTyped,
         BoundsTyped, HistoryTyped
<1> QED BY <1>1, <1>2, ClosingTypes DEF Typed

LEMMA ClientDiesTypes == ASSUME Typed, NEW c \in Clients, ClientDies(c) PROVE Typed'
<1>1. QueueTyped' /\ TaskTyped' /\ StateTyped' /\ ClientTyped' /\ CallTyped'
  BY DEF Typed, ClientDies, queueVars, QueueTyped, TaskTyped, StateTyped, ClientTyped, CallTyped
<1>2. ServerTyped' /\ ChannelsTyped' /\ BoundsTyped' /\ HistoryTyped'
  BY DEF Typed, ClientDies, channelVars, bounds, history, ServerTyped, ChannelsTyped, BoundsTyped,
         HistoryTyped
<1> QED BY <1>1, <1>2, ClosingTypes DEF Typed

LEMMA StartServerTypes == ASSUME Typed, StartServer PROVE Typed'
<1>1. BoundsTyped' /\ ServerTyped' /\ ChannelsTyped'
  BY BoundAssumption DEF Typed, StartServer, channelVars, BoundsTyped, ServerTyped, ChannelsTyped
<1>2. QueueTyped' /\ TaskTyped' /\ StateTyped' /\ ClientTyped' /\ CallTyped' /\ SocketTyped'
      /\ WireTyped' /\ RepliesTyped' /\ HistoryTyped'
  BY DEF Typed, StartServer, queueVars, clientVars, tcpVars, history, QueueTyped, TaskTyped,
         StateTyped, ClientTyped, CallTyped, SocketTyped, WireTyped, RepliesTyped, HistoryTyped
<1> QED BY <1>1, <1>2 DEF Typed

LEMMA StopServerTypes == ASSUME Typed, StopServer PROVE Typed'
<1>1. QueueTyped' /\ TaskTyped' /\ StateTyped' /\ ClientTyped' /\ CallTyped' /\ RepliesTyped'
      /\ BoundsTyped' /\ HistoryTyped'
  BY DEF Typed, StopServer, Abort, clientVars, bounds, history, QueueTyped, TaskTyped, StateTyped,
         ClientTyped, CallTyped, RepliesTyped, BoundsTyped, HistoryTyped
<1>2. SocketTyped' /\ WireTyped'
  BY DEF Typed, StopServer, SocketTyped, WireTyped
<1>3. ServerTyped'
  <2>1. up' = FALSE /\ lastChannelId' = 1 /\ lastTokenId' = 1 /\ held' = 0
    BY DEF StopServer, NoChannel
  <2>2. up' \in BOOLEAN
    BY <2>1, Zenon
  <2>3. lastChannelId' \in Nat \ {0} /\ lastTokenId' \in Nat \ {0} /\ held' \in Nat
    BY <2>1
  <2> QED BY <2>2, <2>3, Zenon DEF ServerTyped
<1>4. channels' = <<>>
  BY DEF StopServer
<1>5. DOMAIN channels' = {}
  BY <1>4
<1>6. ChannelsTyped'
  BY <1>5 DEF ChannelsTyped
<1> QED BY <1>1, <1>2, <1>3, <1>6 DEF Typed

LEMMA HandleRenewalTypes == ASSUME Typed, NEW c \in Clients, HandleRenewal(c) PROVE Typed'
<1>1. QueueTyped' /\ TaskTyped' /\ StateTyped' /\ ClientTyped' /\ CallTyped' /\ SocketTyped'
      /\ BoundsTyped' /\ HistoryTyped'
  BY DEF Typed, HandleRenewal, queueVars, clientVars, bounds, history, QueueTyped, TaskTyped,
         StateTyped, ClientTyped, CallTyped, SocketTyped, BoundsTyped, HistoryTyped
<1>2. WireTyped' /\ Head(wire[c]) \in Messages
  BY Taking DEF Typed, HandleRenewal, Arrives, WireTyped
<1>3. ServerTyped' /\ ChannelsTyped' /\ RepliesTyped'
  <2>0. PICK id \in ChannelOf(c) : \E token, issued :
          /\ issued = (channels[id].next # NoToken)
          /\ token = IF issued THEN channels[id].next ELSE lastTokenId
          /\ channels' = [channels EXCEPT ![id].received = Head(wire[c]).seq, ![id].next = token]
          /\ lastTokenId' = IF issued THEN lastTokenId ELSE lastTokenId + 1
          /\ Answer(c, "opn", token, 0, NoTask)
    BY DEF HandleRenewal
  <2>1. PICK token, issued :
          /\ issued = (channels[id].next # NoToken)
          /\ token = IF issued THEN channels[id].next ELSE lastTokenId
          /\ channels' = [channels EXCEPT ![id].received = Head(wire[c]).seq, ![id].next = token]
          /\ lastTokenId' = IF issued THEN lastTokenId ELSE lastTokenId + 1
          /\ Answer(c, "opn", token, 0, NoTask)
    BY <2>0
  <2>2. id \in DOMAIN channels /\ channels[id] \in SecureChannels(lastTokenId)
        /\ lastTokenId \in Nat \ {0}
    BY <2>1 DEF ChannelOf, Typed, ChannelsTyped, ServerTyped
  <2>3. ServerTyped' /\ lastTokenId' >= lastTokenId /\ token \in 0 .. lastTokenId' - 1
        /\ token \in Nat /\ lastTokenId' \in Nat
    <3>1. channels[id].next \in 0 .. lastTokenId - 1
      BY <2>2 DEF SecureChannels
    <3>2. /\ lastTokenId' \in Nat \ {0} /\ lastTokenId' >= lastTokenId
          /\ token \in 0 .. lastTokenId' - 1 /\ token \in Nat
      BY <2>1, <2>2, <3>1 DEF NoToken
    <3>3. ServerTyped'
      BY <3>2 DEF Typed, ServerTyped, HandleRenewal
    <3> QED BY <3>2, <3>3
  <2>4. RepliesTyped'
    BY <2>1, <2>3, AnswerTyped DEF Typed
  <2>5. ChannelsTyped'
    <3>1. channels' = [channels EXCEPT ![id] =
            [channels[id] EXCEPT !.received = Head(wire[c]).seq, !.next = token]]
      BY <2>1
    <3>2. [channels[id] EXCEPT !.received = Head(wire[c]).seq, !.next = token]
            \in SecureChannels(lastTokenId')
      BY <1>2, <2>2, <2>3, Renumbered DEF Messages
    <3> QED BY <2>2, <2>3, <3>1, <3>2, ChannelChanged DEF Typed, HandleRenewal
  <2> QED BY <2>3, <2>4, <2>5
<1> QED BY <1>1, <1>2, <1>3 DEF Typed

LEMMA HandleCloseSessionTypes == ASSUME Typed, NEW c \in Clients, HandleCloseSession(c) PROVE Typed'
<1>1. QueueTyped' /\ TaskTyped' /\ StateTyped' /\ ClientTyped' /\ CallTyped' /\ SocketTyped'
      /\ BoundsTyped' /\ HistoryTyped' /\ ServerTyped'
  BY DEF Typed, HandleCloseSession, queueVars, clientVars, bounds, history, QueueTyped, TaskTyped,
         StateTyped, ClientTyped, CallTyped, SocketTyped, BoundsTyped, HistoryTyped, ServerTyped
<1>2. WireTyped' /\ Head(wire[c]) \in Messages
  BY Taking DEF Typed, HandleCloseSession, Arrives, WireTyped
<1>3. ChannelsTyped' /\ RepliesTyped'
  <2>0. PICK id \in ChannelOf(c) : \E m, k :
          /\ m = Head(wire[c]) /\ k = Seen(id, m.token)
          /\ IF Expected(id, m)
             THEN /\ channels' = [channels EXCEPT
                       ![id] = [k EXCEPT !.received = @ + 1, !.session = FALSE]]
                  /\ Answer(c, "result", k.token, client[c].req, NoTask)
             ELSE channels' = [channels EXCEPT ![id] = k] /\ UNCHANGED replies
    BY DEF HandleCloseSession
  <2>1. PICK m, k :
          /\ m = Head(wire[c]) /\ k = Seen(id, m.token)
          /\ IF Expected(id, m)
             THEN /\ channels' = [channels EXCEPT
                       ![id] = [k EXCEPT !.received = @ + 1, !.session = FALSE]]
                  /\ Answer(c, "result", k.token, client[c].req, NoTask)
             ELSE channels' = [channels EXCEPT ![id] = k] /\ UNCHANGED replies
    BY <2>0
  <2>2. id \in DOMAIN channels /\ k \in SecureChannels(lastTokenId)
    BY <2>1, SeenTyped DEF ChannelOf, Typed, ChannelsTyped
  <2>3. /\ lastTokenId \in Nat /\ lastTokenId' \in Nat /\ lastTokenId' >= lastTokenId
        /\ lastTokenId' = lastTokenId /\ lastChannelId' = lastChannelId
    BY DEF Typed, ServerTyped, HandleCloseSession
  <2>4. CASE Expected(id, m)
    <3>1. PICK j : j = [k EXCEPT !.received = @ + 1, !.session = FALSE]
      OBVIOUS
    <3>2. j \in SecureChannels(lastTokenId')
      BY <2>2, <2>3, <3>1, Closed
    <3>4. channels' = [channels EXCEPT ![id] = j]
      BY <2>1, <2>4, <3>1, Zenon
    <3>5. ChannelsTyped'
      BY <2>3, <3>2, <3>4, ChannelChanged DEF Typed
    <3>3. k.token \in Nat /\ client[c].req \in Nat
      BY <2>2, <2>3 DEF Typed, ClientTyped, ClientRecords, SecureChannels
    <3>6. Answer(c, "result", k.token, client[c].req, NoTask)
      BY <2>1, <2>4
    <3> QED BY <3>3, <3>5, <3>6, AnswerTyped DEF Typed
  <2>5. CASE ~Expected(id, m)
    <3>1. ChannelsTyped'
      BY <2>1, <2>2, <2>3, <2>5, ChannelChanged DEF Typed
    <3> QED BY <2>1, <2>5, <3>1 DEF Typed, RepliesTyped
  <2> QED BY <2>4, <2>5
<1> QED BY <1>1, <1>2, <1>3 DEF Typed

LEMMA HandleCloseChannelTypes == ASSUME Typed, NEW c \in Clients, HandleCloseChannel(c) PROVE Typed'
<1>1. QueueTyped' /\ TaskTyped' /\ StateTyped' /\ ClientTyped' /\ CallTyped' /\ SocketTyped'
      /\ RepliesTyped' /\ BoundsTyped' /\ HistoryTyped' /\ ServerTyped'
  BY DEF Typed, HandleCloseChannel, queueVars, clientVars, bounds, history, QueueTyped, TaskTyped,
         StateTyped, ClientTyped, CallTyped, SocketTyped, RepliesTyped, BoundsTyped, HistoryTyped,
         ServerTyped
<1>2. WireTyped'
  BY Taking DEF Typed, HandleCloseChannel, Arrives, WireTyped
<1>3. ChannelsTyped'
  <2>1. PICK id \in ChannelOf(c) :
          \/ channels' = [k \in DOMAIN channels \ {id} |-> channels[k]]
          \/ channels' = [channels EXCEPT ![id] = Seen(id, Head(wire[c]).token)]
    BY DEF HandleCloseChannel
  <2>2. /\ lastTokenId \in Nat /\ lastTokenId' \in Nat /\ lastTokenId' >= lastTokenId
        /\ lastTokenId' = lastTokenId /\ lastChannelId' = lastChannelId
    BY DEF Typed, ServerTyped, HandleCloseChannel
  <2>3. CASE channels' = [k \in DOMAIN channels \ {id} |-> channels[k]]
    BY <2>2, <2>3 DEF Typed, ChannelsTyped
  <2>4. CASE channels' = [channels EXCEPT ![id] = Seen(id, Head(wire[c]).token)]
    <3>1. id \in DOMAIN channels
      BY DEF ChannelOf
    <3>2. Seen(id, Head(wire[c]).token) \in SecureChannels(lastTokenId')
      BY <2>2, <3>1, SeenTyped DEF Typed, ChannelsTyped
    <3> QED BY <2>2, <2>4, <3>2, ChannelChanged DEF Typed
  <2> QED BY <2>1, <2>3, <2>4
<1> QED BY <1>1, <1>2, <1>3 DEF Typed

LEMMA HandleFinTypes == ASSUME Typed, NEW c \in Clients, HandleFin(c) PROVE Typed'
<1>1. QueueTyped' /\ TaskTyped' /\ StateTyped' /\ ClientTyped' /\ CallTyped' /\ SocketTyped'
      /\ RepliesTyped' /\ BoundsTyped' /\ HistoryTyped' /\ ServerTyped'
  BY DEF Typed, HandleFin, queueVars, clientVars, bounds, history, QueueTyped, TaskTyped,
         StateTyped, ClientTyped, CallTyped, SocketTyped, RepliesTyped, BoundsTyped, HistoryTyped,
         ServerTyped
<1>2. WireTyped'
  BY DEF Typed, HandleFin, WireTyped
<1>3. ChannelsTyped'
  BY DEF Typed, HandleFin, ChannelsTyped, SecureChannels
<1> QED BY <1>1, <1>2, <1>3 DEF Typed

LEMMA CleanupTypes == ASSUME Typed, Cleanup PROVE Typed'
<1>1. QueueTyped' /\ TaskTyped' /\ StateTyped' /\ ClientTyped' /\ CallTyped' /\ SocketTyped'
      /\ WireTyped' /\ RepliesTyped' /\ BoundsTyped' /\ HistoryTyped' /\ ServerTyped'
  BY DEF Typed, Cleanup, queueVars, clientVars, tcpVars, bounds, history, QueueTyped, TaskTyped,
         StateTyped, ClientTyped, CallTyped, SocketTyped, WireTyped, RepliesTyped, BoundsTyped,
         HistoryTyped, ServerTyped
<1>2. ChannelsTyped'
  BY SeenTyped DEF Typed, Cleanup, ChannelsTyped
<1> QED BY <1>1, <1>2 DEF Typed

LEMMA ListTasksTypes == ASSUME Typed, ListTasks PROVE Typed'
BY DEF Typed, ListTasks, Relist, clientVars, tcpVars, channelVars, bounds, history, QueueTyped,
       TaskTyped, StateTyped, ClientTyped, CallTyped, SocketTyped, WireTyped, RepliesTyped,
       ServerTyped, ChannelsTyped, BoundsTyped, HistoryTyped

LEMMA TakeTaskTypes == ASSUME Typed, TakeTask PROVE Typed'
BY DEF Typed, TakeTask, Take, clientVars, tcpVars, channelVars, bounds, history, QueueTyped,
       TaskTyped, StateTyped, ClientTyped, CallTyped, SocketTyped, WireTyped, RepliesTyped,
       ServerTyped, ChannelsTyped, BoundsTyped, HistoryTyped

LEMMA MissTaskTypes == ASSUME Typed, MissTask PROVE Typed'
<1>1. QueueTyped' /\ TaskTyped' /\ StateTyped' /\ ClientTyped' /\ CallTyped'
  BY DEF Typed, MissTask, Miss, clientVars, QueueTyped, TaskTyped, StateTyped, ClientTyped, CallTyped
<1>2. SocketTyped' /\ WireTyped' /\ RepliesTyped' /\ ServerTyped' /\ ChannelsTyped' /\ HistoryTyped'
  BY DEF Typed, MissTask, tcpVars, channelVars, history, SocketTyped, WireTyped, RepliesTyped,
         ServerTyped, ChannelsTyped, HistoryTyped
<1>3. BoundsTyped'
  BY BoundAssumption DEF Typed, MissTask, Fault, BoundsTyped
<1> QED BY <1>1, <1>2, <1>3 DEF Typed

LEMMA FindChannelTypes == ASSUME Typed, FindChannel PROVE Typed'
<1>1. ChannelsTyped' /\ held' \in Nat
  BY DEF Typed, FindChannel, channelVars, ChannelsTyped, ServerTyped
<1>2. QueueTyped' /\ TaskTyped' /\ StateTyped' /\ ClientTyped' /\ CallTyped'
  BY DEF Typed, FindChannel, queueVars, clientVars, QueueTyped, TaskTyped, StateTyped, ClientTyped,
         CallTyped
<1>3. SocketTyped' /\ WireTyped' /\ RepliesTyped' /\ HistoryTyped' /\ BoundsTyped'
  BY DEF Typed, FindChannel, tcpVars, bounds, history, SocketTyped, WireTyped, RepliesTyped,
         HistoryTyped, BoundsTyped
<1>4. ServerTyped'
  BY <1>1 DEF Typed, FindChannel, channelVars, ServerTyped
<1> QED BY <1>1, <1>2, <1>3, <1>4 DEF Typed

LEMMA RejectChunkTypes == ASSUME Typed, RejectChunk PROVE Typed'
<1>1. QueueTyped' /\ TaskTyped' /\ StateTyped' /\ ClientTyped' /\ CallTyped'
  BY DEF Typed, RejectChunk, Handle, clientVars, QueueTyped, TaskTyped, StateTyped, ClientTyped,
         CallTyped
<1>2. SocketTyped' /\ WireTyped' /\ RepliesTyped' /\ HistoryTyped' /\ BoundsTyped' /\ ServerTyped'
  BY DEF Typed, RejectChunk, tcpVars, bounds, history, SocketTyped, WireTyped, RepliesTyped,
         HistoryTyped, BoundsTyped, ServerTyped, NoChannel
<1>3. ChannelsTyped'
  <2>1. lastTokenId' = lastTokenId /\ lastChannelId' = lastChannelId
    BY DEF RejectChunk
  <2>2. \A id \in DOMAIN channels : Seen(id, task[current].token) \in SecureChannels(lastTokenId)
    BY SeenTyped DEF Typed, ChannelsTyped
  <2>3. channels' = [id \in DOMAIN channels |->
          IF id = held THEN Seen(held, task[current].token) ELSE channels[id]]
    BY DEF RejectChunk
  <2> QED BY <2>1, <2>2, <2>3 DEF Typed, ChannelsTyped
<1> QED BY <1>1, <1>2, <1>3 DEF Typed

LEMMA ExecuteChunkTypes == ASSUME Typed, Queued, ExecuteChunk PROVE Typed'
<1>1. QueueTyped' /\ TaskTyped' /\ StateTyped' /\ ClientTyped' /\ CallTyped'
  BY DEF Typed, ExecuteChunk, Handle, clientVars, QueueTyped, TaskTyped, StateTyped, ClientTyped,
         CallTyped
<1>2. SocketTyped' /\ WireTyped' /\ BoundsTyped' /\ ServerTyped'
  BY DEF Typed, ExecuteChunk, bounds, SocketTyped, WireTyped, BoundsTyped, ServerTyped, NoChannel
<1> PICK k : k = Seen(held, task[current].token)
  OBVIOUS
<1> PICK j : j = [k EXCEPT !.received = @ + 1]
  OBVIOUS
<1>3. channels' = [channels EXCEPT ![held] = j] /\ Execute(k)
  BY DEF ExecuteChunk
<1>4. held \in DOMAIN channels /\ channels[held].peer # NoClient
  BY DEF ExecuteChunk, InOrder
<1>5. /\ lastTokenId \in Nat /\ lastTokenId' \in Nat /\ lastTokenId' >= lastTokenId
      /\ lastTokenId' = lastTokenId /\ lastChannelId' = lastChannelId
  BY DEF Typed, ServerTyped, ExecuteChunk
<1>6. k \in SecureChannels(lastTokenId') /\ k.peer = channels[held].peer
  BY <1>3, <1>4, <1>5, SeenTyped DEF Typed, ChannelsTyped, SameButTokens
<1>7. j \in SecureChannels(lastTokenId') /\ j.peer = k.peer
  BY <1>3, <1>6 DEF SecureChannels
<1>8. ChannelsTyped'
  BY <1>3, <1>5, <1>7, ChannelChanged DEF Typed
<1>9. current \in Tasks
  <2>1. phase # "idle"
    BY DEF ExecuteChunk, Handle
  <2> QED BY <2>1, BoundAssumption DEF Queued, Typed, QueueTyped, Tasks
<1>10. HistoryTyped'
  BY <1>3, <1>9 DEF Typed, HistoryTyped, Execute, ExecuteChunk
<1>11. RepliesTyped'
  <2>1. k.peer \in Clients /\ k.token \in Nat /\ task[current].req \in Nat
    BY <1>4, <1>5, <1>6, <1>7, <1>9 DEF Typed, TaskTyped, Chunks, SecureChannels
  <2>2. \/ Answer(k.peer, "result", k.token, task[current].req, current)
        \/ Answer(k.peer, "error", k.token, task[current].req, current)
    BY <1>3 DEF Execute
  <2> QED BY <1>9, <2>1, <2>2, AnswerTyped DEF Typed
<1> QED BY <1>1, <1>2, <1>8, <1>10, <1>11 DEF Typed

LEMMA DeleteTaskTypes == ASSUME Typed, Queued, DeleteTask PROVE Typed'
<1>1. TaskTyped' /\ StateTyped' /\ ClientTyped' /\ CallTyped' /\ SocketTyped'
  BY DEF Typed, DeleteTask, clientVars, tcpVars, TaskTyped, StateTyped, ClientTyped, CallTyped,
         SocketTyped
<1>2. WireTyped' /\ RepliesTyped' /\ HistoryTyped' /\ ServerTyped' /\ ChannelsTyped'
  BY DEF Typed, DeleteTask, tcpVars, channelVars, history, WireTyped, RepliesTyped, HistoryTyped,
         ServerTyped, ChannelsTyped
<1>3. BoundsTyped'
  <2>1. CASE Fault
    BY <2>1, BoundAssumption DEF Typed, Fault, BoundsTyped
  <2>2. CASE UNCHANGED bounds
    BY <2>2 DEF Typed, bounds, BoundsTyped
  <2> QED BY <2>1, <2>2 DEF DeleteTask
<1>4. QueueTyped'
  <2>1. Finish
    BY DEF DeleteTask
  <2>2. current \in Tasks
    BY <2>1, BoundAssumption DEF Finish, Queued, Typed, QueueTyped, Tasks
  <2> QED BY <2>1, <2>2 DEF Typed, Finish, QueueTyped, NoTask
<1> QED BY <1>1, <1>2, <1>3, <1>4 DEF Typed

LEMMA NextTypes == ASSUME TypeOK, Queued, [Next]_vars PROVE TypeOK'
<1>1. Typed
  BY Parts
<1>2. ASSUME NEW c \in Clients, ClientStep(c) PROVE Typed'
  BY <1>1, <1>2, ConnectTypes, TokenGetsDueTypes, RenewTypes, ReceiveRenewalTypes, PushTaskTypes,
     ReceiveReplyTypes, DropReplyTypes, TimeoutTypes, IncompleteTimeoutTypes, DisconnectTypes,
     EndDisconnectTypes, ClientDiesTypes DEF ClientStep
<1>3. ASSUME NEW c \in Clients, ConnectionStep(c) PROVE Typed'
  BY <1>1, <1>3, HandleRenewalTypes, HandleCloseSessionTypes, HandleCloseChannelTypes,
     HandleFinTypes DEF ConnectionStep
<1>4. ASSUME CompletionThread PROVE Typed'
  BY <1>1, <1>4, ListTasksTypes, TakeTaskTypes, MissTaskTypes, FindChannelTypes, StopServerTypes,
     RejectChunkTypes, ExecuteChunkTypes, DeleteTaskTypes
  DEF CompletionThread, NoSuchChannel, ChunkCrashes
<1>5. ASSUME UNCHANGED vars PROVE Typed'
  <2>1. QueueTyped' /\ TaskTyped' /\ StateTyped' /\ ClientTyped' /\ CallTyped'
    BY <1>1, <1>5 DEF Typed, vars, queueVars, clientVars, QueueTyped, TaskTyped, StateTyped,
       ClientTyped, CallTyped
  <2>2. SocketTyped' /\ WireTyped' /\ RepliesTyped' /\ ServerTyped' /\ ChannelsTyped'
    BY <1>1, <1>5 DEF Typed, vars, tcpVars, channelVars, SocketTyped, WireTyped, RepliesTyped,
       ServerTyped, ChannelsTyped
  <2>3. BoundsTyped' /\ HistoryTyped'
    BY <1>1, <1>5 DEF Typed, vars, bounds, history, BoundsTyped, HistoryTyped
  <2> QED BY <2>1, <2>2, <2>3 DEF Typed
<1>6. Typed'
  BY <1>1, <1>2, <1>3, <1>4, <1>5, StartServerTypes, StopServerTypes, CleanupTypes DEF Next
<1> QED BY <1>6, Parts, PTL

-----------------------------------------------------------------------------
(* The queue                                                                   *)

LEMMA Executed ==
  ASSUME TypeOK, Queued
  PROVE  \A i \in DOMAIN executed :
           /\ i \in Nat /\ executed[i] \in Tasks /\ executed[i] \in 1 .. nextTask - 1
           /\ task[executed[i]].by \in Clients
<1>1. executed \in Seq(Tasks)
  BY DEF TypeOK
<1>2. \A i \in DOMAIN executed : i \in Nat /\ executed[i] \in Tasks
  BY <1>1
<1> QED BY <1>2 DEF Queued, TypeOK, Tasks

LEMMA PushQueued == ASSUME TypeOK, Queued, NEW c \in Clients, PushTask(c) PROVE Queued'
<1>1. executed' = executed /\ held' = held
  BY DEF PushTask, history
<1>2. nextTask \in Nat /\ MaxTask \in Nat /\ task \in [Tasks -> Chunks]
  BY BoundAssumption DEF TypeOK
<1>3. CASE Fault /\ UNCHANGED <<queueVars, task>>
  BY <1>1, <1>3 DEF queueVars, Queued
<1>4. CASE Create /\ task' = [task EXCEPT ![nextTask] =
             [by |-> c, ch |-> client[c].ch, token |-> client[c].token, base |-> client[c].base,
              seq |-> client'[c].seq, req |-> client'[c].req]]
  <2>1. /\ nextTask \in Tasks /\ nextTask' = nextTask + 1 /\ queue' = queue \cup {nextTask}
        /\ phase' = phase /\ current' = current
    BY <1>2, <1>4 DEF Create, Tasks, TypeOK
  <2>2. task'[nextTask].by = c /\ \A t \in Tasks \ {nextTask} : task'[t] = task[t]
    BY <1>2, <1>4, <2>1
  <2>3. queue' \subseteq 1 .. nextTask' - 1 /\ (phase' # "idle" => current' \in 1 .. nextTask' - 1)
    BY <1>2, <2>1 DEF Queued, Tasks
  <2>4. \A t \in Tasks : task'[t].by \in Clients <=> t < nextTask'
    BY <1>2, <2>1, <2>2 DEF Queued, Tasks
  <2>5. \A i \in DOMAIN executed : executed[i] < nextTask'
    BY <1>2, <2>1, Executed
  <2>6. held # NoChannel => phase = "process" /\ held = task'[current].ch
    BY <1>2, <2>1, <2>2 DEF Queued, Tasks
  <2> QED BY <1>1, <2>1, <2>3, <2>4, <2>5, <2>6 DEF Queued
<1> QED BY <1>3, <1>4 DEF PushTask

LEMMA SameQueued ==
  ASSUME Queued, UNCHANGED queueVars, UNCHANGED <<task, executed, held>>
  PROVE  Queued'
BY DEF Queued, queueVars

LEMMA ThreadQueued == ASSUME TypeOK, Queued, CompletionThread PROVE Queued'
<1>0. /\ \A i \in DOMAIN executed : executed[i] < nextTask
      /\ nextTask \in Nat /\ current \in Nat /\ executed \in Seq(Tasks)
  BY DEF Queued, TypeOK, Tasks, NoTask
<1>1. CASE ListTasks
  BY <1>1 DEF Queued, ListTasks, Relist, history
<1>2. CASE TakeTask
  BY <1>2 DEF Queued, TakeTask, Take, history
<1>3. CASE MissTask
  BY <1>3 DEF Queued, MissTask, Miss, history
<1>4. CASE FindChannel
  BY <1>4 DEF Queued, FindChannel, queueVars, history
<1>5. CASE StopServer
  BY <1>5 DEF Queued, StopServer, Abort, history
<1>6. CASE RejectChunk
  BY <1>6 DEF Queued, RejectChunk, Handle, history
<1>7. CASE ExecuteChunk
  <2>1. task' = task /\ held' = NoChannel /\ Handle /\ executed' \in {executed, Append(executed, current)}
    BY <1>7 DEF ExecuteChunk, Execute
  <2>2. current < nextTask
    BY <1>0, <2>1 DEF Queued, Handle
  <2>3. \A i \in DOMAIN executed' : executed'[i] < nextTask
    BY <1>0, <2>1, <2>2
  <2> QED BY <2>1, <2>3 DEF Queued, Handle
<1>8. CASE DeleteTask
  BY <1>8 DEF Queued, DeleteTask, Finish, history
<1> QED BY <1>1, <1>2, <1>3, <1>4, <1>5, <1>6, <1>7, <1>8
        DEF CompletionThread, NoSuchChannel, ChunkCrashes

LEMMA NextQueued == ASSUME TypeOK, Queued, [Next]_vars PROVE Queued'
<1>1. ASSUME NEW c \in Clients, ClientStep(c) \/ ConnectionStep(c), ~PushTask(c) PROVE Queued'
  <2>1. UNCHANGED queueVars /\ UNCHANGED <<task, executed, held>>
    BY <1>1 DEF ClientStep, ConnectionStep, history, Connect, TokenGetsDue, Renew, ReceiveRenewal,
       ReceiveReply, DropReply, Timeout, IncompleteTimeout, Disconnect, EndDisconnect, ClientDies,
       HandleRenewal, HandleCloseSession, HandleCloseChannel, HandleFin
  <2> QED BY <2>1, SameQueued
<1>2. CASE StartServer
  BY <1>2, SameQueued DEF StartServer, history
<1>3. CASE StopServer
  BY <1>3 DEF Queued, StopServer, Abort, history
<1>4. CASE Cleanup
  BY <1>4, SameQueued DEF Cleanup, history
<1>5. CASE UNCHANGED vars
  BY <1>5, SameQueued DEF vars, history
<1> QED BY <1>1, <1>2, <1>3, <1>4, <1>5, PushQueued, ThreadQueued DEF Next

-----------------------------------------------------------------------------
(* Steps that send nothing new, carry nothing out and accept nothing           *)

\* What is left of the counted messages on the wire is in its old order.
Remains(c) ==
  \E d \in {0, 1} : \A i \in DOMAIN wire'[c] :
    Counted(wire'[c][i]) => i + d \in DOMAIN wire[c] /\ wire'[c][i] = wire[c][i + d]

\* A client that ends does not come back.
Forward(c) ==
  /\ state[c] # "off" <=> state'[c] # "off"
  /\ state[c] = "off" => wire'[c] = <<>>
  /\ state[c] \in {"closing", "gone"} => state'[c] \in {"closing", "gone"}
  /\ state'[c] = "waiting" => state[c] = "waiting" /\ call'[c] = call[c]

\* The results under way are those that were, or that of CloseSession.
OldResults(c) ==
  \A i \in DOMAIN replies'[c] : replies'[c][i].kind = "result" =>
    \/ \E k \in DOMAIN replies[c] : replies'[c][i] = replies[c][k]
    \/ replies'[c][i].of = NoTask /\ state[c] \in {"closing", "gone"}

OldChannel(id) ==
  /\ id \in DOMAIN channels
  /\ channels'[id].owner = channels[id].owner
  /\ channels'[id].session = channels[id].session
  /\ channels'[id].received = channels[id].received
  /\ channels'[id].peer \in {channels[id].peer, NoClient}

\* A message by TCP, or a task that carries nothing out, was accepted.
Advanced(id) ==
  /\ id \in DOMAIN channels
  /\ channels'[id].owner = channels[id].owner
  /\ channels'[id].peer = channels[id].peer
  /\ Passed(id)'
  /\ LET c == channels[id].owner
     IN ~channels'[id].session /\ OwnNumber(c) =>
          \A t \in Tasks : task[t].by = c /\ task[t].base = client[c].base =>
            \E i \in DOMAIN executed : executed[i] = t

LEMMA OrderAfter ==
  ASSUME \A q \in DOMAIN executed' : \A v : v = task'[executed'[q]] /\ OwnNumber(v.by)' =>
           \A n \in v.base + 1 .. v.seq - 1 : \E i \in 1 .. q - 1 :
             LET u == task'[executed'[i]] IN u.by = v.by /\ u.base = v.base /\ u.seq = n
  PROVE  InCallOrder'
BY DEF InCallOrder

LEMMA QuietStep ==
  ASSUME IInv, TypeOK', task' = task, executed' = executed,
         \A c \in Clients : Remains(c) /\ SameNumbers(c) /\ Forward(c) /\ OldResults(c),
         \A id \in DOMAIN channels' : OldChannel(id) \/ Advanced(id)
  PROVE  Related'
<1>1. \A c \in Clients : Own(c)' = Own(c) /\ (OwnNumber(c)' <=> OwnNumber(c))
  BY DEF Own, OwnNumber, SameNumbers
<1>2. \A id \in DOMAIN channels : channels[id].owner \in Clients
  BY DEF IInv, Related, TypeOK
<1>3. Owned'
  BY <1>2 DEF IInv, Related, Owned, SameNumbers, Forward, OldChannel, Advanced
<1>4. ASSUME NEW c \in Clients PROVE Numbered(c)'
  BY <1>1 DEF IInv, Related, Numbered, SameNumbers, Forward
<1>5. ASSUME NEW c \in Clients PROVE Waited(c)'
  BY <1>1 DEF IInv, Related, Waited, SameNumbers, Forward
<1>6. ASSUME NEW c \in Clients PROVE Wired(c)'
  <2>1. PICK d \in {0, 1} : \A i \in DOMAIN wire'[c] :
          Counted(wire'[c][i]) => i + d \in DOMAIN wire[c] /\ wire'[c][i] = wire[c][i + d]
    BY DEF Remains
  <2>2. Wired(c) /\ wire[c] \in Seq([kind : {"opn", "close", "clo", "fin"}, token : Nat, seq : Nat])
    BY DEF IInv, Related, TypeOK
  <2>3. ASSUME NEW m, Placed(c, m) PROVE Placed(c, m)'
    BY <1>1, <2>3 DEF Placed, SameNumbers, Forward
  <2>4. ASSUME NEW i \in DOMAIN wire'[c] PROVE Placed(c, wire[c][i])'
    <3>1. CASE Counted(wire'[c][i])
      BY <2>1, <2>2, <2>3, <3>1 DEF Wired
    <3>2. CASE ~Counted(wire'[c][i])
      BY <3>2 DEF Counted, Placed
    <3> QED BY <3>1, <3>2
  <2>5. ASSUME NEW i \in DOMAIN wire'[c], NEW k \in DOMAIN wire'[c], i < k,
               Counted(wire'[c][i]), Counted(wire'[c][k])
        PROVE  wire'[c][i].seq < wire'[c][k].seq
    <3>1. i \in Nat /\ k \in Nat
      <4>1. wire' \in [Clients -> Seq([kind : {"opn", "close", "clo", "fin"}, token : Nat, seq : Nat])]
        BY DEF TypeOK
      <4> QED BY <4>1
    <3>2. i + d < k + d
      BY <2>5, <3>1
    <3> QED BY <2>1, <2>2, <2>5, <3>2 DEF Wired
  <2> QED BY <2>4, <2>5 DEF Wired, Counted
<1>7. ASSUME NEW c \in Clients PROVE Answering(c)'
  BY DEF IInv, Related, Answering, Forward, OldResults
<1>8. ASSUME NEW id \in DOMAIN channels', OldChannel(id) PROVE Passed(id)'
  <2>0. PICK c \in Clients : c = channels[id].owner
    BY <1>2, <1>8 DEF OldChannel
  <2>1. /\ id \in DOMAIN channels /\ channels'[id].owner = c /\ channels[id].owner = c
        /\ channels'[id].session = channels[id].session /\ channels'[id].received = channels[id].received
    BY <1>8, <2>0 DEF OldChannel
  <2>2. ASSUME NEW r, NEW open, Reached(c, r, open) PROVE Reached(c, r, open)'
    <3>1. \A i \in DOMAIN wire'[c] : Counted(wire'[c][i]) => r < wire'[c][i].seq
      BY <2>1, <2>2 DEF Reached, Remains
    <3>2. \A b : CarriedOut(c, b, r) => CarriedOut(c, b, r)'
      BY DEF CarriedOut
    <3> QED BY <1>1, <2>1, <2>2, <3>1, <3>2 DEF Reached, SameNumbers, Forward, Counted
  <2>3. OwnNumber(c)' => OwnNumber(c)
    BY <1>1, <2>1
  <2>4. First(id)'
    BY <2>1 DEF IInv, Related, Passed, First
  <2> QED BY <2>1, <2>2, <2>3, <2>4 DEF IInv, Related, Passed
<1>9. AtMostOnce' /\ InCallOrder'
  BY <1>1, Executed DEF IInv, Related, AtMostOnce, InCallOrder
<1>10. CloseWaits'
  BY <1>1, <1>2 DEF IInv, Related, CloseWaits, SameNumbers, OldChannel, Advanced
<1>11. \A id \in DOMAIN channels' : Passed(id)'
  BY <1>8 DEF Advanced
<1> QED BY <1>3, <1>4, <1>5, <1>6, <1>7, <1>9, <1>10, <1>11 DEF Related

LEMMA Uncounted ==
  ASSUME TypeOK, NEW c \in Clients, NEW s \in Seq(Messages), Send(c, s),
         \A i \in DOMAIN s : ~Counted(s[i])
  PROVE  \A d \in Clients : Remains(d)
<1>1. WireTyped
  BY Parts DEF Typed
<1>2. \A d \in Clients : \A i \in DOMAIN wire[d] : i + 0 = i
  BY <1>1 DEF WireTyped
<1>3. CASE wire' = wire
  BY <1>2, <1>3 DEF Remains
<1>4. CASE wire' = [wire EXCEPT ![c] = wire[c] \o s]
  <2>1. ASSUME NEW i \in DOMAIN wire'[c], Counted(wire'[c][i])
        PROVE  i + 0 \in DOMAIN wire[c] /\ wire'[c][i] = wire[c][i + 0]
    <3>1. wire[c] \in Seq(Messages) /\ wire'[c] = wire[c] \o s
      BY <1>1, <1>4 DEF WireTyped
    <3>2. i \in 1 .. Len(wire[c]) + Len(s)
      BY <3>1
    <3>3. CASE i \in 1 .. Len(wire[c])
      BY <3>1, <3>3
    <3>4. CASE i \in Len(wire[c]) + 1 .. Len(wire[c]) + Len(s)
      BY <2>1, <3>1, <3>4
    <3> QED BY <3>1, <3>2, <3>3, <3>4
  <2>2. Remains(c)
    BY <2>1 DEF Remains
  <2>3. ASSUME NEW d \in Clients \ {c} PROVE Remains(d)
    <3>1. wire'[d] = wire[d]
      BY <1>1, <1>4 DEF WireTyped
    <3> QED BY <1>2, <3>1 DEF Remains
  <2> QED BY <2>2, <2>3
<1> QED BY <1>3, <1>4 DEF Send

LEMMA Shifted ==
  ASSUME NEW S, NEW s \in Seq(S), s # <<>>
  PROVE  \A i \in DOMAIN Tail(s) : i + 1 \in DOMAIN s /\ Tail(s)[i] = s[i + 1]
<1>1. Len(s) \in Nat \ {0} /\ DOMAIN s = 1 .. Len(s) /\ Tail(s) \in Seq(S)
      /\ Len(Tail(s)) = Len(s) - 1 /\ DOMAIN Tail(s) = 1 .. Len(Tail(s))
  BY HeadTailProperties, EmptySeq, LenProperties
<1> QED BY <1>1, HeadTailProperties

LEMMA Shortened ==
  ASSUME TypeOK, NEW c \in Clients, wire[c] # <<>>, wire' = [wire EXCEPT ![c] = Tail(@)]
  PROVE  \A d \in Clients : Remains(d)
<1>1. WireTyped
  BY Parts DEF Typed
<1>2. \A d \in Clients : \A i \in DOMAIN wire[d] : i + 0 = i
  BY <1>1 DEF WireTyped
<1>3. wire[c] \in Seq(Messages) /\ wire'[c] = Tail(wire[c])
  BY <1>1 DEF WireTyped
<1>4. \A i \in DOMAIN wire'[c] : i + 1 \in DOMAIN wire[c] /\ wire'[c][i] = wire[c][i + 1]
  BY <1>3, Shifted
<1>5. Remains(c)
  BY <1>4 DEF Remains
<1>6. ASSUME NEW d \in Clients \ {c} PROVE Remains(d)
  <2>1. wire'[d] = wire[d]
    BY <1>1 DEF WireTyped
  <2> QED BY <1>2, <2>1 DEF Remains
<1> QED BY <1>5, <1>6

LEMMA SameWire ==
  ASSUME TypeOK, wire' = wire
  PROVE  \A c \in Clients : Remains(c)
<1>1. \A c \in Clients : \A i \in DOMAIN wire[c] : i + 0 = i
  BY Parts DEF Typed, WireTyped
<1> QED BY <1>1 DEF Remains

LEMMA ReadOn ==
  ASSUME TypeOK, NEW c \in Clients, replies[c] # <<>>, replies' = [replies EXCEPT ![c] = Tail(@)]
  PROVE  \A d \in Clients : OldResults(d)
<1>1. RepliesTyped
  BY Parts DEF Typed
<1>2. replies[c] \in Seq(Answers) /\ replies'[c] = Tail(replies[c])
  BY <1>1 DEF RepliesTyped
<1>3. \A i \in DOMAIN replies'[c] : i + 1 \in DOMAIN replies[c] /\ replies'[c][i] = replies[c][i + 1]
  BY <1>2, Shifted
<1> QED BY <1>1, <1>3 DEF OldResults, RepliesTyped

LEMMA SameReplies == ASSUME replies' = replies PROVE \A c \in Clients : OldResults(c)
BY DEF OldResults

LEMMA SameClients == ASSUME client' = client PROVE \A c \in Clients : SameNumbers(c)
BY DEF SameNumbers

LEMMA SameChannels == ASSUME channels' = channels PROVE \A id \in DOMAIN channels' : OldChannel(id)
BY DEF OldChannel

LEMMA CloseSocket ==
  ASSUME TypeOK, NEW c \in Clients, Timeout(c) \/ EndDisconnect(c) \/ ClientDies(c)
  PROVE  \A d \in Clients : Remains(d) /\ OldResults(d)
<1>1. PICK s \in Seq(Messages) : (Shut(c, s) \/ UNCHANGED tcpVars) /\ \A i \in DOMAIN s : ~Counted(s[i])
  <2>1. client[c].seq + 1 \in Nat /\ ClientTyped
    BY Parts DEF Typed, ClientTyped, ClientRecords
  <2>2. /\ <<Message("clo", c, client[c].seq + 1)>> \in Seq(Messages)
        /\ \A i \in DOMAIN <<Message("clo", c, client[c].seq + 1)>> :
             ~Counted(<<Message("clo", c, client[c].seq + 1)>>[i])
    BY <2>1, Messaging DEF Counted, Message
  <2>3. <<>> \in Seq(Messages) /\ \A i \in DOMAIN <<>> : ~Counted(<<>>[i])
    OBVIOUS
  <2>4. \/ Shut(c, <<Message("clo", c, client[c].seq + 1)>>)
        \/ Shut(c, <<>>)
        \/ UNCHANGED tcpVars
    BY DEF Timeout, EndDisconnect, ClientDies
  <2> QED BY <2>2, <2>3, <2>4
<1>2. CASE Shut(c, s)
  <2>1. ClientTyped /\ RepliesTyped
    BY Parts DEF Typed
  <2>2. PICK m : m = Message("fin", c, 0)
    OBVIOUS
  <2>3. m \in Messages /\ ~Counted(m)
    BY <2>1, <2>2, Messaging DEF Counted, Message
  <2>4. s \o <<m>> \in Seq(Messages) /\ \A i \in DOMAIN (s \o <<m>>) : ~Counted((s \o <<m>>)[i])
    BY <1>1, <2>3
  <2>5. Send(c, s \o <<m>>) /\ replies' = [replies EXCEPT ![c] = <<>>]
    BY <1>2, <2>2 DEF Shut
  <2>6. \A d \in Clients : OldResults(d)
    BY <2>1, <2>5 DEF OldResults, RepliesTyped
  <2> QED BY <2>4, <2>5, <2>6, Uncounted
<1>3. CASE UNCHANGED tcpVars
  BY <1>3, SameWire, SameReplies DEF tcpVars
<1> QED BY <1>1, <1>2, <1>3

LEMMA TokenGetsDueQuiet == ASSUME IInv, TypeOK', NEW c \in Clients, TokenGetsDue(c) PROVE Related'
<1>1. task' = task /\ executed' = executed /\ wire' = wire /\ replies' = replies
      /\ channels' = channels /\ client' = client /\ state' = state /\ call' = call
  BY DEF TokenGetsDue, history, channelVars, tcpVars
<1>2. \A d \in Clients : Forward(d)
  BY <1>1 DEF Forward, IInv, Related, Numbered
<1> QED BY <1>1, <1>2, QuietStep, SameWire, SameReplies, SameClients, SameChannels DEF IInv

LEMMA ReceiveQuiet ==
  ASSUME IInv, TypeOK', NEW c \in Clients, ReceiveRenewal(c) \/ ReceiveReply(c) \/ DropReply(c)
  PROVE  Related'
<1>1. task' = task /\ executed' = executed /\ wire' = wire /\ channels' = channels
      /\ replies[c] # <<>> /\ replies' = [replies EXCEPT ![c] = Tail(@)]
  BY DEF ReceiveRenewal, ReceiveReply, DropReply, history, channelVars, tcpVars
<1>2. \A d \in Clients : SameNumbers(d)
  BY Receiving, Parts DEF Typed, IInv
<1>3. \A d \in Clients : Forward(d)
  <2>1. state \in [Clients -> {"off", "open", "renewing", "renewed", "failed", "waiting",
                               "closing", "gone"}]
        /\ call \in [Clients -> Tasks \cup {NoTask}]
    BY DEF IInv, TypeOK
  <2>2. \A d \in Clients : state[d] = "off" => wire[d] = <<>>
    BY DEF IInv, Related, Numbered
  <2>3. /\ state[c] \in {"renewing", "waiting", "closing"}
        /\ \/ state' = state /\ call' = call
           \/ /\ state[c] # "closing"
              /\ \E s \in {"open", "renewed", "failed"} : state' = [state EXCEPT ![c] = s]
              /\ call' \in {call, [call EXCEPT ![c] = NoTask]}
    BY DEF ReceiveRenewal, ReceiveReply, DropReply
  <2> QED BY <1>1, <2>1, <2>2, <2>3 DEF Forward
<1> QED BY <1>1, <1>2, <1>3, QuietStep, SameWire, ReadOn, SameChannels DEF IInv

LEMMA CloseQuiet ==
  ASSUME IInv, TypeOK', NEW c \in Clients, Timeout(c) \/ EndDisconnect(c) \/ ClientDies(c)
  PROVE  Related'
<1>1. task' = task /\ executed' = executed /\ channels' = channels /\ client' = client
  BY DEF Timeout, EndDisconnect, ClientDies, history, channelVars
<1>2. \A d \in Clients : Remains(d) /\ OldResults(d)
  BY CloseSocket DEF IInv
<1>3. \A d \in Clients : Forward(d)
  <2>1. state \in [Clients -> {"off", "open", "renewing", "renewed", "failed", "waiting",
                               "closing", "gone"}]
        /\ call \in [Clients -> Tasks \cup {NoTask}] /\ WireTyped
    BY Parts DEF IInv, TypeOK, Typed
  <2>2. \A d \in Clients : state[d] = "off" => wire[d] = <<>>
    BY DEF IInv, Related, Numbered
  <2>3. /\ state[c] # "off"
        /\ \/ state[c] # "closing" /\ state[c] # "gone" /\ state' = [state EXCEPT ![c] = "open"]
           \/ state' = [state EXCEPT ![c] = "gone"]
        /\ call' \in {call, [call EXCEPT ![c] = NoTask]}
    BY DEF Timeout, EndDisconnect, ClientDies
  <2>4. \A d \in Clients \ {c} : wire'[d] = wire[d]
    BY <2>1 DEF Timeout, EndDisconnect, ClientDies, Shut, Send, tcpVars, WireTyped
  <2> QED BY <2>1, <2>2, <2>3, <2>4 DEF Forward
<1> QED BY <1>1, <1>2, <1>3, QuietStep, SameClients, SameChannels DEF IInv

LEMMA IncompleteTimeoutQuiet ==
  ASSUME IInv, TypeOK', NEW c \in Clients, IncompleteTimeout(c)
  PROVE  Related'
<1>1. task' = task /\ executed' = executed /\ wire' = wire /\ replies' = replies
      /\ channels' = channels /\ client' = client
  BY DEF IncompleteTimeout, history, channelVars, tcpVars
<1>2. \A d \in Clients : Forward(d)
  <2>1. state \in [Clients -> {"off", "open", "renewing", "renewed", "failed", "waiting",
                               "closing", "gone"}]
        /\ call \in [Clients -> Tasks \cup {NoTask}]
    BY DEF IInv, TypeOK
  <2>2. \A d \in Clients : state[d] = "off" => wire[d] = <<>>
    BY DEF IInv, Related, Numbered
  <2>3. /\ state[c] \in {"waiting", "renewing"}
        /\ \E s \in {"open", "failed"} : state' = [state EXCEPT ![c] = s]
        /\ call' = [call EXCEPT ![c] = NoTask]
    BY DEF IncompleteTimeout
  <2> QED BY <1>1, <2>1, <2>2, <2>3 DEF Forward
<1> QED BY <1>1, <1>2, QuietStep, SameWire, SameReplies, SameClients, SameChannels DEF IInv

\* Clients and what is sent to them stay as they are.
LEMMA ServerQuiet ==
  ASSUME IInv, TypeOK', UNCHANGED <<task, executed, clientVars, replies>>,
         \A c \in Clients : Remains(c) /\ (state[c] = "off" => wire'[c] = <<>>),
         \A id \in DOMAIN channels' : OldChannel(id)
  PROVE  Related'
<1>1. \A c \in Clients : SameNumbers(c) /\ Forward(c) /\ OldResults(c)
  BY DEF clientVars, SameNumbers, Forward, OldResults
<1> QED BY <1>1, QuietStep

LEMMA OffSilent == ASSUME IInv, NEW c \in Clients, state[c] = "off" PROVE wire[c] = <<>>
BY DEF IInv, Related, Numbered

LEMMA StopQuiet == ASSUME IInv, TypeOK', StopServer PROVE Related'
<1>1. UNCHANGED <<task, executed, clientVars, replies>>
  BY DEF StopServer, history
<1>2. \A c \in Clients : wire'[c] = <<>>
  BY DEF StopServer
<1>3. \A c \in Clients : Remains(c)
  BY <1>2 DEF Remains
<1>4. channels' = <<>>
  BY DEF StopServer
<1>5. DOMAIN channels' = {}
  BY <1>4
<1> QED BY <1>1, <1>2, <1>3, <1>5, ServerQuiet

LEMMA TakeOff ==
  ASSUME IInv, NEW c \in Clients, wire[c] # <<>>, wire' = [wire EXCEPT ![c] = Tail(@)]
  PROVE  \A d \in Clients : Remains(d) /\ (state[d] = "off" => wire'[d] = <<>>)
<1>1. \A d \in Clients : Remains(d)
  BY Shortened DEF IInv
<1>2. \A d \in Clients \ {c} : wire'[d] = wire[d]
  BY Parts DEF IInv, Typed, WireTyped
<1> QED BY <1>1, <1>2, OffSilent

\* Channels are detached or freed, and their tokens put in use; no number changes.
LEMMA ChannelsLeft ==
  ASSUME IInv, \/ \E c \in Clients : HandleCloseChannel(c) \/ HandleFin(c)
               \/ Cleanup \/ RejectChunk
  PROVE  \A id \in DOMAIN channels' : OldChannel(id)
<1>1. ASSUME NEW c \in Clients, HandleCloseChannel(c) PROVE \A id \in DOMAIN channels' : OldChannel(id)
  <2>1. PICK id \in ChannelOf(c) :
          \/ channels' = [k \in DOMAIN channels \ {id} |-> channels[k]]
          \/ channels' = [channels EXCEPT ![id] = Seen(id, Head(wire[c]).token)]
    BY <1>1 DEF HandleCloseChannel
  <2>2. id \in DOMAIN channels
    BY DEF ChannelOf
  <2>3. SameButTokens(Seen(id, Head(wire[c]).token), channels[id])
    BY <2>2, SeenTyped, Parts DEF IInv, Typed, SameButTokens
  <2>4. CASE channels' = [k \in DOMAIN channels \ {id} |-> channels[k]]
    BY <2>4 DEF OldChannel
  <2>5. CASE channels' = [channels EXCEPT ![id] = Seen(id, Head(wire[c]).token)]
    BY <2>3, <2>5 DEF OldChannel, SameButTokens
  <2> QED BY <2>1, <2>4, <2>5
<1>2. ASSUME NEW c \in Clients, HandleFin(c) PROVE \A id \in DOMAIN channels' : OldChannel(id)
  <2>1. \A id \in DOMAIN channels : channels[id] \in SecureChannels(lastTokenId)
    BY Parts DEF IInv, Typed, ChannelsTyped
  <2>2. channels' = [id \in DOMAIN channels |->
          IF channels[id].peer = c THEN [channels[id] EXCEPT !.peer = NoClient] ELSE channels[id]]
    BY <1>2 DEF HandleFin
  <2> QED BY <2>1, <2>2 DEF OldChannel, SecureChannels
<1>3. CASE Cleanup
  <2>1. \A id \in DOMAIN channels : SameButTokens(Revolve(channels[id]), channels[id])
    BY SeenTyped, Parts DEF IInv, Typed
  <2> QED BY <1>3, <2>1 DEF Cleanup, OldChannel, SameButTokens
<1>4. CASE RejectChunk
  <2>1. \A id \in DOMAIN channels : SameButTokens(Seen(id, task[current].token), channels[id])
    BY SeenTyped, Parts DEF IInv, Typed, SameButTokens
  <2> QED BY <1>4, <2>1 DEF RejectChunk, OldChannel, SameButTokens
<1> QED BY <1>1, <1>2, <1>3, <1>4

LEMMA HandleCloseChannelQuiet ==
  ASSUME IInv, TypeOK', NEW c \in Clients, HandleCloseChannel(c) PROVE Related'
<1>1. UNCHANGED <<task, executed, clientVars, replies>>
      /\ wire[c] # <<>> /\ wire' = [wire EXCEPT ![c] = Tail(@)]
  BY DEF HandleCloseChannel, Arrives, history
<1>2. \A d \in Clients : Remains(d) /\ (state[d] = "off" => wire'[d] = <<>>)
  BY <1>1, TakeOff
<1> QED BY <1>1, <1>2, ChannelsLeft, ServerQuiet

LEMMA HandleFinQuiet == ASSUME IInv, TypeOK', NEW c \in Clients, HandleFin(c) PROVE Related'
<1>1. UNCHANGED <<task, executed, clientVars, replies>>
      /\ wire' = [wire EXCEPT ![c] = <<>>]
  BY DEF HandleFin, history
<1>2. WireTyped
  BY Parts DEF IInv, Typed
<1>3. wire'[c] = <<>> /\ \A d \in Clients \ {c} : wire'[d] = wire[d]
  BY <1>1, <1>2 DEF WireTyped
<1>4. \A d \in Clients : \A i \in DOMAIN wire[d] : i + 0 = i
  BY <1>2 DEF WireTyped
<1>7. Remains(c)
  BY <1>3 DEF Remains
<1>5. \A d \in Clients : Remains(d) /\ (state[d] = "off" => wire'[d] = <<>>)
  BY <1>3, <1>4, <1>7, OffSilent DEF Remains
<1> QED BY <1>1, <1>5, ChannelsLeft, ServerQuiet

LEMMA CleanupQuiet == ASSUME IInv, TypeOK', Cleanup PROVE Related'
<1>1. UNCHANGED <<task, executed, clientVars, replies>> /\ wire' = wire
  BY DEF Cleanup, history, tcpVars
<1> QED BY <1>1, ChannelsLeft, ServerQuiet, SameWire, OffSilent DEF IInv

LEMMA RejectChunkQuiet == ASSUME IInv, TypeOK', RejectChunk PROVE Related'
<1>1. UNCHANGED <<task, executed, clientVars, replies>> /\ wire' = wire
  BY DEF RejectChunk, history, tcpVars
<1> QED BY <1>1, ChannelsLeft, ServerQuiet, SameWire, OffSilent DEF IInv

LEMMA RestQuiet ==
  ASSUME IInv, TypeOK',
         \/ StartServer \/ ListTasks \/ TakeTask \/ MissTask \/ FindChannel \/ DeleteTask
         \/ UNCHANGED vars
  PROVE  Related'
<1>1. UNCHANGED <<task, executed, clientVars, replies>> /\ wire' = wire /\ channels' = channels
  BY DEF StartServer, ListTasks, TakeTask, MissTask, FindChannel, DeleteTask, vars, tcpVars,
         channelVars, history
<1> QED BY <1>1, ServerQuiet, SameWire, SameChannels, OffSilent DEF IInv

-----------------------------------------------------------------------------
(* Messages by TCP that are accepted                                           *)

\* An answer that is sent comes after those under way.
LEMMA Appended ==
  ASSUME TypeOK, NEW c \in Clients, NEW kind, NEW token, NEW req, NEW t, NEW a,
         a = [kind |-> kind, token |-> token, req |-> req, of |-> t], Answer(c, kind, token, req, t)
  PROVE  \A d \in Clients : \A i \in DOMAIN replies'[d] :
           \/ i \in DOMAIN replies[d] /\ replies'[d][i] = replies[d][i]
           \/ d = c /\ replies'[d][i] = a
<1>1. replies \in [Clients -> Seq(Answers)]
  BY Parts DEF Typed, RepliesTyped
<1>2. CASE replies' = replies
  BY <1>2
<1>3. CASE replies' = [replies EXCEPT ![c] = Append(replies[c], a)]
  <2>1. replies[c] \in Seq(Answers) /\ replies'[c] = Append(replies[c], a)
    BY <1>1, <1>3
  <2>2. \A i \in DOMAIN replies'[c] :
          \/ i \in DOMAIN replies[c] /\ replies'[c][i] = replies[c][i]
          \/ replies'[c][i] = a
    BY <2>1
  <2>3. \A d \in Clients \ {c} : replies'[d] = replies[d]
    BY <1>1, <1>3
  <2> QED BY <2>2, <2>3
<1> QED BY <1>2, <1>3 DEF Answer

\* An answer that is no result, or the result of CloseSession, adds no other.
LEMMA AnswerKept ==
  ASSUME TypeOK, NEW c \in Clients, NEW kind, NEW token, NEW req, NEW t,
         Answer(c, kind, token, req, t),
         kind # "result" \/ (t = NoTask /\ state[c] \in {"closing", "gone"})
  PROVE  \A d \in Clients : OldResults(d)
<1>1. PICK a : a = [kind |-> kind, token |-> token, req |-> req, of |-> t]
  OBVIOUS
<1>2. a.kind = kind /\ a.of = t
  BY <1>1
<1>3. \A d \in Clients : \A i \in DOMAIN replies'[d] :
           \/ i \in DOMAIN replies[d] /\ replies'[d][i] = replies[d][i]
           \/ d = c /\ replies'[d][i] = a
  BY <1>1, Appended
<1> QED BY <1>2, <1>3 DEF OldResults

\* What the head of the wire of c and the channel attached to it have to do with
\* each other.
LEMMA AtHead ==
  ASSUME IInv, NEW c \in Clients, wire[c] # <<>>, NEW id \in ChannelOf(c)
  PROVE  /\ id \in DOMAIN channels /\ channels[id].owner = c /\ channels[id].peer = c
         /\ channels[id] \in SecureChannels(lastTokenId)
         /\ Head(wire[c]) = wire[c][1] /\ 1 \in DOMAIN wire[c]
         /\ Head(wire[c]) \in Messages
         /\ \A i \in DOMAIN Tail(wire[c]) :
              i + 1 \in DOMAIN wire[c] /\ i + 1 > 1 /\ Tail(wire[c])[i] = wire[c][i + 1]
<1>1. wire[c] \in Seq(Messages) /\ channels[id] \in SecureChannels(lastTokenId)
  BY Parts DEF IInv, Typed, WireTyped, ChannelsTyped, ChannelOf
<1>2. id \in DOMAIN channels /\ channels[id].peer = c
  BY DEF ChannelOf
<1>3. channels[id].owner = c
  BY <1>2, ClientAssumption DEF IInv, Related, Owned
<1>4. Head(wire[c]) = wire[c][1] /\ 1 \in DOMAIN wire[c] /\ Head(wire[c]) \in Messages
  BY <1>1
<1>5. \A i \in DOMAIN Tail(wire[c]) :
        i + 1 \in DOMAIN wire[c] /\ i + 1 > 1 /\ Tail(wire[c])[i] = wire[c][i + 1]
  BY <1>1, Shifted, HeadTailProperties, LenProperties
<1> QED BY <1>1, <1>2, <1>3, <1>4, <1>5

LEMMA HandleRenewalStep ==
  ASSUME IInv, TypeOK', NEW c \in Clients, HandleRenewal(c)
  PROVE  Related'
<1>1. /\ wire[c] # <<>> /\ Head(wire[c]).kind = "opn" /\ wire' = [wire EXCEPT ![c] = Tail(@)]
      /\ task' = task /\ executed' = executed /\ UNCHANGED clientVars
  BY DEF HandleRenewal, Arrives, history
<1>0. PICK id \in ChannelOf(c) : \E token :
        /\ channels' = [channels EXCEPT ![id].received = Head(wire[c]).seq, ![id].next = token]
        /\ Answer(c, "opn", token, 0, NoTask)
  BY DEF HandleRenewal
<1>2. PICK token :
        /\ channels' = [channels EXCEPT ![id].received = Head(wire[c]).seq, ![id].next = token]
        /\ Answer(c, "opn", token, 0, NoTask)
  BY <1>0
<1>3. PICK m : m = Head(wire[c])
  OBVIOUS
<1>4. PICK k : k = channels[id]
  OBVIOUS
<1>5. PICK j : j = [k EXCEPT !.received = m.seq, !.next = token]
  OBVIOUS
<1>6. channels' = [channels EXCEPT ![id] = j]
  BY <1>2, <1>3, <1>4, <1>5
<1>7. /\ id \in DOMAIN channels /\ k.owner = c /\ k.peer = c /\ k \in SecureChannels(lastTokenId)
      /\ m = wire[c][1] /\ 1 \in DOMAIN wire[c] /\ m.kind = "opn" /\ m.seq \in Nat
      /\ \A i \in DOMAIN wire'[c] :
           i + 1 \in DOMAIN wire[c] /\ i + 1 > 1 /\ wire'[c][i] = wire[c][i + 1]
  <2>1. wire'[c] = Tail(wire[c])
    BY <1>1, Parts DEF IInv, Typed, WireTyped
  <2>2. /\ id \in DOMAIN channels /\ channels[id].owner = c /\ channels[id].peer = c
        /\ channels[id] \in SecureChannels(lastTokenId)
        /\ Head(wire[c]) = wire[c][1] /\ 1 \in DOMAIN wire[c]
        /\ Head(wire[c]) \in Messages
        /\ \A i \in DOMAIN Tail(wire[c]) :
              i + 1 \in DOMAIN wire[c] /\ i + 1 > 1 /\ Tail(wire[c])[i] = wire[c][i + 1]
    BY <1>1, AtHead
  <2>3. m.seq \in Nat
    BY <1>3, <2>2 DEF Messages
  <2> QED BY <1>1, <1>3, <1>4, <2>1, <2>2, <2>3
<1>8. j.owner = c /\ j.peer = c /\ j.session = k.session /\ j.received = m.seq
  <2>1. PICK i : i = [k EXCEPT !.received = m.seq]
    OBVIOUS
  <2>2. i = [peer |-> k.peer, owner |-> k.owner, session |-> k.session, received |-> m.seq,
             token |-> k.token, next |-> k.next]
    BY <1>7, <2>1 DEF SecureChannels
  <2>3. j = [i EXCEPT !.next = token]
    BY <1>5, <2>1
  <2> QED BY <1>7, <2>2, <2>3
<1>9. ASSUME OwnNumber(c) PROVE Reached(c, m.seq, k.session)' /\ k.session
  <2>1. Reached(c, k.received, k.session)
    BY <1>4, <1>7, <1>9 DEF IInv, Related, Passed
  <2>2. /\ Placed(c, m) /\ Counted(m) /\ Numbered(c)
        /\ \A i \in DOMAIN wire[c] : i > 1 /\ Counted(wire[c][i]) => m.seq < wire[c][i].seq
    <3>1. Wired(c) /\ Numbered(c)
      BY DEF IInv, Related
    <3>2. Counted(m)
      BY <1>7 DEF Counted
    <3> QED BY <1>7, <3>1, <3>2 DEF Wired
  <2>3. /\ client[c].seq \in Nat /\ client[c].base \in Nat /\ k.received \in Nat
        /\ \A t \in Tasks : task[t].seq \in Nat /\ task[t].base \in Nat
    BY <1>7, Parts
       DEF IInv, Typed, ClientTyped, ClientRecords, TaskTyped, Chunks, SecureChannels
  <2>4. k.received < m.seq /\ m.seq <= client[c].base /\ client[c].base <= client[c].seq
    BY <1>7, <2>1, <2>2 DEF Reached, Placed, Numbered
  <2>5. k.session
    BY <1>7, <2>1, <2>3, <2>4 DEF Reached
  <2>6. \A i \in DOMAIN wire'[c] : Counted(wire'[c][i]) => m.seq < wire'[c][i].seq
    BY <1>7, <2>2
  <2>7. \A i \in DOMAIN executed : task[executed[i]].by = c => task[executed[i]].seq <= m.seq
    BY <1>7, <2>1, <2>3, <2>4, Executed DEF Reached, IInv
  <2>8. \A b \in Nat : m.seq <= b => CarriedOut(c, b, m.seq)'
    BY <1>7 DEF CarriedOut
  <2>9. \A t \in Own(c) : m.seq < task[t].seq => CarriedOut(c, task[t].base, m.seq)'
    BY <1>1, <1>7, <2>2, <2>3, <2>8 DEF Own, Placed
  <2>10. client[c].base \in Nat /\ m.seq <= client[c].seq /\ CarriedOut(c, client[c].base, m.seq)'
    BY <1>1, <1>7, <2>3, <2>4, <2>8 DEF clientVars
  <2> QED BY <1>1, <2>5, <2>6, <2>7, <2>9, <2>10 DEF Reached, Own, clientVars, Counted
<1>10. Advanced(id)
  <2>1. channels'[id] = j
    BY <1>6, <1>7
  <2>2. OwnNumber(c)' <=> OwnNumber(c)
    BY <1>1 DEF OwnNumber, clientVars
  <2>3. First(id)'
    <3>1. Placed(c, m)
      BY <1>7 DEF IInv, Related, Wired
    <3>2. \A t \in Tasks : task[t].seq \in Nat /\ task[t].base \in Nat
      BY Parts DEF IInv, Typed, TaskTyped, Chunks
    <3>3. \A t \in Own(c) : task[t].base = 0 => task[t].seq <= m.seq
      BY <1>7, <3>1, <3>2 DEF Placed, Own
    <3> QED BY <1>1, <1>8, <2>1, <3>3, Executed DEF IInv, First, Own
  <2>4. Passed(id)'
    BY <1>8, <1>9, <2>1, <2>2, <2>3 DEF Passed
  <2> QED BY <1>4, <1>7, <1>8, <1>9, <2>1, <2>4 DEF Advanced
<1>11. \A i \in DOMAIN channels' : OldChannel(i) \/ Advanced(i)
  BY <1>6, <1>10 DEF OldChannel
<1>12. \A d \in Clients : SameNumbers(d) /\ Remains(d) /\ Forward(d)
  BY <1>1, TakeOff DEF clientVars, SameNumbers, Forward
<1>13. \A d \in Clients : OldResults(d)
  BY <1>2, AnswerKept DEF IInv
<1> QED BY <1>1, <1>11, <1>12, <1>13, QuietStep

LEMMA HandleCloseSessionStep ==
  ASSUME IInv, TypeOK', NEW c \in Clients, HandleCloseSession(c)
  PROVE  Related'
<1>1. /\ wire[c] # <<>> /\ Head(wire[c]).kind = "close" /\ wire' = [wire EXCEPT ![c] = Tail(@)]
      /\ task' = task /\ executed' = executed /\ UNCHANGED clientVars
  BY DEF HandleCloseSession, Arrives, history
<1>0. PICK id \in ChannelOf(c) : \E m, k :
        /\ m = Head(wire[c]) /\ k = Seen(id, m.token)
        /\ IF Expected(id, m)
           THEN /\ channels' = [channels EXCEPT ![id] = [k EXCEPT !.received = @ + 1, !.session = FALSE]]
                /\ Answer(c, "result", k.token, client[c].req, NoTask)
           ELSE channels' = [channels EXCEPT ![id] = k] /\ UNCHANGED replies
  BY DEF HandleCloseSession
<1>2. PICK m, k :
        /\ m = Head(wire[c]) /\ k = Seen(id, m.token)
        /\ IF Expected(id, m)
           THEN /\ channels' = [channels EXCEPT ![id] = [k EXCEPT !.received = @ + 1, !.session = FALSE]]
                /\ Answer(c, "result", k.token, client[c].req, NoTask)
           ELSE channels' = [channels EXCEPT ![id] = k] /\ UNCHANGED replies
  BY <1>0
<1>3. /\ id \in DOMAIN channels /\ channels[id].owner = c /\ channels[id].peer = c
      /\ Head(wire[c]) = wire[c][1] /\ 1 \in DOMAIN wire[c]
      /\ \A i \in DOMAIN Tail(wire[c]) :
            i + 1 \in DOMAIN wire[c] /\ i + 1 > 1 /\ Tail(wire[c])[i] = wire[c][i + 1]
  BY <1>1, AtHead
<1>4. wire'[c] = Tail(wire[c])
  BY <1>1, Parts DEF IInv, Typed, WireTyped
<1>5. SameButTokens(k, channels[id]) /\ k \in SecureChannels(lastTokenId)
  BY <1>2, <1>3, SeenTyped, Parts DEF IInv, Typed, ChannelsTyped, SameButTokens
<1>6. \A d \in Clients : SameNumbers(d) /\ Remains(d) /\ Forward(d)
  BY <1>1, TakeOff DEF clientVars, SameNumbers, Forward
<1>7. CASE ~Expected(id, m)
  <2>1. channels' = [channels EXCEPT ![id] = k] /\ replies' = replies
    BY <1>2, <1>7
  <2>2. \A i \in DOMAIN channels' : OldChannel(i)
    BY <1>5, <2>1 DEF OldChannel, SameButTokens
  <2> QED BY <1>1, <1>6, <2>1, <2>2, QuietStep, SameReplies
<1>8. CASE Expected(id, m)
  <2>1. PICK j : j = [k EXCEPT !.received = @ + 1, !.session = FALSE]
    OBVIOUS
  <2>2. channels' = [channels EXCEPT ![id] = j] /\ Answer(c, "result", k.token, client[c].req, NoTask)
    BY <1>2, <1>8, <2>1, Zenon
  <2>3. j.owner = c /\ j.peer = c /\ j.session = FALSE /\ j.received = channels[id].received + 1
    <3>1. j.received = k.received + 1 /\ j.peer = k.peer /\ j.owner = k.owner /\ j.session = FALSE
      BY <1>5, <2>1, Closed
    <3> QED BY <1>3, <1>5, <3>1 DEF SameButTokens
  <2>4. m = wire[c][1] /\ m.kind = "close" /\ m.seq = channels[id].received + 1 /\ Counted(m)
    BY <1>1, <1>2, <1>3, <1>8 DEF Expected, InSequence, Counted
  <2>5. Placed(c, m) /\ state[c] \in {"closing", "gone"}
    BY <1>3, <2>4 DEF IInv, Related, Wired, Placed
  <2>6. /\ client[c].seq \in Nat /\ client[c].base \in Nat /\ channels[id].received \in Nat
        /\ \A t \in Tasks : task[t].seq \in Nat /\ task[t].base \in Nat
    BY <1>3, Parts DEF IInv, Typed, ClientTyped, ClientRecords, TaskTyped, Chunks, ChannelsTyped,
                       SecureChannels
  <2>7. ASSUME OwnNumber(c) PROVE Reached(c, m.seq, FALSE)'
    <3>1. Reached(c, channels[id].received, channels[id].session)
      BY <1>3, <2>7 DEF IInv, Related, Passed
    <3>2. \A i \in DOMAIN wire'[c] : Counted(wire'[c][i]) => m.seq < wire'[c][i].seq
      BY <1>3, <1>4, <2>4 DEF IInv, Related, Wired
    <3>3. \A i \in DOMAIN executed : task[executed[i]].by = c => task[executed[i]].seq <= m.seq
      BY <2>4, <2>6, <3>1, Executed DEF Reached, IInv
    <3>4. \A t \in Own(c) : task[t].seq < m.seq
      BY <2>4, <2>5 DEF Placed
    <3>5. m.seq = client[c].seq
      BY <2>4, <2>5 DEF Placed
    <3> QED BY <1>1, <2>5, <2>6, <3>2, <3>3, <3>4, <3>5 DEF Reached, Own, clientVars, Counted
  <2>8. ASSUME OwnNumber(c), NEW t \in Tasks, task[t].by = c, task[t].base = client[c].base
        PROVE  \E i \in DOMAIN executed : executed[i] = t
    <3>1. Reached(c, channels[id].received, channels[id].session)
      BY <1>3, <2>8 DEF IInv, Related, Passed
    <3>2. m.seq = client[c].seq /\ task[t].seq < m.seq
      BY <2>4, <2>5, <2>8 DEF Placed, Own
    <3>3. channels[id].session
      BY <2>4, <2>6, <3>1, <3>2 DEF Reached
    <3>4. CarriedOut(c, client[c].base, channels[id].received)
      BY <3>1, <3>3 DEF Reached
    <3>5. Numbered(c)
      BY DEF IInv, Related
    <3>6. task[t].seq \in client[c].base + 1 .. channels[id].received
      BY <2>4, <2>6, <2>8, <3>2, <3>5 DEF Numbered, Own
    <3>7. PICK i \in DOMAIN executed :
            task[executed[i]].by = c /\ task[executed[i]].seq = task[t].seq
      BY <3>4, <3>6 DEF CarriedOut
    <3>8. executed[i] = t
      BY <2>8, <3>5, <3>7, Executed DEF Numbered, Own, IInv
    <3> QED BY <3>8
  <2>9. Advanced(id)
    <3>1. channels'[id] = j
      BY <1>3, <2>2
    <3>2. OwnNumber(c)' <=> OwnNumber(c)
      BY <1>1 DEF OwnNumber, clientVars
    <3>3. First(id)'
      BY SMTT(30), <1>1, <1>3, <2>3, <2>6, <3>1, Executed DEF IInv, Related, Passed, First
    <3>4. Passed(id)'
      BY <2>3, <2>4, <2>7, <3>1, <3>2, <3>3 DEF Passed
    <3> QED BY <1>3, <2>3, <2>8, <3>1, <3>4 DEF Advanced
  <2>10. \A i \in DOMAIN channels' : OldChannel(i) \/ Advanced(i)
    BY <2>2, <2>9 DEF OldChannel
  <2>11. \A d \in Clients : OldResults(d)
    BY <2>2, <2>5, AnswerKept DEF IInv
  <2> QED BY <1>1, <1>6, <2>10, <2>11, QuietStep
<1> QED BY <1>7, <1>8

-----------------------------------------------------------------------------
(* A task that is accepted                                                     *)

\* What is known of the task that is worked on and of the channel it is for.
LEMMA AtHand ==
  ASSUME IInv, ExecuteChunk
  PROVE  /\ held \in DOMAIN channels /\ channels[held] \in SecureChannels(lastTokenId)
         /\ channels[held].owner \in Clients /\ channels[held].peer = channels[held].owner
         /\ held = task[current].ch /\ current \in Tasks /\ task[current].by \in Clients
         /\ task[current].seq = channels[held].received + 1
         /\ client[channels[held].owner].ch = held
<1>1. held \in DOMAIN channels /\ channels[held].peer # NoClient /\ phase = "process"
      /\ task[current].seq = channels[held].received + 1
  BY DEF ExecuteChunk, InOrder, Expected, InSequence, Handle
<1>2. channels[held] \in SecureChannels(lastTokenId) /\ held \in Nat \ {0}
  BY <1>1, Parts DEF IInv, Typed, ChannelsTyped
<1>3. channels[held].owner \in Clients
  BY <1>2 DEF SecureChannels
<1>4. current \in 1 .. nextTask - 1 /\ held = task[current].ch
  BY <1>1, <1>2 DEF IInv, Queued, NoChannel
<1>5. current \in Tasks /\ task[current].by \in Clients
  BY <1>4, BoundAssumption DEF IInv, TypeOK, Queued, Tasks
<1> QED BY <1>1, <1>2, <1>3, <1>4, <1>5 DEF IInv, Related, Owned

LEMMA ForeignStep ==
  ASSUME IInv, TypeOK', ExecuteChunk, executed' = executed, NEW k, NEW kind,
         k = Seen(held, task[current].token), kind # "result",
         channels' = [channels EXCEPT ![held] = [k EXCEPT !.received = @ + 1]],
         Answer(k.peer, kind, k.token, task[current].req, current),
         ~(k.session /\ k.owner = task[current].by)
  PROVE  Related'
<1>1. UNCHANGED <<task, clientVars, wire>>
  BY DEF ExecuteChunk
<1>2. SameButTokens(k, channels[held]) /\ k \in SecureChannels(lastTokenId)
  BY AtHand, SeenTyped, Parts DEF IInv, Typed, ChannelsTyped, SameButTokens
<1>3. PICK j : j = [k EXCEPT !.received = @ + 1]
  OBVIOUS
<1>4. /\ j.owner = channels[held].owner /\ j.peer = channels[held].peer
      /\ j.session = channels[held].session /\ j.received = channels[held].received + 1
  BY <1>2, <1>3 DEF SameButTokens, SecureChannels
<1> PICK h : h = held
  OBVIOUS
<1>5. PICK c \in Clients : h = held /\ c = channels[held].owner
  BY AtHand
<1>6. ASSUME OwnNumber(c) PROVE FALSE
  <2>1. task[current].by = c
    BY <1>5, <1>6, AtHand, ClientAssumption DEF OwnNumber
  <2>2. ~channels[held].session
    BY <1>2, <1>5, <2>1 DEF SameButTokens
  <2>3. Reached(c, channels[held].received, channels[held].session) /\ Numbered(c)
    BY <1>5, <1>6, AtHand DEF IInv, Related, Passed
  <2>4. channels[held].received = client[c].seq /\ task[current].seq <= client[c].seq
    BY <2>1, <2>2, <2>3, AtHand DEF Reached, Numbered, Own
  <2>5. client[c].seq \in Nat
    BY Parts DEF IInv, Typed, ClientTyped, ClientRecords
  <2> QED BY <2>4, <2>5, AtHand
<1>7. \A i \in DOMAIN channels' : OldChannel(i) \/ Advanced(i)
  <2>1. channels'[h] = j /\ h \in DOMAIN channels
    BY <1>3, <1>5, AtHand
  <2>2. OwnNumber(c)' <=> OwnNumber(c)
    BY <1>1 DEF OwnNumber, clientVars
  <2>3. First(h)'
    <3>1. channels[h].received \in Nat /\ \A t \in Tasks : task[t].seq \in Nat
      BY <1>5, AtHand, Parts DEF IInv, Typed, TaskTyped, Chunks, SecureChannels
    <3>2. First(h)
      BY <1>5, AtHand DEF IInv, Related, Passed
    <3> QED BY <1>1, <1>4, <1>5, <2>1, <3>1, <3>2, Executed DEF IInv, First
  <2>4. Passed(h)'
    BY <1>4, <1>5, <1>6, <2>1, <2>2, <2>3 DEF Passed
  <2>5. Advanced(h)
    BY <1>4, <1>5, <1>6, <2>1, <2>4 DEF Advanced
  <2> QED BY <1>5, <2>5 DEF OldChannel
<1>8. k.peer \in Clients
  BY <1>2, AtHand DEF SameButTokens
<1>9. \A d \in Clients : SameNumbers(d) /\ Remains(d) /\ Forward(d) /\ OldResults(d)
  BY <1>1, <1>8, SameWire, OffSilent, AnswerKept DEF IInv, clientVars, SameNumbers, Forward
<1> QED BY <1>1, <1>7, <1>9, QuietStep

LEMMA CarryOutStep ==
  ASSUME IInv, TypeOK', ExecuteChunk, NEW k, k = Seen(held, task[current].token),
         k.session, k.owner = task[current].by, Execute(k),
         channels' = [channels EXCEPT ![held] = [k EXCEPT !.received = @ + 1]]
  PROVE  Related'
<1>0. /\ executed' = Append(executed, current)
      /\ Answer(k.peer, "result", k.token, task[current].req, current)
  BY DEF Execute
<1>1. UNCHANGED <<task, clientVars, wire>>
  BY DEF ExecuteChunk
<1>2. SameButTokens(k, channels[held]) /\ k \in SecureChannels(lastTokenId)
  BY AtHand, SeenTyped, Parts DEF IInv, Typed, ChannelsTyped, SameButTokens
<1>3. PICK j : j = [k EXCEPT !.received = @ + 1]
  OBVIOUS
<1>4. /\ j.owner = channels[held].owner /\ j.peer = channels[held].peer
      /\ j.session = channels[held].session /\ j.received = channels[held].received + 1
  BY <1>2, <1>3 DEF SameButTokens, SecureChannels
<1> PICK h : h = held
  OBVIOUS
<1> PICK t : t = current
  OBVIOUS
<1> PICK r : r = channels[held].received
  OBVIOUS
<1> PICK c : c = channels[held].owner
  OBVIOUS
<1>5. /\ h \in DOMAIN channels /\ channels[h].session /\ channels[h].peer = c
      /\ channels[h].owner = c /\ channels[h].received = r
      /\ c \in Clients /\ t \in Tasks /\ task[t].by = c /\ task[t].seq = r + 1 /\ t \in Own(c)
      /\ client[c].ch = h
  BY <1>2, AtHand DEF SameButTokens, Own
<1>6. /\ r \in Nat
      /\ \A d \in Clients : client[d].seq \in Nat /\ client[d].base \in Nat
      /\ \A u \in Tasks : task[u].seq \in Nat /\ task[u].base \in Nat
  BY <1>5, AtHand, Parts DEF IInv, Typed, ClientTyped, ClientRecords, TaskTyped, Chunks, SecureChannels
<1>7. /\ DOMAIN executed' = DOMAIN executed \cup {Len(executed) + 1}
      /\ \A i \in DOMAIN executed : executed'[i] = executed[i] /\ i \in 1 .. Len(executed)
      /\ executed'[Len(executed) + 1] = t /\ Len(executed) \in Nat
  BY <1>0, <1>5, Parts DEF IInv, Typed, HistoryTyped
<1>8. /\ channels'[h].owner = c /\ channels'[h].peer = c /\ channels'[h].session
      /\ channels'[h].received = r + 1 /\ DOMAIN channels' = DOMAIN channels
      /\ \A id \in DOMAIN channels \ {h} : channels'[id] = channels[id]
  BY <1>3, <1>4, <1>5
<1>9. \A d \in Clients : (OwnNumber(d)' <=> OwnNumber(d)) /\ Own(d)' = Own(d)
  BY <1>1 DEF OwnNumber, Own, clientVars
<1>10. \A d, b, n : CarriedOut(d, b, n) => CarriedOut(d, b, n)'
  BY <1>1, <1>7 DEF CarriedOut
<1>11. Owned'
  BY <1>1, <1>8 DEF IInv, Related, Owned, clientVars
<1>12. \A d \in Clients : Numbered(d)' /\ Waited(d)' /\ Wired(d)'
  BY <1>1, <1>9 DEF IInv, Related, Numbered, Waited, Wired, Placed, Counted, clientVars
<1>13. ASSUME NEW d \in Clients PROVE Answering(d)'
  <2>1. PICK a : a = [kind |-> "result", token |-> k.token, req |-> task[current].req, of |-> current]
    OBVIOUS
  <2>2. a.req = task[t].req /\ a.of = t
    BY <2>1
  <2>3. k.peer = c
    BY <1>2, <1>5 DEF SameButTokens
  <2>4. \A i \in DOMAIN replies'[d] :
          \/ i \in DOMAIN replies[d] /\ replies'[d][i] = replies[d][i]
          \/ d = c /\ replies'[d][i] = a
    BY <1>0, <1>5, <2>1, <2>3, Appended DEF IInv
  <2>5. t # NoTask
    BY <1>5 DEF Tasks, NoTask
  <2> QED BY <1>1, <1>5, <2>2, <2>4, <2>5 DEF IInv, Related, Answering, clientVars
<1>14. ASSUME NEW id \in DOMAIN channels \ {h} PROVE Passed(id)'
  <2>1. PICK d : d = channels[id].owner
    OBVIOUS
  <2>2. d \in Clients /\ d # c
    BY <1>5, <2>1, Parts DEF IInv, Related, Owned, Typed, ChannelsTyped, SecureChannels
  <2>3. ASSUME NEW n, NEW open, Reached(d, n, open) PROVE Reached(d, n, open)'
    BY <1>1, <1>5, <1>7, <1>9, <1>10, <2>2, <2>3 DEF Reached, clientVars, Counted
  <2>4. First(id)'
    BY <1>1, <1>5, <1>7, <1>8, <2>1, <2>2 DEF IInv, Related, Passed, First
  <2> QED BY <1>8, <1>9, <2>1, <2>2, <2>3, <2>4 DEF IInv, Related, Passed
<1>15. ASSUME OwnNumber(c) PROVE Reached(c, r + 1, TRUE)'
  <2>1. Reached(c, r, TRUE) /\ Numbered(c) /\ Wired(c)
    BY <1>5, <1>15 DEF IInv, Related, Passed
  <2>2. r + 1 <= client[c].seq
    BY <1>5, <2>1 DEF Numbered
  <2>3. ASSUME NEW i \in DOMAIN wire[c], Counted(wire[c][i]) PROVE r + 1 < wire[c][i].seq
    <3>0. wire[c][i].seq \in Nat
      <4>1. wire[c] \in Seq(Messages)
        BY <1>5, Parts DEF IInv, Typed, WireTyped
      <4>2. wire[c][i] \in Messages
        BY <2>3, <4>1
      <4> QED BY <4>2 DEF Messages
    <3>1. Placed(c, wire[c][i]) /\ r < wire[c][i].seq
      BY <2>1, <2>3 DEF Wired, Reached
    <3>2. task[t].base < task[t].seq
      BY <1>5, <2>1 DEF Numbered
    <3> QED BY <1>5, <1>6, <2>3, <3>0, <3>1, <3>2 DEF Placed, Counted
  <2>4. \A i \in DOMAIN executed' : task[executed'[i]].by = c => task[executed'[i]].seq <= r + 1
    <3>1. ASSUME NEW i \in DOMAIN executed, task[executed[i]].by = c
          PROVE  task[executed[i]].seq <= r + 1
      BY <1>6, <2>1, <3>1, Executed DEF Reached, IInv
    <3> QED BY <1>5, <1>6, <1>7, <3>1
  <2>5. ASSUME NEW b \in Nat, CarriedOut(c, b, r), b < r + 1 => task[t].base = b
        PROVE  CarriedOut(c, b, r + 1)'
    <3>1. CarriedOut(c, b, r)'
      BY <1>10, <2>5
    <3>2. ASSUME NEW n \in b + 1 .. r + 1, n \notin b + 1 .. r
          PROVE  task[t].base = b /\ task[t].seq = n
      BY <1>5, <1>6, <2>5, <3>2
    <3> QED BY <1>1, <1>5, <1>7, <3>1, <3>2 DEF CarriedOut
  <2>6. CarriedOut(c, client[c].base, r + 1)'
    <3>1. PICK b : b = client[c].base
      OBVIOUS
    <3>2. CarriedOut(c, b, r) /\ b \in Nat /\ (b < r + 1 => task[t].base = b)
      BY <1>5, <1>6, <2>1, <3>1 DEF Reached, Numbered
    <3>3. client'[c].base = b
      BY <1>1, <3>1 DEF clientVars
    <3> QED BY <2>5, <3>2, <3>3
  <2>7. ASSUME NEW u \in Own(c), r + 1 < task[u].seq PROVE CarriedOut(c, task[u].base, r + 1)'
    <3>1. PICK b : b = task[u].base
      OBVIOUS
    <3>2. u \in Tasks
      BY DEF Own
    <3>3. CarriedOut(c, b, r) /\ b \in Nat /\ (b < r + 1 => task[t].base = b)
      BY <1>5, <1>6, <2>1, <2>7, <3>1, <3>2 DEF Reached, Numbered
    <3>4. task'[u].base = b
      BY <1>1, <3>1
    <3> QED BY <2>5, <3>3, <3>4
  <2> QED BY <1>1, <1>5, <1>9, <2>2, <2>3, <2>4, <2>6, <2>7 DEF Reached, clientVars, Counted
<1>16. \A id \in DOMAIN channels' : Passed(id)'
  <2>1. \A i \in DOMAIN executed :
          task[executed[i]].by = c /\ task[executed[i]].base = 0 => task[executed[i]].seq <= r + 1
    BY <1>5, <1>6, Executed DEF IInv, Related, Passed, First
  <2>2. First(h)'
    BY <1>1, <1>5, <1>6, <1>7, <1>8, <2>1 DEF First
  <2>3. Passed(h)'
    BY <1>5, <1>8, <1>9, <1>15, <2>2 DEF Passed
  <2> QED BY <1>8, <1>14, <2>3
<1>17. AtMostOnce'
  <2>1. ASSUME NEW i \in DOMAIN executed, executed[i] = t, OwnNumber(c) \/ task[t].base = 0
        PROVE  FALSE
    <3>1. CASE OwnNumber(c)
      BY <1>5, <1>6, <2>1, <3>1, Executed DEF IInv, Related, Passed, Reached
    <3>2. CASE task[t].base = 0
      BY <1>5, <1>6, <2>1, <3>2, Executed DEF IInv, Related, Passed, First
    <3> QED BY <2>1, <3>1, <3>2
  <2> QED BY <1>1, <1>5, <1>7, <1>9, <2>1, Executed DEF IInv, Related, AtMostOnce
<1>18. InCallOrder'
  <2>1. ASSUME OwnNumber(c), NEW n \in task[t].base + 1 .. task[t].seq - 1
        PROVE  \E i \in 1 .. Len(executed) :
                 LET u == task'[executed'[i]]
                 IN u.by = c /\ u.base = task[t].base /\ u.seq = n
    <3>1. Reached(c, r, TRUE)
      BY <1>5, <2>1 DEF IInv, Related, Passed
    <3>2. r < task[t].seq /\ n \in task[t].base + 1 .. r
      BY <1>5, <1>6
    <3>3. CarriedOut(c, task[t].base, r)
      BY <1>5, <3>1, <3>2 DEF Reached
    <3> QED BY <1>1, <1>7, <3>2, <3>3 DEF CarriedOut
  <2>2. ASSUME NEW q \in DOMAIN executed PROVE \A i \in 1 .. q - 1 : executed'[i] = executed[i]
    BY <1>7, Parts DEF IInv, Typed, HistoryTyped
  <2>3. ASSUME NEW q \in DOMAIN executed', NEW v, v = task'[executed'[q]], OwnNumber(v.by)',
               NEW n \in v.base + 1 .. v.seq - 1
        PROVE  \E i \in 1 .. q - 1 :
                 LET u == task'[executed'[i]] IN u.by = v.by /\ u.base = v.base /\ u.seq = n
    <3>1. CASE q = Len(executed) + 1
      <4>1. v = task[t] /\ Len(executed) = q - 1
        BY <1>1, <1>7, <2>3, <3>1
      <4>2. OwnNumber(c)
        BY <1>5, <1>9, <2>3, <4>1
      <4> QED BY <1>5, <2>1, <2>3, <4>1, <4>2
    <3>2. CASE q \in DOMAIN executed
      <4>1. v = task[executed[q]] /\ v.by \in Clients
        BY <1>1, <1>7, <2>3, <3>2, Executed DEF IInv
      <4>2. OwnNumber(v.by)
        BY <1>9, <2>3, <4>1
      <4>3. \E i \in 1 .. q - 1 :
              LET u == task[executed[i]] IN u.by = v.by /\ u.base = v.base /\ u.seq = n
        BY <2>3, <3>2, <4>1, <4>2 DEF IInv, Related, InCallOrder
      <4> QED BY <1>1, <2>2, <3>2, <4>3
    <3>3. q \in DOMAIN executed \/ q = Len(executed) + 1
      BY <1>7
    <3> QED BY <3>1, <3>2, <3>3, Zenon
  <2> QED BY <2>3, OrderAfter
<1>19. CloseWaits'
  <2>1. ASSUME NEW id \in DOMAIN channels \ {h}, NEW d, d = channels[id].owner, OwnNumber(d)',
               ~channels[id].session, NEW u \in Tasks, task[u].by = d,
               task[u].base = client[d].base
        PROVE  \E i \in DOMAIN executed' : executed'[i] = u
    <3>1. d \in Clients
      BY <2>1, Parts DEF IInv, Typed, ChannelsTyped, SecureChannels
    <3>2. OwnNumber(d)
      BY <1>9, <2>1, <3>1
    <3>3. PICK i \in DOMAIN executed : executed[i] = u
      BY <2>1, <3>2 DEF IInv, Related, CloseWaits
    <3> QED BY <1>7, <3>3
  <2> QED BY <1>1, <1>8, <2>1 DEF CloseWaits, clientVars
<1> QED BY <1>11, <1>12, <1>13, <1>16, <1>17, <1>18, <1>19 DEF Related

LEMMA ExecuteStep == ASSUME IInv, TypeOK', ExecuteChunk PROVE Related'
<1>1. PICK k : k = Seen(held, task[current].token)
  OBVIOUS
<1>2. channels' = [channels EXCEPT ![held] = [k EXCEPT !.received = @ + 1]] /\ Execute(k)
  BY <1>1 DEF ExecuteChunk
<1>3. CASE k.session /\ k.owner = task[current].by
  BY <1>1, <1>2, <1>3, CarryOutStep
<1>4. CASE ~(k.session /\ k.owner = task[current].by)
  BY <1>1, <1>2, <1>4, ForeignStep DEF Execute
<1> QED BY <1>3, <1>4

-----------------------------------------------------------------------------
(* What a client sends                                                         *)

Unaffected(d) ==
  /\ client'[d] = client[d] /\ state'[d] = state[d] /\ call'[d] = call[d]
  /\ wire'[d] = wire[d] /\ Own(d)' = Own(d)

\* The tasks that were there are as they were.
KeptTasks == \A t \in Tasks : t < nextTask => task'[t] = task[t]

LEMMA OwnCreated == ASSUME IInv, NEW d \in Clients PROVE \A t \in Own(d) : t \in Tasks /\ t < nextTask
BY DEF IInv, Queued, Own

LEMMA Bystander ==
  ASSUME IInv, KeptTasks, executed' = executed, replies' = replies, NEW d \in Clients, Unaffected(d)
  PROVE  /\ Numbered(d)' /\ Waited(d)' /\ Wired(d)' /\ Answering(d)'
         /\ \A r, open : Reached(d, r, open) => Reached(d, r, open)'
<1>1. /\ client'[d] = client[d] /\ state'[d] = state[d] /\ call'[d] = call[d]
      /\ wire'[d] = wire[d] /\ Own(d)' = Own(d)
  BY DEF Unaffected
<1>2. \A t \in Own(d) : task'[t] = task[t]
  BY OwnCreated DEF KeptTasks
<1>3. \A i \in DOMAIN executed : task'[executed[i]] = task[executed[i]]
  BY Executed DEF IInv, KeptTasks, Queued
<1>4. Numbered(d)' /\ Waited(d)' /\ Wired(d)'
  BY <1>1, <1>2 DEF IInv, Related, Numbered, Waited, Wired, Placed, Counted
<1>5. Answering(d)'
  <2>1. ASSUME NEW i \in DOMAIN replies[d], replies[d][i].of # NoTask,
               task[replies[d][i].of].by = d
        PROVE  task'[replies[d][i].of] = task[replies[d][i].of]
    <3>1. replies[d] \in Seq(Answers)
      BY Parts DEF IInv, Typed, RepliesTyped
    <3>2. replies[d][i] \in Answers
      BY <3>1
    <3>3. replies[d][i].of \in Tasks
      BY <2>1, <3>2 DEF Answers
    <3> QED BY <2>1, <3>3 DEF IInv, Queued, KeptTasks
  <2> QED BY <1>1, <2>1 DEF IInv, Related, Answering
<1>6. \A b, n : CarriedOut(d, b, n) => CarriedOut(d, b, n)'
  BY <1>3 DEF CarriedOut
<1>7. ASSUME NEW r, NEW open, Reached(d, r, open) PROVE Reached(d, r, open)'
  BY <1>1, <1>2, <1>3, <1>6, <1>7 DEF Reached, Counted
<1> QED BY <1>4, <1>5, <1>7

\* A client whose numbers are its own after the step had them before.
OldNumber(d) == Own(d) # {} /\ OwnNumber(d)' => OwnNumber(d)

\* After a step of c a channel is another client's and as it was, or it is the
\* channel of c, and open.
Apart(c, id) ==
  \/ /\ id \in DOMAIN channels /\ channels'[id] = channels[id] /\ channels[id].owner # c
     /\ OwnNumber(channels[id].owner)' => OwnNumber(channels[id].owner)
  \/ /\ channels'[id].owner = c /\ channels'[id].peer \in {c, NoClient}
     /\ OwnNumber(c)' => channels'[id].session
     /\ client'[c].ch = id /\ Passed(id)'

LEMMA SendStep ==
  ASSUME IInv, TypeOK', KeptTasks, executed' = executed, replies' = replies, NEW c \in Clients,
         \A d \in Clients \ {c} : Unaffected(d),
         \A d \in Clients : OldNumber(d),
         Numbered(c)', Waited(c)', Wired(c)', Answering(c)', state'[c] # "off",
         \A id \in DOMAIN channels' : Apart(c, id)
  PROVE  Related'
<1>1. \A i \in DOMAIN executed : task'[executed[i]] = task[executed[i]] /\ Own(task[executed[i]].by) # {}
                                 /\ task[executed[i]].by \in Clients
  BY Executed DEF IInv, KeptTasks, Queued, Own
<1>2. \A id \in DOMAIN channels : channels[id].owner \in Clients
  BY Parts DEF IInv, Typed, ChannelsTyped, SecureChannels
<1>3. \A d \in Clients : Numbered(d)' /\ Waited(d)' /\ Wired(d)' /\ Answering(d)'
  BY Bystander
<1>4. Owned'
  BY <1>2 DEF IInv, Related, Owned, Unaffected, Apart
<1>5. ASSUME NEW id \in DOMAIN channels' PROVE Passed(id)'
  <2>1. CASE channels'[id].owner # c
    <3>1. PICK d : d = channels[id].owner
      OBVIOUS
    <3>2. d \in Clients \ {c} /\ channels'[id] = channels[id] /\ id \in DOMAIN channels
          /\ (OwnNumber(d)' => OwnNumber(d))
      BY <1>2, <2>1, <3>1 DEF Apart
    <3>3. First(id)'
      BY <1>1, <3>1, <3>2 DEF IInv, Related, Passed, First
    <3> QED BY <3>1, <3>2, <3>3, Bystander DEF IInv, Related, Passed
  <2>2. CASE channels'[id].owner = c
    BY <2>2 DEF Apart
  <2> QED BY <2>1, <2>2
<1>6. AtMostOnce'
  BY <1>1 DEF IInv, Related, AtMostOnce, OldNumber
<1>7. InCallOrder'
  <2>1. ASSUME NEW q \in DOMAIN executed', NEW v, v = task'[executed'[q]], OwnNumber(v.by)',
               NEW n \in v.base + 1 .. v.seq - 1
        PROVE  \E i \in 1 .. q - 1 :
                 LET u == task'[executed'[i]] IN u.by = v.by /\ u.base = v.base /\ u.seq = n
    <3>1. v = task[executed[q]] /\ OwnNumber(v.by)
      BY <1>1, <2>1 DEF OldNumber
    <3>2. \A i \in 1 .. q - 1 : i \in DOMAIN executed
      BY Parts DEF IInv, Typed, HistoryTyped
    <3>3. PICK i \in 1 .. q - 1 :
            LET u == task[executed[i]] IN u.by = v.by /\ u.base = v.base /\ u.seq = n
      BY <2>1, <3>1 DEF IInv, Related, InCallOrder
    <3> QED BY <1>1, <3>2, <3>3
  <2> QED BY <2>1, OrderAfter
<1>8. CloseWaits'
  <2>1. ASSUME NEW id \in DOMAIN channels', ~channels'[id].session, NEW d, d = channels'[id].owner,
               OwnNumber(d)', NEW u \in Tasks, task'[u].by = d, task'[u].base = client'[d].base
        PROVE  \E i \in DOMAIN executed : executed[i] = u
    <3>1. d \in Clients \ {c} /\ id \in DOMAIN channels /\ channels'[id] = channels[id] /\ OwnNumber(d)
      BY <1>2, <2>1 DEF Apart
    <3>2. u \in Own(d) /\ client'[d] = client[d]
      BY <2>1, <3>1 DEF Unaffected, Own
    <3>3. task'[u] = task[u]
      BY <3>1, <3>2, OwnCreated DEF KeptTasks
    <3> QED BY <2>1, <3>1, <3>2, <3>3 DEF IInv, Related, CloseWaits
  <2> QED BY <2>1 DEF CloseWaits
<1> QED BY <1>3, <1>4, <1>5, <1>6, <1>7, <1>8 DEF Related

\* What lies on the wire and in the tasks of a client that has not begun to close.
LEMMA SentSoFar ==
  ASSUME IInv, NEW c \in Clients, state[c] \notin {"closing", "gone"}
  PROVE  /\ client[c].seq \in Nat /\ client[c].base \in Nat /\ client[c].req \in Nat
         /\ wire[c] \in Seq(Messages)
         /\ \A t \in Tasks : task[t].seq \in Nat /\ task[t].base \in Nat /\ task[t].req \in Nat
         /\ \A i \in DOMAIN wire[c] :
              Counted(wire[c][i]) => /\ wire[c][i].kind = "opn" /\ wire[c][i].seq \in Nat
                                     /\ wire[c][i].seq <= client[c].base
                                     /\ wire[c][i].seq <= client[c].seq
<1>1. /\ client[c].seq \in Nat /\ client[c].base \in Nat /\ client[c].req \in Nat
      /\ wire[c] \in Seq(Messages)
      /\ \A t \in Tasks : task[t].seq \in Nat /\ task[t].base \in Nat /\ task[t].req \in Nat
  BY Parts DEF IInv, Typed, ClientTyped, ClientRecords, WireTyped, TaskTyped, Chunks
<1>2. Wired(c) /\ client[c].base <= client[c].seq
  BY DEF IInv, Related, Numbered
<1>3. \A i \in DOMAIN wire[c] : wire[c][i] \in Messages
  BY <1>1
<1>4. \A i \in DOMAIN wire[c] :
        Counted(wire[c][i]) => /\ wire[c][i].kind = "opn" /\ wire[c][i].seq \in Nat
                               /\ wire[c][i].seq <= client[c].base
  BY <1>2, <1>3 DEF Wired, Placed, Counted, Messages
<1> QED BY <1>1, <1>2, <1>4

LEMMA OpenChannel ==
  ASSUME IInv, NEW id \in DOMAIN channels, NEW c, c = channels[id].owner,
         state[c] \notin {"closing", "gone"}
  PROVE  /\ c \in Clients /\ channels[id].peer \in {c, NoClient} /\ client[c].ch = id
         /\ channels[id].received \in Nat /\ channels[id].session \in BOOLEAN
         /\ OwnNumber(c) => channels[id].session /\ Reached(c, channels[id].received, TRUE)
<1>1. channels[id] \in SecureChannels(lastTokenId)
  BY Parts DEF IInv, Typed, ChannelsTyped
<1>2. /\ c \in Clients /\ channels[id].received \in Nat /\ channels[id].session \in BOOLEAN
  BY <1>1 DEF SecureChannels
<1>3. channels[id].peer \in {c, NoClient} /\ client[c].ch = id
  BY DEF IInv, Related, Owned
<1>4. ASSUME OwnNumber(c) PROVE channels[id].session /\ Reached(c, channels[id].received, TRUE)
  <2>1. Reached(c, channels[id].received, channels[id].session)
    BY <1>4 DEF IInv, Related, Passed
  <2>2. channels[id].session = TRUE
    BY <1>2, <2>1 DEF Reached
  <2> QED BY <2>1, <2>2
<1> QED BY <1>2, <1>3, <1>4

\* What a client that is not yet connected has left behind: nothing.
LEMMA NotYet ==
  ASSUME IInv, NEW c \in Clients, state[c] = "off"
  PROVE  /\ Own(c) = {} /\ wire[c] = <<>>
         /\ \A i \in DOMAIN replies[c] : replies[c][i].kind # "result"
         /\ \A i \in DOMAIN executed : task[executed[i]].by # c
         /\ \A id \in DOMAIN channels : channels[id].owner # c
<1>1. Own(c) = {} /\ wire[c] = <<>>
  BY DEF IInv, Related, Numbered
<1>2. ASSUME NEW i \in DOMAIN replies[c], replies[c][i].kind = "result" PROVE FALSE
  <2>1. replies[c] \in Seq(Answers)
    BY Parts DEF IInv, Typed, RepliesTyped
  <2>2. replies[c][i] \in Answers
    BY <2>1
  <2>3. replies[c][i].of # NoTask /\ task[replies[c][i].of].by = c
    BY <1>2 DEF IInv, Related, Answering
  <2> QED BY <1>1, <2>2, <2>3 DEF Own, Answers
<1>3. \A i \in DOMAIN executed : task[executed[i]].by # c
  BY <1>1, Parts DEF IInv, Typed, HistoryTyped, Own
<1>4. \A id \in DOMAIN channels : channels[id].owner # c
  BY DEF IInv, Related, Owned
<1> QED BY <1>1, <1>2, <1>3, <1>4

LEMMA ConnectStep == ASSUME IInv, TypeOK', NEW c \in Clients, Connect(c) PROVE Related'
<1>0. ClientTyped /\ ServerTyped /\ ChannelsTyped /\ StateTyped
  BY Parts DEF IInv, Typed
<1>1. /\ state[c] = "off" /\ state' = [state EXCEPT ![c] = "open"]
      /\ task' = task /\ wire' = wire /\ call' = call /\ executed' = executed /\ replies' = replies
  BY DEF Connect, queueVars, history
<1>2. PICK k : k = client[c]
  OBVIOUS
<1>3. Becomes(client, client', c, lastChannelId, k.base, k.seq, k.req, lastTokenId, k.heard)
  BY <1>0, <1>2, Connected
<1>4. /\ client'[c].ch = lastChannelId /\ client'[c].base = client[c].base
      /\ client'[c].seq = client[c].seq
  BY <1>2, <1>3 DEF Becomes
<1>5. client[c].base \in Nat /\ client[c].seq \in Nat /\ client[c].base <= client[c].seq
  BY <1>0 DEF ClientTyped, ClientRecords, IInv, Related, Numbered
<1>6. /\ Own(c) = {} /\ wire[c] = <<>>
      /\ \A i \in DOMAIN replies[c] : replies[c][i].kind # "result"
      /\ \A i \in DOMAIN executed : task[executed[i]].by # c
      /\ \A id \in DOMAIN channels : channels[id].owner # c
  BY <1>1, NotYet
<1>7. state'[c] = "open" /\ Own(c)' = {} /\ KeptTasks
  BY <1>0, <1>1, <1>6 DEF StateTyped, Own, KeptTasks
<1>8. \A d \in Clients \ {c} : Unaffected(d)
  BY <1>0, <1>1, <1>3 DEF Unaffected, Becomes, StateTyped, Own
<1>9. \A d \in Clients \ {c} : OwnNumber(d)' => OwnNumber(d)
  BY <1>1, <1>8 DEF Unaffected, OwnNumber
<1>10. \A d \in Clients : OldNumber(d)
  BY <1>6, <1>9 DEF OldNumber
<1>11. Numbered(c)' /\ Waited(c)'
  BY <1>4, <1>5, <1>7 DEF Numbered, Waited
<1>12. Wired(c)' /\ Answering(c)'
  BY <1>1, <1>6 DEF Wired, Answering
<1>13. ASSUME NEW id \in DOMAIN channels'
       PROVE  Apart(c, id)
  <2>0. lastChannelId \notin DOMAIN channels
    BY <1>0 DEF ChannelsTyped, ServerTyped
  <2>1. CASE id # lastChannelId
    <3>1. id \in DOMAIN channels /\ channels'[id] = channels[id]
      BY <2>1 DEF Connect
    <3>2. PICK d : d = channels[id].owner
      OBVIOUS
    <3>3. d \in Clients \ {c}
      BY <1>0, <1>6, <3>1, <3>2 DEF ChannelsTyped, SecureChannels
    <3> QED BY <1>9, <3>1, <3>2, <3>3 DEF Apart
  <2>2. CASE id = lastChannelId
    <3>1. channels'[id] = [peer |-> c, owner |-> c, session |-> TRUE, received |-> 0,
                           token |-> lastTokenId, next |-> NoToken]
      BY <2>2 DEF Connect
    <3>2. /\ channels'[id].owner = c /\ channels'[id].peer = c /\ channels'[id].session = TRUE
          /\ channels'[id].received = 0
      BY <3>1
    <3>3. CarriedOut(c, client[c].base, 0)'
      BY <1>4, <1>5 DEF CarriedOut
    <3>4. Reached(c, 0, TRUE)'
      BY <1>1, <1>4, <1>5, <1>6, <1>7, <3>3 DEF Reached
    <3>5. First(id)'
      BY <1>1, <1>6, <3>2 DEF First
    <3>6. Passed(id)'
      BY <3>2, <3>4, <3>5 DEF Passed
    <3> QED BY <1>4, <2>2, <3>2, <3>6 DEF Apart
  <2> QED BY <2>1, <2>2
<1> QED BY <1>1, <1>7, <1>8, <1>10, <1>11, <1>12, <1>13, SendStep

\* A message with the next sequence number is sent, or lost: behind what was sent
\* before it.
LEMMA SentOn ==
  ASSUME IInv, NEW c \in Clients, NEW kind \in {"opn", "close"}, NEW n \in Nat,
         Send(c, <<Message(kind, c, n)>>)
  PROVE  /\ \A d \in Clients \ {c} : wire'[d] = wire[d]
         /\ \A i \in DOMAIN wire[c] : i \in Nat /\ i <= Len(wire[c])
         /\ \A i \in DOMAIN wire'[c] :
              \/ i \in DOMAIN wire[c] /\ wire'[c][i] = wire[c][i]
              \/ i = Len(wire[c]) + 1 /\ wire'[c][i].kind = kind /\ wire'[c][i].seq = n
<1>1. wire \in [Clients -> Seq(Messages)] /\ wire[c] \in Seq(Messages)
  BY Parts DEF IInv, Typed, WireTyped
<1>2. PICK m : m = Message(kind, c, n)
  OBVIOUS
<1>3. m.kind = kind /\ m.seq = n
  BY <1>2 DEF Message
<1>4. m \in Messages
  BY <1>2, Messaging, Parts DEF IInv, Typed
<1>5. PICK s : s = wire[c] \o <<m>>
  OBVIOUS
<1>6. /\ \A i \in DOMAIN wire[c] : i \in Nat /\ i <= Len(wire[c])
      /\ \A i \in DOMAIN s : \/ i \in DOMAIN wire[c] /\ s[i] = wire[c][i]
                             \/ i = Len(wire[c]) + 1 /\ s[i] = m
  BY <1>1, <1>4, <1>5
<1>7. wire' = wire \/ wire' = [wire EXCEPT ![c] = s]
  BY <1>2, <1>5 DEF Send
<1>8. wire'[c] \in {wire[c], s} /\ \A d \in Clients \ {c} : wire'[d] = wire[d]
  BY <1>1, <1>7
<1> QED BY <1>3, <1>6, <1>8

\* What c sends leaves its open channel where it was.
LEMMA OwnChannel ==
  ASSUME IInv, NEW c \in Clients, state[c] \notin {"closing", "gone"}, channels' = channels,
         KeptTasks, executed' = executed, client'[c].ch = client[c].ch, \A d \in Clients : OwnNumber(d)' => OwnNumber(d),
         \A r \in Nat : Reached(c, r, TRUE) => Reached(c, r, TRUE)'
  PROVE  \A id \in DOMAIN channels' : Apart(c, id)
<1> SUFFICES ASSUME NEW id \in DOMAIN channels PROVE Apart(c, id)
  OBVIOUS
<1>1. CASE channels[id].owner # c
  <2>1. PICK d : d = channels[id].owner
    OBVIOUS
  <2>2. d \in Clients
    BY <2>1, Parts DEF IInv, Typed, ChannelsTyped, SecureChannels
  <2> QED BY <1>1, <2>1, <2>2 DEF Apart
<1>2. CASE channels[id].owner = c
  <2>1. /\ channels[id].peer \in {c, NoClient} /\ client[c].ch = id
        /\ channels[id].received \in Nat
        /\ OwnNumber(c) => channels[id].session /\ Reached(c, channels[id].received, TRUE)
    BY <1>2, OpenChannel
  <2>2. channels[id].session \in BOOLEAN
    BY <1>2, OpenChannel
  <2>3. PICK r \in Nat : r = channels[id].received
    BY <2>1
  <2>4. OwnNumber(c)' => channels[id].session = TRUE /\ Reached(c, r, TRUE)'
    BY <2>1, <2>2, <2>3
  <2>5. First(id)'
    <3>1. \A i \in DOMAIN executed : task'[executed[i]] = task[executed[i]]
      BY Executed DEF IInv, KeptTasks, Queued
    <3> QED BY <3>1 DEF IInv, Related, Passed, First
  <2>6. Passed(id)'
    BY <1>2, <2>3, <2>4, <2>5 DEF Passed
  <2> QED BY <1>2, <2>1, <2>4, <2>6 DEF Apart
<1> QED BY <1>1, <1>2

LEMMA RenewStep == ASSUME IInv, TypeOK', NEW c \in Clients, Renew(c) PROVE Related'
<1>0. ClientTyped /\ ServerTyped /\ ChannelsTyped /\ StateTyped
  BY Parts DEF IInv, Typed
<1>1. /\ state[c] \in {"open", "failed"} /\ state' = [state EXCEPT ![c] = "renewing"]
      /\ task' = task /\ call' = call /\ executed' = executed /\ replies' = replies
      /\ channels' = channels
  BY DEF Renew, queueVars, history, channelVars
<1>2. PICK k : k = client[c]
  OBVIOUS
<1>3. Becomes(client, client', c, k.ch, k.seq + 1, k.seq + 1, k.req + 1, k.token, k.heard)
  BY <1>0, <1>2, Renewing
<1>4. /\ client'[c].ch = client[c].ch /\ client'[c].base = client[c].seq + 1
      /\ client'[c].seq = client[c].seq + 1 /\ client'[c].req = client[c].req + 1
  BY <1>2, <1>3 DEF Becomes
<1>5. /\ client[c].seq \in Nat /\ client[c].base \in Nat /\ client[c].req \in Nat
      /\ \A t \in Tasks : task[t].seq \in Nat /\ task[t].base \in Nat /\ task[t].req \in Nat
      /\ \A i \in DOMAIN wire[c] :
           Counted(wire[c][i]) => /\ wire[c][i].kind = "opn" /\ wire[c][i].seq \in Nat
                                  /\ wire[c][i].seq <= client[c].base
                                  /\ wire[c][i].seq <= client[c].seq
  BY <1>1, SentSoFar
<1>6. /\ \A d \in Clients \ {c} : wire'[d] = wire[d]
      /\ \A i \in DOMAIN wire[c] : i \in Nat /\ i <= Len(wire[c])
      /\ \A i \in DOMAIN wire'[c] :
           \/ i \in DOMAIN wire[c] /\ wire'[c][i] = wire[c][i]
           \/ /\ i = Len(wire[c]) + 1 /\ wire'[c][i].kind = "opn"
              /\ wire'[c][i].seq = client[c].seq + 1
  <2>1. Send(c, <<Message("opn", c, client[c].seq + 1)>>) /\ client[c].seq + 1 \in Nat
    BY <1>5 DEF Renew
  <2> QED BY <2>1, SentOn
<1>7. state'[c] = "renewing" /\ Own(c)' = Own(c) /\ Own(c) \subseteq Tasks /\ KeptTasks
  BY <1>0, <1>1 DEF StateTyped, Own, KeptTasks
<1>8. \A d \in Clients \ {c} : Unaffected(d)
  BY <1>0, <1>1, <1>3, <1>6 DEF Unaffected, Becomes, StateTyped, Own
<1>9. \A d \in Clients : OwnNumber(d)' => OwnNumber(d)
  BY <1>1, <1>4, <1>8 DEF Unaffected, OwnNumber
<1>10. \A d \in Clients : OldNumber(d)
  BY <1>9 DEF OldNumber
<1>11. Numbered(c) /\ Wired(c) /\ Answering(c)
  BY DEF IInv, Related
<1>12. Numbered(c)' /\ Waited(c)'
  <2>1. \A t \in Own(c) :
          /\ task[t].seq <= client[c].seq + 1 /\ task[t].base <= client[c].seq + 1
          /\ ~(client[c].seq + 1 < task[t].seq) /\ task[t].req <= client[c].req + 1
    BY <1>5, <1>7, <1>11 DEF Numbered
  <2>2. client'[c].base <= client'[c].seq
    BY <1>4, <1>5
  <2> QED BY <1>1, <1>4, <1>7, <1>11, <2>1, <2>2 DEF Numbered, Waited
<1>13. Wired(c)'
  <2>1. ASSUME NEW i \in DOMAIN wire'[c], NEW m, m = wire'[c][i] PROVE Placed(c, m)'
    <3>1. CASE i \in DOMAIN wire[c] /\ m = wire[c][i]
      <4>1. Placed(c, wire[c][i])
        BY <1>11, <3>1 DEF Wired
      <4>2. wire[c][i].kind # "close"
        BY <1>1, <4>1 DEF Placed
      <4>3. wire[c][i].kind = "opn" =>
              /\ 0 < wire[c][i].seq /\ wire[c][i].seq <= client[c].seq + 1
              /\ \A t \in Own(c) : task[t].seq < wire[c][i].seq \/ wire[c][i].seq <= task[t].base
        BY <1>5, <3>1, <4>1 DEF Placed, Counted
      <4> QED BY <1>1, <1>4, <1>7, <3>1, <4>2, <4>3 DEF Placed
    <3>2. CASE m.kind = "opn" /\ m.seq = client[c].seq + 1
      <4>1. \A t \in Own(c) : task[t].seq < client[c].seq + 1
        BY <1>5, <1>7, <1>11 DEF Numbered
      <4> QED BY <1>1, <1>4, <1>5, <1>7, <3>2, <4>1 DEF Placed
    <3> QED BY <1>6, <2>1, <3>1, <3>2
  <2>2. ASSUME NEW i \in DOMAIN wire'[c], NEW j \in DOMAIN wire'[c], i < j,
               Counted(wire'[c][i]), Counted(wire'[c][j])
        PROVE  wire'[c][i].seq < wire'[c][j].seq
    BY SMTT(30), <1>5, <1>6, <1>11, <2>2 DEF Wired
  <2> QED BY <2>1, <2>2 DEF Wired, Counted
<1>14. Answering(c)'
  BY <1>1, <1>11 DEF Answering
<1>15. ASSUME NEW r \in Nat, Reached(c, r, TRUE) PROVE Reached(c, r, TRUE)'
  <2>1. r <= client[c].seq + 1 /\ ~(client[c].seq + 1 < r) /\ r < client[c].seq + 1
    BY <1>5, <1>15 DEF Reached
  <2>2. \A i \in DOMAIN wire'[c] : Counted(wire'[c][i]) => r < wire'[c][i].seq
    BY <1>6, <1>15, <2>1 DEF Reached
  <2>3. CarriedOut(c, client[c].base, r)'
    BY <1>4, <1>5, <2>1 DEF CarriedOut
  <2>4. \A t \in Own(c)' : r < task'[t].seq => CarriedOut(c, task[t].base, r)'
    BY <1>1, <1>7, <1>15 DEF Reached, CarriedOut
  <2> QED BY <1>1, <1>4, <1>15, <2>1, <2>2, <2>3, <2>4 DEF Reached, Counted
<1>16. \A id \in DOMAIN channels' : Apart(c, id)
  BY <1>1, <1>4, <1>7, <1>9, <1>15, OwnChannel
<1> QED BY <1>1, <1>7, <1>8, <1>10, <1>12, <1>13, <1>14, <1>16, SendStep

\* Of the tasks of c only the one that is waited for can be new; if zoo_create
\* failed there is none.
LEMMA Pushed ==
  ASSUME IInv, NEW c \in Clients, PushTask(c)
  PROVE  /\ KeptTasks
         /\ \A d \in Clients \ {c} : Own(d)' = Own(d) /\ call'[d] = call[d]
         /\ \A d \in Clients : client'[d].ch = client[d].ch /\ OwnNumber(d)' => OwnNumber(d)
         /\ \A t \in Own(c)' :
              \/ t \in Own(c) /\ task'[t] = task[t]
              \/ /\ t = call'[c]
                 /\ task'[t].ch = client[c].ch /\ task'[t].base = client[c].base
                 /\ task'[t].seq = client'[c].seq /\ task'[t].req = client'[c].req
<1>0. TaskTyped /\ CallTyped
  BY Parts DEF IInv, Typed
<1>1. CASE /\ Create /\ call' = [call EXCEPT ![c] = nextTask]
           /\ task' = [task EXCEPT ![nextTask] =
                [by |-> c, ch |-> client[c].ch, token |-> client[c].token, base |-> client[c].base,
                 seq |-> client'[c].seq, req |-> client'[c].req]]
  <2>1. nextTask \in Tasks /\ call'[c] = nextTask /\ \A d \in Clients \ {c} : call'[d] = call[d]
    BY <1>0, <1>1, Parts DEF Create, CallTyped, Tasks, IInv, Typed, QueueTyped
  <2>2. task[nextTask].by \notin Clients /\ task[nextTask].by = NoClient
    BY <1>0, <2>1 DEF IInv, Queued, TaskTyped, Chunks, Tasks
  <2>3. PICK n : n = [by |-> c, ch |-> client[c].ch, token |-> client[c].token,
                      base |-> client[c].base, seq |-> client'[c].seq, req |-> client'[c].req]
    OBVIOUS
  <2>4. /\ n.by = c /\ n.ch = client[c].ch /\ n.base = client[c].base
        /\ n.seq = client'[c].seq /\ n.req = client'[c].req
    BY <2>3
  <2>5. task'[nextTask] = n /\ \A t \in Tasks \ {nextTask} : task'[t] = task[t]
    BY <1>0, <1>1, <2>1, <2>3 DEF TaskTyped
  <2>6. KeptTasks
    BY <2>5 DEF KeptTasks, Tasks
  <2>7. \A d \in Clients \ {c} : Own(d)' = Own(d)
    BY <2>2, <2>4, <2>5 DEF Own
  <2>8. \A d \in Clients : client'[d].ch = client[d].ch /\ OwnNumber(d)' => OwnNumber(d)
    BY <2>2, <2>5 DEF OwnNumber
  <2>9. \A t \in Own(c)' : \/ t \in Own(c) /\ task'[t] = task[t]
                           \/ t = nextTask /\ task'[t] = n
    BY <2>5 DEF Own
  <2> QED BY <2>1, <2>4, <2>6, <2>7, <2>8, <2>9
<1>2. CASE task' = task /\ call' = [call EXCEPT ![c] = NoTask]
  BY <1>0, <1>2 DEF KeptTasks, Own, OwnNumber, CallTyped
<1> QED BY <1>1, <1>2 DEF PushTask

LEMMA PushTaskStep == ASSUME IInv, TypeOK', NEW c \in Clients, PushTask(c) PROVE Related'
<1>0. ClientTyped /\ StateTyped
  BY Parts DEF IInv, Typed
<1>1. /\ state[c] \notin {"off", "closing", "gone"} /\ state' = [state EXCEPT ![c] = "waiting"]
      /\ wire' = wire /\ executed' = executed /\ replies' = replies /\ channels' = channels
  BY DEF PushTask, Ready, tcpVars, history, channelVars
<1>2. PICK k : k = client[c]
  OBVIOUS
<1>3. Becomes(client, client', c, k.ch, k.base, k.seq + 1, k.req + 1, k.token, k.heard)
  BY <1>0, <1>2, CountedOn DEF PushTask
<1>4. /\ client'[c].ch = client[c].ch /\ client'[c].base = client[c].base
      /\ client'[c].seq = client[c].seq + 1 /\ client'[c].req = client[c].req + 1
      /\ \A d \in Clients \ {c} : client'[d] = client[d]
  BY <1>2, <1>3 DEF Becomes
<1>5. /\ client[c].seq \in Nat /\ client[c].base \in Nat /\ client[c].req \in Nat
      /\ \A t \in Tasks : task[t].seq \in Nat /\ task[t].base \in Nat /\ task[t].req \in Nat
      /\ \A i \in DOMAIN wire[c] :
           Counted(wire[c][i]) => /\ wire[c][i].kind = "opn" /\ wire[c][i].seq \in Nat
                                  /\ wire[c][i].seq <= client[c].base
                                  /\ wire[c][i].seq <= client[c].seq
  BY <1>1, SentSoFar
<1>6. /\ KeptTasks
      /\ \A d \in Clients \ {c} : Own(d)' = Own(d) /\ call'[d] = call[d]
      /\ \A d \in Clients : client'[d].ch = client[d].ch /\ OwnNumber(d)' => OwnNumber(d)
      /\ \A t \in Own(c)' :
           \/ t \in Own(c) /\ task'[t] = task[t]
           \/ /\ t = call'[c]
              /\ task'[t].ch = client[c].ch /\ task'[t].base = client[c].base
              /\ task'[t].seq = client[c].seq + 1 /\ task'[t].req = client[c].req + 1
  BY <1>4, Pushed
<1>7. state'[c] = "waiting" /\ Own(c) \subseteq Tasks
  BY <1>0, <1>1 DEF StateTyped, Own
<1>8. \A d \in Clients \ {c} : Unaffected(d)
  BY <1>0, <1>1, <1>4, <1>6 DEF Unaffected, StateTyped
<1>9. \A d \in Clients : OwnNumber(d)' => OwnNumber(d)
  BY <1>4, <1>6
<1>10. \A d \in Clients : OldNumber(d)
  BY <1>9 DEF OldNumber
<1>11. Numbered(c) /\ Wired(c) /\ Answering(c)
  BY DEF IInv, Related
<1>12. \A t \in Own(c) :
         /\ task[t].ch = client[c].ch
         /\ task[t].base < task[t].seq /\ task[t].seq <= client[c].seq
         /\ task[t].base <= client[c].base
         /\ client[c].base < task[t].seq => task[t].base = client[c].base
         /\ task[t].req <= client[c].req
  BY <1>11 DEF Numbered
<1>13. client[c].base <= client[c].seq
  BY <1>11 DEF Numbered
<1>14. Numbered(c)'
  <2>1. ASSUME NEW t \in Own(c)'
        PROVE  /\ task'[t].ch = client'[c].ch
               /\ task'[t].base < task'[t].seq /\ task'[t].seq <= client'[c].seq
               /\ task'[t].base <= client'[c].base
               /\ client'[c].base < task'[t].seq => task'[t].base = client'[c].base
               /\ task'[t].req <= client'[c].req
    BY <1>4, <1>5, <1>6, <1>7, <1>12, <1>13
  <2>2. ASSUME NEW t \in Own(c)', NEW u \in Own(c)'
        PROVE  /\ task'[t].seq = task'[u].seq \/ task'[t].req = task'[u].req => t = u
               /\ task'[u].base < task'[t].seq /\ task'[t].seq < task'[u].seq =>
                    task'[u].base = task'[t].base
    <3>1. CASE t \in Own(c) /\ task'[t] = task[t] /\ u \in Own(c) /\ task'[u] = task[u]
      BY <1>11, <3>1 DEF Numbered
    <3>2. CASE ~(t \in Own(c) /\ task'[t] = task[t] /\ u \in Own(c) /\ task'[u] = task[u])
      BY <1>5, <1>6, <1>7, <1>12, <1>13, <3>2
    <3> QED BY <3>1, <3>2
  <2>3. client'[c].base <= client'[c].seq
    BY <1>4, <1>5, <1>13
  <2> QED BY <1>7, <2>1, <2>2, <2>3 DEF Numbered
<1>15. Waited(c)'
  <2>1. \A t \in Own(c) : task[t].req # client[c].req + 1
    BY <1>5, <1>7, <1>12
  <2> QED BY <1>4, <1>6, <2>1 DEF Waited
<1>16. Wired(c)'
  <2>1. ASSUME NEW i \in DOMAIN wire[c] PROVE Placed(c, wire[c][i])'
    <3>1. Placed(c, wire[c][i])
      BY <1>11 DEF Wired
    <3>2. wire[c][i].kind # "close"
      BY <1>1, <3>1 DEF Placed
    <3>3. ASSUME wire[c][i].kind = "opn", NEW t \in Own(c)'
          PROVE  task'[t].seq < wire[c][i].seq \/ wire[c][i].seq <= task'[t].base
      BY <1>6, <3>1, <3>3 DEF Placed
    <3> QED BY <1>1, <1>4, <3>1, <3>2, <3>3 DEF Placed
  <2> QED BY <1>1, <1>11, <2>1 DEF Wired, Counted
<1>17. Answering(c)'
  <2>1. ASSUME NEW i \in DOMAIN replies[c], replies[c][i].kind = "result"
        PROVE  /\ replies[c][i].of # NoTask
               /\ task'[replies[c][i].of].by = c
               /\ task'[replies[c][i].of].req = replies[c][i].req
    <3>1. replies[c] \in Seq(Answers)
      BY Parts DEF IInv, Typed, RepliesTyped
    <3>2. replies[c][i] \in Answers
      BY <3>1
    <3>3. /\ replies[c][i].of # NoTask /\ task[replies[c][i].of].by = c
          /\ task[replies[c][i].of].req = replies[c][i].req
      BY <1>1, <1>11, <2>1 DEF Answering
    <3>4. replies[c][i].of \in Own(c)
      BY <3>2, <3>3 DEF Answers, Own
    <3>5. task'[replies[c][i].of] = task[replies[c][i].of]
      BY <1>6, <3>4, OwnCreated DEF KeptTasks
    <3> QED BY <3>3, <3>5
  <2> QED BY <1>1, <2>1 DEF Answering
<1>18. ASSUME NEW r \in Nat, Reached(c, r, TRUE) PROVE Reached(c, r, TRUE)'
  <2>1. \A i \in DOMAIN executed : task'[executed[i]] = task[executed[i]]
    BY <1>6, Executed DEF IInv, KeptTasks, Queued
  <2>2. \A b : CarriedOut(c, b, r) => CarriedOut(c, b, r)'
    BY <1>1, <2>1 DEF CarriedOut
  <2>3. r <= client'[c].seq
    BY <1>4, <1>5, <1>18 DEF Reached
  <2>4. ASSUME NEW t \in Own(c)', r < task'[t].seq, NEW b, b = task'[t].base PROVE CarriedOut(c, b, r)'
    BY <1>6, <1>18, <2>2, <2>4 DEF Reached
  <2> QED BY <1>1, <1>4, <1>18, <2>1, <2>2, <2>3, <2>4 DEF Reached, Counted
<1>19. \A id \in DOMAIN channels' : Apart(c, id)
  BY <1>1, <1>4, <1>6, <1>9, <1>18, OwnChannel
<1> QED BY <1>1, <1>6, <1>7, <1>8, <1>10, <1>14, <1>15, <1>16, <1>17, <1>19, SendStep

LEMMA DisconnectStep == ASSUME IInv, TypeOK', NEW c \in Clients, Disconnect(c) PROVE Related'
<1>0. ClientTyped /\ StateTyped
  BY Parts DEF IInv, Typed
<1>1. /\ state[c] \notin {"off", "closing", "gone"} /\ state' = [state EXCEPT ![c] = "closing"]
      /\ task' = task /\ call' = call /\ executed' = executed /\ replies' = replies
      /\ channels' = channels
  BY DEF Disconnect, Ready, queueVars, history, channelVars
<1>2. PICK k : k = client[c]
  OBVIOUS
<1>3. Becomes(client, client', c, k.ch, k.base, k.seq + 1, k.req + 1, k.token, k.heard)
  BY <1>0, <1>2, CountedOn DEF Disconnect
<1>4. /\ client'[c].ch = client[c].ch /\ client'[c].base = client[c].base
      /\ client'[c].seq = client[c].seq + 1 /\ client'[c].req = client[c].req + 1
      /\ \A d \in Clients \ {c} : client'[d] = client[d]
  BY <1>2, <1>3 DEF Becomes
<1>5. /\ client[c].seq \in Nat /\ client[c].base \in Nat /\ client[c].req \in Nat
      /\ \A t \in Tasks : task[t].seq \in Nat /\ task[t].base \in Nat /\ task[t].req \in Nat
      /\ \A i \in DOMAIN wire[c] :
           Counted(wire[c][i]) => /\ wire[c][i].kind = "opn" /\ wire[c][i].seq \in Nat
                                  /\ wire[c][i].seq <= client[c].base
                                  /\ wire[c][i].seq <= client[c].seq
  BY <1>1, SentSoFar
<1>6. /\ \A d \in Clients \ {c} : wire'[d] = wire[d]
      /\ \A i \in DOMAIN wire[c] : i \in Nat /\ i <= Len(wire[c])
      /\ \A i \in DOMAIN wire'[c] :
           \/ i \in DOMAIN wire[c] /\ wire'[c][i] = wire[c][i]
           \/ /\ i = Len(wire[c]) + 1 /\ wire'[c][i].kind = "close"
              /\ wire'[c][i].seq = client[c].seq + 1
  <2>1. Send(c, <<Message("close", c, client[c].seq + 1)>>)
    BY <1>4 DEF Disconnect
  <2>2. client[c].seq + 1 \in Nat
    BY <1>5
  <2> QED BY <2>1, <2>2, SentOn
<1>7. state'[c] = "closing" /\ Own(c)' = Own(c) /\ Own(c) \subseteq Tasks /\ KeptTasks
  BY <1>0, <1>1 DEF StateTyped, Own, KeptTasks
<1>8. \A d \in Clients \ {c} : Unaffected(d)
  BY <1>0, <1>1, <1>4, <1>6 DEF Unaffected, StateTyped, Own
<1>9. \A d \in Clients : OwnNumber(d)' => OwnNumber(d)
  BY <1>1, <1>4, <1>8 DEF Unaffected, OwnNumber
<1>10. \A d \in Clients : OldNumber(d)
  BY <1>9 DEF OldNumber
<1>11. Numbered(c) /\ Wired(c) /\ Answering(c) /\ client[c].base <= client[c].seq
  BY DEF IInv, Related, Numbered
<1>12. \A t \in Own(c) : task[t].seq < client[c].seq + 1 /\ task[t].req <= client[c].req + 1
  BY <1>5, <1>7, <1>11 DEF Numbered
<1>13. Numbered(c)' /\ Waited(c)'
  <2>1. \A t \in Own(c) : task[t].seq <= client[c].seq + 1
    BY <1>5, <1>7, <1>12
  <2>2. client'[c].base <= client'[c].seq
    BY <1>4, <1>5, <1>11
  <2> QED BY <1>1, <1>4, <1>7, <1>11, <1>12, <2>1, <2>2 DEF Numbered, Waited
<1>14. Wired(c)'
  <2>1. ASSUME NEW i \in DOMAIN wire'[c], NEW m, m = wire'[c][i] PROVE Placed(c, m)'
    <3>1. CASE i \in DOMAIN wire[c] /\ m = wire[c][i]
      <4>1. Placed(c, wire[c][i])
        BY <1>11, <3>1 DEF Wired
      <4>2. wire[c][i].kind # "close"
        BY <1>1, <4>1 DEF Placed
      <4> QED BY <1>1, <1>4, <1>7, <3>1, <4>1, <4>2 DEF Placed
    <3>2. CASE m.kind = "close" /\ m.seq = client[c].seq + 1
      <4>1. client[c].base < client[c].seq + 1
        BY <1>5, <1>11
      <4> QED BY <1>1, <1>4, <1>7, <1>12, <3>2, <4>1 DEF Placed
    <3> QED BY <1>6, <2>1, <3>1, <3>2
  <2>2. ASSUME NEW i \in DOMAIN wire'[c], NEW j \in DOMAIN wire'[c], i < j,
               Counted(wire'[c][i]), Counted(wire'[c][j])
        PROVE  wire'[c][i].seq < wire'[c][j].seq
    BY SMTT(30), <1>5, <1>6, <1>11, <2>2 DEF Wired
  <2> QED BY <2>1, <2>2 DEF Wired, Counted
<1>15. Answering(c)'
  BY <1>1, <1>7, <1>11 DEF Answering
<1>16. ASSUME NEW r \in Nat, Reached(c, r, TRUE) PROVE Reached(c, r, TRUE)'
  <2>1. r <= client[c].seq + 1 /\ r < client[c].seq + 1
    BY <1>5, <1>16 DEF Reached
  <2>2. \A i \in DOMAIN wire'[c] : Counted(wire'[c][i]) => r < wire'[c][i].seq
    BY <1>6, <1>16, <2>1 DEF Reached
  <2>3. \A b : CarriedOut(c, b, r) => CarriedOut(c, b, r)'
    BY <1>1 DEF CarriedOut
  <2> QED BY <1>1, <1>4, <1>7, <1>16, <2>1, <2>2, <2>3 DEF Reached, Counted
<1>17. \A id \in DOMAIN channels' : Apart(c, id)
  BY <1>1, <1>4, <1>7, <1>9, <1>16, OwnChannel
<1> QED BY <1>1, <1>7, <1>8, <1>10, <1>13, <1>14, <1>15, <1>17, SendStep

-----------------------------------------------------------------------------
(* The invariant                                                               *)

LEMMA NextRelated == ASSUME IInv, TypeOK', [Next]_vars PROVE Related'
<1>1. ASSUME NEW c \in Clients, ClientStep(c) PROVE Related'
  BY <1>1, ConnectStep, TokenGetsDueQuiet, RenewStep, ReceiveQuiet, PushTaskStep, CloseQuiet,
     IncompleteTimeoutQuiet, DisconnectStep DEF ClientStep
<1>2. ASSUME NEW c \in Clients, ConnectionStep(c) PROVE Related'
  BY <1>2, HandleRenewalStep, HandleCloseSessionStep, HandleCloseChannelQuiet, HandleFinQuiet
     DEF ConnectionStep
<1>3. CASE CompletionThread
  BY <1>3, RestQuiet, StopQuiet, RejectChunkQuiet, ExecuteStep
     DEF CompletionThread, NoSuchChannel, ChunkCrashes
<1>4. CASE StartServer \/ StopServer \/ Cleanup \/ UNCHANGED vars
  BY <1>4, RestQuiet, StopQuiet, CleanupQuiet
<1> QED BY <1>1, <1>2, <1>3, <1>4 DEF Next

LEMMA InitIInv == Init => IInv
<1> SUFFICES ASSUME Init PROVE IInv
  OBVIOUS
<1>1. \A t \in Tasks : task[t] = NoChunk
  BY DEF Init
<1>2. \A c \in Clients : Own(c) = {}
  BY <1>1, ClientAssumption DEF Own, NoChunk
<1>3. TypeOK
  <2>1. MaxTask \in Nat /\ MaxFault \in Nat /\ MaxRenew \in Nat /\ MaxStart \in Nat
    BY BoundAssumption
  <2>2. QueueTyped /\ BoundsTyped
    BY <2>1 DEF Init, QueueInit, QueueTyped, BoundsTyped, Tasks
  <2>3. NoChunk \in Chunks
    BY DEF NoChunk, Chunks, NoChannel, NoToken
  <2>4. TaskTyped
    BY <2>3 DEF Init, TaskTyped
  <2>5. ClientTyped
    <3>1. [ch |-> NoChannel, base |-> 0, seq |-> 0, req |-> 0, token |-> NoToken, heard |-> TRUE]
            \in ClientRecords
      BY DEF ClientRecords, NoChannel, NoToken
    <3> QED BY <3>1 DEF Init, ClientTyped
  <2>6. StateTyped /\ CallTyped /\ SocketTyped /\ WireTyped /\ RepliesTyped
    BY DEF Init, StateTyped, CallTyped, SocketTyped, WireTyped, RepliesTyped
  <2>7. ServerTyped /\ ChannelsTyped /\ HistoryTyped
    <3>1. DOMAIN channels = {} /\ executed \in Seq(Tasks) /\ gaveUp = {}
      BY DEF Init
    <3>2. ServerTyped
      <4>1. lastChannelId = 1 /\ lastTokenId = 1 /\ held = 0
        BY DEF Init, NoChannel
      <4>2. up \in BOOLEAN
        BY Zenon DEF Init
      <4> QED BY <4>1, <4>2 DEF ServerTyped
    <3>3. ChannelsTyped
      BY <3>1 DEF ChannelsTyped
    <3> QED BY <3>1, <3>2, <3>3 DEF HistoryTyped
  <2> QED BY <2>2, <2>4, <2>5, <2>6, <2>7, Parts DEF Typed
<1>4. Queued
  BY <1>1, ClientAssumption DEF Init, QueueInit, Queued, Tasks, NoChunk
<1>5. \A c \in Clients : Numbered(c) /\ Waited(c) /\ Wired(c) /\ Answering(c)
  BY <1>2 DEF Init, Numbered, Waited, Wired, Answering
<1>6. Owned /\ \A id \in DOMAIN channels : Passed(id)
  BY DEF Init, Owned
<1>7. AtMostOnce /\ InCallOrder /\ CloseWaits
  BY DEF Init, AtMostOnce, InCallOrder, CloseWaits
<1> QED BY <1>3, <1>4, <1>5, <1>6, <1>7 DEF IInv, Related

LEMMA NextIInv == IInv /\ [Next]_vars => IInv'
<1> SUFFICES ASSUME IInv, [Next]_vars PROVE IInv'
  OBVIOUS
<1>1. TypeOK' /\ Queued'
  BY NextTypes, NextQueued DEF IInv
<1>2. Related'
  BY <1>1, NextRelated
<1> QED BY <1>1, <1>2 DEF IInv

LEMMA Invariance == Spec => []IInv
BY InitIInv, NextIInv, PTL DEF Spec

(* Clients, connections, tasks and channels are always in one of the states the  *)
(* code has for them, and a channel only bears a number that was given out.      *)
THEOREM TypesKept == Spec => []TypeOK
<1>1. IInv => TypeOK
  BY DEF IInv
<1> QED BY <1>1, Invariance, PTL

(* A client whose channel id no task of another bears has none of its requests   *)
(* carried out twice, although a task that was not deleted is read again.        *)
THEOREM CalledOnce == Spec => []AtMostOnce
<1>1. IInv => AtMostOnce
  BY DEF IInv, Related
<1> QED BY <1>1, Invariance, PTL

(* Its requests are carried out in the order of the calls, and none is skipped   *)
(* since the last OPN, whatever failed and however often the server restarted.   *)
THEOREM CalledInOrder == Spec => []InCallOrder
<1>1. IInv => InCallOrder
  BY DEF IInv, Related
<1> QED BY <1>1, Invariance, PTL

(* Its session is closed only after every call made since the last OPN was       *)
(* carried out, although CloseSession comes by TCP and the calls by ZooKeeper.   *)
THEOREM ClosedLast == Spec => []CloseWaits
<1>1. IInv => CloseWaits
  BY DEF IInv, Related
<1> QED BY <1>1, Invariance, PTL

(* A result that a waiting client takes for the answer to its call is the result *)
(* of that very call: a request id is not used twice, and a call that could not  *)
(* be pushed used up its own.                                                    *)
THEOREM ResultsMatch == Spec => []ResultIsForCall
<1>1. IInv => ResultIsForCall
  <2> SUFFICES ASSUME IInv, NEW c \in Clients, NEW i \in DOMAIN replies[c],
                      NEW r, r = replies[c][i], Accepts(c, r), r.kind = "result"
               PROVE  r.of = call[c]
    BY DEF ResultIsForCall
  <2>1. replies[c] \in Seq(Answers)
    BY Parts DEF IInv, Typed, RepliesTyped
  <2>2. r \in Answers
    BY <2>1
  <2>3. state[c] = "waiting" /\ r.req = client[c].req
    BY DEF Accepts
  <2>4. r.of # NoTask /\ task[r.of].by = c /\ task[r.of].req = r.req
    BY <2>3 DEF IInv, Related, Answering
  <2>5. r.of \in Own(c)
    BY <2>2, <2>4 DEF Answers, Own
  <2> QED BY <2>3, <2>4, <2>5 DEF IInv, Related, Waited
<1> QED BY <1>1, Invariance, PTL

\* Where it is not left alone, the sequence number of a channel grows: by one for
\* a message that is checked, to that of an OPN, which cannot be behind it.
LEMMA Steadily ==
  ASSUME IInv, [Next]_vars, NEW id \in DOMAIN channels \cap DOMAIN channels',
         OwnNumber(channels[id].owner)
  PROVE  channels'[id].received >= channels[id].received
<1>1. channels[id] \in SecureChannels(lastTokenId)
  BY Parts DEF IInv, Typed, ChannelsTyped
<1>2. channels[id].received \in Nat
  BY <1>1 DEF SecureChannels
<1>3. ASSUME channels'[id].received = channels[id].received \/ OldChannel(id)
      PROVE  channels'[id].received >= channels[id].received
  BY <1>2, <1>3 DEF OldChannel
<1>4. ASSUME NEW c \in Clients, Connect(c) PROVE channels'[id].received >= channels[id].received
  <2>1. id # lastChannelId
    BY Parts DEF IInv, Typed, ChannelsTyped, ServerTyped
  <2>2. channels'[id] = channels[id]
    BY <1>4, <2>1 DEF Connect
  <2> QED BY <1>3, <2>2
<1>5. ASSUME NEW c \in Clients, ClientStep(c), ~Connect(c)
      PROVE  channels'[id].received >= channels[id].received
  <2>1. channels' = channels
    BY <1>5 DEF ClientStep, TokenGetsDue, Renew, ReceiveRenewal, PushTask, ReceiveReply, DropReply,
                Timeout, IncompleteTimeout, Disconnect, EndDisconnect, ClientDies, channelVars
  <2> QED BY <1>3, <2>1
<1>6. ASSUME NEW c \in Clients, HandleRenewal(c)
      PROVE  channels'[id].received >= channels[id].received
  <2>0. PICK i \in ChannelOf(c) : \E token :
          channels' = [channels EXCEPT ![i].received = Head(wire[c]).seq, ![i].next = token]
    BY <1>6 DEF HandleRenewal
  <2>1. PICK token :
          channels' = [channels EXCEPT ![i].received = Head(wire[c]).seq, ![i].next = token]
    BY <2>0
  <2>2. CASE id # i
    BY <1>3, <2>1, <2>2
  <2>3. CASE id = i
    <3>1. wire[c] # <<>> /\ Head(wire[c]).kind = "opn"
      BY <1>6 DEF HandleRenewal, Arrives
    <3>2. /\ channels[id].owner = c /\ Head(wire[c]) = wire[c][1] /\ 1 \in DOMAIN wire[c]
          /\ Head(wire[c]) \in Messages
      BY <2>3, <3>1, AtHead
    <3>3. Reached(c, channels[id].received, channels[id].session)
      BY <3>2 DEF IInv, Related, Passed
    <3>4. channels[id].received < Head(wire[c]).seq /\ Head(wire[c]).seq \in Nat
      BY <3>1, <3>2, <3>3 DEF Reached, Counted, Messages
    <3>5. PICK n : n = Head(wire[c]).seq
      OBVIOUS
    <3>6. PICK k : k = channels[id]
      OBVIOUS
    <3>7. PICK j : j = [k EXCEPT !.received = n]
      OBVIOUS
    <3>8. j.received = n /\ "next" \in DOMAIN j /\ DOMAIN j = DOMAIN k
      BY <1>1, <3>6, <3>7 DEF SecureChannels
    <3>9. channels' = [channels EXCEPT ![id] = [j EXCEPT !.next = token]]
      BY <2>1, <2>3, <3>5, <3>6, <3>7
    <3>10. channels'[id].received = n
      BY <1>1, <3>6, <3>8, <3>9 DEF SecureChannels
    <3> QED BY <1>2, <3>4, <3>5, <3>10
  <2> QED BY <2>2, <2>3
<1>7. ASSUME NEW c \in Clients, HandleCloseSession(c)
      PROVE  channels'[id].received >= channels[id].received
  <2>0. PICK i \in ChannelOf(c) : \E k :
          /\ k = Seen(i, Head(wire[c]).token)
          /\ \/ channels' = [channels EXCEPT ![i] = [k EXCEPT !.received = @ + 1, !.session = FALSE]]
             \/ channels' = [channels EXCEPT ![i] = k]
    BY <1>7 DEF HandleCloseSession
  <2>1. PICK k :
          /\ k = Seen(i, Head(wire[c]).token)
          /\ \/ channels' = [channels EXCEPT ![i] = [k EXCEPT !.received = @ + 1, !.session = FALSE]]
             \/ channels' = [channels EXCEPT ![i] = k]
    BY <2>0
  <2>2. i \in DOMAIN channels
    BY DEF ChannelOf
  <2>3. k \in SecureChannels(lastTokenId) /\ k.received = channels[i].received
    BY <2>1, <2>2, SeenTyped, Parts DEF IInv, Typed, ChannelsTyped, SameButTokens
  <2>4. PICK j : j = [k EXCEPT !.received = @ + 1, !.session = FALSE]
    OBVIOUS
  <2>5. j.received = k.received + 1
    BY <2>3, <2>4, Closed
  <2>6. channels' = [channels EXCEPT ![i] = j] \/ channels' = [channels EXCEPT ![i] = k]
    BY <2>1, <2>4, Zenon
  <2>7. channels'[id] = channels[id] \/ (id = i /\ channels'[id] \in {j, k})
    BY <2>6
  <2> QED BY <1>2, <2>3, <2>5, <2>7
<1>8. CASE ExecuteChunk
  <2>1. PICK k : k = Seen(held, task[current].token)
    OBVIOUS
  <2>2. PICK j : j = [k EXCEPT !.received = @ + 1]
    OBVIOUS
  <2>3. channels' = [channels EXCEPT ![held] = j]
    BY <1>8, <2>1, <2>2 DEF ExecuteChunk
  <2>4. k \in SecureChannels(lastTokenId) /\ k.received = channels[held].received
    BY <1>8, <2>1, AtHand, SeenTyped, Parts DEF IInv, Typed, ChannelsTyped, SameButTokens
  <2>5. j.received = k.received + 1
    BY <2>2, <2>4 DEF SecureChannels
  <2>6. channels'[id] = channels[id] \/ (id = held /\ channels'[id] = j)
    BY <2>3
  <2> QED BY <1>2, <2>4, <2>5, <2>6
<1>9. CASE \/ \E c \in Clients : HandleCloseChannel(c) \/ HandleFin(c)
           \/ Cleanup \/ RejectChunk
  BY <1>3, <1>9, ChannelsLeft
<1>10. CASE StopServer
  <2>1. channels' = <<>>
    BY <1>10 DEF StopServer
  <2> QED BY <2>1
<1>11. CASE \/ StartServer \/ ListTasks \/ TakeTask \/ MissTask \/ FindChannel \/ DeleteTask
            \/ UNCHANGED vars
  <2>1. channels' = channels
    BY <1>11 DEF StartServer, ListTasks, TakeTask, MissTask, FindChannel, DeleteTask, vars,
                 channelVars
  <2> QED BY <1>3, <2>1
<1> QED BY <1>4, <1>5, <1>6, <1>7, <1>8, <1>9, <1>10, <1>11
        DEF Next, ConnectionStep, CompletionThread, NoSuchChannel, ChunkCrashes

(* An OPN is not checked, and it comes by TCP while tasks with higher numbers lie *)
(* in ZooKeeper; yet none is handled so late that it turns the sequence number    *)
(* of its channel back.                                                           *)
THEOREM NumbersGrow == Spec => NeverBack
<1>1. IInv /\ [Next]_vars =>
        [\A id \in DOMAIN channels \cap DOMAIN channels' :
           channels[id].owner = channels'[id].owner /\ OwnNumber(channels[id].owner) =>
             channels'[id].received >= channels[id].received]_vars
  BY Steadily
<1> QED BY <1>1, Invariance, PTL DEF Spec, NeverBack
=============================================================================
