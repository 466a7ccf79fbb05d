------------------------------ MODULE Throttle ------------------------------
(***************************************************************************)
(* A service call end to end. A zuthClient opens a SecureChannel and a     *)
(* session over TCP, then sends every request through ZooKeeper: one task  *)
(* per request, holding the encoded chunk and the channel id. The server   *)
(* takes the tasks in order (TaskQueue), gives each chunk to the channel   *)
(* its id names, and answers over the TCP connection attached to that      *)
(* channel. Renewals, CloseSession, CloseSecureChannel and the end of the  *)
(* connection still come over TCP, so the two paths race for one sequence  *)
(* number. A client whose token is old renews it before its call. What     *)
(* comes over either path with a token or a sequence number the channel    *)
(* does not expect is dropped, by the server and by the client.            *)
(*                                                                         *)
(* A member of Clients is one UA_Client and its one connection, and stands *)
(* for its authentication token too, which is random and never reused.     *)
(* Sequence numbers and request ids count from the end of the handshake:   *)
(* every connection uses the same number of both before it. Tokens and     *)
(* sessions do not lapse here (see Channels): a token lives ten minutes,   *)
(* a client waits for five seconds.                                        *)
(***************************************************************************)
EXTENDS TaskQueue, Sequences

CONSTANTS
  Clients,      \* connections
  NoClient,     \* none of them
  MaxFault,     \* bound: ZooKeeper calls that fail
  MaxRenew,     \* bound: OPN requests sent to renew a token
  MaxStart      \* bound: starts of the server process

ASSUME ClientAssumption == NoClient \notin Clients
ASSUME BoundAssumption == {MaxTask, MaxFault, MaxRenew, MaxStart} \subseteq Nat

VARIABLES
  task,         \* what each task holds
  \* clients
  state,        \* off, open, renewing, renewed, failed (to renew), waiting, closing, gone
  client,       \* channel id, send sequence number (and that of the last OPN), request id,
                \* token, and whether the receive sequence number is up to date
  call,         \* the task of the request that is waited for
  due,          \* the token is past 75 percent of its lifetime
  socket,       \* none, up, reset (the server is gone), shut (by the client)
  wire,         \* TCP, to the server
  replies,      \* TCP, to the client
  \* server
  up,
  channels,     \* the channels of the SecureChannelManager, by id
  lastChannelId, lastTokenId,
  held,         \* the channel zuth_executeRequest looked up
  \* bounds
  faults, renewals, starts,
  \* history
  executed,     \* tasks whose service was called, in order
  gaveUp        \* clients that gave up waiting with the connection left open

clientVars  == <<state, client, call, due>>
tcpVars     == <<socket, wire, replies>>
channelVars == <<channels, lastChannelId, lastTokenId>>
bounds      == <<faults, renewals, starts>>
history     == <<executed, gaveUp>>
vars        == <<queueVars, task, clientVars, tcpVars, up, channelVars, held, bounds, history>>

NoChannel == 0
NoToken   == 0
NoChunk   == [by |-> NoClient, ch |-> NoChannel, token |-> NoToken, base |-> 0, seq |-> 0, req |-> 0]

Fault == faults < MaxFault /\ faults' = faults + 1 /\ UNCHANGED <<renewals, starts>>

\* connection->channel
ChannelOf(c) == {id \in DOMAIN channels : channels[id].peer = c}

Message(kind, c, seq) == [kind |-> kind, token |-> client[c].token, seq |-> seq]

\* What is sent over a socket that the other end has closed is lost.
Send(c, messages) ==
  wire' = IF socket[c] = "up" THEN [wire EXCEPT ![c] = @ \o messages] ELSE wire

Answer(c, kind, token, req, t) ==
  LET answer == [kind |-> kind, token |-> token, req |-> req, of |-> t]
  IN replies' = IF socket[c] = "up" THEN [replies EXCEPT ![c] = Append(@, answer)] ELSE replies

\* The client closes its socket, after a last few messages.
Shut(c, messages) ==
  /\ Send(c, messages \o <<Message("fin", c, 0)>>)
  /\ socket' = [socket EXCEPT ![c] = "shut"]
  /\ replies' = [replies EXCEPT ![c] = <<>>]

-----------------------------------------------------------------------------
Init ==
  /\ QueueInit /\ task = [t \in Tasks |-> NoChunk]
  /\ state = [c \in Clients |-> "off"]
  /\ client = [c \in Clients |-> [ch |-> NoChannel, base |-> 0, seq |-> 0, req |-> 0,
                                 token |-> NoToken, heard |-> TRUE]]
  /\ call = [c \in Clients |-> NoTask] /\ due = [c \in Clients |-> FALSE]
  /\ socket = [c \in Clients |-> "none"]
  /\ wire = [c \in Clients |-> <<>>] /\ replies = [c \in Clients |-> <<>>]
  /\ up = FALSE /\ channels = <<>> /\ lastChannelId = 1 /\ lastTokenId = 1 /\ held = NoChannel
  /\ faults = 0 /\ renewals = 0 /\ starts = 0
  /\ executed = <<>> /\ gaveUp = {}

(***************************************************************************)
(* Clients                                                                 *)
(***************************************************************************)

\* Mutant: lastChannelId is not advanced.
Connect_SameId(c) ==
  /\ up /\ state[c] = "off"
  /\ state' = [state EXCEPT ![c] = "open"]
  /\ socket' = [socket EXCEPT ![c] = "up"]
  /\ client' = [client EXCEPT ![c].ch = lastChannelId, ![c].token = lastTokenId]
  /\ channels' = [id \in DOMAIN channels \cup {lastChannelId} |->
       IF id = lastChannelId
       THEN [peer |-> c, owner |-> c, session |-> TRUE, received |-> 0,
             token |-> lastTokenId, next |-> NoToken]
       ELSE channels[id]]
  /\ lastTokenId' = lastTokenId + 1
  /\ UNCHANGED <<queueVars, task, call, due, wire, replies, up, lastChannelId, held, bounds,
                 history>>

\* UA_Client_connect: HEL, OPN, GetEndpoints, CreateSession, ActivateSession.
\* The server numbers its channels and tokens from 1 each time it starts.
Connect(c) ==
  /\ up /\ state[c] = "off"
  /\ state' = [state EXCEPT ![c] = "open"]
  /\ socket' = [socket EXCEPT ![c] = "up"]
  /\ client' = [client EXCEPT ![c].ch = lastChannelId, ![c].token = lastTokenId]
  /\ channels' = [id \in DOMAIN channels \cup {lastChannelId} |->
       IF id = lastChannelId
       THEN [peer |-> c, owner |-> c, session |-> TRUE, received |-> 0,
             token |-> lastTokenId, next |-> NoToken]
       ELSE channels[id]]
  /\ lastChannelId' = lastChannelId + 1 /\ lastTokenId' = lastTokenId + 1
  /\ UNCHANGED <<queueVars, task, call, due, wire, replies, up, held, bounds, history>>

\* nextChannelRenewal passes.
TokenGetsDue(c) ==
  /\ state[c] = "open" /\ ~due[c] /\ renewals < MaxRenew
  /\ due' = [due EXCEPT ![c] = TRUE]
  /\ UNCHANGED <<queueVars, task, state, client, call, tcpVars, up, channelVars, held,
                 bounds, history>>

\* Mutant: OPN does not use up a sequence number.
Renew_SameSequence(c) ==
  /\ state[c] \in {"open", "failed"} /\ due[c] /\ socket[c] \in {"up", "reset"}
  /\ renewals < MaxRenew /\ renewals' = renewals + 1
  /\ state' = [state EXCEPT ![c] = "renewing"]
  /\ client' = [client EXCEPT ![c].req = @ + 1, ![c].base = client[c].seq]
  /\ Send(c, <<Message("opn", c, client[c].seq)>>)
  /\ UNCHANGED <<queueVars, task, call, due, socket, replies, up, channelVars, held,
                 faults, starts, history>>

\* UA_Client_manuallyRenewSecureChannel at the beginning of a call: OPN by TCP.
Renew(c) ==
  /\ state[c] \in {"open", "failed"} /\ due[c] /\ socket[c] \in {"up", "reset"}
  /\ renewals < MaxRenew /\ renewals' = renewals + 1
  /\ state' = [state EXCEPT ![c] = "renewing"]
  /\ client' = [client EXCEPT ![c].seq = @ + 1, ![c].req = @ + 1, ![c].base = client[c].seq + 1]
  /\ Send(c, <<Message("opn", c, client[c].seq + 1)>>)
  /\ UNCHANGED <<queueVars, task, call, due, socket, replies, up, channelVars, held,
                 faults, starts, history>>

\* The next message is taken for the OPN response. If it is a late answer the
\* handshake fails, and the call with it; that message is not counted.
ReceiveRenewal(c) ==
  /\ state[c] = "renewing" /\ replies[c] # <<>>
  /\ replies' = [replies EXCEPT ![c] = Tail(@)]
  /\ IF Head(replies[c]).kind = "opn"
     THEN /\ state' = [state EXCEPT ![c] = "renewed"] /\ due' = [due EXCEPT ![c] = FALSE]
          /\ client' = [client EXCEPT ![c].token = Head(replies[c]).token, ![c].heard = TRUE]
     ELSE /\ state' = [state EXCEPT ![c] = "failed"] /\ UNCHANGED due
          /\ client' = [client EXCEPT ![c].heard = FALSE]
  /\ UNCHANGED <<queueVars, task, call, socket, wire, up, channelVars, held,
                 bounds, history>>

\* The call goes on: its token is not due for renewal, or was renewed.
Ready(c) == state[c] = "renewed" \/ (state[c] = "open" /\ ~due[c])

\* Mutant: the request id is not advanced.
PushTask_SameRequest(c) ==
  /\ Ready(c) /\ socket[c] # "shut"
  /\ state' = [state EXCEPT ![c] = "waiting"]
  /\ client' = [client EXCEPT ![c].seq = @ + 1]
  /\ Create
  /\ task' = [task EXCEPT ![nextTask] =
       [by |-> c, ch |-> client[c].ch, token |-> client[c].token, base |-> client[c].base,
        seq |-> client'[c].seq, req |-> client'[c].req]]
  /\ call' = [call EXCEPT ![c] = nextTask]
  /\ UNCHANGED <<due, tcpVars, up, channelVars, held, bounds, history>>

\* __ZUTH_Client_Service: the request is encoded, numbered and pushed as a
\* task; no send buffer is had from a connection the client has closed, but
\* that the server closed it is not noticed. The sequence number is used up
\* even if zoo_create fails: its return code is only printed.
PushTask(c) ==
  /\ Ready(c) /\ socket[c] # "shut"
  /\ state' = [state EXCEPT ![c] = "waiting"]
  /\ client' = [client EXCEPT ![c].seq = @ + 1, ![c].req = @ + 1]
  /\ \/ /\ Create
        /\ task' = [task EXCEPT ![nextTask] =
             [by |-> c, ch |-> client[c].ch, token |-> client[c].token, base |-> client[c].base,
              seq |-> client'[c].seq, req |-> client'[c].req]]
        /\ call' = [call EXCEPT ![c] = nextTask]
        /\ UNCHANGED bounds
     \/ /\ Fault
        /\ call' = [call EXCEPT ![c] = NoTask]
        /\ UNCHANGED <<queueVars, task>>
  /\ UNCHANGED <<due, tcpVars, up, channelVars, held, history>>

\* UA_SecureChannel_processChunks of the client: an answer is dropped that
\* does not bear its token and the next sequence number; an OPN response that
\* comes late is not, and not counted.
Understands(c, r) == r.kind = "opn" \/ (r.token = client[c].token /\ client[c].heard)

\* ZUTH_receiveUAClientServiceResponse ends with the first message that is not
\* dropped, whichever request it answers; see Accepts.
ReceiveReply(c) ==
  /\ state[c] = "waiting" /\ replies[c] # <<>> /\ Understands(c, Head(replies[c]))
  /\ replies' = [replies EXCEPT ![c] = Tail(@)]
  /\ client' = [client EXCEPT ![c].heard = @ /\ Head(replies[c]).kind # "opn"]
  /\ state' = [state EXCEPT ![c] = "open"] /\ call' = [call EXCEPT ![c] = NoTask]
  /\ UNCHANGED <<queueVars, task, due, socket, wire, up, channelVars, held, bounds, history>>

\* The client waits on, unless the time is over by now.
DropReply(c) ==
  /\ state[c] \in {"waiting", "closing"}
  /\ replies[c] # <<>> /\ ~Understands(c, Head(replies[c]))
  /\ replies' = [replies EXCEPT ![c] = Tail(@)]
  /\ client' = [client EXCEPT ![c].heard = FALSE]
  /\ \/ UNCHANGED <<state, call, gaveUp>>
     \/ /\ state[c] = "waiting" /\ state' = [state EXCEPT ![c] = "open"]
        /\ call' = [call EXCEPT ![c] = NoTask] /\ gaveUp' = gaveUp \cup {c}
  /\ UNCHANGED <<queueVars, task, due, socket, wire, up, channelVars, held, bounds, executed>>

\* Nothing comes within client->config.timeout, or the connection is lost:
\* socket_recv closes the socket. No later call gets through.
Timeout(c) ==
  /\ state[c] \in {"waiting", "renewing"} /\ replies[c] = <<>>
  /\ state' = [state EXCEPT ![c] = "open"] /\ call' = [call EXCEPT ![c] = NoTask]
  /\ Shut(c, <<>>)
  /\ UNCHANGED <<queueVars, task, client, due, up, channelVars, held, bounds, history>>

\* The time is over when only a part of the message has come: the rest comes
\* during a later call.
IncompleteTimeout(c) ==
  /\ state[c] \in {"waiting", "renewing"} /\ replies[c] # <<>>
  /\ state' = [state EXCEPT ![c] = IF @ = "renewing" THEN "failed" ELSE "open"]
  /\ call' = [call EXCEPT ![c] = NoTask]
  /\ gaveUp' = gaveUp \cup {c}
  /\ UNCHANGED <<queueVars, task, client, due, tcpVars, up, channelVars, held, bounds, executed>>

\* UA_Client_disconnect: CloseSession by TCP, a call like any other.
Disconnect(c) ==
  /\ Ready(c) /\ socket[c] # "shut"
  /\ state' = [state EXCEPT ![c] = "closing"]
  /\ client' = [client EXCEPT ![c].seq = @ + 1, ![c].req = @ + 1]
  /\ Send(c, <<Message("close", c, client'[c].seq)>>)
  /\ UNCHANGED <<queueVars, task, call, due, socket, replies, up, channelVars, held,
                 bounds, history>>

\* CloseSecureChannel follows: the wait ended with a message, understood or not
\* complete in time, or the token could not be renewed before. If the wait
\* ended with nothing, or a call before, the socket is closed already.
EndDisconnect(c) ==
  /\ state' = [state EXCEPT ![c] = "gone"]
  /\ \/ state[c] = "closing" /\ replies[c] # <<>> /\ Shut(c, <<Message("clo", c, client[c].seq + 1)>>)
     \/ state[c] = "closing" /\ replies[c] = <<>> /\ Shut(c, <<>>)
     \/ state[c] = "failed" /\ Shut(c, <<Message("clo", c, client[c].seq + 1)>>)
     \/ state[c] = "open" /\ socket[c] = "shut" /\ UNCHANGED tcpVars
  /\ UNCHANGED <<queueVars, task, client, call, due, up, channelVars, held, bounds, history>>

\* The client process dies: its socket is closed. zuthClient does so after a
\* failed call, whose response has no results to read.
ClientDies(c) ==
  /\ state[c] \notin {"off", "gone"}
  /\ state' = [state EXCEPT ![c] = "gone"] /\ call' = [call EXCEPT ![c] = NoTask]
  /\ IF socket[c] = "shut" THEN UNCHANGED tcpVars ELSE Shut(c, <<>>)
  /\ UNCHANGED <<queueVars, task, client, due, up, channelVars, held, bounds, history>>

(***************************************************************************)
(* Server, main thread                                                     *)
(***************************************************************************)
StartServer ==
  /\ ~up /\ starts < MaxStart
  /\ up' = TRUE /\ starts' = starts + 1
  /\ UNCHANGED <<queueVars, task, clientVars, tcpVars, channelVars, held, faults, renewals,
                 history>>

\* The process ends, wanted or not: channels, sessions and connections are gone.
StopServer ==
  /\ up /\ up' = FALSE
  /\ channels' = <<>> /\ lastChannelId' = 1 /\ lastTokenId' = 1 /\ held' = NoChannel
  /\ socket' = [c \in Clients |-> IF socket[c] = "up" THEN "reset" ELSE socket[c]]
  /\ wire' = [c \in Clients |-> <<>>]
  /\ Abort
  /\ UNCHANGED <<task, clientVars, replies, bounds, history>>

\* What the message at the head of the wire needs: a channel attached to the
\* connection.
Arrives(c, kind) == up /\ wire[c] # <<>> /\ Head(wire[c]).kind = kind

\* UA_SecureChannel_processChunks of the server: the token is the current one
\* or the next, which then becomes current, even if the message is dropped for
\* its sequence number.
Revolve(k) == IF k.next = NoToken THEN k ELSE [k EXCEPT !.token = k.next, !.next = NoToken]

KnownToken(id, token) == token \in {channels[id].token, channels[id].next}

Seen(id, token) ==
  IF token = channels[id].next THEN Revolve(channels[id]) ELSE channels[id]

\* Mutant: any later sequence number is taken.
InSequence_OrLater(id, seq) == seq > channels[id].received

InSequence(id, seq) == seq = channels[id].received + 1

Expected(id, m) == KnownToken(id, m.token) /\ InSequence(id, m.seq)

\* Mutant: the sequence number is left alone.
HandleRenewal_KeepsNumber(c) ==
  /\ Arrives(c, "opn")
  /\ \E id \in ChannelOf(c) :
       LET issued == channels[id].next # NoToken
           token  == IF issued THEN channels[id].next ELSE lastTokenId
       IN /\ channels' = [channels EXCEPT ![id].next = token]
          /\ lastTokenId' = IF issued THEN lastTokenId ELSE lastTokenId + 1
          /\ Answer(c, "opn", token, 0, NoTask)
  /\ wire' = [wire EXCEPT ![c] = Tail(@)]
  /\ UNCHANGED <<queueVars, task, clientVars, socket, up, lastChannelId, held, bounds, history>>

\* processOPN on an open channel: the sequence number is set, not checked. A
\* token that was issued and not used yet is given out again.
HandleRenewal(c) ==
  /\ Arrives(c, "opn")
  /\ \E id \in ChannelOf(c) :
       LET issued == channels[id].next # NoToken
           token  == IF issued THEN channels[id].next ELSE lastTokenId
       IN /\ channels' = [channels EXCEPT ![id].received = Head(wire[c]).seq, ![id].next = token]
          /\ lastTokenId' = IF issued THEN lastTokenId ELSE lastTokenId + 1
          /\ Answer(c, "opn", token, 0, NoTask)
  /\ wire' = [wire EXCEPT ![c] = Tail(@)]
  /\ UNCHANGED <<queueVars, task, clientVars, socket, up, lastChannelId, held, bounds, history>>

\* Mutant: the sequence number is not looked at.
HandleCloseSession_Unchecked(c) ==
  /\ Arrives(c, "close")
  /\ wire' = [wire EXCEPT ![c] = Tail(@)]
  /\ \E id \in ChannelOf(c) :
       channels' = [channels EXCEPT ![id].received = Head(wire[c]).seq, ![id].session = FALSE]
  /\ UNCHANGED <<queueVars, task, clientVars, socket, replies, up, lastChannelId, lastTokenId,
                 held, bounds, history>>

\* Service_CloseSession, if the message is the expected one.
HandleCloseSession(c) ==
  /\ Arrives(c, "close")
  /\ wire' = [wire EXCEPT ![c] = Tail(@)]
  /\ \E id \in ChannelOf(c) :
       LET m == Head(wire[c])
           k == Seen(id, m.token)
       IN IF Expected(id, m)
          THEN /\ channels' = [channels EXCEPT
                    ![id] = [k EXCEPT !.received = @ + 1, !.session = FALSE]]
               /\ Answer(c, "result", k.token, client[c].req, NoTask)
          ELSE channels' = [channels EXCEPT ![id] = k] /\ UNCHANGED replies
  /\ UNCHANGED <<queueVars, task, clientVars, socket, up, lastChannelId, lastTokenId, held,
                 bounds, history>>

\* Service_CloseSecureChannel, likewise.
HandleCloseChannel(c) ==
  /\ Arrives(c, "clo")
  /\ wire' = [wire EXCEPT ![c] = Tail(@)]
  /\ \E id \in ChannelOf(c) :
       channels' = IF Expected(id, Head(wire[c]))
                   THEN [k \in DOMAIN channels \ {id} |-> channels[k]]
                   ELSE [channels EXCEPT ![id] = Seen(id, Head(wire[c]).token)]
  /\ UNCHANGED <<queueVars, task, clientVars, socket, replies, up, lastChannelId, lastTokenId,
                 held, bounds, history>>

\* The socket was closed by the client: UA_Connection_detachSecureChannel.
HandleFin(c) ==
  /\ Arrives(c, "fin")
  /\ wire' = [wire EXCEPT ![c] = <<>>]
  /\ channels' = [id \in DOMAIN channels |->
       IF channels[id].peer = c THEN [channels[id] EXCEPT !.peer = NoClient] ELSE channels[id]]
  /\ UNCHANGED <<queueVars, task, clientVars, socket, replies, up, lastChannelId, lastTokenId,
                 held, bounds, history>>

\* UA_SecureChannelManager_cleanupTimedOut, every ten seconds: channels without
\* a connection go, tokens that were issued are the current ones now.
Cleanup ==
  /\ up
  /\ \E id \in DOMAIN channels : channels[id].peer = NoClient \/ channels[id].next # NoToken
  /\ channels' = [id \in {k \in DOMAIN channels : channels[k].peer # NoClient} |->
                    Revolve(channels[id])]
  /\ UNCHANGED <<queueVars, task, clientVars, tcpVars, up, lastChannelId, lastTokenId, held,
                 bounds, history>>

(***************************************************************************)
(* Server, completion thread                                               *)
(***************************************************************************)
ListTasks ==
  /\ up /\ missed # {} /\ Relist
  /\ UNCHANGED <<task, clientVars, tcpVars, up, channelVars, held, bounds, history>>

TakeTask ==
  /\ up /\ Take
  /\ UNCHANGED <<task, clientVars, tcpVars, up, channelVars, held, bounds, history>>

\* zoo_get fails.
MissTask ==
  /\ up /\ Fault /\ Miss
  /\ UNCHANGED <<task, clientVars, tcpVars, up, channelVars, held, history>>

\* ZUTH_getSecureChannel. Without such a channel processChunks dereferences NULL.
FindChannel ==
  /\ phase = "process" /\ held = NoChannel
  /\ task[current].ch \in DOMAIN channels
  /\ held' = task[current].ch
  /\ UNCHANGED <<queueVars, task, clientVars, tcpVars, up, channelVars, bounds, history>>

NoSuchChannel ==
  /\ phase = "process" /\ held = NoChannel
  /\ task[current].ch \notin DOMAIN channels
  /\ StopServer

\* The chunk is accepted.
InOrder == held \in DOMAIN channels /\ Expected(held, task[current])

\* UA_SecureChannel_processChunks refuses the chunk; the task is deleted all
\* the same. If the channel was freed meanwhile that is one of the things
\* that may happen.
RejectChunk ==
  /\ held # NoChannel /\ ~InOrder
  /\ channels' = [id \in DOMAIN channels |->
       IF id = held THEN Seen(held, task[current].token) ELSE channels[id]]
  /\ Handle /\ held' = NoChannel
  /\ UNCHANGED <<task, clientVars, tcpVars, up, lastChannelId, lastTokenId, bounds, history>>

\* UA_assert(channel->connection), or the use of a channel that was freed.
ChunkCrashes ==
  /\ held # NoChannel
  /\ held \notin DOMAIN channels \/ (InOrder /\ channels[held].peer = NoClient)
  /\ StopServer

\* The service is called if the session is on this channel.
Execute(k) ==
  LET t == task[current]
  IN IF k.session /\ k.owner = t.by
     THEN executed' = Append(executed, current) /\ Answer(k.peer, "result", k.token, t.req, current)
     ELSE UNCHANGED executed /\ Answer(k.peer, "error", k.token, t.req, current)

\* Mutant: the receive sequence number is not advanced.
ExecuteChunk_NoCount ==
  /\ InOrder /\ channels[held].peer # NoClient
  /\ Handle /\ held' = NoChannel
  /\ LET k == Seen(held, task[current].token)
     IN channels' = [channels EXCEPT ![held] = k] /\ Execute(k)
  /\ UNCHANGED <<task, clientVars, socket, wire, up, lastChannelId, lastTokenId, bounds, gaveUp>>

\* processMSG: the answer goes to the connection of the channel.
ExecuteChunk ==
  /\ InOrder /\ channels[held].peer # NoClient
  /\ Handle /\ held' = NoChannel
  /\ LET k == Seen(held, task[current].token)
     IN channels' = [channels EXCEPT ![held] = [k EXCEPT !.received = @ + 1]] /\ Execute(k)
  /\ UNCHANGED <<task, clientVars, socket, wire, up, lastChannelId, lastTokenId, bounds, gaveUp>>

\* zoo_delete; its failure is only printed.
DeleteTask ==
  /\ up /\ Finish
  /\ IF missed' = missed THEN UNCHANGED bounds ELSE Fault
  /\ UNCHANGED <<task, clientVars, tcpVars, up, channelVars, held, history>>

ClientStep(c) ==
  \/ Connect(c) \/ TokenGetsDue(c) \/ Renew(c) \/ ReceiveRenewal(c) \/ PushTask(c)
  \/ ReceiveReply(c) \/ DropReply(c) \/ Timeout(c) \/ IncompleteTimeout(c)
  \/ Disconnect(c) \/ EndDisconnect(c) \/ ClientDies(c)

ConnectionStep(c) ==
  HandleRenewal(c) \/ HandleCloseSession(c) \/ HandleCloseChannel(c) \/ HandleFin(c)

CompletionThread ==
  \/ ListTasks \/ TakeTask \/ MissTask \/ FindChannel \/ NoSuchChannel
  \/ RejectChunk \/ ChunkCrashes \/ ExecuteChunk \/ DeleteTask

Next ==
  \/ \E c \in Clients : ClientStep(c) \/ ConnectionStep(c)
  \/ StartServer \/ StopServer \/ Cleanup
  \/ CompletionThread

Spec == Init /\ [][Next]_vars

(***************************************************************************)
(* Fairness: a running server serves its sockets and its queue, a client   *)
(* reads what it is sent. ZuthQueue!EveryTaskTried is why the queue may be *)
(* taken to be served.                                                     *)
(***************************************************************************)
Fairness ==
  /\ WF_vars(CompletionThread)
  /\ \A c \in Clients : WF_vars(ConnectionStep(c)) /\ WF_vars(ReceiveReply(c) \/ ReceiveRenewal(c) \/ DropReply(c))

FairSpec == Spec /\ Fairness

-----------------------------------------------------------------------------
Chunks ==
  [by : Clients \cup {NoClient}, ch : Nat, token : Nat, base : Nat, seq : Nat, req : Nat]

\* The states of clients, connections, channels and tasks; a channel number
\* is only in use once it was given out.
TypeOK ==
  /\ queue \subseteq Tasks /\ nextTask \in 1 .. MaxTask + 1 /\ missed \subseteq Tasks
  /\ phase \in {"idle", "process", "delete"} /\ current \in Tasks \cup {NoTask}
  /\ task \in [Tasks -> Chunks]
  /\ state \in [Clients -> {"off", "open", "renewing", "renewed", "failed", "waiting",
                            "closing", "gone"}]
  /\ client \in [Clients -> [ch : Nat, base : Nat, seq : Nat, req : Nat, token : Nat,
                           heard : BOOLEAN]]
  /\ call \in [Clients -> Tasks \cup {NoTask}] /\ due \in [Clients -> BOOLEAN]
  /\ socket \in [Clients -> {"none", "up", "reset", "shut"}]
  /\ wire \in [Clients -> Seq([kind : {"opn", "close", "clo", "fin"}, token : Nat, seq : Nat])]
  /\ replies \in
       [Clients -> Seq([kind : {"opn", "result", "error"}, token : Nat, req : Nat,
                        of : Tasks \cup {NoTask}])]
  /\ up \in BOOLEAN /\ lastChannelId \in Nat \ {0} /\ lastTokenId \in Nat \ {0} /\ held \in Nat
  /\ DOMAIN channels \subseteq 1 .. lastChannelId - 1
  /\ \A id \in DOMAIN channels :
       channels[id] \in [peer : Clients \cup {NoClient}, owner : Clients,
                         session : BOOLEAN, received : Nat,
                         token : 1 .. lastTokenId - 1, next : 0 .. lastTokenId - 1]
  /\ faults \in 0 .. MaxFault /\ renewals \in 0 .. MaxRenew /\ starts \in 0 .. MaxStart
  /\ executed \in Seq(Tasks) /\ gaveUp \subseteq Clients

\* No task another client left behind bears the number of the channel of c: a
\* restarted server numbers its channels anew, see AnswerToSender.
OwnNumber(c) == \A t \in Tasks : task[t].ch = client[c].ch => task[t].by \in {c, NoClient}

\* No request is carried out twice, although its task is read again when
\* zoo_delete failed, when the server was restarted in between, or both. A task
\* of another client that the channel takes for one of its own may be accepted in
\* place of an OPN that is still to be handled; that OPN then turns the sequence
\* number back, and what was carried out after it can be so again. No request
\* made before the first renewal can.
AtMostOnce ==
  \A i, j \in DOMAIN executed :
    LET t == task[executed[i]]
    IN executed[i] = executed[j] /\ (OwnNumber(t.by) \/ t.base = 0) => i = j

\* The requests of a connection are carried out in the order of the calls and
\* none is skipped: before a request, every sequence number since the last
\* OPN was carried out.
InCallOrder ==
  \A j \in DOMAIN executed :
    LET t == task[executed[j]]
    IN OwnNumber(t.by) => \A n \in t.base + 1 .. t.seq - 1 : \E i \in 1 .. j - 1 :
         LET u == task[executed[i]] IN u.by = t.by /\ u.base = t.base /\ u.seq = n

\* The client keeps an answer that bears the request id of its call: such a
\* result is the result of that call, however many late answers came before.
Accepts(c, r) ==
  state[c] = "waiting" /\ Understands(c, r) /\ r.req = client[c].req /\ r.kind # "opn"

ResultIsForCall ==
  \A c \in Clients : \A i \in DOMAIN replies[c] :
    LET r == replies[c][i] IN Accepts(c, r) /\ r.kind = "result" => r.of = call[c]

\* CloseSession comes by TCP but overtakes no task: a session is closed when
\* every call made on it since the last OPN has been carried out.
CloseWaits ==
  \A id \in DOMAIN channels :
    LET c == channels[id].owner
    IN ~channels[id].session /\ OwnNumber(c) =>
         \A t \in Tasks : task[t].by = c /\ task[t].base = client[c].base =>
           \E i \in DOMAIN executed : executed[i] = t

\* An OPN handled late never turns back the sequence number of its channel.
NeverBack ==
  [][ \A id \in DOMAIN channels \cap DOMAIN channels' :
        channels[id].owner = channels'[id].owner /\ OwnNumber(channels[id].owner) =>
          channels'[id].received >= channels[id].received ]_vars

Undisturbed(c) == up /\ starts = 1 /\ faults = 0 /\ socket[c] = "up" /\ c \notin gaveUp

Waits(c) == state[c] \in {"waiting", "renewing"}

\* A client that waits is answered, with no need of its timeout, as long as
\* nothing failed, the server was not restarted, the connection is up and the
\* client has read every answer so far. After it gave up a renewal a task may
\* overtake the OPN it was numbered after; it is refused, and so is every
\* later one.
Answered ==
  \A c \in Clients : (Waits(c) /\ Undisturbed(c)) ~> (~Waits(c) \/ ~Undisturbed(c))

\* UA_assert(channel->connection) in UA_Server_processSecureChannelMessage.
ConnectionAttached ==
  held # NoChannel /\ InOrder => channels[held].peer # NoClient

\* "Encode the security channel channel Id so that the server knows which
\* client to respond to": an answer goes to the client that made the request.
AnswerToSender ==
  \A c \in Clients : \A i \in DOMAIN replies[c] :
    replies[c][i].of # NoTask => task[replies[c][i].of].by = c
=============================================================================
