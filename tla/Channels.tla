------------------------------ MODULE Channels ------------------------------
(***************************************************************************)
(* Connections, SecureChannels and sessions in the server: three lists     *)
(* whose entries point at each other. A connection and its channel point   *)
(* at one another, so do a session and the channel it was last activated   *)
(* on, and any of the three can go first: the client closes or vanishes,   *)
(* a token or a session times out, or a channel without a session is       *)
(* purged to make room. What is freed must not be pointed at any more.     *)
(*                                                                         *)
(* Clients keep to the protocol: one OpenSecureChannel(ISSUE) on a         *)
(* connection, nothing else before it, and no request while an answer is   *)
(* awaited. A message handler runs from its beginning to its end.          *)
(***************************************************************************)
EXTENDS Integers, FiniteSets, Sequences

CONSTANTS
  Conns,        \* connections, each used once
  Sessions,     \* authentication tokens: random, never used twice
  NoConn,       \* NULL
  MaxChannels,  \* config.maxSecureChannels
  MaxSessions,  \* config.maxSessions
  MaxTokens,    \* bound: security tokens that are issued
  MaxAnswers    \* bound: OpenSecureChannel responses under way to one client

ASSUME ConnAssumption == NoConn \notin Conns
ASSUME LimitAssumption == MaxChannels \in Nat /\ MaxSessions \in Nat
ASSUME BoundAssumption == MaxTokens \in Nat /\ MaxAnswers \in Nat

VARIABLES
  conn,          \* UA_Connection: state and channel
  channels,      \* the list of the SecureChannelManager, by channel id
  channelCount,  \* currentChannelCount
  lastChannelId,
  lastTokenId,
  session,       \* the list of the SessionManager, by authentication token
  sessionCount,  \* currentSessionCount
  spent,         \* authentication tokens that were given out
  client,        \* the client of a connection: its token, whether it may send, must
                 \* renew, waits or is gone, and whether it ever stopped waiting
  answers        \* tokens in OpenSecureChannel responses under way to the client

channelVars == <<channels, channelCount, lastChannelId, lastTokenId>>
sessionVars == <<session, sessionCount, spent>>
clientVars  == <<client, answers>>
vars        == <<conn, channelVars, sessionVars, clientVars>>

NoChannel == 0
NoToken   == 0

Init ==
  /\ conn = [c \in Conns |-> [state |-> "none", channel |-> NoChannel]]
  /\ channels = <<>> /\ channelCount = 0 /\ lastChannelId = 1 /\ lastTokenId = 1
  /\ session = <<>> /\ sessionCount = 0 /\ spent = {}
  /\ client = [c \in Conns |-> [token |-> NoToken, does |-> "send", late |-> FALSE]]
  /\ answers = [c \in Conns |-> <<>>]

-----------------------------------------------------------------------------
(* The two lists *)

\* removeSecureChannel for each channel of ids: the sessions stay, without a
\* channel; so do the connections.
Unbound(ids) ==
  [s \in DOMAIN session |->
     IF session[s].channel \in ids THEN [session[s] EXCEPT !.channel = NoChannel]
                                   ELSE session[s]]

Detached(ids) ==
  [c \in Conns |->
     IF conn[c].channel \in ids THEN [conn[c] EXCEPT !.channel = NoChannel] ELSE conn[c]]

RemoveChannels(ids) ==
  /\ channels' = [id \in DOMAIN channels \ ids |-> channels[id]]
  /\ channelCount' = channelCount - Cardinality(ids)
  /\ conn' = Detached(ids) /\ session' = Unbound(ids)

\* removeSessionEntry for each session of gone: UA_SecureChannel_detachSession.
Without(chans, gone) ==
  [id \in DOMAIN chans |-> [chans[id] EXCEPT !.sessions = @ \ gone]]

RemoveSessions(gone) ==
  /\ session' = [s \in DOMAIN session \ gone |-> session[s]]
  /\ sessionCount' = sessionCount - Cardinality(gone)

\* UA_SecureChannel_revolveTokens
Revolve(k) ==
  IF k.next = NoToken THEN k
  ELSE [k EXCEPT !.token = k.next, !.next = NoToken, !.stale = FALSE]

\* Mutant: the token the client may have read already is not looked at.
KnownToken_Current(id, t) == t # NoToken /\ t = channels[id].token

\* UA_SecureChannel_processChunks: the token is the current one or the next,
\* which then becomes current. Any other message is dropped.
KnownToken(id, t) == t # NoToken /\ t \in {channels[id].token, channels[id].next}

Receive(id, t) ==
  IF t = channels[id].token THEN channels
  ELSE [channels EXCEPT ![id] = Revolve(@)]

-----------------------------------------------------------------------------
(* Connections *)

\* ServerNetworkLayerTCP_add, and processHEL.
Accept(c) ==
  /\ conn[c].state = "none"
  /\ conn' = [conn EXCEPT ![c].state = "established"]
  /\ UNCHANGED <<channelVars, sessionVars, clientVars>>

\* connection->close: only shut down, the rest is done when select returns.
Close(c) == conn' = [conn EXCEPT ![c].state = "closed"]

\* Mutant: the connection is freed without UA_Connection_detachSecureChannel.
Drop_Attached(c) ==
  /\ conn[c].state \in {"established", "closed"}
  /\ conn' = [conn EXCEPT ![c] = [state |-> "freed", channel |-> NoChannel]]
  /\ client' = [client EXCEPT ![c].does = "gone"] /\ answers' = [answers EXCEPT ![c] = <<>>]
  /\ UNCHANGED <<channelVars, sessionVars>>

\* ServerNetworkLayerTCP_getJobs finds the connection closed, by the client, by
\* a fault of the network or by the server itself: it is detached and freed.
Drop(c) ==
  /\ conn[c].state \in {"established", "closed"}
  /\ conn' = [conn EXCEPT ![c] = [state |-> "freed", channel |-> NoChannel]]
  /\ channels' = [id \in DOMAIN channels |->
       IF conn[c].channel = id /\ channels[id].peer = c
       THEN [channels[id] EXCEPT !.peer = NoConn] ELSE channels[id]]
  /\ client' = [client EXCEPT ![c].does = "gone"] /\ answers' = [answers EXCEPT ![c] = <<>>]
  /\ UNCHANGED <<channelCount, lastChannelId, lastTokenId, sessionVars>>

-----------------------------------------------------------------------------
(* Channels: processOPN, Service_OpenSecureChannel, Service_CloseSecureChannel *)

Idle(id) == channels[id].sessions = {}

\* Mutant: a channel with a session may be purged.
FirstIdle_Any == {id \in DOMAIN channels : \A k \in DOMAIN channels : k <= id}

\* The first of the list is the newest.
FirstIdle == {id \in DOMAIN channels : Idle(id) /\ \A k \in DOMAIN channels : Idle(k) => k <= id}

Asks(c) == conn[c].state = "established" /\ client[c].does = "send"

\* Mutant: a channel that is purged is still counted.
Open_PurgeUncounted(c) ==
  /\ Asks(c) /\ conn[c].channel = NoChannel /\ client[c].token = NoToken
  /\ lastTokenId <= MaxTokens
  /\ LET purged == IF channelCount >= MaxChannels THEN FirstIdle ELSE {}
         id == lastChannelId
     IN /\ channelCount < MaxChannels \/ purged # {}
        /\ channels' = [k \in (DOMAIN channels \ purged) \cup {id} |->
             IF k = id
             THEN [peer |-> c, sessions |-> {}, token |-> lastTokenId, next |-> NoToken,
                   stale |-> FALSE]
             ELSE channels[k]]
        /\ channelCount' = channelCount + 1
        /\ conn' = [Detached(purged) EXCEPT ![c].channel = id]
        /\ session' = Unbound(purged)
  /\ lastChannelId' = lastChannelId + 1 /\ lastTokenId' = lastTokenId + 1
  /\ client' = [client EXCEPT ![c].does = "wait"]
  /\ answers' = [answers EXCEPT ![c] = Append(@, lastTokenId)]
  /\ UNCHANGED <<sessionCount, spent>>

\* UA_SecureChannelManager_open, with the purge.
Open(c) ==
  /\ Asks(c) /\ conn[c].channel = NoChannel /\ client[c].token = NoToken
  /\ lastTokenId <= MaxTokens
  /\ LET purged == IF channelCount >= MaxChannels THEN FirstIdle ELSE {}
         id == lastChannelId
     IN /\ channelCount < MaxChannels \/ purged # {}
        /\ channels' = [k \in (DOMAIN channels \ purged) \cup {id} |->
             IF k = id
             THEN [peer |-> c, sessions |-> {}, token |-> lastTokenId, next |-> NoToken,
                   stale |-> FALSE]
             ELSE channels[k]]
        /\ channelCount' = (channelCount - Cardinality(purged)) + 1
        /\ conn' = [Detached(purged) EXCEPT ![c].channel = id]
        /\ session' = Unbound(purged)
  /\ lastChannelId' = lastChannelId + 1 /\ lastTokenId' = lastTokenId + 1
  /\ client' = [client EXCEPT ![c].does = "wait"]
  /\ answers' = [answers EXCEPT ![c] = Append(@, lastTokenId)]
  /\ UNCHANGED <<sessionCount, spent>>

\* No channel is free: BADOUTOFMEMORY, and the connection is closed.
OpenFails(c) ==
  /\ Asks(c) /\ conn[c].channel = NoChannel /\ client[c].token = NoToken
  /\ channelCount >= MaxChannels /\ FirstIdle = {}
  /\ Close(c)
  /\ UNCHANGED <<channelVars, sessionVars, clientVars>>

\* A client that wants to renew, or has to since the last attempt failed.
Renews(c) ==
  /\ conn[c].state = "established" /\ conn[c].channel # NoChannel
  /\ client[c].token # NoToken /\ client[c].does \in {"send", "renew"}

\* UA_SecureChannelManager_renew: a token that was issued and not yet used is
\* given out again. processChunks looks at the channel id only, not at the token.
Renew(c) ==
  /\ Renews(c) /\ Len(answers[c]) < MaxAnswers
  /\ LET id == conn[c].channel
         issued == channels[id].next # NoToken
         t == IF issued THEN channels[id].next ELSE lastTokenId
     IN /\ issued \/ lastTokenId <= MaxTokens
        /\ channels' = [channels EXCEPT ![id].next = t]
        /\ lastTokenId' = IF issued THEN lastTokenId ELSE lastTokenId + 1
        /\ answers' = [answers EXCEPT ![c] = Append(@, t)]
  /\ client' = [client EXCEPT ![c].does = "wait"]
  /\ UNCHANGED <<conn, channelCount, lastChannelId, sessionVars>>

\* SecureChannelHandshake takes the response for the answer to its request.
ReadToken(c) ==
  /\ client[c].does = "wait" /\ answers[c] # <<>>
  /\ client' = [client EXCEPT ![c].token = Head(answers[c]), ![c].does = "send"]
  /\ answers' = [answers EXCEPT ![c] = Tail(@)]
  /\ UNCHANGED <<conn, channelVars, sessionVars>>

\* The time is over when the response is not complete. The call fails, and the
\* next one begins with another renewal. (When nothing at all has come the
\* client closes its socket: see Drop.)
GiveUp(c) ==
  /\ client[c].does = "wait" /\ client[c].token # NoToken /\ answers[c] # <<>>
  /\ client' = [client EXCEPT ![c].does = "renew", ![c].late = TRUE]
  /\ UNCHANGED <<conn, channelVars, sessionVars, answers>>

\* UA_SecureChannelManager_close
CloseChannel(c) ==
  /\ Asks(c) /\ conn[c].channel # NoChannel
  /\ LET id == conn[c].channel
     IN /\ KnownToken(id, client[c].token)
        /\ RemoveChannels({id})
  /\ client' = [client EXCEPT ![c].does = "gone"]
  /\ UNCHANGED <<lastChannelId, lastTokenId, sessionCount, spent, answers>>

\* A request on a connection whose channel was removed: the connection is closed.
LostChannel(c) ==
  /\ conn[c].state = "established" /\ conn[c].channel = NoChannel
  /\ client[c].token # NoToken /\ client[c].does \in {"send", "renew"}
  /\ Close(c)
  /\ UNCHANGED <<channelVars, sessionVars, clientVars>>

-----------------------------------------------------------------------------
(* Sessions: processMSG, with a request for session s that comes over c *)

Request(c) ==
  /\ Asks(c) /\ conn[c].channel # NoChannel
  /\ KnownToken(conn[c].channel, client[c].token)

Heard(c) == Receive(conn[c].channel, client[c].token)

\* UA_SecureChannel_getSession does not look at validTill,
\* UA_SessionManager_getSession does.
Found(c, s) ==
  /\ s \in DOMAIN session
  /\ s \in channels[conn[c].channel].sessions \/ ~session[s].lapsed

CreateSession(c, s) ==
  /\ Request(c) /\ s \notin spent
  /\ sessionCount < MaxSessions
  /\ channels' = Heard(c)
  /\ session' = [r \in DOMAIN session \cup {s} |->
       IF r = s THEN [channel |-> NoChannel, activated |-> FALSE, lapsed |-> FALSE]
                ELSE session[r]]
  /\ sessionCount' = sessionCount + 1 /\ spent' = spent \cup {s}
  /\ UNCHANGED <<conn, channelCount, lastChannelId, lastTokenId, clientVars>>

\* Mutant: the session is not detached from its old channel.
ActivateSession_NoDetach(c, s) ==
  /\ Request(c) /\ Found(c, s) /\ ~session[s].lapsed
  /\ LET id == conn[c].channel
     IN /\ channels' = [Heard(c) EXCEPT ![id].sessions = @ \cup {s}]
        /\ session' = [session EXCEPT ![s] =
             [channel |-> id, activated |-> TRUE, lapsed |-> FALSE]]
  /\ UNCHANGED <<conn, channelCount, lastChannelId, lastTokenId, sessionCount, spent,
                 clientVars>>

\* Service_ActivateSession: detached from the old channel, attached to this one.
ActivateSession(c, s) ==
  /\ Request(c) /\ Found(c, s) /\ ~session[s].lapsed
  /\ LET id == conn[c].channel
     IN /\ channels' = [k \in DOMAIN channels |->
             LET h == Heard(c)[k]
             IN IF k = id THEN [h EXCEPT !.sessions = @ \cup {s}]
                ELSE IF k = session[s].channel THEN [h EXCEPT !.sessions = @ \ {s}]
                ELSE h]
        /\ session' = [session EXCEPT ![s] =
             [channel |-> id, activated |-> TRUE, lapsed |-> FALSE]]
  /\ UNCHANGED <<conn, channelCount, lastChannelId, lastTokenId, sessionCount, spent,
                 clientVars>>

\* The session is activated and bound to this channel: it is used, and lives on.
Use(c, s) ==
  /\ Request(c) /\ Found(c, s)
  /\ session[s].activated /\ session[s].channel = conn[c].channel
  /\ channels' = Heard(c)
  /\ session' = [session EXCEPT ![s].lapsed = FALSE]
  /\ UNCHANGED <<conn, channelCount, lastChannelId, lastTokenId, sessionCount, spent,
                 clientVars>>

\* Use of a session that is not activated: BADSESSIONNOTACTIVATED, and removed.
UseInactive(c, s) ==
  /\ Request(c) /\ Found(c, s) /\ ~session[s].activated
  /\ RemoveSessions({s})
  /\ channels' = Without(Heard(c), {s})
  /\ UNCHANGED <<conn, channelCount, lastChannelId, lastTokenId, spent, clientVars>>

\* Service_CloseSession
CloseSession(c, s) ==
  /\ Request(c) /\ Found(c, s)
  /\ session[s].activated /\ session[s].channel = conn[c].channel
  /\ RemoveSessions({s})
  /\ channels' = Without(Heard(c), {s})
  /\ UNCHANGED <<conn, channelCount, lastChannelId, lastTokenId, spent, clientVars>>

\* Any other request: no session needed, no such session, one that is bound to
\* another channel, too many sessions. Only the token of the channel may change.
OtherRequest(c) ==
  /\ Request(c)
  /\ channels' = Heard(c)
  /\ UNCHANGED <<conn, channelCount, lastChannelId, lastTokenId, sessionVars, clientVars>>

-----------------------------------------------------------------------------
(* Time *)

\* createdAt + revisedLifetime of a channel's token passes.
TokenLapses(id) ==
  /\ id \in DOMAIN channels /\ ~channels[id].stale
  /\ channels' = [channels EXCEPT ![id].stale = TRUE]
  /\ UNCHANGED <<conn, channelCount, lastChannelId, lastTokenId, sessionVars, clientVars>>

\* validTill of a session passes.
SessionLapses(s) ==
  /\ s \in DOMAIN session /\ ~session[s].lapsed
  /\ session' = [session EXCEPT ![s].lapsed = TRUE]
  /\ UNCHANGED <<conn, channelVars, sessionCount, spent, clientVars>>

\* Mutant: channels without a connection are left to their timeout.
Cleanup_TimedOutOnly ==
  LET gone == {s \in DOMAIN session : session[s].lapsed}
      dead == {id \in DOMAIN channels : channels[id].stale}
      left == DOMAIN channels \ dead
  IN /\ session' = [s \in DOMAIN session \ gone |-> Unbound(dead)[s]]
     /\ sessionCount' = sessionCount - Cardinality(gone)
     /\ channels' = [id \in left |-> Revolve(Without(channels, gone)[id])]
     /\ channelCount' = channelCount - Cardinality(dead)
     /\ conn' = Detached(dead)
     /\ UNCHANGED <<lastChannelId, lastTokenId, spent, clientVars>>

\* UA_Server_cleanup, every ten seconds: SessionManager_cleanupTimedOut, then
\* SecureChannelManager_cleanupTimedOut. A token that was issued becomes
\* current even if the client has not used it.
Cleanup ==
  LET gone == {s \in DOMAIN session : session[s].lapsed}
      dead == {id \in DOMAIN channels : channels[id].stale \/ channels[id].peer = NoConn}
      left == DOMAIN channels \ dead
  IN /\ session' = [s \in DOMAIN session \ gone |-> Unbound(dead)[s]]
     /\ sessionCount' = sessionCount - Cardinality(gone)
     /\ channels' = [id \in left |-> Revolve(Without(channels, gone)[id])]
     /\ channelCount' = channelCount - Cardinality(dead)
     /\ conn' = Detached(dead)
     /\ UNCHANGED <<lastChannelId, lastTokenId, spent, clientVars>>

Handler(c) ==
  \/ Open(c) \/ OpenFails(c) \/ Renew(c) \/ CloseChannel(c) \/ LostChannel(c) \/ OtherRequest(c)
  \/ \E s \in Sessions :
       \/ CreateSession(c, s) \/ ActivateSession(c, s) \/ Use(c, s) \/ UseInactive(c, s)
       \/ CloseSession(c, s)

Next ==
  \/ \E c \in Conns : Accept(c) \/ Drop(c) \/ ReadToken(c) \/ GiveUp(c) \/ Handler(c)
  \/ \E id \in DOMAIN channels : TokenLapses(id)
  \/ \E s \in DOMAIN session : SessionLapses(s)
  \/ Cleanup

Spec == Init /\ [][Next]_vars

\* The repeated job runs as long as the server does, and time passes.
Fairness == WF_vars(Cleanup) /\ \A s \in Sessions : WF_vars(SessionLapses(s))

FairSpec == Spec /\ Fairness

-----------------------------------------------------------------------------
ChannelRecords ==
  [peer : Conns \cup {NoConn}, sessions : SUBSET Sessions,
   token : Nat \ {NoToken}, next : Nat, stale : BOOLEAN]

SessionRecords == [channel : Nat, activated : BOOLEAN, lapsed : BOOLEAN]

\* The states of the lists; nothing has an id that was not given out.
TypeOK ==
  /\ conn \in [Conns -> [state : {"none", "established", "closed", "freed"}, channel : Nat]]
  /\ channels \in [DOMAIN channels -> ChannelRecords]
  /\ DOMAIN channels \subseteq 1 .. lastChannelId - 1
  /\ session \in [DOMAIN session -> SessionRecords]
  /\ DOMAIN session \subseteq spent /\ spent \subseteq Sessions
  /\ channelCount \in Nat /\ sessionCount \in Nat
  /\ lastChannelId \in Nat \ {0} /\ lastTokenId \in Nat \ {0}
  /\ client \in [Conns -> [token : Nat, does : {"send", "renew", "wait", "gone"}, late : BOOLEAN]]
  /\ answers \in [Conns -> Seq(Nat \ {NoToken})]

\* A connection and its channel point at each other and at nothing that was
\* freed: a message is answered on the connection it came from.
ConnectionLinked ==
  /\ \A c \in Conns : conn[c].channel # NoChannel =>
       conn[c].channel \in DOMAIN channels /\ channels[conn[c].channel].peer = c
  /\ \A id \in DOMAIN channels : channels[id].peer # NoConn =>
       conn[channels[id].peer].channel = id /\ conn[channels[id].peer].state # "freed"

\* So do a session and the channel it was last activated on: no channel is
\* left with a session that was freed, no session with two channels.
SessionLinked ==
  /\ \A s \in DOMAIN session : session[s].channel # NoChannel =>
       session[s].channel \in DOMAIN channels /\ s \in channels[session[s].channel].sessions
  /\ \A id \in DOMAIN channels : \A s \in channels[id].sessions :
       s \in DOMAIN session /\ session[s].channel = id

\* The counters that admit clients agree with the lists, and stay within the limits.
Counted ==
  /\ channelCount = Cardinality(DOMAIN channels) /\ channelCount <= MaxChannels
  /\ sessionCount = Cardinality(DOMAIN session) /\ sessionCount <= MaxSessions

\* A client that read every answer in time is understood: its token is one the
\* channel of its connection accepts, whatever the cleanup revolved meanwhile.
TokenKnown ==
  \A c \in Conns : Asks(c) /\ conn[c].channel # NoChannel /\ ~client[c].late =>
    KnownToken(conn[c].channel, client[c].token)

\* "Reply answers the wrong request": what the client takes for the response to
\* its OpenSecureChannel request is the response to it, the last that was sent.
OwnAnswer ==
  \A c \in Conns : client[c].does = "wait" /\ answers[c] # <<>> =>
    Head(answers[c]) = answers[c][Len(answers[c])]

\* A session in use loses its channel only by its own time, by that of the
\* token, by the end of the connection or by its own clients: never by a
\* channel that is opened for another client.
Disturbs == \E c \in Conns : Open(c)

KeptForOthers ==
  [][ Disturbs => \A s \in DOMAIN session :
        s \in DOMAIN session' /\ session'[s].channel = session[s].channel ]_vars

PeerLess(id) == id \in DOMAIN channels /\ channels[id].peer = NoConn
Orphan(s)    == s \in DOMAIN session /\ session[s].channel = NoChannel

\* What clients left behind is given back by the cleanup, so that others can
\* come: a channel without a connection, and a session without a channel.
Reclaimed ==
  /\ \A id \in 1 .. MaxTokens : PeerLess(id) ~> id \notin DOMAIN channels
  /\ \A s \in Sessions : Orphan(s) ~> ~Orphan(s)
=============================================================================
