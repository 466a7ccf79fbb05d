--------------------------- MODULE Channels_proofs ---------------------------
(* The links between connections, channels and sessions, for every number of *)
(* each and every limit.                                                     *)
EXTENDS Channels, FiniteSetTheorems, SequenceTheorems, TLAPS

\* The lists are finite, so that the counters have something to agree with.
Finite == IsFiniteSet(DOMAIN channels) /\ IsFiniteSet(DOMAIN session)

\* The token the client holds or is about to read is the youngest of its channel.
Youngest(k, t) == t # NoToken /\ (t = k.next \/ (t = k.token /\ k.next = NoToken))

\* The client is never more than one answer behind, if it never gave up.
InTime ==
  \A c \in Conns : ~client[c].late =>
    /\ client[c].does # "renew"
    /\ client[c].does = "send" => answers[c] = <<>>
    /\ client[c].does = "wait" => Len(answers[c]) = 1
    /\ conn[c].channel # NoChannel =>
         /\ client[c].does = "send" => Youngest(channels[conn[c].channel], client[c].token)
         /\ client[c].does = "wait" => Youngest(channels[conn[c].channel], Head(answers[c]))

IInv ==
  /\ TypeOK
  /\ ConnectionLinked
  /\ SessionLinked
  /\ Finite
  /\ Counted
  /\ InTime

-----------------------------------------------------------------------------
(* Counting and choosing *)

LEMMA Removed ==
  ASSUME NEW S, IsFiniteSet(S), NEW T \in SUBSET S
  PROVE  /\ IsFiniteSet(S \ T) /\ IsFiniteSet(T)
         /\ Cardinality(S) \in Nat /\ Cardinality(T) \in Nat
         /\ Cardinality(S \ T) \in Nat
         /\ Cardinality(S \ T) = Cardinality(S) - Cardinality(T)
<1>1. IsFiniteSet(T) /\ IsFiniteSet(S \ T)
  BY FS_Subset
<1>2. Cardinality(S \ T) = Cardinality(S) - Cardinality(S \cap T)
  BY FS_Difference
<1>3. S \cap T = T
  OBVIOUS
<1> QED BY <1>1, <1>2, <1>3, FS_CardinalityType

LEMMA OnlyOne ==
  ASSUME NEW S, NEW s \in Seq(S), Len(s) = 1
  PROVE  Tail(s) = <<>>
<1>1. Tail(s) \in Seq(S) /\ Len(Tail(s)) = 0
  OBVIOUS
<1> QED BY <1>1, EmptySeq

LEMMA AtMostOneIdle ==
  ASSUME TypeOK
  PROVE  /\ FirstIdle \subseteq DOMAIN channels
         /\ \A id \in FirstIdle : channels[id].sessions = {}
         /\ FirstIdle # {} => Cardinality(FirstIdle) = 1
<1>1. FirstIdle \subseteq DOMAIN channels /\ \A id \in FirstIdle : channels[id].sessions = {}
  BY DEF FirstIdle, Idle
<1>2. \A i, j \in FirstIdle : i = j
  <2>1. \A i \in FirstIdle : i \in Nat
    BY DEF FirstIdle, TypeOK
  <2> QED BY <2>1 DEF FirstIdle
<1>3. ASSUME FirstIdle # {} PROVE Cardinality(FirstIdle) = 1
  <2>1. PICK i \in FirstIdle : TRUE
    BY <1>3
  <2>2. FirstIdle = {i}
    BY <1>2, <2>1
  <2> QED BY <2>2, FS_Singleton
<1> QED BY <1>1, <1>3

-----------------------------------------------------------------------------
(* What a request that is received changes in the channels *)

LEMMA Revolved ==
  ASSUME NEW k \in ChannelRecords
  PROVE  /\ Revolve(k) \in ChannelRecords
         /\ Revolve(k).peer = k.peer /\ Revolve(k).sessions = k.sessions
         /\ \A t : Youngest(k, t) => Youngest(Revolve(k), t)
<1>1. CASE k.next = NoToken
  BY <1>1 DEF Revolve
<1>2. CASE k.next # NoToken
  <2>1. Revolve(k) = [peer |-> k.peer, sessions |-> k.sessions, token |-> k.next,
                      next |-> NoToken, stale |-> FALSE]
    BY <1>2 DEF Revolve, ChannelRecords
  <2>2. k.peer \in Conns \cup {NoConn} /\ k.sessions \in SUBSET Sessions /\ k.next \in Nat \ {NoToken}
    BY <1>2 DEF ChannelRecords
  <2>3. Revolve(k) \in ChannelRecords
    BY <2>1, <2>2 DEF ChannelRecords, NoToken
  <2> QED BY <1>2, <2>1, <2>3 DEF Youngest
<1> QED BY <1>1, <1>2

\* f holds a record for every channel, with the same peer and no older tokens.
Kept(f) ==
  /\ f \in [DOMAIN channels -> ChannelRecords]
  /\ \A id \in DOMAIN channels :
       f[id].peer = channels[id].peer /\ \A t : Youngest(channels[id], t) => Youngest(f[id], t)

LEMMA HeardKept ==
  ASSUME IInv, NEW c \in Conns, Request(c)
  PROVE  /\ conn[c].channel \in DOMAIN channels
         /\ Kept(Heard(c))
         /\ \A id \in DOMAIN channels : Heard(c)[id].sessions = channels[id].sessions
<1> DEFINE id == conn[c].channel
<1>1. id \in DOMAIN channels
  BY DEF Request, IInv, ConnectionLinked
<1>2. channels \in [DOMAIN channels -> ChannelRecords]
  BY DEF IInv, TypeOK
<1>3. CASE client[c].token = channels[id].token
  BY <1>1, <1>2, <1>3 DEF Heard, Receive, Kept
<1>4. CASE client[c].token # channels[id].token
  <2>1. Heard(c) = [channels EXCEPT ![id] = Revolve(channels[id])]
    BY <1>1, <1>4 DEF Heard, Receive
  <2>2. channels[id] \in ChannelRecords
    BY <1>1, <1>2
  <2>3. Revolve(channels[id]) \in ChannelRecords
    BY <2>2, Revolved
  <2>4. Heard(c) \in [DOMAIN channels -> ChannelRecords]
    BY <1>2, <2>1, <2>3
  <2>5. \A k \in DOMAIN channels : Heard(c)[k] = IF k = id THEN Revolve(channels[id]) ELSE channels[k]
    BY <1>2, <2>1
  <2> QED BY <1>1, <2>2, <2>4, <2>5, Revolved DEF Kept
<1> QED BY <1>3, <1>4

-----------------------------------------------------------------------------
(* Steps that leave the links of connections alone, and steps that cut some *)

ConnRecords == [state : {"none", "established", "closed", "freed"}, channel : Nat]

LEMMA SameLinks ==
  ASSUME IInv, Kept(channels'), UNCHANGED clientVars,
         \A c \in Conns : /\ conn'[c].channel = conn[c].channel
                          /\ conn[c].state # "freed" => conn'[c].state # "freed"
  PROVE  ConnectionLinked' /\ InTime'
<1>1. DOMAIN channels' = DOMAIN channels
  BY DEF Kept
<1>2. \A id \in DOMAIN channels :
        /\ channels'[id].peer = channels[id].peer
        /\ channels[id].peer \in Conns \cup {NoConn}
        /\ \A t : Youngest(channels[id], t) => Youngest(channels'[id], t)
  BY DEF Kept, IInv, TypeOK, ChannelRecords
<1>3. ConnectionLinked'
  BY <1>1, <1>2 DEF IInv, ConnectionLinked
<1>4. \A c \in Conns : conn[c].channel # NoChannel => conn[c].channel \in DOMAIN channels
  BY DEF IInv, ConnectionLinked
<1>5. InTime'
  BY <1>2, <1>4 DEF IInv, InTime, clientVars
<1> QED BY <1>3, <1>5

LEMMA CutLinks ==
  ASSUME IInv, NEW ids \in SUBSET DOMAIN channels, conn' = Detached(ids),
         channels' \in [DOMAIN channels \ ids -> ChannelRecords],
         \A id \in DOMAIN channels \ ids :
           /\ channels'[id].peer = channels[id].peer
           /\ \A t : Youngest(channels[id], t) => Youngest(channels'[id], t),
         answers' = answers,
         \A c \in Conns : /\ client'[c].late = client[c].late /\ client'[c].token = client[c].token
                          /\ client'[c].does = client[c].does \/ client'[c].does = "gone"
  PROVE  /\ conn' \in [Conns -> ConnRecords]
         /\ ConnectionLinked'
         /\ InTime'
<1>1. conn \in [Conns -> ConnRecords]
  BY DEF IInv, TypeOK, ConnRecords
<1>2. \A c \in Conns : conn'[c] = IF conn[c].channel \in ids
                                   THEN [conn[c] EXCEPT !.channel = NoChannel] ELSE conn[c]
  BY DEF Detached
<1>3. ASSUME NEW c \in Conns
      PROVE  /\ conn'[c] \in ConnRecords
             /\ conn'[c].state = conn[c].state
             /\ conn[c].channel \in ids => conn'[c].channel = NoChannel
             /\ conn[c].channel \notin ids => conn'[c].channel = conn[c].channel
  <2>1. conn[c] \in ConnRecords
    BY <1>1
  <2>2. CASE conn[c].channel \in ids
    <3>1. conn'[c] = [state |-> conn[c].state, channel |-> NoChannel]
      BY <1>2, <2>1, <2>2 DEF ConnRecords
    <3> QED BY <2>1, <2>2, <3>1 DEF ConnRecords, NoChannel
  <2>3. CASE conn[c].channel \notin ids
    BY <1>2, <2>1, <2>3
  <2> QED BY <2>2, <2>3
<1>4. conn' \in [Conns -> ConnRecords]
  BY <1>3 DEF Detached
<1>5. DOMAIN channels' = DOMAIN channels \ ids /\ NoChannel \notin DOMAIN channels
  BY DEF IInv, TypeOK, NoChannel
<1>6. ConnectionLinked'
  <2>1. \A id \in DOMAIN channels : channels[id].peer \in Conns \cup {NoConn}
    BY DEF IInv, TypeOK, ChannelRecords
  <2> QED BY <1>3, <1>5, <2>1 DEF IInv, ConnectionLinked
<1>7. InTime'
  <2>1. \A c \in Conns : conn[c].channel # NoChannel => conn[c].channel \in DOMAIN channels
    BY DEF IInv, ConnectionLinked
  <2> QED BY <1>3, <1>5, <2>1 DEF IInv, InTime
<1> QED BY <1>4, <1>6, <1>7

\* Channels of dead are gone, and so are the sessions of gone.
LEMMA CutSessions ==
  ASSUME IInv, NEW dead \in SUBSET DOMAIN channels, NEW gone \in SUBSET DOMAIN session,
         DOMAIN channels' = DOMAIN channels \ dead, DOMAIN session' = DOMAIN session \ gone,
         \A id \in DOMAIN channels' : channels'[id].sessions = channels[id].sessions \ gone,
         \A s \in DOMAIN session' :
           session'[s].channel = IF session[s].channel \in dead THEN NoChannel ELSE session[s].channel
  PROVE  SessionLinked'
BY DEF IInv, SessionLinked

LEMMA UnboundSessions ==
  ASSUME TypeOK, NEW ids
  PROVE  /\ Unbound(ids) \in [DOMAIN session -> SessionRecords]
         /\ \A s \in DOMAIN session :
              Unbound(ids)[s].channel = IF session[s].channel \in ids THEN NoChannel
                                                                    ELSE session[s].channel
<1>1. \A s \in DOMAIN session : session[s] \in SessionRecords
  BY DEF TypeOK
<1> QED BY <1>1 DEF Unbound, SessionRecords, NoChannel

-----------------------------------------------------------------------------
(* Inductiveness, one lemma per kind of step *)

LEMMA InitIInv == Init => IInv
<1> SUFFICES ASSUME Init PROVE IInv
  OBVIOUS
<1>1. DOMAIN channels = {} /\ DOMAIN session = {}
  BY DEF Init
<1>2. TypeOK
  <2>1. conn \in [Conns -> ConnRecords]
    BY DEF Init, ConnRecords, NoChannel
  <2>2. channels \in [DOMAIN channels -> ChannelRecords] /\ session \in [DOMAIN session -> SessionRecords]
    BY <1>1 DEF Init
  <2>3. client \in [Conns -> [token : Nat, does : {"send", "renew", "wait", "gone"}, late : BOOLEAN]]
    BY DEF Init, NoToken
  <2>4. answers \in [Conns -> Seq(Nat \ {NoToken})]
    BY DEF Init
  <2> QED BY <1>1, <2>1, <2>2, <2>3, <2>4 DEF Init, TypeOK, ConnRecords
<1>3. ConnectionLinked /\ SessionLinked
  BY <1>1 DEF Init, ConnectionLinked, SessionLinked
<1>4. Finite /\ Counted
  BY <1>1, FS_EmptySet, LimitAssumption DEF Init, Finite, Counted
<1>5. InTime
  BY DEF Init, InTime
<1> QED BY <1>2, <1>3, <1>4, <1>5 DEF IInv

\* Nothing but the state of a connection changes: Accept, OpenFails, LostChannel.
LEMMA ConnStateStep ==
  ASSUME IInv, NEW c \in Conns, NEW x \in {"established", "closed"},
         conn' = [conn EXCEPT ![c].state = x],
         UNCHANGED <<channelVars, sessionVars, clientVars>>
  PROVE  IInv'
<1>1. conn \in [Conns -> ConnRecords]
  BY DEF IInv, TypeOK, ConnRecords
<1>2. conn' \in [Conns -> ConnRecords]
  BY <1>1 DEF ConnRecords
<1>3. \A d \in Conns : /\ conn'[d].channel = conn[d].channel
                       /\ conn[d].state # "freed" => conn'[d].state # "freed"
  BY <1>1 DEF ConnRecords
<1>4. Kept(channels')
  BY DEF IInv, TypeOK, Kept, channelVars
<1>5. ConnectionLinked' /\ InTime'
  BY <1>3, <1>4, SameLinks
<1>6. TypeOK'
  BY <1>2 DEF IInv, TypeOK, ConnRecords, channelVars, sessionVars, clientVars
<1>7. SessionLinked' /\ Finite' /\ Counted'
  BY DEF IInv, SessionLinked, Finite, Counted, channelVars, sessionVars
<1> QED BY <1>5, <1>6, <1>7 DEF IInv

LEMMA DropStep ==
  ASSUME IInv, NEW c \in Conns, Drop(c)
  PROVE  IInv'
<1>1. conn \in [Conns -> ConnRecords] /\ channels \in [DOMAIN channels -> ChannelRecords]
  BY DEF IInv, TypeOK, ConnRecords
<1>2. conn' \in [Conns -> ConnRecords]
  BY <1>1 DEF Drop, ConnRecords, NoChannel
<1>3. \A d \in Conns : conn'[d] = IF d = c THEN [state |-> "freed", channel |-> NoChannel] ELSE conn[d]
  BY <1>1 DEF Drop
<1>4. DOMAIN channels' = DOMAIN channels
  BY DEF Drop
<1>5. ASSUME NEW id \in DOMAIN channels
      PROVE  /\ channels'[id] \in ChannelRecords
             /\ channels'[id].sessions = channels[id].sessions
             /\ channels'[id].token = channels[id].token /\ channels'[id].next = channels[id].next
             /\ channels'[id].peer =
                  IF conn[c].channel = id /\ channels[id].peer = c THEN NoConn ELSE channels[id].peer
  <2>1. channels[id] \in ChannelRecords
    BY <1>1
  <2>2. CASE conn[c].channel = id /\ channels[id].peer = c
    <3>1. channels'[id] = [peer |-> NoConn, sessions |-> channels[id].sessions,
                           token |-> channels[id].token, next |-> channels[id].next,
                           stale |-> channels[id].stale]
      BY <2>1, <2>2 DEF Drop, ChannelRecords
    <3> QED BY <2>1, <2>2, <3>1 DEF ChannelRecords
  <2>3. CASE ~(conn[c].channel = id /\ channels[id].peer = c)
    BY <2>1, <2>3 DEF Drop
  <2> QED BY <2>2, <2>3
<1>6. channels' \in [DOMAIN channels' -> ChannelRecords]
  BY <1>4, <1>5 DEF Drop
<1>7. client' = [client EXCEPT ![c].does = "gone"] /\ answers' = [answers EXCEPT ![c] = <<>>]
  BY DEF Drop
<1>8. \A d \in Conns : d # c => client'[d] = client[d] /\ answers'[d] = answers[d]
  BY <1>7 DEF IInv, TypeOK
<1>9. client'[c].does = "gone"
  BY <1>7 DEF IInv, TypeOK
<1>10. TypeOK'
  <2>1. client' \in [Conns -> [token : Nat, does : {"send", "renew", "wait", "gone"}, late : BOOLEAN]]
    BY <1>7 DEF IInv, TypeOK
  <2>2. answers' \in [Conns -> Seq(Nat \ {NoToken})]
    BY <1>7 DEF IInv, TypeOK
  <2> QED BY <1>2, <1>4, <1>6, <2>1, <2>2 DEF IInv, TypeOK, Drop, sessionVars, ConnRecords
<1>11. ConnectionLinked'
  <2>1. \A d \in Conns : conn'[d].channel # NoChannel => d # c /\ conn'[d].channel = conn[d].channel
    BY <1>3 DEF NoChannel
  <2>2. \A id \in DOMAIN channels : channels'[id].peer # NoConn => channels'[id].peer = channels[id].peer
                                                           /\ channels[id].peer # c
    BY <1>5 DEF IInv, ConnectionLinked
  <2>3. \A id \in DOMAIN channels : channels[id].peer \in Conns \cup {NoConn}
    BY <1>1 DEF ChannelRecords
  <2>4. ASSUME NEW id \in DOMAIN channels, channels'[id].peer # NoConn
        PROVE  conn'[channels'[id].peer].channel = id /\ conn'[channels'[id].peer].state # "freed"
    <3>1. channels'[id].peer = channels[id].peer /\ channels[id].peer \in Conns \ {c}
      BY <2>2, <2>3, <2>4
    <3> QED BY <1>3, <2>4, <3>1 DEF IInv, ConnectionLinked
  <2>5. ASSUME NEW d \in Conns, conn'[d].channel # NoChannel
        PROVE  conn'[d].channel \in DOMAIN channels /\ channels'[conn'[d].channel].peer = d
    BY <1>5, <2>1, <2>5 DEF IInv, ConnectionLinked
  <2> QED BY <1>4, <2>4, <2>5 DEF ConnectionLinked
<1>12. SessionLinked'
  BY <1>4, <1>5 DEF IInv, SessionLinked, Drop, sessionVars
<1>13. Finite' /\ Counted'
  BY <1>4 DEF IInv, Finite, Counted, Drop, sessionVars
<1>14. InTime'
  <2>1. \A d \in Conns : conn[d].channel # NoChannel => conn[d].channel \in DOMAIN channels
    BY DEF IInv, ConnectionLinked
  <2> QED BY <1>3, <1>5, <1>8, <1>9, <2>1 DEF IInv, InTime, Youngest, NoChannel
<1> QED BY <1>10, <1>11, <1>12, <1>13, <1>14 DEF IInv

LEMMA OpenStep ==
  ASSUME IInv, NEW c \in Conns, Open(c)
  PROVE  IInv'
<1> DEFINE purged == IF channelCount >= MaxChannels THEN FirstIdle ELSE {}
           id == lastChannelId
           new == [peer |-> c, sessions |-> {}, token |-> lastTokenId, next |-> NoToken, stale |-> FALSE]
           kept == DOMAIN channels \ purged
<1>1. /\ Asks(c) /\ conn[c].channel = NoChannel
      /\ channelCount < MaxChannels \/ purged # {}
      /\ channels' = [k \in kept \cup {id} |-> IF k = id THEN new ELSE channels[k]]
      /\ channelCount' = (channelCount - Cardinality(purged)) + 1
      /\ conn' = [Detached(purged) EXCEPT ![c].channel = id]
      /\ session' = Unbound(purged)
      /\ lastChannelId' = lastChannelId + 1 /\ lastTokenId' = lastTokenId + 1
      /\ client' = [client EXCEPT ![c].does = "wait"]
      /\ answers' = [answers EXCEPT ![c] = Append(@, lastTokenId)]
      /\ UNCHANGED <<sessionCount, spent>>
  BY DEF Open
<1>2. TypeOK
  BY DEF IInv
<1>3. /\ purged \subseteq DOMAIN channels /\ \A k \in purged : channels[k].sessions = {}
      /\ purged # {} => Cardinality(purged) = 1
      /\ purged = {} => Cardinality(purged) = 0
  BY <1>2, AtMostOneIdle, FS_EmptySet
<1>4. id \in Nat \ {0} /\ lastTokenId \in Nat \ {0} /\ \A k \in DOMAIN channels : k \in 1 .. id - 1
  BY <1>2 DEF TypeOK
<1>5. id \notin DOMAIN channels /\ id # NoChannel /\ NoChannel \notin DOMAIN channels
  BY <1>4 DEF NoChannel
<1>6. new \in ChannelRecords
  BY <1>4 DEF ChannelRecords, NoToken
<1>7. /\ DOMAIN channels' = kept \cup {id} /\ channels'[id] = new
      /\ \A k \in kept : channels'[k] = channels[k]
  BY <1>1, <1>5
<1>8. channels' \in [DOMAIN channels' -> ChannelRecords]
  BY <1>1, <1>2, <1>6 DEF TypeOK
<1>9. conn \in [Conns -> ConnRecords]
  BY <1>2 DEF TypeOK, ConnRecords
<1>10. ASSUME NEW d \in Conns, d # c
       PROVE  /\ conn'[d].state = conn[d].state /\ conn'[d] \in ConnRecords
              /\ conn[d].channel \in purged => conn'[d].channel = NoChannel
              /\ conn[d].channel \notin purged => conn'[d].channel = conn[d].channel
  <2>1. conn[d] \in ConnRecords /\ conn'[d] = Detached(purged)[d]
    BY <1>1, <1>9, <1>10 DEF Detached
  <2>2. CASE conn[d].channel \in purged
    <3>1. conn'[d] = [state |-> conn[d].state, channel |-> NoChannel]
      BY <2>1, <2>2 DEF Detached, ConnRecords
    <3> QED BY <2>1, <2>2, <3>1 DEF ConnRecords, NoChannel
  <2>3. CASE conn[d].channel \notin purged
    BY <2>1, <2>3 DEF Detached
  <2> QED BY <2>2, <2>3
<1>11. conn'[c] \in ConnRecords /\ conn'[c].channel = id /\ conn'[c].state = "established"
  <2>1. conn[c].channel \notin purged /\ conn[c].state = "established" /\ conn[c] \in ConnRecords
    BY <1>1, <1>3, <1>5, <1>9 DEF Asks
  <2>2. Detached(purged)[c] = conn[c] /\ DOMAIN Detached(purged) = Conns
    BY <2>1 DEF Detached
  <2>3. conn'[c] = [state |-> "established", channel |-> id]
    BY <1>1, <2>1, <2>2 DEF ConnRecords
  <2> QED BY <1>4, <2>3 DEF ConnRecords
<1>12. TypeOK'
  <2>1. conn' \in [Conns -> ConnRecords]
    BY <1>1, <1>10, <1>11 DEF Detached
  <2>2. session' \in [DOMAIN session' -> SessionRecords] /\ DOMAIN session' = DOMAIN session
    BY <1>1, <1>2, UnboundSessions
  <2>3. lastChannelId' \in Nat \ {0} /\ lastTokenId' \in Nat \ {0}
    BY <1>1, <1>4
  <2>4. DOMAIN channels' \subseteq 1 .. lastChannelId' - 1
    BY <1>1, <1>4, <1>7
  <2>5. channelCount' \in Nat
    <3>1. IsFiniteSet(DOMAIN channels) /\ channelCount = Cardinality(DOMAIN channels)
      BY DEF IInv, Finite, Counted
    <3>2. Cardinality(kept) \in Nat /\ Cardinality(kept) = channelCount - Cardinality(purged)
      BY <1>3, <3>1, Removed
    <3> QED BY <1>1, <3>2
  <2>6. client' \in [Conns -> [token : Nat, does : {"send", "renew", "wait", "gone"}, late : BOOLEAN]]
    BY <1>1, <1>2 DEF TypeOK
  <2>7. answers' \in [Conns -> Seq(Nat \ {NoToken})]
    BY <1>1, <1>2, <1>4 DEF TypeOK, NoToken
  <2>8. DOMAIN session' \subseteq spent' /\ spent' \subseteq Sessions /\ sessionCount' \in Nat
    BY <1>1, <1>2, <2>2 DEF TypeOK
  <2> QED BY <1>8, <2>1, <2>2, <2>3, <2>4, <2>5, <2>6, <2>7, <2>8 DEF TypeOK, ConnRecords
<1>13. ConnectionLinked'
  <2>1. ASSUME NEW d \in Conns, conn'[d].channel # NoChannel
        PROVE  conn'[d].channel \in DOMAIN channels' /\ channels'[conn'[d].channel].peer = d
    <3>1. CASE d = c
      BY <1>7, <1>11, <3>1
    <3>2. CASE d # c
      <4>1. conn'[d].channel = conn[d].channel /\ conn[d].channel \in kept
        BY <1>10, <2>1, <3>2 DEF IInv, ConnectionLinked
      <4> QED BY <1>7, <2>1, <4>1 DEF IInv, ConnectionLinked
    <3> QED BY <3>1, <3>2
  <2>2. ASSUME NEW k \in DOMAIN channels', channels'[k].peer # NoConn
        PROVE  conn'[channels'[k].peer].channel = k /\ conn'[channels'[k].peer].state # "freed"
    <3>1. CASE k = id
      BY <1>7, <1>11, <3>1
    <3>2. CASE k \in kept
      <4>1. channels'[k] = channels[k] /\ channels[k].peer \in Conns
        BY <1>2, <1>7, <2>2, <3>2 DEF TypeOK, ChannelRecords
      <4>2. conn[channels[k].peer].channel = k /\ conn[channels[k].peer].state # "freed"
        BY <2>2, <3>2, <4>1 DEF IInv, ConnectionLinked
      <4>3. channels[k].peer # c /\ k \notin purged
        BY <1>1, <1>5, <3>2, <4>2
      <4> QED BY <1>10, <4>1, <4>2, <4>3
    <3> QED BY <1>7, <3>1, <3>2
  <2> QED BY <2>1, <2>2 DEF ConnectionLinked
<1>14. SessionLinked'
  <2>1. \A s \in DOMAIN session : session[s].channel \notin purged
    BY <1>3, <1>5 DEF IInv, SessionLinked
  <2>2. \A s \in DOMAIN session : session'[s].channel = session[s].channel
    BY <1>1, <1>2, <2>1, UnboundSessions
  <2>3. DOMAIN session' = DOMAIN session
    BY <1>1 DEF Unbound
  <2> QED BY <1>7, <2>1, <2>2, <2>3 DEF IInv, SessionLinked
<1>15. Finite' /\ Counted'
  <2>1. /\ IsFiniteSet(kept) /\ Cardinality(kept) = channelCount - Cardinality(purged)
        /\ Cardinality(kept) \in Nat /\ channelCount \in Nat /\ channelCount <= MaxChannels
    BY <1>2, <1>3, Removed DEF IInv, Finite, Counted, TypeOK
  <2>2. id \notin kept
    BY <1>5
  <2>3. IsFiniteSet(DOMAIN channels') /\ Cardinality(DOMAIN channels') = Cardinality(kept) + 1
    BY <1>7, <2>1, <2>2, FS_AddElement
  <2>4. channelCount' <= MaxChannels
    BY <1>1, <1>3, <2>1, LimitAssumption
  <2>5. DOMAIN session' = DOMAIN session /\ sessionCount' = sessionCount
    BY <1>1 DEF Unbound
  <2> QED BY <1>1, <2>1, <2>3, <2>4, <2>5 DEF IInv, Finite, Counted
<1>16. InTime'
  <2>1. ASSUME NEW d \in Conns, d # c
        PROVE  client'[d] = client[d] /\ answers'[d] = answers[d]
    BY <1>1, <1>2, <2>1 DEF TypeOK
  <2>2. client'[c].late = client[c].late /\ client'[c].does = "wait"
    BY <1>1, <1>2 DEF TypeOK
  <2>3. ASSUME ~client[c].late
        PROVE  Len(answers'[c]) = 1 /\ Head(answers'[c]) = lastTokenId
    <3>1. answers[c] = <<>>
      BY <1>1, <2>3 DEF IInv, InTime, Asks
    <3>2. answers'[c] = Append(<<>>, lastTokenId)
      BY <1>1, <1>2, <3>1 DEF TypeOK
    <3> QED BY <3>2
  <2>4. Youngest(new, lastTokenId)
    BY <1>4 DEF Youngest, NoToken
  <2>5. ASSUME NEW d \in Conns, d # c, conn'[d].channel # NoChannel
        PROVE  /\ conn'[d].channel = conn[d].channel /\ conn[d].channel # NoChannel
               /\ channels'[conn'[d].channel] = channels[conn[d].channel]
    <3>1. conn'[d].channel = conn[d].channel /\ conn[d].channel \in kept
      BY <1>10, <2>5 DEF IInv, ConnectionLinked
    <3> QED BY <1>7, <2>5, <3>1
  <2>6. ASSUME NEW d \in Conns, ~client'[d].late
        PROVE  /\ client'[d].does # "renew"
               /\ client'[d].does = "send" => answers'[d] = <<>>
               /\ client'[d].does = "wait" => Len(answers'[d]) = 1
               /\ conn'[d].channel # NoChannel =>
                    /\ client'[d].does = "send" => Youngest(channels'[conn'[d].channel], client'[d].token)
                    /\ client'[d].does = "wait" => Youngest(channels'[conn'[d].channel], Head(answers'[d]))
    <3>1. CASE d = c
      BY <1>7, <1>11, <2>2, <2>3, <2>4, <2>6, <3>1
    <3>2. CASE d # c
      BY <2>1, <2>5, <2>6, <3>2 DEF IInv, InTime
    <3> QED BY <3>1, <3>2
  <2> QED BY <2>6 DEF InTime, Youngest
<1> QED BY <1>12, <1>13, <1>14, <1>15, <1>16 DEF IInv

LEMMA RenewStep ==
  ASSUME IInv, NEW c \in Conns, Renew(c)
  PROVE  IInv'
<1> DEFINE id == conn[c].channel
           issued == channels[id].next # NoToken
           t == IF issued THEN channels[id].next ELSE lastTokenId
<1>1. /\ id # NoChannel /\ client[c].does \in {"send", "renew"}
      /\ channels' = [channels EXCEPT ![id].next = t]
      /\ lastTokenId' = IF issued THEN lastTokenId ELSE lastTokenId + 1
      /\ answers' = [answers EXCEPT ![c] = Append(@, t)]
      /\ client' = [client EXCEPT ![c].does = "wait"]
      /\ UNCHANGED <<conn, channelCount, lastChannelId, sessionVars>>
  BY DEF Renew, Renews
<1>2. TypeOK /\ id \in DOMAIN channels
  BY <1>1 DEF IInv, ConnectionLinked
<1>3. t \in Nat \ {NoToken} /\ lastTokenId' \in Nat \ {0}
  BY <1>1, <1>2 DEF TypeOK, ChannelRecords, NoToken
<1>4. /\ channels'[id] \in ChannelRecords
      /\ channels'[id].peer = channels[id].peer /\ channels'[id].sessions = channels[id].sessions
      /\ channels'[id].next = t
  <2>1. channels[id] \in ChannelRecords
    BY <1>2 DEF TypeOK
  <2>2. channels'[id] = [channels[id] EXCEPT !.next = t]
    BY <1>1, <1>2
  <2> QED BY <1>3, <2>1, <2>2 DEF ChannelRecords
<1>5. DOMAIN channels' = DOMAIN channels /\ \A k \in DOMAIN channels : k # id => channels'[k] = channels[k]
  BY <1>1
<1>6. TypeOK'
  <2>1. channels' \in [DOMAIN channels' -> ChannelRecords]
    <3>1. channels' \in [DOMAIN channels -> ChannelRecords]
      BY <1>1, <1>2, <1>4, <1>5 DEF TypeOK
    <3> QED BY <1>5, <3>1
  <2>2. client' \in [Conns -> [token : Nat, does : {"send", "renew", "wait", "gone"}, late : BOOLEAN]]
    BY <1>1, <1>2 DEF TypeOK
  <2>3. answers' \in [Conns -> Seq(Nat \ {NoToken})]
    BY <1>1, <1>2, <1>3 DEF TypeOK
  <2> QED BY <1>1, <1>2, <1>3, <1>5, <2>1, <2>2, <2>3 DEF TypeOK, sessionVars
<1>7. ConnectionLinked'
  BY <1>1, <1>4, <1>5 DEF IInv, ConnectionLinked
<1>8. SessionLinked' /\ Finite' /\ Counted'
  BY <1>1, <1>4, <1>5 DEF IInv, SessionLinked, Finite, Counted, sessionVars
<1>9. InTime'
  <2>1. ASSUME NEW d \in Conns, d # c
        PROVE  client'[d] = client[d] /\ answers'[d] = answers[d]
    BY <1>1, <1>2, <2>1 DEF TypeOK
  <2>2. client'[c].late = client[c].late /\ client'[c].does = "wait"
    BY <1>1, <1>2 DEF TypeOK
  <2>3. ASSUME ~client[c].late
        PROVE  Len(answers'[c]) = 1 /\ Head(answers'[c]) = t
    <3>1. answers[c] = <<>>
      BY <1>1, <2>3 DEF IInv, InTime
    <3>2. answers'[c] = Append(<<>>, t)
      BY <1>1, <1>2, <3>1 DEF TypeOK
    <3> QED BY <3>2
  <2>4. Youngest(channels'[id], t)
    BY <1>3, <1>4 DEF Youngest
  <2>5. ASSUME NEW d \in Conns, d # c, conn[d].channel # NoChannel
        PROVE  channels'[conn[d].channel] = channels[conn[d].channel]
    <3>1. conn[d].channel \in DOMAIN channels /\ conn[d].channel # id
      BY <1>1, <2>5 DEF IInv, ConnectionLinked
    <3> QED BY <1>5, <3>1
  <2>6. ASSUME NEW d \in Conns, ~client'[d].late
        PROVE  /\ client'[d].does # "renew"
               /\ client'[d].does = "send" => answers'[d] = <<>>
               /\ client'[d].does = "wait" => Len(answers'[d]) = 1
               /\ conn[d].channel # NoChannel =>
                    /\ client'[d].does = "send" => Youngest(channels'[conn[d].channel], client'[d].token)
                    /\ client'[d].does = "wait" => Youngest(channels'[conn[d].channel], Head(answers'[d]))
    <3>1. CASE d = c
      BY <2>2, <2>3, <2>4, <2>6, <3>1
    <3>2. CASE d # c
      BY <2>1, <2>5, <2>6, <3>2 DEF IInv, InTime
    <3> QED BY <3>1, <3>2
  <2> QED BY <1>1, <2>6 DEF InTime
<1> QED BY <1>6, <1>7, <1>8, <1>9 DEF IInv

\* The client reads an answer, or gives up waiting for it.
LEMMA ClientStep ==
  ASSUME IInv, NEW c \in Conns, ReadToken(c) \/ GiveUp(c)
  PROVE  IInv'
<1>1. UNCHANGED <<conn, channelVars, sessionVars>>
  BY DEF ReadToken, GiveUp
<1>2. TypeOK /\ answers[c] \in Seq(Nat \ {NoToken}) /\ answers[c] # <<>>
  BY DEF IInv, TypeOK, ReadToken, GiveUp
<1>3. Head(answers[c]) \in Nat \ {NoToken} /\ Tail(answers[c]) \in Seq(Nat \ {NoToken})
  BY <1>2
<1>4. TypeOK'
  <2>1. client' \in [Conns -> [token : Nat, does : {"send", "renew", "wait", "gone"}, late : BOOLEAN]]
    <3>1. CASE ReadToken(c)
      BY <1>2, <1>3, <3>1 DEF TypeOK, ReadToken
    <3>2. CASE GiveUp(c)
      BY <1>2, <3>2 DEF TypeOK, GiveUp
    <3> QED BY <3>1, <3>2
  <2>2. answers' \in [Conns -> Seq(Nat \ {NoToken})]
    BY <1>2, <1>3 DEF TypeOK, ReadToken, GiveUp
  <2> QED BY <1>1, <1>2, <2>1, <2>2 DEF TypeOK, channelVars, sessionVars
<1>5. ConnectionLinked' /\ SessionLinked' /\ Finite' /\ Counted'
  BY <1>1 DEF IInv, ConnectionLinked, SessionLinked, Finite, Counted, channelVars, sessionVars
<1>6. InTime'
  <2>1. ASSUME NEW d \in Conns, d # c
        PROVE  client'[d] = client[d] /\ answers'[d] = answers[d]
    BY <1>2, <2>1 DEF TypeOK, ReadToken, GiveUp
  <2>2. CASE ReadToken(c)
    <3>1. /\ client'[c].does = "send" /\ client'[c].late = client[c].late
          /\ client'[c].token = Head(answers[c]) /\ answers'[c] = Tail(answers[c])
          /\ client[c].does = "wait"
      BY <1>2, <2>2 DEF ReadToken, TypeOK
    <3>2. ~client[c].late => Len(answers[c]) = 1
      BY <3>1 DEF IInv, InTime
    <3>3. ~client[c].late => answers'[c] = <<>>
      BY <1>2, <3>1, <3>2, OnlyOne
    <3> QED BY <1>1, <2>1, <3>1, <3>3 DEF IInv, InTime, channelVars
  <2>3. CASE GiveUp(c)
    <3>1. client'[c].late
      BY <1>2, <2>3 DEF GiveUp, TypeOK
    <3> QED BY <1>1, <2>1, <3>1 DEF IInv, InTime, channelVars
  <2> QED BY <2>2, <2>3
<1> QED BY <1>4, <1>5, <1>6 DEF IInv

LEMMA CloseChannelStep ==
  ASSUME IInv, NEW c \in Conns, CloseChannel(c)
  PROVE  IInv'
<1> DEFINE id == conn[c].channel
<1>1. /\ id # NoChannel /\ RemoveChannels({id})
      /\ client' = [client EXCEPT ![c].does = "gone"]
      /\ UNCHANGED <<lastChannelId, lastTokenId, sessionCount, spent, answers>>
  BY DEF CloseChannel
<1>2. TypeOK /\ {id} \in SUBSET DOMAIN channels
  BY <1>1 DEF IInv, ConnectionLinked
<1>3. /\ channels' = [k \in DOMAIN channels \ {id} |-> channels[k]]
      /\ channelCount' = channelCount - Cardinality({id})
      /\ conn' = Detached({id}) /\ session' = Unbound({id})
  BY <1>1 DEF RemoveChannels
<1>4. client' \in [Conns -> [token : Nat, does : {"send", "renew", "wait", "gone"}, late : BOOLEAN]]
  BY <1>1, <1>2 DEF TypeOK
<1>5. \A d \in Conns : /\ client'[d].late = client[d].late /\ client'[d].token = client[d].token
                       /\ client'[d].does = client[d].does \/ client'[d].does = "gone"
  BY <1>1, <1>2 DEF TypeOK
<1>6. channels' \in [DOMAIN channels \ {id} -> ChannelRecords]
  BY <1>2, <1>3 DEF TypeOK
<1>7. conn' \in [Conns -> ConnRecords] /\ ConnectionLinked' /\ InTime'
  BY <1>1, <1>2, <1>3, <1>5, <1>6, CutLinks
<1>8. /\ session' \in [DOMAIN session -> SessionRecords]
      /\ \A s \in DOMAIN session :
           session'[s].channel = IF session[s].channel \in {id} THEN NoChannel ELSE session[s].channel
  BY <1>2, <1>3, UnboundSessions
<1>9. SessionLinked'
  <2>1. DOMAIN session' = DOMAIN session \ {} /\ DOMAIN channels' = DOMAIN channels \ {id}
    BY <1>3, <1>8
  <2>2. \A k \in DOMAIN channels' : channels'[k].sessions = channels[k].sessions \ {}
    BY <1>3
  <2> QED BY <1>2, <1>8, <2>1, <2>2, CutSessions
<1>10. /\ IsFiniteSet(DOMAIN channels') /\ channelCount' = Cardinality(DOMAIN channels')
       /\ channelCount' \in Nat /\ channelCount' <= channelCount
  <2>1. IsFiniteSet(DOMAIN channels) /\ channelCount = Cardinality(DOMAIN channels)
    BY DEF IInv, Finite, Counted
  <2>2. /\ IsFiniteSet(DOMAIN channels \ {id})
        /\ Cardinality(DOMAIN channels \ {id}) = channelCount - Cardinality({id})
        /\ Cardinality(DOMAIN channels \ {id}) \in Nat /\ Cardinality({id}) \in Nat /\ channelCount \in Nat
    BY <1>2, <2>1, Removed
  <2> QED BY <1>3, <2>2
<1>11. Finite' /\ Counted'
  <2>1. DOMAIN session' = DOMAIN session /\ sessionCount' = sessionCount
    BY <1>1, <1>8
  <2> QED BY <1>2, <1>10, <2>1, LimitAssumption DEF IInv, Finite, Counted, TypeOK
<1>12. TypeOK'
  BY <1>1, <1>2, <1>3, <1>4, <1>6, <1>7, <1>8, <1>10 DEF TypeOK, ConnRecords
<1> QED BY <1>7, <1>9, <1>11, <1>12 DEF IInv

\* The links hold if the channels keep their peers, and nothing of the
\* connections and clients changes.
LEMMA RequestStep ==
  ASSUME IInv, Kept(channels'),
         UNCHANGED <<conn, channelCount, lastChannelId, lastTokenId, clientVars>>,
         session' \in [DOMAIN session' -> SessionRecords],
         DOMAIN session' \subseteq spent', spent' \subseteq Sessions,
         IsFiniteSet(DOMAIN session'), sessionCount' = Cardinality(DOMAIN session'),
         sessionCount' \in Nat, sessionCount' <= MaxSessions,
         SessionLinked'
  PROVE  IInv'
<1>1. ConnectionLinked' /\ InTime'
  BY SameLinks
<1>2. DOMAIN channels' = DOMAIN channels /\ channels' \in [DOMAIN channels' -> ChannelRecords]
  BY DEF Kept
<1>3. TypeOK'
  BY <1>2 DEF IInv, TypeOK, clientVars
<1>4. Finite' /\ Counted'
  BY <1>2 DEF IInv, Finite, Counted
<1> QED BY <1>1, <1>3, <1>4 DEF IInv

LEMMA SameSessions ==
  ASSUME IInv
  PROVE  /\ session \in [DOMAIN session -> SessionRecords]
         /\ DOMAIN session \subseteq spent /\ spent \subseteq Sessions
         /\ IsFiniteSet(DOMAIN session) /\ sessionCount = Cardinality(DOMAIN session)
         /\ sessionCount \in Nat /\ sessionCount <= MaxSessions
BY DEF IInv, TypeOK, Finite, Counted

LEMMA CreateSessionStep ==
  ASSUME IInv, NEW c \in Conns, NEW s \in Sessions, CreateSession(c, s)
  PROVE  IInv'
<1> DEFINE new == [channel |-> NoChannel, activated |-> FALSE, lapsed |-> FALSE]
<1>1. /\ Request(c) /\ s \notin spent /\ sessionCount < MaxSessions
      /\ channels' = Heard(c)
      /\ session' = [r \in DOMAIN session \cup {s} |-> IF r = s THEN new ELSE session[r]]
      /\ sessionCount' = sessionCount + 1 /\ spent' = spent \cup {s}
      /\ UNCHANGED <<conn, channelCount, lastChannelId, lastTokenId, clientVars>>
  BY DEF CreateSession
<1>2. /\ Kept(channels') /\ DOMAIN channels' = DOMAIN channels
      /\ \A id \in DOMAIN channels : channels'[id].sessions = channels[id].sessions
  BY <1>1, HeardKept DEF Kept
<1>3. new \in SessionRecords
  BY DEF SessionRecords, NoChannel
<1>4. s \notin DOMAIN session
  BY <1>1, SameSessions
<1>5. /\ DOMAIN session' = DOMAIN session \cup {s}
      /\ session' \in [DOMAIN session' -> SessionRecords]
      /\ session'[s] = new /\ \A r \in DOMAIN session : session'[r] = session[r]
  BY <1>1, <1>3, <1>4, SameSessions
<1>6. /\ IsFiniteSet(DOMAIN session') /\ sessionCount' = Cardinality(DOMAIN session')
      /\ sessionCount' \in Nat /\ sessionCount' <= MaxSessions
  BY <1>1, <1>4, <1>5, SameSessions, FS_AddElement, LimitAssumption
<1>7. SessionLinked'
  <2>1. \A r \in DOMAIN session' : session'[r].channel # NoChannel => r # s
    BY <1>5
  <2>2. \A r \in DOMAIN session : session'[r].channel = session[r].channel
    BY <1>5
  <2> QED BY <1>2, <1>5, <2>1, <2>2 DEF IInv, SessionLinked
<1>8. DOMAIN session' \subseteq spent' /\ spent' \subseteq Sessions
  BY <1>1, <1>5, SameSessions
<1> QED BY <1>1, <1>2, <1>5, <1>6, <1>7, <1>8, RequestStep

LEMMA ActivateSessionStep ==
  ASSUME IInv, NEW c \in Conns, NEW s \in Sessions, ActivateSession(c, s)
  PROVE  IInv'
<1> DEFINE id == conn[c].channel
           h == Heard(c)
           new == [channel |-> id, activated |-> TRUE, lapsed |-> FALSE]
<1>1. /\ Request(c) /\ s \in DOMAIN session
      /\ channels' = [k \in DOMAIN channels |->
           IF k = id THEN [h[k] EXCEPT !.sessions = @ \cup {s}]
           ELSE IF k = session[s].channel THEN [h[k] EXCEPT !.sessions = @ \ {s}]
           ELSE h[k]]
      /\ session' = [session EXCEPT ![s] = new]
      /\ UNCHANGED <<conn, channelCount, lastChannelId, lastTokenId, sessionCount, spent, clientVars>>
  BY DEF ActivateSession, Found
<1>2. /\ id \in DOMAIN channels /\ Kept(h)
      /\ \A k \in DOMAIN channels : h[k].sessions = channels[k].sessions
  BY <1>1, HeardKept
<1>3. id # NoChannel /\ id \in Nat
  BY <1>1, <1>2 DEF Request, IInv, TypeOK
<1>4. ASSUME NEW k \in DOMAIN channels
      PROVE  /\ channels'[k] \in ChannelRecords
             /\ channels'[k].peer = h[k].peer
             /\ \A t : Youngest(h[k], t) => Youngest(channels'[k], t)
             /\ channels'[k].sessions =
                  IF k = id THEN channels[k].sessions \cup {s}
                  ELSE IF k = session[s].channel THEN channels[k].sessions \ {s}
                  ELSE channels[k].sessions
  <2>1. h[k] \in ChannelRecords
    BY <1>2 DEF Kept
  <2>2. CASE k = id
    <3>1. channels'[k] = [h[k] EXCEPT !.sessions = h[k].sessions \cup {s}]
      BY <1>1, <2>2
    <3> QED BY <1>2, <2>1, <2>2, <3>1 DEF ChannelRecords, Youngest
  <2>3. CASE k # id /\ k = session[s].channel
    <3>1. channels'[k] = [h[k] EXCEPT !.sessions = h[k].sessions \ {s}]
      BY <1>1, <2>3
    <3> QED BY <1>2, <2>1, <2>3, <3>1 DEF ChannelRecords, Youngest
  <2>4. CASE k # id /\ k # session[s].channel
    BY <1>1, <1>2, <2>1, <2>4
  <2> QED BY <2>2, <2>3, <2>4
<1>5. Kept(channels')
  <2>1. channels' \in [DOMAIN channels -> ChannelRecords]
    BY <1>1, <1>4
  <2>2. \A k \in DOMAIN channels :
          h[k].peer = channels[k].peer /\ \A t : Youngest(channels[k], t) => Youngest(h[k], t)
    BY <1>2 DEF Kept
  <2> QED BY <1>4, <2>1, <2>2 DEF Kept
<1>6. /\ DOMAIN session' = DOMAIN session
      /\ session'[s] = new /\ \A r \in DOMAIN session : r # s => session'[r] = session[r]
  BY <1>1
<1>7. session' \in [DOMAIN session' -> SessionRecords]
  <2>1. new \in SessionRecords
    BY <1>3 DEF SessionRecords
  <2>2. session' \in [DOMAIN session -> SessionRecords]
    BY <1>1, <2>1, SameSessions
  <2> QED BY <1>6, <2>2
<1>8. SessionLinked'
  <2>1. DOMAIN channels' = DOMAIN channels
    BY <1>1
  <2>2. ASSUME NEW r \in DOMAIN session', session'[r].channel # NoChannel
        PROVE  session'[r].channel \in DOMAIN channels' /\ r \in channels'[session'[r].channel].sessions
    <3>1. CASE r = s
      <4>1. session'[r].channel = id
        BY <1>6, <3>1
      <4>2. s \in channels'[id].sessions
        BY <1>2, <1>4
      <4> QED BY <1>2, <2>1, <3>1, <4>1, <4>2
    <3>2. CASE r # s
      BY ZenonT(30), <1>4, <1>6, <2>1, <2>2, <3>2 DEF IInv, SessionLinked
    <3> QED BY <3>1, <3>2
  <2>3. ASSUME NEW k \in DOMAIN channels', NEW r \in channels'[k].sessions
        PROVE  r \in DOMAIN session' /\ session'[r].channel = k
    <3>1. CASE r = s
      <4>1. k = id
        BY <1>4, <2>1, <2>3, <3>1 DEF IInv, SessionLinked
      <4> QED BY <1>1, <1>6, <3>1, <4>1
    <3>2. CASE r # s
      <4>1. k \in DOMAIN channels /\ r \in channels[k].sessions
        BY <1>4, <2>1, <2>3, <3>2
      <4>2. r \in DOMAIN session /\ session[r].channel = k
        BY <4>1 DEF IInv, SessionLinked
      <4> QED BY <1>6, <3>2, <4>2
    <3> QED BY <3>1, <3>2
  <2> QED BY <2>2, <2>3 DEF SessionLinked
<1> QED BY <1>1, <1>5, <1>6, <1>7, <1>8, SameSessions, RequestStep

\* Use, and requests that change nothing but the token of the channel.
LEMMA UseStep ==
  ASSUME IInv, NEW c \in Conns,
         OtherRequest(c) \/ (\E s \in Sessions : Use(c, s))
  PROVE  IInv'
<1>1. /\ Request(c) /\ channels' = Heard(c)
      /\ UNCHANGED <<conn, channelCount, lastChannelId, lastTokenId, clientVars>>
      /\ UNCHANGED <<sessionCount, spent>>
  BY DEF OtherRequest, Use, sessionVars
<1>2. /\ Kept(channels') /\ DOMAIN channels' = DOMAIN channels
      /\ \A id \in DOMAIN channels : channels'[id].sessions = channels[id].sessions
  BY <1>1, HeardKept DEF Kept
<1>3. /\ DOMAIN session' = DOMAIN session /\ session' \in [DOMAIN session -> SessionRecords]
      /\ \A r \in DOMAIN session : session'[r].channel = session[r].channel
  <2>1. CASE OtherRequest(c)
    BY <2>1, SameSessions DEF OtherRequest, sessionVars
  <2>2. CASE \E s \in Sessions : Use(c, s)
    <3>1. PICK s \in Sessions : Use(c, s)
      BY <2>2
    <3>2. session' = [session EXCEPT ![s].lapsed = FALSE]
      BY <3>1 DEF Use
    <3> QED BY <3>2, SameSessions DEF SessionRecords
  <2> QED BY <1>1, <2>1, <2>2
<1>4. SessionLinked'
  BY <1>2, <1>3 DEF IInv, SessionLinked
<1> QED BY <1>1, <1>2, <1>3, <1>4, SameSessions, RequestStep

\* A session is removed: CloseSession, or use before it is activated.
LEMMA EndSessionStep ==
  ASSUME IInv, NEW c \in Conns, NEW s \in Sessions, UseInactive(c, s) \/ CloseSession(c, s)
  PROVE  IInv'
<1>1. /\ Request(c) /\ s \in DOMAIN session
      /\ session' = [r \in DOMAIN session \ {s} |-> session[r]]
      /\ sessionCount' = sessionCount - Cardinality({s})
      /\ channels' = Without(Heard(c), {s})
      /\ UNCHANGED <<conn, channelCount, lastChannelId, lastTokenId, spent, clientVars>>
  BY DEF UseInactive, CloseSession, Found, RemoveSessions
<1>2. /\ Kept(Heard(c)) /\ DOMAIN Heard(c) = DOMAIN channels
      /\ \A id \in DOMAIN channels : Heard(c)[id].sessions = channels[id].sessions
  BY <1>1, HeardKept DEF Kept
<1>3. ASSUME NEW k \in DOMAIN channels
      PROVE  /\ channels'[k] \in ChannelRecords
             /\ channels'[k].peer = channels[k].peer
             /\ \A t : Youngest(channels[k], t) => Youngest(channels'[k], t)
             /\ channels'[k].sessions = channels[k].sessions \ {s}
  <2>1. /\ Heard(c)[k] \in ChannelRecords /\ Heard(c)[k].peer = channels[k].peer
        /\ \A t : Youngest(channels[k], t) => Youngest(Heard(c)[k], t)
    BY <1>2 DEF Kept
  <2>2. channels'[k] = [Heard(c)[k] EXCEPT !.sessions = Heard(c)[k].sessions \ {s}]
    BY <1>1, <1>2 DEF Without
  <2> QED BY <1>2, <2>1, <2>2 DEF ChannelRecords, Youngest
<1>4. DOMAIN channels' = DOMAIN channels /\ Kept(channels')
  <2>1. DOMAIN channels' = DOMAIN channels
    BY <1>1, <1>2 DEF Without
  <2>2. channels' \in [DOMAIN channels -> ChannelRecords]
    BY <1>1, <1>3, <2>1 DEF Without
  <2> QED BY <1>3, <2>1, <2>2 DEF Kept
<1>5. /\ DOMAIN session' = DOMAIN session \ {s}
      /\ session' \in [DOMAIN session' -> SessionRecords]
      /\ \A r \in DOMAIN session' : session'[r] = session[r]
  BY <1>1, SameSessions
<1>6. /\ IsFiniteSet(DOMAIN session') /\ sessionCount' = Cardinality(DOMAIN session')
      /\ sessionCount' \in Nat /\ sessionCount' <= MaxSessions
  <2>1. Cardinality({s}) = 1
    BY FS_Singleton
  <2>2. /\ IsFiniteSet(DOMAIN session \ {s}) /\ Cardinality(DOMAIN session \ {s}) \in Nat
        /\ Cardinality(DOMAIN session \ {s}) = sessionCount - 1
    BY <1>1, SameSessions, FS_RemoveElement, FS_CardinalityType
  <2> QED BY <1>1, <1>5, <2>1, <2>2, SameSessions, LimitAssumption
<1>7. SessionLinked'
  <2>1. {s} \in SUBSET DOMAIN session
    BY <1>1
  <2>2. \A id \in DOMAIN channels' : channels'[id].sessions = channels[id].sessions \ {s}
    BY <1>3, <1>4
  <2>3. {} \in SUBSET DOMAIN channels /\ DOMAIN channels' = DOMAIN channels \ {}
    BY <1>4
  <2>4. \A r \in DOMAIN session' :
          session'[r].channel = IF session[r].channel \in {} THEN NoChannel ELSE session[r].channel
    BY <1>5
  <2> QED BY <1>5, <2>1, <2>2, <2>3, <2>4, CutSessions
<1>8. DOMAIN session' \subseteq spent' /\ spent' \subseteq Sessions
  BY <1>1, <1>5, SameSessions
<1> QED BY <1>1, <1>4, <1>5, <1>6, <1>7, <1>8, RequestStep

\* Time passes for a channel or for a session.
LEMMA LapseStep ==
  ASSUME IInv, (\E id \in DOMAIN channels : TokenLapses(id)) \/ (\E s \in DOMAIN session : SessionLapses(s))
  PROVE  IInv'
<1>1. CASE \E id \in DOMAIN channels : TokenLapses(id)
  <2>1. PICK id \in DOMAIN channels : TokenLapses(id)
    BY <1>1
  <2>2. /\ channels' = [channels EXCEPT ![id].stale = TRUE]
        /\ UNCHANGED <<conn, channelCount, lastChannelId, lastTokenId, clientVars>>
        /\ UNCHANGED <<session, sessionCount, spent>>
    BY <2>1 DEF TokenLapses, sessionVars
  <2>3. ASSUME NEW k \in DOMAIN channels
        PROVE  /\ channels'[k] \in ChannelRecords
               /\ channels'[k].peer = channels[k].peer /\ channels'[k].sessions = channels[k].sessions
               /\ channels'[k].token = channels[k].token /\ channels'[k].next = channels[k].next
    <3>1. channels[k] \in ChannelRecords
      BY DEF IInv, TypeOK
    <3>2. channels'[k] = IF k = id THEN [channels[k] EXCEPT !.stale = TRUE] ELSE channels[k]
      BY <2>2
    <3> QED BY <3>1, <3>2 DEF ChannelRecords
  <2>4. DOMAIN channels' = DOMAIN channels /\ channels' \in [DOMAIN channels -> ChannelRecords]
    BY <2>2, <2>3
  <2>5. Kept(channels')
    BY <2>3, <2>4 DEF Kept, Youngest
  <2>6. SessionLinked'
    BY <2>2, <2>3, <2>4 DEF IInv, SessionLinked
  <2> QED BY <2>2, <2>5, <2>6, SameSessions, RequestStep
<1>2. CASE \E s \in DOMAIN session : SessionLapses(s)
  <2>1. PICK s \in DOMAIN session : SessionLapses(s)
    BY <1>2
  <2>2. /\ session' = [session EXCEPT ![s].lapsed = TRUE]
        /\ UNCHANGED <<conn, channelCount, lastChannelId, lastTokenId, clientVars>>
        /\ UNCHANGED <<channels, sessionCount, spent>>
    BY <2>1 DEF SessionLapses, channelVars
  <2>3. /\ DOMAIN session' = DOMAIN session /\ session' \in [DOMAIN session -> SessionRecords]
        /\ \A r \in DOMAIN session : session'[r].channel = session[r].channel
    BY <2>2, SameSessions DEF SessionRecords
  <2>4. Kept(channels')
    BY <2>2 DEF IInv, TypeOK, Kept
  <2>5. SessionLinked'
    BY <2>2, <2>3 DEF IInv, SessionLinked
  <2> QED BY <2>2, <2>3, <2>4, <2>5, SameSessions, RequestStep
<1> QED BY <1>1, <1>2

LEMMA CleanupStep ==
  ASSUME IInv, Cleanup
  PROVE  IInv'
<1> DEFINE gone == {s \in DOMAIN session : session[s].lapsed}
           dead == {id \in DOMAIN channels : channels[id].stale \/ channels[id].peer = NoConn}
           left == DOMAIN channels \ dead
<1>1. /\ session' = [s \in DOMAIN session \ gone |-> Unbound(dead)[s]]
      /\ sessionCount' = sessionCount - Cardinality(gone)
      /\ channels' = [id \in left |-> Revolve(Without(channels, gone)[id])]
      /\ channelCount' = channelCount - Cardinality(dead)
      /\ conn' = Detached(dead)
      /\ UNCHANGED <<lastChannelId, lastTokenId, spent, clientVars>>
  BY DEF Cleanup
<1>2. TypeOK /\ gone \in SUBSET DOMAIN session /\ dead \in SUBSET DOMAIN channels
  BY DEF IInv
<1>3. ASSUME NEW id \in left
      PROVE  /\ channels'[id] \in ChannelRecords
             /\ channels'[id].peer = channels[id].peer
             /\ channels'[id].sessions = channels[id].sessions \ gone
             /\ \A t : Youngest(channels[id], t) => Youngest(channels'[id], t)
  <2> DEFINE k == [channels[id] EXCEPT !.sessions = channels[id].sessions \ gone]
  <2>1. channels[id] \in ChannelRecords
    BY <1>2 DEF TypeOK
  <2>2. /\ k \in ChannelRecords /\ k.peer = channels[id].peer
        /\ k.sessions = channels[id].sessions \ gone
        /\ k.token = channels[id].token /\ k.next = channels[id].next
    BY <2>1 DEF ChannelRecords
  <2>3. channels'[id] = Revolve(k)
    BY <1>1 DEF Without
  <2>4. \A t : Youngest(channels[id], t) => Youngest(k, t)
    BY <2>2 DEF Youngest
  <2> HIDE DEF k
  <2> QED BY <2>2, <2>3, <2>4, Revolved
<1>4. DOMAIN channels' = left /\ channels' \in [left -> ChannelRecords]
  BY <1>1, <1>3
<1>5. conn' \in [Conns -> ConnRecords] /\ ConnectionLinked' /\ InTime'
  BY <1>1, <1>2, <1>3, <1>4, CutLinks DEF clientVars
<1>6. /\ DOMAIN session' = DOMAIN session \ gone
      /\ session' \in [DOMAIN session' -> SessionRecords]
      /\ \A s \in DOMAIN session' :
           session'[s].channel = IF session[s].channel \in dead THEN NoChannel ELSE session[s].channel
  BY <1>1, <1>2, UnboundSessions
<1>7. SessionLinked'
  <2>1. \A id \in DOMAIN channels' : channels'[id].sessions = channels[id].sessions \ gone
    BY <1>3, <1>4
  <2>2. DOMAIN channels' = DOMAIN channels \ dead
    BY <1>4
  <2> HIDE DEF gone, dead
  <2> QED BY <1>2, <1>6, <2>1, <2>2, CutSessions
<1>8. /\ IsFiniteSet(DOMAIN channels') /\ channelCount' = Cardinality(DOMAIN channels')
      /\ channelCount' \in Nat /\ channelCount' <= MaxChannels
  <2>1. /\ IsFiniteSet(DOMAIN channels) /\ channelCount = Cardinality(DOMAIN channels)
        /\ channelCount <= MaxChannels
    BY DEF IInv, Finite, Counted
  <2>2. /\ IsFiniteSet(left) /\ Cardinality(left) = channelCount - Cardinality(dead)
        /\ Cardinality(left) \in Nat /\ Cardinality(dead) \in Nat /\ channelCount \in Nat
    BY <1>2, <2>1, Removed
  <2> QED BY <1>1, <1>4, <2>1, <2>2, LimitAssumption
<1>9. /\ IsFiniteSet(DOMAIN session') /\ sessionCount' = Cardinality(DOMAIN session')
      /\ sessionCount' \in Nat /\ sessionCount' <= MaxSessions
  <2>1. /\ IsFiniteSet(DOMAIN session \ gone)
        /\ Cardinality(DOMAIN session \ gone) = sessionCount - Cardinality(gone)
        /\ Cardinality(DOMAIN session \ gone) \in Nat /\ Cardinality(gone) \in Nat
    BY <1>2, SameSessions, Removed
  <2> QED BY <1>1, <1>6, <2>1, SameSessions, LimitAssumption
<1>10. TypeOK'
  <2>1. channels' \in [DOMAIN channels' -> ChannelRecords] /\ DOMAIN channels' \subseteq DOMAIN channels
    BY <1>4
  <2>2. DOMAIN session' \subseteq spent' /\ spent' \subseteq Sessions
    BY <1>1, <1>2, <1>6 DEF TypeOK
  <2> QED BY <1>1, <1>2, <1>5, <1>6, <1>8, <1>9, <2>1, <2>2 DEF TypeOK, ConnRecords, clientVars
<1>11. Finite' /\ Counted'
  BY <1>8, <1>9 DEF Finite, Counted
<1> QED BY <1>5, <1>7, <1>10, <1>11 DEF IInv

LEMMA NextIInv == IInv /\ [Next]_vars => IInv'
<1> SUFFICES ASSUME IInv, [Next]_vars PROVE IInv'
  OBVIOUS
<1>1. ASSUME NEW c \in Conns, Accept(c) \/ OpenFails(c) \/ LostChannel(c) PROVE IInv'
  BY <1>1, ConnStateStep DEF Accept, OpenFails, LostChannel, Close
<1>2. ASSUME NEW c \in Conns, NEW s \in Sessions, CreateSession(c, s) PROVE IInv'
  BY <1>2, CreateSessionStep
<1>3. ASSUME NEW c \in Conns, NEW s \in Sessions, ActivateSession(c, s) PROVE IInv'
  BY <1>3, ActivateSessionStep
<1>4. ASSUME NEW c \in Conns, NEW s \in Sessions, UseInactive(c, s) \/ CloseSession(c, s) PROVE IInv'
  BY <1>4, EndSessionStep
<1>5. ASSUME NEW c \in Conns, OtherRequest(c) \/ (\E s \in Sessions : Use(c, s)) PROVE IInv'
  BY <1>5, UseStep
<1>6. ASSUME NEW c \in Conns, Handler(c) PROVE IInv'
  BY <1>1, <1>2, <1>3, <1>4, <1>5, <1>6, OpenStep, RenewStep, CloseChannelStep DEF Handler
<1>7. CASE \E c \in Conns : Accept(c) \/ Drop(c) \/ ReadToken(c) \/ GiveUp(c) \/ Handler(c)
  BY <1>1, <1>6, <1>7, DropStep, ClientStep
<1>8. CASE UNCHANGED vars
  BY <1>8 DEF IInv, TypeOK, ConnectionLinked, SessionLinked, Finite, Counted, InTime, Youngest,
              vars, channelVars, sessionVars, clientVars
<1> QED BY <1>7, <1>8, LapseStep, CleanupStep DEF Next

\* The strengthened invariant holds whatever the handlers, the network layer
\* and the cleanup do, in any order.
THEOREM Invariant == Spec => []IInv
BY InitIInv, NextIInv, PTL DEF Spec

-----------------------------------------------------------------------------
\* The state is what the declarations of connections, channels and sessions say.
THEOREM TypeCorrect == Spec => []TypeOK
<1>1. IInv => TypeOK
  BY DEF IInv
<1> QED BY <1>1, Invariant, PTL

\* UA_SecureChannel_deleteMembersCleanup and UA_Connection_detachSecureChannel leave
\* no connection and no channel with a pointer to the other that is freed.
THEOREM Linked == Spec => []ConnectionLinked
<1>1. IInv => ConnectionLinked
  BY DEF IInv
<1> QED BY <1>1, Invariant, PTL

\* UA_SecureChannel_detachSession and UA_SessionManager_removeSession leave no channel
\* and no session with a pointer to the other that is freed.
THEOREM SessionsLinked == Spec => []SessionLinked
<1>1. IInv => SessionLinked
  BY DEF IInv
<1> QED BY <1>1, Invariant, PTL

\* currentChannelCount and currentSessionCount agree with the lists and never
\* exceed config.maxSecureChannels and config.maxSessions.
THEOREM CountsAgree == Spec => []Counted
<1>1. IInv => Counted
  BY DEF IInv
<1> QED BY <1>1, Invariant, PTL

\* A client that read its answers in time sends a token processChunks accepts,
\* whatever UA_SecureChannelManager_cleanupTimedOut revolved meanwhile.
THEOREM Understood == Spec => []TokenKnown
<1>1. IInv => TokenKnown
  BY DEF IInv, InTime, TokenKnown, KnownToken, Youngest, Asks
<1> QED BY <1>1, Invariant, PTL

\* purgeFirstChannelWithoutSession takes no channel from a session.
THEOREM PurgeIsHarmless == Spec => KeptForOthers
<1>1. ASSUME IInv, [Next]_vars
      PROVE  [Disturbs => \A s \in DOMAIN session :
               s \in DOMAIN session' /\ session'[s].channel = session[s].channel]_vars
  <2>1. ASSUME NEW c \in Conns, Open(c), NEW s \in DOMAIN session
        PROVE  s \in DOMAIN session' /\ session'[s].channel = session[s].channel
    <3> DEFINE purged == IF channelCount >= MaxChannels THEN FirstIdle ELSE {}
    <3>1. session' = Unbound(purged) /\ TypeOK
      BY <1>1, <2>1 DEF Open, IInv
    <3>2. purged \subseteq DOMAIN channels /\ \A k \in purged : channels[k].sessions = {}
      BY <3>1, AtMostOneIdle
    <3>3. NoChannel \notin DOMAIN channels
      BY <3>1 DEF TypeOK, NoChannel
    <3>4. session[s].channel \notin purged
      BY <1>1, <3>2, <3>3 DEF IInv, SessionLinked
    <3> QED BY <3>1, <3>4, UnboundSessions DEF Unbound
  <2> QED BY <2>1 DEF Disturbs
<1> QED BY <1>1, Invariant, PTL DEF Spec, KeptForOthers
=============================================================================
