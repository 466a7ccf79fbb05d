------------------------------ MODULE MCSessions ------------------------------
(***************************************************************************)
(* What belongs to sessions and has to be given back or answered in the    *)
(* end: the subscriptions of one session, or the lists of channels and     *)
(* sessions.  The two share no state: subject, chosen at the start, says   *)
(* which one runs, and the other stays as it begins.                       *)
(***************************************************************************)
EXTENDS Subscription

VARIABLES
  subject,
  conn, channels, channelCount, lastChannelId, lastTokenId, session, sessionCount, spent,
  channelClient, answers

\* Two subscriptions, of which the first may have an item, that is sampled at most
\* twice; a publish request may be given up and another one sent.
ItemsOf == <<1, 0>>
KeepAlive == [min |-> 1, max |-> 2]
LifeTime == [min |-> 3, max |-> 3]
QueueSize == [min |-> 1, max |-> 2]
Asked == {[keepAlive |-> 0, life |-> 0, perPublish |-> 1]}
AskedOfItems == {[size |-> 0, oldest |-> TRUE], [size |-> 9, oldest |-> FALSE]}

ASSUME SettingsAssumption == SubscriptionAssumption

\* Two connections that compete for one channel and one session.
Lists == INSTANCE Channels WITH
  Conns <- {"c", "d"}, Sessions <- {"s", "t"}, NoConn <- "none", MaxChannels <- 1,
  MaxSessions <- 1, MaxTokens <- 3, MaxAnswers <- 2, client <- channelClient

channelVars == <<conn, channels, channelCount, lastChannelId, lastTokenId, session,
                 sessionCount, spent, channelClient, answers>>
sessionsVars == <<subject, vars, channelVars>>

SessionsInit == subject \in {"subscriptions", "channels"} /\ Init /\ Lists!Init

SubscriptionsStep ==
  /\ subject = "subscriptions" /\ Next
  /\ UNCHANGED <<subject, channelVars>>

ChannelsStep ==
  /\ subject = "channels" /\ Lists!Next
  /\ UNCHANGED <<subject, vars>>

SessionsSpec == SessionsInit /\ [][SubscriptionsStep \/ ChannelsStep]_sessionsVars

\* The types of both (see Subscription and Channels).
TypesOK == TypeOK /\ Lists!TypeOK

\* Under the fairness of Subscription, every publish request is answered or ends
\* with its session (see Subscription).
RequestsEnd == Fairness => RequestsAnswered

\* Under the fairness of Channels, channels without a connection and sessions
\* without a channel go (see Channels).
Reclaimed == Lists!Fairness => Lists!Reclaimed
=============================================================================
