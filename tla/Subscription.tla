---------------------------- MODULE Subscription ----------------------------
(***************************************************************************)
(* Subscriptions of one session (open62541.c 23460-24638, 15540-15608) and *)
(* the client functions that use them (26143-26469).                       *)
(*                                                                         *)
(* The server keeps, per session, a list of subscriptions, the newest      *)
(* first, and a queue of publish requests that wait for something to be    *)
(* published.  Each subscription has counters for keep-alives and for its  *)
(* lifetime, monitored items with queues of samples, and the messages that *)
(* were sent and not acknowledged.  Sampling and publishing are repeated   *)
(* jobs.                                                                   *)
(*                                                                         *)
(* The client sends one publish request at a time and waits for the        *)
(* answer; an answer to an earlier request ends the wait with an error.    *)
(* Its other calls are made while nothing is under way to it, and each is  *)
(* one step here, from the request to the answer.                          *)
(***************************************************************************)
EXTENDS Integers, FiniteSets, Sequences, SequencesExt

CONSTANTS
  MaxSub,             \* subscriptions created (bound)
  MaxItem,            \* monitored items created, per subscription (bound)
  MaxValue,           \* writes to the monitored variable (bound)
  MaxRequest,         \* publish requests sent (bound)
  MaxGiveUp,          \* waits the client gives up with the connection open (bound)
  KeepAliveLimits, LifeTimeLimits, QueueSizeLimits,  \* UA_ServerConfig
  MaxPerPublish,      \* maxNotificationsPerPublish
  MaxRetransmission,  \* maxRetransmissionQueueSize, 0 for no limit
  Settings,           \* [keepAlive, life, perPublish] clients ask for
  ItemSettings,       \* [size, oldest] clients ask for
  Modes               \* publishingEnabled, and monitoringMode = REPORTING, clients ask for

VARIABLES
  value,    \* of the monitored variable
  subs,     \* session->serverSubscriptions, first element first
  lastSub,  \* session->lastSubscriptionID
  queue,    \* session->responseQueue
  delayed,  \* is answerPublishRequestsNoSubscription due?
  wire,     \* publish responses on their way to the client
  link,     \* "up", "down" (no channel), "none" (no session)
  client,   \* the UA_Client
  got,      \* history: per subscription, the numbers of the notifications processed
  seen,     \* history: per subscription and item, the last value its handler got
  early     \* history: was a message deleted that the client had not processed?

server == <<subs, lastSub, queue, delayed>>
history == <<got, seen, early>>
vars == <<value, server, wire, link, client, history>>

SubscriptionAssumption ==
  /\ {MaxSub, MaxValue, MaxRequest, MaxGiveUp, MaxPerPublish, MaxRetransmission} \subseteq Nat
  /\ MaxItem \in [1 .. MaxSub -> Nat] /\ MaxPerPublish > 0
  /\ \A limits \in {KeepAliveLimits, LifeTimeLimits, QueueSizeLimits} :
       limits.min \in Nat /\ limits.max \in Nat /\ limits.min <= limits.max
  /\ QueueSizeLimits.min > 0
  /\ Settings \subseteq [keepAlive : Nat, life : Nat, perPublish : Nat]
  /\ ItemSettings \subseteq [size : Nat, oldest : BOOLEAN] /\ Modes \subseteq BOOLEAN

SubIds == 1 .. MaxSub
ItemIds == UNION {1 .. MaxItem[id] : id \in SubIds}
NoValue == -1

Least(a, b) == IF a < b THEN a ELSE b

\* What is left of a list with only the elements at the given places.
Selected(list, places) ==
  LET chosen[k \in 0 .. Len(list)] ==
        IF k = 0 THEN <<>>
        ELSE IF k \in places THEN Append(chosen[k - 1], list[k])
        ELSE chosen[k - 1]
  IN chosen[Len(list)]

\* Mutant: what is asked for may be as large as it likes.
Bounded_NoMax(n, limits) == IF n < limits.min THEN limits.min ELSE n

Bounded(n, limits) ==
  IF n > limits.max THEN limits.max ELSE IF n < limits.min THEN limits.min ELSE n

\* setSubscriptionSettings without the publishing job, which is registered anew.
Revised(sub, s) ==
  LET keepAlive == Bounded(s.keepAlive, KeepAliveLimits)
      life == Bounded(s.life, LifeTimeLimits)
  IN [sub EXCEPT
        !.maxKeepAlive = keepAlive,
        !.lifeTime = IF life < 3 * keepAlive THEN 3 * keepAlive ELSE life,
        !.perPublish = IF s.perPublish \in 1 .. MaxPerPublish THEN s.perPublish
                       ELSE MaxPerPublish]

NewSubscription(id, on, s) ==
  LET new == Revised([id |-> id, enabled |-> on, maxKeepAlive |-> 0, lifeTime |-> 0,
                      perPublish |-> 0, keepAlive |-> 0, life |-> 0, seq |-> 0,
                      late |-> FALSE, lastItem |-> 0, items |-> <<>>, retransmission |-> <<>>], s)
  IN [new EXCEPT !.keepAlive = new.maxKeepAlive]

\* UA_Client_init, and the reset on a new connection.
NewClient ==
  [state |-> "idle", subs |-> {}, items |-> {}, acks |-> <<>>, sent |-> <<>>, request |-> 0,
   gaveUp |-> 0]

Init ==
  /\ value = 0
  /\ subs = <<>> /\ lastSub = 0 /\ queue = <<>> /\ delayed = FALSE
  /\ wire = <<>> /\ link = "up"
  /\ client = NewClient
  /\ got = [id \in SubIds |-> {}]
  /\ seen = [id \in SubIds |-> [i \in ItemIds |-> NoValue]]
  /\ early = FALSE

Positions(id) == {i \in DOMAIN subs : subs[i].id = id}
Exists(id) == Positions(id) # {}
\* UA_Session_getSubscriptionByID
At(id) == CHOOSE i \in Positions(id) : TRUE
Sub(id) == subs[At(id)]
ItemAt(sub, i) == CHOOSE k \in DOMAIN sub.items : sub.items[k].id = i
HasItem(sub, i) == \E k \in DOMAIN sub.items : sub.items[k].id = i
ItemOf(id, i) == Sub(id).items[ItemAt(Sub(id), i)]

(***************************************************************************)
(* Sampling (UA_MoniteredItem_SampleCallback).                             *)
(***************************************************************************)

\* Mutant: makes no room once the queue is full, and keeps the old samples.
Sampled_KeepsFirst(item) ==
  IF value = item.last THEN item
  ELSE [item EXCEPT !.last = value,
          !.queue = IF Len(@) < item.size THEN Append(@, value) ELSE @]

\* Mutant: the sample is put in front of the queue.
Sampled_AtHead(item) ==
  IF value = item.last THEN item
  ELSE [item EXCEPT
          !.last = value,
          !.queue = <<value>> \o (IF Len(@) < item.size THEN @
                                  ELSE IF item.oldest THEN Tail(@) ELSE Front(@))]

\* A value other than the last one is queued.  A full queue loses its oldest
\* sample, or its youngest.  One sample is dropped at most, so that a queue whose
\* limit was lowered stays as long as it was.
Sampled(item) ==
  IF value = item.last THEN item
  ELSE [item EXCEPT
          !.last = value,
          !.queue = Append(IF Len(@) < item.size THEN @
                           ELSE IF item.oldest THEN Tail(@) ELSE Front(@), value)]

\* The subscription with the given item in the place of its old one.
WithItem(id, item) ==
  [Sub(id) EXCEPT !.items = [@ EXCEPT ![ItemAt(Sub(id), item.id)] = item]]

Sample(id, i) ==
  /\ Exists(id) /\ HasItem(Sub(id), i)
  /\ ItemOf(id, i).reporting   \* its job is registered
  /\ subs' = [subs EXCEPT ![At(id)] = WithItem(id, Sampled(ItemOf(id, i)))]
  /\ UNCHANGED <<value, lastSub, queue, delayed, wire, link, client, history>>

(***************************************************************************)
(* Publishing.  The state a publish callback works on is a record.         *)
(***************************************************************************)

SamplesOf(item) == [j \in DOMAIN item.queue |-> [item |-> item.id, value |-> item.queue[j]]]

\* The samples of the first n items, one after the other, for each n.
Listed(items) ==
  LET listed[n \in 0 .. Len(items)] ==
        IF n = 0 THEN <<>> ELSE listed[n - 1] \o SamplesOf(items[n])
  IN listed

Samples(items) == Listed(items)[Len(items)]

\* How many samples come before those of the k-th item.
Before(items, k) == Len(Listed(items)[k - 1])

\* prepareNotificationMessage moves the first n samples into the message.
Taken(items, n, k) == IF n > Before(items, k) THEN n - Before(items, k) ELSE 0

ItemsAfter(items, n) ==
  [k \in DOMAIN items |->
     [items[k] EXCEPT !.queue = SubSeq(@, 1 + Taken(items, n, k), Len(@))]]

\* UA_Subscription_addRetransmissionMessage, the youngest message first.
Retained(messages, m) ==
  <<m>> \o (IF MaxRetransmission > 0 /\ Len(messages) >= MaxRetransmission
            THEN Front(messages) ELSE messages)

\* Mutant: a keep-alive uses up a sequence number.
Numbered_KeepAliveToo(sub, note) == sub.seq + 1

\* The sequence number after the message.
Numbered(sub, note) == IF note = <<>> THEN sub.seq ELSE sub.seq + 1

\* The callback sends something: it takes the first request from the queue.
Respond(s, k, note, more) ==
  LET sub == s.subs[k]
      request == Head(s.queue)
      message == [sub |-> sub.id, seq |-> sub.seq + 1, note |-> note]
      kept == IF note = <<>> THEN sub.retransmission ELSE Retained(sub.retransmission, message)
  IN [subs |-> [s.subs EXCEPT ![k] =
         [sub EXCEPT !.items = ItemsAfter(sub.items, Len(note)),
            !.seq = Numbered(sub, note), !.retransmission = kept,
            !.late = FALSE, !.keepAlive = 0, !.life = 0]],
      queue |-> Tail(s.queue),
      wire |-> Append(s.wire, [request |-> request.id, good |-> TRUE, results |-> request.results,
                               message |-> message, more |-> more]),
      again |-> more]

\* No request to answer: the subscription is late, and ends after too long a time.
Overdue(s, k) ==
  LET sub == s.subs[k]
  IN [subs |-> IF ~sub.late THEN [s.subs EXCEPT ![k] = [sub EXCEPT !.late = TRUE]]
               ELSE IF sub.life + 1 > sub.lifeTime THEN RemoveAt(s.subs, k)
               ELSE [s.subs EXCEPT ![k] = [sub EXCEPT !.life = @ + 1]],
      queue |-> s.queue, wire |-> s.wire, again |-> FALSE]

\* UA_Subscription_publishCallback, once.  The keep-alive counter goes on counting
\* while there is no channel or no request; beyond its maximum its value is the same to the code.
PublishOnce(s, k) ==
  LET sub == s.subs[k]
      samples == IF sub.enabled THEN Samples(sub.items) ELSE <<>>
      note == SubSeq(samples, 1, Least(sub.perPublish, Len(samples)))
      count == IF sub.keepAlive < sub.maxKeepAlive THEN sub.keepAlive + 1 ELSE sub.keepAlive
      counted == [subs |-> [s.subs EXCEPT ![k] = [sub EXCEPT !.keepAlive =
                              IF note = <<>> THEN count ELSE @]],
                  queue |-> s.queue, wire |-> s.wire, again |-> FALSE]
  IN IF (note = <<>> /\ count < sub.maxKeepAlive) \/ link # "up" THEN counted
     ELSE IF s.queue = <<>> THEN Overdue(counted, k)
     ELSE Respond(counted, k, note, Len(samples) > sub.perPublish)

\* The whole callback: it calls itself as long as there are more notifications,
\* each time taking a request or finding none.
Published(s, k) ==
  LET calls[n \in 0 .. Len(s.queue)] ==
        IF n = 0 THEN PublishOnce(s, k)
        ELSE LET t == calls[n - 1] IN IF t.again THEN PublishOnce(t, k) ELSE t
  IN calls[Len(s.queue)]

Present == [subs |-> subs, queue |-> queue, wire |-> wire, again |-> FALSE]

Becomes(s) == subs' = s.subs /\ queue' = s.queue /\ wire' = s.wire

\* The publishing job of a subscription.
Publish(id) ==
  /\ Exists(id) /\ ~delayed
  /\ \E s \in {Published(Present, At(id))} : Becomes(s)
  /\ UNCHANGED <<value, lastSub, delayed, link, client, history>>

(***************************************************************************)
(* Service_Publish.                                                        *)
(***************************************************************************)

\* UA_Subscription_removeRetransmissionMessage.  The first message of that number is
\* the only one: each number is used once.
Acknowledge(acked, ack) ==
  LET here == {i \in DOMAIN acked.subs : acked.subs[i].id = ack.sub}
      i == CHOOSE j \in here : TRUE
      messages == acked.subs[i].retransmission
      named == {k \in DOMAIN messages : messages[k].seq = ack.seq}
  IN IF here = {} THEN [acked EXCEPT !.results = Append(@, "gone")]
     ELSE IF named = {} THEN [acked EXCEPT !.results = Append(@, "unknown")]
     ELSE [subs |-> [acked.subs EXCEPT ![i] =
                       [@ EXCEPT !.retransmission = Selected(messages, DOMAIN messages \ named)]],
           results |-> Append(acked.results, "good")]

\* One after the other.
Acknowledged(acks) ==
  LET acked[k \in 0 .. Len(acks)] ==
        IF k = 0 THEN [subs |-> subs, results |-> <<>>] ELSE Acknowledge(acked[k - 1], acks[k])
  IN acked[Len(acks)]

LateOnes(list) == {i \in DOMAIN list : list[i].late}

\* A session without a subscription is told so.  Otherwise the acknowledgements
\* are carried out, the request is queued, and the first subscription that is
\* late, and only that one, tries to publish.
Served(id, acks) ==
  LET acked == Acknowledged(acks)
      queued == [subs |-> acked.subs, wire |-> wire, again |-> FALSE,
                 queue |-> Append(queue, [id |-> id, results |-> acked.results])]
      late == LateOnes(acked.subs)
  IN IF subs = <<>>
     THEN [Present EXCEPT !.wire = Append(@, [request |-> id, good |-> FALSE, results |-> <<>>,
             message |-> [sub |-> 0, seq |-> 0, note |-> <<>>], more |-> FALSE])]
     ELSE IF late = {} THEN queued
     ELSE Published(queued, CHOOSE i \in late : \A j \in late : i <= j)

\* Does an acknowledgement name a message the client has not processed?
Premature(acks) ==
  \E i \in DOMAIN acks : acks[i].seq \notin got[acks[i].sub] /\ Acknowledged(acks).results[i] = "good"

\* UA_Client_Subscriptions_manuallySendPublishRequest sends every pending acknowledgement.
SendPublish ==
  /\ client.state \in {"idle", "again"} /\ link = "up" /\ client.request < MaxRequest
  /\ client' = [client EXCEPT !.state = "waiting", !.request = @ + 1, !.sent = client.acks]
  /\ \E s \in {Served(client.request + 1, client.acks)} : Becomes(s)
  /\ early' = (early \/ Premature(client.acks))
  /\ UNCHANGED <<value, lastSub, delayed, link, got, seen>>

(***************************************************************************)
(* The client gets an answer (UA_Client_processPublishResponse).           *)
(***************************************************************************)

\* The acknowledgements the server has dealt with are removed.
Pending(r) ==
  Selected(client.acks, {k \in DOMAIN client.acks :
    ~ \E i \in DOMAIN r.results :
        client.sent[i] = client.acks[k] /\ r.results[i] \in {"good", "unknown"}})

\* The handlers get the values of the items the client knows, one after the other.
Handled(m) ==
  [i \in ItemIds |->
     LET told == {k \in DOMAIN m.note : m.note[k].item = i}
     IN IF told = {} \/ <<m.sub, i>> \notin client.items THEN seen[m.sub][i]
        ELSE m.note[Max(told)].value]

\* A number is acknowledged whether or not there was a notification.
Process(r) ==
  LET m == r.message
  IN IF ~r.good \/ m.sub \notin client.subs
     THEN UNCHANGED <<got, seen>> /\ client' = [client EXCEPT !.state = "idle"]
     ELSE /\ client' = [client EXCEPT
               !.state = IF r.more THEN "again" ELSE "idle",
               !.acks = <<[sub |-> m.sub, seq |-> m.seq]>> \o Pending(r)]
          /\ got' = [got EXCEPT ![m.sub] = IF m.note = <<>> THEN @ ELSE @ \cup {m.seq}]
          /\ seen' = [seen EXCEPT ![m.sub] = Handled(m)]

\* processServiceResponse: of the answers that are read at once, the last one
\* counts.  One to another request is dropped and makes the call fail.
Receive(n) ==
  /\ client.state = "waiting" /\ n \in DOMAIN wire
  /\ IF wire[n].request = client.request THEN Process(wire[n])
     ELSE UNCHANGED <<got, seen>> /\ client' = [client EXCEPT !.state = "idle"]
  /\ wire' = SubSeq(wire, n + 1, Len(wire))
  /\ UNCHANGED <<value, server, link, early>>

\* The deadline finds an answer that is not complete.  It stays to be dropped.
GiveUp ==
  /\ client.state = "waiting" /\ wire # <<>> /\ client.gaveUp < MaxGiveUp
  /\ client' = [client EXCEPT !.state = "idle", !.gaveUp = @ + 1]
  /\ UNCHANGED <<value, server, wire, link, history>>

\* Nothing came before the deadline: the client closes the connection.
Close ==
  /\ client.state = "waiting" /\ wire = <<>> /\ link = "up"
  /\ link' = "down"
  /\ client' = [client EXCEPT !.state = "errored"]
  /\ UNCHANGED <<value, server, wire, history>>

\* The session without a channel times out, with all its subscriptions and requests.
ExpireSession ==
  /\ link = "down"
  /\ link' = "none"
  /\ subs' = <<>> /\ queue' = <<>> /\ lastSub' = 0 /\ delayed' = FALSE
  /\ got' = [id \in SubIds |-> {}]
  /\ seen' = [id \in SubIds |-> [i \in ItemIds |-> NoValue]]
  /\ early' = FALSE
  /\ UNCHANGED <<value, wire, client>>

\* The client connects anew: nothing is left of its former session.
Reconnect ==
  /\ link = "none"
  /\ link' = "up"
  /\ client' = [NewClient EXCEPT !.request = client.request, !.gaveUp = client.gaveUp]
  /\ UNCHANGED <<value, server, wire, history>>

(***************************************************************************)
(* The other services.                                                     *)
(***************************************************************************)

Write ==
  /\ value < MaxValue
  /\ value' = value + 1
  /\ UNCHANGED <<server, wire, link, client, history>>

Calls == client.state = "idle" /\ link = "up" /\ wire = <<>>

\* What the client notes of its subscriptions and items.
Follows(id) == [client EXCEPT !.subs = @ \cup {id}]
Leaves(id) == [client EXCEPT !.subs = @ \ {id}]
Watches(id, i) == [client EXCEPT !.items = @ \cup {<<id, i>>}]
Ignores(id, i) == [client EXCEPT !.items = @ \ {<<id, i>>}]

\* UA_Client_Subscriptions_new, Service_CreateSubscription
CreateSubscription(on, s) ==
  /\ Calls /\ lastSub < MaxSub
  /\ lastSub' = lastSub + 1
  /\ subs' = <<NewSubscription(lastSub', on, s)>> \o subs
  /\ client' = Follows(lastSub')
  /\ UNCHANGED <<value, queue, delayed, wire, link, history>>

\* What every service that names a subscription does: its lifetime begins anew.
Touched(id, sub) == [subs EXCEPT ![At(id)] = [sub EXCEPT !.life = 0]]

ModifySubscription(id, s) ==
  /\ Calls /\ Exists(id)
  /\ subs' = Touched(id, Revised(Sub(id), s))
  /\ UNCHANGED <<value, lastSub, queue, delayed, wire, link, client, history>>

\* Only a change of the mode resets the lifetime.
SetPublishingMode(id, on) ==
  /\ Calls /\ Exists(id) /\ Sub(id).enabled # on
  /\ subs' = Touched(id, [Sub(id) EXCEPT !.enabled = on])
  /\ UNCHANGED <<value, lastSub, queue, delayed, wire, link, client, history>>

\* A new item that reports takes its first sample at once.
NewItem(i, reporting, s) ==
  LET item == [id |-> i, reporting |-> reporting, size |-> Bounded(s.size, QueueSizeLimits),
               oldest |-> s.oldest, queue |-> <<>>, last |-> NoValue]
  IN IF reporting THEN Sampled(item) ELSE item

\* UA_Client_Subscriptions_addMonitoredItem, Service_CreateMonitoredItems
CreateItem(id, reporting, s) ==
  /\ Calls /\ Exists(id) /\ Sub(id).lastItem < MaxItem[id]
  /\ LET i == Sub(id).lastItem + 1
     IN /\ subs' = Touched(id, [Sub(id) EXCEPT !.lastItem = i,
                                              !.items = <<NewItem(i, reporting, s)>> \o @])
        /\ client' = Watches(id, i)
  /\ UNCHANGED <<value, lastSub, queue, delayed, wire, link, history>>

ModifyItem(id, i, s) ==
  /\ Calls /\ Exists(id) /\ HasItem(Sub(id), i)
  /\ subs' = Touched(id, WithItem(id,
       [ItemOf(id, i) EXCEPT !.size = Bounded(s.size, QueueSizeLimits), !.oldest = s.oldest]))
  /\ UNCHANGED <<value, lastSub, queue, delayed, wire, link, client, history>>

\* The lifetime goes on: this service does not reset it.
SetMonitoringMode(id, i, reporting) ==
  /\ Calls /\ Exists(id) /\ HasItem(Sub(id), i)
  /\ subs' = [subs EXCEPT ![At(id)] =
       WithItem(id, [ItemOf(id, i) EXCEPT !.reporting = reporting])]
  /\ UNCHANGED <<value, lastSub, queue, delayed, wire, link, client, history>>

\* UA_Client_Subscriptions_removeMonitoredItem, Service_DeleteMonitoredItems
DeleteItem(id, i) ==
  /\ Calls /\ Exists(id) /\ HasItem(Sub(id), i)
  /\ LET items == Sub(id).items
     IN subs' = Touched(id, [Sub(id) EXCEPT !.items =
                               Selected(items, {k \in DOMAIN items : items[k].id # i})])
  /\ client' = Ignores(id, i)
  /\ UNCHANGED <<value, lastSub, queue, delayed, wire, link, history>>

\* The client does not use the message it gets.
Republish(id) ==
  /\ Calls /\ Exists(id)
  /\ subs' = Touched(id, Sub(id))
  /\ UNCHANGED <<value, lastSub, queue, delayed, wire, link, client, history>>

\* Mutant: the requests of a session that lost its last subscription are forgotten.
DeleteSubscription_NoAnswer(id) ==
  /\ Calls /\ id \in client.subs /\ ~ \E i \in ItemIds : <<id, i>> \in client.items
  /\ subs' = Selected(subs, DOMAIN subs \ Positions(id))
  /\ client' = Leaves(id)
  /\ UNCHANGED <<value, lastSub, queue, delayed, wire, link, history>>

\* UA_Client_Subscriptions_remove, after it has removed the items (which it cannot
\* do, and then does not go on, if the server has ended the subscription);
\* Service_DeleteSubscriptions, for an id the server may have ended already.
DeleteSubscription(id) ==
  /\ Calls /\ id \in client.subs
  /\ ~ \E i \in ItemIds : <<id, i>> \in client.items
  /\ subs' = Selected(subs, DOMAIN subs \ Positions(id))
  /\ delayed' = (delayed \/ subs' = <<>>)
  /\ client' = Leaves(id)
  /\ UNCHANGED <<value, lastSub, queue, wire, link, history>>

\* UA_Subscription_answerPublishRequestsNoSubscription, at the end of the
\* iteration: by then there may be a subscription again.
AnswerDelayed ==
  /\ delayed
  /\ delayed' = FALSE
  /\ IF subs # <<>> THEN UNCHANGED <<queue, wire>>
     ELSE /\ queue' = <<>>
          /\ wire' = wire \o [k \in DOMAIN queue |->
               [request |-> queue[k].id, good |-> FALSE, results |-> queue[k].results,
                message |-> [sub |-> 0, seq |-> 0, note |-> <<>>], more |-> FALSE]]
  /\ UNCHANGED <<value, subs, lastSub, link, client, history>>

Services ==
  \/ \E on \in Modes, s \in Settings : CreateSubscription(on, s)
  \/ \E id \in SubIds :
       \/ \E s \in Settings : ModifySubscription(id, s)
       \/ \E on \in Modes : SetPublishingMode(id, on)
       \/ \E reporting \in Modes, s \in ItemSettings : CreateItem(id, reporting, s)
       \/ Republish(id)
       \/ DeleteSubscription(id)
       \/ \E i \in ItemIds :
            \/ \E s \in ItemSettings : ModifyItem(id, i, s)
            \/ \E reporting \in Modes : SetMonitoringMode(id, i, reporting)
            \/ DeleteItem(id, i)

Next ==
  \/ Write
  \/ Services
  \/ \E id \in SubIds : Publish(id) \/ \E i \in ItemIds : Sample(id, i)
  \/ SendPublish \/ GiveUp \/ Close
  \/ \E n \in 1 .. MaxRequest : Receive(n)
  \/ ExpireSession \/ Reconnect \/ AnswerDelayed

Spec == Init /\ [][Next]_vars

\* The server loop runs its jobs and delayed callbacks.
Fairness ==
  /\ \A id \in SubIds :
       []<>(~Exists(id) \/ delayed \/ link # "up") \/ []<><<Publish(id)>>_vars
  /\ WF_vars(AnswerDelayed)
  /\ WF_vars(ExpireSession)

FairSpec == Spec /\ Fairness

(***************************************************************************)
(* Properties                                                              *)
(***************************************************************************)

Item == [id : ItemIds, reporting : BOOLEAN, size : QueueSizeLimits.min .. QueueSizeLimits.max,
         oldest : BOOLEAN, queue : Seq(0 .. MaxValue), last : NoValue .. MaxValue]
Notification == [item : ItemIds, value : 0 .. MaxValue]
Message == [sub : 0 .. MaxSub, seq : Nat, note : Seq(Notification)]
ServerSubscription ==
  [id : SubIds, enabled : BOOLEAN, maxKeepAlive : KeepAliveLimits.min .. KeepAliveLimits.max,
   lifeTime : Nat, perPublish : 1 .. MaxPerPublish, keepAlive : 0 .. KeepAliveLimits.max,
   life : Nat, seq : Nat, late : BOOLEAN, lastItem : Nat, items : Seq(Item),
   retransmission : Seq(Message)]
Results == Seq({"good", "unknown", "gone"})
Acks == Seq([sub : SubIds, seq : Nat])
PublishRequest == [id : 1 .. MaxRequest, results : Results]
PublishResponse ==
  [request : 1 .. MaxRequest, good : BOOLEAN, results : Results, message : Message, more : BOOLEAN]
Client ==
  [state : {"idle", "waiting", "again", "errored"}, subs : SUBSET SubIds,
   items : SUBSET (SubIds \X ItemIds), acks : Acks, sent : Acks,
   request : 0 .. MaxRequest, gaveUp : 0 .. MaxGiveUp]

\* The types.
TypeOK ==
  /\ value \in 0 .. MaxValue /\ lastSub \in 0 .. MaxSub
  /\ link \in {"up", "down", "none"} /\ delayed \in BOOLEAN /\ early \in BOOLEAN
  /\ subs \in Seq(ServerSubscription)
  /\ \A k \in DOMAIN subs : /\ subs[k].id <= lastSub /\ subs[k].life <= subs[k].lifeTime
                            /\ subs[k].lastItem <= MaxItem[subs[k].id]
  /\ queue \in Seq(PublishRequest) /\ wire \in Seq(PublishResponse)
  /\ client \in Client
  /\ got \in [SubIds -> SUBSET Nat] /\ seen \in [SubIds -> [ItemIds -> NoValue .. MaxValue]]

\* What the client of a subscription has not processed of it can still be asked
\* for with Republish, however answers are given up and acknowledgements
\* repeated: every number that was used is that of a message processed or
\* retained (23793-23824, 23957-23965, 24505, 26424).  The exception: a keep-alive bears the number the
\* next message will have, and its acknowledgement, sent after that message was, deletes it (early).
Recoverable ==
  early \/ MaxRetransmission # 0 \/
  \A i \in DOMAIN subs :
    1 .. subs[i].seq \subseteq
      got[subs[i].id] \cup {m.seq : m \in ToSet(subs[i].retransmission)}

\* The value a client holds is the last one sampled, or that one is still
\* to come: in the queue of the item, which may overflow, but keeps its
\* last sample, or in a message that is under way or retained (23514, 23672, 23863).
UpToDate ==
  early \/ MaxRetransmission # 0 \/
  \A i \in DOMAIN subs : \A k \in DOMAIN subs[i].items :
    LET sub == subs[i]
        item == sub.items[k]
        sent == ToSet(sub.retransmission) \cup {wire[j].message : j \in DOMAIN wire}
        newest == [item |-> item.id, value |-> item.last]
    IN IF item.queue # <<>> THEN Last(item.queue) = item.last
       ELSE \/ item.last = seen[sub.id][item.id]
            \/ \E m \in sent : m.sub = sub.id /\ m.seq \notin got[sub.id] /\ newest \in ToSet(m.note)

\* A client is told of the values of an item in the order they were sampled, and
\* of messages in the order of their numbers; the number of a keep-alive is
\* one that comes later (23673, 23853-23866, 23954-23965, 26412).
InOrder ==
  [][\A id \in SubIds :
       /\ \A n \in got'[id] \ got[id] : \A g \in got[id] : g < n
       /\ (link' = link) => \A i \in ItemIds : seen[id][i] <= seen'[id][i]]_vars

\* Every publish request is answered or ends with its session: none stays in the queue
\* for good, not even when the subscriptions it waits for are deleted (24049, 24576).
RequestsAnswered ==
  \A r \in 1 .. MaxRequest :
    (\E k \in DOMAIN queue : queue[k].id = r) ~> ~ (\E k \in DOMAIN queue : queue[k].id = r)

=============================================================================
