-------------------------- MODULE ZuthQueue_proofs --------------------------
(* The safety of the task queue for every number of tasks, faults, restarts. *)
EXTENDS ZuthQueue, TLAPS

InBatch == pc \in {"loop", "process", "delete"}

\* A process that is down has no volatile state, an expired session no watch
\* and no request.
Volatile ==
  /\ main = "down" => pc = "closed" /\ inbox = <<>> /\ ~armed /\ ~asked
  /\ session = "expired" => ~armed /\ ~asked
  /\ \A i \in DOMAIN inbox : inbox[i].kind = "expired" => session = "expired"
  /\ ~InBatch => batch = {}
  /\ current # NoTask => pc \in {"process", "delete"}
  /\ pc \in {"process", "delete"} => FirstOf(current, batch)

\* A list is alone: it precedes whatever makes the server ask again.
ListAlone ==
  /\ \A i, j \in Lists : i = j
  /\ Lists # {} => ~asked /\ pc # "gate" /\ ~InBatch
  /\ \A i \in Lists, j \in EarMessages : i < j
  /\ asked => ~InBatch

\* Tasks are numbered upwards, so what is not on a list is younger than it.
Younger ==
  /\ \A t \in queue : t < nextTask
  /\ \A i \in Lists : \A u \in queue : u \in inbox[i].ids \/ \A t \in inbox[i].ids : t < u
  /\ InBatch => \A u \in queue : u \in missed \/ u \in batch \/ \A t \in batch : t < u

\* Nothing has changed in the queue while the watch is set.
Watched ==
  armed => \A t \in queue : t \in missed \/ t \in batch \/ \E i \in Lists : t \in inbox[i].ids

IInv ==
  /\ TypeOK
  /\ Volatile
  /\ OneEar
  /\ ListAlone
  /\ ListIsFresh
  /\ Younger
  /\ Watched

-----------------------------------------------------------------------------
(* What the callbacks queue does to the inbox. *)

LEMMA MessageTypes ==
  /\ Child \in Messages /\ ListFailed \in Messages /\ Expired \in Messages
  /\ \A S \in SUBSET Tasks : Listed(S) \in Messages
BY DEF Child, ListFailed, Expired, Listed, Messages

LEMMA Pushed ==
  ASSUME inbox \in Seq(Messages), NEW m \in Messages, inbox' = Append(inbox, m)
  PROVE  /\ inbox' \in Seq(Messages)
         /\ DOMAIN inbox = 1 .. Len(inbox) /\ Len(inbox) \in Nat
         /\ DOMAIN inbox' = 1 .. Len(inbox) + 1
         /\ \A i \in DOMAIN inbox : inbox'[i] = inbox[i]
         /\ inbox'[Len(inbox) + 1] = m
OBVIOUS

LEMMA PushedTwo ==
  ASSUME inbox \in Seq(Messages), NEW m \in Messages, NEW n \in Messages,
         inbox' = Append(Append(inbox, m), n)
  PROVE  /\ inbox' \in Seq(Messages)
         /\ DOMAIN inbox = 1 .. Len(inbox) /\ Len(inbox) \in Nat
         /\ DOMAIN inbox' = 1 .. Len(inbox) + 2
         /\ \A i \in DOMAIN inbox : inbox'[i] = inbox[i]
         /\ inbox'[Len(inbox) + 1] = m /\ inbox'[Len(inbox) + 2] = n
OBVIOUS

LEMMA Popped ==
  ASSUME inbox \in Seq(Messages), inbox # <<>>, inbox' = Tail(inbox)
  PROVE  /\ inbox' \in Seq(Messages)
         /\ DOMAIN inbox = 1 .. Len(inbox) /\ Len(inbox) \in Nat \ {0}
         /\ DOMAIN inbox' = 1 .. Len(inbox) - 1
         /\ \A i \in DOMAIN inbox' : i + 1 \in DOMAIN inbox /\ inbox'[i] = inbox[i + 1]
         /\ \A i \in DOMAIN inbox : i # 1 => i - 1 \in DOMAIN inbox' /\ inbox'[i - 1] = inbox[i]
         /\ Head(inbox) = inbox[1] /\ Head(inbox) \in Messages
OBVIOUS

LEMMA EmptyInbox ==
  ASSUME inbox = <<>> PROVE inbox \in Seq(Messages) /\ DOMAIN inbox = {}
OBVIOUS

LEMMA Fired ==
  ASSUME inbox \in Seq(Messages), armed \in BOOLEAN, FireWatch
  PROVE  /\ inbox' \in Seq(Messages) /\ armed' = FALSE
         /\ armed \/ inbox' = inbox
         /\ Lists' = Lists /\ \A i \in Lists : inbox'[i] = inbox[i]
         /\ EarMessages' = EarMessages \cup (IF armed THEN {Len(inbox) + 1} ELSE {})
         /\ \A i \in DOMAIN inbox : i \in Nat /\ i <= Len(inbox)
         /\ \A i \in DOMAIN inbox' : inbox'[i].kind = "child" \/ (i \in DOMAIN inbox /\ inbox'[i] = inbox[i])
<1>1. CASE armed
  <2>1. inbox' = Append(inbox, Child) /\ Child \in Messages /\ armed' = FALSE
    BY <1>1, MessageTypes DEF FireWatch
  <2>2. Child.kind = "child"
    BY DEF Child
  <2>3. /\ DOMAIN inbox = 1 .. Len(inbox) /\ Len(inbox) \in Nat
        /\ DOMAIN inbox' = DOMAIN inbox \cup {Len(inbox) + 1}
        /\ \A i \in DOMAIN inbox : inbox'[i] = inbox[i]
        /\ inbox'[Len(inbox) + 1].kind = "child"
        /\ inbox' \in Seq(Messages)
    BY <2>1, <2>2, Pushed
  <2>4. Lists' = Lists
    BY <2>3 DEF Lists
  <2>5. EarMessages' = EarMessages \cup {Len(inbox) + 1}
    BY <2>3 DEF EarMessages
  <2>6. \A i \in Lists : inbox'[i] = inbox[i]
    BY <2>3 DEF Lists
  <2>7. \A i \in DOMAIN inbox' : inbox'[i].kind = "child" \/ (i \in DOMAIN inbox /\ inbox'[i] = inbox[i])
    BY <2>3
  <2>8. \A i \in DOMAIN inbox : i \in Nat /\ i <= Len(inbox)
    BY <2>3
  <2> QED
    BY <1>1, <2>1, <2>3, <2>4, <2>5, <2>6, <2>7, <2>8
<1>2. CASE ~armed
  BY <1>2 DEF FireWatch, Lists, EarMessages
<1> QED BY <1>1, <1>2

\* The end of the session: the list asked for fails, before or after the event.
LEMMA Told ==
  ASSUME inbox \in Seq(Messages), ExpireSession
  PROVE  /\ inbox' \in Seq(Messages)
         /\ Lists' = Lists /\ \A i \in Lists : inbox'[i] = inbox[i]
         /\ ~asked => EarMessages' = EarMessages
         /\ asked => \E k : EarMessages' = EarMessages \cup {k}
<1>1. ListFailed \in Messages /\ Expired \in Messages
  BY MessageTypes
<1>2. CASE ~asked
  <2>1. inbox' = Append(inbox, Expired)
    BY <1>2 DEF ExpireSession
  <2>2. Lists' = Lists /\ EarMessages' = EarMessages
    BY <1>1, <2>1, Pushed DEF Lists, EarMessages, Expired
  <2> QED BY <1>1, <1>2, <2>1, <2>2, Pushed DEF Lists
<1>3. CASE asked /\ inbox' = Append(Append(inbox, ListFailed), Expired)
  <2>1. Lists' = Lists /\ EarMessages' = EarMessages \cup {Len(inbox) + 1}
    BY <1>1, <1>3, PushedTwo DEF Lists, EarMessages, Expired, ListFailed
  <2> QED BY <1>1, <1>3, <2>1, PushedTwo DEF Lists
<1>4. CASE asked /\ inbox' = Append(Append(inbox, Expired), ListFailed)
  <2>1. Lists' = Lists /\ EarMessages' = EarMessages \cup {Len(inbox) + 2}
    BY <1>1, <1>4, PushedTwo DEF Lists, EarMessages, Expired, ListFailed
  <2> QED BY <1>1, <1>4, <2>1, PushedTwo DEF Lists
<1> QED BY <1>2, <1>3, <1>4 DEF ExpireSession

-----------------------------------------------------------------------------
(* Inductiveness, one step per action. *)

LEMMA InitIInv == Init => IInv
<1> SUFFICES ASSUME Init PROVE IInv
  OBVIOUS
<1>1. inbox = <<>> /\ inbox \in Seq(Messages) /\ DOMAIN inbox = {}
  BY EmptyInbox DEF Init
<1>2. nextTask \in 1 .. MaxTask + 1 /\ faults \in 0 .. MaxFault
  BY BoundsAssumption DEF Init
<1>3. starts \in 0 .. MaxStart /\ value \in Int /\ current \in Tasks \cup {NoTask}
  BY BoundsAssumption DEF Init
<1>4. TypeOK
  BY <1>1, <1>2, <1>3 DEF Init, TypeOK
<1> QED
  BY <1>1, <1>4
  DEF Init, IInv, Volatile, InBatch, NoTask, OneEar, ListAlone, ListIsFresh,
      Younger, Watched, Lists, EarMessages

USE DEF Fault, FirstOf, Receive, zkVars, serverVars, InBatch, NoTask

LEMMA StepIInv == IInv /\ [Next]_vars => IInv'
<1> SUFFICES ASSUME IInv, [Next]_vars PROVE IInv'
  OBVIOUS
<1> USE BoundsAssumption DEF IInv
<1>1. CASE CreateTask
  <2>1. inbox \in Seq(Messages) /\ armed \in BOOLEAN /\ FireWatch
    BY <1>1 DEF CreateTask, TypeOK
  <2>2. TypeOK'
    BY <1>1, <2>1, Fired DEF CreateTask, TypeOK, Tasks
  <2>3. Volatile'
    BY <1>1, <2>1, Fired DEF CreateTask, Volatile
  <2>4. OneEar'
    BY <1>1, <2>1, Fired DEF CreateTask, OneEar, OneEarAtMost, SomeEar
  <2>5. ListAlone'
    BY <1>1, <2>1, Fired DEF CreateTask, ListAlone, Lists
  <2>6. ListIsFresh'
    BY <1>1, <2>1, Fired DEF CreateTask, ListIsFresh
  <2>7. Younger'
    <3>1. \A t \in queue : t \in Nat /\ t < nextTask
      BY DEF Younger, TypeOK, Tasks
    <3>2. nextTask \in Nat /\ queue' = queue \cup {nextTask} /\ nextTask' = nextTask + 1
      BY <1>1 DEF CreateTask, TypeOK
    <3>3. \A i \in Lists' : inbox'[i].ids = inbox[i].ids /\ i \in Lists
      BY <2>1, Fired
    <3> QED
      BY <1>1, <3>1, <3>2, <3>3 DEF CreateTask, Younger, ListIsFresh
  <2>8. Watched'
    BY <1>1, <2>1, Fired DEF CreateTask, Watched
  <2> QED BY <2>2, <2>3, <2>4, <2>5, <2>6, <2>7, <2>8
<1>2. CASE AnswerList
  <2>1. inbox' = Append(inbox, Listed(queue)) /\ Listed(queue) \in Messages /\ inbox \in Seq(Messages)
    BY <1>2, MessageTypes DEF AnswerList, TypeOK
  <2>2. TypeOK'
    BY <1>2, <2>1, Pushed
    DEF AnswerList, TypeOK
  <2>3. Volatile'
    BY <1>2, <2>1, Pushed
    DEF AnswerList, TypeOK, Volatile, Listed, ListFailed, Expired
  <2>4. OneEar'
    BY <1>2, <2>1, Pushed
    DEF AnswerList, TypeOK, Volatile, OneEar, OneEarAtMost, SomeEar, EarMessages, ListAlone, Lists, Listed, ListFailed, Expired
  <2>5. ListAlone'
    BY <1>2, <2>1, Pushed
    DEF AnswerList, TypeOK, Volatile, OneEar, OneEarAtMost, SomeEar, EarMessages, ListAlone, Lists, Listed, ListFailed, Expired
  <2>6. ListIsFresh'
    BY <1>2, <2>1, Pushed
    DEF AnswerList, TypeOK, Volatile, ListAlone, Lists, EarMessages, ListIsFresh, Listed, ListFailed, Expired
  <2>7. Younger'
    BY <1>2, <2>1, Pushed
    DEF AnswerList, TypeOK, Volatile, ListAlone, Lists, EarMessages, ListIsFresh, Younger, Listed, ListFailed, Expired
  <2>8. Watched'
    BY <1>2, <2>1, Pushed
    DEF AnswerList, TypeOK, Volatile, OneEar, OneEarAtMost, SomeEar, EarMessages, ListAlone, Lists, ListIsFresh, Watched, Listed, ListFailed, Expired
  <2> QED BY <2>2, <2>3, <2>4, <2>5, <2>6, <2>7, <2>8
<1>3. CASE FailList
  <2>1. inbox' = Append(inbox, ListFailed) /\ ListFailed \in Messages /\ inbox \in Seq(Messages)
    BY <1>3, MessageTypes DEF FailList, TypeOK
  <2>0. nextTask' \in 1 .. MaxTask + 1 /\ faults' \in 0 .. MaxFault
    BY <1>3 DEF FailList, TypeOK
  <2>2. TypeOK'
    BY <1>3, <2>0, <2>1, Pushed DEF FailList, TypeOK
  <2>3. Volatile'
    BY <1>3, <2>1, Pushed
    DEF FailList, TypeOK, Volatile, Listed, ListFailed, Expired
  <2>4. OneEar'
    BY <1>3, <2>1, Pushed
    DEF FailList, TypeOK, Volatile, OneEar, OneEarAtMost, SomeEar, EarMessages, ListAlone, Lists, Listed, ListFailed, Expired
  <2>5. ListAlone'
    BY <1>3, <2>1, Pushed
    DEF FailList, TypeOK, Volatile, OneEar, OneEarAtMost, SomeEar, EarMessages, ListAlone, Lists, Listed, ListFailed, Expired
  <2>6. ListIsFresh'
    BY <1>3, <2>1, Pushed
    DEF FailList, TypeOK, Volatile, ListAlone, Lists, EarMessages, ListIsFresh, Listed, ListFailed, Expired
  <2>7. Younger'
    BY <1>3, <2>1, Pushed
    DEF FailList, TypeOK, Volatile, ListAlone, Lists, EarMessages, ListIsFresh, Younger, Listed, ListFailed, Expired
  <2>8. Watched'
    BY <1>3, <2>1, Pushed
    DEF FailList, TypeOK, Volatile, OneEar, OneEarAtMost, SomeEar, EarMessages, ListAlone, Lists, ListIsFresh, Watched, Listed, ListFailed, Expired
  <2> QED BY <2>2, <2>3, <2>4, <2>5, <2>6, <2>7, <2>8
<1>4. CASE ExpireSession
  <2>1. inbox \in Seq(Messages)
    BY DEF TypeOK
  <2>2. TypeOK'
    <3>1. faults' \in 0 .. MaxFault
      BY <1>4 DEF ExpireSession, TypeOK
    <3> QED BY <1>4, <2>1, <3>1, Told DEF ExpireSession, TypeOK
  <2>3. Volatile'
    BY <1>4 DEF ExpireSession, Volatile
  <2>4. OneEar'
    <3>1. main # "down" /\ main' = main /\ pc' = pc /\ ~armed' /\ ~asked' /\ session' = "expired"
      BY <1>4 DEF ExpireSession
    <3>2. asked => EarMessages = {} /\ pc # "gate"
      BY <3>1 DEF OneEar, OneEarAtMost
    <3>3. pc = "gate" => EarMessages' = {}
      BY <1>4, <2>1, <3>1, <3>2, Told DEF OneEar, OneEarAtMost
    <3>4. \A i, j \in EarMessages' : i = j
      BY <1>4, <2>1, <3>1, <3>2, Told DEF OneEar, OneEarAtMost
    <3> QED BY <3>1, <3>3, <3>4 DEF OneEar, OneEarAtMost
  <2>5. ListAlone'
    <3>1. UNCHANGED pc /\ ~asked' /\ Lists' = Lists
      BY <1>4, <2>1, Told DEF ExpireSession
    <3>2. asked => Lists' = {}
      BY <3>1 DEF ListAlone
    <3>3. \A i \in Lists', j \in EarMessages' : i < j
      BY <1>4, <2>1, <3>1, <3>2, Told DEF ListAlone
    <3> QED BY <3>1, <3>3 DEF ListAlone
  <2>6. ListIsFresh'
    BY <1>4, <2>1, Told DEF ExpireSession, ListIsFresh
  <2>7. Younger'
    BY <1>4, <2>1, Told DEF ExpireSession, Younger
  <2>8. Watched'
    BY <1>4 DEF ExpireSession, Watched
  <2> QED BY <2>2, <2>3, <2>4, <2>5, <2>6, <2>7, <2>8
<1>5. CASE ExpireStale
  BY <1>5
  DEF ExpireStale, TypeOK, Volatile, OneEar, OneEarAtMost, SomeEar, EarMessages, ListAlone,
      Lists, ListIsFresh, Younger, Watched
<1>6. CASE StartServer
  <2>1. /\ inbox' = <<>> /\ batch' = {} /\ current' = NoTask /\ ~armed'
        /\ pc' \in {"idle", "closed"} /\ main' # "run"
        /\ UNCHANGED <<queue, nextTask>>
    BY <1>6 DEF StartServer
  <2>2. inbox' \in Seq(Messages) /\ DOMAIN inbox' = {} /\ Lists' = {} /\ EarMessages' = {}
    BY <2>1 DEF Lists, EarMessages
  <2>3. nextTask' \in 1 .. MaxTask + 1 /\ faults' \in 0 .. MaxFault
    BY <1>6 DEF StartServer, TypeOK
  <2>6. starts' \in 0 .. MaxStart /\ value' \in Int /\ current' \in Tasks \cup {NoTask}
    BY <1>6 DEF StartServer, TypeOK
  <2>7. TypeOK'
    BY <1>6, <2>1, <2>2, <2>3, <2>6 DEF StartServer, TypeOK
  <2>4. Volatile' /\ OneEar'
    BY <1>6, <2>1, <2>2 DEF StartServer, Volatile, OneEar, OneEarAtMost, SomeEar
  <2>5. ListAlone' /\ ListIsFresh' /\ Younger' /\ Watched'
    BY <2>1, <2>2 DEF ListAlone, ListIsFresh, Younger, Watched
  <2> QED BY <2>4, <2>5, <2>7
<1>7. CASE Interrupt
  <2>1. TypeOK'
    BY <1>7 DEF Interrupt, TypeOK
  <2>2. Volatile' /\ OneEar'
    BY <1>7 DEF Interrupt, Volatile, OneEar, OneEarAtMost, SomeEar, EarMessages
  <2>3. ListAlone' /\ ListIsFresh'
    BY <1>7 DEF Interrupt, ListAlone, ListIsFresh, Lists, EarMessages, Volatile, OneEar, OneEarAtMost
  <2>4. Younger' /\ Watched'
    BY <1>7 DEF Interrupt, Younger, Watched, Lists
  <2> QED BY <2>1, <2>2, <2>3, <2>4
<1>8. CASE RunServer
  BY <1>8
  DEF RunServer, TypeOK, Volatile, OneEar, OneEarAtMost, SomeEar, EarMessages, ListAlone,
      Lists, ListIsFresh, Younger, Watched
<1>9. CASE DeleteServer
  BY <1>9
  DEF DeleteServer, TypeOK, Volatile, OneEar, OneEarAtMost, SomeEar, EarMessages, ListAlone,
      Lists, ListIsFresh, Younger, Watched
<1>10. CASE ExitServer
  <2>1. /\ inbox' = <<>> /\ batch' = {} /\ current' = NoTask /\ ~armed'
        /\ pc' \in {"idle", "closed"} /\ main' # "run"
        /\ UNCHANGED <<queue, nextTask>>
    BY <1>10 DEF ExitServer, Stop
  <2>2. inbox' \in Seq(Messages) /\ DOMAIN inbox' = {} /\ Lists' = {} /\ EarMessages' = {}
    BY <2>1 DEF Lists, EarMessages
  <2>3. nextTask' \in 1 .. MaxTask + 1 /\ faults' \in 0 .. MaxFault
    BY <1>10 DEF ExitServer, Stop, TypeOK
  <2>6. starts' \in 0 .. MaxStart /\ value' \in Int /\ current' \in Tasks \cup {NoTask}
    BY <1>10 DEF ExitServer, Stop, TypeOK
  <2>7. TypeOK'
    BY <1>10, <2>1, <2>2, <2>3, <2>6 DEF ExitServer, Stop, TypeOK
  <2>4. Volatile' /\ OneEar'
    BY <1>10, <2>1, <2>2 DEF ExitServer, Stop, Volatile, OneEar, OneEarAtMost, SomeEar
  <2>5. ListAlone' /\ ListIsFresh' /\ Younger' /\ Watched'
    BY <2>1, <2>2 DEF ListAlone, ListIsFresh, Younger, Watched
  <2> QED BY <2>4, <2>5, <2>7
<1>11. CASE ReceiveChild
  <2>1. inbox # <<>> /\ inbox' = Tail(inbox) /\ inbox \in Seq(Messages)
    BY <1>11 DEF ReceiveChild, TypeOK
  <2>2. TypeOK'
    BY <1>11, <2>1, Popped
    DEF ReceiveChild, TypeOK, Messages
  <2>3. Volatile'
    BY <1>11, <2>1, Popped
    DEF ReceiveChild, TypeOK, Volatile
  <2>4. OneEar'
    BY <1>11, <2>1, Popped
    DEF ReceiveChild, TypeOK, Volatile, OneEar, OneEarAtMost, SomeEar, EarMessages, ListAlone, Lists
  <2>5. ListAlone'
    BY <1>11, <2>1, Popped
    DEF ReceiveChild, TypeOK, Volatile, OneEar, OneEarAtMost, SomeEar, EarMessages, ListAlone, Lists
  <2>6. ListIsFresh'
    BY <1>11, <2>1, Popped
    DEF ReceiveChild, TypeOK, Volatile, ListAlone, Lists, EarMessages, ListIsFresh
  <2>7. Younger'
    BY <1>11, <2>1, Popped
    DEF ReceiveChild, TypeOK, Volatile, ListAlone, Lists, EarMessages, ListIsFresh, Younger, Messages
  <2>8. Watched'
    BY <1>11, <2>1, Popped
    DEF ReceiveChild, TypeOK, Volatile, OneEar, OneEarAtMost, SomeEar, EarMessages, ListAlone, Lists, ListIsFresh, Watched
  <2> QED BY <2>2, <2>3, <2>4, <2>5, <2>6, <2>7, <2>8
<1>12. CASE ReadServiceLevel
  <2>0. value' \in Int
    BY <1>12, StaleBytesAssumption DEF ReadServiceLevel
  <2>5. pc' \in {"gate", "idle"} /\ asked' \in BOOLEAN
    BY <1>12 DEF ReadServiceLevel, TypeOK
  <2>1. TypeOK'
    BY <1>12, <2>0, <2>5 DEF ReadServiceLevel, TypeOK
  <2>2. Volatile' /\ OneEar'
    BY <1>12 DEF ReadServiceLevel, Volatile, OneEar, OneEarAtMost, SomeEar, EarMessages
  <2>3. ListAlone' /\ ListIsFresh'
    BY <1>12 DEF ReadServiceLevel, ListAlone, ListIsFresh, Lists, EarMessages, Volatile, OneEar, OneEarAtMost
  <2>4. Younger' /\ Watched'
    BY <1>12 DEF ReadServiceLevel, Younger, Watched, Lists
  <2> QED BY <2>1, <2>2, <2>3, <2>4
<1>13. CASE ReceiveExpired
  <2>1. inbox # <<>> /\ inbox' = Tail(inbox) /\ inbox \in Seq(Messages)
    BY <1>13 DEF ReceiveExpired, TypeOK
  <2>2. TypeOK'
    BY <1>13, <2>1, Popped
    DEF ReceiveExpired, TypeOK, Messages
  <2>3. Volatile'
    BY <1>13, <2>1, Popped
    DEF ReceiveExpired, TypeOK, Volatile
  <2>4. OneEar'
    BY <1>13, <2>1, Popped
    DEF ReceiveExpired, TypeOK, Volatile, OneEar, OneEarAtMost, SomeEar, EarMessages, ListAlone, Lists
  <2>5. ListAlone'
    BY <1>13, <2>1, Popped
    DEF ReceiveExpired, TypeOK, Volatile, OneEar, OneEarAtMost, SomeEar, EarMessages, ListAlone, Lists
  <2>6. ListIsFresh'
    BY <1>13, <2>1, Popped
    DEF ReceiveExpired, TypeOK, Volatile, ListAlone, Lists, EarMessages, ListIsFresh
  <2>7. Younger'
    BY <1>13, <2>1, Popped
    DEF ReceiveExpired, TypeOK, Volatile, ListAlone, Lists, EarMessages, ListIsFresh, Younger, Messages
  <2>8. Watched'
    BY <1>13, <2>1, Popped
    DEF ReceiveExpired, TypeOK, Volatile, OneEar, OneEarAtMost, SomeEar, EarMessages, ListAlone, Lists, ListIsFresh, Watched
  <2> QED BY <2>2, <2>3, <2>4, <2>5, <2>6, <2>7, <2>8
<1>14. CASE ReceiveFailure
  <2>1. inbox # <<>> /\ inbox' = Tail(inbox) /\ inbox \in Seq(Messages)
    BY <1>14 DEF ReceiveFailure, TypeOK
  <2>2. TypeOK'
    BY <1>14, <2>1, Popped
    DEF ReceiveFailure, TypeOK, Messages
  <2>3. Volatile'
    BY <1>14, <2>1, Popped
    DEF ReceiveFailure, TypeOK, Volatile
  <2>4. OneEar'
    BY <1>14, <2>1, Popped
    DEF ReceiveFailure, TypeOK, Volatile, OneEar, OneEarAtMost, SomeEar, EarMessages, ListAlone, Lists
  <2>5. ListAlone'
    BY <1>14, <2>1, Popped
    DEF ReceiveFailure, TypeOK, Volatile, OneEar, OneEarAtMost, SomeEar, EarMessages, ListAlone, Lists
  <2>6. ListIsFresh'
    BY <1>14, <2>1, Popped
    DEF ReceiveFailure, TypeOK, Volatile, ListAlone, Lists, EarMessages, ListIsFresh
  <2>7. Younger'
    BY <1>14, <2>1, Popped
    DEF ReceiveFailure, TypeOK, Volatile, ListAlone, Lists, EarMessages, ListIsFresh, Younger, Messages
  <2>8. Watched'
    BY <1>14, <2>1, Popped
    DEF ReceiveFailure, TypeOK, Volatile, OneEar, OneEarAtMost, SomeEar, EarMessages, ListAlone, Lists, ListIsFresh, Watched
  <2> QED BY <2>2, <2>3, <2>4, <2>5, <2>6, <2>7, <2>8
<1>15. CASE ReceiveList
  <2>1. inbox # <<>> /\ inbox' = Tail(inbox) /\ inbox \in Seq(Messages)
    BY <1>15 DEF ReceiveList, TypeOK
  <2>2. TypeOK'
    BY <1>15, <2>1, Popped
    DEF ReceiveList, TypeOK, Messages
  <2>3. Volatile'
    BY <1>15, <2>1, Popped
    DEF ReceiveList, TypeOK, Volatile
  <2>4. OneEar'
    <3>1. \A i \in EarMessages' : i + 1 \in EarMessages /\ i \in Int
      BY <2>1, Popped DEF EarMessages
    <3>2. \A i \in EarMessages : i # 1 /\ i - 1 \in EarMessages'
      BY <1>15, <2>1, Popped DEF ReceiveList, EarMessages
    <3>3. SomeEar => SomeEar'
      BY <1>15, <3>2 DEF ReceiveList, SomeEar
    <3>4. OneEarAtMost => OneEarAtMost'
      BY <1>15, <3>1 DEF ReceiveList, OneEarAtMost
    <3> QED
      BY <1>15, <3>3, <3>4 DEF ReceiveList, OneEar
  <2>5. ListAlone'
    BY <1>15, <2>1, Popped
    DEF ReceiveList, TypeOK, Volatile, OneEar, OneEarAtMost, SomeEar, EarMessages, ListAlone, Lists
  <2>6. ListIsFresh'
    BY <1>15, <2>1, Popped
    DEF ReceiveList, TypeOK, Volatile, ListAlone, Lists, EarMessages, ListIsFresh
  <2>7. Younger'
    BY <1>15, <2>1, Popped
    DEF ReceiveList, TypeOK, Volatile, ListAlone, Lists, EarMessages, ListIsFresh, Younger, Messages
  <2>8. Watched'
    BY <1>15, <2>1, Popped
    DEF ReceiveList, TypeOK, Volatile, OneEar, OneEarAtMost, SomeEar, EarMessages, ListAlone, Lists, ListIsFresh, Watched
  <2> QED BY <2>2, <2>3, <2>4, <2>5, <2>6, <2>7, <2>8
<1>16. CASE GetTask
  BY <1>16
  DEF GetTask, TypeOK, Volatile, OneEar, OneEarAtMost, SomeEar, EarMessages, ListAlone,
      Lists, ListIsFresh, Younger, Watched, Tasks
<1>17. CASE GetTaskFails
  BY <1>17
  DEF GetTaskFails, TypeOK, Volatile, OneEar, OneEarAtMost, SomeEar, EarMessages, ListAlone,
      Lists, ListIsFresh, Younger, Watched, Tasks
<1>18. CASE ProcessTask
  BY <1>18
  DEF ProcessTask, TypeOK, Volatile, OneEar, OneEarAtMost, SomeEar, EarMessages, ListAlone,
      Lists, ListIsFresh, Younger, Watched
<1>19. CASE DeleteTask
  <2>1. inbox \in Seq(Messages) /\ armed \in BOOLEAN /\ current \in batch
    BY <1>19 DEF DeleteTask, TypeOK, Volatile
  <2>2. \/ queue' = queue \ {current} /\ FireWatch
        \/ UNCHANGED <<queue, armed, inbox>> /\ missed' = missed \cup {current}
    BY <1>19 DEF DeleteTask
  <2>3. /\ batch' = batch \ {current} /\ missed \subseteq missed' /\ missed' \subseteq missed \cup {current}
        /\ pc = "delete" /\ pc' = "loop" /\ current' = NoTask
        /\ UNCHANGED <<nextTask, oversize, active, session, asked, starts, main, running, value>>
    BY <1>19 DEF DeleteTask
  <2>4. faults' \in 0 .. MaxFault
    BY <1>19 DEF DeleteTask, TypeOK
  <2>5. TypeOK'
    BY <2>1, <2>2, <2>3, <2>4, Fired DEF TypeOK
  <2>6. Volatile'
    <3>1. \A i \in DOMAIN inbox' : inbox'[i].kind = "expired" => session = "expired"
      BY <2>1, <2>2, Fired DEF Volatile
    <3>2. armed' => armed
      BY <2>1, <2>2, Fired
    <3> QED
      BY <2>3, <3>1, <3>2 DEF Volatile
  <2>7. OneEar'
    BY <2>1, <2>2, <2>3, Fired DEF OneEar, OneEarAtMost, SomeEar, EarMessages
  <2>8. ListAlone'
    BY <2>1, <2>2, <2>3, Fired DEF ListAlone, Lists, EarMessages
  <2>9. ListIsFresh'
    BY <2>1, <2>2, <2>3, Fired DEF ListIsFresh, ListAlone, Lists
  <2>10. Younger'
    BY <2>1, <2>2, <2>3, Fired DEF Younger, ListAlone, Lists
  <2>11. Watched'
    BY <2>1, <2>2, <2>3, Fired DEF Watched, Lists
  <2> QED BY <2>5, <2>6, <2>7, <2>8, <2>9, <2>10, <2>11
<1>20. CASE EndBatch
  BY <1>20
  DEF EndBatch, TypeOK, Volatile, OneEar, OneEarAtMost, SomeEar, EarMessages, ListAlone,
      Lists, ListIsFresh, Younger, Watched
<1>21. CASE NullServer
  <2>1. /\ inbox' = <<>> /\ batch' = {} /\ current' = NoTask /\ ~armed'
        /\ pc' \in {"idle", "closed"} /\ main' # "run"
        /\ UNCHANGED <<queue, nextTask>>
    BY <1>21 DEF NullServer, Crash, Stop
  <2>2. inbox' \in Seq(Messages) /\ DOMAIN inbox' = {} /\ Lists' = {} /\ EarMessages' = {}
    BY <2>1 DEF Lists, EarMessages
  <2>3. nextTask' \in 1 .. MaxTask + 1 /\ faults' \in 0 .. MaxFault
    BY <1>21 DEF NullServer, Crash, Stop, TypeOK
  <2>6. starts' \in 0 .. MaxStart /\ value' \in Int /\ current' \in Tasks \cup {NoTask}
    BY <1>21 DEF NullServer, Crash, Stop, TypeOK
  <2>7. TypeOK'
    BY <1>21, <2>1, <2>2, <2>3, <2>6 DEF NullServer, Crash, Stop, TypeOK
  <2>4. Volatile' /\ OneEar'
    BY <1>21, <2>1, <2>2 DEF NullServer, Crash, Stop, Volatile, OneEar, OneEarAtMost, SomeEar
  <2>5. ListAlone' /\ ListIsFresh' /\ Younger' /\ Watched'
    BY <2>1, <2>2 DEF ListAlone, ListIsFresh, Younger, Watched
  <2> QED BY <2>4, <2>5, <2>7
<1>22. CASE Crash
  <2>1. /\ inbox' = <<>> /\ batch' = {} /\ current' = NoTask /\ ~armed'
        /\ pc' \in {"idle", "closed"} /\ main' # "run"
        /\ UNCHANGED <<queue, nextTask>>
    BY <1>22 DEF Crash, Stop
  <2>2. inbox' \in Seq(Messages) /\ DOMAIN inbox' = {} /\ Lists' = {} /\ EarMessages' = {}
    BY <2>1 DEF Lists, EarMessages
  <2>3. nextTask' \in 1 .. MaxTask + 1 /\ faults' \in 0 .. MaxFault
    BY <1>22 DEF Crash, Stop, TypeOK
  <2>6. starts' \in 0 .. MaxStart /\ value' \in Int /\ current' \in Tasks \cup {NoTask}
    BY <1>22 DEF Crash, Stop, TypeOK
  <2>7. TypeOK'
    BY <1>22, <2>1, <2>2, <2>3, <2>6 DEF Crash, Stop, TypeOK
  <2>4. Volatile' /\ OneEar'
    BY <1>22, <2>1, <2>2 DEF Crash, Stop, Volatile, OneEar, OneEarAtMost, SomeEar
  <2>5. ListAlone' /\ ListIsFresh' /\ Younger' /\ Watched'
    BY <2>1, <2>2 DEF ListAlone, ListIsFresh, Younger, Watched
  <2> QED BY <2>4, <2>5, <2>7
<1>23. CASE UNCHANGED vars
  BY <1>23
  DEF vars, TypeOK, Volatile, OneEar, OneEarAtMost, SomeEar, EarMessages, ListAlone,
      Lists, ListIsFresh, Younger, Watched
<1> QED
  BY <1>1, <1>2, <1>3, <1>4, <1>5, <1>6, <1>7, <1>8, <1>9, <1>10, <1>11, <1>12, <1>13, <1>14, <1>15, <1>16, <1>17, <1>18, <1>19, <1>20, <1>21, <1>22, <1>23 DEF Next, MainThread, CompletionThread

-----------------------------------------------------------------------------
(* The results. *)

\* The strengthened invariant of the task queue.
THEOREM Invariance == Spec => []IInv
<1> QED
  BY InitIInv, StepIInv, PTL DEF Spec

\* Type correctness of the task queue.
THEOREM TypeCorrect == Spec => []TypeOK
<1>1. IInv => TypeOK
  BY DEF IInv
<1> QED
  BY <1>1, Invariance, PTL

\* The server never loses its ear on the queue and never has two.
THEOREM EarIsKept == Spec => []OneEar
<1>1. IInv => OneEar
  BY DEF IInv
<1> QED
  BY <1>1, Invariance, PTL

\* The lists zuth_processTasks works on are never stale.
THEOREM FreshLists == Spec => []ListIsFresh
<1>1. IInv => ListIsFresh
  BY DEF IInv
<1> QED
  BY <1>1, Invariance, PTL

\* At rest the server has tried every task in the queue. With its one ear on
\* the set watch, Watched says what the queue holds.
THEOREM NothingOverlooked == Spec => []NoTaskOverlooked
<1>1. ASSUME IInv, AtRest PROVE queue \subseteq missed
  <2>1. Lists = {} /\ EarMessages = {} /\ batch = {} /\ armed
    BY <1>1 DEF IInv, AtRest, Volatile, OneEar, SomeEar, Lists, EarMessages
  <2> QED
    BY <1>1, <2>1 DEF IInv, Watched
<1>2. IInv => NoTaskOverlooked
  BY <1>1 DEF NoTaskOverlooked
<1> QED
  BY <1>2, Invariance, PTL

\* A task is handed to the UA server only when every older one still queued was
\* tried before it.
THEOREM InOrder == Spec => []NoOvertaking
<1>1. ASSUME IInv, pc = "process", NEW u \in queue, u < current PROVE u \in missed
  <2>1. current \in batch /\ (\A t \in batch : current <= t)
    BY <1>1 DEF IInv, Volatile
  <2>2. u \in missed \/ u \in batch \/ \A t \in batch : t < u
    BY <1>1 DEF IInv, Younger
  <2>3. u \in Int /\ current \in Int
    BY <1>1, <2>1 DEF IInv, TypeOK, Tasks
  <2> QED
    BY <1>1, <2>1, <2>2, <2>3
<1>2. IInv => NoOvertaking
  BY <1>1 DEF NoOvertaking
<1> QED
  BY <1>2, Invariance, PTL

-----------------------------------------------------------------------------
(* The queue implements the abstract one. *)

\* What is still on the list has not been tried since it was listed.
Untried == batch \cap missed = {}

LEMMA UntriedStep == IInv /\ Untried /\ [Next]_vars => Untried'
<1> SUFFICES ASSUME IInv, Untried, [Next]_vars PROVE Untried'
  OBVIOUS
<1>1. CASE UNCHANGED <<batch, missed>>
  BY <1>1 DEF Untried
<1>2. CASE batch' = {}
  BY <1>2 DEF Untried
<1>3. CASE ReceiveList
  BY <1>3 DEF ReceiveList, Untried
<1>4. CASE GetTaskFails
  BY <1>4 DEF GetTaskFails, Untried
<1>5. CASE DeleteTask
  BY <1>5 DEF DeleteTask, Untried
<1>6. CASE StartServer
  BY <1>6 DEF StartServer, Untried
<1>7. CASE NullServer \/ Crash \/ ExitServer
  BY <1>7 DEF NullServer, Crash, ExitServer, Stop, Untried
<1>8. CASE CreateTask \/ AnswerList \/ FailList \/ ExpireSession \/ ExpireStale
  BY <1>8, <1>1 DEF CreateTask, AnswerList, FailList, ExpireSession, ExpireStale
<1>9. CASE Interrupt \/ RunServer \/ DeleteServer \/ UNCHANGED vars
  BY <1>9, <1>1 DEF Interrupt, RunServer, DeleteServer, vars
<1>10. CASE ReceiveChild \/ ReadServiceLevel \/ ReceiveExpired \/ ReceiveFailure
            \/ GetTask \/ ProcessTask \/ EndBatch
  BY <1>10, <1>1
  DEF ReceiveChild, ReadServiceLevel, ReceiveExpired, ReceiveFailure, GetTask, ProcessTask,
      EndBatch
<1> QED
  BY <1>3, <1>4, <1>5, <1>6, <1>7, <1>8, <1>9, <1>10 DEF Next, MainThread, CompletionThread

LEMMA Refines == IInv /\ Untried /\ [Next]_vars => [Abstract!QueueNext]_(Abstract!queueVars)
<1> SUFFICES ASSUME IInv, Untried, [Next]_vars
             PROVE  Abstract!QueueNext \/ UNCHANGED Abstract!queueVars
  OBVIOUS
<1> USE DEF Abstract!NoTask, Abstract!queueVars
<1>1. CASE CreateTask
  BY <1>1 DEF CreateTask, Abstract!QueueNext, Abstract!Create
<1>2. CASE ReceiveList
  <2>1. missed' = missed \ (missed \cap batch') /\ missed \cap batch' \in SUBSET missed
    BY <1>2 DEF ReceiveList
  <2>2. Abstract!Relist
    BY <1>2, <2>1 DEF ReceiveList, Abstract!Relist
  <2> QED BY <2>2 DEF Abstract!QueueNext
<1>3. ASSUME pc = "loop", NEW t \in batch, FirstOf(t, batch)
      PROVE  t \in queue \ missed /\ Abstract!OldestFirst(t)
  <2>1. t \in queue /\ t \notin missed
    BY <1>3 DEF IInv, ListIsFresh, Untried
  <2>2. \A u \in queue : u < t => u \in missed
    BY <1>3 DEF IInv, Younger, TypeOK, Tasks
  <2> QED BY <2>1, <2>2 DEF Abstract!OldestFirst
<1>4. CASE GetTask
  BY <1>3, <1>4 DEF GetTask, Abstract!QueueNext, Abstract!Take
<1>5. CASE GetTaskFails
  <2>1. PICK t \in batch : FirstOf(t, batch) /\ missed' = missed \cup {t}
    BY <1>5 DEF GetTaskFails
  <2>2. pc = "loop" /\ UNCHANGED <<queue, nextTask, pc, current>>
    BY <1>5 DEF GetTaskFails
  <2>3. Abstract!Miss
    BY <1>3, <2>1, <2>2 DEF Abstract!Miss
  <2> QED BY <2>3 DEF Abstract!QueueNext
<1>6. CASE ProcessTask
  BY <1>6 DEF ProcessTask, Abstract!QueueNext, Abstract!Handle
<1>7. CASE DeleteTask
  BY <1>7 DEF DeleteTask, Abstract!QueueNext, Abstract!Finish
<1>8. CASE NullServer \/ Crash \/ ExitServer
  BY <1>8 DEF NullServer, Crash, ExitServer, Stop, Abstract!QueueNext, Abstract!Abort
<1>9. CASE StartServer
  <2>1. pc = "closed" /\ current = NoTask
    BY <1>9 DEF StartServer, IInv, Volatile
  <2> QED BY <1>9, <2>1 DEF StartServer
<1>10. CASE AnswerList \/ FailList \/ ExpireSession \/ ExpireStale \/ UNCHANGED vars
  BY <1>10 DEF AnswerList, FailList, ExpireSession, ExpireStale, vars
<1>11. CASE Interrupt \/ RunServer \/ DeleteServer
  BY <1>11 DEF Interrupt, RunServer, DeleteServer
<1>12. CASE ReceiveChild \/ ReadServiceLevel \/ ReceiveExpired \/ ReceiveFailure \/ EndBatch
  BY <1>12 DEF ReceiveChild, ReadServiceLevel, ReceiveExpired, ReceiveFailure, EndBatch
<1> QED
  BY <1>1, <1>2, <1>4, <1>5, <1>6, <1>7, <1>8, <1>9, <1>10, <1>11, <1>12
  DEF Next, MainThread, CompletionThread

\* zuthServer's queue is a TaskQueue: one task at a time, oldest first, and a
\* task leaves the queue only when it was worked on.
THEOREM Implementation == Spec => Implements
<1>1. Init => Untried
  BY DEF Init, Untried
<1>2. Init => Abstract!QueueInit
  BY DEF Init, Abstract!QueueInit, Abstract!NoTask
<1> QED
  BY <1>1, <1>2, Invariance, UntriedStep, Refines, PTL DEF Spec, Implements, Abstract!QueueSpec

=============================================================================
