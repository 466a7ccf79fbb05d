------------------------- MODULE ServerStart_proofs -------------------------
(* The set-up of the znodes, for every number of servers, starts and crashes. *)
EXTENDS ServerStart, SequenceTheorems, TLAPS

\* A session belongs to one process.
OwnSession ==
  /\ \A p \in Processes : pc[p] = "off" <=> session[p] = NoSession
  /\ \A p \in Processes : pc[p] = "off" => pending[p] = <<>>
  /\ \A p, q \in Processes : session[p] = session[q] /\ session[p] # NoSession => p = q

\* A process that did not give up has what the steps so far were to make.
Prepared(p) ==
  running[p] /\ Alive(p) =>
    /\ pc[p] \in {"active", "run"} => "Queue" \in tree /\ EndpointOf[p] \in tasks
    /\ pc[p] = "run" => active[EndpointOf[p]] = session[p]

\* What a process has asked for is there or will be made in the order of the
\* calls, each after its parent.
InOrder(p) ==
  LET asked == pending[p]
  IN /\ pc[p] \in {"check", "Servers", "Group", "active", "run"} => asked = <<>>
     /\ pc[p] \in {"Group", "Active", "Queue"} => "Servers" \in tree
     /\ pc[p] = "Active" =>
          \/ asked = <<"Group">>
          \/ asked = <<>> /\ "Group" \in tree
     /\ pc[p] = "Queue" =>
          \/ asked = <<"Group", "Active">>
          \/ asked = <<"Active">> /\ "Group" \in tree
          \/ asked = <<>> /\ "Active" \in tree
     /\ pc[p] = "tasks" =>
          \/ asked = <<"Group", "Active", "Queue">> /\ "Servers" \in tree
          \/ asked = <<"Active", "Queue">> /\ "Group" \in tree
          \/ asked = <<"Queue">> /\ "Active" \in tree
          \/ asked = <<>> /\ "Queue" \in tree

\* The paths that are there have their parents, and Active before Queue.
Paths ==
  /\ "root" \in tree
  /\ "Active" \in tree => "Group" \in tree
  /\ "Queue" \in tree => "Active" \in tree

Ordered ==
  losses = 0 =>
    /\ Paths
    /\ \A p \in Processes : Alive(p) => InOrder(p) /\ (pc[p] = "active" => "Queue" \in tree)

IInv ==
  /\ TypeOK
  /\ OwnSession
  /\ \A p \in Processes : Prepared(p)
  /\ Ordered
  /\ ParentsFirst

-----------------------------------------------------------------------------
LEMMA PathFacts ==
  /\ Path = {"Servers", "Group", "Active", "Queue"}
  /\ Parent["Servers"] = "root" /\ Parent["Group"] = "Servers"
  /\ Parent["Active"] = "Group" /\ Parent["Queue"] = "Group"
  /\ DOMAIN Follows = {"Group", "Active", "Queue"}
  /\ Follows["Group"] = "Active" /\ Follows["Active"] = "Queue" /\ Follows["Queue"] = "tasks"
BY DEF Path, Parent, Follows

LEMMA WithFacts ==
  ASSUME TypeOK, NEW path \in Path
  PROVE  /\ tree \subseteq With(path)
         /\ With(path) \subseteq Path \cup {"root"}
         /\ \A x \in With(path) : x = path \/ x \in tree
         /\ Parent[path] \in tree => path \in With(path)
         /\ Parent[path] \notin tree => With(path) = tree
BY DEF With, TypeOK

LEMMA Types ==
  ASSUME TypeOK
  PROVE  /\ sessions \in Nat /\ sessions <= MaxSession /\ losses \in Nat /\ losses <= MaxLoss
         /\ session \in [Processes -> 0 .. sessions] /\ active \in [Endpoints -> 0 .. sessions]
         /\ \A p \in Processes : session[p] \in Nat /\ session[p] <= sessions
         /\ \A s \in expired : s \in Nat /\ 1 <= s /\ s <= sessions
         /\ 0 \in 0 .. sessions
<1>1. sessions \in 0 .. MaxSession /\ losses \in 0 .. MaxLoss /\ expired \subseteq 1 .. sessions
  BY DEF TypeOK
<1>2. sessions \in Nat /\ sessions <= MaxSession /\ losses \in Nat /\ losses <= MaxLoss
  BY <1>1, BoundAssumption
<1>3. session \in [Processes -> 0 .. sessions] /\ active \in [Endpoints -> 0 .. sessions]
  BY DEF TypeOK
<1>4. \A p \in Processes : session[p] \in 0 .. sessions
  BY <1>3
<1>5. \A n \in 0 .. sessions : n \in Nat /\ n <= sessions
  BY <1>2
<1>6. \A p \in Processes : session[p] \in Nat /\ session[p] <= sessions
  BY <1>4, <1>5
<1> QED BY <1>1, <1>2, <1>3, <1>6

LEMMA InitIInv == Init => IInv
<1> SUFFICES ASSUME Init PROVE IInv
  OBVIOUS
<1>1. TypeOK
  <2>1. active \in [Endpoints -> 0 .. sessions] /\ session \in [Processes -> 0 .. sessions]
    BY DEF Init, NoSession
  <2>2. sessions \in 0 .. MaxSession /\ losses \in 0 .. MaxLoss
    BY BoundAssumption DEF Init
  <2> QED BY <2>1, <2>2 DEF Init, TypeOK
<1>2. OwnSession
  BY DEF Init, OwnSession, NoSession
<1>3. \A p \in Processes : Prepared(p)
  BY DEF Init, Prepared
<1>4. Ordered
  BY DEF Init, Ordered, Paths, Alive
<1>5. ParentsFirst
  BY DEF Init, ParentsFirst
<1> QED BY <1>1, <1>2, <1>3, <1>4, <1>5 DEF IInv

\* A step that leaves a process where it is does not disturb it, if the znodes
\* it counts on stay.
LEMMA Undisturbed ==
  ASSUME IInv, NEW q \in Processes,
         pc'[q] = pc[q], session'[q] = session[q], pending'[q] = pending[q],
         running'[q] => running[q], Alive(q)' => Alive(q),
         tree \subseteq tree', tasks \subseteq tasks',
         Alive(q)' /\ active[EndpointOf[q]] = session[q] => active'[EndpointOf[q]] = session[q]
  PROVE  /\ Prepared(q)'
         /\ losses = 0 /\ Alive(q)' => InOrder(q)' /\ (pc'[q] = "active" => "Queue" \in tree')
<1>1. Prepared(q)'
  BY DEF IInv, Prepared
<1>2. ASSUME losses = 0, Alive(q)' PROVE InOrder(q)' /\ (pc'[q] = "active" => "Queue" \in tree')
  <2>1. InOrder(q) /\ (pc[q] = "active" => "Queue" \in tree)
    BY <1>2 DEF IInv, Ordered
  <2> QED BY <2>1 DEF InOrder
<1> QED BY <1>1, <1>2

LEMMA StartStep ==
  ASSUME IInv, NEW p \in Processes, Start(p)
  PROVE  IInv'
<1>1. /\ pc[p] = "off" /\ pc' = [pc EXCEPT ![p] = "check"]
      /\ sessions < MaxSession /\ sessions' = sessions + 1
      /\ session' = [session EXCEPT ![p] = sessions + 1]
      /\ running' = [running EXCEPT ![p] = TRUE] /\ refused' = [refused EXCEPT ![p] = "no"]
      /\ UNCHANGED <<tree, tasks, active, expired, pending, losses>>
  BY DEF Start, Goto, zookeeper
<1>2. TypeOK
  BY DEF IInv
<1>3. /\ sessions \in Nat /\ sessions' \in 0 .. MaxSession
      /\ 0 .. sessions \subseteq 0 .. sessions' /\ sessions + 1 \in 0 .. sessions'
  <2>1. sessions \in Nat /\ MaxSession \in Nat
    BY <1>2, Types, BoundAssumption
  <2> QED BY <1>1, <2>1
<1>4. session' \in [Processes -> 0 .. sessions'] /\ active' \in [Endpoints -> 0 .. sessions']
  <2>1. session \in [Processes -> 0 .. sessions'] /\ active \in [Endpoints -> 0 .. sessions']
    BY <1>2, <1>3, Types
  <2> QED BY <1>1, <1>3, <2>1
<1>5. expired' \subseteq 1 .. sessions'
  BY <1>1, <1>2, <1>3, Types
<1>6. pc' \in [Processes -> {"off", "check", "tasks", "active", "run"} \cup Path]
  BY <1>1, <1>2 DEF TypeOK
<1>7. TypeOK'
  BY <1>1, <1>2, <1>3, <1>4, <1>5, <1>6 DEF TypeOK
<1>8. \A q \in Processes : q # p =>
        /\ pc'[q] = pc[q] /\ session'[q] = session[q] /\ running'[q] = running[q]
        /\ refused'[q] = refused[q] /\ (Alive(q)' <=> Alive(q))
        /\ session[q] \in Nat /\ session[q] <= sessions
  <2>1. \A q \in Processes : q # p =>
          /\ pc'[q] = pc[q] /\ session'[q] = session[q] /\ running'[q] = running[q]
          /\ refused'[q] = refused[q]
    BY <1>1, <1>2 DEF TypeOK
  <2> QED BY <1>1, <1>2, <2>1, Types DEF Alive
<1>9. pc'[p] = "check" /\ session'[p] = sessions + 1 /\ refused'[p] = "no"
  BY <1>1, <1>2 DEF TypeOK
<1>10. OwnSession'
  <2>1. \A q \in Processes : q # p => session'[q] # session'[p]
    BY <1>3, <1>8, <1>9
  <2>2. session'[p] # NoSession /\ \A q \in Processes : pc'[q] = "off" => pc[q] = "off" /\ q # p
    BY <1>3, <1>8, <1>9 DEF NoSession
  <2>3. \A q \in Processes : pc'[q] = "off" <=> session'[q] = NoSession
    BY <1>8, <1>9, <2>2 DEF IInv, OwnSession
  <2>4. \A q, r \in Processes : session'[q] = session'[r] /\ session'[q] # NoSession => q = r
    BY <1>8, <2>1 DEF IInv, OwnSession
  <2> QED BY <1>1, <2>2, <2>3, <2>4 DEF IInv, OwnSession
<1>11. \A q \in Processes : q # p => Prepared(q)' /\ (losses = 0 /\ Alive(q)' => InOrder(q)')
                              /\ (losses = 0 /\ Alive(q)' /\ pc'[q] = "active" => "Queue" \in tree')
  BY <1>1, <1>8, Undisturbed
<1>12. Prepared(p)' /\ InOrder(p)'
  <2>1. pending'[p] = <<>>
    BY <1>1 DEF IInv, OwnSession
  <2> QED BY <1>9, <2>1 DEF Prepared, InOrder
<1>13. Ordered'
  BY <1>1, <1>9, <1>11, <1>12 DEF IInv, Ordered, Paths
<1>14. ParentsFirst'
  BY <1>1, <1>8, <1>9 DEF IInv, ParentsFirst
<1> QED BY <1>7, <1>10, <1>11, <1>12, <1>13, <1>14 DEF IInv

\* The process ends, by itself or not.
LEMMA EndStep ==
  ASSUME IInv, NEW p \in Processes, Exit(p) \/ Crash(p)
  PROVE  IInv'
<1>1. /\ pc' = [pc EXCEPT ![p] = "off"] /\ running' = [running EXCEPT ![p] = FALSE]
      /\ session' = [session EXCEPT ![p] = NoSession] /\ pending' = [pending EXCEPT ![p] = <<>>]
      /\ UNCHANGED <<tree, tasks, refused, sessions, losses>>
  BY DEF Exit, Crash, Ends, zookeeper
<1>2. TypeOK
  BY DEF IInv
<1>3. \/ UNCHANGED <<expired, active>>
      \/ Alive(p) /\ Gone(session[p])
  BY DEF Exit, Crash, zookeeper
<1>4. active' \in [Endpoints -> 0 .. sessions] /\ expired' \subseteq 1 .. sessions
  <2>1. CASE UNCHANGED <<expired, active>>
    BY <1>2, <2>1 DEF TypeOK
  <2>2. CASE Alive(p) /\ Gone(session[p])
    <3>1. session[p] \in 1 .. sessions
      BY <1>2, <2>2, Types DEF Alive, NoSession
    <3>2. expired' \subseteq 1 .. sessions
      BY <1>2, <2>2, <3>1 DEF Gone, TypeOK
    <3>3. active' \in [Endpoints -> 0 .. sessions]
      BY <1>2, <2>2, Types DEF Gone, NoSession
    <3> QED BY <3>2, <3>3
  <2> QED BY <1>3, <2>1, <2>2
<1>5. session' \in [Processes -> 0 .. sessions']
  BY <1>1, <1>2, Types DEF NoSession
<1>6. TypeOK'
  <2>1. pc' \in [Processes -> {"off", "check", "tasks", "active", "run"} \cup Path]
    BY <1>1, <1>2 DEF TypeOK
  <2>2. running' \in [Processes -> BOOLEAN]
    BY <1>1, <1>2 DEF TypeOK
  <2>3. <<>> \in Seq(Path)
    OBVIOUS
  <2>4. pending' \in [Processes -> Seq(Path)]
    BY <1>1, <1>2, <2>3 DEF TypeOK
  <2> QED BY <1>1, <1>2, <1>4, <1>5, <2>1, <2>2, <2>4 DEF TypeOK
<1>7. ASSUME NEW q \in Processes, q # p
      PROVE  /\ pc'[q] = pc[q] /\ session'[q] = session[q] /\ running'[q] = running[q]
             /\ pending'[q] = pending[q]
             /\ Alive(q)' => Alive(q)
             /\ Alive(q)' /\ active[EndpointOf[q]] = session[q] => active'[EndpointOf[q]] = session[q]
  <2>1. /\ pc'[q] = pc[q] /\ session'[q] = session[q] /\ running'[q] = running[q]
        /\ pending'[q] = pending[q]
    BY <1>1, <1>2, <1>7 DEF TypeOK
  <2>2. Alive(q)' => Alive(q)
    BY <1>3, <2>1 DEF Alive, Gone
  <2>3. Alive(q)' => session[q] # session[p] \/ ~Alive(p)
    BY <1>7, <2>1 DEF IInv, OwnSession, Alive
  <2> QED BY <1>3, <2>1, <2>2, <2>3, EndpointAssumption DEF Gone
<1>8. pc'[p] = "off" /\ session'[p] = NoSession /\ pending'[p] = <<>> /\ ~running'[p]
  BY <1>1, <1>2 DEF TypeOK
<1>9. OwnSession'
  <2>1. \A q \in Processes : pc'[q] = "off" <=> session'[q] = NoSession
    BY <1>7, <1>8 DEF IInv, OwnSession
  <2>2. ASSUME NEW q \in Processes, pc'[q] = "off" PROVE pending'[q] = <<>>
    <3>1. CASE q = p
      BY <3>1, <1>8
    <3>2. CASE q # p
      BY <2>2, <3>2, <1>7 DEF IInv, OwnSession
    <3> QED BY <3>1, <3>2
  <2>3. \A q, r \in Processes : session'[q] = session'[r] /\ session'[q] # NoSession => q = r
    BY <1>7, <1>8 DEF IInv, OwnSession
  <2> QED BY <2>1, <2>2, <2>3 DEF OwnSession
<1>10. \A q \in Processes : Prepared(q)' /\ (losses = 0 /\ Alive(q)' => InOrder(q)')
                           /\ (losses = 0 /\ Alive(q)' /\ pc'[q] = "active" => "Queue" \in tree')
  <2>1. ~Alive(p)' /\ Prepared(p)'
    BY <1>8 DEF Alive, Prepared
  <2>2. \A q \in Processes : q # p =>
          Prepared(q)' /\ (losses = 0 /\ Alive(q)' => InOrder(q)' /\ (pc'[q] = "active" => "Queue" \in tree'))
    BY <1>1, <1>7, Undisturbed
  <2> QED BY <2>1, <2>2
<1>11. Ordered'
  BY <1>1, <1>10 DEF IInv, Ordered, Paths
<1>12. ParentsFirst'
  BY <1>1 DEF IInv, ParentsFirst
<1> QED BY <1>6, <1>9, <1>10, <1>11, <1>12 DEF IInv

LEMMA ExpireStep ==
  ASSUME IInv, NEW s \in 1 .. sessions, Expire(s)
  PROVE  IInv'
<1>1. /\ expired' = expired \cup {s}
      /\ active' = [e \in Endpoints |-> IF active[e] = s THEN NoSession ELSE active[e]]
      /\ pending' = [p \in Processes |-> IF session[p] = s THEN <<>> ELSE pending[p]]
      /\ UNCHANGED <<tree, tasks, pc, session, running, refused, sessions, losses>>
  BY DEF Expire, Gone
<1>2. TypeOK
  BY DEF IInv
<1>3. active' \in [Endpoints -> 0 .. sessions] /\ expired' \subseteq 1 .. sessions
  <2>1. active' \in [Endpoints -> 0 .. sessions]
    BY <1>1, <1>2, Types DEF NoSession
  <2>2. expired' \subseteq 1 .. sessions
    BY <1>1, <1>2 DEF TypeOK
  <2> QED BY <2>1, <2>2
<1>4. pending' \in [Processes -> Seq(Path)]
  <2>1. <<>> \in Seq(Path)
    OBVIOUS
  <2>2. \A p \in Processes : pending[p] \in Seq(Path)
    BY <1>2 DEF TypeOK
  <2> QED BY <1>1, <2>1, <2>2
<1>5. TypeOK'
  BY <1>1, <1>2, <1>3, <1>4 DEF TypeOK
<1>6. OwnSession'
  BY <1>1 DEF IInv, OwnSession
<1>7. ASSUME NEW q \in Processes
      PROVE  Prepared(q)' /\ (losses = 0 /\ Alive(q)' => InOrder(q)' /\ (pc'[q] = "active" => "Queue" \in tree'))
  <2>1. CASE Alive(q)'
    <3>1. session[q] # s /\ Alive(q)
      BY <1>1, <2>1 DEF Alive
    <3>2. pending'[q] = pending[q]
      BY <1>1, <3>1
    <3>3. active[EndpointOf[q]] = session[q] => active'[EndpointOf[q]] = session[q]
      BY <1>1, <3>1, EndpointAssumption
    <3> QED BY <1>1, <3>1, <3>2, <3>3, Undisturbed
  <2>2. CASE ~Alive(q)'
    BY <2>2 DEF Prepared
  <2> QED BY <2>1, <2>2
<1>8. Ordered'
  BY <1>1, <1>7 DEF IInv, Ordered, Paths
<1>9. ParentsFirst'
  BY <1>1 DEF IInv, ParentsFirst
<1> QED BY <1>5, <1>6, <1>7, <1>8, <1>9 DEF IInv

LEMMA InterruptStep ==
  ASSUME IInv, NEW p \in Processes, Interrupt(p)
  PROVE  IInv'
<1>1. /\ running' = [running EXCEPT ![p] = FALSE]
      /\ UNCHANGED <<zookeeper, pc, session, pending, refused, sessions, losses>>
  BY DEF Interrupt
<1>2. TypeOK'
  BY <1>1 DEF IInv, TypeOK, zookeeper
<1>3. ASSUME NEW q \in Processes
      PROVE  Prepared(q)' /\ (losses = 0 /\ Alive(q)' => InOrder(q)' /\ (pc'[q] = "active" => "Queue" \in tree'))
  <2>1. running'[q] => running[q]
    BY <1>1 DEF IInv, TypeOK
  <2> QED BY <1>1, <2>1, Undisturbed DEF zookeeper, Alive
<1>4. OwnSession' /\ Ordered' /\ ParentsFirst'
  BY <1>1, <1>3 DEF IInv, OwnSession, Ordered, Paths, ParentsFirst, zookeeper
<1> QED BY <1>2, <1>3, <1>4 DEF IInv

\* A step of one process: what has to be shown for it, and for its znodes.
LEMMA OwnStep ==
  ASSUME IInv, TypeOK', NEW p \in Processes,
         UNCHANGED <<session, expired>>, losses' = 0 => losses = 0,
         pc[p] # "off", pc'[p] # "off",
         \A q \in Processes : q # p =>
           /\ pc'[q] = pc[q] /\ pending'[q] = pending[q]
           /\ running'[q] = running[q] /\ refused'[q] = refused[q],
         tree \subseteq tree', tasks \subseteq tasks',
         \A e \in Endpoints : active[e] # NoSession => active'[e] = active[e],
         Prepared(p)',
         losses' = 0 => Paths' /\ refused'[p] # "no parent",
         losses' = 0 /\ Alive(p)' => InOrder(p)' /\ (pc'[p] = "active" => "Queue" \in tree')
  PROVE  IInv'
<1>1. \A q \in Processes : Alive(q)' <=> Alive(q)
  BY DEF Alive
<1>2. OwnSession'
  BY DEF IInv, OwnSession
<1>3. ASSUME NEW q \in Processes, q # p
      PROVE  /\ Prepared(q)'
             /\ losses = 0 /\ Alive(q)' => InOrder(q)' /\ (pc'[q] = "active" => "Queue" \in tree')
  <2>1. Alive(q)' /\ active[EndpointOf[q]] = session[q] => active'[EndpointOf[q]] = session[q]
    BY <1>1, EndpointAssumption DEF Alive
  <2> QED BY <1>1, <1>3, <2>1, Undisturbed
<1>4. Ordered'
  BY <1>3 DEF Ordered
<1>5. ParentsFirst'
  BY DEF IInv, ParentsFirst
<1> QED BY <1>2, <1>3, <1>4, <1>5 DEF IInv

\* What a process that has not lost its connection knows.
LEMMA Knows ==
  ASSUME IInv, NEW p \in Processes, losses = 0
  PROVE  Paths /\ (Alive(p) => InOrder(p) /\ (pc[p] = "active" => "Queue" \in tree))
BY DEF IInv, Ordered

LEMMA AtOnce ==
  ASSUME IInv, NEW p \in Processes, Answered(p) \/ Fails(p)
  PROVE  /\ losses' \in 0 .. MaxLoss
         /\ losses' = 0 => losses = 0
         /\ pending' \in [Processes -> Seq(Path)]
         /\ \A q \in Processes : q # p => pending'[q] = pending[q]
         /\ losses' = 0 => UNCHANGED pending /\ (Alive(p) => pending[p] = <<>> /\ Answered(p))
         /\ Alive(p) /\ Fails(p) => losses' # 0
<1>1. TypeOK /\ losses \in Nat /\ MaxLoss \in Nat
  BY Types, BoundAssumption DEF IInv
<1>2. <<>> \in Seq(Path)
  OBVIOUS
<1>3. pending \in [Processes -> Seq(Path)] /\ losses \in 0 .. MaxLoss
  BY <1>1 DEF TypeOK
<1>4. CASE Answered(p)
  BY <1>1, <1>3, <1>4 DEF Answered, Fails
<1>5. CASE ~Alive(p) /\ UNCHANGED <<pending, losses>>
  BY <1>3, <1>5 DEF Answered
<1>6. CASE losses < MaxLoss /\ losses' = losses + 1 /\ pending' = [pending EXCEPT ![p] = <<>>]
  <2>1. losses' \in 0 .. MaxLoss /\ losses' # 0
    BY <1>1, <1>6
  <2>2. pending' \in [Processes -> Seq(Path)] /\ \A q \in Processes : q # p => pending'[q] = pending[q]
    BY <1>2, <1>3, <1>6
  <2> QED BY <2>1, <2>2
<1> QED BY <1>4, <1>5, <1>6 DEF Fails

LEMMA CheckQueueStep ==
  ASSUME IInv, NEW p \in Processes, CheckQueue(p)
  PROVE  IInv'
<1>1. pc[p] = "check" /\ UNCHANGED <<tree, tasks, active, expired, session, running, refused, sessions>>
  BY DEF CheckQueue, Goto, zookeeper
<1>2. \/ Answered(p) /\ "Queue" \in tree /\ pc' = [pc EXCEPT ![p] = "tasks"]
      \/ Answered(p) /\ "Queue" \notin tree /\ pc' = [pc EXCEPT ![p] = "Servers"]
      \/ Fails(p) /\ pc' = [pc EXCEPT ![p] = "Servers"]
  BY DEF CheckQueue, Goto
<1>3. TypeOK
  BY DEF IInv
<1>4. /\ pc' \in [Processes -> {"off", "check", "tasks", "active", "run"} \cup Path]
      /\ \A q \in Processes : q # p => pc'[q] = pc[q]
      /\ pc'[p] = "tasks" \/ pc'[p] = "Servers"
  BY <1>2, <1>3, PathFacts DEF TypeOK
<1>5. TypeOK'
  BY <1>1, <1>2, <1>3, <1>4, AtOnce DEF TypeOK
<1>6. Prepared(p)'
  BY <1>4 DEF Prepared
<1>7. losses' = 0 => Paths' /\ refused'[p] # "no parent"
  BY <1>1, <1>2, Knows, AtOnce DEF Paths, IInv, ParentsFirst
<1>8. ASSUME losses' = 0, Alive(p)' PROVE InOrder(p)'
  <2>1. pending'[p] = <<>> /\ Answered(p) /\ ~Fails(p)
    BY <1>1, <1>2, <1>8, AtOnce DEF Alive
  <2>2. pc'[p] = "tasks" => "Queue" \in tree'
    BY <1>1, <1>2, <1>3, <2>1 DEF TypeOK
  <2> QED BY <1>4, <2>1, <2>2 DEF InOrder
<1> QED BY <1>1, <1>2, <1>4, <1>5, <1>6, <1>7, <1>8, AtOnce, OwnStep

LEMMA CreateServersStep ==
  ASSUME IInv, NEW p \in Processes, CreateServers(p)
  PROVE  IInv'
<1>1. /\ pc[p] = "Servers" /\ pc' = [pc EXCEPT ![p] = "Group"]
      /\ UNCHANGED <<tasks, active, expired, session, running, refused, sessions>>
  BY DEF CreateServers, Goto
<1>2. \/ Answered(p) /\ tree' = With("Servers")
      \/ Fails(p) /\ tree' = tree
      \/ Alive(p) /\ Fails(p) /\ tree' = With("Servers")
  BY DEF CreateServers
<1>3. TypeOK /\ "Servers" \in Path
  BY PathFacts DEF IInv
<1>4. /\ pc' \in [Processes -> {"off", "check", "tasks", "active", "run"} \cup Path]
      /\ \A q \in Processes : q # p => pc'[q] = pc[q]
      /\ pc'[p] = "Group"
  BY <1>1, <1>3, PathFacts DEF TypeOK
<1>5. /\ tree \subseteq tree' /\ tree' \subseteq Path \cup {"root"}
      /\ \A x \in tree' : x = "Servers" \/ x \in tree
  BY <1>2, <1>3, WithFacts DEF TypeOK
<1>6. TypeOK'
  BY <1>1, <1>2, <1>3, <1>4, <1>5, AtOnce DEF TypeOK
<1>7. Prepared(p)'
  BY <1>4 DEF Prepared
<1>8. losses' = 0 => Paths' /\ refused'[p] # "no parent"
  BY <1>1, <1>2, <1>5, Knows, AtOnce DEF Paths, IInv, ParentsFirst
<1>9. ASSUME losses' = 0, Alive(p)' PROVE InOrder(p)'
  <2>1. pending'[p] = <<>> /\ ~Fails(p) /\ losses = 0
    BY <1>1, <1>2, <1>9, AtOnce DEF Alive
  <2>2. "root" \in tree /\ tree' = With("Servers")
    BY <1>2, <2>1, Knows DEF Paths
  <2>3. "Servers" \in tree'
    BY <1>3, <2>2, WithFacts, PathFacts
  <2> QED BY <1>4, <2>1, <2>3 DEF InOrder
<1> QED BY <1>1, <1>2, <1>4, <1>5, <1>6, <1>7, <1>8, <1>9, AtOnce, OwnStep

LEMMA AppendTwo ==
  ASSUME NEW S, NEW a \in S, NEW b \in S
  PROVE  Append(<<a>>, b) = <<a, b>>
<1> DEFINE s == Append(<<a>>, b)
           t == <<a, b>>
<1>1. /\ s \in Seq(S) /\ t \in Seq(S) /\ Len(s) = 2 /\ Len(t) = 2
      /\ s[1] = t[1] /\ s[2] = t[2]
  OBVIOUS
<1>2. \A i \in 1 .. 2 : i = 1 \/ i = 2
  OBVIOUS
<1>3. \A i \in 1 .. Len(s) : s[i] = t[i]
  BY <1>1, <1>2
<1> HIDE DEF s, t
<1>4. s = t
  BY <1>1, <1>3, SeqEqual
<1> QED BY <1>4 DEF s, t

LEMMA AppendThree ==
  ASSUME NEW S, NEW a \in S, NEW b \in S, NEW c \in S
  PROVE  Append(<<a, b>>, c) = <<a, b, c>>
<1> DEFINE s == Append(<<a, b>>, c)
           t == <<a, b, c>>
<1>1. /\ s \in Seq(S) /\ t \in Seq(S) /\ Len(s) = 3 /\ Len(t) = 3
      /\ s[1] = t[1] /\ s[2] = t[2] /\ s[3] = t[3]
  OBVIOUS
<1>2. \A i \in 1 .. 3 : i = 1 \/ i = 2 \/ i = 3
  OBVIOUS
<1>3. \A i \in 1 .. Len(s) : s[i] = t[i]
  BY <1>1, <1>2
<1> HIDE DEF s, t
<1>4. s = t
  BY <1>1, <1>3, SeqEqual
<1> QED BY <1>4 DEF s, t

\* What a process has asked for after each asynchronous create.
LEMMA Appended ==
  /\ Append(<<>>, "Group") = <<"Group">> /\ Append(<<>>, "Active") = <<"Active">>
  /\ Append(<<>>, "Queue") = <<"Queue">>
  /\ Append(<<"Group">>, "Active") = <<"Group", "Active">>
  /\ Append(<<"Active">>, "Queue") = <<"Active", "Queue">>
  /\ Append(<<"Group", "Active">>, "Queue") = <<"Group", "Active", "Queue">>
<1>1. "Group" \in Path /\ "Active" \in Path /\ "Queue" \in Path
  BY PathFacts
<1>2. \A a \in Path : Append(<<>>, a) = <<a>>
  OBVIOUS
<1>3. \A a, b \in Path : Append(<<a>>, b) = <<a, b>>
  BY AppendTwo
<1>4. \A a, b, c \in Path : Append(<<a, b>>, c) = <<a, b, c>>
  BY AppendThree
<1> QED BY <1>1, <1>2, <1>3, <1>4

LEMMA AsyncCreateStep ==
  ASSUME IInv, NEW p \in Processes, AsyncCreate(p)
  PROVE  IInv'
<1>1. PICK path \in {"Group", "Active", "Queue"} :
        /\ pc[p] = path /\ pc' = [pc EXCEPT ![p] = Follows[path]]
        /\ pending' = IF Alive(p) THEN [pending EXCEPT ![p] = Append(@, path)] ELSE pending
        /\ UNCHANGED <<zookeeper, session, running, refused, sessions, losses>>
  BY PathFacts DEF AsyncCreate, Goto
<1>2. TypeOK /\ path \in Path /\ Follows[path] \in {"Active", "Queue", "tasks"}
  BY PathFacts DEF IInv
<1>3. /\ pc' \in [Processes -> {"off", "check", "tasks", "active", "run"} \cup Path]
      /\ \A q \in Processes : q # p => pc'[q] = pc[q]
      /\ pc'[p] = Follows[path]
  BY <1>1, <1>2, PathFacts DEF TypeOK
<1>4. /\ pending' \in [Processes -> Seq(Path)]
      /\ \A q \in Processes : q # p => pending'[q] = pending[q]
      /\ Alive(p) => pending'[p] = Append(pending[p], path)
  <2>1. pending \in [Processes -> Seq(Path)]
    BY <1>2 DEF TypeOK
  <2>2. Append(pending[p], path) \in Seq(Path)
    BY <1>2, <2>1
  <2> QED BY <1>1, <2>1, <2>2
<1>5. TypeOK'
  BY <1>1, <1>2, <1>3, <1>4 DEF TypeOK, zookeeper
<1>6. Prepared(p)'
  BY <1>2, <1>3 DEF Prepared
<1>7. losses' = 0 => Paths' /\ refused'[p] # "no parent"
  BY <1>1, Knows DEF Paths, IInv, ParentsFirst, zookeeper
<1>8. ASSUME losses' = 0, Alive(p)' PROVE InOrder(p)'
  <2>1. losses = 0 /\ Alive(p) /\ tree' = tree
    BY <1>1, <1>8 DEF Alive, zookeeper
  <2>2. InOrder(p) /\ pending'[p] = Append(pending[p], path)
    BY <1>4, <2>1, Knows
  <2>3. CASE path = "Group"
    <3>1. pending[p] = <<>> /\ "Servers" \in tree /\ pc'[p] = "Active"
      BY <1>1, <1>3, <2>2, <2>3, PathFacts DEF InOrder
    <3>2. pending'[p] = <<"Group">>
      BY <2>2, <2>3, <3>1, Appended
    <3> QED BY <2>1, <3>1, <3>2 DEF InOrder
  <2>4. CASE path = "Active"
    <3>1. /\ "Servers" \in tree /\ pc'[p] = "Queue"
          /\ pending[p] = <<"Group">> \/ (pending[p] = <<>> /\ "Group" \in tree)
      BY <1>1, <1>3, <2>2, <2>4, PathFacts DEF InOrder
    <3>2. pending'[p] = <<"Group", "Active">> \/ (pending'[p] = <<"Active">> /\ "Group" \in tree)
      BY <2>2, <2>4, <3>1, Appended
    <3> QED BY <2>1, <3>1, <3>2 DEF InOrder
  <2>5. CASE path = "Queue"
    <3>1. /\ "Servers" \in tree /\ pc'[p] = "tasks"
          /\ \/ pending[p] = <<"Group", "Active">>
             \/ pending[p] = <<"Active">> /\ "Group" \in tree
             \/ pending[p] = <<>> /\ "Active" \in tree
      BY <1>1, <1>3, <2>2, <2>5, PathFacts DEF InOrder
    <3>2. \/ pending'[p] = <<"Group", "Active", "Queue">>
          \/ pending'[p] = <<"Active", "Queue">> /\ "Group" \in tree
          \/ pending'[p] = <<"Queue">> /\ "Active" \in tree
      BY <2>2, <2>5, <3>1, Appended
    <3> QED BY <2>1, <3>1, <3>2 DEF InOrder
  <2> QED BY <2>3, <2>4, <2>5
<1> QED BY <1>1, <1>2, <1>3, <1>4, <1>5, <1>6, <1>7, <1>8, OwnStep DEF zookeeper

LEMMA TailOfTwo ==
  ASSUME NEW S, NEW a \in S, NEW b \in S
  PROVE  Head(<<a, b>>) = a /\ Tail(<<a, b>>) = <<b>>
<1> DEFINE s == Tail(<<a, b>>)
           t == <<b>>
<1>1. /\ s \in Seq(S) /\ t \in Seq(S) /\ Len(s) = 1 /\ Len(t) = 1
      /\ s[1] = t[1]
  OBVIOUS
<1>2. \A i \in 1 .. 1 : i = 1
  OBVIOUS
<1>3. \A i \in 1 .. Len(s) : s[i] = t[i]
  BY <1>1, <1>2
<1> HIDE DEF s, t
<1>4. s = t
  BY <1>1, <1>3, SeqEqual
<1> QED BY <1>4 DEF s, t

LEMMA TailOfThree ==
  ASSUME NEW S, NEW a \in S, NEW b \in S, NEW c \in S
  PROVE  Head(<<a, b, c>>) = a /\ Tail(<<a, b, c>>) = <<b, c>>
<1> DEFINE s == Tail(<<a, b, c>>)
           t == <<b, c>>
<1>1. /\ s \in Seq(S) /\ t \in Seq(S) /\ Len(s) = 2 /\ Len(t) = 2
      /\ s[1] = t[1] /\ s[2] = t[2]
  OBVIOUS
<1>2. \A i \in 1 .. 2 : i = 1 \/ i = 2
  OBVIOUS
<1>3. \A i \in 1 .. Len(s) : s[i] = t[i]
  BY <1>1, <1>2
<1> HIDE DEF s, t
<1>4. s = t
  BY <1>1, <1>3, SeqEqual
<1> QED BY <1>4 DEF s, t

\* What is left of the requests after the first is served.
LEMMA Served ==
  ASSUME NEW asked
  PROVE  /\ asked = <<"Group">> => Head(asked) = "Group" /\ Tail(asked) = <<>>
         /\ asked = <<"Active">> => Head(asked) = "Active" /\ Tail(asked) = <<>>
         /\ asked = <<"Queue">> => Head(asked) = "Queue" /\ Tail(asked) = <<>>
         /\ asked = <<"Group", "Active">> =>
              Head(asked) = "Group" /\ Tail(asked) = <<"Active">>
         /\ asked = <<"Active", "Queue">> =>
              Head(asked) = "Active" /\ Tail(asked) = <<"Queue">>
         /\ asked = <<"Group", "Active", "Queue">> =>
              Head(asked) = "Group" /\ Tail(asked) = <<"Active", "Queue">>
<1>1. "Group" \in Path /\ "Active" \in Path /\ "Queue" \in Path
  BY PathFacts
<1>2. \A a \in Path : Head(<<a>>) = a /\ Tail(<<a>>) = <<>>
  OBVIOUS
<1>3. \A a, b \in Path : Head(<<a, b>>) = a /\ Tail(<<a, b>>) = <<b>>
  BY TailOfTwo
<1>4. \A a, b, c \in Path : Head(<<a, b, c>>) = a /\ Tail(<<a, b, c>>) = <<b, c>>
  BY TailOfThree
<1>5. /\ Head(<<"Group">>) = "Group" /\ Tail(<<"Group">>) = <<>>
      /\ Head(<<"Active">>) = "Active" /\ Tail(<<"Active">>) = <<>>
      /\ Head(<<"Queue">>) = "Queue" /\ Tail(<<"Queue">>) = <<>>
  BY <1>1, <1>2
<1>6. /\ Head(<<"Group", "Active">>) = "Group" /\ Tail(<<"Group", "Active">>) = <<"Active">>
      /\ Head(<<"Active", "Queue">>) = "Active" /\ Tail(<<"Active", "Queue">>) = <<"Queue">>
  BY <1>1, <1>3
<1>7. /\ Head(<<"Group", "Active", "Queue">>) = "Group"
      /\ Tail(<<"Group", "Active", "Queue">>) = <<"Active", "Queue">>
  BY <1>1, <1>4
<1> QED BY <1>5, <1>6, <1>7

LEMMA ServeStep ==
  ASSUME IInv, NEW p \in Processes, Serve(p)
  PROVE  IInv'
<1> DEFINE asked == pending[p]
<1>1. /\ Alive(p) /\ asked # <<>> /\ tree' = With(Head(asked))
      /\ pending' = [pending EXCEPT ![p] = Tail(@)]
      /\ UNCHANGED <<tasks, active, expired, pc, session, running, refused, sessions, losses>>
  BY DEF Serve
<1>2. TypeOK
  BY DEF IInv
<1>3. Head(asked) \in Path /\ Tail(asked) \in Seq(Path)
  <2>1. asked \in Seq(Path)
    BY <1>2 DEF TypeOK
  <2> QED BY <1>1, <2>1
<1>4. /\ pending' \in [Processes -> Seq(Path)] /\ pending'[p] = Tail(asked)
      /\ \A q \in Processes : q # p => pending'[q] = pending[q]
  BY <1>1, <1>2, <1>3 DEF TypeOK
<1>5. /\ tree \subseteq tree' /\ tree' \subseteq Path \cup {"root"}
      /\ \A x \in tree' : x = Head(asked) \/ x \in tree
      /\ Parent[Head(asked)] \in tree => Head(asked) \in tree'
  BY <1>1, <1>2, <1>3, WithFacts
<1>6. TypeOK'
  BY <1>1, <1>2, <1>4, <1>5 DEF TypeOK
<1>7. pc[p] # "off"
  BY <1>1 DEF IInv, OwnSession
<1>8. Prepared(p)'
  BY <1>1, <1>5 DEF IInv, Prepared, Alive
<1>9. ASSUME losses' = 0
      PROVE  /\ Paths' /\ refused'[p] # "no parent" /\ InOrder(p)'
             /\ pc'[p] = "active" => "Queue" \in tree'
  <2>1. Paths /\ InOrder(p) /\ losses = 0 /\ (pc[p] = "active" => "Queue" \in tree)
    BY <1>1, <1>9, Knows
  <2>2. refused'[p] # "no parent"
    BY <1>1, <2>1 DEF IInv, ParentsFirst
  <2>3. pc[p] \in {"Active", "Queue", "tasks"}
    BY <1>1, <1>2, <1>7, <2>1, PathFacts DEF TypeOK, InOrder
  <2>4. \/ asked = <<"Group">> /\ pc[p] = "Active" /\ "Servers" \in tree
        \/ asked = <<"Group", "Active">> /\ pc[p] = "Queue" /\ "Servers" \in tree
        \/ asked = <<"Active">> /\ pc[p] = "Queue" /\ "Group" \in tree
        \/ asked = <<"Group", "Active", "Queue">> /\ pc[p] = "tasks" /\ "Servers" \in tree
        \/ asked = <<"Active", "Queue">> /\ pc[p] = "tasks" /\ "Group" \in tree
        \/ asked = <<"Queue">> /\ pc[p] = "tasks" /\ "Active" \in tree
    BY <1>1, <2>1, <2>3 DEF InOrder
  <2>5. /\ pc'[p] = pc[p] /\ "Servers" \in tree => "Servers" \in tree'
        /\ "Queue" \in tree => "Queue" \in tree'
    BY <1>1, <1>5
  <2>6. CASE asked = <<"Group">> /\ pc[p] = "Active" /\ "Servers" \in tree
    <3>1. "Group" \in tree' /\ "Servers" \in tree' /\ pending'[p] = <<>>
          /\ (\A x \in tree' : x = "Group" \/ x \in tree)
      BY <1>4, <1>5, <2>6, Served, PathFacts
    <3> QED BY <1>1, <1>5, <2>1, <2>2, <2>6, <3>1 DEF InOrder, Paths
  <2>7. CASE asked = <<"Group", "Active">> /\ pc[p] = "Queue" /\ "Servers" \in tree
    <3>1. "Group" \in tree' /\ "Servers" \in tree' /\ pending'[p] = <<"Active">>
          /\ (\A x \in tree' : x = "Group" \/ x \in tree)
      BY <1>4, <1>5, <2>7, Served, PathFacts
    <3> QED BY <1>1, <1>5, <2>1, <2>2, <2>7, <3>1 DEF InOrder, Paths
  <2>8. CASE asked = <<"Active">> /\ pc[p] = "Queue" /\ "Group" \in tree
    <3>1. "Active" \in tree' /\ "Group" \in tree' /\ pending'[p] = <<>>
          /\ (\A x \in tree' : x = "Active" \/ x \in tree)
      BY <1>4, <1>5, <2>8, Served, PathFacts
    <3>2. "Servers" \in tree'
      BY <1>5, <2>1, <2>8 DEF InOrder
    <3> QED BY <1>1, <1>5, <2>1, <2>2, <2>8, <3>1, <3>2 DEF InOrder, Paths
  <2>9. CASE asked = <<"Group", "Active", "Queue">> /\ pc[p] = "tasks" /\ "Servers" \in tree
    <3>1. "Group" \in tree' /\ "Servers" \in tree' /\ pending'[p] = <<"Active", "Queue">>
          /\ (\A x \in tree' : x = "Group" \/ x \in tree)
      BY <1>4, <1>5, <2>9, Served, PathFacts
    <3> QED BY <1>1, <1>5, <2>1, <2>2, <2>9, <3>1 DEF InOrder, Paths
  <2>10. CASE asked = <<"Active", "Queue">> /\ pc[p] = "tasks" /\ "Group" \in tree
    <3>1. "Active" \in tree' /\ "Group" \in tree' /\ pending'[p] = <<"Queue">>
          /\ (\A x \in tree' : x = "Active" \/ x \in tree)
      BY <1>4, <1>5, <2>10, Served, PathFacts
    <3> QED BY <1>1, <1>5, <2>1, <2>2, <2>10, <3>1 DEF InOrder, Paths
  <2>11. CASE asked = <<"Queue">> /\ pc[p] = "tasks" /\ "Active" \in tree
    <3>1. "Queue" \in tree' /\ "Active" \in tree' /\ pending'[p] = <<>>
          /\ (\A x \in tree' : x = "Queue" \/ x \in tree)
      BY <1>4, <1>5, <2>1, <2>11, Served, PathFacts DEF Paths
    <3> QED BY <1>1, <1>5, <2>1, <2>2, <2>11, <3>1 DEF InOrder, Paths
  <2> QED BY <2>4, <2>6, <2>7, <2>8, <2>9, <2>10, <2>11
<1> HIDE DEF asked
<1> QED BY <1>1, <1>4, <1>5, <1>6, <1>7, <1>8, <1>9, OwnStep

LEMMA LoseStep ==
  ASSUME IInv, NEW p \in Processes, Lose(p)
  PROVE  IInv'
<1>1. /\ pending[p] # <<>> /\ losses < MaxLoss /\ losses' = losses + 1
      /\ pending' = [pending EXCEPT ![p] = <<>>]
      /\ UNCHANGED <<zookeeper, pc, session, running, refused, sessions>>
  BY DEF Lose
<1>2. TypeOK /\ losses \in Nat /\ MaxLoss \in Nat
  BY Types, BoundAssumption DEF IInv
<1>3. losses' \in 0 .. MaxLoss /\ losses' # 0
  BY <1>1, <1>2
<1>4. <<>> \in Seq(Path)
  OBVIOUS
<1>5. pending' \in [Processes -> Seq(Path)] /\ \A q \in Processes : q # p => pending'[q] = pending[q]
  BY <1>1, <1>2, <1>4 DEF TypeOK
<1>6. TypeOK'
  BY <1>1, <1>2, <1>3, <1>5 DEF TypeOK, zookeeper
<1>7. pc[p] # "off"
  BY <1>1 DEF IInv, OwnSession
<1>8. Prepared(p)'
  BY <1>1 DEF IInv, Prepared, Alive, zookeeper
<1> QED BY <1>1, <1>3, <1>5, <1>6, <1>7, <1>8, OwnStep DEF zookeeper

LEMMA GaveUp ==
  ASSUME TypeOK, NEW p \in Processes, NEW why \in {"no parent", "exists", "connection"}, GiveUp(p, why)
  PROVE  /\ running' \in [Processes -> BOOLEAN]
         /\ refused' \in [Processes -> {"no", "no parent", "exists", "connection"}]
         /\ ~running'[p] /\ refused'[p] = why
         /\ \A q \in Processes : q # p => running'[q] = running[q] /\ refused'[q] = refused[q]
BY DEF GiveUp, TypeOK

LEMMA CreateTasksStep ==
  ASSUME IInv, NEW p \in Processes, CreateTasks(p)
  PROVE  IInv'
<1> DEFINE done == tasks' = tasks \cup {EndpointOf[p]}
<1>1. /\ pc[p] = "tasks" /\ pc' = [pc EXCEPT ![p] = "active"]
      /\ UNCHANGED <<tree, active, expired, session, sessions>>
  BY DEF CreateTasks, Goto
<1>2. \/ Answered(p) /\ "Queue" \in tree /\ done /\ UNCHANGED <<running, refused>>
      \/ Answered(p) /\ "Queue" \notin tree /\ GiveUp(p, "no parent") /\ UNCHANGED tasks
      \/ Fails(p) /\ GiveUp(p, "connection") /\ UNCHANGED tasks
      \/ Alive(p) /\ Fails(p) /\ GiveUp(p, "connection") /\ done
  BY DEF CreateTasks
<1>3. TypeOK
  BY DEF IInv
<1>4. /\ pc' \in [Processes -> {"off", "check", "tasks", "active", "run"} \cup Path]
      /\ \A q \in Processes : q # p => pc'[q] = pc[q]
      /\ pc'[p] = "active"
  BY <1>1, <1>3 DEF TypeOK
<1>5. /\ running' \in [Processes -> BOOLEAN]
      /\ refused' \in [Processes -> {"no", "no parent", "exists", "connection"}]
      /\ \A q \in Processes : q # p => running'[q] = running[q] /\ refused'[q] = refused[q]
      /\ ~running'[p] \/ (Answered(p) /\ "Queue" \in tree /\ done /\ UNCHANGED refused)
  BY <1>2, <1>3, GaveUp DEF TypeOK
<1>6. tasks' \subseteq Endpoints /\ tasks \subseteq tasks'
  BY <1>2, <1>3, EndpointAssumption DEF TypeOK
<1>7. TypeOK'
  BY <1>1, <1>2, <1>3, <1>4, <1>5, <1>6, AtOnce DEF TypeOK
<1>8. Prepared(p)'
  BY <1>1, <1>4, <1>5 DEF Prepared
<1>9. ASSUME losses' = 0, Alive(p) PROVE pending'[p] = <<>> /\ "Queue" \in tree /\ ~Fails(p)
  <2>1. pending[p] = <<>> /\ pending' = pending /\ ~Fails(p) /\ losses = 0
    BY <1>2, <1>9, AtOnce
  <2>2. pending[p] # <<"Group", "Active", "Queue">> /\ pending[p] # <<"Active", "Queue">>
        /\ pending[p] # <<"Queue">>
    BY <2>1
  <2>3. InOrder(p)
    BY <1>9, <2>1, Knows
  <2> QED BY <1>1, <2>1, <2>2, <2>3 DEF InOrder
<1>10. ASSUME losses' = 0 PROVE Paths' /\ refused'[p] # "no parent"
  <2>1. losses = 0 /\ Paths'
    BY <1>1, <1>2, <1>10, AtOnce, Knows DEF Paths
  <2>2. Answered(p) => "Queue" \in tree
    BY <1>9, <1>10 DEF Answered
  <2>3. refused'[p] = refused[p] \/ refused'[p] = "connection"
    BY <1>2, <1>3, <2>2, GaveUp
  <2> QED BY <2>1, <2>3 DEF IInv, ParentsFirst
<1>11. ASSUME losses' = 0, Alive(p)' PROVE InOrder(p)' /\ "Queue" \in tree'
  <2>1. Alive(p)
    BY <1>1, <1>11 DEF Alive
  <2> QED BY <1>1, <1>4, <1>9, <1>11, <2>1 DEF InOrder
<1> HIDE DEF done
<1> QED BY <1>1, <1>2, <1>4, <1>5, <1>6, <1>7, <1>8, <1>10, <1>11, AtOnce, OwnStep

LEMMA CreateActiveStep ==
  ASSUME IInv, NEW p \in Processes, CreateActive(p)
  PROVE  IInv'
<1> DEFINE e == EndpointOf[p]
           own == active' = [active EXCEPT ![e] = session[p]]
<1>1. /\ pc[p] = "active" /\ pc' = [pc EXCEPT ![p] = "run"]
      /\ UNCHANGED <<tree, tasks, expired, session, sessions>>
  BY DEF CreateActive, Goto
<1>2. \/ Answered(p) /\ active[e] = NoSession /\ own /\ UNCHANGED <<running, refused>>
      \/ Answered(p) /\ GiveUp(p, "exists") /\ UNCHANGED active
      \/ Answered(p) /\ "Active" \notin tree /\ GiveUp(p, "no parent") /\ UNCHANGED active
      \/ Fails(p) /\ GiveUp(p, "connection") /\ UNCHANGED active
      \/ Alive(p) /\ Fails(p) /\ GiveUp(p, "connection") /\ active[e] = NoSession /\ own
  BY DEF CreateActive
<1>3. TypeOK /\ e \in Endpoints
  BY EndpointAssumption DEF IInv
<1>4. /\ pc' \in [Processes -> {"off", "check", "tasks", "active", "run"} \cup Path]
      /\ \A q \in Processes : q # p => pc'[q] = pc[q]
      /\ pc'[p] = "run"
  BY <1>1, <1>3 DEF TypeOK
<1>5. /\ running' \in [Processes -> BOOLEAN]
      /\ refused' \in [Processes -> {"no", "no parent", "exists", "connection"}]
      /\ \A q \in Processes : q # p => running'[q] = running[q] /\ refused'[q] = refused[q]
      /\ ~running'[p] \/ (own /\ UNCHANGED <<running, refused>>)
  BY <1>2, <1>3, GaveUp DEF TypeOK
<1>6. /\ active' \in [Endpoints -> 0 .. sessions]
      /\ \A x \in Endpoints : active[x] # NoSession => active'[x] = active[x]
      /\ own => active'[e] = session[p]
  BY <1>2, <1>3, Types
<1>7. TypeOK'
  BY <1>1, <1>2, <1>3, <1>4, <1>5, <1>6, AtOnce DEF TypeOK
<1>8. Prepared(p)'
  <2>1. ASSUME running'[p], Alive(p)' PROVE "Queue" \in tree /\ e \in tasks /\ active'[e] = session[p]
    <3>1. own /\ running[p] /\ Alive(p)
      BY <1>1, <1>5, <2>1 DEF Alive
    <3>2. "Queue" \in tree /\ e \in tasks
      BY <1>1, <3>1 DEF IInv, Prepared
    <3> QED BY <1>6, <3>1, <3>2
  <2> QED BY <1>1, <2>1 DEF Prepared
<1>9. ASSUME losses' = 0, Alive(p) PROVE pending'[p] = <<>> /\ "Active" \in tree
  <2>1. pending[p] = <<>> /\ pending' = pending /\ losses = 0
    BY <1>2, <1>9, AtOnce
  <2> QED BY <1>1, <1>9, <2>1, Knows DEF Paths
<1>10. ASSUME losses' = 0 PROVE Paths' /\ refused'[p] # "no parent"
  <2>1. losses = 0 /\ Paths'
    BY <1>1, <1>2, <1>10, AtOnce, Knows DEF Paths
  <2>2. Answered(p) => "Active" \in tree
    BY <1>9, <1>10 DEF Answered
  <2>3. refused'[p] \in {refused[p], "connection", "exists"}
    BY <1>2, <1>3, <2>2, GaveUp
  <2> QED BY <2>1, <2>3 DEF IInv, ParentsFirst
<1>11. ASSUME losses' = 0, Alive(p)' PROVE InOrder(p)'
  <2>1. Alive(p)
    BY <1>1, <1>11 DEF Alive
  <2> QED BY <1>4, <1>9, <1>11, <2>1 DEF InOrder
<1> HIDE DEF own, e
<1> QED BY <1>1, <1>2, <1>4, <1>5, <1>6, <1>7, <1>8, <1>10, <1>11, AtOnce, OwnStep

LEMMA NextIInv == IInv /\ [Next]_vars => IInv'
<1> SUFFICES ASSUME IInv, [Next]_vars PROVE IInv'
  OBVIOUS
<1>1. ASSUME NEW p \in Processes, Setup(p) PROVE IInv'
  BY <1>1, CheckQueueStep, CreateServersStep, AsyncCreateStep, CreateTasksStep, CreateActiveStep
     DEF Setup
<1>2. ASSUME NEW p \in Processes,
             Start(p) \/ Serve(p) \/ Lose(p) \/ Interrupt(p) \/ Exit(p) \/ Crash(p)
      PROVE  IInv'
  BY <1>2, StartStep, ServeStep, LoseStep, InterruptStep, EndStep
<1>3. ASSUME NEW s \in 1 .. sessions, Expire(s) PROVE IInv'
  BY <1>3, ExpireStep
<1>4. CASE UNCHANGED vars
  BY <1>4 DEF vars, zookeeper, IInv, TypeOK, OwnSession, Prepared, Ordered, Paths, InOrder, Alive,
     ParentsFirst
<1> QED BY <1>1, <1>2, <1>3, <1>4 DEF Next

-----------------------------------------------------------------------------
\* The invariant holds in every state of every group of servers.
THEOREM Invariant == Spec => []IInv
<1> QED BY InitIInv, NextIInv, PTL DEF Spec

\* Type correctness of the znodes and of the processes that set them up.
THEOREM TypeCorrect == Spec => []TypeOK
<1>1. IInv => TypeOK
  BY DEF IInv
<1> QED BY <1>1, Invariant, PTL

\* A process that works has made its queue, and owns the ephemeral znode: the
\* calls of init_ZUTH_Server that fail stop it.
THEOREM WorksIsSetUp == Spec => []SetUp
<1>1. IInv => SetUp
  BY DEF IInv, SetUp, Works, Prepared
<1> QED BY <1>1, Invariant, PTL

\* Two processes never work on the tasks of one endpoint: the ephemeral znode
\* is owned by one session, and a session by one process.
THEOREM NoTwoServers == Spec => []OneServer
<1>1. IInv => OneServer
  <2> SUFFICES ASSUME IInv, NEW p \in Processes, NEW q \in Processes,
                      Works(p), Works(q), EndpointOf[p] = EndpointOf[q]
               PROVE  p = q
    BY DEF OneServer
  <2>1. session[p] = active[EndpointOf[p]] /\ session[q] = active[EndpointOf[p]]
    BY DEF IInv, Prepared, Works
  <2> QED BY <2>1 DEF IInv, OwnSession, Works, Alive
<1> QED BY <1>1, Invariant, PTL

\* Without a lost connection nobody gives up for want of a parent znode: the
\* requests of one session are served in the order of the calls.
THEOREM OrderSuffices == Spec => []ParentsFirst
<1>1. IInv => ParentsFirst
  BY DEF IInv
<1> QED BY <1>1, Invariant, PTL

=============================================================================
