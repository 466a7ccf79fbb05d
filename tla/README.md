# Throttled service calls: a verification project

This directory models *Throttled Service Calls in OPC UA*: a client does not
send its requests to the OPC UA server directly but leaves each of them as a
task in ZooKeeper, and the server takes the tasks at its own pace and answers
over the TCP connection of the client. The repository consists of two programs,
`examples/zuthServer.c` and `examples/zuthClient.c`, helper code in
`src/zk_cli.c`, and a copy of the open62541 library (`src/open62541.c`, one
amalgamated file) to which the throttled client functions (`ZUTH_*`,
25498-25722) and `ZUTH_getSecureChannel` were added. Line numbers below without
a file name are those of `src/open62541.c`; lines are those of the commit that
is checked out.

Run a model with `tlc -config <cfg> <module>.tla`, check the proofs with
`tlapm <module>.tla`.

## 1. The system

| Component | State | Operations | Module |
| --- | --- | --- | --- |
| Task queue of zuthServer (`zuthServer.c:102-339`) | queue znodes, one-shot child watch, outstanding list, callbacks to run, list being worked on, the globals `running`, `zh`, `server` | `zkUA_queueWatcher`, `zuth_processTasks`, `zuth_executeRequest`, `init_ZUTH_Server`, `intHandler`, `main` | `ZuthQueue`, promise in `TaskQueue` |
| Throttled call (25498-25722, 24798-24953, 25284-25296, 15399-15495, 17204-17526) | task contents, client sequence number, request id, token, connection state, receive sequence number and tokens of the server's channel | connect, renew, push a task, wait, time out, disconnect; handle OPN, CloseSession, CloseSecureChannel, end of connection, cleanup; find a channel, accept or refuse a chunk, call the service | `Throttle` |
| Connections, SecureChannels, sessions (18584-18869, 19767-19966, 14898-14912, 15066-15130) | three lists with pointers into each other, two counters, id and token counters | open, renew, close a channel; create, activate, use, close a session; drop a connection; cleanup and purge | `Channels` |
| Set-up of the znodes (`zk_cli.c:186-250`, `zuthServer.c:251-311`) | persistent and ephemeral znodes, ZooKeeper sessions, asynchronous creates not answered | check, create, give up, expire, crash, exit | `ServerStart` |
| Chunks on one channel (14763-14868, 15160-15495) | incomplete message of a connection, chunks of a channel, both sequence numbers | cut into chunks, number, abort, complete messages, check numbers, collect, hand on, renew | `Reception` |
| Repeated jobs and the server loop (18022-18221, 18461-18537) | sorted list of jobs, iteration under way, delayed callbacks | add, remove, run, move | `RepeatedJobs` |
| Network layer (26553-27046, 18433-18459) | mappings of descriptors, jobs of the iteration, what is attached | accept, select and read, write, shut down, detach, free, stop | `NetworkLayer` |
| Subscriptions and monitored items (23460-24638, client 26143-26469) | subscriptions, items with queues of samples, publish requests, messages retained; the client's acknowledgements | create, modify, delete, sample, publish, keep alive, end, acknowledge, republish, detach and reattach | `Subscription` |
| Address space (16160-16958, 21175-22530, 22633-23012, 23300-23352) | nodes and references, continuation points of a session | build it; AddNodes, AddReferences, DeleteNodes, DeleteReferences, Browse, BrowseNext, finding the method of a Call | `Namespace0`, `AddressSpace` |
| Nodestore (19082-19407) | hash table with tombstones | insert, find, remove, rebuild | `NodeStore` |
| Types and binary encoding (5808-7480, tables 7481-14753) | a value, a buffer, chunks sent | encode with exchange of buffers, decode, measure | `DataTypes`, `Values`, `Codec` |
| Attribute and discovery services, high-level client functions, hash table of the task map, configuration files | none, or none that is used | sequential functions | not modelled |

**How they interact.** A client connects by TCP (HEL, OPN, CreateSession,
ActivateSession). A read then goes another way: the encoded chunk, the channel
id and the request id become a sequential znode under
`/Servers/<group>/Queue/<server>`. ZooKeeper fires the child watch of the
server. The *completion thread* of the ZooKeeper library runs the watcher, which
asks for the children, and later the completion, which sorts them, reads each,
looks the channel up in the channel manager, has the chunk processed and deletes
the task. The answer is sent on the connection the channel is attached to.
Meanwhile the *main thread* runs the server loop: repeated jobs (sampling,
publishing, every ten seconds the cleanup of channels and sessions), then what
the network layer has read, then delayed callbacks. What is read is put together
to chunks, these to messages, which are decoded, handled by a service, and
answered in chunks again. The threads share channels and sessions without a
lock (`UA_ENABLE_MULTITHREADING` is not set).

**What is hard.** Two threads and two paths to one channel; a one-shot watch
that must be set again each time; tasks that outlive the server process while
everything they name (channel ids, sessions, tokens) does not; a strict sequence
number that is used up even if the push fails; timeouts of the client racing with
answers that are under way; ephemeral znodes of crashed processes; a set-up
that runs concurrently in every server of a group; lists that change while they
are walked through; streams that are cut anywhere; numbers that roll over;
acknowledgements that come late; walks over references that change; and a buffer that is
exchanged in the middle of a value. `PROJECT.json` lists these
hazards at the lines where they bite, with the properties that cover them.

**What makes it correct.**

- *Queue*: the server hears of every task, works on each list while it is
  fresh, oldest task first, and tries every task in the end.
- *Call*: a request is carried out at most once and in the order of the calls;
  a result belongs to the call it is returned from; a session is not closed
  under calls made before; a client that waits is answered.
- *Channels*: nothing points at freed memory, the limits hold, nobody is hurt
  by another's channel, the token of a client that reads its answers is known.
- *Set-up*: one working server per endpoint, with everything it needs.
- *Chunks*: messages arrive whole, once, in order, and leave nothing behind.
- *Server loop*: a job keeps its interval; a connection is freed once, last.
- *Subscriptions*: a client that follows the protocol misses no message, ends up
  with the last sample, and every publish request ends.
- *Address space*: both sides of every reference agree, and a walk over pages gives
  what one look would; the nodestore is a map.
- *Encoding*: what is written is read back, and in how many chunks makes no difference.

## 2. Modules

| Module | Content |
| --- | --- |
| `TaskQueue` | abstract queue: what `ZuthQueue` promises and `Throttle` builds on |
| `ZuthQueue`, `MCZuthQueue` | the queue, its watch and the two threads; `Implements` states the refinement of `TaskQueue` |
| `Throttle`, `MCThrottle` | a call end to end; extends `TaskQueue`, whose actions are conjoined with those of clients and server |
| `Channels`, `MCChannels` | the lists of the server |
| `ServerStart`, `MCServerStart` | the set-up of the znodes |
| `Subscription` | subscriptions of one session, with their client |
| `RepeatedJobs`, `NetworkLayer`, `Reception` | the server loop, its connections, the chunks on one channel |
| `Namespace0`, `AddressSpace` | the steps by which the server's nodes are made, and what makes and changes them |
| `References` | adding and deleting references and nodes, as operators from nodes to nodes; `AddressSpace` extends it |
| `Browsing` | how clients read them, page by page; `AddressSpace` takes it with its own hierarchy of types |
| `NodeStore` | the hash table that holds them |
| `Values`, `DataTypes`, `Codec`, `Samples` | values, descriptions of types, the encoding, the values that are encoded |
| `MCSessions` | runs `Subscription`, which it extends, or an instance of `Channels`, the two with liveness |
| `MCLibrary` | runs one of `RepeatedJobs`, `NetworkLayer`, `Reception`, `NodeStore`, which it extends, and instances of `AddressSpace`, `Codec` |
| `ZuthQueue_proofs`, `Throttle_proofs`, `Channels_proofs`, `ServerStart_proofs`, `Subscription_proofs`, `RepeatedJobs_proofs`, `Connections_proofs` (of `NetworkLayer` and `Reception`), `Nodes_proofs` (of `NodeStore`, `Browsing`, `References`) | theorems |

The modules overlap on purpose at their edges. `ZuthQueue` shows that the queue
behaves as `TaskQueue`; `Throttle` takes that for granted and adds what the tasks
mean. `Throttle` has one session per connection, no lapse of tokens and no
limits; `Channels` has all of these but no tasks. `ZuthQueue` starts a server with
one step, whose possible outcomes `ServerStart` takes apart. `Reception` hands on
what `Throttle` and `Channels` take to be whole messages; `NodeStore` is compared
with the map that `AddressSpace` uses.

In `MCSessions` and `MCLibrary` a variable `subject`, chosen at the start, says
which machine runs; the others stay in their initial states. The machines share
no state, so that nothing is lost by running them one at a time.

Definitions named `X_Something` with the comment `Mutant:` are deliberate
mistakes in the definition `X`; no specification uses them. Replacing `X` by one of them breaks
the property `PROJECT.json` names with it, so that property does depend on the code.

### ZuthQueue

State and code: `queue`, `nextTask`, `oversize` are the znodes; `armed` and
`asked` the watch and the unanswered `zoo_aget_children`; `inbox` the callbacks
the completion thread has still to run; `pc`, `batch`, `current`, `value` where
that thread is; `main` and `running` where the main thread is; `active` and
`session` the ephemeral znode and the ZooKeeper session. `missed` is history:
the tasks that were tried and could not be read or deleted.

ZooKeeper (external) is modelled from what the server asks of it: a watch fires
once, answers and events come in order, on one thread; a call may fail, done or
not; a session may expire, and an outstanding list then fails, whose completion comes before
the event or after it, behind the callback that closed the handle. Each callback is cut at the ZooKeeper calls it makes,
so that everything that may happen in between does.

### Throttle

A member of `Clients` is one `UA_Client` with its one connection. `state`,
`client`, `call`, `due` are the client's; `socket`, `wire`, `replies` are the
connection; `channels` the server's channels by id, each with its peer, session,
receive sequence number and tokens; `held` is the channel that
`zuth_executeRequest` has looked up and not used yet. A channel that was freed
while it is `held` may be used, refused or crash the process: reading freed
memory has no defined outcome.

Facts of the code the model rests on:

- `socket_recv` closes the client's socket if nothing comes in time
  (26593-26664). Only a message that is incomplete at the deadline, or refused
  just then, leaves the connection open after a timeout: `Timeout`,
  `IncompleteTimeout`, `DropReply`.
- `ZUTH_receiveUAClientServiceResponse` ends with the first message that is
  accepted; the answer is kept if its request id is that of the call.
- An OPN on an open channel sets the receive sequence number (17254) and gives
  out a token that was issued and not used; the first message that bears it
  makes it current, even if that message is refused.
- The sequence number is used up whether or not `zoo_create` succeeds (25516,
  25547).
- `UA_Client_disconnect` skips nothing after a failed CloseSession but what a
  closed socket prevents (25284-25296).

`zuthClient` makes one call per run. The library function does not limit the
calls, and the hazards need several, so the model allows as many as there are
tasks. Requests consist of one chunk: a second one would follow a full one of
65535 bytes, whose task is longer than what `zoo_get` reads.

### Channels

The lists are functions from ids to records; `conn[c].channel`,
`channels[id].peer`, `channels[id].sessions` and `session[s].channel` are the
pointers. Each message handler is one step, from the check of the token to the
answer. `lapsed` and `stale` stand for `validTill` and the lifetime of a token:
what has lapsed may be found so by the next cleanup, and not earlier than by
its own step. `UA_SecureChannel_getSession` does not look at `validTill`,
`UA_SessionManager_getSession` does; `Found` says so. Freeing is delayed in the
code until the end of the iteration; without threads nothing runs in between,
so a removed entry is gone at once.

Clients keep to the protocol: one OPN with ISSUE for a connection, no request
while an answer is awaited. (A second ISSUE would give a connection two
channels; no client in this repository sends one.)

### ServerStart

`pc` is the call of `init_ZUTH_Server` a process is about to make. A call is
answered after all requests made before it by the same session, or the
connection is lost and everything unanswered fails with it, done or not.
`pending` are the three `zoo_acreate` calls whose results nobody reads.

### Subscription

`subs`, newest first, is `session->serverSubscriptions`, each with its counters,
items and `retransmission`; `queue` is `session->responseQueue`, `delayed` the
callback that answers publish requests when no subscription is left. A publish
callback is a chain of operators over one record, in the order of
`UA_Subscription_publishCallback`, and one step. `link` is the channel: a
session that is detached keeps its subscriptions, and a client that comes back
may ask for messages it missed (Republish). The client is that of
26143-26469: it asks for one publish response at a time, may give up, and then takes
the late answer for one to its next call, which fails with it. `got` and `seen` are
history: what its handlers were given.

Monitored values are numbers that grow, so that the order of samples can be seen;
deadbands and encodings only say which of them count as a change.

### RepeatedJobs, NetworkLayer, Reception

`RepeatedJobs` takes the walk over the sorted list apart, one job per step,
because the job that runs may remove itself or others; `round` holds the local
variables of `processRepeatedJobs`, among them the element the loop has saved as
its next one. If that has been freed, the walk goes on from freed memory
(`broken`), after which nothing is claimed.

`NetworkLayer` has the kernel's table of descriptors, which others in the process
use too (ZooKeeper's socket, files), and hands out the lowest free one, as POSIX
does. `GetJobs` is the `select`, `Accept` takes a new connection, `ReadNext`
reads one mapping after the other, `at` being the index of the loop, and `ProcessJob`
runs one of the jobs that were put together. Clients, writes of the other thread and others come in
between any two of these steps. A failed write (`WriteFails`) closes a descriptor that stays mapped; from
then on two mappings may have the same number, and the next failed write or shutdown of the one
hits whoever has the number by then (`Owner`).

In `Reception` a chunk consists of units, of which the first ends before its
length is known: that is where the three branches of
`UA_Connection_completeMessages` part. `Arrive(n)` takes any number of units from
the stream; `ArriveLost` is a buffer that cannot be allocated; `SendForeign` puts
bytes into the stream that are no chunk. Numbers are modulo `Width`, with a
window of `Window` numbers around the roll-over in which gaps are accepted.

### AddressSpace, References, Browsing, Namespace0, NodeStore

`Namespace0` lists, step by step, what `UA_Server_new` does; `AddressSpace` carries
out the steps with the same operators as the services of clients, because the
code does. A call is one step and an operator from nodes to nodes, made of those of `References`, with its
failures in the middle and what is undone then. A walk of a client is not: in `Browsing`, `points`
are the continuation points, indices into reference arrays, which change under them, and `walks` is
what the client asked for and was given. `Browsing` leaves open how the nodes change (`Change`) and
what the hierarchy of types is; `AddressSpace` uses its actions `Browse` and `BrowseNext`, and conjoins `Disturb`, what a
change does to the walks, with each of its own.
Node ids are names, values and attributes are left out but for the class, abstractness and
browse name that the services look at.

`NodeStore` keeps the table as a sequence of slots. `stored` is the map it stands for; `doubled` and
`state` mark the two ways in which it ceases to be one.

### Codec

`DataTypes` is the generated table: 163 types of the library and twelve of the transport, by
name, with their members in order. `memSize` and the paddings are not copied but
computed from the members, by the alignment rules of the ABI. For a value, `Plan` lays out
what the functions write as a tree, whose nodes say how they go on when a part
does not fit: try again as a whole, element by element, or fail. `Write` is the run of the tree over
a buffer that is exchanged. `Decode` and `SizeOf` are translated separately,
each from its own functions. `Samples` gives each builtin type five values, and
each type a value in each of the six styles. The style `wide` is about what comes behind a long
string or array within the same value, and has a DiagnosticInfo within another. `Embeds` tells from a plan whether
the position to go back to can be lost: a part that is tried again as a whole
has one that can have the buffer exchanged (`Needs`) and another that may not fit (`Lengths`).

## 3. What is checked

Every run ends with the complete state space of its instance; the numbers are
distinct states.

| Run | Instance | Checks | States |
| --- | --- | --- | --- |
| `queue` | 3 tasks, 1 fault, 2 starts, tasks of either size, clean or dirty heap, with fairness | `TypeOK`, `OneEar`, `NoTaskOverlooked`, `ListIsFresh`, `NoOvertaking`, `Implements`, `EveryTaskTried` | 55,054 |
| `channels` | 3 connections, 2 sessions, limits 2 and 2, 3 tokens | `ConnectionLinked`, `SessionLinked`, `Counted`, `TokenKnown`, `KeptForOthers` | 379,179 |
| `sessions` | `Subscription`: 2 subscriptions, 1 item, 1 write, 2 publish requests, 2 waits given up; `Channels`: 2 connections, 2 sessions, limits 1 and 1, with fairness | `TypesOK`, `Recoverable`, `UpToDate`, `InOrder`, `RequestsEnd`, `Reclaimed` | 278,938 |
| `library` | see below | `TypesOK`, `Punctual`, `WholeMessages`, `NothingLeft`, `FreedLast`, `Bootstrapped`, `ViewsAgree`, `WalkComplete`, `RoundTrip`, `SameInChunks`, `AsAMap` | 564,432 |
| `throttle` | 2 connections, 3 tasks, 1 fault, 2 starts, no renewal | `TypeOK`, `AtMostOnce`, `ResultIsForCall` | 1,891,501 |
| `throttle_renew` | 1 connection, 3 tasks, 1 fault, 2 renewals, 2 starts, with fairness | `InCallOrder`, `CloseWaits`, `NeverBack`, `Answered` | 491,024 |
| `server_start` | 2 processes of one endpoint, 4 starts, 1 lost connection | `TypeOK`, `OneServer`, `SetUp`, `ParentsFirst` | 924,087 |

Five more runs each refute one statement that the code, a comment or a message
of the program makes; see the next section.

**Bounds, and why they are enough.** All bounds are constants, each used in the
guard of the action it limits.

- *Three tasks* let one be worked on, one wait on the same list and one come
  after the list was made: all positions a task can have towards another two.
- *One fault* with *two starts* gives every single failure, then a crash or a
  regular end at any point, then a second process that finds what the first
  left. More faults are covered by the proofs for `ZuthQueue`.
- *Two connections* are needed for a foreign task on one's channel id, and are
  interchangeable, hence the symmetry. Renewals concern the two paths of one
  connection: `throttle_renew` has one client, and thereby no symmetry, which
  liveness would not permit. Its *two renewals* allow one to be given up and a
  second to be confused with it.
- *Three connections with two channels* make the purge happen while another
  channel has a session, and a third client be turned away.
- *Four starts* of two processes: each may be started again while what it left
  has not expired.
- *Subscriptions*: two, as publish requests are shared among them; the limits let every counter
  reach its end within a few intervals, and the item's queue (size 1 or 2, the oldest or
  youngest dropped) overflow with the two samples. Two publish requests: one given
  up or left waiting, and the next.
- *Repeated jobs*: three in the list, as one is run, one is its saved successor, and one
  stands between the old place and the new. Intervals of 2 and 4, and one below the minimum.
- *Reception*: three messages of one to three chunks, a limit of two chunks; numbers begin two
  before the roll-over of a word of 16, with a window of 3 for 1024; one buffer or
  one piece of foreign bytes. Chunks of three units let the stream be cut before
  and behind the header, four units are under way at most.
- *Network layer*: two clients, three descriptors, opened twice by others: enough for the
  swap with the last mapping, for a number to be used again, by others or by the next client, and
  for a client that gets none.
- *Address space*: the standard server in full (its calls are those of `UA_Server_new`), and a smaller one
  with an application's type of pumps, on which clients make four calls of a dozen
  kinds, in pages of one reference and with one continuation point.
- *Codec*: each type in each style; a buffer of 48 bytes, into which the largest single
  value does not fit and which is exchanged at nearly every place where that can
  happen, with strings of 83 to 90 bytes and an array of 22 numbers that fill two of them but for a
  few bytes, so that the part behind does not fit any more, and one of 4000, into which all fits but the longest; decoding of every 25th prefix, of all but the
  last byte, and of the whole.
- *Nodestore*: sizes 5 and 11 for primes up to 2^32, the limits to keep a small table scaled with them; seven
  insertions fill a table, rebuild it up and down, and use up all slots of the smaller. Two
  names collide in both; the hashes of the numbers that are given are the code's.

Deadlock is not checked: in every one of the models the server may stay down, its
clients may have ended, or what is bounded be used up, which is a regular end.

**Fairness.** `ZuthQueue`: the two threads of a running process are scheduled
and ZooKeeper answers a request of a live session. Nothing is assumed of
clients, faults, signals, crashes and starts, so the liveness property is about
states in which the server serves. The heap bytes over which the service level
is read may be clean or not, in each turn anew (`AnyHeap`); as the loop in the watcher need not end
then, which is a finding of its own, `EveryTaskTried` is claimed of behaviours that leave it again and
again (`[]<>(pc # "gate")`). `Throttle`: the server takes from its
sockets and its queue (the latter is what `EveryTaskTried` shows), the client reads what
it is sent. Timeouts are not forced. `Channels`: `UA_Server_cleanup` is a
repeated job that runs as long as the server (16168-16170), and time passes for a
session. A connection that stays up may keep its channel for ever. `Subscription`: publish
callbacks and the delayed callback run, as they are jobs of the server loop, and a session without
a channel times out; nothing is assumed of the client. The `sessions` run states the two as
`Fairness => property`, one fairness for each machine.

## 4. Findings

| Run | Statement | What the code does |
| --- | --- | --- |
| `throttle_assert` | `UA_assert(channel->connection)` (17494) | A task whose client is gone reaches a channel that is not cleaned up yet: the server process aborts. Since the task is deleted only afterwards, it is there for the next process. |
| `throttle_sender` | the channel id tells the server "which client to respond to" (25527) | Channel ids begin anew with each process. A task from before a restart is answered to the client that has the number now; its own call with that sequence number is then refused. |
| `channels_answer` | "Reply answers the wrong request" (24899) | Only the type of the reply is compared. The late response to a renewal that was given up passes for the answer to the next one. |
| `service_level` | "200-255 is healthy" (`zuthServer.c:216`) | The level 255 is a Byte and is read as an `Int32`: the bytes above decide whether the loop ends. |
| `expiry` | "Session expired. Shutting down..." (`zuthServer.c:244`) | Only the ZooKeeper handle is closed; the process serves TCP clients whose tasks it will never read. |

Some of the properties that hold carry a condition, and each of these conditions marks
something the code does not promise, or promises and does not do:

- `NoTaskOverlooked` and `EveryTaskTried` count a task as seen when it was
  tried: one that is too long for the buffer, or whose `zoo_get` failed, stays
  in the queue, and is tried again only with the next list.
- `InCallOrder`, `CloseWaits` and `NeverBack` exempt a client whose channel
  number is also that of a task another client left behind: the finding above.
- `AtMostOnce` exempts only those requests of such a client that were made after it
  renewed its token. The proof showed why it must: let the client give up a first
  renewal and take its late answer for that of a second, whose OPN is still to be
  handled (two clients, three tasks). A foreign task with
  the next sequence number is accepted in place of that OPN, and then a call that was
  numbered after the OPN is carried out. The OPN, handled at last, turns the
  sequence number back (17254), and if `zoo_delete` failed the call is carried out again.
- `Answered` holds without faults, without a restart, and for clients that never gave
  up a wait with the connection open. After a renewal was given up a task may
  overtake the OPN it was numbered after; it is refused, and every later one.
  After a failed `zoo_create` there is a gap in the numbers, with the same result.
- `ParentsFirst` holds as long as no connection is lost. If one is lost after
  the create of Active was sent and only that of Queue gets through, Queue exists without Active,
  `zkUA_initializeZkServerQueuePath` finds Queue and does nothing, and every
  server of the group gives up from then on.
- `Recoverable` and `UpToDate` end with `early`: a keep-alive bears the number of the
  next message (23956), the client acknowledges it later (26424), and that
  deletes the message of this number, perhaps before it has arrived.
- `Punctual` ends with `tied`, a job that is due again at the very time of the iteration
  that ran it (18152): it is put where the shortcut at 18157 says, and the list,
  "sorted" by its comment (18026), is no longer so. It also ends with `broken`: a job
  removes the one that the loop has saved as the next.
- `WholeMessages` allows a jump of the numbers at the roll-over, where by 15391 any number
  below 1024 is accepted: chunks lost just there go unnoticed.
- `FreedLast` lets a mapping outlive its descriptor after a failed write: `socket_write`
  closes the socket (26581), although "only "shutdown" here" is the rule stated at 26791. The number may then be
  another's, whom the next write that fails shuts down and closes. That connections are freed once and last
  holds nevertheless.
- `ViewsAgree` ends with `oneSided`, a client that asks for one side of a reference only,
  and with `crashed`: deleting an object whose type has been deleted, or a failed
  instantiation of one, follows a NULL type (17827).
- `WalkComplete` exempts walks under which the node was changed, and a continuation point whose node lost
  all its references stays in use.
- `RoundTrip` has two exceptions. A DiagnosticInfo within which there is an inner status or an inner
  DiagnosticInfo never is read back: the writer has no bit for the status and 0x20 for the
  inner DiagnosticInfo (6994-6997), the reader takes 0x20 for the status and 0x40 for the other (7047-7051).
  And arrays of elements of a byte or two at the end of a message are refused by
  the filter at 6350 although they are there. What the comment at
  6346 calls bogus is what `UA_encodeBinary` itself writes.
- `SameInChunks` allows an undefined position for values that satisfy `Embeds`: one part has had the buffer
  exchanged, another does not fit, and the whole is tried again from a saved position (6288, 6769, 7114) that
  is one in a buffer that has been sent. These are a LocalizedText with a long locale, an ExpandedNodeId with a long
  URI and a server index, a Variant with an array and its dimensions, a DataValue with a String and
  a time, a DiagnosticInfo with a long text before another part, an ExtensionObject whose content has the buffer
  exchanged. For all others the property says that this never happens. Also, the length of an array is not tried again in a new buffer, so that a message can fail for the place of a
  boundary alone, against the comment at 5865-5870.
- `AsAMap` exempts an id that was inserted twice. `findSlot` "returns an empty slot or null if the nodeid exists" (19197),
  but takes the first tombstone without looking behind it; the next rebuild then
  writes through the NULL it returns for the second of the two (19247). And a search for an absent id does not end
  once no slot is left that was never used, which no rebuild prevents as long as the number of nodes
  stays about the same.

Further points met while modelling, which no run is about: a client keeps
acknowledgements that the server answers with BadSubscriptionIdInvalid, although a
comment says that unknown ones are removed as well (26377); a subscription the server
has ended cannot be removed at the client while it has items; a lowered queue size leaves a
longer queue as it is; a failed array element leaks what the elements before it hold;
`isNodeInTree` does not end on a cycle of subtypes.

## 5. What is proved

TLAPS checks these theorems for every value of the constants; all the models
above are instances. 21,972 obligations, none left open.

| Module | Theorem | States |
| --- | --- | --- |
| `ZuthQueue_proofs` | `TypeCorrect`, `EarIsKept`, `FreshLists`, `NothingOverlooked`, `InOrder` | `Spec => []P` for `TypeOK`, `OneEar`, `ListIsFresh`, `NoTaskOverlooked`, `NoOvertaking` |
| | `Implementation` | `Spec => Implements`: the queue refines `TaskQueue` |
| `Throttle_proofs` | `TypesKept`, `CalledOnce`, `CalledInOrder`, `ClosedLast`, `ResultsMatch` | `TypeOK`, `AtMostOnce`, `InCallOrder`, `CloseWaits`, `ResultIsForCall` |
| | `NumbersGrow` | `Spec => NeverBack`, an action property |
| `Channels_proofs` | `TypeCorrect`, `Linked`, `SessionsLinked`, `CountsAgree`, `Understood` | `TypeOK`, `ConnectionLinked`, `SessionLinked`, `Counted`, `TokenKnown` |
| | `PurgeIsHarmless` | `Spec => KeptForOthers`, an action property |
| `ServerStart_proofs` | `TypeCorrect`, `NoTwoServers`, `WorksIsSetUp`, `OrderSuffices` | `TypeOK`, `OneServer`, `SetUp`, `ParentsFirst` |
| `Subscription_proofs` | `TypesKept`, `RecoverableKept`, `UpToDateKept` | `TypeOK`, `Recoverable`, `UpToDate` |
| | `InOrderKept` | `Spec => InOrder`, an action property |
| `RepeatedJobs_proofs` | `TypesKept`, `NoneOverlooked` | `JobsTypeOK`, `Punctual` |
| `Connections_proofs` | `TypesKept`, `FreedOnceAndLast` | `NetworkTypeOK`, `FreedLast` |
| | `ReceptionTypes`, `MessagesStayWhole`, `NoPartIsLeft` | `StreamTypeOK`, `WholeMessages`, `NothingLeft` |
| `Nodes_proofs` | `TypesKept`, `TableIsMap` | `StoreTypeOK`, `AsAMap` |
| | `BrowsingTypes`, `WalksComplete` | `BrowsingTypeOK`, `WalkComplete` |
| | `SidesKept` | each operation of `References` keeps `SidesAgree`, the first part of `ViewsAgree` |

**Assumptions.** Only those the modules state on their constants: bounds are
natural numbers, `NoConn` is no connection, every process has an endpoint, and the
like. `SubscriptionAssumption` asks for limits with `min <= max`, a queue of at least one
sample and at least one notification per publish; `JobsAssumption` for a least interval
above 0; `NetworkAssumption` for connections and descriptors that are numbers, and marks for "other" and
"free" that are no connections; `PrimeAssumption`, `SizeAssumption` and `IdAssumption` for
sizes that are primes above 3 in ascending order, as in the table at 19092, and at least as many
ids as slots. `ReceptionAssumption` asks for bounds in `Nat`, chunks of two units at least and a first number
below `Width`; `FewerThanNumbers`, for `MessagesStayWhole` only, for fewer chunks than there are
numbers: where a full round of 2^32 of them is lost, the next number is the right one again.
`BrowsingAssumption` has sizes of pages and the number of points in `Nat`. From `SubscriptionAssumption` on, these
are hypotheses of the theorems, and `MCSessions` and `MCLibrary` have TLC evaluate them for their
instances. Nothing is assumed of
ZooKeeper, the kernel or the clients beyond the actions that model them.

**ZuthQueue.** None of the properties is inductive. `OneEar` is almost so: it
needs `Volatile`, that a process that is down and a session that expired have no
watch and no request. `NoTaskOverlooked` needs to know what a *set watch* means:
nothing has come since the last list (`Watched`: every task in the queue was
missed, is in the batch or is on the list in the inbox). `ListIsFresh` needs that there
is never more than one list, and that it stands before anything that leads to
the next (`ListAlone`). `NoOvertaking` needs that what is not on a list is younger than what is
(`Younger`), which in turn is the order of `ZOO_SEQUENCE`. The refinement uses
the same invariant and `Untried`, that the batch and `missed` are disjoint: without it,
`Take` of the abstract queue could not be justified.

**Throttle.** One invariant, `IInv`, carries all six theorems; its heart are four
statements about the numbers of one client. `Numbered`: its tasks bear the
sequence numbers and request ids it gave out, each once, and the number of the
OPN they were pushed after (`base`), with no OPN between two tasks of one base. `Wired`: its OPN and CloseSession requests
lie on the connection in the order of their numbers, each behind the tasks
pushed before it and ahead of those pushed after. `Passed`, for its channel: the receive sequence number `r` is
below the number of everything on the wire and not below that of anything
carried out, and if a task with a higher number exists, all
between its base and `r` were carried out. `Answering`: a result under way names
the task it is the result of.

`AtMostOnce` alone is not inductive, because a task that was carried out is still
there; that its number is not above `r` keeps it out. That `r` never falls is not
plain either, as an OPN sets it unchecked: `Wired` and `Passed` together say that an
OPN on the wire is above `r`. All of this holds for a client with `OwnNumber` only. For any other
`Passed` still has `First`: `r` is not below what was carried out
before the first renewal, since every OPN on the wire is above those numbers.
Steps that send, accept and carry out nothing are dealt with in one lemma
(`QuietStep`), those by which a client sends in another (`SendStep`), so that
each of the thirty actions has only its own part to show.

**Channels.** `Counted` needs that the lists are finite and that a purge
removes at most one channel, of which no session is left. The two link
invariants are inductive together with the types. `TokenKnown` rests on
`InTime`: as long as a client never stopped waiting, the token it holds, or is about
to read, is the youngest of its channel, so that revolving the tokens can only
make it current.

**ServerStart.** `OneServer` follows from `SetUp`, as an ephemeral znode has one
owner and a session one process (`OwnSession`). `SetUp` is the last case of
`Prepared`: what each step guarantees if the process has not given up.
`ParentsFirst` needs the order of the three asynchronous creates: `InOrder` says, for each
`pc`, which of them are still unanswered and that the path before the first of them
exists.

**Subscription.** The properties speak of messages that are on no wire any more, so
that the invariant `Inv` has to say where each message and each sample is. For a subscription it
has five parts (`SubFine`). `ItemsFine`: the samples queued for an item are in order, the last
sample is the last of the queue, if there is one, and the client was told nothing newer.
`OnTheWay`: a message under way is the one that is retained under its number, if one is, and its
values are not newer than those still to be sent. `Numbers`: what was processed or is retained
bears a number that was used, and its subscription's id. `Followed`: the client knows every
subscription and item of the server. `Retrievable`: every number used was processed or is
retained, and the last sample of an item is still queued, or was told, or is in a retained
message that was not processed; this part alone ends with `early`. For the wire (`WireFine`), `NewsFine`
says that a message under way is newer than what was processed, and `InTurn` that of
two of them the second is the newer one; this is what `InOrder` needs. `NoneYet` says that ids
not yet handed out have left no trace, without which a new subscription could inherit one.

**RepeatedJobs.** The properties hold before and after the walk over the list; the invariant has to
hold in the middle of it, where the list is changed. Besides the order (`Sorted`), `InPlace`
relates the list to the local variables of the loop: what is due begins at the place of the
walk, ends at `lastNow`, and the job that was run last (`last`) is not due. `Walk` holds
even when the order is lost: the walk stands at a job that is still in the list. The assertion
`UA_assert(lastNow)` in the code (18165) is shown on the way, in the lemma `RunAt`: whenever a
job is run, there was one due when the walk began.

**NetworkLayer.** `Of(c)` collects where a connection may be mentioned. `Known`: only one that
was accepted is, and while it is mapped, it is not freed and its jobs are messages. `LetGo`: while it is
attached, it is mapped or there is a job to detach it, ahead of any job to free it. `Gone`:
nothing comes after the job that frees it, and when that has run, nothing is left. `Kept`: who
was accepted is mapped, freed, or about to be freed. `Distinct`, that no connection is mapped twice,
is what makes swapping with the last mapping harmless. `Accepting`: whoever is accepted comes before anything
is read or run, when there are no jobs yet.

**Reception.** What was written lies in pieces on the connection, some of them are lost, and the
numbers alone tell what is missing. The invariant `StreamInv` therefore speaks of a history that it only
claims to exist (`Traced`): `all`, every chunk of the messages begun and every OPN, in the order of
sending; `n`, how many of them were sent; `nr`, for each unit in transit with which a chunk begins, which one it
is; `q`, the last one processed. `Sequenced` says what `all` looks like, `InTransit` that what is in transit comes
after `q` and in order, `Linked` that the units of a chunk stand together; only the first chunk may have lost its beginning.
`Receiver` says what `q` means to the channel: its number is `received`,
the parts collected are those up to `q` of the message that goes on (`PartsKept`), and what was handed on are messages that
end before it (`InOrder`). A message of several chunks stays whole because the next number
excludes every chunk but `all[q + 1]`. `NoPartIsLeft` needs two facts about the time when nothing was lost: the
bytes ahead begin with a chunk (`Aligned`), and every chunk sent after `q` is still in transit
(`Covered`); with nothing in transit, `q` is the last of all, which ends a message.

**NodeStore.** `Good`: an id that is stored once is in one slot (`Once`), and a search for it meets no slot
that was never used before that one (`OnWay`), which is why tombstones must stay. Since the
sizes are primes, the steps of a search reach every slot, and since the count is below the
size, one of these is free. A rebuild inserts the nodes into a table that has room for
them (`ExpandedKeeps`). That a fresh number exists follows from the pigeonhole
principle, as there are no fewer ids than slots.

**Browsing.** `WalkComplete` is not inductive: that a page goes on where the last one ended needs
`WalkFine`, that an undisturbed walk was given as many matches as its point says, the first ones, and at least
one. At least one is what makes a node without references harmless: it once had a match, so that it was
changed and the walk disturbed. The positions of the matches ascend and the `k`th is not below `k`;
hence a page whose last match is the last reference (`at[end] = Len(refs)`) ends with the last match, which is the
second of the two ways in which the code recognises the end. That points and `available` add up is a matter of cardinalities. As `Change` leaves any nodes and the
hierarchy is any operator, the theorem does not depend on how `AddressSpace` builds either.

**References.** Counting how often a reference stands in a list turns `SidesAgree` into a balance
(`Balanced`): a node refers as often as the target refers back, and not at all where there is no target. An
operation that adds or removes a reference and its mirror shifts both sides by the same (`BalanceShifted`). The
hard one is `removeReferences`, which walks over the list of a node by index while it removes
the mirrors; where the node refers to itself these are in the same list, and the last
reference moves to the place of the one removed. `WalkAt` says why none is skipped: what the walk has still
to come to (`Open`) holds references to the node itself in pairs, so that a mirror that is removed
always stands ahead of the walk.

**Recursive functions.** Walks through a list (`Published`, `Acknowledged`, `Selected`, the search for
a slot, the place to insert a job) are recursive functions. That they exist and what they
compute is shown by the least number of steps for which it fails (`WFMin` of the
library), as the induction theorems cannot be instantiated here; in
`Subscription_proofs`, `Connections_proofs` and `Nodes_proofs` the lemma `Computed` does this once for all of
their functions.

**Only model-checked.** Liveness (`EveryTaskTried`, `Reclaimed`, `Answered`, `RequestsEnd`), since
TLAPS 1.4.5 has no ENABLED and thus no fairness; `Bootstrapped` and, as properties of the
whole, `ViewsAgree` of `AddressSpace`, where copying a type calls adding a node and the other way round, and `RoundTrip` and `SameInChunks` of `Codec`:
their RECURSIVE operators walk over trees and are out of the prover's reach; `TypesOK` of
`MCSessions` and `MCLibrary`, as the sum over the machines of the run, though its
conjuncts are theorems for all machines but `AddressSpace` and `Codec`; and the refuted statements.

## 6. What is not modelled

- *Contents of services*: attributes and values of nodes (19967-21175), discovery
  (19643-19766), arguments, callbacks and executability of methods (23330). They are sequential
  functions without state of their own. TranslateBrowsePathsToNodeIds and RegisterNodes
  (23045-23260) as well.
- *Memory*: copying, comparing and freeing of values; allocations that fail, except where
  `Reception` and `NodeStore` have them.
- *Interleaving within a handler*: the two threads of the server can be inside
  the same channel at the same time, and both may number and send chunks (15212). The models interleave
  whole handlers, and the one gap that is certain to be wide, between finding a channel and using it.
- *Concurrency of set-up and work*: a second server of an endpoint may list and
  take tasks before it ends; `ServerStart` does not have the queue.
- *The order of ZooKeeper's suffix* beyond 2^31 tasks.
- *Shutdown* (18539-18564, 15836-15858): the process ends with it. The network layer's stop is in `NetworkLayer`.
- *Other builds*: multi-threading, Windows, IPv6, generated namespaces.
- *Hash table* (`src/hashtable/`): `zkUA_initializeTaskHashmap` creates one, and nothing is ever stored
  in it.
- The remaining components of `PROJECT.json` with the status `not_modelled`, with
  their reasons there.

## 7. Plan

Done, in this order, the most important behaviour first: `TaskQueue` and
`ZuthQueue` with refinement and proofs; `Throttle`; `Channels` with proofs;
`ServerStart` with proofs; `Subscription`; `RepeatedJobs`, `Reception`,
`NetworkLayer`; `Namespace0` and `AddressSpace`; `DataTypes` and `Codec`;
`NodeStore`; then the proofs about `Throttle`, `NetworkLayer`, `NodeStore`, `RepeatedJobs`,
`Subscription`, `Reception`, `Browsing` and `References`. To come:

1. `ServerStart` with the queue: what a second server does before it ends.
