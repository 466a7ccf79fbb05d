------------------------------ MODULE Reception ------------------------------
(***************************************************************************)
(* One SecureChannel from one end to the other (open62541.c 14765-14868,   *)
(* 15160-15495, 17489-17518, 18433-18459).                                 *)
(*                                                                         *)
(* The sender cuts each message into chunks and numbers them.  The bytes   *)
(* arrive in pieces of any size.  The receiver keeps what is not yet a     *)
(* whole chunk with the connection, checks the numbers of the whole ones,  *)
(* and keeps what is not yet a whole message with the channel.             *)
(*                                                                         *)
(* A chunk has a number of units: the first does not hold its length yet,  *)
(* with the second the header is complete.  Bytes the receiver reads as a  *)
(* header without being one are taken to be of no known type, and, where   *)
(* they are handed on all the same (14830 after a concatenation), of no    *)
(* channel.  Tokens are left to Channels.                                  *)
(***************************************************************************)
EXTENDS Integers, Sequences, SequencesExt

CONSTANTS
  MaxMessage,   \* messages sent (bound)
  PartCounts,   \* chunks a message may need
  Units,        \* units of a chunk, at least two
  MaxChunkCount, \* remoteConf.maxChunkCount, 0 for no limit
  Width,        \* numbers are modulo this (2^32)
  Window,       \* numbers that may be skipped when they roll over (1024)
  FirstNumber,  \* of the first chunk
  MaxInFlight,  \* units between the two ends (bound)
  MaxRenew,     \* renewals of the channel (bound)
  MaxLoss       \* buffers that cannot be allocated, and pieces of foreign bytes (bound)

ReceptionAssumption ==
  /\ {MaxMessage, MaxChunkCount, Window, MaxInFlight, MaxRenew, MaxLoss} \subseteq Nat
  /\ PartCounts \subseteq Nat \ {0} /\ Units \subseteq Nat \ {0, 1}
  /\ Width \in Nat \ {0} /\ FirstNumber \in 0 .. Width - 1

VARIABLES
  outbox,    \* chunks the sender has still to send of its message
  nextOut,   \* number of the next chunk to be sent
  sent,      \* number of messages begun
  stream,    \* units in the socket
  kept,      \* connection->incompleteMessage
  buffer,    \* whole chunks the server loop is about to process
  received,  \* channel->receiveSequenceNumber
  partial,   \* channel->chunks: per request, the parts that have arrived
  delivered, \* history: messages handed to the callback, as [request, parts]
  complete,  \* history: messages sent whole, in order
  losses,    \* history: losses so far
  jumped,    \* history: was a number accepted that is not the next one?
  renewals   \* renewals so far

sender == <<outbox, nextOut, sent, complete, renewals>>
receiver == <<kept, buffer, received, partial, delivered, jumped>>
streamVars == <<sender, stream, receiver, losses>>

NoParts == <<>>

StreamInit ==
  /\ outbox = <<>> /\ nextOut = FirstNumber /\ sent = 0
  /\ stream = <<>> /\ kept = <<>> /\ buffer = <<>>
  /\ received = (FirstNumber - 1) % Width   \* from the OPN that opened the channel
  /\ partial = [r \in 1 .. MaxMessage |-> NoParts]
  /\ delivered = <<>> /\ complete = <<>>
  /\ losses = 0 /\ jumped = FALSE /\ renewals = 0

(***************************************************************************)
(* The sender.                                                             *)
(***************************************************************************)

\* The chunks of a message that needs n, and whose encoding fails after the given
\* number of them: the chunk beyond the limit, and the one of the failure, is an abort.
Chunks(request, n, fails) ==
  LET limit == IF MaxChunkCount = 0 THEN n ELSE MaxChunkCount
      whole == IF fails < limit THEN fails ELSE limit
      chunk(k, final) == [type |-> "MSG", request |-> request, part |-> k, final |-> final]
  IN IF n <= whole THEN [k \in 1 .. n |-> chunk(k, IF k = n THEN "F" ELSE "C")]
     ELSE [k \in 1 .. whole + 1 |-> chunk(k, IF k = whole + 1 THEN "A" ELSE "C")]

\* UA_SecureChannel_sendBinaryMessage; fails = n: the encoding succeeds.
SendMessage(n, fails) ==
  /\ outbox = <<>> /\ sent < MaxMessage /\ fails <= n
  /\ sent' = sent + 1
  /\ outbox' = Chunks(sent + 1, n, fails)
  /\ complete' = IF Last(outbox').final = "F"
                 THEN Append(complete, [request |-> sent + 1, parts |-> [k \in 1 .. n |-> k]])
                 ELSE complete
  /\ UNCHANGED <<nextOut, renewals, stream, receiver, losses>>

\* The units of a chunk, in order.
Bytes(chunk, size) == [k \in 1 .. size |-> [chunk |-> chunk, unit |-> k, size |-> size]]

\* Mutant: the numbers go on beyond their width.
NumberAfter_Wide(chunk) == nextOut + 1

\* The next number, after the given chunk.
NumberAfter(chunk) == (nextOut + 1) % Width

\* A chunk with its sequence header.
Numbered(chunk, number) ==
  [type |-> chunk.type, request |-> chunk.request, part |-> chunk.part, final |-> chunk.final,
   number |-> number]

\* UA_SecureChannel_sendChunk: it takes a number, whatever the chunk is.
SendChunk(size) ==
  /\ outbox # <<>> /\ Len(stream) + size <= MaxInFlight
  /\ stream' = stream \o Bytes(Numbered(Head(outbox), nextOut), size)
  /\ nextOut' = NumberAfter(Head(outbox))
  /\ outbox' = Tail(outbox)
  /\ UNCHANGED <<sent, complete, renewals, receiver, losses>>

\* An OPN, between two messages.
Renew(size) ==
  /\ outbox = <<>> /\ renewals < MaxRenew /\ Len(stream) + size <= MaxInFlight
  /\ LET opn == [type |-> "OPN", request |-> 0, part |-> 1, final |-> "F", number |-> nextOut]
     IN stream' = stream \o Bytes(opn, size) /\ nextOut' = NumberAfter(opn)
  /\ renewals' = renewals + 1
  /\ UNCHANGED <<outbox, sent, complete, receiver, losses>>

\* Bytes that are no chunk.
SendForeign ==
  /\ losses < MaxLoss /\ Len(stream) + 2 <= MaxInFlight
  /\ stream' = stream \o Bytes([type |-> "???"], 2)
  /\ losses' = losses + 1
  /\ UNCHANGED <<sender, receiver>>

(***************************************************************************)
(* UA_Connection_completeMessages.                                         *)
(***************************************************************************)

\* Is there a header of a known type and an allowed length at the given offset?
HeaderAt(bytes, offset) ==
  /\ bytes[offset + 1].unit = 1 /\ bytes[offset + 2].unit = 2
  /\ bytes[offset + 1].chunk.type \in {"MSG", "OPN"}

\* Does a whole chunk begin at the given offset?
WholeAt(bytes, offset) ==
  /\ Len(bytes) - offset >= 2 /\ HeaderAt(bytes, offset)
  /\ offset + bytes[offset + 1].size <= Len(bytes)

\* Where the whole chunks end, for the loop that has come to the given offset.
CompleteUntil(bytes) ==
  LET until[k \in 0 .. Len(bytes)] ==
        IF k = 0 THEN 0
        ELSE IF until[k - 1] = k - 1 /\ WholeAt(bytes, k - 1)
             THEN k - 1 + bytes[k].size
             ELSE until[k - 1]
  IN until[Len(bytes)]

\* What follows the whole chunks is kept, unless it cannot be the beginning of one.
Rest(bytes, until) ==
  IF Len(bytes) - until >= 2 /\ ~HeaderAt(bytes, until) THEN <<>>
  ELSE SubSeq(bytes, until + 1, Len(bytes))

Arrive(n) ==
  /\ buffer = <<>> /\ n \in 1 .. Len(stream)
  /\ LET bytes == kept \o SubSeq(stream, 1, n)
     IN \E until \in {CompleteUntil(bytes)} :
          /\ buffer' = SubSeq(bytes, 1, until)
          /\ kept' = Rest(bytes, until)
  /\ stream' = SubSeq(stream, n + 1, Len(stream))
  /\ UNCHANGED <<sender, received, partial, delivered, jumped, losses>>

\* A buffer for the concatenation or the rest cannot be allocated: all of it is lost.
ArriveLost(n) ==
  /\ buffer = <<>> /\ n \in 1 .. Len(stream) /\ losses < MaxLoss
  /\ LET bytes == kept \o SubSeq(stream, 1, n)
     IN kept # <<>> \/ Rest(bytes, CompleteUntil(bytes)) # <<>>
  /\ kept' = <<>>
  /\ stream' = SubSeq(stream, n + 1, Len(stream))
  /\ losses' = losses + 1
  /\ UNCHANGED <<sender, buffer, received, partial, delivered, jumped>>

(***************************************************************************)
(* UA_SecureChannel_processChunks.                                         *)
(***************************************************************************)

\* Mutant: any number but the last one is taken for the next.
IsNext_Other(number, last) == number # last

IsNext(number, last) == number = (last + 1) % Width

\* The numbers near their end may be skipped.
RollsOver(number, last) == (last + 1) % Width > Width - Window - 1 /\ number < Window

\* Mutant: the parts of an aborted message stay.
Stored_NoAbort(parts, chunk) ==
  [parts EXCEPT ![chunk.request] =
     CASE chunk.final = "C" -> Append(@, chunk.part)
       [] chunk.final = "F" -> NoParts
       [] chunk.final = "A" -> @]

\* UA_SecureChannel_appendChunk, finalizeChunk, removeChunk
Stored(parts, chunk) ==
  [parts EXCEPT ![chunk.request] = IF chunk.final = "C" THEN Append(@, chunk.part) ELSE NoParts]

\* One chunk.  An OPN is not checked: processOPN takes over its number.
ProcessChunk(s, chunk) ==
  IF s.stopped THEN s
  ELSE IF chunk.type = "OPN" THEN [s EXCEPT !.received = chunk.number]
  ELSE IF ~IsNext(chunk.number, s.received) /\ ~RollsOver(chunk.number, s.received)
       THEN [s EXCEPT !.stopped = TRUE]   \* the rest of the buffer is not looked at
  ELSE [s EXCEPT
          !.received = chunk.number,
          !.jumped = @ \/ ~IsNext(chunk.number, s.received),
          !.partial = Stored(s.partial, chunk),
          !.delivered =
             IF chunk.final # "F" THEN @
             ELSE Append(@, [request |-> chunk.request,
                             parts |-> Append(s.partial[chunk.request], chunk.part)])]

\* The channel after the chunks of the buffer; state[k] after those that begin in its first k units.
Processed ==
  LET state[k \in 0 .. Len(buffer)] ==
        IF k = 0 THEN [received |-> received, partial |-> partial, delivered |-> delivered,
                       jumped |-> jumped, stopped |-> FALSE]
        ELSE IF buffer[k].unit = 1 THEN ProcessChunk(state[k - 1], buffer[k].chunk)
        ELSE state[k - 1]
  IN state[Len(buffer)]

\* UA_Server_processBinaryMessage
Process ==
  /\ buffer # <<>>
  /\ \E s \in {Processed} :
       /\ received' = s.received /\ partial' = s.partial
       /\ delivered' = s.delivered /\ jumped' = s.jumped
  /\ buffer' = <<>>
  /\ UNCHANGED <<sender, stream, kept, losses>>

StreamNext ==
  \/ \E n \in PartCounts : \E fails \in 0 .. n : SendMessage(n, fails)
  \/ \E size \in Units : SendChunk(size) \/ Renew(size)
  \/ SendForeign
  \/ \E n \in 1 .. MaxInFlight : Arrive(n) \/ ArriveLost(n)
  \/ Process

StreamSpec == StreamInit /\ [][StreamNext]_streamVars

(***************************************************************************)
(* Properties                                                              *)
(***************************************************************************)

Unit == [chunk : [type : {"???"}], unit : 1 .. 2, size : {2}]
        \cup [chunk : [type : {"MSG", "OPN"}, request : 0 .. MaxMessage, part : Nat,
                       final : {"C", "F", "A"}, number : 0 .. Width - 1],
              unit : Nat, size : Units]

StreamTypeOK ==
  /\ \A u \in ToSet(stream) \cup ToSet(kept) \cup ToSet(buffer) : u \in Unit
  /\ {nextOut, received} \subseteq 0 .. Width - 1
  /\ sent \in 0 .. MaxMessage /\ losses \in 0 .. MaxLoss /\ renewals \in 0 .. MaxRenew
  /\ partial \in [1 .. MaxMessage -> Seq(Nat)]
  /\ \A k \in DOMAIN delivered : delivered[k] \in [request : 1 .. MaxMessage, parts : Seq(Nat)]
  /\ jumped \in BOOLEAN

\* A message has few enough chunks for all of them, and all OPNs, to have numbers of their own.
FewerThanNumbers ==
  \E most \in PartCounts : /\ \A n \in PartCounts : n <= most
                           /\ MaxMessage * most + MaxRenew < Width

\* What is handed on is one of the messages that were sent, whole, each at most once
\* and in the order they were sent, whatever pieces the bytes come in, and
\* although bytes are lost and the channel is renewed after that (14789-14847,
\* 15387-15397, 15456-15490).  Only numbers that roll over while some are lost
\* let a gap pass, and this sender never makes them jump by itself (15212).
WholeMessages ==
  /\ jumped => losses > 0
  /\ jumped \/ /\ \A k \in DOMAIN delivered : delivered[k] \in ToSet(complete)
               /\ \A i, k \in DOMAIN delivered :
                    i < k => delivered[i].request < delivered[k].request

\* Nothing is lost or left over on the way: when all that was sent has been read, all
\* whole messages have been handed on, and neither the connection nor the
\* channel keeps any part of them, not even of those that were aborted (14833-14856, 15298, 15356).
NothingLeft ==
  (losses = 0 /\ stream = <<>> /\ buffer = <<>> /\ outbox = <<>>) =>
    /\ delivered = complete
    /\ kept = <<>>
    /\ \A r \in 1 .. MaxMessage : partial[r] = NoParts
=============================================================================
