---------------------------- MODULE LFRConnection ----------------------------
(***************************************************************************)
(* One connection between the server and a pass terminal ("LFR client"):   *)
(* class LFRConnection of CentralServer/lfrconnection.{h,cpp}.             *)
(*                                                                         *)
(* A connection is served by two threads.  Thread t (tpc) sends the whole  *)
(* card list, starts the work thread, then loops in sending(): it watches  *)
(* the 10 second limit and writes the queued queries.  The work thread     *)
(* (wpc) reads one line after the other and handles what the line asks     *)
(* for.  The flag `running' is the only thing that stops either of them.   *)
(*                                                                         *)
(* The client writes well-formed messages, split and coalesced by TCP in   *)
(* any way; it may fall silent or hang up between any two pieces.  A       *)
(* message of a kind is MsgLen[kind] units long: a unit is a line, a blob  *)
(* closed by "!end!", or a piece of an image.  What the client has         *)
(* undertaken to send is `stream'; sent, received and consumed are cursors *)
(* into it: the units the client has written, those that are in the        *)
(* streambuf or beyond, and those the program has taken out of it.         *)
(*                                                                         *)
(* An exception that leaves either thread calls std::terminate, so it ends *)
(* the whole process: process = "terminated".                              *)
(***************************************************************************)
EXTENDS Integers, Sequences

CONSTANTS
  NCards,      \* cards in the list that is synchronised at the start
  PingLimit,   \* ticks without a message before sending() gives up (10 s)
  RecvLimit,   \* ticks a receive of a blob or an image may take (3 s)
  ImgLen,      \* units in an image
  SizeT,       \* number of values of size_t
  SendCap,     \* chunks the socket's send buffer holds
  MaxStream,   \* bound on the units a client sends
  MaxQueries,  \* bound on the queries queued for the connection
  QueryTypes   \* the types of query that are queued, at most the four of the code

ASSUME LFRConnectionAssumption ==
  /\ NCards \in Nat
  /\ PingLimit \in Nat \ {0}
  /\ RecvLimit \in Nat \ {0}
  /\ ImgLen \in Nat \ {0}
  /\ SizeT \in Nat
  /\ ImgLen < SizeT    \* the length is an int
  /\ MaxStream < SizeT \* no client sends 2^64 bytes
  /\ SendCap \in Nat \ {0}
  /\ MaxStream \in Nat
  /\ MaxQueries \in Nat
  /\ QueryTypes \subseteq {"added", "edited", "deleted", "restart"}

VARIABLES
  process,             \* "up", or "terminated" once an exception left a thread
  tpc, wpc,            \* where thread t and the work thread are
  running, end,        \* the flags of the class
  socket,              \* the server's end of the connection
  queries, pushed,     \* the queue, and how many queries were ever put into it
  synced,              \* chunks of the full synchronisation written so far
  out,                 \* chunks written by the server and not yet read by the client
  idle,                \* ticks since lastPing, up to PingLimit
  waited,              \* ticks spent in the current context.run_for, up to RecvLimit
  pending,             \* an asynchronous read is outstanding on the context
  need,                \* what transfer_exactly still asks for
  stream, sent, peer,  \* the client: its messages, what it wrote, whether it hung up
  received, consumed,  \* the streambuf is stream[consumed + 1 .. received]
  stored               \* the file ./img/<name>: "none", "whole" or "torn"

tVars == <<tpc, synced, queries, pushed>>
flags == <<running, end, socket>>
asyncVars == <<pending, waited, need>>
input == <<received, consumed>>
client == <<stream, sent, peer>>
vars == <<process, tVars, wpc, flags, idle, out, asyncVars, input, client, stored>>

-----------------------------------------------------------------------------
(* The messages of the client.                                             *)

Kinds == {"ping", "my_id", "record", "image_added", "get_image"}

\* "record" stands for the four messages whose body is one JSON blob: a new
\* passing event and a personal card added, edited or deleted.  "ping" is any
\* line that no branch takes, which is how a client shows that it is alive.
MsgLen ==
  [kind \in Kinds |-> CASE kind = "ping" -> 1
                        [] kind = "image_added" -> 3 + ImgLen \* name, length, data
                        [] OTHER -> 2]

Unit == {u \in [kind : Kinds, k : 1..(3 + ImgLen)] : u.k <= MsgLen[u.kind]}

Message(kind) == [k \in 1..MsgLen[kind] |-> [kind |-> kind, k |-> k]]

SyncChunks == {"sync", "count", "card"}
ReplyChunks == {"sending_image", "size", "data"}
Chunks == SyncChunks \cup QueryTypes \cup ReplyChunks

SyncLen == NCards + 2

Init ==
  /\ process = "up"
  /\ tpc = "created" /\ wpc = "none"
  /\ running \in BOOLEAN  \* not initialised by the constructor
  /\ end = FALSE /\ socket = "open"
  /\ queries = <<>> /\ pushed = 0
  /\ synced = 0 /\ out = <<>>
  /\ idle = 0 /\ waited = 0
  /\ pending = FALSE /\ need = 0
  /\ stream = <<>> /\ sent = 0 /\ peer = "connected"
  /\ received = 0 /\ consumed = 0
  /\ stored \in {"none", "whole"}

-----------------------------------------------------------------------------
(* The socket.                                                             *)

BufferEmpty == received = consumed
NoMoreInput == peer = "gone" /\ received = sent

\* std::terminate, because an exception leaves the function of a thread.
Terminate ==
  /\ process' = "terminated"
  /\ UNCHANGED <<tVars, wpc, flags, idle, out, asyncVars, input, client, stored>>

\* A blocking write: it waits while the client lets its data pile up.  After
\* the client has hung up it may still succeed (or throw: WriteThrows, ReplyThrows).
Write(chunk) ==
  \/ /\ peer = "connected" /\ Len(out) < SendCap
     /\ out' = Append(out, chunk)
  \/ /\ peer = "gone"
     /\ out' = out

-----------------------------------------------------------------------------
(* Thread t.                                                               *)

\* (mutant) The work thread is started before the synchronisation.
StartBoth ==
  /\ tpc = "created"
  /\ tpc' = "sync"
  /\ wpc' = "loop"
  /\ running' = TRUE
  /\ idle' = 0
  /\ UNCHANGED <<process, synced, queries, pushed, end, socket, out, asyncVars,
                 input, client, stored>>

\* The manager has accepted the client; thread t is detached at once.
Start ==
  /\ tpc = "created"
  /\ tpc' = "sync"
  /\ running' = TRUE
  /\ idle' = 0
  /\ UNCHANGED <<process, wpc, synced, queries, pushed, end, socket, out,
                 asyncVars, input, client, stored>>

SyncChunk(i) == CASE i = 1 -> "sync" [] i = 2 -> "count" [] OTHER -> "card"

fullSyncronisation ==
  /\ tpc = "sync" /\ synced < SyncLen
  /\ Write(SyncChunk(synced + 1))
  /\ synced' = synced + 1
  /\ UNCHANGED <<process, tpc, wpc, queries, pushed, flags, idle, asyncVars,
                 input, client, stored>>

StartWorkThread ==
  /\ tpc = "sync" /\ synced = SyncLen
  /\ tpc' = "sending"
  /\ wpc' = "loop"
  /\ UNCHANGED <<process, synced, queries, pushed, flags, idle, out, asyncVars,
                 input, client, stored>>

\* The top of sending(): while (running), then the 10 second limit.  Either way
\* out of the loop ends with running = false.
SendingStops ==
  /\ tpc = "sending"
  /\ ~running \/ idle >= PingLimit
  /\ running' = FALSE
  /\ tpc' = "joining"
  /\ UNCHANGED <<process, wpc, synced, queries, pushed, end, socket, idle, out,
                 asyncVars, input, client, stored>>

SendingContinues ==
  /\ tpc = "sending"
  /\ running /\ idle < PingLimit
  /\ tpc' = "draining"
  /\ UNCHANGED <<process, wpc, synced, queries, pushed, flags, idle, out,
                 asyncVars, input, client, stored>>

\* One turn of while (!queries.empty()), which looks at neither flag nor clock.
SendQuery ==
  /\ tpc = "draining" /\ queries # <<>>
  /\ Write(Head(queries))
  /\ queries' = Tail(queries)
  /\ UNCHANGED <<process, tpc, wpc, synced, pushed, flags, idle, asyncVars,
                 input, client, stored>>

\* The queue is empty: sleep for 100 ms, then back to the top of the loop.
Sleep ==
  /\ tpc = "draining" /\ queries = <<>>
  /\ tpc' = "sending"
  /\ UNCHANGED <<process, wpc, synced, queries, pushed, flags, idle, out,
                 asyncVars, input, client, stored>>

\* (mutant) The socket is closed to wake the reader up, before it is joined.
CloseBeforeJoin ==
  /\ tpc = "joining"
  /\ socket' = "closed"
  /\ tpc' = "closing"
  /\ UNCHANGED <<process, wpc, synced, queries, pushed, running, end, idle, out,
                 asyncVars, input, client, stored>>

\* workThread.join() returns, then the socket is closed.
JoinAndClose ==
  /\ tpc = "joining" /\ wpc = "exited"
  /\ socket' = "closed"
  /\ tpc' = "closing"
  /\ UNCHANGED <<process, wpc, synced, queries, pushed, running, end, idle, out,
                 asyncVars, input, client, stored>>

SetEnd ==
  /\ tpc = "closing"
  /\ end' = TRUE
  /\ tpc' = "ended"
  /\ UNCHANGED <<process, wpc, synced, queries, pushed, running, socket, idle,
                 out, asyncVars, input, client, stored>>

\* A write of thread t fails because the client is gone; nothing catches it.
WriteThrows ==
  /\ \/ tpc = "sync" /\ synced < SyncLen
     \/ tpc = "draining" /\ queries # <<>>
  /\ peer = "gone"
  /\ Terminate

ThreadT ==
  \/ fullSyncronisation \/ StartWorkThread
  \/ SendingStops \/ SendingContinues \/ SendQuery \/ Sleep
  \/ JoinAndClose \/ SetEnd \/ WriteThrows

-----------------------------------------------------------------------------
(* The work thread.                                                        *)

WorkLoop ==
  /\ wpc = "loop"
  /\ wpc' = IF running THEN "reading" ELSE "exited"
  /\ UNCHANGED <<process, tVars, flags, idle, out, asyncVars, input, client, stored>>

\* Where a read_until may be waiting: at the top of the loop, which tests the
\* error, and for the second and third lines of a message, which throws.
LineReads == {"my_id", "image_name", "image_length", "file_name"}
Delimited == {"reading", "record"} \cup LineReads

\* read_until takes from the socket only when the buffer lacks the delimiter;
\* it takes whatever has arrived, beyond the delimiter too.
ReadSome ==
  /\ wpc \in Delimited /\ BufferEmpty
  /\ received' \in (received + 1)..sent
  /\ UNCHANGED <<process, wpc, tVars, flags, idle, out, asyncVars, consumed,
                 client, stored>>

\* The branch a first line selects; any other line is ignored.
Dispatch(unit) ==
  CASE unit.k # 1 -> "loop"
    [] unit.kind = "ping" -> "loop"
    [] unit.kind = "image_added" -> "image_name"
    [] unit.kind = "get_image" -> "sending_image"
    [] OTHER -> unit.kind

\* A line has come: lastPing is now, and the branch is taken.  The branches of
\* a record post their asynchronous read right away.
ReadHeader ==
  /\ wpc = "reading" /\ ~BufferEmpty
  /\ consumed' = consumed + 1
  /\ idle' = 0
  /\ wpc' = Dispatch(stream[consumed + 1])
  /\ IF wpc' = "record"
       THEN pending' = TRUE /\ waited' = 0
       ELSE UNCHANGED <<pending, waited>>
  /\ UNCHANGED <<process, tVars, flags, out, need, received, client, stored>>

\* (mutant) The error of read_until is not looked at: an empty line is handled.
ReadErrorIgnored ==
  /\ wpc = "reading" /\ BufferEmpty /\ NoMoreInput
  /\ idle' = 0
  /\ wpc' = "loop"
  /\ UNCHANGED <<process, tVars, flags, out, asyncVars, input, client, stored>>

\* read_until returned an error: the only read whose error is looked at.
ReadFails ==
  /\ wpc = "reading" /\ BufferEmpty /\ NoMoreInput
  /\ running' = FALSE
  /\ wpc' = "exited"
  /\ UNCHANGED <<process, tVars, end, socket, idle, out, asyncVars, input,
                 client, stored>>

\* The line after "my id", and those of recvImage and sendImage, end in an exception.
IdReadThrows ==
  /\ wpc = "my_id" /\ BufferEmpty /\ NoMoreInput
  /\ Terminate

NameReadThrows ==
  /\ wpc \in LineReads \ {"my_id"} /\ BufferEmpty /\ NoMoreInput
  /\ Terminate

\* userID = id; the name of an image to receive.
ReadLine ==
  /\ wpc \in {"my_id", "image_name"} /\ ~BufferEmpty
  /\ consumed' = consumed + 1
  /\ wpc' = IF wpc = "my_id" THEN "loop" ELSE "image_length"
  /\ UNCHANGED <<process, tVars, flags, idle, out, asyncVars, received, client,
                 stored>>

\* (mutants) The subtraction in int; what the buffer holds already forgotten.
MissingInt(buffered) == ImgLen - buffered
MissingAll(buffered) == ImgLen

\* transfer_exactly(length - buffer.size()), computed in size_t.
Missing(buffered) ==
  IF buffered <= ImgLen THEN ImgLen - buffered ELSE SizeT + ImgLen - buffered

ReadImageLength ==
  /\ wpc = "image_length" /\ ~BufferEmpty
  /\ consumed' = consumed + 1
  /\ need' = Missing(received - consumed')
  /\ pending' = TRUE /\ waited' = 0
  /\ wpc' = "image_data"
  /\ UNCHANGED <<process, tVars, flags, idle, out, received, client, stored>>

ReadImageData ==
  /\ wpc = "image_data" /\ need > 0
  /\ \E n \in 1..need :
       /\ received + n <= sent
       /\ received' = received + n
       /\ need' = need - n
  /\ UNCHANGED <<process, wpc, tVars, flags, idle, out, pending, waited,
                 consumed, client, stored>>

\* What the handler writes to the file is the whole buffer, whatever it holds.
BufferIsImage ==
  /\ received - consumed = ImgLen
  /\ \A i \in 1..ImgLen :
       stream[consumed + i] = [kind |-> "image_added", k |-> 3 + i]

\* The handler of async_read, which does not look at its error_code.  It takes the
\* whole buffer; where ./img does not exist the file does not open, and nothing is
\* stored and nothing said.
ImageHandler ==
  /\ wpc = "image_data"
  /\ need = 0 \/ NoMoreInput
  /\ stored' \in {stored, IF BufferIsImage THEN "whole" ELSE "torn"}
  /\ consumed' = received
  /\ pending' = FALSE
  /\ wpc' = "loop"
  /\ UNCHANGED <<process, tVars, flags, idle, out, waited, need, received, client>>

\* The handler of async_read_until.  It runs at the delimiter and on an error
\* alike, and always throws: the result of json::parse is discarded, so j is
\* null, j["id"] is null, and null does not convert to a string.
RecordHandlerThrows ==
  /\ wpc = "record"
  /\ ~BufferEmpty \/ NoMoreInput
  /\ Terminate

\* (mutants) A timeout that does not end the work thread, one that throws, and
\* context.run() in place of run_for.
TimeoutIgnored ==
  /\ wpc \in {"record", "image_data"} /\ waited >= RecvLimit
  /\ wpc' = "loop"
  /\ UNCHANGED <<process, tVars, flags, idle, out, asyncVars, input, client, stored>>
TimeoutThrows ==
  wpc \in {"record", "image_data"} /\ waited >= RecvLimit /\ Terminate
NoTimeout == FALSE /\ UNCHANGED vars

\* run_for returns without the handler having run.
ReceiveTimesOut ==
  /\ wpc \in {"record", "image_data"} /\ waited >= RecvLimit
  /\ running' = FALSE
  /\ wpc' = "exited"
  /\ UNCHANGED <<process, tVars, end, socket, idle, out, asyncVars, input,
                 client, stored>>

\* sendImage measures the file with tellg: -1 for a missing file, and a string
\* of size_t(-1) characters cannot be built.
OpenImage ==
  /\ wpc = "file_name" /\ ~BufferEmpty /\ stored # "none"
  /\ consumed' = consumed + 1
  /\ wpc' = "size"
  /\ UNCHANGED <<process, tVars, flags, idle, out, asyncVars, received, client,
                 stored>>

OpenImageThrows ==
  /\ wpc = "file_name" /\ ~BufferEmpty /\ stored = "none"
  /\ Terminate

\* The three writes that answer "get_image".
Reply ==
  /\ wpc \in ReplyChunks
  /\ Write(wpc)
  /\ wpc' = CASE wpc = "sending_image" -> "file_name"
              [] wpc = "size" -> "data"
              [] wpc = "data" -> "loop"
  /\ UNCHANGED <<process, tVars, flags, idle, asyncVars, input, client, stored>>

ReplyThrows ==
  /\ wpc \in ReplyChunks /\ peer = "gone"
  /\ Terminate

WorkThread ==
  \/ WorkLoop \/ ReadSome \/ ReadHeader \/ ReadFails \/ IdReadThrows
  \/ NameReadThrows \/ ReadLine \/ ReadImageLength \/ ReadImageData \/ ImageHandler
  \/ RecordHandlerThrows \/ ReceiveTimesOut
  \/ OpenImage \/ OpenImageThrows \/ Reply \/ ReplyThrows

-----------------------------------------------------------------------------
(* The rest of the program, the clock and the client.                      *)

\* personalCardAdded, -Edited, -Deleted and restartQuery, called by the manager
\* at any time, before the client is accepted and after it has gone too.
PushQuery ==
  /\ pushed < MaxQueries
  /\ \E type \in QueryTypes : queries' = Append(queries, type)
  /\ pushed' = pushed + 1
  /\ UNCHANGED <<process, tpc, synced, wpc, flags, idle, out, asyncVars, input,
                 client, stored>>

Stop ==
  /\ tpc # "created"
  /\ running' = FALSE
  /\ UNCHANGED <<process, wpc, tVars, end, socket, idle, out, asyncVars, input,
                 client, stored>>

Capped(n, limit) == IF n < limit THEN n + 1 ELSE limit

Tick ==
  /\ tpc # "created"
  /\ idle' = Capped(idle, PingLimit)
  /\ waited' = IF wpc \in {"record", "image_data"}
                 THEN Capped(waited, RecvLimit) ELSE waited
  /\ UNCHANGED <<process, wpc, tVars, flags, out, pending, need, input, client,
                 stored>>

ClientBegins ==
  /\ peer = "connected" /\ sent = Len(stream)
  /\ \E kind \in Kinds :
       /\ Len(stream) + MsgLen[kind] <= MaxStream
       /\ stream' = stream \o Message(kind)
  /\ UNCHANGED <<process, wpc, tVars, flags, idle, out, asyncVars, input, sent,
                 peer, stored>>

ClientSends ==
  /\ peer = "connected" /\ sent < Len(stream)
  /\ sent' = sent + 1
  /\ UNCHANGED <<process, wpc, tVars, flags, idle, out, asyncVars, input,
                 stream, peer, stored>>

ClientReads ==
  /\ peer = "connected" /\ out # <<>>
  /\ out' = Tail(out)
  /\ UNCHANGED <<process, wpc, tVars, flags, idle, asyncVars, input, client, stored>>

ClientHangsUp ==
  /\ peer = "connected"
  /\ peer' = "gone"
  /\ UNCHANGED <<process, wpc, tVars, flags, idle, out, asyncVars, input,
                 stream, sent, stored>>

Environment ==
  \/ Start \/ PushQuery \/ Stop \/ Tick
  \/ ClientBegins \/ ClientSends \/ ClientReads \/ ClientHangsUp

Next == process = "up" /\ (ThreadT \/ WorkThread \/ Environment)

Spec == Init /\ [][Next]_vars

\* The scheduler runs both threads and time passes.  Nothing makes a client
\* send, read or hang up, and nothing makes the rest of the program call.
Fairness ==
  /\ WF_vars(process = "up" /\ ThreadT)
  /\ WF_vars(process = "up" /\ WorkThread)
  /\ WF_vars(process = "up" /\ Tick)

FairSpec == Spec /\ Fairness

-----------------------------------------------------------------------------
(* Properties.                                                             *)

\* The session as the rest of the server sees it.
Life == INSTANCE SessionLife WITH
  life <- CASE tpc = "created" -> "created"
            [] tpc = "sync" -> "synchronising"
            [] tpc \in {"sending", "draining"} -> "serving"
            [] tpc = "joining" -> "stopping"
            [] tpc = "closing" -> "closed"
            [] OTHER -> "ended",
  worker <- IF wpc \in {"none", "exited"} THEN wpc ELSE "running"

\* Every variable has its type; the cursors stay in order.
TypeOK ==
  /\ process \in {"up", "terminated"}
  /\ tpc \in {"created", "sync", "sending", "draining", "joining", "closing", "ended"}
  /\ wpc \in {"none", "loop", "reading", "my_id", "record", "image_name", "image_length",
              "image_data", "sending_image", "file_name", "size", "data", "exited"}
  /\ running \in BOOLEAN /\ end \in BOOLEAN /\ pending \in BOOLEAN
  /\ socket \in {"open", "closed"}
  /\ queries \in Seq(QueryTypes)
  /\ pushed \in 0..MaxQueries
  /\ synced \in 0..SyncLen
  /\ out \in Seq(Chunks)
  /\ idle \in 0..PingLimit /\ waited \in 0..RecvLimit
  /\ need \in 0..(SizeT - 1)
  /\ stream \in Seq(Unit) /\ Len(stream) <= MaxStream
  /\ sent \in 0..Len(stream) /\ received \in 0..sent /\ consumed \in 0..received
  /\ peer \in {"connected", "gone"}
  /\ stored \in {"none", "whole", "torn"}

\* The work thread never loses its place in the client's stream: whenever it is
\* about to read the first line of a message, what comes next is a first line,
\* however the client pipelines its messages and TCP cuts them, and whatever
\* recvImage has read ahead, left over or thrown away.
FramingKept ==
  wpc = "reading" /\ consumed < sent => stream[consumed + 1].k = 1

\* A receive that timed out leaves its asynchronous read on the context, with a
\* handler that refers to a dead stack frame.  No later receive ever runs the
\* context again: the work thread is in the receive that posted the read, or gone.
NoStaleHandler ==
  pending => wpc \in {"record", "image_data", "exited"}

\* A file that is not the uploaded image (cut short, or with the next message
\* at its end) is only ever left behind by a client that hung up meanwhile.
TornOnlyAfterHangup ==
  stored = "torn" => peer = "gone"

\* The socket is never closed under a thread that uses it, and a connection whose
\* end flag is set is used by no thread any more: it could be destroyed.
ClosedUnused ==
  /\ socket = "closed" => wpc = "exited" /\ tpc \in {"closing", "ended"}
  /\ end => socket = "closed" /\ tpc = "ended" /\ ~running

\* What the client reads starts with the full synchronisation, uninterrupted:
\* no query and no piece of an image comes before the last card of the list.
SyncFirst ==
  /\ \A i, j \in 1..Len(out) :
       i < j /\ out[j] \in SyncChunks => out[i] \in SyncChunks
  /\ synced < SyncLen => wpc = "none"

\* For every interleaving of its two threads, its client and the manager, a session
\* goes through its stages in order, is closed only after its work thread has gone,
\* and never takes the process down after that: not even if its client hangs up then.
LifeKept == Life!Spec

\* The process is brought down only by a client that hung up, that sent a record,
\* or that asked for an image the server does not have: pings, identifications,
\* uploads and downloads of a client that stays connected, however slow or
\* fragmented, never end the process.
TerminationHasCause ==
  process = "terminated" =>
    \/ peer = "gone"
    \/ \E i \in 1..sent : stream[i].kind = "record"
    \/ wpc = "file_name" /\ stored = "none"

\* A connection whose client hung up is retired, unless the process is lost:
\* every blocked read and write of both threads ends, the threads meet in join.
HangupRetires ==
  (peer = "gone" /\ tpc # "created") ~> (end \/ process = "terminated")

\* The receive of a blob or an image ends even if the client stops in the middle.
ReceiveEnds ==
  (wpc \in {"record", "image_data"}) ~>
    (wpc \notin {"record", "image_data"} \/ process = "terminated")
=============================================================================
