# LFRServer: specification, model checking and proofs

LFRServer (`src/CentralServer`) is a C++ server for the terminals of checkpoints
("LFR clients").  It keeps a list of personal cards and a directory of images,
sends both to the terminals, and takes card changes, passing events and images
from them.  This directory specifies it in TLA+.  Every definition of the
modules is translated from the sources; the table `map` of `PROJECT.json` names
the lines of each one.

## 1. The system

| component | source | state | operations | talks to |
|---|---|---|---|---|
| `LFRConnection` | `lfrconnection.{h,cpp}` | `running`, `end`, socket, streambuf, `lastPing`, `queries`, thread `t` and the work thread | `start`, `stop`, `fullSyncronisation`, `personalCardAdded/Edited/Deleted`, `restartQuery`, `sending`, the receives, `sendImage` | the client over TCP; the manager by calls; `./img` |
| `LFRConnectionsManager` | `lfrconnectionsmanager.{h,cpp}` | acceptor, list of connections, the card manager | `accepting`, `acceptNewConnection`, `personalCardAdded/Edited/Deleted`, `newPassingEvent`, `run` | each connection's queue |
| `PersonalCardManager` | `personalcardmanager.{h,cpp}` | the vector of cards | `addCard`, `editCard`, `deleteCard` (2), `loadCards`, `saveCards`, `updateCards` | `Cards.json` |
| query queue | `lfrconnection.h:81` | a `std::queue` per connection | push by many threads, front/pop by one | manager, `sending` |
| image files | `lfrconnection.cpp:375-403` | files in `./img` | written whole, measured, read | all connections |
| HTTP front end | `main.cpp:29-156` | one `http_connection` per request, a 60 s deadline | read, answer ("/connect" gives the port 8081), shut down, close | browser or client |
| process start | `main.cpp:158-213` | two io_contexts, two threads | create, run, exit on an exception | all |

A connection has two threads.  Thread `t` writes the whole card list, starts the
work thread, then runs `sending()`: every 100 ms it looks at the 10 second limit
and writes the queries that the manager has queued.  The work thread blocks in
`read_until` for a line, then does what the line asks for; the bodies of records
and images are read asynchronously with `context.run_for(3 s)`.  `running` is
cleared by either thread and by `stop()`; thread `t` then joins the work thread,
closes the socket and sets `end`.  Nothing in either thread catches an
exception, so an exception there ends the process (`std::terminate`).

What is hard here: two threads and a client that share one socket and three
flags with no lock; a streambuf from which three kinds of read take, with
messages pipelined behind one another; reads and writes that fail at any point
because the client hangs up; two timeouts (10 s of silence, 3 s per receive)
that race what they wait for, one of which leaves a handler behind; a join
before the close; the card list and the connection list shared by all
connections' threads without a lock; nothing written back to `Cards.json`.
`PROJECT.json`, "hazards", lists these at their lines.

What makes each part correct:

* `LFRConnection`: it keeps its place in the client's stream; a receive ends,
  and what it leaves behind is never run; files are whole; the synchronisation
  comes first; the socket is closed under nobody; a dead connection is retired;
  the process survives a well-behaved client.
* `PersonalCardManager`: add, edit and delete touch the card they name and no
  other; loading what was saved gives the same list; no index is out of range.
* `LFRConnectionsManager`: a terminal has every card of the list, from its
  synchronisation or from its queue; a change is put once into the queue of each
  terminal that has begun to synchronise; the announced number of cards is the
  number sent.
* HTTP front end: one response per request, the one it deserves; the deadline
  never costs a client an answer that was in time, and always ends a connection.
* Image files: an image comes back as it was sent.
* Process: a port is told only when it is open; a terminal that asks or connects is
  served, or the process ends.

## 2. Modules

| module | content |
|---|---|
| `LFRConnection` | one connection: both threads, the client, the clock, the manager's calls; its properties |
| `SessionLife` | the abstract life of a session, which `LFRConnection` implements |
| `MCLFRConnection` | the same as `LFRConnection` for TLC, with the claims of the repository that the runs refute |
| `LFRConnectionProofs` | the theorems about `LFRConnection` and their proofs |
| `CardList` | what the operations of the card manager make of a list of cards: pure operators |
| `CardListProofs` | the lemmas and theorems about these operators, for every list |
| `PersonalCardManager` | the vector of cards, its file, and a process that may be lost; its properties |
| `MCPersonalCardManager` | the same for TLC, with the claim that a run refutes |
| `PersonalCardManagerProofs` | the theorems about `PersonalCardManager` and their proofs |
| `LFRConnectionsManager` | the accept loop, the list of connections, broadcasts and synchronisations; its properties |
| `MCLFRConnectionsManager` | the same for TLC |
| `LFRConnectionsManagerProofs` | the theorems about `LFRConnectionsManager` and their proofs |
| `HttpExchange` | what the HTTP front end promises each client: the abstract specification |
| `HttpServer` | the front end, handler by handler; its properties |
| `HttpServerProofs` | the theorems about `HttpServer`, with the proof that it implements `HttpExchange` |
| `ImageStore` | one file of `./img` under concurrent uploads and downloads; its properties |
| `MCImageStore` | the same for TLC, with the claim that a run refutes |
| `ImageStoreProofs` | the theorems about `ImageStore` and their proofs |
| `LFRServer` | the whole program: `main()`, the loss of the process, and the way of a terminal through both ports |
| `LFRServerProofs` | the theorems about `LFRServer` and their proofs |

`PersonalCardManager` and `LFRConnectionsManager` both build on `CardList`: the
first for every operation of the class, the second for the three that a
broadcast makes.  `LFRServer` composes the parts by what their own modules say
of them: the exchange with the front end is one step (`HttpExchange`), a session
one step to its end or to the loss of the process (`SessionLife`).

### `LFRConnection`

`tpc` and `wpc` say where thread `t` and the work thread are; a place is a
blocking call, or a point where the other thread can come between.

| place | code |
|---|---|
| `tpc = "sync"` | the next `write` of `fullSyncronisation` (155-164), or the start of the work thread (32) |
| `"sending"` | the top of `while(running)` in `sending` (206-213) |
| `"draining"` | `while(!queries.empty())` (216), its `write` (227-249), or the sleep (257) |
| `"joining"`, `"closing"`, `"ended"` | `workThread.join()` (138); before `end = true` (141); done |
| `wpc = "loop"`, `"reading"` | `while(running)` (37); `read_until` with an error code (40) |
| `"my_id"`, `"image_name"`, `"image_length"`, `"file_name"` | `read_until` without one: 53, 351, 354, 385 |
| `"record"`, `"image_data"` | inside `context.run_for`: 327 and 342, 371 |
| `"sending_image"`, `"size"`, `"data"` | the writes 128, 401, 402 |

The bytes are abstracted to units: a line, a blob closed by `!end!`, or one of
`ImgLen` pieces of an image.  `stream` is what the client has undertaken to
send, a sequence of whole messages; `sent`, `received` and `consumed` are
cursors into it.  The streambuf is `stream[consumed + 1 .. received]`: reads move
`received` by any amount TCP may deliver (`ReadSome`, `ReadImageData`), and
`getline` moves `consumed`.  `Missing` is `length - buffer.size()` in `size_t`:
it wraps when the buffer holds more than the image, and `transfer_exactly` then
waits for what never comes.  The four messages with a JSON body differ in
nothing the properties tell apart, so they are one kind, `"record"`; a line that
no branch takes is `"ping"`.

An exception is the action that meets it (`WriteThrows`, `ReplyThrows`,
`IdReadThrows`, `NameReadThrows`, `RecordHandlerThrows`, `OpenImageThrows`):
`process` becomes `"terminated"` and nothing happens any more.
`RecordHandlerThrows` is the only way out of a record that is complete:
`personalCardFromJSON` (280) and `passingEventFromJSON` (307) discard the result
of `json::parse`, and a null `j["id"]` does not convert to a string.

Assumptions of the model.  The client sends well-formed messages in any order
and may stop or hang up between two units; it reads when it likes.  An upload stores
its file or, where `./img` does not exist, nothing (`ImageHandler`).  A write to a
client that hung up succeeds or throws.  The manager's calls (`PushQuery`,
`Stop`) are those of the class's public interface and come at any time; in the
present program the only callers of the pushes are other connections' work
threads, behind receives that throw.  Each operation on the queue and on a flag
is atomic (`running`, `end`, `lastPing` and `queries` are plain members: their
data races are not modelled here).  `running` is not initialised by the
constructor, so `Init` leaves it open.  The clock (`Tick`) advances `idle` and
`waited` up to their limits; a tick may come between any two steps, so a
timeout may beat an answer that is already there.

### `CardList` and `PersonalCardManager`

A card is its id and a text that stands for the other strings; `Blank` is what
`std::move` leaves of one.  `SameId` is the predicate of the two `find_if` as it
is compiled: the lambda's parameter is called `card` like the function's, hides
it, and is compared with itself.  So `Added` appends to an empty list only, and
`Edited` overwrites the first card.  `RemoveIf` is `std::remove_if` without an
`erase`: the cards to keep in front, each at its `Place` among them, then what the
moves left behind, the length unchanged.  `RemoveIfLoop` is the library's loop,
element by element; `CardListProofs` proves (`RemoveIfIsLoop`) that the closed form
is what it computes.  That is about the definitions; what a deletion achieves is
`DeletionKeepsOthers`: the other cards are afterwards those of before, one for one
and in their order, whatever blanks and doubles earlier calls have left.  That the
deleted card itself goes is not true of this code: with no card to keep behind it,
`remove_if` leaves it where it is.

The file is missing, torn (not JSON) or whole; an entry of a whole file may lack a key.
`Construct` is the constructor of `LFRConnectionsManager` (12-14) with all of
`loadCards`; when that throws, `main` returns and the server is `"refused"`.
`StartSaving` and `FinishSaving` are the two moments of `saveCards` that a lost process
can come between: the `ofstream` empties the file when it is opened (82) and gets the
text when it is closed (83).  `WriteFails` is the same when the text does not all get
there (a full disk): nobody looks at the stream (82-84).  `ToSize` is the conversion of
`deleteCard(int)`'s index in `cards.size() <= cardIndex` (31).

Assumptions.  The strings of a card are valid UTF-8 (otherwise `file << j` would
throw).  All operations of the class are called, in any order, by one caller at
a time; in the present program `deleteCard(int)`, `saveCards` and `updateCards`
have no caller.

### `LFRConnectionsManager`

| variable | code |
|---|---|
| `cards` | `cardManager.cards` |
| `listed` | length of `connections`; its nodes are 1..`listed` in the order of `push_back` |
| `rearm` | `acceptNewConnection` has returned, `accepting()` is next (22-23) |
| `conn[c]` | `"pending"` in `async_accept`, `"failed"` when that gave an error, `"started"`, in `"sync"`, `"live"` (the synchronisation is over) |
| `announced`, `walked`, `checked` | `fullSyncronisation`: the size it wrote (157), `i`, between the loop's condition and `at(i)` (160-162) |
| `cursor[c]`, `making[c]` | the iterator of the range-for in the work thread of `c` (47, 56, 65), and the change it broadcasts |
| `heard[c]` | every change ever pushed into `queries` of `c`, in order |
| `bringing[c]` | the card that the broadcast of `c` carries, `Blank` for a deletion |
| `blocked[c]` | thread `t` of `c` is in a `write` of its synchronisation (156, 158, 163) that waits for the client to read |
| `origin`, `seen` | history: who made each change; how many there were when `c` read the size |
| `known[c]` | history: the cards that `c` was sent, was told of through its queue, or made |
| `moved[c]` | history: a deletion has moved cards while `c` was synchronised |

`Change` is a work thread's call up to the first node of the list (the card
manager's operation and `begin()`), `Visit` one round of the loop.  Between two
rounds anything may happen: other broadcasts, accepts, synchronisations.  Each write
of a synchronisation may find the socket full (`Writes`): it then waits for the client
(`Drain`), for ever if that does not read, for no timeout guards it.  A push into a
queue waits for nobody.  A connection that is over stays on the list and, for the
manager, is one that makes no more changes: nothing compels a connection to make one.

`ListIsKnown` relates the two ways by which a terminal learns of the cards: when no
broadcast is under way, every card that the list holds was sent to, queued for or made
by each synchronised terminal.  It says nothing of a card that the list does *not*
hold: an addition that `addCard` drops is told to the terminals that are there, and a
terminal that synchronises later has it neither in its queue nor in its
synchronisation (`AddedIsListed`).  It has one exception, and TLC finds a
counterexample without it (`moved`): `deleteCard` moves the cards behind the
deleted one forward, so a deletion during the walk of a synchronisation can bring a
card that is yet to be sent to a place that the walk has passed.  From `<<c, b>>`, `c`
is sent, then `c` is deleted, the list is `b` and a blank, and the walk goes on with
the blank: the terminal never hears of `b`.

Assumptions.  Each operation on the vector, on the list of connections and on a
queue is atomic; the code takes no lock (`connectionMutex` is never used), so the
module shows what holds of the *order* of the calls, and says nothing of torn
reads.  The module takes the class by its interface: in the present program
`personalCardAdded`, `-Edited` and `-Deleted` are called only after a record has
been received, and that ends the process (`session_record`).  The loss of the
process is left out here, and with it a write of a synchronisation that throws because
the client hung up, which is one (`WriteThrows` of `LFRConnection`).

### `SessionLife`

The stages of a session (`created`, `synchronising`, `serving`, `stopping`,
`closed`, `ended`) against its second thread, its client and the process.
`LFRConnection` maps `tpc` and `wpc` to it (`Life`); `LifeKept` says
that each of its steps is a step of `SessionLife` or changes none of this.

### `HttpServer`

One thread runs `ioc`, so a handler is one step; an asynchronous operation has
three: it is started, it completes, its handler runs.  `op[c]` is the outstanding
read or write, `deadline[c]` the wait on the timer; each handler holds the
connection by `self`, so it is over when both are.

| state | code |
|---|---|
| `accepted` | the outcome of `async_accept` whose handler (150-155) has not run |
| `op = "reading"`, `"read"`, `"failed"` | `async_read` (65) started, or completed, its handler (66-72) not yet run |
| `op = "writing"`, `"written"`, `"over"` | the same for `async_write` (122) |
| `deadline = "running"`, `"expired"`, `"cancelled"`, `"over"` | `async_wait` (134), its outcome, and after the handler (135-142) |
| `socket` | `"shut"` after `shutdown_send` (124), `"closed"` after `close` (140) |

`process_request` is the handler of the read with `process_request`, `create_response`
and `write_response`: it does not look at the error (69), so a request that was not read
is answered, with the method it was made with, as invalid.  `HttpExchange` allows for
that: an exchange gives the answer that its request deserves, or a 400 to a client that
has hung up (`gone`, which `HttpServer` maps to the peers that have), and nothing else.
`deadline_.cancel()` (125) does nothing to a wait that has completed: then
`check_deadline` closes a socket that was answered.

Assumptions.  A response fits the send buffer, so an open socket takes it at
once.  A request that has come in whole is read even if its client hung up.
Each client makes one connection and one request (`keep_alive(false)`).

### `ImageStore`

The file is a sequence of units that carry the name of their upload.
`OpenForWriting`, `WriteUnit`, `Close` are `writeImage` (375-380); opening
truncates the file, and each stream writes at a position of its own, so writing
beyond the end of a file that another upload has truncated leaves blanks.
`OpenForReading`, `Measure`, `ReadUnit`, `Send` are `sendImage` (382-403): the
size is measured, a string of that many blanks is made, and the bytes are read
over them, up to the end the file has *then*.  Without the directory every
operation of an upload fails in silence; a missing file throws in the download
(its size is -1), which ends the process.  `latest`, `mixed` and `source` are
history: who opened the file last, which uploads were not alone, and the upload
that a download has to find.

Assumptions.  A write or a read may be cut anywhere, unit by unit; closing a
file loses nothing; the disk does not fill up, and a lost process does not lose
what it has written.  The name is always the same; files with different names
have nothing in common.

### `LFRServer`

`stage` follows `main` (175-213): the logger, the acceptor of 8080, the acceptor
of 8081 and then the cards (`LFRConnectionsManager`'s constructor), `accepting`,
the thread, `ioc.run()`.  A port takes connections from its acceptor's
construction on.  Those at 8081 are accepted as soon as the manager's thread is there
(`StartThread`, 197-200), those at 8080 when `ioc.run()` is reached (`RunFrontEnd`,
205): a terminal that was told the port by an earlier run of the process can be
served in between.  `StartFails` is the
catch (207-211).  An exception in a thread is `Terminate`: of a session, by
`TerminationHasCause`, or of the manager's thread when a session's thread cannot
be made.  `StartThreadFails` is the one exit on which a connection is destroyed:
its `shared_ptr` was made from the raw pointer of the manager
(`lfrconnection.cpp:16`), which it deletes though it lies on the stack of `main`;
what then happens is undefined, so the process is `"failed"` or `"lost"`.  Who owns
what is not modelled otherwise.
`Restart` is external: the image is run without a restart policy.

The nodes of the list that have ended stay on it (`Leave`): the loop that would
remove them is commented out (`lfrconnectionsmanager.cpp:29-39`).

## 3. Runs

`CHECK_DEADLOCK FALSE` everywhere: a connection stops when it has ended or the
process has, a server that was refused does nothing, a manager whose bounds are
used up waits for ever, and clients, uploads and downloads come to their end;
none of these is an error.

| run | bounds | what it shows |
|---|---|---|
| `session_input` | image of 2 units, 6 units of stream, send buffer of 1 | `TypeOK`, `FramingKept`, `NoStaleHandler`, `TornOnlyAfterHangup`, `TerminationHasCause` |
| `session_threads` | 2 cards, 2 queries, limit of 2 ticks, send buffer of 3 | `ClosedUnused`, `SyncFirst`, `LifeKept` (the refinement of `SessionLife`) |
| `session_liveness` | 4 units, 1 query, fair | `HangupRetires`, `ReceiveEnds` |
| `session_idle` | 1 unit, fair | refutes `IdleDisconnect` |
| `session_record` | 2 units | refutes `RecordsReceived` |
| `cards` | 3 ids, files and updates of up to 3 cards, indices -1, 0, 1, 9 | `TypeOK`, `IndexInRange`, `RefusedHasCause`; `DeletionKeepsOthers`, `LoadedWhole` |
| `cards_add` | 2 ids, up to 2 cards | refutes `AddedIsListed` |
| `manager` | 3 connections, 2 changes, a list of 0 or 2 cards, a third card that is brought, fair | `TypeOK`, `QueuedSince`, `ListIsKnown`, `HeardInOrder`, `SyncInRange`, `AnnouncedIsSent`; `SyncEndsEventually`, `ChangeReachesAll` |
| `http` | 2 clients, a deadline of 1 tick, fair | `TypeOK`, `LostAnswerHasCause`, `ExchangeKept` (the refinement of `HttpExchange`); `AskedIsReleased`, `DeadlineEnds`, `QueuedIsTaken` |
| `images` | 3 uploads of 1, 2 and 2 units, 2 downloads | `TypeOK`, `LatestIsWhole`, `UndisturbedIsWhole` |
| `images_mixed` | 2 uploads of 1 and 2 units, 1 download | refutes `StoredIsAPhoto` |
| `server` | 3 terminals, 1 failing accept, 2 starts, fair | `TypeOK`, `PortOpenWhenTold`; `TerminalsServed` |

Why the bounds are enough.  Six units hold an image upload (5) with a message of
one unit in front of it or behind it, so the buffer can hold nothing, part of the
image, the image, or the image and more when the length is read; two pieces of
image are the least that let a receive stop in the middle.  `SizeT` = 64 is
larger than anything that is sent, as 2^64 is, so a wrapped length is never
reached.  A send buffer of one chunk makes every write a possible block; three
chunks let the client see sequences out of order.  The limits need one tick to be
told from zero; `session_threads` has two, so that the silence may be interrupted.

Three cards are the least on which a deletion moves one card over two places, and
four (a file of three and a card more) the most that a list can have.  The
indices are one below, two within and one past the list; `SizeT` = 256 leaves
the negative one as far above every length as 2^64 does.  Three connections let
two broadcasts cross at a third one that is being accepted or synchronised, or
one origin make both changes while the third comes in.  Two cards are the least that a
walk is between, and the card that is brought is in neither list, so it is one that a
terminal can know only from a walk that finds it, from its queue or from itself; an
edit with it takes the place of the first card, and a deletion of it moves the others.

Connections of the front end share nothing but the acceptor and the thread, so
two of them show how their handlers cross; one tick separates an answer in time
from one at the deadline, which may come at any point of it.  Two long images
and a short one let each length overwrite each other one, and a third upload
come upon what two have mixed.  Three terminals let one be served, one wait and
one be told across a restart; a second start is the least that makes a port
stale.

Fairness of `LFRConnection` (`FairSpec`): weak fairness of each thread's own
steps, and of the clock, while the process is up.  The operating system schedules
both threads; each has at most one thing to do at a time, and a blocked call
becomes a step as soon as its data, its room or its error is there.  Nothing is
assumed of the client or of the manager: they need not send, read, hang up or
call.

Fairness of `LFRConnectionsManager`: weak fairness of each broadcast, whose pushes do
not block, and of each synchronisation, none of whose steps is enabled while its write
waits for the client; both are threads that the operating system schedules.  Clients
need not connect, change anything or read (`Drain` has no fairness), so
`SyncEndsEventually` is said of a client that does not stop reading
(`[]<>~blocked[c]`).  `ChangeReachesAll` needs no such premise.  With infinitely many
accepts a walk might never reach the end of the list; the runs bound the
connections, so `ChangeReachesAll` is said of the connections that are there.

Fairness of `HttpServer`: weak fairness of the accept handler and of each
connection, for `ioc.run()` runs every handler that is ready, and of the kernel,
which completes what can be completed.  Accepting has strong fairness, taken over
all clients together: a failing accept takes the turn of one that would succeed,
and the operating system does not let all of them fail for ever.  The clock is not
fair: `DeadlineEnds` starts where the deadline has been reached, and
`AskedIsReleased` does without it.

Fairness of `LFRServer`: `main` goes on, the manager's thread accepts, the front
end answers each terminal that asks.  No terminal need connect or leave.

The refuted claims (`PROJECT.json`, "findings"):

* `IdleDisconnect` - the log line 210 says a silent client is disconnected; the
  trace ends with thread `t` in the join and the work thread in `read_until`.
* `RecordsReceived` - the README says the server receives cards and events; the
  first one that arrives ends the process.
* `AddedIsListed` - the lambda that hides its card: only the first card of all is
  ever added; the others are told to the terminals of the moment and to none that
  comes later.  By the same lambda `editCard` overwrites the first card of the list
  (`Edited`), and a deletion leaves the list as long as it was (`RemoveIf`).
* `StoredIsAPhoto` - the README says the server stores photos; two terminals that
  upload the same name at a time leave a file that is neither.

`HangupRetires`, `TerminationHasCause`, `TornOnlyAfterHangup`, `LatestIsWhole`
and `UndisturbedIsWhole` say what is left of those claims: a client that is silent
*and then hangs up* is retired; only a hang-up, a record or a missing image brings
the process down; only a hang-up damages an image on its way in, and only another
upload or a lost process on the disk.

## 4. Proofs

`LFRConnectionProofs` proves the safety properties of the two passing runs for
every value of the constants, from `LFRConnectionAssumption` only (naturals,
non-zero limits, an image and a stream shorter than `SizeT`).

* `TypeCorrect`: `TypeOK` is inductive by itself; one step per action.
* `ClosedUnusedHolds`, `SyncFirstHolds`: through `ThreadInv`, which adds where
  the work thread is and what `running` says for each place of thread `t`, and
  that nothing but the synchronisation has been written before it is complete.
  Neither property is inductive alone: that the socket is closed under nobody
  needs that an exited work thread stays so, and that no other action closes it.
* `FramingHolds`, `TornOnlyAfterHangupHolds`, `TerminationHasCauseHolds`:
  through `StreamInv`.  `Blocks` says that each unit of the stream belongs to a
  message that is there as a whole; `Placed` gives, for each place of the work
  thread, the unit it consumed last; `Counted` says that what is still asked for
  is what the buffer lacks, in `size_t`.  The heart is the image receive: if
  nothing is missing any more, the buffer is exactly the image
  (`NothingMissing`: a wrapped length cannot be used up by a stream shorter than
  `SizeT`), so the file is whole and the next unit begins a message.
* `NoStaleHandlerHolds`: inductive with `ThreadInv`.

TLC checked the strengthenings on the instances of the runs before they were
proved.

* `LifeKeptHolds`: `LFRConnection` implements `SessionLife`.  With `TypeOK` and
  `ThreadInv` each action maps to one of its steps or to a stutter; what the
  invariant is needed for is `Close` (the work thread has exited) and `Lose` (a
  thread that throws is running, or its client has gone).

`HttpServerProofs`, for any set of clients and any deadline:

* `TypeCorrect`, `LostAnswer`: `Caused` makes `LostAnswerHasCause` inductive by
  looking one step further back: a write that has completed without an answer
  met a client that had gone or a socket closed at the deadline, and a socket is
  closed only when the age has reached it (`NotServed`, `NotAnswered` and
  `Fitting` tie `op`, `deadline`, `socket` and `response` together).
* `Exchanges`: the refinement.  `Init` implies `Exchange!Init`, and each action is
  a step of one client's exchange or a stutter; `Fitting` gives that what is
  written is what the request deserves, unless the client has hung up or the deadline
  has closed the socket, and then nothing can be written.

`ImageStoreProofs`, for any uploads, downloads and sizes:

* `LatestWhole`, `UndisturbedWhole`: neither is inductive.  `FileInv` says what the
  file is *while* the latest upload is alone in writing it (its own units up to the
  position of its stream), `UploadsInv` that two open uploads are both mixed, and
  `DownloadsInv` that a download whose source stands has read a part of it.

`LFRServerProofs`, for any number of terminals, failing accepts and starts:

* `PortOpen`: through `Stages`, which says for each place in `main` what is open and
  who can be served.

`CardListProofs`, for every list, every card and every id.  What a recursive
function computes is an induction over data, which the provers cannot take from
the library (its theorems have an operator for a parameter).  `NatInduct` is the
same principle said of a *set*: a set that holds 0 and with each number the next
holds every natural number, for otherwise the least one outside of it
(`LeastNat`, from the library's well-founded order of the numbers) had no
predecessor.  With it:

* `PlaceStep`, `PlaceOrder`, `PlaceUnique`, `PlaceLast`: the cards that stay get the
  places from 1 on, in their order, one each (`Place` counts with `Cardinality`).
* `LoopDefined`, `LoopInv`: the loop of `std::remove_if` is a function, and after
  each round the cards that stay are in their places, a card that was moved away has
  left a blank, and the rest is as it was.
* `RemoveIfIsLoop`: so the closed form `RemoveIf` is what the loop leaves.
* `RemoveIfKeepsOthers`, `AddedAndEdited`: what the three operations do to the cards
  that they do not name.  A deletion loses none and keeps their order; an addition to
  a list that is not empty does nothing, and an edit replaces its first card.
* `ListOperations`: they take lists to lists, and none but an addition or an edit of
  an empty list changes the length.  The two modules above use this one.

`PersonalCardManagerProofs`, from `PersonalCardManagerAssumption`: no id or text is
the blank one, no id is `"absent"`, and `size_t` can count the longest list besides
the negative indices.

* `TypeCorrect`: inductive by itself, with the bound of the list: `Added` and
  `Edited` grow an empty list only, so one card more than a file brings is the most.
* `IndexInRangeHolds`: a negative index becomes `SizeT + index`, which is no smaller
  than any length the list can have; the bound on the lengths is `TypeOK`.
* `RefusedHasCauseHolds`: through `FileInv`.  A process that ran has found a file
  that loads, and every file that it has finished writing loads again (a moved-from
  card has its keys, with empty strings), so only one that it was writing is refused.
* `DeletionKeepsOthersHolds`: from `RemoveIfKeepsOthers`, whose places are the ones of
  the cards that stay, for every deletion of every behaviour.
* `LoadedWholeHolds`: a file that does not throw has no entry without a key, so the
  part of it that is read before one is all of it.

`LFRConnectionsManagerProofs` proves the safety properties of the run `manager`, from
`LFRConnectionsManagerAssumption` (the initial lists are lists of cards, clients bring
cards, there is a connection) for every number of connections, changes and cards.

* `SyncInRangeHolds`, `AnnouncedIsSentHolds`: through `WalkInv`.  The argument
  rests on `ListOperations`: no operation shortens it, and only an empty one grows.  Both
  theorems would fall with a `deleteCard` that erases: the faults of the card
  manager are what keeps `at(i)` in range.
* `HeardInOrderHolds`: `HeardInOrder` is not inductive, for nothing in it says
  that the change about to be put into a queue is a new one.  `PassedInv` says
  it: a change in the queue of `c` is older than the one its origin now makes,
  or is that one, and the walk has passed `c`.
* `QueuedSinceHolds`: through `ToldInv`, which adds the changes that are still
  on their way: the walk stands at or before `c`.  That a walk cannot end before
  `c` needs `Listing`: a connection that synchronises is on the list.
* `ListIsKnownHolds`: through `KnownInv`: for a terminal whose walk no deletion has
  disturbed, each card at a place that its walk has passed is one that it knows, or a
  broadcast that has yet to come to it carries the card (`Comes`).  An addition or an
  edit during the walk may put a card behind it, and its broadcast then has the card
  (`AddsPlaces`); that the broadcast cannot end before `c` is `Listing` again.
* `ExactlyOnce`: from both.  When no broadcast is under way, each change that another
  connection has made since `c` wrote its size is in the queue of `c` once.
* `TypeCorrect`: `TypeInv` is inductive but says only that the numbers are numbers;
  that each of them counts changes which were made is `CountInv` with `PassedInv`.
* `WalksAdvance`: below.

### Towards liveness

Liveness under fairness needs ENABLED, about which the provers do not reason, and
mostly an induction over a number of cards, connections or units.  What carries the
argument of four liveness properties, and of a part of a fifth, is proved all the
same.

* `WorkIsBounded` (`HttpServerProofs`): once a client has asked, or has had its time,
  `Left` (the handlers still to run, six at most) falls with each handler of its
  connection and never rises, and until the connection is over one of its guards
  holds (`Ready`).  The last needs `Spent`: a socket that is shut, and a wait that is
  cancelled, belong to a write that is over; a wait that is over while the
  operation is not has closed the socket.
* `Released`: hence `AskedIsReleased` and `DeadlineEnds` for each client, under the
  weak fairness of its connection that `Fairness` has.
* `AskingIsAnswered` (`LFRServerProofs`): the first half of `TerminalsServed` in the
  same way, along the stages of `main`: a terminal that asks before anybody answers
  is told the port, or the process ends.  The invariant is `Asks`: nobody waits at a
  port of a process that is not on its way up or running.
* `WalksAdvance` (`LFRConnectionsManagerProofs`): the variants behind
  `ChangeReachesAll` and `SyncEndsEventually`.  `NodesLeft` falls with each visit of a
  broadcast, `SyncLeft` with each step of a synchronisation (which may have to wait
  for its client, but loses nothing by it); nodes that are appended
  and cards that are changed by other threads do not raise them (a deletion that
  erased would not either, but an addition that worked would).

`Released` and `AskingIsAnswered` have one premise besides fairness: that a step is
ENABLED when its guard holds (`ReadyIsEnabled`, `GoesOnIsEnabled`).  It is a hypothesis
of these theorems and is not proved.  No run evaluates it either: it is a matter of
reading the actions, each of which has that guard and gives every variable a value.

Only model-checked: the liveness properties themselves, as the runs state them.
`HangupRetires`, `ReceiveEnds`, `QueuedIsTaken` and the second half of
`TerminalsServed` (a queue of any length behind one acceptor) are not proved in any
part.  Every invariant and every action property of a passing run is a theorem.

## 5. Not modelled

* The data races on the `std::queue` of a connection (`lfrconnection.cpp:173`) and
  on the vector of cards (`personalcardmanager.cpp:17`): every operation on them is
  atomic here.  What a race does is decided by the containers of the C++ library,
  which the repository does not hold; a model of it would be one of that library.
  The plain flags `running` and `end` are single words, written whole.
* How a client tells the reply to "get image" from a query that `sending()` writes
  into it (`lfrconnection.cpp:128`): the models have the writes and their order,
  but no text of the repository states the protocol, so there is no claim to check.
* `init_logging` and the log lines: no state of the program depends on them.
* `json.hpp` (nlohmann) and the boost libraries (vendored under `src/build`) are
  third-party code that the tree carries; they are modelled by what this program
  relies on, at the place where it does, and the definitions of boost's own reads,
  writes, timers and buffers are external in the map.
* The make and docker files, beyond the surroundings they give the program: no
  `img` directory, no `Cards.json`, no restart policy.
* Larger instances of `ImageStore` with several names, and of `LFRServer` with a
  session of more than one step: the names are independent, and the steps of a
  session are `LFRConnection`.

All components of the program itself are modelled, with the query queue as far as
its operations are atomic.  What could still be added is the two races above,
under a memory model and with the containers' own steps.
