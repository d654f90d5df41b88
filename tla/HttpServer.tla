------------------------------ MODULE HttpServer ------------------------------
(***************************************************************************)
(* The HTTP front end: class http_connection and http_server() of          *)
(* CentralServer/main.cpp.  A terminal asks it for the port at which the   *)
(* manager of the connections listens.                                     *)
(*                                                                         *)
(* One thread runs all the handlers.  An operation of a connection is      *)
(* started, completes, and its handler runs some time later: what happens  *)
(* in between is what can go wrong, for the handlers of the other          *)
(* connections and of the deadline run then.  A connection lives as long   *)
(* as one of its handlers holds it.                                        *)
(***************************************************************************)
EXTENDS Naturals

CONSTANTS
  Clients,
  Deadline   \* ticks until the deadline of a connection (60 s)

ASSUME HttpServerAssumption ==
  Deadline \in Nat \ {0} /\ Clients \cap {"pending", "error"} = {}

VARIABLES
  accepted,  \* the outcome of async_accept: "pending", "error", or a client
  peer,      \* each client: "away", "queued" in the backlog, "here" or "gone"
  request,   \* what it has asked for; "long" does not fit the buffer of 8192 bytes
  op,        \* the outstanding read or write: started, completed, or "over"
  deadline,  \* the wait on deadline_
  age,       \* ticks since it was started
  socket,    \* "none", "open", "shut" for sending, "closed"
  response,  \* what process_request has made of the request
  answer     \* what was written to the socket

vars == <<accepted, peer, request, op, deadline, age, socket, response, answer>>
clientVars == <<peer, request>>
timerVars == <<deadline, age>>

Exchange == INSTANCE HttpExchange WITH
  life <- [c \in Clients |-> IF socket[c] = "none" THEN "none"
                             ELSE IF op[c] = "over" /\ deadline[c] = "over" THEN "over"
                             ELSE "open"],
  gone <- {c \in Clients : peer[c] = "gone"}

Init ==
  /\ accepted = "pending"
  /\ peer = [c \in Clients |-> "away"] /\ request = [c \in Clients |-> "none"]
  /\ op = [c \in Clients |-> "none"] /\ socket = [c \in Clients |-> "none"]
  /\ deadline = [c \in Clients |-> "none"] /\ age = [c \in Clients |-> 0]
  /\ response = [c \in Clients |-> "none"] /\ answer = [c \in Clients |-> "none"]

-----------------------------------------------------------------------------
(* The clients and the clock.                                              *)

Connect(c) ==
  /\ peer[c] = "away"
  /\ peer' = [peer EXCEPT ![c] = "queued"]
  /\ UNCHANGED <<accepted, request, op, timerVars, socket, response, answer>>

Ask(c) ==
  /\ peer[c] = "here" /\ request[c] = "none"
  /\ \E asked \in Exchange!Requests : request' = [request EXCEPT ![c] = asked]
  /\ UNCHANGED <<accepted, peer, op, timerVars, socket, response, answer>>

HangUp(c) ==
  /\ peer[c] = "here"
  /\ peer' = [peer EXCEPT ![c] = "gone"]
  /\ UNCHANGED <<accepted, request, op, timerVars, socket, response, answer>>

Tick ==
  /\ age' = [c \in Clients |-> IF deadline[c] = "running" /\ age[c] < Deadline
                               THEN age[c] + 1 ELSE age[c]]
  /\ UNCHANGED <<accepted, clientVars, op, deadline, socket, response, answer>>

-----------------------------------------------------------------------------
(* Accepting.                                                              *)

AcceptCompletes(c) ==
  /\ accepted = "pending" /\ peer[c] = "queued"
  /\ accepted' = c
  /\ peer' = [peer EXCEPT ![c] = "here"]
  /\ UNCHANGED <<request, op, timerVars, socket, response, answer>>

AcceptFails ==
  /\ accepted = "pending"
  /\ accepted' = "error"
  /\ UNCHANGED <<clientVars, op, timerVars, socket, response, answer>>

\* (mutant) The acceptor is not armed again after an error.
AcceptHandlerStops ==
  /\ accepted # "pending"
  /\ IF accepted = "error"
       THEN UNCHANGED <<accepted, socket, op, deadline>>
       ELSE /\ accepted' = "pending"
            /\ socket' = [socket EXCEPT ![accepted] = "open"]
            /\ op' = [op EXCEPT ![accepted] = "reading"]
            /\ deadline' = [deadline EXCEPT ![accepted] = "running"]
  /\ UNCHANGED <<clientVars, age, response, answer>>

\* (mutant) A connection is made without a look at the error.
AcceptHandlerBlind ==
  /\ accepted # "pending"
  /\ accepted' = "pending"
  /\ socket' = [c \in Clients \cup {accepted} |-> IF c = accepted THEN "open" ELSE socket[c]]
  /\ op' = [op EXCEPT ![accepted] = "reading"]
  /\ deadline' = [deadline EXCEPT ![accepted] = "running"]
  /\ UNCHANGED <<clientVars, age, response, answer>>

\* The handler in http_server: the connection gets the socket, starts to read and
\* starts its deadline; then the acceptor is armed again, after an error too.
http_server ==
  /\ accepted # "pending"
  /\ accepted' = "pending"
  /\ IF accepted = "error"
       THEN UNCHANGED <<socket, op, deadline>>
       ELSE /\ socket' = [socket EXCEPT ![accepted] = "open"]
            /\ op' = [op EXCEPT ![accepted] = "reading"]
            /\ deadline' = [deadline EXCEPT ![accepted] = "running"]
  /\ UNCHANGED <<clientVars, age, response, answer>>

-----------------------------------------------------------------------------
(* Reading and writing.                                                    *)

\* A request that came in whole is read, even if the client has gone since.
ReadCompletes(c) ==
  /\ op[c] = "reading" /\ socket[c] = "open" /\ request[c] \notin {"none", "long"}
  /\ op' = [op EXCEPT ![c] = "read"]
  /\ UNCHANGED <<accepted, clientVars, timerVars, socket, response, answer>>

ReadFails(c) ==
  /\ op[c] = "reading"
  /\ socket[c] = "closed" \/ request[c] = "long" \/ peer[c] = "gone"
  /\ op' = [op EXCEPT ![c] = "failed"]
  /\ UNCHANGED <<accepted, clientVars, timerVars, socket, response, answer>>

\* (mutants) Nothing is done with a request that was not read; a GET of any other
\* target than "/connect" is a bad request.
DropFailed(c) ==
  /\ op[c] \in {"read", "failed"}
  /\ response' = [response EXCEPT ![c] =
       Exchange!Deserved(IF op[c] = "read" THEN request[c] ELSE "none")]
  /\ op' = [op EXCEPT ![c] = IF @ = "read" THEN "writing" ELSE "over"]
  /\ UNCHANGED <<accepted, clientVars, timerVars, socket, answer>>
RejectOtherTargets(c) ==
  /\ op[c] \in {"read", "failed"}
  /\ response' = [response EXCEPT ![c] =
       IF op[c] = "read" /\ request[c] = "connect" THEN "port" ELSE "bad"]
  /\ op' = [op EXCEPT ![c] = "writing"]
  /\ UNCHANGED <<accepted, clientVars, timerVars, socket, answer>>

\* process_request, create_response.  A request that was not read is handled all
\* the same: its method then is unknown.
process_request(c) ==
  /\ op[c] \in {"read", "failed"}
  /\ response' = [response EXCEPT ![c] =
       IF op[c] = "failed" THEN "bad"
       ELSE CASE request[c] = "connect" -> "port"
              [] request[c] = "get" -> "empty"
              [] OTHER -> "bad"]
  /\ op' = [op EXCEPT ![c] = "writing"]
  /\ UNCHANGED <<accepted, clientVars, timerVars, socket, answer>>

\* A response is small: an open socket takes it at once.
WriteCompletes(c) ==
  /\ op[c] = "writing" /\ socket[c] = "open"
  /\ answer' = [answer EXCEPT ![c] = response[c]]
  /\ op' = [op EXCEPT ![c] = "written"]
  /\ UNCHANGED <<accepted, clientVars, timerVars, socket, response>>

WriteFails(c) ==
  /\ op[c] = "writing"
  /\ socket[c] = "closed" \/ peer[c] = "gone"
  /\ op' = [op EXCEPT ![c] = "written"]
  /\ UNCHANGED <<accepted, clientVars, timerVars, socket, response, answer>>

\* (mutant) The deadline is not cancelled.
WriteHandlerKeepsTimer(c) ==
  /\ op[c] = "written"
  /\ op' = [op EXCEPT ![c] = "over"]
  /\ socket' = [socket EXCEPT ![c] = IF @ = "open" THEN "shut" ELSE @]
  /\ UNCHANGED <<accepted, clientVars, timerVars, response, answer>>

\* The handler of async_write.  A wait that has completed can no longer be
\* cancelled.
WriteHandler(c) ==
  /\ op[c] = "written"
  /\ op' = [op EXCEPT ![c] = "over"]
  /\ socket' = [socket EXCEPT ![c] = IF @ = "open" THEN "shut" ELSE @]
  /\ deadline' = [deadline EXCEPT ![c] = IF @ = "running" THEN "cancelled" ELSE @]
  /\ UNCHANGED <<accepted, clientVars, age, response, answer>>

-----------------------------------------------------------------------------
(* The deadline.                                                           *)

DeadlineExpires(c) ==
  /\ deadline[c] = "running" /\ age[c] = Deadline
  /\ deadline' = [deadline EXCEPT ![c] = "expired"]
  /\ UNCHANGED <<accepted, clientVars, op, age, socket, response, answer>>

\* (mutant) The socket is not closed.
DeadlineOnlyLogs(c) ==
  /\ deadline[c] \in {"expired", "cancelled"}
  /\ deadline' = [deadline EXCEPT ![c] = "over"]
  /\ UNCHANGED <<accepted, clientVars, op, age, socket, response, answer>>

\* The handler in check_deadline: closing the socket ends the outstanding
\* operation with an error.  The handler may run after that of the write.
check_deadline(c) ==
  /\ deadline[c] \in {"expired", "cancelled"}
  /\ deadline' = [deadline EXCEPT ![c] = "over"]
  /\ socket' = [socket EXCEPT ![c] = IF deadline[c] = "expired" THEN "closed" ELSE @]
  /\ UNCHANGED <<accepted, clientVars, op, age, response, answer>>

-----------------------------------------------------------------------------

Connection(c) ==
  \/ ReadCompletes(c) \/ ReadFails(c) \/ process_request(c)
  \/ WriteCompletes(c) \/ WriteFails(c) \/ WriteHandler(c)
  \/ DeadlineExpires(c) \/ check_deadline(c)

Next ==
  \/ Tick \/ AcceptFails \/ http_server
  \/ \E c \in Clients : Connect(c) \/ Ask(c) \/ HangUp(c) \/ AcceptCompletes(c) \/ Connection(c)

Spec == Init /\ [][Next]_vars

\* ioc.run() runs what has completed; accept does not fail for ever.  Neither the
\* clock nor a client is assumed to make a step.
Fairness ==
  /\ WF_vars(http_server)
  /\ SF_vars(\E c \in Clients : AcceptCompletes(c))
  /\ \A c \in Clients : WF_vars(Connection(c))

FairSpec == Spec /\ Fairness

-----------------------------------------------------------------------------
(* Properties.                                                             *)

\* Every variable has its type.
TypeOK ==
  /\ accepted \in {"pending", "error"} \cup Clients
  /\ peer \in [Clients -> {"away", "queued", "here", "gone"}]
  /\ request \in [Clients -> Exchange!Requests \cup {"none"}]
  /\ op \in [Clients -> {"none", "reading", "read", "failed", "writing", "written", "over"}]
  /\ deadline \in [Clients -> {"none", "running", "expired", "cancelled", "over"}]
  /\ age \in [Clients -> 0..Deadline]
  /\ socket \in [Clients -> {"none", "open", "shut", "closed"}]
  /\ response \in [Clients -> {"none", "port", "empty", "bad"}]
  /\ answer \in [Clients -> {"none", "port", "empty", "bad"}]

\* A connection is over when no handler holds it any more.
Over(c) == op[c] = "over" /\ deadline[c] = "over"

\* Whatever the order in which the handlers of the read, the write and the deadline
\* run, each client gets at most one answer, only while its connection exists, and the
\* one that its request deserves: a 400 goes to a GET only if its client has hung up,
\* and no answer goes to a client that is there and has not asked.
ExchangeKept == Exchange!Spec

\* A connection goes without an answer only if the client hung up or took all of the
\* 60 seconds: an answer is never lost to a deadline that was cancelled too late.
LostAnswerHasCause ==
  \A c \in Clients :
    op[c] = "over" /\ answer[c] = "none" => peer[c] = "gone" \/ age[c] = Deadline

\* The connection of a client that has asked is given up without any help of the
\* clock: the wait on the deadline is not left behind.  (That its answer was written
\* then is LostAnswerHasCause.)
AskedIsReleased ==
  \A c \in Clients : (socket[c] = "open" /\ request[c] # "none") ~> Over(c)

\* At the deadline a connection ends, whatever its client does or fails to do.
DeadlineEnds ==
  \A c \in Clients : (deadline[c] = "running" /\ age[c] = Deadline) ~> Over(c)

\* A client in the backlog is taken, however often accept has failed before.
QueuedIsTaken ==
  \A c \in Clients : peer[c] = "queued" ~> socket[c] # "none"
===============================================================================
