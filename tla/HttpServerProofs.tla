--------------------------- MODULE HttpServerProofs ---------------------------
(***************************************************************************)
(* HttpServer has its types and implements HttpExchange, for any number of *)
(* clients and any deadline.                                               *)
(***************************************************************************)
EXTENDS HttpServer, TLAPS

Life(c) == IF socket[c] = "none" THEN "none"
           ELSE IF op[c] = "over" /\ deadline[c] = "over" THEN "over"
           ELSE "open"

\* A client that is not being served has no socket; one that is has a read or a
\* write under way, and nothing is answered before the write.
NotServed ==
  /\ \A c \in Clients : socket[c] = "none" <=> op[c] = "none"
  /\ \A c \in Clients : socket[c] = "none" <=> deadline[c] = "none"
  /\ \A c \in Clients : peer[c] \in {"away", "queued"} => socket[c] = "none"
  /\ accepted \in Clients => socket[accepted] = "none" /\ peer[accepted] \in {"here", "gone"}

NotAnswered ==
  \A c \in Clients :
    op[c] \in {"none", "reading", "read", "failed", "writing"} => answer[c] = "none"

\* What is about to be written is deserved, unless the write fails or the client has
\* hung up.
Fitting ==
  \A c \in Clients :
    /\ op[c] = "read" => request[c] \notin {"none", "long"}
    /\ op[c] = "failed" => socket[c] = "closed" \/ request[c] = "long" \/ peer[c] = "gone"
    /\ op[c] = "writing" =>
         \/ socket[c] = "closed"
         \/ request[c] # "none" /\ response[c] = Exchange!Deserved(request[c])
         \/ peer[c] = "gone" /\ response[c] = "bad"

\* Only the deadline closes a socket, and only a closed socket or a client that has
\* hung up makes a write fail.
Caused ==
  \A c \in Clients :
    /\ deadline[c] = "expired" \/ socket[c] = "closed" => age[c] = Deadline
    /\ op[c] \in {"written", "over"} /\ answer[c] = "none" =>
         peer[c] = "gone" \/ age[c] = Deadline

IInv == TypeOK /\ NotServed /\ NotAnswered /\ Fitting /\ Caused

-------------------------------------------------------------------------------
(* Every variable keeps its type.                                          *)

LEMMA TypeInit == Init => TypeOK
  BY HttpServerAssumption DEF Init, TypeOK, Exchange!Requests

LEMMA TypeNext == TypeOK /\ [Next]_vars => TypeOK'
  <1> SUFFICES ASSUME TypeOK, [Next]_vars PROVE TypeOK'
    OBVIOUS
  <1> USE HttpServerAssumption DEF TypeOK, clientVars, timerVars, Exchange!Requests
  <1>1. CASE Tick
    BY <1>1 DEF Tick
  <1>2. CASE AcceptFails
    BY <1>2 DEF AcceptFails
  <1>3. CASE http_server
    BY <1>3 DEF http_server
  <1>4. ASSUME NEW c \in Clients, Connect(c) PROVE TypeOK'
    BY <1>4 DEF Connect
  <1>5. ASSUME NEW c \in Clients, Ask(c) PROVE TypeOK'
    BY <1>5 DEF Ask
  <1>6. ASSUME NEW c \in Clients, HangUp(c) PROVE TypeOK'
    BY <1>6 DEF HangUp
  <1>7. ASSUME NEW c \in Clients, AcceptCompletes(c) PROVE TypeOK'
    BY <1>7 DEF AcceptCompletes
  <1>8. ASSUME NEW c \in Clients, ReadCompletes(c) \/ ReadFails(c) PROVE TypeOK'
    BY <1>8 DEF ReadCompletes, ReadFails
  <1>9. ASSUME NEW c \in Clients, process_request(c) PROVE TypeOK'
    BY <1>9 DEF process_request
  <1>10. ASSUME NEW c \in Clients, WriteCompletes(c) \/ WriteFails(c) PROVE TypeOK'
    BY <1>10 DEF WriteCompletes, WriteFails
  <1>11. ASSUME NEW c \in Clients, WriteHandler(c) PROVE TypeOK'
    BY <1>11 DEF WriteHandler
  <1>12. ASSUME NEW c \in Clients, DeadlineExpires(c) \/ check_deadline(c) PROVE TypeOK'
    BY <1>12 DEF DeadlineExpires, check_deadline
  <1>13. CASE UNCHANGED vars
    BY <1>13 DEF vars
  <1> QED
    BY <1>1, <1>2, <1>3, <1>4, <1>5, <1>6, <1>7, <1>8, <1>9, <1>10, <1>11, <1>12, <1>13
    DEF Next, Connection

-------------------------------------------------------------------------------
(* The strengthening is kept.                                              *)

Kept == NotServed /\ NotAnswered /\ Fitting /\ Caused

LEMMA InitInv == Init => IInv
  BY TypeInit, HttpServerAssumption DEF Init, IInv, NotServed, NotAnswered, Fitting, Caused

LEMMA NextInv == IInv /\ [Next]_vars => IInv'
  <1> SUFFICES ASSUME IInv, [Next]_vars PROVE Kept'
    BY TypeNext DEF IInv, Kept
  <1> USE HttpServerAssumption DEF IInv, Kept, NotServed, NotAnswered, Fitting, Caused, TypeOK,
          clientVars, timerVars
  <1>1. CASE Tick
    BY <1>1 DEF Tick
  <1>2. CASE AcceptFails
    BY <1>2 DEF AcceptFails
  <1>3. CASE http_server
    BY <1>3 DEF http_server
  <1>4. ASSUME NEW c \in Clients, Connect(c) PROVE Kept'
    BY <1>4 DEF Connect
  <1>5. ASSUME NEW c \in Clients, Ask(c) PROVE Kept'
    BY <1>5 DEF Ask, Exchange!Requests, Exchange!Deserved
  <1>6. ASSUME NEW c \in Clients, HangUp(c) PROVE Kept'
    BY <1>6 DEF HangUp
  <1>7. ASSUME NEW c \in Clients, AcceptCompletes(c)
        PROVE Kept'
    BY <1>7 DEF AcceptCompletes
  <1>8. ASSUME NEW c \in Clients, ReadCompletes(c) \/ ReadFails(c)
        PROVE Kept'
    BY <1>8 DEF ReadCompletes, ReadFails
  <1>9. ASSUME NEW c \in Clients, process_request(c)
        PROVE Kept'
    BY <1>9 DEF process_request, Exchange!Requests, Exchange!Deserved
  <1>10. ASSUME NEW c \in Clients, WriteCompletes(c) \/ WriteFails(c)
         PROVE Kept'
    BY <1>10 DEF WriteCompletes, WriteFails, Exchange!Deserved
  <1>11. ASSUME NEW c \in Clients, WriteHandler(c)
         PROVE Kept'
    BY <1>11 DEF WriteHandler
  <1>12. ASSUME NEW c \in Clients, DeadlineExpires(c) \/ check_deadline(c)
         PROVE Kept'
    BY <1>12 DEF DeadlineExpires, check_deadline
  <1>13. CASE UNCHANGED vars
    BY <1>13 DEF vars
  <1> QED
    BY <1>1, <1>2, <1>3, <1>4, <1>5, <1>6, <1>7, <1>8, <1>9, <1>10, <1>11, <1>12, <1>13
    DEF Next, Connection

LEMMA SpecInv == Spec => []IInv
  BY InitInv, NextInv, PTL DEF Spec

\* Every variable of the front end has its type (main.cpp:29-156).
THEOREM TypeCorrect == Spec => []TypeOK
  <1>1. IInv => TypeOK
    BY DEF IInv
  <1> QED
    BY <1>1, SpecInv, PTL

\* An answer is lost only to a client that hung up or took the whole 60 seconds,
\* however the handlers of the write and of the deadline fall (main.cpp:116-143).
THEOREM LostAnswer == Spec => []LostAnswerHasCause
  <1>1. IInv => LostAnswerHasCause
    BY DEF IInv, Caused, LostAnswerHasCause
  <1> QED
    BY <1>1, SpecInv, PTL

-------------------------------------------------------------------------------
(* The refinement.                                                         *)

LifeMap == [c \in Clients |-> Life(c)]
GoneMap == {c \in Clients : peer[c] = "gone"}

LEMMA InitExchange == Init => Exchange!Init
  BY DEF Init, Exchange!Init

LEMMA NextExchange == IInv /\ [Next]_vars => [Exchange!Next]_Exchange!vars
  <1> SUFFICES ASSUME IInv, [Next]_vars PROVE [Exchange!Next]_Exchange!vars
    OBVIOUS
  <1> DEFINE Stutter == LifeMap' = LifeMap /\ request' = request /\ answer' = answer /\ GoneMap' = GoneMap
  <1>s. Stutter => [Exchange!Next]_Exchange!vars
    BY DEF LifeMap, GoneMap, Life, Exchange!vars
  <1> USE HttpServerAssumption DEF IInv, NotServed, NotAnswered, Fitting, TypeOK,
          LifeMap, Life, GoneMap, clientVars, timerVars
  <1>1. CASE Tick
    BY <1>1, <1>s DEF Tick
  <1>2. CASE AcceptFails
    BY <1>2, <1>s DEF AcceptFails
  <1>3. CASE http_server
    <2>1. CASE accepted = "error"
      BY <1>3, <2>1, <1>s DEF http_server
    <2>2. ASSUME NEW c \in Clients, accepted = c PROVE Exchange!Open(c)
      <3>1. /\ socket[c] = "none" /\ op[c] = "none" /\ c # "error"
            /\ socket' = [socket EXCEPT ![c] = "open"]
            /\ op' = [op EXCEPT ![c] = "reading"]
            /\ deadline' = [deadline EXCEPT ![c] = "running"]
            /\ UNCHANGED <<request, answer, peer>>
        BY <1>3, <2>2 DEF http_server
      <3>2. LifeMap' = [LifeMap EXCEPT ![c] = "open"] /\ LifeMap[c] = "none"
        BY <3>1, ZenonT(30)
      <3> QED
        BY <3>1, <3>2 DEF Exchange!Open
    <2>3. accepted = "error" \/ accepted \in Clients
      BY <1>3 DEF http_server
    <2> HIDE DEF LifeMap, Stutter
    <2> QED
      BY <2>1, <2>2, <2>3 DEF Exchange!Next
  <1>4. ASSUME NEW c \in Clients, Connect(c) PROVE Stutter
    BY <1>4 DEF Connect
  <1>5. ASSUME NEW c \in Clients, Ask(c) PROVE Exchange!Ask(c)
    BY <1>5, ZenonT(30) DEF Ask, Exchange!Ask
  <1>6. ASSUME NEW c \in Clients, HangUp(c) PROVE Exchange!Leave(c)
    <2>1. LifeMap' = LifeMap /\ GoneMap' = GoneMap \cup {c} /\ UNCHANGED <<request, answer>>
      BY <1>6 DEF HangUp
    <2> QED
      BY <2>1 DEF Exchange!Leave
  <1>7. ASSUME NEW c \in Clients, AcceptCompletes(c) PROVE Stutter
    BY <1>7 DEF AcceptCompletes
  <1>8. ASSUME NEW c \in Clients, ReadCompletes(c) \/ ReadFails(c) PROVE Stutter
    BY <1>8 DEF ReadCompletes, ReadFails
  <1>9. ASSUME NEW c \in Clients, process_request(c) PROVE Stutter
    BY <1>9 DEF process_request
  <1>10. ASSUME NEW c \in Clients, WriteCompletes(c) PROVE Exchange!Answer(c)
    <2>1. /\ LifeMap' = LifeMap /\ LifeMap[c] = "open" /\ GoneMap' = GoneMap
          /\ request' = request /\ answer[c] = "none"
          /\ answer' = [answer EXCEPT ![c] = response[c]]
      BY <1>10 DEF WriteCompletes
    <2>2. \/ request[c] # "none" /\ response[c] = Exchange!Deserved(request[c])
          \/ c \in GoneMap /\ response[c] = "bad"
      BY <1>10 DEF WriteCompletes
    <2> QED
      BY <2>1, <2>2 DEF Exchange!Answer
  <1>11. ASSUME NEW c \in Clients, WriteFails(c) PROVE Stutter
    BY <1>11 DEF WriteFails
  <1>12. ASSUME NEW c \in Clients, WriteHandler(c) PROVE Stutter \/ Exchange!Close(c)
    <2>1. CASE deadline[c] = "over"
      <3>1. /\ op[c] = "written" /\ op' = [op EXCEPT ![c] = "over"]
            /\ socket[c] # "none"
            /\ socket' = socket \/ socket' = [socket EXCEPT ![c] = "shut"]
            /\ deadline' = deadline
            /\ UNCHANGED <<request, answer, peer>>
        BY <1>12, <2>1, ZenonT(30) DEF WriteHandler
      <3>2. socket'[c] # "none" /\ \A d \in Clients \ {c} : socket'[d] = socket[d]
        BY <3>1
      <3>3. \A d \in Clients \ {c} : op'[d] = op[d]
        BY <3>1
      <3>4. LifeMap' = [LifeMap EXCEPT ![c] = "over"]
        <4>1. op'[c] = "over" /\ deadline'[c] = "over"
          BY <3>1, <2>1
        <4>2. Life(c)' = "over"
          BY <4>1, <3>2
        <4>3. \A d \in Clients \ {c} : Life(d)' = Life(d)
          BY <3>1, <3>2, <3>3
        <4> HIDE DEF Life, IInv, TypeOK, NotServed, NotAnswered, Fitting
        <4> QED
          BY <4>2, <4>3 DEF LifeMap
      <3>5. LifeMap[c] = "open"
        BY <3>1
      <3> QED
        BY <1>12, <3>1, <3>4, <3>5 DEF WriteHandler, Exchange!Close
    <2>2. CASE deadline[c] # "over"
      BY <1>12, <2>2 DEF WriteHandler
    <2> QED
      BY <2>1, <2>2
  <1>13. ASSUME NEW c \in Clients, DeadlineExpires(c) PROVE Stutter
    BY <1>13 DEF DeadlineExpires
  <1>14. ASSUME NEW c \in Clients, check_deadline(c) PROVE Stutter \/ Exchange!Close(c)
    <2>1. CASE op[c] = "over"
      <3>1. /\ deadline[c] \in {"expired", "cancelled"} /\ op' = op
            /\ deadline' = [deadline EXCEPT ![c] = "over"]
            /\ socket[c] # "none"
            /\ socket' = socket \/ socket' = [socket EXCEPT ![c] = "closed"]
            /\ UNCHANGED <<request, answer, peer>>
        BY <1>14, <2>1, ZenonT(30) DEF check_deadline
      <3>2. socket'[c] # "none" /\ \A d \in Clients \ {c} : socket'[d] = socket[d]
        BY <3>1
      <3>3. deadline'[c] = "over" /\ \A d \in Clients \ {c} : deadline'[d] = deadline[d]
        BY <3>1
      <3>4. LifeMap' = [LifeMap EXCEPT ![c] = "over"]
        <4>1. Life(c)' = "over"
          BY <2>1, <3>1, <3>2, <3>3
        <4>2. \A d \in Clients \ {c} : Life(d)' = Life(d)
          BY <3>1, <3>2, <3>3
        <4> HIDE DEF Life, IInv, TypeOK, NotServed, NotAnswered, Fitting
        <4> QED
          BY <4>1, <4>2 DEF LifeMap
      <3>5. LifeMap[c] = "open"
        BY <3>1
      <3> QED
        BY <3>1, <3>4, <3>5 DEF Exchange!Close
    <2>2. CASE op[c] # "over"
      BY <1>14, <2>2 DEF check_deadline
    <2> QED
      BY <2>1, <2>2
  <1>15. CASE UNCHANGED vars
    BY <1>15, <1>s DEF vars
  <1> HIDE DEF Stutter
  <1> QED
    BY <1>1, <1>2, <1>3, <1>4, <1>5, <1>6, <1>7, <1>8, <1>9, <1>10, <1>11, <1>12, <1>13,
       <1>14, <1>15, <1>s
    DEF Next, Connection, Exchange!Next

\* The front end implements the exchange: at most one answer to each client, none after
\* its connection is over, and the one that its request deserves: the port to a GET of
\* /connect, an empty 200 to any other GET, and a 400 to the rest and to those alone -
\* or to a client that has hung up (main.cpp:29-156).
THEOREM Exchanges == Spec => ExchangeKept
  BY InitExchange, NextExchange, SpecInv, PTL DEF Spec, ExchangeKept, Exchange!Spec

-------------------------------------------------------------------------------
(* Towards the end of a connection.  Each handler that runs brings it nearer, *)
(* nothing takes it back, and when its client has asked or its deadline is    *)
(* reached, one of them is ready.                                             *)

\* The handlers that are still to run, at most.
OpLeft(c) == CASE op[c] = "reading" -> 4 [] op[c] \in {"read", "failed"} -> 3
               [] op[c] = "writing" -> 2 [] op[c] = "written" -> 1 [] OTHER -> 0
WaitLeft(c) == CASE deadline[c] = "running" -> 2
                 [] deadline[c] \in {"expired", "cancelled"} -> 1 [] OTHER -> 0
Left(c) == OpLeft(c) + WaitLeft(c)

\* The client has asked, or has had its time.
Pressed(c) == socket[c] # "none" /\ (request[c] # "none" \/ age[c] = Deadline)

\* The guards of Connection(c).
Ready(c) ==
  \/ op[c] = "reading" /\ socket[c] = "open" /\ request[c] \notin {"none", "long"}
  \/ op[c] = "reading" /\ (socket[c] = "closed" \/ request[c] = "long" \/ peer[c] = "gone")
  \/ op[c] \in {"read", "failed", "written"}
  \/ op[c] = "writing" /\ (socket[c] \in {"open", "closed"} \/ peer[c] = "gone")
  \/ deadline[c] = "running" /\ age[c] = Deadline
  \/ deadline[c] \in {"expired", "cancelled"}

\* What a connection has left behind says what has been done.
Spent ==
  \A c \in Clients :
    /\ socket[c] = "shut" \/ deadline[c] = "cancelled" => op[c] = "over"
    /\ op[c] = "over" => deadline[c] \in {"expired", "cancelled", "over"}
    /\ deadline[c] = "over" => op[c] = "over" \/ socket[c] = "closed"

EndInv == IInv /\ Spent

LEMMA SpecEndInv == Spec => []EndInv
  <1>1. Init => Spent
    BY DEF Init, Spent
  <1>2. IInv /\ Spent /\ [Next]_vars => Spent'
    <2> SUFFICES ASSUME IInv, Spent, [Next]_vars PROVE Spent'
      OBVIOUS
    <2> USE HttpServerAssumption DEF IInv, NotServed, TypeOK, Spent, clientVars, timerVars
    <2>1. CASE Tick \/ AcceptFails \/ UNCHANGED vars
      BY <2>1 DEF Tick, AcceptFails, vars
    <2>2. CASE http_server
      BY <2>2 DEF http_server
    <2>3. ASSUME NEW c \in Clients, Connect(c) \/ Ask(c) \/ HangUp(c) \/ AcceptCompletes(c)
          PROVE Spent'
      BY <2>3 DEF Connect, Ask, HangUp, AcceptCompletes
    <2>4. ASSUME NEW c \in Clients, ReadCompletes(c) \/ ReadFails(c) \/ process_request(c)
          PROVE Spent'
      BY <2>4 DEF ReadCompletes, ReadFails, process_request
    <2>5. ASSUME NEW c \in Clients, WriteCompletes(c) \/ WriteFails(c) PROVE Spent'
      BY <2>5 DEF WriteCompletes, WriteFails
    <2>6. ASSUME NEW c \in Clients, WriteHandler(c) PROVE Spent'
      BY <2>6 DEF WriteHandler
    <2>7. ASSUME NEW c \in Clients, DeadlineExpires(c) \/ check_deadline(c) PROVE Spent'
      BY <2>7 DEF DeadlineExpires, check_deadline
    <2> QED
      BY <2>1, <2>2, <2>3, <2>4, <2>5, <2>6, <2>7 DEF Next, Connection
  <1> QED
    BY <1>1, <1>2, SpecInv, PTL DEF Spec, EndInv

LEMMA LeftIs ==
  ASSUME TypeOK, NEW c \in Clients
  PROVE  /\ Left(c) \in 0..6
         /\ NotServed /\ Pressed(c) => (Left(c) = 0 <=> Over(c))
  BY DEF TypeOK, NotServed, Pressed, Left, OpLeft, WaitLeft, Over

\* A client that has asked, or has had its time, is never left with a connection that
\* waits for nothing but the client or the clock.
LEMMA PressedIsReady ==
  ASSUME EndInv, NEW c \in Clients, Pressed(c), ~Over(c)
  PROVE  Ready(c)
  BY DEF EndInv, IInv, TypeOK, NotServed, Spent, Caused, Pressed, Over, Ready

\* Each handler that runs for a connection brings it nearer to its end ...
LEMMA HandlersFinish ==
  ASSUME EndInv, NEW c \in Clients, Connection(c)
  PROVE  Left(c)' < Left(c)
  <1> USE DEF EndInv, IInv, TypeOK, Left, OpLeft, WaitLeft, clientVars, timerVars
  <1>1. CASE ReadCompletes(c) \/ ReadFails(c)
    BY <1>1 DEF ReadCompletes, ReadFails
  <1>2. CASE process_request(c)
    BY <1>2 DEF process_request
  <1>3. CASE WriteCompletes(c) \/ WriteFails(c)
    BY <1>3 DEF WriteCompletes, WriteFails
  <1>4. CASE WriteHandler(c)
    BY <1>4 DEF WriteHandler
  <1>5. CASE DeadlineExpires(c) \/ check_deadline(c)
    BY <1>5 DEF DeadlineExpires, check_deadline
  <1> QED
    BY <1>1, <1>2, <1>3, <1>4, <1>5 DEF Connection

\* ... and no other step takes it back.
LEMMA NothingTakesBack ==
  ASSUME EndInv, [Next]_vars, NEW c \in Clients, Pressed(c)
  PROVE  Pressed(c)' /\ Left(c)' <= Left(c)
  <1> USE HttpServerAssumption DEF EndInv, IInv, NotServed, TypeOK, Pressed, clientVars, timerVars
  <1>t. Left(c) \in 0..6 /\ (op'[c] = op[c] /\ deadline'[c] = deadline[c] => Left(c)' = Left(c))
    BY DEF Left, OpLeft, WaitLeft
  <1> DEFINE Goal == Pressed(c)' /\ Left(c)' <= Left(c)
  <1>1. CASE Tick \/ AcceptFails \/ UNCHANGED vars
    <2>1. Pressed(c)' /\ op'[c] = op[c] /\ deadline'[c] = deadline[c]
      BY <1>1 DEF Tick, AcceptFails, vars
    <2> QED
      BY <2>1, <1>t
  <1>2. CASE http_server
    <2>1. Pressed(c)' /\ op'[c] = op[c] /\ deadline'[c] = deadline[c]
      BY <1>2 DEF http_server
    <2> QED
      BY <2>1, <1>t
  <1>3. ASSUME NEW d \in Clients, Connect(d) \/ Ask(d) \/ HangUp(d) \/ AcceptCompletes(d)
        PROVE  Goal
    <2>1. Pressed(c)' /\ op'[c] = op[c] /\ deadline'[c] = deadline[c]
      BY <1>3 DEF Connect, Ask, HangUp, AcceptCompletes, Exchange!Requests
    <2> QED
      BY <2>1, <1>t
  <1>4. ASSUME NEW d \in Clients, Connection(d) PROVE Goal
    <2>1. Pressed(c)'
      BY <1>4 DEF Connection, ReadCompletes, ReadFails, process_request, WriteCompletes,
                  WriteFails, WriteHandler, DeadlineExpires, check_deadline
    <2>2. CASE d = c
      <3>1. Left(c)' < Left(c)
        BY <1>4, <2>2, HandlersFinish
      <3>2. Left(c)' \in Nat
        BY DEF Left, OpLeft, WaitLeft
      <3> QED
        BY <2>1, <3>1, <3>2, <1>t
    <2>3. CASE d # c
      <3>1. op'[c] = op[c] /\ deadline'[c] = deadline[c]
        BY <1>4, <2>3 DEF Connection, ReadCompletes, ReadFails, process_request, WriteCompletes,
                          WriteFails, WriteHandler, DeadlineExpires, check_deadline
      <3> QED
        BY <2>1, <3>1, <1>t
    <2> QED
      BY <2>2, <2>3
  <1> QED
    BY <1>1, <1>2, <1>3, <1>4 DEF Next

Bounded(c) ==
  Pressed(c) => /\ Pressed(c)' /\ Left(c)' <= Left(c)
                /\ Connection(c) => Left(c)' < Left(c)

\* The work of a connection is bounded: once its client has asked, or has had its
\* time, six handlers run for it at most, and until it is over one of them has what it
\* waits for, whatever the client and the clock do (main.cpp:64-143).
THEOREM WorkIsBounded ==
  Spec => /\ [][\A c \in Clients : Bounded(c)]_vars
          /\ [](\A c \in Clients : Left(c) \in 0..6 /\ (Pressed(c) /\ ~Over(c) => Ready(c)))
  <1>1. EndInv /\ [Next]_vars => [\A c \in Clients : Bounded(c)]_vars
    BY HandlersFinish, NothingTakesBack DEF Bounded
  <1>2. EndInv => \A c \in Clients : Left(c) \in 0..6 /\ (Pressed(c) /\ ~Over(c) => Ready(c))
    BY LeftIs, PressedIsReady DEF EndInv, IInv
  <1> QED
    BY <1>1, <1>2, SpecEndInv, PTL DEF Spec

Within(c, k) == Pressed(c) /\ Left(c) <= k

LEMMA Nearer ==
  ASSUME NEW c \in Clients, NEW k \in 1..6, NEW j \in 0..5, k = j + 1
  PROVE  /\ EndInv /\ Within(c, k) /\ [Next]_vars => Within(c, k)'
         /\ EndInv /\ Within(c, k) /\ <<Connection(c)>>_vars => Within(c, j)'
  <1>1. ASSUME EndInv, Within(c, k), [Next]_vars PROVE Within(c, k)'
    <2>1. Pressed(c)' /\ Left(c)' <= Left(c) /\ Left(c) \in Nat /\ Left(c)' \in Nat
      BY <1>1, NothingTakesBack DEF Within, Left, OpLeft, WaitLeft
    <2> QED
      BY <1>1, <2>1 DEF Within
  <1>2. ASSUME EndInv, Within(c, k), <<Connection(c)>>_vars PROVE Within(c, j)'
    <2>1. Left(c)' < Left(c) /\ Left(c) \in Nat /\ Left(c)' \in Nat
      BY <1>2, HandlersFinish DEF Left, OpLeft, WaitLeft
    <2>2. Pressed(c)'
      BY <1>2, NothingTakesBack DEF Next, Within
    <2> QED
      BY <1>2, <2>1, <2>2 DEF Within
  <1> QED
    BY <1>1, <1>2

\* A connection can make a step when one of its guards holds: Ready repeats the guards.
\* The provers do not reason about ENABLED, so this one is a hypothesis.
ReadyIsEnabled == \A c \in Clients : Ready(c) => ENABLED <<Connection(c)>>_vars

\* A client that has asked, or has had its 60 seconds, is released: if a connection
\* with a handler to run is given a step some time, as ioc.run() does
\* (main.cpp:64-143, 202).
THEOREM Released ==
  ASSUME NEW c \in Clients
  PROVE  Spec /\ WF_vars(Connection(c)) /\ []ReadyIsEnabled
           => /\ (socket[c] = "open" /\ request[c] # "none") ~> Over(c)
              /\ (deadline[c] = "running" /\ age[c] = Deadline) ~> Over(c)
  <1> DEFINE W(k) == Within(c, k)
  <1>a. /\ EndInv /\ socket[c] = "open" /\ request[c] # "none" => W(6)
        /\ EndInv /\ deadline[c] = "running" /\ age[c] = Deadline => W(6)
    BY LeftIs DEF EndInv, IInv, NotServed, Pressed, Within
  <1>b. EndInv /\ W(0) => Over(c)
    BY LeftIs DEF EndInv, IInv, Within
  <1>c. EndInv /\ (W(1) \/ W(2) \/ W(3) \/ W(4) \/ W(5) \/ W(6)) => Over(c) \/ Ready(c)
    BY PressedIsReady DEF Within
  <1>1. /\ EndInv /\ W(1) /\ [Next]_vars => W(1)'
        /\ EndInv /\ W(1) /\ <<Connection(c)>>_vars => W(0)'
    BY Nearer, 1 = 0 + 1
  <1>2. /\ EndInv /\ W(2) /\ [Next]_vars => W(2)'
        /\ EndInv /\ W(2) /\ <<Connection(c)>>_vars => W(1)'
    BY Nearer, 2 = 1 + 1
  <1>3. /\ EndInv /\ W(3) /\ [Next]_vars => W(3)'
        /\ EndInv /\ W(3) /\ <<Connection(c)>>_vars => W(2)'
    BY Nearer, 3 = 2 + 1
  <1>4. /\ EndInv /\ W(4) /\ [Next]_vars => W(4)'
        /\ EndInv /\ W(4) /\ <<Connection(c)>>_vars => W(3)'
    BY Nearer, 4 = 3 + 1
  <1>5. /\ EndInv /\ W(5) /\ [Next]_vars => W(5)'
        /\ EndInv /\ W(5) /\ <<Connection(c)>>_vars => W(4)'
    BY Nearer, 5 = 4 + 1
  <1>6. /\ EndInv /\ W(6) /\ [Next]_vars => W(6)'
        /\ EndInv /\ W(6) /\ <<Connection(c)>>_vars => W(5)'
    BY Nearer, 6 = 5 + 1
  <1>7. ReadyIsEnabled => (Ready(c) => ENABLED <<Connection(c)>>_vars)
    BY DEF ReadyIsEnabled
  <1> HIDE DEF W
  <1> QED
    BY <1>7, <1>a, <1>b, <1>c, <1>1, <1>2, <1>3, <1>4, <1>5, <1>6, SpecEndInv, PTL DEF Spec
===============================================================================
