----------------------------- MODULE HttpExchange -----------------------------
(***************************************************************************)
(* What the HTTP front end promises each of its clients: one exchange, in  *)
(* which at most one answer is given, none before the client has asked or  *)
(* after the exchange is over, and the one that its request deserves - but *)
(* a client that has hung up may be refused unheard.                       *)
(***************************************************************************)
EXTENDS Naturals

CONSTANTS Clients

VARIABLES
  life,     \* "none", "open" or "over"
  request,  \* what the client has asked for, or "none"
  answer,   \* the answer it was given, or "none"
  gone      \* the clients that have hung up

vars == <<life, request, answer, gone>>

Requests == {"connect", "get", "other", "long"}

\* "port" is the port of the terminals, "empty" a 200 with no body, "bad" a 400.
\* A request that does not fit the buffer deserves no better.
Deserved(asked) ==
  CASE asked = "connect" -> "port" [] asked = "get" -> "empty" [] OTHER -> "bad"

Init ==
  /\ life = [c \in Clients |-> "none"]
  /\ request = [c \in Clients |-> "none"]
  /\ answer = [c \in Clients |-> "none"]
  /\ gone = {}

Open(c) ==
  /\ life[c] = "none"
  /\ life' = [life EXCEPT ![c] = "open"]
  /\ UNCHANGED <<request, answer, gone>>

Ask(c) ==
  /\ request[c] = "none"
  /\ \E asked \in Requests : request' = [request EXCEPT ![c] = asked]
  /\ UNCHANGED <<life, answer, gone>>

Leave(c) ==
  /\ gone' = gone \cup {c}
  /\ UNCHANGED <<life, request, answer>>

Answer(c) ==
  /\ life[c] = "open" /\ answer[c] = "none"
  /\ \/ request[c] # "none" /\ answer' = [answer EXCEPT ![c] = Deserved(request[c])]
     \/ c \in gone /\ answer' = [answer EXCEPT ![c] = "bad"]
  /\ UNCHANGED <<life, request, gone>>

Close(c) ==
  /\ life[c] = "open"
  /\ life' = [life EXCEPT ![c] = "over"]
  /\ UNCHANGED <<request, answer, gone>>

Next == \E c \in Clients : Open(c) \/ Ask(c) \/ Leave(c) \/ Answer(c) \/ Close(c)

Spec == Init /\ [][Next]_vars
===============================================================================
