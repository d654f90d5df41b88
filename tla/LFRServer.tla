------------------------------- MODULE LFRServer -------------------------------
(***************************************************************************)
(* The whole program: main() of CentralServer/main.cpp, with the life of   *)
(* its LFRConnectionsManager, and the way a terminal goes: it asks the     *)
(* HTTP front end for a port, connects to it, and is served there.         *)
(*                                                                         *)
(* The exchange with the front end is that of HttpExchange, in one step.   *)
(* A session is one step to its end or to the loss of the process, the two *)
(* outcomes that LFRConnection has for it.  The manager's list keeps the   *)
(* nodes 1..Len(nodes); a node is the terminal it serves, "pending" while  *)
(* it waits for one, or "ended".                                           *)
(***************************************************************************)
EXTENDS Naturals, Sequences

CONSTANTS
  Terminals,
  MaxFails,   \* bound on the accepts that fail, in one run of the process
  MaxStarts   \* bound on the starts of the process

ASSUME LFRServerAssumption ==
  /\ MaxFails \in Nat /\ MaxStarts \in Nat
  /\ Terminals \cap {"pending", "ended"} = {}

VARIABLES
  stage,      \* where main() is; "failed" after EXIT_FAILURE, "lost" when it was killed
  listening,  \* the ports with an acceptor
  thread,     \* the thread that runs the manager's context: "none" or "running"
  nodes,      \* the manager's list of connections
  fails,      \* accepts that failed
  terminal,   \* each one: "away", "asking", "told", "queued", "served" or "gone"
  since,      \* the start of the process in which it was told the port
  starts      \* how often the process was started

vars == <<stage, listening, thread, nodes, fails, terminal, since, starts>>
mainVars == <<stage, listening, thread>>
terminalVars == <<terminal, since>>

Init ==
  /\ stage = "logging" /\ listening = {} /\ thread = "none"
  /\ nodes = <<>> /\ fails = 0
  /\ terminal = [t \in Terminals |-> "away"]
  /\ since = [t \in Terminals |-> 0]
  /\ starts = 1

-----------------------------------------------------------------------------
(* The process ends.                                                       *)

\* All that the process held is gone; those who were connected are disconnected.
Ends(how) ==
  /\ stage' = how /\ listening' = {} /\ thread' = "none"
  /\ nodes' = <<>>
  /\ terminal' = [t \in Terminals |->
       IF terminal[t] \in {"asking", "queued", "served"} THEN "away" ELSE terminal[t]]
  /\ UNCHANGED <<fails, since, starts>>

\* An exception leaves a thread: a session's (TerminationHasCause), or the manager's,
\* if a session cannot be started.  The threads are joined nowhere: the destructor of
\* the std::thread of main would do the same.
Terminate ==
  /\ thread = "running"
  /\ Ends("lost")

\* docker run restarts nothing by itself: somebody does.
Restart ==
  /\ stage \in {"failed", "lost"} /\ starts < MaxStarts
  /\ stage' = "logging" /\ fails' = 0
  /\ terminal' = [t \in Terminals |-> IF terminal[t] = "gone" THEN "away" ELSE terminal[t]]
  /\ starts' = starts + 1
  /\ UNCHANGED <<listening, thread, nodes, since>>

-----------------------------------------------------------------------------
(* main(), in its order.                                                   *)

OpenHttp ==
  /\ stage = "logging"
  /\ stage' = "http" /\ listening' = {8080}
  /\ UNCHANGED <<thread, nodes, fails, terminalVars, starts>>

\* (mutant) The manager listens at another port than the one that is told.
OpenManagerElsewhere ==
  /\ stage = "http"
  /\ stage' = "loading" /\ listening' = {8080, 8180}
  /\ UNCHANGED <<thread, nodes, fails, terminalVars, starts>>

\* The constructor of the manager: its acceptor, then the cards.
OpenManager ==
  /\ stage = "http"
  /\ stage' = "loading" /\ listening' = {8080, 8081}
  /\ UNCHANGED <<thread, nodes, fails, terminalVars, starts>>

LoadCards ==
  /\ stage = "loading"
  /\ stage' = "constructed"
  /\ UNCHANGED <<listening, thread, nodes, fails, terminalVars, starts>>

\* A port that is taken, or a file that does not load: main returns EXIT_FAILURE.
StartFails ==
  /\ stage \in {"logging", "http", "loading"}
  /\ Ends("failed")

accepting ==
  /\ stage = "constructed"
  /\ stage' = "accepting" /\ nodes' = <<"pending">>
  /\ UNCHANGED <<listening, thread, fails, terminalVars, starts>>

\* The manager's thread serves the terminals from here on; the front end does not yet.
StartThread ==
  /\ stage = "accepting"
  /\ stage' = "threaded" /\ thread' = "running"
  /\ UNCHANGED <<listening, nodes, fails, terminalVars, starts>>

\* The std::thread cannot be made.  The manager is destroyed on the way to the catch,
\* and with it the pending connection, which owns the manager as well and deletes it
\* once more: EXIT_FAILURE, or whatever that does to the process.
StartThreadFails ==
  /\ stage = "accepting"
  /\ \E how \in {"failed", "lost"} : Ends(how)

\* ioc.run()
RunFrontEnd ==
  /\ stage = "threaded"
  /\ stage' = "running"
  /\ UNCHANGED <<listening, thread, nodes, fails, terminalVars, starts>>

-----------------------------------------------------------------------------
(* The terminals.                                                          *)

Goes(t, where) == terminal' = [terminal EXCEPT ![t] = where]

\* A port that listens takes connections before anything accepts them.
AskPort(t) ==
  /\ terminal[t] = "away" /\ 8080 \in listening
  /\ Goes(t, "asking")
  /\ UNCHANGED <<mainVars, nodes, fails, since, starts>>

\* (mutant) The front end is served as soon as it listens.
TellPortEarly(t) ==
  /\ terminal[t] = "asking"
  /\ Goes(t, "told") /\ since' = [since EXCEPT ![t] = starts]
  /\ UNCHANGED <<mainVars, nodes, fails, starts>>

\* ioc.run() serves the front end, and it is called last.
TellPort(t) ==
  /\ terminal[t] = "asking" /\ stage = "running"
  /\ Goes(t, "told") /\ since' = [since EXCEPT ![t] = starts]
  /\ UNCHANGED <<mainVars, nodes, fails, starts>>

Connect(t) ==
  /\ terminal[t] = "told"
  /\ Goes(t, IF 8081 \in listening THEN "queued" ELSE "away")
  /\ UNCHANGED <<mainVars, nodes, fails, since, starts>>

\* The handler of the manager's accept: the node at the end of the list is given the
\* client and started, and accepting() appends the next.
Accept(t) ==
  /\ thread = "running" /\ terminal[t] = "queued" /\ nodes[Len(nodes)] = "pending"
  /\ nodes' = Append([nodes EXCEPT ![Len(nodes)] = t], "pending")
  /\ Goes(t, "served")
  /\ UNCHANGED <<mainVars, fails, since, starts>>

\* (mutant) It returns on an error, before accepting().
AcceptFailsForGood ==
  /\ thread = "running" /\ fails < MaxFails /\ nodes[Len(nodes)] = "pending"
  /\ nodes' = [nodes EXCEPT ![Len(nodes)] = "ended"]
  /\ fails' = fails + 1
  /\ UNCHANGED <<mainVars, terminalVars, starts>>

AcceptFails ==
  /\ thread = "running" /\ fails < MaxFails /\ nodes[Len(nodes)] = "pending"
  /\ nodes' = Append([nodes EXCEPT ![Len(nodes)] = "ended"], "pending")
  /\ fails' = fails + 1
  /\ UNCHANGED <<mainVars, terminalVars, starts>>

\* A session ends; its connection stays on the list.
Leave(t) ==
  /\ terminal[t] = "served" /\ Goes(t, "gone")
  /\ nodes' = [i \in DOMAIN nodes |-> IF nodes[i] = t THEN "ended" ELSE nodes[i]]
  /\ UNCHANGED <<mainVars, fails, since, starts>>

-----------------------------------------------------------------------------

Next ==
  \/ OpenHttp \/ OpenManager \/ LoadCards \/ accepting \/ StartThread \/ RunFrontEnd
  \/ StartFails \/ StartThreadFails \/ Terminate \/ Restart \/ AcceptFails
  \/ \E t \in Terminals : AskPort(t) \/ TellPort(t) \/ Connect(t) \/ Accept(t) \/ Leave(t)

Spec == Init /\ [][Next]_vars

\* main goes on, and both contexts run what is ready.  No terminal need make a step.
Fairness ==
  /\ WF_vars(OpenHttp \/ OpenManager \/ LoadCards \/ accepting \/ StartThread \/ RunFrontEnd)
  /\ WF_vars(\E t \in Terminals : Accept(t))
  /\ \A t \in Terminals : WF_vars(TellPort(t))

FairSpec == Spec /\ Fairness

-----------------------------------------------------------------------------
(* Properties.                                                             *)

\* Every variable has its type.
TypeOK ==
  /\ stage \in {"logging", "http", "loading", "constructed", "accepting", "threaded",
                "running", "failed", "lost"}
  /\ listening \in SUBSET {8080, 8081} /\ thread \in {"none", "running"}
  /\ nodes \in Seq({"pending", "ended"} \cup Terminals)
  /\ fails \in 0..MaxFails
  /\ terminal \in [Terminals -> {"away", "asking", "told", "queued", "served", "gone"}]
  /\ since \in [Terminals -> 0..starts] /\ starts \in Nat /\ starts <= MaxStarts + 1

\* The order of the calls in main: a terminal that was told the port finds it open,
\* unless the process that told it has been lost since.
PortOpenWhenTold ==
  \A t \in Terminals :
    terminal[t] = "told" /\ since[t] = starts => 8081 \in listening \/ stage = "lost"

\* A terminal that asks is told the port, and one that connects is served, or else
\* the process ended: failed accepts in between do not matter.
TerminalsServed ==
  \A t \in Terminals :
    /\ terminal[t] = "asking" ~> terminal[t] \in {"told", "away"}
    /\ terminal[t] = "queued" ~> terminal[t] \in {"served", "away"}
================================================================================
