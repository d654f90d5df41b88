---------------------------- MODULE LFRServerProofs ----------------------------
(***************************************************************************)
(* The safety of LFRServer, for any number of terminals, of failing        *)
(* accepts and of starts.                                                  *)
(***************************************************************************)
EXTENDS LFRServer, SequenceTheorems, TLAPS

\* What each stage of main has set up, and who can be where in it.
Stages ==
  /\ stage \in {"threaded", "running"} <=> thread = "running"
  /\ stage \in {"loading", "constructed", "accepting", "threaded", "running"} =>
       listening = {8080, 8081}
  /\ stage \in {"accepting", "threaded", "running"} => Len(nodes) > 0
  /\ \A t \in Terminals :
       /\ terminal[t] = "served" => stage \in {"threaded", "running"}
       /\ terminal[t] = "told" /\ since[t] = starts => stage \in {"running", "lost"}

IInv == TypeOK /\ Stages

-------------------------------------------------------------------------------

LEMMA InitInv == Init => IInv
  <1> SUFFICES ASSUME Init PROVE IInv
    OBVIOUS
  <1>1. nodes \in Seq({"pending", "ended"} \cup Terminals)
    BY DEF Init
  <1>2. listening \in SUBSET {8080, 8081} /\ fails \in 0..MaxFails
    BY LFRServerAssumption DEF Init
  <1>3. starts \in Nat /\ starts <= MaxStarts + 1 /\ since \in [Terminals -> 0..starts]
    BY LFRServerAssumption DEF Init
  <1>4. TypeOK
    BY <1>1, <1>2, <1>3 DEF Init, TypeOK
  <1> QED
    BY <1>4 DEF Init, IInv, Stages

\* The end of the process keeps the invariant, if the process that told a port to
\* a terminal is lost and not failed.
LEMMA EndsInv ==
  ASSUME IInv, NEW how \in {"failed", "lost"}, Ends(how),
         stage = "running" => how = "lost",
         stage \notin {"failed", "lost"}
  PROVE  IInv'
  <1> USE LFRServerAssumption DEF IInv, TypeOK, Stages, Ends
  <1>1. nodes' \in Seq({"pending", "ended"} \cup Terminals)
    OBVIOUS
  <1>2. terminal' \in [Terminals -> {"away", "asking", "told", "queued", "served", "gone"}]
    OBVIOUS
  <1>3. \A t \in Terminals : terminal'[t] # "served" /\ (terminal'[t] = "told" => terminal[t] = "told")
    OBVIOUS
  <1>4. Stages'
    BY <1>3
  <1> QED
    BY <1>1, <1>2, <1>4

LEMMA NextInv == IInv /\ [Next]_vars => IInv'
  <1> SUFFICES ASSUME IInv, [Next]_vars PROVE IInv'
    OBVIOUS
  <1> USE LFRServerAssumption DEF mainVars, terminalVars, Goes
  <1>1. CASE OpenHttp
    BY <1>1 DEF OpenHttp, IInv, TypeOK, Stages
  <1>2. CASE OpenManager
    BY <1>2 DEF OpenManager, IInv, TypeOK, Stages
  <1>3. CASE LoadCards
    BY <1>3 DEF LoadCards, IInv, TypeOK, Stages
  <1>4. CASE accepting
    <2>1. nodes' \in Seq({"pending", "ended"} \cup Terminals) /\ Len(nodes') = 1
      BY <1>4 DEF accepting
    <2> QED
      BY <1>4, <2>1 DEF accepting, IInv, TypeOK, Stages
  <1>5. CASE StartThread
    BY <1>5 DEF StartThread, IInv, TypeOK, Stages
  <1>17. CASE RunFrontEnd
    BY <1>17 DEF RunFrontEnd, IInv, TypeOK, Stages
  <1>6. CASE StartFails
    BY <1>6, EndsInv DEF StartFails, IInv, TypeOK
  <1>7. CASE StartThreadFails
    BY <1>7, EndsInv DEF StartThreadFails
  <1>8. CASE Terminate
    <2>1. stage \in {"threaded", "running"}
      BY <1>8 DEF Terminate, IInv, Stages
    <2> QED
      BY <1>8, <2>1, EndsInv DEF Terminate, IInv, TypeOK
  <1>9. CASE Restart
    <2>1. terminal' \in [Terminals -> {"away", "asking", "told", "queued", "served", "gone"}]
      BY <1>9 DEF Restart, IInv, TypeOK
    <2>2. starts' = starts + 1 /\ \A t \in Terminals : since'[t] < starts'
      BY <1>9 DEF Restart, IInv, TypeOK
    <2>3. TypeOK'
      <3>1. starts' \in Nat /\ starts' <= MaxStarts + 1
        BY <1>9, <2>2, LFRServerAssumption DEF Restart, IInv, TypeOK
      <3>2. since' \in [Terminals -> 0..starts']
        BY <1>9, <2>2, <3>1 DEF Restart, IInv, TypeOK
      <3>3. fails' \in 0..MaxFails
        BY <1>9, LFRServerAssumption DEF Restart
      <3> QED
        BY <1>9, <2>1, <3>1, <3>2, <3>3 DEF Restart, IInv, TypeOK
    <2>4. \A t \in Terminals : terminal'[t] # "served"
      BY <1>9 DEF Restart, IInv, TypeOK, Stages
    <2>5. Stages'
      BY <1>9, <2>2, <2>4 DEF Restart, IInv, TypeOK, Stages
    <2> QED
      BY <2>3, <2>5 DEF IInv
  <1>10. CASE AcceptFails
    <2>1. nodes' \in Seq({"pending", "ended"} \cup Terminals) /\ Len(nodes') > 0
      BY <1>10 DEF AcceptFails, IInv, TypeOK, Stages
    <2> QED
      BY <1>10, <2>1 DEF AcceptFails, IInv, TypeOK, Stages
  <1>11. ASSUME NEW t \in Terminals, AskPort(t) PROVE IInv'
    BY <1>11 DEF AskPort, IInv, TypeOK, Stages
  <1>12. ASSUME NEW t \in Terminals, TellPort(t) PROVE IInv'
    BY <1>12 DEF TellPort, IInv, TypeOK, Stages
  <1>13. ASSUME NEW t \in Terminals, Connect(t) PROVE IInv'
    BY <1>13 DEF Connect, IInv, TypeOK, Stages
  <1>14. ASSUME NEW t \in Terminals, Accept(t) PROVE IInv'
    <2>1. nodes' \in Seq({"pending", "ended"} \cup Terminals) /\ Len(nodes') > 0
      BY <1>14 DEF Accept, IInv, TypeOK, Stages
    <2> QED
      BY <1>14, <2>1 DEF Accept, IInv, TypeOK, Stages
  <1>15. ASSUME NEW t \in Terminals, Leave(t) PROVE IInv'
    <2>0. nodes \in [1..Len(nodes) -> {"pending", "ended"} \cup Terminals]
          /\ Len(nodes) \in Nat /\ DOMAIN nodes = 1..Len(nodes)
      BY DEF IInv, TypeOK
    <2>1. nodes' \in Seq({"pending", "ended"} \cup Terminals) /\ Len(nodes') = Len(nodes)
      <3>1. nodes' \in [1..Len(nodes) -> {"pending", "ended"} \cup Terminals]
        BY <1>15, <2>0 DEF Leave
      <3> QED
        BY <2>0, <3>1, SeqDef, LenProperties
    <2> QED
      BY <1>15, <2>1 DEF Leave, IInv, TypeOK, Stages
  <1>16. CASE UNCHANGED vars
    BY <1>16 DEF vars, IInv, TypeOK, Stages
  <1> QED
    BY <1>1, <1>2, <1>3, <1>4, <1>5, <1>6, <1>7, <1>8, <1>9, <1>10, <1>11, <1>12, <1>13,
       <1>14, <1>15, <1>16, <1>17 DEF Next

LEMMA SpecInv == Spec => []IInv
  BY InitInv, NextInv, PTL DEF Spec

\* Every variable of the program as a whole has its type (main.cpp:175-213).
THEOREM TypeCorrect == Spec => []TypeOK
  <1>1. IInv => TypeOK
    BY DEF IInv
  <1> QED
    BY <1>1, SpecInv, PTL

\* A terminal that was told the port finds it open, unless the process was lost: the
\* front end is served last (main.cpp:185-205).
THEOREM PortOpen == Spec => []PortOpenWhenTold
  <1>1. IInv => PortOpenWhenTold
    BY DEF IInv, Stages, PortOpenWhenTold
  <1> QED
    BY <1>1, SpecInv, PTL

-------------------------------------------------------------------------------
(* A terminal that asks while main() is still on its way.                  *)

\* The steps of main() on its way up, which Fairness has.
MainGoesOn ==
  OpenHttp \/ OpenManager \/ LoadCards \/ accepting \/ StartThread \/ RunFrontEnd

\* A terminal that waits at the port 8080 while main() is at one of the stages.
Waits(t, stages) == terminal[t] = "asking" /\ stage \in stages

\* The stages of main() at which the port 8080 takes connections: a terminal asks in
\* these only.
Serving == {"http", "loading", "constructed", "accepting", "threaded", "running"}

Asks ==
  /\ 8080 \in listening => stage \in Serving
  /\ \A t \in Terminals : terminal[t] = "asking" => stage \in Serving

AskInv == IInv /\ Asks

\* main() can go on until it runs, and a terminal can be told the port from then on: at
\* each stage the guard of the next action is that stage.  A hypothesis of what
\* follows, since the provers do not reason about ENABLED.
GoesOnIsEnabled ==
  /\ stage \in {"logging", "http", "loading", "constructed", "accepting", "threaded"} =>
       ENABLED <<MainGoesOn>>_vars
  /\ \A t \in Terminals : Waits(t, {"running"}) => ENABLED <<TellPort(t)>>_vars

LEMMA SpecAskInv == Spec => []AskInv
  <1>1. Init => Asks
    BY DEF Init, Asks
  <1>2. IInv /\ Asks /\ [Next]_vars => Asks'
    <2> SUFFICES ASSUME IInv, Asks, [Next]_vars PROVE Asks'
      OBVIOUS
    <2> USE DEF IInv, TypeOK, Asks, Serving, mainVars, terminalVars, Goes
    <2>1. CASE StartFails \/ StartThreadFails \/ Terminate
      BY <2>1 DEF StartFails, StartThreadFails, Terminate, Ends
    <2>2. CASE MainGoesOn
      BY <2>2 DEF MainGoesOn, OpenHttp, OpenManager, LoadCards, accepting, StartThread, RunFrontEnd, Stages
    <2>3. CASE Restart
      BY <2>3 DEF Restart
    <2>4. CASE AcceptFails \/ UNCHANGED vars
      BY <2>4 DEF AcceptFails, vars
    <2>5. ASSUME NEW t \in Terminals,
                 AskPort(t) \/ TellPort(t) \/ Connect(t) \/ Accept(t) \/ Leave(t)
          PROVE  Asks'
      BY <2>5 DEF AskPort, TellPort, Connect, Accept, Leave
    <2> QED
      BY <2>1, <2>2, <2>3, <2>4, <2>5 DEF Next, MainGoesOn
  <1>3. IInv /\ Asks => AskInv
    BY DEF AskInv
  <1> QED
    BY <1>1, <1>2, <1>3, SpecInv, PTL DEF Spec

\* What a step makes of a terminal that waits: it is told, it is sent away with the
\* end of the process, or it waits on, at this stage of main() or at the next.
Answered(t) == terminal[t] \in {"told", "away"}

LEMMA WaitsOn ==
  ASSUME AskInv, [Next]_vars, NEW t \in Terminals, terminal[t] = "asking"
  PROVE  \/ Answered(t)'
         \/ terminal'[t] = "asking" /\ (stage' = stage \/ MainGoesOn)
  <1> USE DEF AskInv, Asks, Serving, IInv, TypeOK, mainVars, terminalVars, Goes, Answered
  <1>1. CASE StartFails \/ StartThreadFails \/ Terminate
    BY <1>1 DEF StartFails, StartThreadFails, Terminate, Ends
  <1>2. CASE MainGoesOn
    BY <1>2 DEF MainGoesOn, OpenHttp, OpenManager, LoadCards, accepting, StartThread, RunFrontEnd
  <1>3. CASE Restart
    BY <1>3 DEF Restart
  <1>4. CASE AcceptFails \/ UNCHANGED vars
    BY <1>4 DEF AcceptFails, vars
  <1>5. ASSUME NEW u \in Terminals,
               AskPort(u) \/ TellPort(u) \/ Connect(u) \/ Accept(u) \/ Leave(u)
        PROVE  \/ Answered(t)'
               \/ terminal'[t] = "asking" /\ stage' = stage
    BY <1>5 DEF AskPort, TellPort, Connect, Accept, Leave
  <1> QED
    BY <1>1, <1>2, <1>3, <1>4, <1>5 DEF Next, MainGoesOn

LEMMA StageAfterStage ==
  ASSUME MainGoesOn
  PROVE  /\ stage = "http" => stage' = "loading"
         /\ stage = "loading" => stage' = "constructed"
         /\ stage = "constructed" => stage' = "accepting"
         /\ stage = "accepting" => stage' = "threaded"
         /\ stage = "threaded" => stage' = "running"
         /\ stage # "running"
  BY DEF MainGoesOn, OpenHttp, OpenManager, LoadCards, accepting, StartThread, RunFrontEnd

\* A terminal that asks for the port early, when it is already listened at but nobody
\* answers yet, is answered, or the process ends (main.cpp:188-205): if main() goes
\* on, and the front end answers those it can.
THEOREM AskingIsAnswered ==
  ASSUME NEW t \in Terminals
  PROVE  Spec /\ WF_vars(MainGoesOn) /\ WF_vars(TellPort(t)) /\ []GoesOnIsEnabled
           => (terminal[t] = "asking" ~> terminal[t] \in {"told", "away"})
  <1> DEFINE W(s) == Waits(t, {s})
  <1>0. AskInv /\ terminal[t] = "asking" =>
          W("http") \/ W("loading") \/ W("constructed") \/ W("accepting")
          \/ W("threaded") \/ W("running")
    BY DEF AskInv, Asks, Serving, Waits
  <1>1. /\ AskInv /\ W("http") /\ [Next]_vars => W("http")' \/ W("loading")' \/ Answered(t)'
        /\ AskInv /\ W("http") /\ <<MainGoesOn>>_vars => W("loading")' \/ Answered(t)'
    BY WaitsOn, StageAfterStage DEF Waits, Next, MainGoesOn
  <1>2. /\ AskInv /\ W("loading") /\ [Next]_vars => W("loading")' \/ W("constructed")' \/ Answered(t)'
        /\ AskInv /\ W("loading") /\ <<MainGoesOn>>_vars => W("constructed")' \/ Answered(t)'
    BY WaitsOn, StageAfterStage DEF Waits, Next, MainGoesOn
  <1>3. /\ AskInv /\ W("constructed") /\ [Next]_vars
             => W("constructed")' \/ W("accepting")' \/ Answered(t)'
        /\ AskInv /\ W("constructed") /\ <<MainGoesOn>>_vars => W("accepting")' \/ Answered(t)'
    BY WaitsOn, StageAfterStage DEF Waits, Next, MainGoesOn
  <1>4. /\ AskInv /\ W("accepting") /\ [Next]_vars => W("accepting")' \/ W("threaded")' \/ Answered(t)'
        /\ AskInv /\ W("accepting") /\ <<MainGoesOn>>_vars => W("threaded")' \/ Answered(t)'
    BY WaitsOn, StageAfterStage DEF Waits, Next, MainGoesOn
  <1>8. /\ AskInv /\ W("threaded") /\ [Next]_vars => W("threaded")' \/ W("running")' \/ Answered(t)'
        /\ AskInv /\ W("threaded") /\ <<MainGoesOn>>_vars => W("running")' \/ Answered(t)'
    BY WaitsOn, StageAfterStage DEF Waits, Next, MainGoesOn
  <1>5. /\ AskInv /\ W("running") /\ [Next]_vars => W("running")' \/ Answered(t)'
        /\ AskInv /\ W("running") /\ <<TellPort(t)>>_vars => Answered(t)'
    <2>1. AskInv /\ <<TellPort(t)>>_vars => Answered(t)'
      BY DEF TellPort, Goes, Answered, AskInv, IInv, TypeOK
    <2> QED
      BY <2>1, WaitsOn, StageAfterStage DEF Waits
  <1>6. GoesOnIsEnabled =>
          /\ W("http") \/ W("loading") \/ W("constructed") \/ W("accepting") \/ W("threaded")
               => ENABLED <<MainGoesOn>>_vars
          /\ W("running") => ENABLED <<TellPort(t)>>_vars
    BY DEF GoesOnIsEnabled, Waits
  <1>7. Answered(t) <=> terminal[t] \in {"told", "away"}
    BY DEF Answered
  <1> HIDE DEF W
  <1> QED
    BY <1>0, <1>1, <1>2, <1>3, <1>4, <1>5, <1>6, <1>7, <1>8, SpecAskInv, PTL DEF Spec
================================================================================
