--------------------------- MODULE MCLFRConnection ---------------------------
(***************************************************************************)
(* LFRConnection for the model checker.  The cfg files give the constants  *)
(* small numbers; this module adds what the repository's own texts say of  *)
(* a connection, for the runs that refute it.                              *)
(***************************************************************************)
EXTENDS LFRConnection

\* The log line of lfrconnection.cpp:210, "no msg for 10 sec -> disconnect": a
\* client that stays silent for the limit is disconnected (or the process lost).
IdleDisconnect ==
  (tpc = "joining" /\ idle = PingLimit) ~>
    (socket = "closed" \/ idle < PingLimit \/ process = "terminated")

\* README.md:2, the application receives personal cards and passing events: a
\* record from a client that stays connected does not end the process.
RecordsReceived ==
  process = "terminated" /\ wpc = "record" => peer = "gone"
=============================================================================
