----------------------- MODULE LFRConnectionsManager -----------------------
(***************************************************************************)
(* The manager of the connections: class LFRConnectionsManager of          *)
(* CentralServer/lfrconnectionsmanager.{h,cpp}, with what a connection     *)
(* does with the manager and its card list (lfrconnection.cpp:20-30,       *)
(* 78-111, 152-190).                                                       *)
(*                                                                         *)
(* Three kinds of threads meet here, with no lock (connectionMutex is      *)
(* never used): the thread of the io_context, which accepts clients and    *)
(* appends to the list of connections; thread t of each connection, which  *)
(* walks the card list to synchronise its client; and the work threads,    *)
(* which change the card list and then walk the list of connections to     *)
(* queue the change for every other one.                                   *)
(*                                                                         *)
(* The nodes of the list are 1..listed, in the order of their creation:    *)
(* nothing ever leaves the list, and a connection that is over is, for the *)
(* manager, one that makes no more changes.  A change is known by its      *)
(* number.  What a connection does with its queue is the matter of         *)
(* LFRConnection: here heard[c] is the sequence of all changes ever put    *)
(* into the queue of c.                                                    *)
(***************************************************************************)
EXTENDS CardList

CONSTANTS
  CardLists,   \* the lists that Cards.json can hold
  Brought,     \* the cards that the clients send, to be added, edited or deleted
  MaxConns,    \* bound on the connections that are created
  MaxChanges   \* bound on the changes that are made

ASSUME LFRConnectionsManagerAssumption ==
  /\ CardLists \subseteq Seq(Card) /\ Brought \subseteq Card
  /\ MaxConns \in Nat \ {0}
  /\ MaxChanges \in Nat

VARIABLES
  cards,      \* the vector of the card manager
  listed,     \* the length of the list of connections
  rearm,      \* the handler of the accept has yet to call accepting() again
  conn,       \* the state of each connection
  announced,  \* the number of cards its synchronisation announced
  walked,     \* the cards its synchronisation has sent
  checked,    \* the loop has read size() and goes on to at(walked)
  cursor,     \* the node at which its work thread is in a broadcast, or 0
  making,     \* the change which its work thread broadcasts
  bringing,   \* the card that it brings with it, Blank for a deletion
  origin,     \* the connection that made each change
  heard,      \* the changes put into the queue of each connection
  seen,       \* how many changes there were when its synchronisation began
  known,      \* the cards it was sent, was told of in its queue, or made itself
  moved,      \* a deletion has moved cards while it was synchronised
  blocked     \* a write of its synchronisation waits for the client to read

vars == <<cards, listed, rearm, conn, announced, walked, checked, cursor, making,
          bringing, origin, heard, seen, known, moved, blocked>>
syncVars == <<announced, walked, checked, seen>>
castVars == <<cursor, making, bringing, origin, heard, moved>>

Conns == 1..MaxConns

Init ==
  /\ cards \in CardLists
  /\ listed = 1 /\ rearm = FALSE  \* main() has called accepting()
  /\ conn = [c \in Conns |-> IF c = 1 THEN "pending" ELSE "none"]
  /\ announced = [c \in Conns |-> 0] /\ walked = [c \in Conns |-> 0]
  /\ checked = [c \in Conns |-> FALSE]
  /\ cursor = [c \in Conns |-> 0] /\ making = [c \in Conns |-> 0]
  /\ bringing = [c \in Conns |-> Blank] /\ origin = <<>>
  /\ heard = [c \in Conns |-> <<>>] /\ seen = [c \in Conns |-> 0]
  /\ known = [c \in Conns |-> {}] /\ moved = [c \in Conns |-> FALSE]
  /\ blocked = [c \in Conns |-> FALSE]

\* A write into the socket of c waits if the client has left it full, until the
\* client reads (Drain): no timeout guards the writes of a synchronisation.
Writes(c) == \E waits \in BOOLEAN : blocked' = [blocked EXCEPT ![c] = waits]

Drain(c) ==
  /\ blocked[c]
  /\ blocked' = [blocked EXCEPT ![c] = FALSE]
  /\ UNCHANGED <<cards, listed, rearm, conn, syncVars, castVars, known>>

-----------------------------------------------------------------------------
(* The thread of the io_context.                                           *)

\* acceptNewConnection: on an error the connection stays on the list, unused; else
\* its thread begins with the write of "sync".
AcceptHandler ==
  /\ ~rearm
  /\ \/ conn' = [conn EXCEPT ![listed] = "failed"] /\ UNCHANGED blocked
     \/ conn' = [conn EXCEPT ![listed] = "started"] /\ Writes(listed)
  /\ rearm' = TRUE
  /\ UNCHANGED <<cards, listed, syncVars, castVars, known>>

\* accepting(): the next connection is on the list before it has a client.
accepting ==
  /\ rearm /\ listed < MaxConns
  /\ listed' = listed + 1
  /\ conn' = [conn EXCEPT ![listed'] = "pending"]
  /\ rearm' = FALSE
  /\ UNCHANGED <<cards, syncVars, castVars, known, blocked>>

-----------------------------------------------------------------------------
(* Thread t of connection c: fullSyncronisation.                           *)

\* "sync" is written; size() is read, and written.
Announce(c) ==
  /\ conn[c] = "started" /\ ~blocked[c]
  /\ conn' = [conn EXCEPT ![c] = "sync"]
  /\ announced' = [announced EXCEPT ![c] = Len(cards)]
  /\ seen' = [seen EXCEPT ![c] = Len(origin)]
  /\ Writes(c)
  /\ UNCHANGED <<cards, listed, rearm, walked, checked, castVars, known>>

\* The condition of the loop, which reads the size anew each time.
SyncCheck(c) ==
  /\ conn[c] = "sync" /\ ~checked[c] /\ ~blocked[c]
  /\ walked[c] < Len(cards)
  /\ checked' = [checked EXCEPT ![c] = TRUE]
  /\ UNCHANGED <<cards, listed, rearm, conn, announced, walked, seen, castVars, known, blocked>>

\* (mutants) The counter is not advanced; the first card is sent each time.
SendAgain(c) ==
  /\ conn[c] = "sync" /\ checked[c]
  /\ known' = [known EXCEPT ![c] = @ \cup ({cards[walked[c] + 1]} \ {Blank})]
  /\ checked' = [checked EXCEPT ![c] = FALSE]
  /\ Writes(c)
  /\ UNCHANGED <<cards, listed, rearm, conn, announced, walked, seen, castVars>>
SendFront(c) ==
  /\ conn[c] = "sync" /\ checked[c]
  /\ known' = [known EXCEPT ![c] = @ \cup ({cards[1]} \ {Blank})]
  /\ walked' = [walked EXCEPT ![c] = @ + 1]
  /\ checked' = [checked EXCEPT ![c] = FALSE]
  /\ Writes(c)
  /\ UNCHANGED <<cards, listed, rearm, conn, announced, seen, castVars>>

\* at(walked), which throws outside the list (SyncInRange), and the write.
SyncSend(c) ==
  /\ conn[c] = "sync" /\ checked[c]
  /\ known' = [known EXCEPT ![c] = @ \cup ({cards[walked[c] + 1]} \ {Blank})]
  /\ walked' = [walked EXCEPT ![c] = @ + 1]
  /\ checked' = [checked EXCEPT ![c] = FALSE]
  /\ Writes(c)
  /\ UNCHANGED <<cards, listed, rearm, conn, announced, seen, castVars>>

\* (mutant) The loop ends before the last card.
SyncEndsEarly(c) ==
  /\ conn[c] = "sync" /\ ~checked[c] /\ ~blocked[c]
  /\ walked[c] + 1 >= Len(cards)
  /\ conn' = [conn EXCEPT ![c] = "live"]
  /\ UNCHANGED <<cards, listed, rearm, syncVars, castVars, known, blocked>>

SyncEnds(c) ==
  /\ conn[c] = "sync" /\ ~checked[c] /\ ~blocked[c]
  /\ walked[c] >= Len(cards)
  /\ conn' = [conn EXCEPT ![c] = "live"]
  /\ UNCHANGED <<cards, listed, rearm, syncVars, castVars, known, blocked>>

-----------------------------------------------------------------------------
(* The work thread of connection c: personalCardAdded, -Edited, -Deleted.  *)

\* The card manager changes its list; the terminal of c has made the card itself.
Adds(c, card) ==
  /\ cards' \in {Added(cards, card), Edited(cards, card)}
  /\ bringing' = [bringing EXCEPT ![c] = card]
  /\ known' = [known EXCEPT ![c] = @ \cup {card}]
  /\ UNCHANGED moved

Deletes(c, id) ==
  /\ cards' = RemoveIf(cards, id)
  /\ bringing' = [bringing EXCEPT ![c] = Blank]
  /\ moved' = [d \in Conns |-> moved[d] \/ (conn[d] = "sync" /\ cards' # cards)]
  /\ UNCHANGED known

\* Then the walk starts at the first node.
Change(c) ==
  /\ conn[c] = "live" /\ cursor[c] = 0 /\ Len(origin) < MaxChanges
  /\ \E card \in Brought : Adds(c, card) \/ Deletes(c, card.id)
  /\ origin' = Append(origin, c)
  /\ making' = [making EXCEPT ![c] = Len(origin')]
  /\ cursor' = [cursor EXCEPT ![c] = 1]
  /\ UNCHANGED <<listed, rearm, conn, syncVars, heard, blocked>>

\* (mutant) The walk does not stop at end().
PastTheEnd(node) == node + 1

After(node) == IF node = listed THEN 0 ELSE node + 1

\* The walk of c leaves its node, and drops the card behind the last one.
Leaves(c, next) ==
  /\ cursor' = [cursor EXCEPT ![c] = next]
  /\ bringing' = IF next = 0 THEN [bringing EXCEPT ![c] = Blank] ELSE bringing
  /\ UNCHANGED <<cards, listed, rearm, conn, syncVars, making, origin, moved, blocked>>

\* The change of c into the queue of the node; `queue' is the queue then.
Pushes(c, node, queue) ==
  /\ heard' = [heard EXCEPT ![node] = queue]
  /\ known' = [known EXCEPT ![node] = @ \cup ({bringing[c]} \ {Blank})]

Passes == UNCHANGED <<heard, known>>

\* (mutants) Only the connections that are synchronised are told; the changes
\* are put in front of the queue; the walk stops at the connection itself.
VisitLive(c) ==
  /\ cursor[c] # 0
  /\ IF cursor[c] = c \/ conn[cursor[c]] # "live" THEN Passes
     ELSE Pushes(c, cursor[c], Append(heard[cursor[c]], making[c]))
  /\ Leaves(c, After(cursor[c]))
VisitInFront(c) ==
  /\ cursor[c] # 0
  /\ IF cursor[c] = c THEN Passes
     ELSE Pushes(c, cursor[c], <<making[c]>> \o heard[cursor[c]])
  /\ Leaves(c, After(cursor[c]))
VisitUpToItself(c) ==
  /\ cursor[c] # 0
  /\ IF cursor[c] = c THEN Passes /\ Leaves(c, 0)
     ELSE /\ Pushes(c, cursor[c], Append(heard[cursor[c]], making[c]))
          /\ Leaves(c, After(cursor[c]))

\* The body of the loop, then ++ on the iterator: at the last node of the moment
\* it becomes end(), and a node appended later is not visited.
Visit(c) ==
  /\ cursor[c] # 0
  /\ IF cursor[c] = c THEN Passes
     ELSE Pushes(c, cursor[c], Append(heard[cursor[c]], making[c]))
  /\ Leaves(c, After(cursor[c]))

Next ==
  \/ AcceptHandler \/ accepting
  \/ \E c \in Conns :
       \/ Announce(c) \/ SyncCheck(c) \/ SyncSend(c) \/ SyncEnds(c)
       \/ Change(c) \/ Visit(c) \/ Drain(c)

\* Threads run: a push into a queue does not wait, and a synchronisation goes on when
\* its write is over.  Nothing makes a client connect, send a change or read.
Fairness ==
  \A c \in Conns :
    /\ WF_vars(Visit(c))
    /\ WF_vars(Announce(c) \/ SyncCheck(c) \/ SyncSend(c) \/ SyncEnds(c))

Spec == Init /\ [][Next]_vars

FairSpec == Spec /\ Fairness

-----------------------------------------------------------------------------
(* Properties.                                                             *)

\* Every variable has its type.
TypeOK ==
  /\ cards \in Seq(Card \cup {Blank})
  /\ listed \in Conns /\ rearm \in BOOLEAN
  /\ conn \in [Conns -> {"none", "pending", "failed", "started", "sync", "live"}]
  /\ announced \in [Conns -> Nat] /\ walked \in [Conns -> Nat]
  /\ checked \in [Conns -> BOOLEAN]
  /\ cursor \in [Conns -> 0..listed] /\ making \in [Conns -> 0..MaxChanges]
  /\ origin \in Seq(Conns) /\ Len(origin) <= MaxChanges
  /\ heard \in [Conns -> Seq(1..Len(origin))]
  /\ seen \in [Conns -> 0..Len(origin)]
  /\ bringing \in [Conns -> Card \cup {Blank}]
  /\ known \in [Conns -> SUBSET (Card \cup {Blank})]
  /\ moved \in [Conns -> BOOLEAN] /\ blocked \in [Conns -> BOOLEAN]

Hears(c, n) == \E i \in 1..Len(heard[c]) : heard[c][i] = n
Broadcasting(n) == making[origin[n]] = n /\ cursor[origin[n]] # 0

\* A connection is told from the moment it begins to synchronise, not from its end:
\* each change that another connection made after it had read size(), and whose
\* broadcast is over, is in its queue.
QueuedSince ==
  \A c \in Conns, n \in 1..Len(origin) :
    /\ conn[c] \in {"sync", "live"} /\ seen[c] < n
    /\ origin[n] # c /\ ~Broadcasting(n)
    => Hears(c, n)

\* What the list holds, every synchronised terminal has: between the walk of its
\* synchronisation and its queue no card of the list is missed, whatever the other
\* connections add, edit and delete meanwhile, once their broadcasts are over.  The
\* exception is a deletion during the walk, which can move a card that is yet to be
\* sent to a place that the walk has passed.
ListIsKnown ==
  \A c \in Conns :
    conn[c] = "live" /\ ~moved[c] /\ (\A d \in Conns : cursor[d] = 0) =>
      \A i \in 1..Len(cards) : cards[i] \in known[c] \cup {Blank}

\* With several broadcasts under way, a queue holds the changes of each of the
\* other connections in the order in which they were made, none of them twice, and
\* never the connection's own.
HeardInOrder ==
  \A c \in Conns : \A j \in 1..Len(heard[c]) :
    /\ origin[heard[c][j]] # c
    /\ \A i \in 1..(j - 1) :
         origin[heard[c][i]] = origin[heard[c][j]] => heard[c][i] < heard[c][j]

\* fullSyncronisation reads size() and then at(i), while other connections change
\* the list: at(i) never throws.
SyncInRange == \A c \in Conns : checked[c] => walked[c] < Len(cards)

\* A complete synchronisation has sent the number of cards it announced - except
\* that the first card of all may come in while an empty list is sent.
AnnouncedIsSent ==
  \A c \in Conns :
    conn[c] = "live" =>
      \/ walked[c] = announced[c]
      \/ announced[c] = 0 /\ walked[c] = 1

\* Whatever else happens to the list of cards, a synchronisation ends, if its client
\* does not stop reading.
SyncEndsEventually ==
  \A c \in Conns : []<>(~blocked[c]) => (conn[c] = "started" ~> conn[c] = "live")

\* Whatever else happens to the list of connections, a change comes into the queue
\* of each other connection that began to synchronise before it was made.
Reached(n) ==
  \A c \in Conns :
    conn[c] \in {"sync", "live"} /\ seen[c] < n /\ origin[n] # c => Hears(c, n)

ChangeReachesAll ==
  \A n \in 1..MaxChanges : n <= Len(origin) ~> n <= Len(origin) /\ Reached(n)
=============================================================================
