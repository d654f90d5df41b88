-------------------- MODULE LFRConnectionsManagerProofs --------------------
(***************************************************************************)
(* What holds of the manager for every number of connections, of changes   *)
(* and of cards.                                                           *)
(***************************************************************************)
EXTENDS LFRConnectionsManager, CardListProofs

-----------------------------------------------------------------------------
(* Types, as far as most of the proofs need them, and the threads of       *)
(* connections that are not on the list.                                   *)

States == {"none", "pending", "failed", "started", "sync", "live"}

TypeInv ==
  /\ cards \in Seq(Card \cup {Blank})
  /\ listed \in Conns /\ rearm \in BOOLEAN
  /\ conn \in [Conns -> States]
  /\ announced \in [Conns -> Nat] /\ walked \in [Conns -> Nat]
  /\ checked \in [Conns -> BOOLEAN]
  /\ cursor \in [Conns -> 0..listed] /\ making \in [Conns -> Nat]
  /\ origin \in Seq(Conns)
  /\ heard \in [Conns -> Seq(Nat)]
  /\ seen \in [Conns -> Nat]
  /\ bringing \in [Conns -> Card \cup {Blank}]
  /\ moved \in [Conns -> BOOLEAN] /\ blocked \in [Conns -> BOOLEAN]

\* The last connection of the list is the one that waits for a client, and only
\* those on the list have a thread.
Listing ==
  /\ \A c \in Conns : c > listed => conn[c] = "none"
  /\ rearm \/ conn[listed] = "pending"

\* A change keeps the list a list, and as long as it was, but for a first card.
LEMMA ChangeKeeps ==
  ASSUME cards \in Seq(Card \cup {Blank}), NEW c \in Conns, Change(c)
  PROVE  /\ cards' \in Seq(Card \cup {Blank})
         /\ Len(cards') = Len(cards) \/ (Len(cards) = 0 /\ Len(cards') = 1)
<1> DEFINE S == Card \cup {Blank}
<1>1. Card \subseteq S /\ S \cup {Blank} = S /\ cards \in Seq(S)
  OBVIOUS
<1>2. PICK card \in Card :
        cards' \in {Added(cards, card), Edited(cards, card), RemoveIf(cards, card.id)}
  BY LFRConnectionsManagerAssumption DEF Change, Adds, Deletes
<1> HIDE DEF S
<1>3. /\ Added(cards, card) \in Seq(S) /\ Edited(cards, card) \in Seq(S)
      /\ RemoveIf(cards, card.id) \in Seq(S)
      /\ Len(RemoveIf(cards, card.id)) = Len(cards)
      /\ \A new \in {Added(cards, card), Edited(cards, card)} :
           Len(new) = Len(cards) \/ (Len(cards) = 0 /\ Len(new) = 1)
  BY <1>1, ListOperations
<1>4. /\ cards' \in Seq(S)
      /\ Len(cards') = Len(cards) \/ (Len(cards) = 0 /\ Len(cards') = 1)
  BY <1>2, <1>3
<1> QED
  BY <1>4 DEF S

LEMMA TypeInvInit == Init => TypeInv
<1> SUFFICES ASSUME Init PROVE TypeInv
  OBVIOUS
<1> USE LFRConnectionsManagerAssumption DEF Conns
<1>1. cards \in Seq(Card \cup {Blank}) /\ rearm \in BOOLEAN
  <2>1. cards \in Seq(Card)
    BY DEF Init
  <2> QED
    BY <2>1, SeqMonotonic DEF Init
<1>2. conn \in [Conns -> States]
  BY DEF Init, States
<1>3. listed \in Conns
  BY DEF Init
<1>4. cursor \in [Conns -> 0..listed] /\ making \in [Conns -> Nat]
  BY DEF Init
<1>5. origin \in Seq(Conns) /\ heard \in [Conns -> Seq(Nat)]
  BY DEF Init
<1>6. /\ announced \in [Conns -> Nat] /\ walked \in [Conns -> Nat]
      /\ checked \in [Conns -> BOOLEAN] /\ seen \in [Conns -> Nat]
  BY DEF Init
<1>7. /\ bringing \in [Conns -> Card \cup {Blank}]
      /\ moved \in [Conns -> BOOLEAN] /\ blocked \in [Conns -> BOOLEAN]
  BY DEF Init
<1> QED
  BY <1>1, <1>2, <1>3, <1>4, <1>5, <1>6, <1>7 DEF TypeInv

LEMMA TypeInvStep == TypeInv /\ [Next]_vars => TypeInv'
<1> SUFFICES ASSUME TypeInv, [Next]_vars PROVE TypeInv'
  OBVIOUS
<1> USE DEF TypeInv, syncVars, castVars
<1>a. Conns = 1..MaxConns /\ MaxConns \in Nat
  BY LFRConnectionsManagerAssumption DEF Conns
<1>b. Len(cards) \in Nat /\ Len(origin) \in Nat
  BY DEF TypeInv
<1>c. listed \in Nat /\ listed >= 1 /\ \A c \in Conns : c \in Nat
  BY <1>a
<1>d. \A c \in Conns : cursor[c] \in 0..listed
  BY DEF TypeInv
<1>e. \A c \in Conns : Writes(c) => blocked' \in [Conns -> BOOLEAN]
  BY DEF Writes
<1>1. CASE AcceptHandler
  <2>1. conn' \in [Conns -> States]
    BY <1>1 DEF AcceptHandler, States
  <2>2. blocked' \in [Conns -> BOOLEAN]
    BY <1>1, <1>e DEF AcceptHandler
  <2> QED
    BY <1>1, <2>1, <2>2 DEF AcceptHandler
<1>2. CASE accepting
  <2>1. conn' \in [Conns -> States]
    BY <1>2 DEF accepting, States
  <2>2. listed' \in Conns
    BY <1>2, <1>a DEF accepting
  <2>3. \A c \in Conns : cursor[c] \in 0..(listed + 1)
    BY <1>c, <1>d, SMTT(30)
  <2>4. cursor' \in [Conns -> 0..listed']
    BY <1>2, <2>3 DEF accepting
  <2> QED
    BY <1>2, <2>1, <2>2, <2>4 DEF accepting
<1>3. ASSUME NEW c \in Conns, Announce(c) PROVE TypeInv'
  <2>1. conn' \in [Conns -> States]
    BY <1>3 DEF Announce, States
  <2>2. blocked' \in [Conns -> BOOLEAN]
    BY <1>3, <1>e DEF Announce
  <2> QED
    BY <1>3, <1>b, <2>1, <2>2 DEF Announce
<1>4. ASSUME NEW c \in Conns, SyncCheck(c) PROVE TypeInv'
  BY <1>4 DEF SyncCheck
<1>5. ASSUME NEW c \in Conns, SyncSend(c) PROVE TypeInv'
  <2>1. walked' \in [Conns -> Nat]
    BY <1>5 DEF SyncSend
  <2>2. checked' \in [Conns -> BOOLEAN] /\ blocked' \in [Conns -> BOOLEAN]
    BY <1>5, <1>e DEF SyncSend
  <2> QED
    BY <1>5, <2>1, <2>2 DEF SyncSend
<1>6. ASSUME NEW c \in Conns, SyncEnds(c) PROVE TypeInv'
  <2>1. conn' \in [Conns -> States]
    BY <1>6 DEF SyncEnds, States
  <2> QED
    BY <1>6, <2>1 DEF SyncEnds
<1>7. ASSUME NEW c \in Conns, Drain(c) PROVE TypeInv'
  BY <1>7 DEF Drain
<1>8. ASSUME NEW c \in Conns, Change(c) PROVE TypeInv'
  <2>1. cards' \in Seq(Card \cup {Blank})
    BY <1>8, ChangeKeeps
  <2>2. origin' \in Seq(Conns) /\ Len(origin') \in Nat
    BY <1>8, AppendProperties DEF Change
  <2>3. cursor' \in [Conns -> 0..listed]
    BY <1>8, <1>c DEF Change
  <2>4. making' \in [Conns -> Nat]
    BY <1>8, <2>2 DEF Change
  <2>5. bringing' \in [Conns -> Card \cup {Blank}] /\ moved' \in [Conns -> BOOLEAN]
    <3>1. PICK card \in Card : Adds(c, card) \/ Deletes(c, card.id)
      BY <1>8, LFRConnectionsManagerAssumption DEF Change
    <3>2. CASE Adds(c, card)
      BY <3>2 DEF Adds
    <3>3. CASE Deletes(c, card.id)
      BY <3>3 DEF Deletes
    <3> QED
      BY <3>1, <3>2, <3>3
  <2> QED
    BY <1>8, <2>1, <2>2, <2>3, <2>4, <2>5 DEF Change
<1>9. ASSUME NEW c \in Conns, Visit(c) PROVE TypeInv'
  <2>a. cursor[c] \in 1..listed
    BY <1>9, <1>c, <1>d, SMTT(30) DEF Visit, Leaves, Pushes, Passes
  <2>1. making[c] \in Nat /\ cursor[c] \in 1..listed /\ cursor[c] \in Conns
    BY <1>a, <2>a
  <2>2. Append(heard[cursor[c]], making[c]) \in Seq(Nat)
    BY <2>1, AppendProperties
  <2>3. heard' \in [Conns -> Seq(Nat)]
    BY <1>9, <2>1, <2>2 DEF Visit, Leaves, Pushes, Passes
  <2>4. After(cursor[c]) \in 0..listed
    BY <1>c, <2>a, SMTT(30) DEF After
  <2>5. cursor' \in [Conns -> 0..listed] /\ bringing' \in [Conns -> Card \cup {Blank}]
    BY <1>9, <2>4 DEF Visit, Leaves
  <2> QED
    BY <1>9, <2>3, <2>5 DEF Visit, Leaves
<1>10. CASE UNCHANGED vars
  BY <1>10 DEF vars
<1> QED
  BY <1>1, <1>2, <1>3, <1>4, <1>5, <1>6, <1>7, <1>8, <1>9, <1>10 DEF Next

LEMMA TypeInvHolds == Spec => []TypeInv
BY TypeInvInit, TypeInvStep, PTL DEF Spec

LEMMA ListingInit == Init => Listing
BY LFRConnectionsManagerAssumption DEF Init, Listing, Conns

LEMMA ListingStep == TypeInv /\ Listing /\ [Next]_vars => Listing'
<1> SUFFICES ASSUME TypeInv, Listing, [Next]_vars PROVE Listing'
  OBVIOUS
<1>a. conn \in [Conns -> States] /\ listed \in Conns
  BY DEF TypeInv
<1>b. Conns = 1..MaxConns /\ MaxConns \in Nat
  BY LFRConnectionsManagerAssumption DEF Conns
<1> USE <1>a, <1>b DEF Listing, syncVars, castVars
<1>1. CASE AcceptHandler
  BY <1>1 DEF AcceptHandler
<1>2. CASE accepting
  <2>1. listed' = listed + 1 /\ listed' \in Conns
    BY <1>2 DEF accepting
  <2>2. conn'[listed'] = "pending"
    BY <1>2, <2>1 DEF accepting
  <2>3. \A c \in Conns : c > listed' => conn'[c] = "none"
    BY <1>2, <2>1 DEF accepting
  <2> QED
    BY <2>2, <2>3
<1>3. ASSUME NEW c \in Conns, \/ Announce(c) \/ SyncCheck(c) \/ SyncSend(c)
                              \/ SyncEnds(c) \/ Drain(c)
      PROVE  Listing'
  BY <1>3 DEF Announce, SyncCheck, SyncSend, SyncEnds, Drain
<1>4. ASSUME NEW c \in Conns, Change(c) \/ Visit(c) PROVE Listing'
  BY <1>4 DEF Change, Visit, Leaves, Pushes, Passes
<1>5. CASE UNCHANGED vars
  BY <1>5 DEF vars
<1> QED
  BY <1>1, <1>2, <1>3, <1>4, <1>5 DEF Next

LEMMA ListingHolds == Spec => []Listing
BY TypeInvHolds, ListingInit, ListingStep, PTL DEF Spec

-----------------------------------------------------------------------------
(* The synchronisation and the list of cards.                              *)

\* While a connection is synchronised the list is as long as it was announced, or
\* holds the one card that came into the empty list.
Walking(c) ==
  /\ conn[c] \in {"none", "pending", "failed", "started"} => walked[c] = 0
  /\ conn[c] # "sync" => ~checked[c]
  /\ conn[c] = "sync" =>
       /\ walked[c] <= Len(cards)
       /\ announced[c] = Len(cards) \/ (announced[c] = 0 /\ Len(cards) = 1)
       /\ checked[c] => walked[c] < Len(cards)
  /\ conn[c] = "live" =>
       walked[c] = announced[c] \/ (announced[c] = 0 /\ walked[c] = 1)

WalkInv == \A c \in Conns : Walking(c)

LEMMA WalkInvInit == Init => WalkInv
BY LFRConnectionsManagerAssumption DEF Init, WalkInv, Walking, Conns

LEMMA WalkInvStep == TypeInv /\ Listing /\ WalkInv /\ [Next]_vars => WalkInv'
<1> SUFFICES ASSUME TypeInv, Listing, WalkInv, [Next]_vars, NEW d \in Conns PROVE Walking(d)'
  BY DEF WalkInv
<1>a. Walking(d)
  BY DEF WalkInv
<1>b. Len(cards) \in Nat
  BY DEF TypeInv
<1>c. listed \in Conns /\ conn \in [Conns -> States] /\ announced \in [Conns -> Nat]
      /\ walked \in [Conns -> Nat] /\ checked \in [Conns -> BOOLEAN]
  BY DEF TypeInv
<1>d. checked[d] \in BOOLEAN
  BY <1>c
<1> USE <1>a, <1>b, <1>c, <1>d DEF Walking, syncVars, castVars
<1>1. CASE AcceptHandler
  <2>1. conn[listed] = "pending" /\ Walking(listed)
    BY <1>1 DEF AcceptHandler, Listing, WalkInv
  <2> QED
    BY <1>1, <2>1 DEF AcceptHandler
<1>2. CASE accepting
  <2>1. listed' = listed + 1 /\ listed' \in Conns
    BY <1>2, LFRConnectionsManagerAssumption DEF accepting, Conns
  <2>2. conn[listed'] = "none"
    BY <1>c, <2>1 DEF Listing, Conns
  <2> QED
    BY <1>2, <2>1, <2>2 DEF accepting
<1>3. ASSUME NEW c \in Conns, Announce(c) PROVE Walking(d)'
  BY <1>3 DEF Announce
<1>4. ASSUME NEW c \in Conns, SyncCheck(c) PROVE Walking(d)'
  BY <1>4 DEF SyncCheck
<1>5. ASSUME NEW c \in Conns, SyncSend(c) PROVE Walking(d)'
  BY <1>5 DEF SyncSend
<1>6. ASSUME NEW c \in Conns, SyncEnds(c) PROVE Walking(d)'
  <2>1. CASE c = d
    <3>1. walked[d] = Len(cards)
      BY <1>6, <2>1 DEF SyncEnds
    <3>2. walked[d] = announced[d] \/ (announced[d] = 0 /\ walked[d] = 1)
      BY <1>6, <2>1, <3>1 DEF SyncEnds
    <3> QED
      BY <1>6, <2>1, <3>2 DEF SyncEnds
  <2> QED
    BY <1>6, <2>1 DEF SyncEnds
<1>7. ASSUME NEW c \in Conns, Drain(c) PROVE Walking(d)'
  BY <1>7 DEF Drain
<1>8. ASSUME NEW c \in Conns, Change(c) PROVE Walking(d)'
  <2>1. Len(cards') = Len(cards) \/ (Len(cards) = 0 /\ Len(cards') = 1)
    BY <1>8, ChangeKeeps DEF TypeInv
  <2> QED
    BY <1>8, <2>1 DEF Change
<1>9. ASSUME NEW c \in Conns, Visit(c) PROVE Walking(d)'
  BY <1>9 DEF Visit, Leaves, Pushes, Passes
<1>10. CASE UNCHANGED vars
  BY <1>10 DEF vars
<1> QED
  BY <1>1, <1>2, <1>3, <1>4, <1>5, <1>6, <1>7, <1>8, <1>9, <1>10 DEF Next

LEMMA WalkInvHolds == Spec => []WalkInv
<1>1. Spec => []TypeInv
  BY TypeInvHolds
<1> QED
  BY <1>1, ListingHolds, WalkInvInit, WalkInvStep, PTL DEF Spec

\* at(i) of fullSyncronisation never throws (lfrconnection.cpp:160-162), for any
\* list of cards, whatever the other connections do to it in the meantime.
THEOREM SyncInRangeHolds == Spec => []SyncInRange
<1>1. WalkInv => SyncInRange
  BY DEF WalkInv, Walking, SyncInRange
<1> QED
  BY <1>1, WalkInvHolds, PTL

\* As many cards are sent as were announced (lfrconnection.cpp:157-164), but for the
\* first card of all.
THEOREM AnnouncedIsSentHolds == Spec => []AnnouncedIsSent
<1>1. WalkInv => AnnouncedIsSent
  BY DEF WalkInv, Walking, AnnouncedIsSent
<1> QED
  BY <1>1, WalkInvHolds, PTL

-----------------------------------------------------------------------------
(* The broadcasts and the queues.                                          *)

\* A walk broadcasts a change of its own connection.
CastInv ==
  \A c \in Conns :
    cursor[c] # 0 => making[c] \in 1..Len(origin) /\ origin[making[c]] = c

\* A change made since a connection began to synchronise, and that is not in its queue,
\* is still on its way: the walk has not passed the connection.
Told(c, n) ==
  (conn[c] \in {"sync", "live"} /\ origin[n] # c /\ seen[c] < n)
    => \/ Hears(c, n)
       \/ making[origin[n]] = n /\ cursor[origin[n]] \in 1..c

ToldInv == \A c \in Conns : \A n \in 1..Len(origin) : Told(c, n)

\* A change in the queue of c was made by another connection, which has made none
\* after it, or whose walk has passed c.
Passed(c, n) ==
  /\ n \in 1..Len(origin)
  /\ origin[n] # c
  /\ \/ n < making[origin[n]]
     \/ n = making[origin[n]] /\ (cursor[origin[n]] = 0 \/ cursor[origin[n]] > c)

PassedInv == \A c \in Conns : \A j \in 1..Len(heard[c]) : Passed(c, heard[c][j])

\* What a Change appends to origin.
LEMMA ChangeOrigin ==
  ASSUME TypeInv, NEW c \in Conns, Change(c)
  PROVE  /\ Len(origin) \in Nat
         /\ Len(origin') = Len(origin) + 1
         /\ origin'[Len(origin')] = c
         /\ \A n \in 1..Len(origin) : origin'[n] = origin[n]
         /\ cursor = [cursor EXCEPT ![c] = 0] /\ cursor' = [cursor EXCEPT ![c] = 1]
         /\ making' = [making EXCEPT ![c] = Len(origin) + 1]
<1>1. origin \in Seq(Conns) /\ origin' = Append(origin, c)
  BY DEF TypeInv, Change
<1>2. cursor[c] = 0 /\ cursor \in [Conns -> 0..listed]
  BY DEF TypeInv, Change
<1>3. /\ Len(origin) \in Nat
      /\ Len(origin') = Len(origin) + 1
      /\ origin'[Len(origin')] = c
      /\ \A n \in 1..Len(origin) : origin'[n] = origin[n]
  BY <1>1, AppendProperties
<1> QED
  BY <1>2, <1>3 DEF Change

\* Where a walk is, and what it appends to the queue it has come to.
LEMMA VisitHeard ==
  ASSUME TypeInv, NEW c \in Conns, Visit(c)
  PROVE  /\ cursor[c] \in 1..listed /\ cursor[c] \in Conns
         /\ cursor' = [cursor EXCEPT ![c] = After(cursor[c])]
         /\ \A d \in Conns : Len(heard[d]) \in Nat
         /\ \A d \in Conns : (d # cursor[c] \/ d = c) => heard'[d] = heard[d]
         /\ cursor[c] # c =>
              /\ Len(heard'[cursor[c]]) = Len(heard[cursor[c]]) + 1
              /\ heard'[cursor[c]][Len(heard'[cursor[c]])] = making[c]
              /\ \A i \in 1..Len(heard[cursor[c]]) :
                   heard'[cursor[c]][i] = heard[cursor[c]][i]
<1>1. cursor \in [Conns -> 0..listed] /\ cursor[c] # 0 /\ listed \in 1..MaxConns
  BY DEF TypeInv, Visit, Leaves, Pushes, Passes, Conns
<1>2. cursor[c] \in 1..listed
  BY <1>1
<1>3. cursor[c] \in Conns
  BY <1>1, <1>2, LFRConnectionsManagerAssumption DEF Conns
<1>4. heard \in [Conns -> Seq(Nat)] /\ making[c] \in Nat
  BY DEF TypeInv
<1>5. \A d \in Conns : Len(heard[d]) \in Nat
  BY <1>4
<1>6. \A d \in Conns : (d # cursor[c] \/ d = c) => heard'[d] = heard[d]
  BY <1>3, <1>4 DEF Visit, Leaves, Pushes, Passes
<1>7. ASSUME cursor[c] # c
      PROVE  /\ Len(heard'[cursor[c]]) = Len(heard[cursor[c]]) + 1
             /\ heard'[cursor[c]][Len(heard'[cursor[c]])] = making[c]
             /\ \A i \in 1..Len(heard[cursor[c]]) :
                  heard'[cursor[c]][i] = heard[cursor[c]][i]
  <2>1. heard'[cursor[c]] = Append(heard[cursor[c]], making[c])
    BY <1>3, <1>4, <1>7 DEF Visit, Leaves, Pushes, Passes
  <2>2. heard[cursor[c]] \in Seq(Nat)
    BY <1>3, <1>4
  <2> QED
    BY <1>4, <2>1, <2>2, AppendProperties
<1> QED
  BY <1>2, <1>3, <1>5, <1>6, <1>7 DEF Visit, Leaves, Pushes, Passes

\* The other actions leave the broadcasts and the queues alone.
LEMMA QuietSteps ==
  ASSUME [Next]_vars, \A c \in Conns : ~Change(c) /\ ~Visit(c)
  PROVE  UNCHANGED castVars
<1> USE DEF castVars
<1>1. ASSUME AcceptHandler \/ accepting PROVE UNCHANGED castVars
  BY <1>1 DEF AcceptHandler, accepting
<1>2. ASSUME NEW c \in Conns, Announce(c) \/ SyncCheck(c) \/ SyncSend(c)
      PROVE  UNCHANGED castVars
  BY <1>2 DEF Announce, SyncCheck, SyncSend
<1>3. ASSUME NEW c \in Conns, SyncEnds(c) \/ Drain(c) PROVE UNCHANGED castVars
  BY <1>3 DEF SyncEnds, Drain
<1>4. CASE UNCHANGED vars
  BY <1>4 DEF vars
<1> QED
  BY <1>1, <1>2, <1>3, <1>4 DEF Next

LEMMA CastInvStep == TypeInv /\ CastInv /\ [Next]_vars => CastInv'
<1> SUFFICES ASSUME TypeInv, CastInv, [Next]_vars PROVE CastInv'
  OBVIOUS
<1>a. cursor \in [Conns -> 0..listed] /\ making \in [Conns -> Nat]
  BY DEF TypeInv
<1>1. ASSUME NEW c \in Conns, Change(c) PROVE CastInv'
  <2>1. /\ Len(origin) \in Nat /\ Len(origin') = Len(origin) + 1
        /\ origin'[Len(origin')] = c
        /\ \A n \in 1..Len(origin) : origin'[n] = origin[n]
        /\ cursor' = [cursor EXCEPT ![c] = 1]
        /\ making' = [making EXCEPT ![c] = Len(origin) + 1]
    BY <1>1, ChangeOrigin
  <2>2. SUFFICES ASSUME NEW d \in Conns, cursor'[d] # 0
                 PROVE  making'[d] \in 1..Len(origin') /\ origin'[making'[d]] = d
    BY DEF CastInv
  <2>3. CASE d = c
    BY <1>a, <2>1, <2>3
  <2>4. CASE d # c
    <3>1. making'[d] = making[d] /\ making[d] \in 1..Len(origin) /\ origin[making[d]] = d
      BY <1>a, <2>1, <2>2, <2>4 DEF CastInv
    <3> QED
      BY <2>1, <3>1
  <2> QED
    BY <2>3, <2>4
<1>2. ASSUME NEW c \in Conns, Visit(c) PROVE CastInv'
  BY <1>2, <1>a DEF Visit, Leaves, Pushes, Passes, CastInv
<1>3. CASE \A c \in Conns : ~Change(c) /\ ~Visit(c)
  BY <1>3, QuietSteps DEF CastInv, castVars
<1> QED
  BY <1>1, <1>2, <1>3

LEMMA CastInvHolds == Spec => []CastInv
<1>1. Init => CastInv
  BY DEF Init, CastInv
<1> QED
  BY <1>1, TypeInvHolds, CastInvStep, PTL DEF Spec

LEMMA PassedInvStep == TypeInv /\ CastInv /\ PassedInv /\ [Next]_vars => PassedInv'
<1> SUFFICES ASSUME TypeInv, CastInv, PassedInv, [Next]_vars PROVE PassedInv'
  OBVIOUS
<1>t. cursor \in [Conns -> 0..listed] /\ making \in [Conns -> Nat] /\ listed \in Conns
  BY DEF TypeInv
<1>a. cursor \in [Conns -> 0..listed] /\ making \in [Conns -> Nat] /\ listed \in Nat
      /\ \A c \in Conns : c \in Nat
  BY <1>t, LFRConnectionsManagerAssumption DEF Conns
<1>b. \A n \in 1..Len(origin) : origin[n] \in Conns
  BY DEF TypeInv
<1>1. ASSUME NEW c \in Conns, Change(c) PROVE PassedInv'
  <2>1. /\ Len(origin) \in Nat /\ Len(origin') = Len(origin) + 1
        /\ \A n \in 1..Len(origin) : origin'[n] = origin[n]
        /\ making' = [making EXCEPT ![c] = Len(origin) + 1]
        /\ cursor' = [cursor EXCEPT ![c] = 1]
    BY <1>1, ChangeOrigin
  <2>2. heard' = heard
    BY <1>1 DEF Change
  <2>3. SUFFICES ASSUME NEW d \in Conns, NEW j \in 1..Len(heard[d])
                 PROVE  Passed(d, heard[d][j])'
    BY <2>2 DEF PassedInv
  <2> DEFINE n == heard[d][j]
  <2>4. Passed(d, n)
    BY DEF PassedInv
  <2> HIDE DEF n
  <2>5. n \in 1..Len(origin) /\ origin[n] \in Conns /\ origin[n] # d
    BY <1>b, <2>4 DEF Passed
  <2>6. n \in 1..Len(origin') /\ origin'[n] = origin[n]
    BY <2>1, <2>5
  <2>7. CASE origin[n] = c
    <3>1. making'[origin[n]] = Len(origin) + 1
      BY <1>a, <2>1, <2>7
    <3>2. n < making'[origin'[n]]
      BY <2>1, <2>5, <2>6, <3>1
    <3> QED
      BY <2>2, <2>5, <2>6, <3>2 DEF Passed, n
  <2>8. CASE origin[n] # c
    <3>1. making'[origin[n]] = making[origin[n]] /\ cursor'[origin[n]] = cursor[origin[n]]
      BY <1>a, <2>1, <2>5, <2>8
    <3> QED
      BY <2>2, <2>4, <2>5, <2>6, <3>1 DEF Passed, n
  <2> QED
    BY <2>7, <2>8
<1>2. ASSUME NEW c \in Conns, Visit(c) PROVE PassedInv'
  <2> DEFINE k == cursor[c]
  <2>1. /\ k \in 1..listed /\ k \in Conns
        /\ cursor' = [cursor EXCEPT ![c] = After(k)]
        /\ \A d \in Conns : Len(heard[d]) \in Nat
        /\ \A d \in Conns : (d # k \/ d = c) => heard'[d] = heard[d]
        /\ k # c => /\ Len(heard'[k]) = Len(heard[k]) + 1
                    /\ heard'[k][Len(heard'[k])] = making[c]
                    /\ \A i \in 1..Len(heard[k]) : heard'[k][i] = heard[k][i]
    BY <1>2, VisitHeard
  <2>2. making' = making /\ origin' = origin
    BY <1>2 DEF Visit, Leaves, Pushes, Passes
  <2>3. After(k) = 0 \/ After(k) = k + 1
    BY DEF After
  <2> HIDE DEF k
  <2>4. cursor[c] = k
    BY DEF k
  <2>5. ASSUME NEW d \in Conns, NEW n, Passed(d, n) PROVE Passed(d, n)'
    <3>1. n \in 1..Len(origin) /\ origin[n] \in Conns
      BY <1>b, <2>5 DEF Passed
    <3>2. CASE origin[n] = c
      <4>1. cursor'[origin[n]] = After(k)
        BY <1>a, <2>1, <3>1, <3>2
      <4>2. k > d => After(k) = 0 \/ After(k) > d
        BY <1>a, <2>1, <2>3
      <4>3. cursor[c] # 0
        BY <1>a, <2>1, <2>4
      <4> QED
        BY <2>2, <2>4, <2>5, <3>2, <4>1, <4>2, <4>3 DEF Passed
    <3>3. CASE origin[n] # c
      <4>1. cursor'[origin[n]] = cursor[origin[n]]
        BY <1>a, <2>1, <3>1, <3>3
      <4> QED
        BY <2>2, <2>5, <4>1 DEF Passed
    <3> QED
      BY <3>2, <3>3
  <2>6. SUFFICES ASSUME NEW d \in Conns, NEW j \in 1..Len(heard'[d]),
                        NEW n, n = heard'[d][j]
                 PROVE  Passed(d, n)'
    BY DEF PassedInv, Passed
  <2>7. CASE d # k \/ d = c
    <3>1. heard'[d] = heard[d]
      BY <2>1, <2>7
    <3>2. Passed(d, n)
      BY <2>6, <3>1 DEF PassedInv
    <3> QED
      BY <2>5, <3>2
  <2>8. CASE d = k /\ d # c
    <3>1. CASE j = Len(heard'[d])
      <4>1. n = making[c]
        BY <2>1, <2>6, <2>8, <3>1
      <4>2. making[c] \in 1..Len(origin) /\ origin[making[c]] = c
        BY <1>a, <2>1, <2>4 DEF CastInv
      <4>3. cursor'[c] = After(k)
        BY <1>a, <2>1
      <4>4. After(k) = 0 \/ After(k) > d
        BY <1>a, <2>1, <2>3, <2>8
      <4> QED
        BY <2>2, <2>8, <4>1, <4>2, <4>3, <4>4 DEF Passed
    <3>2. CASE j # Len(heard'[d])
      <4>1. j \in 1..Len(heard[d])
        BY <2>1, <2>8, <3>2
      <4>2. n = heard[d][j]
        BY <2>1, <2>6, <2>8, <4>1
      <4>3. Passed(d, n)
        BY <4>1, <4>2 DEF PassedInv
      <4> QED
        BY <2>5, <4>3
    <3> QED
      BY <3>1, <3>2
  <2> QED
    BY <2>7, <2>8
<1>3. CASE \A c \in Conns : ~Change(c) /\ ~Visit(c)
  BY <1>3, QuietSteps DEF PassedInv, Passed, castVars
<1> QED
  BY <1>1, <1>2, <1>3

LEMMA PassedInvHolds == Spec => []PassedInv
<1>1. Init => PassedInv
  BY DEF Init, PassedInv
<1> QED
  BY <1>1, TypeInvHolds, CastInvHolds, PassedInvStep, PTL DEF Spec

LEMMA HeardStep ==
  TypeInv /\ CastInv /\ PassedInv /\ HeardInOrder /\ [Next]_vars => HeardInOrder'
<1> SUFFICES ASSUME TypeInv, CastInv, PassedInv, HeardInOrder, [Next]_vars
             PROVE  HeardInOrder'
  OBVIOUS
<1>a. cursor \in [Conns -> 0..listed] /\ listed \in Conns /\ heard \in [Conns -> Seq(Nat)]
  BY DEF TypeInv
<1>b. \A d \in Conns : d \in Nat
  BY LFRConnectionsManagerAssumption DEF Conns
<1>1. ASSUME NEW c \in Conns, Change(c) PROVE HeardInOrder'
  <2>1. \A n \in 1..Len(origin) : origin'[n] = origin[n]
    BY <1>1, ChangeOrigin
  <2>2. heard' = heard
    BY <1>1 DEF Change
  <2>3. \A d \in Conns : \A j \in 1..Len(heard[d]) :
          origin'[heard[d][j]] = origin[heard[d][j]]
    BY <2>1 DEF PassedInv, Passed
  <2>4. SUFFICES ASSUME NEW d \in Conns, NEW j \in 1..Len(heard[d])
                 PROVE  /\ origin'[heard[d][j]] # d
                        /\ \A i \in 1..(j - 1) :
                             origin'[heard[d][i]] = origin'[heard[d][j]]
                               => heard[d][i] < heard[d][j]
    BY <2>2 DEF HeardInOrder
  <2>5. Len(heard[d]) \in Nat
    BY <1>a
  <2>6. \A i \in 1..(j - 1) : i \in 1..Len(heard[d])
    BY <2>5
  <2> QED
    BY <2>3, <2>6 DEF HeardInOrder
<1>2. ASSUME NEW c \in Conns, Visit(c) PROVE HeardInOrder'
  <2> DEFINE k == cursor[c]
  <2>1. /\ k \in 1..listed /\ k \in Conns
        /\ \A d \in Conns : Len(heard[d]) \in Nat
        /\ \A d \in Conns : (d # k \/ d = c) => heard'[d] = heard[d]
        /\ k # c => /\ Len(heard'[k]) = Len(heard[k]) + 1
                    /\ heard'[k][Len(heard'[k])] = making[c]
                    /\ \A i \in 1..Len(heard[k]) : heard'[k][i] = heard[k][i]
    BY <1>2, VisitHeard
  <2>2. origin' = origin
    BY <1>2 DEF Visit, Leaves, Pushes, Passes
  <2>3. making[c] \in 1..Len(origin) /\ origin[making[c]] = c
    BY <1>2 DEF Visit, Leaves, Pushes, Passes, CastInv
  <2>4. cursor[c] = k /\ k # 0
    BY <1>2 DEF Visit, Leaves, Pushes, Passes
  <2> HIDE DEF k
  <2>5. SUFFICES ASSUME NEW d \in Conns, NEW j \in 1..Len(heard'[d])
                 PROVE  /\ origin[heard'[d][j]] # d
                        /\ \A i \in 1..(j - 1) :
                             origin[heard'[d][i]] = origin[heard'[d][j]]
                               => heard'[d][i] < heard'[d][j]
    BY <2>2 DEF HeardInOrder
  <2>6. CASE d # k \/ d = c
    BY <2>1, <2>6 DEF HeardInOrder
  <2>7. CASE d = k /\ d # c /\ j # Len(heard'[d])
    <3>1. j \in 1..Len(heard[d]) /\ \A i \in 1..(j - 1) : i \in 1..Len(heard[d])
      BY <2>1, <2>7
    <3>2. heard'[d][j] = heard[d][j] /\ \A i \in 1..(j - 1) : heard'[d][i] = heard[d][i]
      BY <2>1, <2>7, <3>1
    <3> QED
      BY <3>1, <3>2 DEF HeardInOrder
  <2>8. CASE d = k /\ d # c /\ j = Len(heard'[d])
    <3>1. heard'[d][j] = making[c]
      BY <2>1, <2>8
    <3>2. \A i \in 1..(j - 1) : i \in 1..Len(heard[d]) /\ heard'[d][i] = heard[d][i]
      BY <2>1, <2>8
    <3>3. ASSUME NEW i \in 1..(j - 1), origin[heard[d][i]] = c
          PROVE  heard[d][i] < making[c]
      <4>1. Passed(d, heard[d][i])
        BY <3>2 DEF PassedInv
      <4>2. ~(cursor[c] = 0 \/ cursor[c] > d)
        BY <1>b, <2>4, <2>8
      <4> QED
        BY <3>3, <4>1, <4>2 DEF Passed
    <3> QED
      BY <2>3, <2>8, <3>1, <3>2, <3>3
  <2> QED
    BY <2>6, <2>7, <2>8
<1>3. CASE \A c \in Conns : ~Change(c) /\ ~Visit(c)
  BY <1>3, QuietSteps DEF HeardInOrder, castVars
<1> QED
  BY <1>1, <1>2, <1>3

\* However many work threads walk the list of connections at once
\* (lfrconnectionsmanager.cpp:43-68), no queue holds a change twice, the changes of
\* one connection out of order, or the connection's own.
THEOREM HeardInOrderHolds == Spec => []HeardInOrder
<1>1. Init => HeardInOrder
  BY DEF Init, HeardInOrder
<1> QED
  BY <1>1, TypeInvHolds, CastInvHolds, PassedInvHolds, HeardStep, PTL DEF Spec

-----------------------------------------------------------------------------
(* No change is lost on its way to a queue.                                *)

LEMMA ToldInvStep ==
  TypeInv /\ Listing /\ CastInv /\ ToldInv /\ [Next]_vars => ToldInv'
<1> SUFFICES ASSUME TypeInv, Listing, CastInv, ToldInv, [Next]_vars PROVE ToldInv'
  OBVIOUS
<1>t. /\ cursor \in [Conns -> 0..listed] /\ making \in [Conns -> Nat] /\ listed \in Conns
      /\ conn \in [Conns -> States] /\ seen \in [Conns -> Nat] /\ origin \in Seq(Conns)
  BY DEF TypeInv
<1>n. \A c \in Conns : c \in Nat /\ c >= 1
  BY LFRConnectionsManagerAssumption DEF Conns
<1>o. \A n \in 1..Len(origin) : origin[n] \in Conns
  BY <1>t
<1>a. /\ \A n \in 1..Len(origin) : origin[n] \in Conns
      /\ Len(origin) \in Nat /\ listed \in Nat /\ \A c \in Conns : c \in Nat /\ c >= 1
  BY <1>t, <1>n, <1>o
<1>1. ASSUME NEW c \in Conns, Change(c) PROVE ToldInv'
  <2>1. /\ Len(origin') = Len(origin) + 1
        /\ origin'[Len(origin')] = c
        /\ \A n \in 1..Len(origin) : origin'[n] = origin[n]
        /\ cursor' = [cursor EXCEPT ![c] = 1]
        /\ making' = [making EXCEPT ![c] = Len(origin) + 1]
    BY <1>1, ChangeOrigin
  <2>2. heard' = heard /\ conn' = conn /\ seen' = seen /\ cursor[c] = 0
    BY <1>1 DEF Change, syncVars
  <2>3. SUFFICES ASSUME NEW d \in Conns, NEW n \in 1..Len(origin') PROVE Told(d, n)'
    BY DEF ToldInv
  <2>4. CASE n = Len(origin')
    <3>1. origin'[n] = c /\ cursor'[c] = 1 /\ making'[c] = n
      BY <1>t, <2>1, <2>4
    <3>2. 1 \in 1..d
      BY <1>a
    <3> QED
      BY <3>1, <3>2 DEF Told
  <2>5. CASE n # Len(origin')
    <3>1. n \in 1..Len(origin) /\ origin'[n] = origin[n] /\ origin[n] \in Conns
      BY <1>a, <2>1, <2>5
    <3>2. Told(d, n) /\ Hears(d, n)' = Hears(d, n)
      BY <2>2, <3>1 DEF ToldInv, Hears
    <3>3. CASE origin[n] = c
      BY <2>2, <3>1, <3>2, <3>3, <1>a DEF Told
    <3>4. CASE origin[n] # c
      <4>1. making'[origin[n]] = making[origin[n]] /\ cursor'[origin[n]] = cursor[origin[n]]
        BY <1>t, <2>1, <3>1, <3>4
      <4> QED
        BY <2>2, <3>1, <3>2, <4>1 DEF Told
    <3> QED
      BY <3>3, <3>4
  <2> QED
    BY <2>4, <2>5
<1>2. ASSUME NEW c \in Conns, Visit(c) PROVE ToldInv'
  <2> DEFINE k == cursor[c]
  <2>1. /\ k \in 1..listed /\ k \in Conns
        /\ cursor' = [cursor EXCEPT ![c] = After(k)]
        /\ \A d \in Conns : Len(heard[d]) \in Nat
        /\ \A d \in Conns : (d # k \/ d = c) => heard'[d] = heard[d]
        /\ k # c => /\ Len(heard'[k]) = Len(heard[k]) + 1
                    /\ heard'[k][Len(heard'[k])] = making[c]
                    /\ \A i \in 1..Len(heard[k]) : heard'[k][i] = heard[k][i]
    BY <1>2, VisitHeard
  <2>2. making' = making /\ origin' = origin /\ conn' = conn /\ seen' = seen
    BY <1>2 DEF Visit, Leaves, Pushes, Passes, syncVars
  <2>3. making[c] \in 1..Len(origin) /\ origin[making[c]] = c /\ cursor[c] = k
    BY <1>2 DEF Visit, Leaves, Pushes, Passes, CastInv
  <2> HIDE DEF k
  <2>4. \A d \in Conns : \A n : Hears(d, n) => Hears(d, n)'
    <3> SUFFICES ASSUME NEW d \in Conns, NEW n, Hears(d, n) PROVE Hears(d, n)'
      OBVIOUS
    <3>1. CASE d # k \/ d = c
      BY <2>1, <3>1 DEF Hears
    <3>2. CASE d = k /\ d # c
      <4>1. PICK i \in 1..Len(heard[d]) : heard[d][i] = n
        BY DEF Hears
      <4>2. i \in 1..Len(heard'[d]) /\ heard'[d][i] = n
        BY <2>1, <3>2, <4>1
      <4> QED
        BY <4>2 DEF Hears
    <3> QED
      BY <3>1, <3>2
  <2>5. SUFFICES ASSUME NEW d \in Conns, NEW n \in 1..Len(origin),
                        conn[d] \in {"sync", "live"}, origin[n] # d, seen[d] < n,
                        ~Hears(d, n)'
                 PROVE  making[origin[n]] = n /\ cursor'[origin[n]] \in 1..d
    BY <2>2 DEF ToldInv, Told
  <2>6. making[origin[n]] = n /\ cursor[origin[n]] \in 1..d /\ origin[n] \in Conns
    BY <1>a, <2>4, <2>5 DEF ToldInv, Told
  <2>7. CASE origin[n] # c
    BY <1>t, <2>1, <2>6, <2>7
  <2>8. CASE origin[n] = c
    <3>1. n = making[c] /\ k \in 1..d /\ d # c
      BY <2>3, <2>5, <2>6, <2>8
    <3>2. k # d
      <4> SUFFICES ASSUME k = d PROVE FALSE
        OBVIOUS
      <4>1. heard'[d][Len(heard'[d])] = n /\ Len(heard'[d]) \in 1..Len(heard'[d])
        BY <2>1, <3>1
      <4> QED
        BY <2>5, <4>1 DEF Hears
    <3>3. d <= listed
      BY <1>a, <2>5 DEF Listing
    <3>4. After(k) = k + 1 /\ k + 1 \in 1..d
      BY <1>a, <2>1, <3>1, <3>2, <3>3 DEF After
    <3> QED
      BY <1>t, <2>1, <2>6, <2>8, <3>4
  <2> QED
    BY <2>7, <2>8
<1>3. CASE \A c \in Conns : ~Change(c) /\ ~Visit(c)
  <2>1. UNCHANGED castVars
    BY <1>3, QuietSteps
  <2>2. SUFFICES ASSUME NEW d \in Conns, NEW n \in 1..Len(origin) PROVE Told(d, n)'
    BY <2>1 DEF ToldInv, castVars
  <2>3. Told(d, n) /\ Hears(d, n)' = Hears(d, n)
    BY <2>1 DEF ToldInv, Hears, castVars
  <2>4. \/ conn'[d] = "sync" /\ seen'[d] = Len(origin)
        \/ seen'[d] = seen[d] /\ (conn'[d] \in {"sync", "live"}
                                   => conn[d] \in {"sync", "live"})
    <3>1. CASE AcceptHandler
      BY <1>t, <3>1 DEF AcceptHandler, syncVars
    <3>2. CASE accepting
      <4>1. listed + 1 \in Conns
        BY <1>a, <1>t, <3>2, LFRConnectionsManagerAssumption DEF accepting, Conns
      <4> QED
        BY <1>t, <3>2, <4>1 DEF accepting, syncVars
    <3>3. ASSUME NEW c \in Conns, Announce(c)
          PROVE  \/ conn'[d] = "sync" /\ seen'[d] = Len(origin)
                 \/ seen'[d] = seen[d] /\ conn'[d] = conn[d]
      BY <1>t, <3>3 DEF Announce
    <3>4. ASSUME NEW c \in Conns, SyncCheck(c) \/ SyncSend(c) \/ SyncEnds(c) \/ Drain(c)
          PROVE  seen'[d] = seen[d] /\ (conn'[d] \in {"sync", "live"}
                                        => conn[d] \in {"sync", "live"})
      BY <1>t, <3>4 DEF SyncCheck, SyncSend, SyncEnds, Drain, syncVars
    <3>5. CASE UNCHANGED vars
      BY <3>5 DEF vars
    <3> QED
      BY <1>3, <3>1, <3>2, <3>3, <3>4, <3>5 DEF Next
  <2> QED
    BY <1>a, <2>1, <2>3, <2>4 DEF Told, castVars
<1> QED
  BY <1>1, <1>2, <1>3

\* A change (lfrconnectionsmanager.cpp:43-68) comes into the queue of every other
\* connection that had begun its synchronisation (lfrconnection.cpp:152-158) when it was
\* made, for any number of connections, accepted and synchronised at any moment of any
\* number of broadcasts.
THEOREM QueuedSinceHolds == Spec => []QueuedSince
<1>1. Init => ToldInv
  BY DEF Init, ToldInv
<1>2. TypeInv /\ ToldInv => QueuedSince
  <2> SUFFICES ASSUME TypeInv, ToldInv, NEW c \in Conns, NEW n \in 1..Len(origin),
                      conn[c] \in {"sync", "live"}, seen[c] < n, origin[n] # c,
                      ~Broadcasting(n)
               PROVE  Hears(c, n)
    BY DEF QueuedSince
  <2>1. \A k \in 1..c : k # 0
    BY LFRConnectionsManagerAssumption DEF Conns
  <2> QED
    BY <2>1 DEF ToldInv, Told, Broadcasting
<1> QED
  BY <1>1, <1>2, TypeInvHolds, ListingHolds, CastInvHolds, ToldInvStep, PTL DEF Spec

\* When no work thread is in a broadcast, a connection that is synchronised has in its
\* queue each change of another connection that was made since it began, exactly once
\* (lfrconnectionsmanager.cpp:43-68, lfrconnection.cpp:152-190).
Complete(c) ==
  conn[c] \in {"sync", "live"} /\ (\A d \in Conns : cursor[d] = 0) =>
    \A n \in 1..Len(origin) :
      origin[n] # c /\ seen[c] < n =>
        \E i \in 1..Len(heard[c]) :
          \A j \in 1..Len(heard[c]) : heard[c][j] = n <=> j = i

THEOREM ExactlyOnce == Spec => [](\A c \in Conns : Complete(c))
<1>1. TypeInv /\ QueuedSince /\ HeardInOrder => \A c \in Conns : Complete(c)
  <2> SUFFICES ASSUME TypeInv, QueuedSince, HeardInOrder, NEW c \in Conns,
                      conn[c] \in {"sync", "live"}, \A d \in Conns : cursor[d] = 0,
                      NEW n \in 1..Len(origin), origin[n] # c, seen[c] < n
               PROVE  \E i \in 1..Len(heard[c]) :
                        \A j \in 1..Len(heard[c]) : heard[c][j] = n <=> j = i
    BY DEF Complete
  <2>1. origin[n] \in Conns /\ seen[c] \in Nat /\ n \in Nat /\ heard[c] \in Seq(Nat)
    BY DEF TypeInv
  <2>2. ~Broadcasting(n)
    BY <2>1 DEF Broadcasting
  <2>3. Hears(c, n)
    BY <2>1, <2>2 DEF QueuedSince
  <2>4. PICK i \in 1..Len(heard[c]) : heard[c][i] = n
    BY <2>3 DEF Hears
  <2>5. ASSUME NEW j \in 1..Len(heard[c]), heard[c][j] = n PROVE j = i
    <3>1. i \in Nat /\ j \in Nat /\ ~ (n < n)
      BY <2>1
    <3>2. ~ (i \in 1..(j - 1)) /\ ~ (j \in 1..(i - 1))
      BY <2>4, <2>5, <3>1 DEF HeardInOrder
    <3> QED
      BY <3>1, <3>2
  <2> QED
    BY <2>4, <2>5
<1> QED
  BY <1>1, TypeInvHolds, QueuedSinceHolds, HeardInOrderHolds, PTL

-----------------------------------------------------------------------------
(* What the list holds, every synchronised terminal has.                   *)

\* The cards on their way to c: of the broadcasts that have yet to come to it.
OnTheirWay(c) == {bringing[d] : d \in {e \in Conns \ {c} : cursor[e] \in 1..c}}

Comes(c) == known[c] \cup OnTheirWay(c) \cup {Blank}

\* The places of the list that the synchronisation of c has passed.
Sent(c) == IF conn[c] = "sync" THEN 1..walked[c]
           ELSE IF conn[c] = "live" THEN 1..Len(cards)
           ELSE {}

KnownType == known \in [Conns -> SUBSET (Card \cup {Blank})]

KnownInv == \A c \in Conns : ~moved[c] => \A i \in Sent(c) : cards[i] \in Comes(c)

LEMMA KnownTypeStep == TypeInv /\ WalkInv /\ KnownType /\ [Next]_vars => KnownType'
<1> SUFFICES ASSUME TypeInv, WalkInv, KnownType, [Next]_vars PROVE KnownType'
  OBVIOUS
<1> DEFINE S == Card \cup {Blank}
<1> USE DEF KnownType
<1>1. ASSUME NEW c \in Conns, SyncSend(c) PROVE KnownType'
  <2>1. walked[c] + 1 \in 1..Len(cards)
    BY <1>1 DEF SyncSend, WalkInv, Walking, TypeInv
  <2>2. cards[walked[c] + 1] \in S
    BY <2>1, SMTT(30) DEF TypeInv
  <2> QED
    BY <1>1, <2>2 DEF SyncSend
<1>2. ASSUME NEW c \in Conns, Change(c) PROVE KnownType'
  <2>1. PICK card \in Card : Adds(c, card) \/ Deletes(c, card.id)
    BY <1>2, LFRConnectionsManagerAssumption DEF Change
  <2> QED
    BY <2>1 DEF Adds, Deletes
<1>3. ASSUME NEW c \in Conns, Visit(c) PROVE KnownType'
  <2>1. cursor[c] \in Conns
    BY <1>3, VisitHeard
  <2>2. bringing[c] \in S
    BY DEF TypeInv
  <2>3. known' = known
        \/ known' = [known EXCEPT ![cursor[c]] = @ \cup ({bringing[c]} \ {Blank})]
    BY <1>3 DEF Visit, Pushes, Passes
  <2> QED
    BY <2>1, <2>2, <2>3
<1>4. ASSUME NEW c \in Conns, Announce(c) \/ SyncCheck(c) \/ SyncEnds(c) \/ Drain(c)
      PROVE  KnownType'
  BY <1>4 DEF Announce, SyncCheck, SyncEnds, Drain
<1>5. CASE AcceptHandler \/ accepting \/ UNCHANGED vars
  BY <1>5 DEF AcceptHandler, accepting, vars
<1> QED
  BY <1>1, <1>2, <1>3, <1>4, <1>5 DEF Next

\* An added or edited card is at its place, and every other card where it was.
LEMMA AddsPlaces ==
  ASSUME cards \in Seq(Card \cup {Blank}), NEW c \in Conns, NEW card \in Card, Adds(c, card)
  PROVE  \A i \in 1..Len(cards') :
           cards'[i] = card \/ (i \in 1..Len(cards) /\ cards'[i] = cards[i])
<1>1. cards' \in {Added(cards, card), Edited(cards, card)} /\ Len(cards) \in Nat
  BY DEF Adds
<1>2. CASE cards = <<>>
  <2>1. cards' = <<card>>
    BY <1>1, <1>2, AddedAndEdited
  <2> QED
    BY <2>1
<1>3. CASE cards # <<>>
  <2>1. cards' = cards \/ cards' = [cards EXCEPT ![1] = card]
    BY <1>1, <1>3, AddedAndEdited
  <2>2. cards' = cards => Len(cards') = Len(cards)
    OBVIOUS
  <2>3. ASSUME cards' = [cards EXCEPT ![1] = card]
        PROVE  \A i \in 1..Len(cards') :
                 cards'[i] = card \/ (i \in 1..Len(cards) /\ cards'[i] = cards[i])
    <3>1. cards \in [1..Len(cards) -> Card \cup {Blank}]
      OBVIOUS
    <3>2. Len(cards') = Len(cards)
      BY <2>3
    <3> QED
      BY <2>3, <3>1, <3>2
  <2> QED
    BY <2>1, <2>2, <2>3
<1> QED
  BY <1>2, <1>3

LEMMA SeqOf ==
  ASSUME NEW S, NEW T, NEW list \in Seq(S), \A j \in 1..Len(list) : list[j] \in T
  PROVE  list \in Seq(T)
OBVIOUS

\* Steps that leave the list and the broadcasts alone.
LEMMA KnownQuiet ==
  ASSUME KnownInv, UNCHANGED <<cards, cursor, bringing, moved>>, NEW d \in Conns,
         known[d] \subseteq known'[d],
         \A i \in Sent(d)' : i \in Sent(d) \/ cards[i] \in known'[d] \cup {Blank},
         ~moved'[d], NEW i \in Sent(d)'
  PROVE  cards'[i] \in Comes(d)'
<1>1. Comes(d) \subseteq Comes(d)' /\ cards' = cards
  BY DEF Comes, OnTheirWay
<1>2. CASE i \in Sent(d)
  BY <1>1, <1>2 DEF KnownInv
<1>3. CASE cards[i] \in known'[d] \cup {Blank}
  BY <1>1, <1>3 DEF Comes
<1> QED
  BY <1>2, <1>3

LEMMA KnownInvStep ==
  TypeInv /\ Listing /\ WalkInv /\ KnownType /\ KnownInv /\ [Next]_vars => KnownInv'
<1> SUFFICES ASSUME TypeInv, Listing, WalkInv, KnownType, KnownInv, [Next]_vars,
                    NEW d \in Conns, ~moved'[d], NEW i \in Sent(d)'
             PROVE  cards'[i] \in Comes(d)'
  BY DEF KnownInv
<1>t. /\ cards \in Seq(Card \cup {Blank}) /\ listed \in Conns /\ Len(cards) \in Nat
      /\ conn \in [Conns -> States] /\ walked \in [Conns -> Nat]
      /\ cursor \in [Conns -> 0..listed] /\ bringing \in [Conns -> Card \cup {Blank}]
      /\ known \in [Conns -> SUBSET (Card \cup {Blank})]
  BY DEF TypeInv, KnownType
<1>n. Conns = 1..MaxConns /\ MaxConns \in Nat /\ \A c \in Conns : c \in Nat /\ c >= 1
  BY LFRConnectionsManagerAssumption DEF Conns
<1>w. Walking(d) /\ walked[d] \in Nat
  BY <1>t DEF WalkInv
<1>1. ASSUME NEW c \in Conns, Change(c) PROVE cards'[i] \in Comes(d)'
  <2>1. PICK card \in Card : Adds(c, card) \/ Deletes(c, card.id)
    BY <1>1, LFRConnectionsManagerAssumption DEF Change
  <2>2. /\ cursor[c] = 0 /\ cursor' = [cursor EXCEPT ![c] = 1]
        /\ conn' = conn /\ walked' = walked
    BY <1>1 DEF Change, syncVars
  <2>3. /\ \A e \in Conns \ {c} : bringing'[e] = bringing[e] /\ cursor'[e] = cursor[e]
        /\ known[d] \subseteq known'[d]
    BY <2>1, <2>2, <1>t DEF Adds, Deletes
  <2>4. OnTheirWay(d) \subseteq OnTheirWay(d)'
    <3> SUFFICES ASSUME NEW e \in Conns \ {d}, cursor[e] \in 1..d
                 PROVE  bringing[e] \in OnTheirWay(d)'
      BY DEF OnTheirWay
    <3>1. e # c
      BY <2>2
    <3>2. bringing'[e] = bringing[e] /\ cursor'[e] \in 1..d
      BY <2>3, <3>1
    <3> QED
      BY <3>2 DEF OnTheirWay
  <2>5. Comes(d) \subseteq Comes(d)'
    BY <2>3, <2>4 DEF Comes
  <2>6. CASE Adds(c, card)
    <3>1. card \in Comes(d)'
      <4>1. bringing'[c] = card /\ (d = c => card \in known'[d])
        BY <2>6, <1>t DEF Adds
      <4>2. d # c => cursor'[c] \in 1..d
        BY <2>2, <1>t, <1>n
      <4> QED
        BY <4>1, <4>2 DEF Comes, OnTheirWay
    <3>2. moved' = moved
      BY <2>6 DEF Adds
    <3>3. \A j \in 1..Len(cards') :
            cards'[j] = card \/ (j \in 1..Len(cards) /\ cards'[j] = cards[j])
      BY <2>6, <1>t, AddsPlaces
    <3>4. i \in 1..Len(cards') /\ (i \in 1..Len(cards) => i \in Sent(d))
      <4>1. Len(cards') \in Nat /\ Len(cards') >= Len(cards)
        BY <1>1, <1>t, ChangeKeeps
      <4> QED
        BY <4>1, <2>2, <1>t, <1>w DEF Sent, Walking
    <3> QED
      BY <2>5, <3>1, <3>2, <3>3, <3>4 DEF KnownInv
  <2>7. CASE Deletes(c, card.id)
    <3>1. /\ cards' = RemoveIf(cards, card.id)
          /\ ~moved[d] /\ (conn[d] = "sync" => cards' = cards)
      BY <2>7 DEF Deletes
    <3>2. CASE cards' = cards
      BY <2>2, <2>5, <3>1, <3>2 DEF KnownInv, Sent
    <3>3. CASE cards' # cards
      <4>1. conn[d] = "live" /\ \A j \in 1..Len(cards) : cards[j] \in Comes(d)
        BY <2>2, <3>1, <3>3 DEF KnownInv, Sent
      <4>2. cards \in Seq(Comes(d))
        BY <4>1, <1>t, SeqOf
      <4>3. cards' \in Seq(Comes(d) \cup {Blank})
        BY <3>1, <4>2, RemoveIfKeepsOthers
      <4>4. i \in 1..Len(cards')
        BY <2>2, <4>1 DEF Sent
      <4>5. cards'[i] \in Comes(d) \cup {Blank}
        BY <4>3, <4>4
      <4> QED
        BY <2>5, <4>5 DEF Comes
    <3> QED
      BY <3>2, <3>3
  <2> QED
    BY <2>1, <2>6, <2>7
<1>2. ASSUME NEW c \in Conns, Visit(c) PROVE cards'[i] \in Comes(d)'
  <2> DEFINE k == cursor[c]
  <2>1. /\ k \in 1..listed /\ k \in Conns
        /\ cursor' = [cursor EXCEPT ![c] = After(k)]
    BY <1>2, VisitHeard
  <2>2. /\ cards' = cards /\ conn' = conn /\ walked' = walked /\ moved' = moved
        /\ bringing' = IF After(k) = 0 THEN [bringing EXCEPT ![c] = Blank] ELSE bringing
        /\ k = c => known' = known
        /\ k # c => known' = [known EXCEPT ![k] = @ \cup ({bringing[c]} \ {Blank})]
    BY <1>2 DEF Visit, Leaves, Pushes, Passes, syncVars
  <2> HIDE DEF k
  <2>3. cursor[c] = k
    BY DEF k
  <2>4. d <= listed /\ i \in Sent(d)
    BY <2>2, <1>t, <1>n DEF Sent, Listing
  <2>5. known[d] \subseteq known'[d]
    BY <2>1, <2>2, <1>t
  <2>6. OnTheirWay(d) \subseteq Comes(d)'
    <3> SUFFICES ASSUME NEW e \in Conns \ {d}, cursor[e] \in 1..d
                 PROVE  bringing[e] \in Comes(d)'
      BY DEF OnTheirWay
    <3>1. CASE e # c
      <4>1. bringing'[e] = bringing[e] /\ cursor'[e] = cursor[e]
        BY <2>1, <2>2, <1>t, <3>1
      <4> QED
        BY <4>1 DEF Comes, OnTheirWay
    <3>2. CASE e = c /\ k = d
      <4>1. bringing[c] = Blank \/ bringing[c] \in known'[d]
        BY <2>2, <1>t, <3>2
      <4> QED
        BY <3>2, <4>1 DEF Comes
    <3>3. CASE e = c /\ k # d
      <4>1. k \in Nat /\ k < d
        BY <2>3, <3>3, <1>n
      <4>2. After(k) = k + 1 /\ After(k) \in 1..d /\ After(k) # 0
        <5>1. d \in Nat /\ listed \in Nat /\ k # listed /\ k >= 1
          BY <1>t, <1>n, <2>1, <2>4, <4>1
        <5> QED
          BY <4>1, <5>1 DEF After
      <4>3. bringing' = bringing /\ cursor'[c] \in 1..d
        BY <2>1, <2>2, <1>t, <4>2
      <4> QED
        BY <3>3, <4>3 DEF Comes, OnTheirWay
    <3> QED
      BY <3>1, <3>2, <3>3
  <2>7. Comes(d) \subseteq Comes(d)'
    BY <2>5, <2>6 DEF Comes
  <2> QED
    BY <2>2, <2>4, <2>7 DEF KnownInv
<1>3. CASE \A c \in Conns : ~Change(c) /\ ~Visit(c)
  <2>1. UNCHANGED castVars
    BY <1>3, QuietSteps
  <2>2. ASSUME cards' = cards, known[d] \subseteq known'[d],
               \A j \in Sent(d)' : j \in Sent(d) \/ cards[j] \in known'[d] \cup {Blank}
        PROVE  cards'[i] \in Comes(d)'
    BY <2>1, <2>2, KnownQuiet DEF castVars
  <2>3. ASSUME NEW c \in Conns, SyncSend(c) PROVE cards'[i] \in Comes(d)'
    <3>1. /\ cards' = cards /\ conn' = conn
          /\ known' = [known EXCEPT ![c] = @ \cup ({cards[walked[c] + 1]} \ {Blank})]
          /\ walked' = [walked EXCEPT ![c] = @ + 1] /\ conn[c] = "sync"
      BY <2>3 DEF SyncSend
    <3>2. CASE d = c
      <4>1. walked'[d] = walked[d] + 1 /\ cards[walked[d] + 1] \in known'[d] \cup {Blank}
        BY <3>1, <3>2, <1>t
      <4>2. \A j \in Sent(d)' : j \in Sent(d) \/ j = walked[d] + 1
        BY <3>1, <3>2, <4>1, <1>w DEF Sent
      <4> QED
        BY <2>2, <3>1, <3>2, <4>1, <4>2, <1>t
    <3>3. CASE d # c
      BY <2>2, <3>1, <3>3, <1>t DEF Sent
    <3> QED
      BY <3>2, <3>3
  <2>4. ASSUME NEW c \in Conns, Announce(c) PROVE cards'[i] \in Comes(d)'
    <3>1. /\ cards' = cards /\ known' = known /\ walked' = walked
          /\ conn[c] = "started" /\ conn' = [conn EXCEPT ![c] = "sync"]
      BY <2>4 DEF Announce
    <3>2. d = c => walked'[d] = 0
      BY <3>1, <1>w DEF Walking
    <3>3. \A j \in Sent(d)' : j \in Sent(d)
      BY <3>1, <3>2, <1>t DEF Sent
    <3> QED
      BY <2>2, <3>1, <3>3
  <2>5. ASSUME NEW c \in Conns, SyncEnds(c) PROVE cards'[i] \in Comes(d)'
    <3>1. /\ cards' = cards /\ known' = known /\ walked' = walked /\ walked[c] >= Len(cards)
          /\ conn[c] = "sync" /\ conn' = [conn EXCEPT ![c] = "live"]
      BY <2>5 DEF SyncEnds, syncVars
    <3>2. d = c => Len(cards) <= walked[d]
      BY <3>1
    <3>3. \A j \in Sent(d)' : j \in Sent(d)
      BY <3>1, <3>2, <1>t, <1>w DEF Sent
    <3> QED
      BY <2>2, <3>1, <3>3
  <2>6. ASSUME NEW c \in Conns, SyncCheck(c) \/ Drain(c) PROVE cards'[i] \in Comes(d)'
    <3>1. UNCHANGED <<cards, conn, walked, known>>
      BY <2>6 DEF SyncCheck, Drain, syncVars
    <3> QED
      BY <2>2, <3>1 DEF Sent
  <2>7. CASE AcceptHandler \/ accepting
    <3>1. /\ UNCHANGED <<cards, walked, known>>
          /\ \E e \in Conns, state \in {"pending", "failed", "started"} :
               conn' = [conn EXCEPT ![e] = state]
      BY <2>7, <1>t, <1>n, SMTT(30) DEF AcceptHandler, accepting, syncVars
    <3>2. \A j \in Sent(d)' : j \in Sent(d)
      BY <3>1, <1>t DEF Sent
    <3> QED
      BY <2>2, <3>1, <3>2
  <2>8. CASE UNCHANGED vars
    BY <2>2, <2>8 DEF vars, Sent
  <2> QED
    BY <1>3, <2>3, <2>4, <2>5, <2>6, <2>7, <2>8 DEF Next
<1> QED
  BY <1>1, <1>2, <1>3

LEMMA KnownTypeHolds == Spec => []KnownType
<1>1. Init => KnownType
  BY DEF Init, KnownType
<1> QED
  BY <1>1, TypeInvHolds, WalkInvHolds, KnownTypeStep, PTL DEF Spec

\* For any number of connections, changes and cards: a terminal that has synchronised
\* (lfrconnection.cpp:152-166) was sent, was told of (lfrconnectionsmanager.cpp:43-68) or
\* made itself every card that the list holds when no broadcast is under way - unless a
\* deletion (personalcardmanager.cpp:36-39) moved the cards under its walk.
THEOREM ListIsKnownHolds == Spec => []ListIsKnown
<1>1. Init => KnownInv
  BY DEF Init, KnownInv, Sent
<1>2. TypeInv /\ KnownInv => ListIsKnown
  <2> SUFFICES ASSUME TypeInv, KnownInv, NEW c \in Conns, conn[c] = "live", ~moved[c],
                      \A d \in Conns : cursor[d] = 0, NEW i \in 1..Len(cards)
               PROVE  cards[i] \in known[c] \cup {Blank}
    BY DEF ListIsKnown
  <2>1. cards[i] \in Comes(c)
    BY DEF KnownInv, Sent
  <2>2. OnTheirWay(c) = {}
    BY LFRConnectionsManagerAssumption DEF OnTheirWay, Conns
  <2> QED
    BY <2>1, <2>2 DEF Comes
<1> QED
  BY <1>1, <1>2, TypeInvHolds, ListingHolds, WalkInvHolds, KnownTypeHolds, KnownInvStep, PTL
     DEF Spec

-----------------------------------------------------------------------------
(* The rest of the types: every change that is queued, broadcast or was    *)
(* seen by a synchronisation is one that was made, within the bound.       *)

CountInv ==
  /\ Len(origin) <= MaxChanges
  /\ \A c \in Conns : making[c] <= Len(origin) /\ seen[c] <= Len(origin)

LEMMA CountInvStep == TypeInv /\ CountInv /\ [Next]_vars => CountInv'
<1> SUFFICES ASSUME TypeInv, CountInv, [Next]_vars PROVE CountInv'
  OBVIOUS
<1>a. /\ Len(origin) \in Nat /\ MaxChanges \in Nat
      /\ making \in [Conns -> Nat] /\ seen \in [Conns -> Nat]
  BY LFRConnectionsManagerAssumption DEF TypeInv
<1>1. ASSUME NEW c \in Conns, Announce(c) PROVE CountInv'
  <2>1. UNCHANGED castVars /\ seen' = [seen EXCEPT ![c] = Len(origin)]
    BY <1>1 DEF Announce
  <2> QED
    BY <1>a, <2>1 DEF CountInv, castVars
<1>2. ASSUME NEW c \in Conns, Change(c) PROVE CountInv'
  <2>1. /\ Len(origin) < MaxChanges /\ seen' = seen
        /\ Len(origin') = Len(origin) + 1
        /\ making' = [making EXCEPT ![c] = Len(origin) + 1]
    BY <1>2, ChangeOrigin DEF Change, syncVars
  <2>2. ASSUME NEW d \in Conns PROVE making'[d] <= Len(origin') /\ seen'[d] <= Len(origin')
    BY <1>a, <2>1 DEF CountInv
  <2> QED
    BY <1>a, <2>1, <2>2 DEF CountInv
<1>3. ASSUME NEW c \in Conns, Visit(c) PROVE CountInv'
  BY <1>3 DEF Visit, Leaves, Pushes, Passes, syncVars, CountInv
<1>4. CASE \A c \in Conns : ~Announce(c) /\ ~Change(c) /\ ~Visit(c)
  <2>1. UNCHANGED castVars
    BY <1>4, QuietSteps
  <2>2. seen' = seen
    BY <1>4 DEF Next, AcceptHandler, accepting, SyncCheck, SyncSend, SyncEnds, Drain,
                syncVars, vars
  <2> QED
    BY <2>1, <2>2 DEF CountInv, castVars
<1> QED
  BY <1>1, <1>2, <1>3, <1>4

\* Of everything that the threads write without a lock (lfrconnectionsmanager.cpp:16-68,
\* lfrconnection.cpp:152-190) each value is of its type: above all, each number in a
\* queue is that of a change that was made.
THEOREM TypeCorrect == Spec => []TypeOK
<1>1. Init => CountInv
  BY LFRConnectionsManagerAssumption DEF Init, CountInv
<1>2. TypeInv /\ CountInv /\ PassedInv /\ KnownType => TypeOK
  <2> SUFFICES ASSUME TypeInv, CountInv, PassedInv, KnownType PROVE TypeOK
    OBVIOUS
  <2>1. Len(origin) \in Nat /\ MaxChanges \in Nat /\ Len(origin) <= MaxChanges
    BY LFRConnectionsManagerAssumption DEF TypeInv, CountInv
  <2>2. making \in [Conns -> 0..MaxChanges] /\ seen \in [Conns -> 0..Len(origin)]
    <3>1. ASSUME NEW c \in Conns PROVE making[c] \in 0..MaxChanges /\ seen[c] \in 0..Len(origin)
      BY <2>1 DEF TypeInv, CountInv
    <3> QED
      BY <3>1 DEF TypeInv
  <2>3. heard \in [Conns -> Seq(1..Len(origin))]
    <3>1. ASSUME NEW c \in Conns PROVE heard[c] \in Seq(1..Len(origin))
      <4>1. heard[c] \in Seq(Nat) /\ \A j \in 1..Len(heard[c]) : heard[c][j] \in 1..Len(origin)
        BY DEF TypeInv, PassedInv, Passed
      <4> QED
        BY <4>1
    <3> QED
      BY <3>1 DEF TypeInv
  <2> QED
    BY <2>1, <2>2, <2>3 DEF TypeInv, KnownType, TypeOK, States
<1> QED
  BY <1>1, <1>2, TypeInvHolds, KnownTypeHolds, PassedInvHolds, CountInvStep, PTL DEF Spec

-----------------------------------------------------------------------------
(* The walks come to their end.                                            *)

\* The nodes that a broadcast of c has still to visit, at most; the steps that its
\* synchronisation has still to make, with room for the first card of all.
NodesLeft(c) == IF cursor[c] = 0 THEN 0 ELSE MaxConns + 1 - cursor[c]

Longest == IF Len(cards) = 0 THEN 1 ELSE Len(cards)

SyncLeft(c) ==
  IF conn[c] = "started" THEN 2 * Longest + 2
  ELSE IF conn[c] = "sync" THEN 2 * (Longest - walked[c]) + (IF checked[c] THEN 0 ELSE 1)
  ELSE 0

Synchronises(c) == Announce(c) \/ SyncCheck(c) \/ SyncSend(c) \/ SyncEnds(c)

Advances(c) ==
  /\ cursor[c] # 0 => NodesLeft(c)' <= NodesLeft(c)
  /\ Visit(c) => NodesLeft(c)' < NodesLeft(c)
  /\ conn[c] \in {"started", "sync"} => SyncLeft(c)' <= SyncLeft(c)
  /\ Synchronises(c) => SyncLeft(c)' < SyncLeft(c)

LEMMA LeftInNat ==
  ASSUME TypeInv, WalkInv, NEW c \in Conns
  PROVE  NodesLeft(c) \in 0..MaxConns /\ SyncLeft(c) \in Nat
<1>1. /\ MaxConns \in Nat /\ listed \in 1..MaxConns /\ cursor[c] \in 0..listed
      /\ Len(cards) \in Nat /\ walked[c] \in Nat /\ Walking(c)
  <2>1. listed \in Conns /\ cursor[c] \in 0..listed /\ Len(cards) \in Nat /\ walked[c] \in Nat
    BY DEF TypeInv
  <2> QED
    BY <2>1, LFRConnectionsManagerAssumption DEF Conns, WalkInv
<1>2. NodesLeft(c) \in 0..MaxConns
  BY <1>1 DEF NodesLeft
<1>3. Longest \in Nat /\ (conn[c] = "sync" => walked[c] <= Longest)
  BY <1>1 DEF Longest, Walking
<1>4. SyncLeft(c) \in Nat
  BY <1>1, <1>3 DEF SyncLeft
<1> QED
  BY <1>2, <1>4

\* A broadcast: nodes that are appended behind it do not count.
LEMMA NodesAdvance ==
  ASSUME TypeInv, [Next]_vars, NEW c \in Conns
  PROVE  /\ cursor[c] # 0 => NodesLeft(c)' <= NodesLeft(c)
         /\ Visit(c) => NodesLeft(c)' < NodesLeft(c)
<1>a. /\ MaxConns \in Nat /\ listed \in 1..MaxConns
      /\ cursor[c] \in 0..listed /\ cursor \in [Conns -> 0..listed]
  <2>1. listed \in Conns /\ cursor \in [Conns -> 0..listed]
    BY DEF TypeInv
  <2> QED
    BY <2>1, LFRConnectionsManagerAssumption DEF Conns
<1>1. ASSUME Visit(c)
      PROVE  NodesLeft(c)' < NodesLeft(c) /\ NodesLeft(c) \in Nat /\ NodesLeft(c)' \in Nat
  <2>1. cursor[c] # 0 /\ cursor'[c] = After(cursor[c])
    BY <1>1, <1>a DEF Visit, Leaves, Pushes, Passes
  <2> QED
    BY <1>a, <2>1 DEF After, NodesLeft
<1>2. ASSUME cursor[c] # 0, ~Visit(c) PROVE cursor'[c] = cursor[c]
  <2>1. ASSUME NEW d \in Conns, Change(d) \/ Visit(d) PROVE cursor'[c] = cursor[c]
    BY <1>2, <1>a, <2>1 DEF Change, Visit, Leaves, Pushes, Passes
  <2>2. CASE \A d \in Conns : ~Change(d) /\ ~Visit(d)
    BY <2>2, QuietSteps DEF castVars
  <2> QED
    BY <2>1, <2>2
<1>3. cursor'[c] = cursor[c] => NodesLeft(c)' <= NodesLeft(c)
  BY <1>a DEF NodesLeft
<1> QED
  BY <1>1, <1>2, <1>3

\* A synchronisation: no change makes the list longer than it is, or than one card.
LEMMA SyncAdvances ==
  ASSUME TypeInv, Listing, WalkInv, [Next]_vars, NEW c \in Conns
  PROVE  /\ conn[c] \in {"started", "sync"} => SyncLeft(c)' <= SyncLeft(c)
         /\ Synchronises(c) => SyncLeft(c)' < SyncLeft(c)
<1>a. /\ conn \in [Conns -> States] /\ walked \in [Conns -> Nat]
      /\ checked \in [Conns -> BOOLEAN] /\ Len(cards) \in Nat /\ listed \in Conns
  BY DEF TypeInv
<1>b. Walking(c) /\ Longest \in Nat /\ checked[c] \in BOOLEAN /\ walked[c] \in Nat
  BY <1>a DEF WalkInv, Longest
<1>c. SyncLeft(c) \in Nat
  BY LeftInNat
<1>1. ASSUME Synchronises(c) PROVE SyncLeft(c)' < SyncLeft(c) /\ SyncLeft(c)' \in Nat
  <2>1. cards' = cards /\ Longest' = Longest
    BY <1>1 DEF Synchronises, Announce, SyncCheck, SyncSend, SyncEnds, Longest
  <2>2. CASE Announce(c)
    <3>1. /\ conn[c] = "started" /\ conn'[c] = "sync"
          /\ walked'[c] = 0 /\ checked'[c] = checked[c]
      BY <2>2, <1>a, <1>b DEF Announce, Walking
    <3> QED
      BY <2>1, <3>1, <1>b DEF SyncLeft
  <2>3. CASE SyncCheck(c)
    <3>1. /\ conn[c] = "sync" /\ conn' = conn /\ walked' = walked
          /\ ~checked[c] /\ checked'[c]
      BY <2>3, <1>a DEF SyncCheck
    <3>2. walked[c] <= Longest
      BY <3>1, <1>a, <1>b DEF Walking, Longest
    <3> QED
      BY <2>1, <3>1, <3>2, <1>b DEF SyncLeft
  <2>4. CASE SyncSend(c)
    <3>1. /\ conn[c] = "sync" /\ conn' = conn /\ walked'[c] = walked[c] + 1
          /\ checked[c] /\ ~checked'[c]
      BY <2>4, <1>a DEF SyncSend
    <3>2. walked[c] < Longest
      BY <3>1, <1>a, <1>b DEF Walking, Longest
    <3> QED
      BY <2>1, <3>1, <3>2, <1>b DEF SyncLeft
  <2>5. CASE SyncEnds(c)
    <3>1. conn[c] = "sync" /\ conn'[c] = "live" /\ ~checked[c]
      BY <2>5, <1>a DEF SyncEnds
    <3>2. walked[c] <= Longest
      BY <3>1, <1>a, <1>b DEF Walking, Longest
    <3> QED
      BY <3>1, <3>2, <1>b DEF SyncLeft
  <2> QED
    BY <1>1, <2>2, <2>3, <2>4, <2>5 DEF Synchronises
<1>2. ASSUME conn[c] \in {"started", "sync"}, ~Synchronises(c)
      PROVE  /\ conn'[c] = conn[c] /\ walked'[c] = walked[c] /\ checked'[c] = checked[c]
             /\ Longest' = Longest
  <2> USE <1>a, <1>2 DEF syncVars, castVars
  <2>1. CASE AcceptHandler
    BY <2>1 DEF AcceptHandler, Listing, Longest
  <2>2. CASE accepting
    <3>1. listed' \in Conns /\ listed' > listed
      BY <2>2, LFRConnectionsManagerAssumption DEF accepting, Conns
    <3>2. conn[listed'] = "none"
      BY <3>1 DEF Listing
    <3> QED
      BY <2>2, <3>1, <3>2 DEF accepting, Longest
  <2>3. ASSUME NEW d \in Conns, Change(d)
        PROVE  /\ conn'[c] = conn[c] /\ walked'[c] = walked[c] /\ checked'[c] = checked[c]
               /\ Longest' = Longest
    <3>1. Len(cards') = Len(cards) \/ (Len(cards) = 0 /\ Len(cards') = 1)
      BY <2>3, ChangeKeeps DEF TypeInv
    <3> QED
      BY <2>3, <3>1 DEF Change, Longest
  <2>4. ASSUME NEW d \in Conns, Synchronises(d) \/ Drain(d) \/ Visit(d)
        PROVE  /\ conn'[c] = conn[c] /\ walked'[c] = walked[c] /\ checked'[c] = checked[c]
               /\ Longest' = Longest
    BY <2>4 DEF Synchronises, Announce, SyncCheck, SyncSend, SyncEnds, Drain, Visit, Leaves, Pushes, Passes, Longest
  <2>5. CASE UNCHANGED vars
    BY <2>5 DEF vars, Longest
  <2> QED
    BY <2>1, <2>2, <2>3, <2>4, <2>5 DEF Next, Synchronises
<1>3. /\ conn'[c] = conn[c] /\ walked'[c] = walked[c] /\ checked'[c] = checked[c]
      /\ Longest' = Longest
      => SyncLeft(c)' = SyncLeft(c)
  BY DEF SyncLeft
<1> QED
  BY <1>1, <1>2, <1>3, <1>c

\* No broadcast and no synchronisation goes round for ever: each of their steps brings
\* them nearer to their end, and nothing that another thread does to the list of
\* connections or to the list of cards takes them back.  That a synchronisation makes
\* its steps is for its client to allow: a write waits until the client reads
\* (lfrconnectionsmanager.cpp:44-68, lfrconnection.cpp:152-190).
THEOREM WalksAdvance ==
  Spec => /\ [][\A c \in Conns : Advances(c)]_vars
          /\ [](\A c \in Conns : NodesLeft(c) \in 0..MaxConns /\ SyncLeft(c) \in Nat)
<1>1. TypeInv /\ Listing /\ WalkInv /\ [Next]_vars => [\A c \in Conns : Advances(c)]_vars
  BY NodesAdvance, SyncAdvances DEF Advances
<1>2. TypeInv /\ WalkInv => \A c \in Conns : NodesLeft(c) \in 0..MaxConns /\ SyncLeft(c) \in Nat
  BY LeftInNat
<1> QED
  BY <1>1, <1>2, TypeInvHolds, ListingHolds, WalkInvHolds, PTL DEF Spec
=============================================================================
