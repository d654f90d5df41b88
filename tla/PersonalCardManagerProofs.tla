---------------------- MODULE PersonalCardManagerProofs ----------------------
(***************************************************************************)
(* What holds of the card manager and its file for any ids, texts and      *)
(* arguments, lists of any length and any width of size_t.                 *)
(***************************************************************************)
EXTENDS PersonalCardManager, CardListProofs

-----------------------------------------------------------------------------
(* Bounded lists.                                                          *)

LEMMA Bounded ==
  ASSUME NEW S, NEW n \in Nat
  PROVE  /\ \A list : list \in BoundedSeq(S, n) <=> list \in Seq(S) /\ Len(list) <= n
         /\ <<>> \in BoundedSeq(S, n)
<1>1. ASSUME NEW list, list \in BoundedSeq(S, n) PROVE list \in Seq(S) /\ Len(list) <= n
  <2>1. PICK m \in 0..n : list \in [1..m -> S]
    BY <1>1 DEF BoundedSeq, SeqOf
  <2> QED
    BY <2>1
<1>2. ASSUME NEW list, list \in Seq(S), Len(list) <= n PROVE list \in BoundedSeq(S, n)
  <2>1. Len(list) \in 0..n /\ list \in [1..Len(list) -> S]
    BY <1>2
  <2> QED
    BY <2>1 DEF BoundedSeq, SeqOf
<1>3. <<>> \in Seq(S) /\ Len(<<>>) <= n
  OBVIOUS
<1> QED
  BY <1>1, <1>2, <1>3

LEMMA RemoveAtBounded ==
  ASSUME NEW S, NEW n \in Nat, NEW list \in BoundedSeq(S, n), NEW i \in 1..Len(list)
  PROVE  RemoveAt(list, i) \in BoundedSeq(S, n)
<1>1. list \in Seq(S) /\ Len(list) <= n /\ Len(list) \in Nat
  BY Bounded
<1> DEFINE front == SubSeq(list, 1, i - 1)
           back == SubSeq(list, i + 1, Len(list))
<1>2. /\ front \in Seq(S) /\ Len(front) = i - 1
      /\ back \in Seq(S) /\ Len(back) = Len(list) - i
  BY <1>1
<1>0. RemoveAt(list, i) = front \o back
  BY DEF RemoveAt
<1> HIDE DEF front, back
<1>3. front \o back \in Seq(S) /\ Len(front \o back) = Len(front) + Len(back)
  BY <1>2, ConcatProperties
<1>4. Len(front \o back) <= n
  BY <1>1, <1>2, <1>3
<1> QED
  BY <1>0, <1>3, <1>4, Bounded

-----------------------------------------------------------------------------
(* What loadCards reads.                                                   *)

Entry == Card \cup {Blank, Absent}

LEMMA AbsentIsNoCard == Absent \notin Card \cup {Blank}
BY PersonalCardManagerAssumption DEF Absent, Card, Blank

\* Up to the first entry that lacks a key: cards only, and no more than there are.
LEMMA LoadedCards ==
  ASSUME NEW n \in Nat, entries \in BoundedSeq(Entry, n)
  PROVE  /\ Loaded \in BoundedSeq(Card \cup {Blank}, n)
         /\ Absent \notin ToSet(entries) => Loaded = entries
<1> DEFINE ended == entries \o <<Absent>>
           T == {i \in 1..Len(ended) : ended[i] = Absent}
           k == Min(T)
<1>1. entries \in Seq(Entry) /\ Len(entries) <= n /\ Len(entries) \in Nat
  BY Bounded
<1>2. /\ Len(ended) = Len(entries) + 1
      /\ ended[Len(entries) + 1] = Absent
      /\ \A i \in 1..Len(entries) : ended[i] = entries[i]
  BY <1>1
<1> HIDE DEF ended
<1>3. T \subseteq Nat /\ Len(entries) + 1 \in T
  BY <1>1, <1>2
<1>4. k \in T /\ \A i \in T : k <= i
  BY <1>3, LeastNat DEF Min
<1>5. SelectInSeq(ended, LAMBDA e : e = Absent) = k
  BY <1>3 DEF SelectInSeq
<1>6. Loaded = SubSeq(entries, 1, k - 1)
  BY <1>5 DEF Loaded, ended
<1> HIDE DEF k
<1>7. k \in 1..(Len(entries) + 1)
  BY <1>1, <1>2, <1>4
<1>8. ASSUME NEW i \in 1..(k - 1) PROVE entries[i] \in Card \cup {Blank}
  <2>1. i \in 1..Len(entries) /\ ~ (k <= i) /\ i \in 1..Len(ended)
    BY <1>1, <1>2, <1>7
  <2>2. entries[i] # Absent
    BY <1>2, <1>4, <2>1
  <2>3. entries[i] \in Entry
    BY <1>1, <2>1
  <2> QED
    BY <2>2, <2>3 DEF Entry
<1>9. /\ Loaded \in Seq(Entry) /\ Len(Loaded) = k - 1
      /\ \A i \in 1..(k - 1) : Loaded[i] = entries[i]
  BY <1>1, <1>6, <1>7
<1>10. Loaded \in [1..(k - 1) -> Card \cup {Blank}]
  <2>1. Loaded = [i \in 1..(k - 1) |-> Loaded[i]]
    BY <1>9
  <2> QED
    BY <1>8, <1>9, <2>1
<1>11. k - 1 \in Nat /\ k - 1 <= n
  BY <1>1, <1>7
<1>12. Loaded \in Seq(Card \cup {Blank})
  BY <1>10, <1>11
<1>13. ASSUME Absent \notin ToSet(entries) PROVE Loaded = entries
  <2>1. k = Len(entries) + 1
    <3>1. ASSUME k \in 1..Len(entries) PROVE FALSE
      BY <1>1, <1>2, <1>4, <1>13, <3>1 DEF ToSet
    <3> QED
      BY <1>1, <1>7, <3>1
  <2>2. Loaded = SubSeq(entries, 1, Len(entries))
    BY <1>1, <1>6, <2>1
  <2> QED
    BY <1>1, <2>2
<1> QED
  BY <1>9, <1>11, <1>12, <1>13, Bounded

-----------------------------------------------------------------------------
(* Types.                                                                  *)

Lists == BoundedSeq(Card \cup {Blank}, MaxCards + 1)

LEMMA MaxCardsNat == MaxCards \in Nat /\ MaxCards + 1 \in Nat
BY PersonalCardManagerAssumption

LEMMA BoundedGrows ==
  ASSUME NEW S, NEW T, S \subseteq T, NEW list \in BoundedSeq(S, MaxCards)
  PROVE  list \in BoundedSeq(T, MaxCards + 1)
<1>1. list \in Seq(S) /\ Len(list) <= MaxCards /\ Len(list) \in Nat
  BY Bounded, MaxCardsNat
<1>2. list \in Seq(T) /\ Len(list) <= MaxCards + 1
  BY <1>1, MaxCardsNat, SeqMonotonic
<1> QED
  BY <1>2, Bounded, MaxCardsNat

\* int to size_t: an index that is negative is larger than the size of any list.
LEMMA ToSizeOf ==
  ASSUME NEW index \in Indices
  PROVE  /\ index \in Int
         /\ index >= 0 => ToSize(index) = index
         /\ index < 0 => ToSize(index) > MaxCards /\ ToSize(index) \in Nat
<1>1. /\ index \in Int /\ SizeT \in Nat /\ MaxCards \in Nat
      /\ index < SizeT - MaxCards /\ -index < SizeT - MaxCards
  BY PersonalCardManagerAssumption
<1>2. CASE index >= 0
  <2>1. index \in 0..(SizeT - 1)
    BY <1>1, <1>2
  <2> QED
    BY <1>1, <1>2, <2>1 DEF ToSize
<1>3. CASE index < 0
  <2>1. index + SizeT \in 0..(SizeT - 1) /\ index + SizeT > MaxCards
    BY <1>1, <1>3
  <2>2. index % SizeT = index + SizeT
    BY <1>1, <2>1
  <2> QED
    BY <1>1, <1>3, <2>1, <2>2 DEF ToSize
<1> QED
  BY <1>1, <1>2, <1>3

LEMMA IndexUsed ==
  ASSUME NEW index \in Indices, cards \in Lists, ~ (Len(cards) <= ToSize(index))
  PROVE  index \in 0..(Len(cards) - 1)
<1>1. Len(cards) \in Nat /\ Len(cards) <= MaxCards + 1
  BY Bounded, MaxCardsNat DEF Lists
<1> QED
  BY <1>1, ToSizeOf, MaxCardsNat

\* Every operation on the vector leaves a list.
LEMMA VectorStep ==
  ASSUME cards \in Lists, Add \/ Edit \/ DeleteAt \/ Delete \/ Update
  PROVE  cards' \in Lists
<1> DEFINE S == Card \cup {Blank}
<1>1. cards \in Seq(S) /\ Len(cards) <= MaxCards + 1 /\ Len(cards) \in Nat
  BY Bounded, MaxCardsNat DEF Lists
<1>0. Card \subseteq S /\ S \cup {Blank} = S /\ Lists = BoundedSeq(S, MaxCards + 1)
  BY DEF Lists
<1> HIDE DEF S
<1>2. ASSUME NEW new, new \in Seq(S), Len(new) = Len(cards) \/ Len(new) = 1
      PROVE  new \in Lists
  <2>1. Len(new) <= MaxCards + 1
    BY <1>1, <1>2, MaxCardsNat
  <2> QED
    BY <1>0, <1>2, <2>1, Bounded, MaxCardsNat
<1>3. CASE Add \/ Edit
  <2>1. PICK card \in Card : cards' = Added(cards, card) \/ cards' = Edited(cards, card)
    BY <1>3 DEF Add, Edit, addCard, editCard
  <2>2. card \in S
    BY <1>0
  <2>3. /\ cards' \in Seq(S)
        /\ Len(cards') = Len(cards) \/ Len(cards') = 1
    <3>1. /\ Added(cards, card) \in Seq(S) /\ Edited(cards, card) \in Seq(S)
          /\ \A new \in {Added(cards, card), Edited(cards, card)} :
               Len(new) = Len(cards) \/ (Len(cards) = 0 /\ Len(new) = 1)
      BY <1>1, <2>2, ListOperations
    <3> QED
      BY <2>1, <3>1
  <2> QED
    BY <1>2, <2>3
<1>4. CASE DeleteAt
  <2>1. PICK index \in Indices : deleteCardAt(index)
    BY <1>4 DEF DeleteAt
  <2>2. CASE Len(cards) <= ToSize(index)
    BY <2>1, <2>2 DEF deleteCardAt
  <2>3. CASE ~ (Len(cards) <= ToSize(index))
    <3>1. index + 1 \in 1..Len(cards)
      BY <1>1, <2>3, IndexUsed
    <3>2. RemoveAt(cards, index + 1) \in Lists
      BY <3>1, MaxCardsNat, RemoveAtBounded DEF Lists
    <3> QED
      BY <2>1, <2>3, <3>2 DEF deleteCardAt
  <2> QED
    BY <2>2, <2>3
<1>5. CASE Delete
  <2>1. PICK id \in Ids : cards' = RemoveIf(cards, id)
    BY <1>5 DEF Delete, deleteCard
  <2>2. RemoveIf(cards, id) \in Seq(S) /\ Len(RemoveIf(cards, id)) = Len(cards)
    BY <1>0, <1>1, RemoveIfKeepsOthers
  <2> QED
    BY <1>2, <2>1, <2>2
<1>6. CASE Update
  <2>1. cards' \in BoundedSeq(Card, MaxCards)
    BY <1>6 DEF Update, updateCards
  <2> QED
    BY <1>0, <2>1, BoundedGrows
<1> QED
  BY <1>3, <1>4, <1>5, <1>6

LEMMA TypeInit == Init => TypeOK
<1> SUFFICES ASSUME Init PROVE TypeOK
  OBVIOUS
<1>1. cards \in Lists
  BY Bounded, MaxCardsNat DEF Init, Lists
<1>2. entries \in BoundedSeq(Card \cup {Blank, Absent}, MaxCards + 1)
  BY BoundedGrows DEF Init
<1> QED
  BY <1>1, <1>2 DEF Init, TypeOK, Lists

LEMMA TypeStep == TypeOK /\ [Next]_vars => TypeOK'
<1> SUFFICES ASSUME TypeOK, [Next]_vars PROVE TypeOK'
  OBVIOUS
<1> DEFINE Entries == BoundedSeq(Card \cup {Blank, Absent}, MaxCards + 1)
<1>a. /\ cards \in Lists /\ entries \in Entries
      /\ fileState \in {"missing", "torn", "whole"}
      /\ state \in {"down", "up", "saving", "refused"}
      /\ past \in {"new", "ran", "cut"} /\ inRange \in BOOLEAN
  BY DEF TypeOK, Lists
<1>c. SUFFICES /\ cards' \in Lists /\ entries' \in Entries
               /\ fileState' \in {"missing", "torn", "whole"}
               /\ state' \in {"down", "up", "saving", "refused"}
               /\ past' \in {"new", "ran", "cut"} /\ inRange' \in BOOLEAN
  BY DEF TypeOK, Lists
<1> HIDE DEF Entries
<1>1. CASE Construct
  <2>1. entries \in BoundedSeq(Entry, MaxCards + 1)
    <3>1. Entry = Card \cup {Blank, Absent}
      BY DEF Entry
    <3> QED
      BY <1>a, <3>1 DEF Entries
  <2>2. Loaded \in Lists
    BY <2>1, LoadedCards, MaxCardsNat DEF Lists
  <2> QED
    BY <1>1, <1>a, <2>2 DEF Construct
<1>2. CASE Add \/ Edit \/ DeleteAt \/ Delete \/ Update
  <2>1. cards' \in Lists
    BY <1>2, <1>a, VectorStep
  <2>2. UNCHANGED rest
    BY <1>2 DEF Add, Edit, DeleteAt, Delete, Update, addCard, editCard, deleteCardAt,
                deleteCard, updateCards
  <2>3. inRange' \in BOOLEAN
    <3>1. CASE DeleteAt
      <4>1. PICK index \in Indices : deleteCardAt(index)
        BY <3>1 DEF DeleteAt
      <4>2. inRange' = inRange \/ inRange' = (index \in 0..(Len(cards) - 1))
        BY <4>1, Zenon DEF deleteCardAt
      <4>3. CASE index \in 0..(Len(cards) - 1)
        <5>1. (index \in 0..(Len(cards) - 1)) = TRUE
          BY <4>3
        <5> QED
          BY <1>a, <4>2, <5>1
      <4>4. CASE index \notin 0..(Len(cards) - 1)
        <5>1. (index \in 0..(Len(cards) - 1)) = FALSE
          BY <4>4
        <5> QED
          BY <1>a, <4>2, <5>1
      <4> QED
        BY <4>3, <4>4
    <3>2. CASE Add \/ Edit \/ Delete \/ Update
      BY <1>a, <3>2 DEF Add, Edit, Delete, Update, addCard, editCard, deleteCard, updateCards
    <3> QED
      BY <1>2, <3>1, <3>2
  <2> QED
    BY <1>a, <2>1, <2>2, <2>3 DEF rest
<1>3. CASE StartSaving
  <2>1. <<>> \in Entries
    BY Bounded, MaxCardsNat DEF Entries
  <2> QED
    BY <1>a, <1>3, <2>1 DEF StartSaving
<1>4. CASE FinishSaving
  <2>1. cards \in Seq(Card \cup {Blank}) /\ Len(cards) <= MaxCards + 1
    BY <1>a, Bounded, MaxCardsNat DEF Lists
  <2>2. cards \in Seq(Card \cup {Blank, Absent})
    BY <2>1, SeqMonotonic
  <2>3. cards \in Entries
    BY <2>1, <2>2, Bounded, MaxCardsNat DEF Entries
  <2> QED
    BY <1>a, <1>4, <2>3 DEF FinishSaving
<1>5. CASE Crash \/ WriteFails
  BY <1>a, <1>5 DEF Crash, WriteFails
<1>6. CASE UNCHANGED vars
  BY <1>a, <1>6 DEF vars
<1> QED
  BY <1>1, <1>2, <1>3, <1>4, <1>5, <1>6 DEF Next

\* The list never holds anything but cards and blanks, and never more than a file or
\* an update brings, whatever is added, edited and deleted
\* (personalcardmanager.cpp:13-39, 86-90).
THEOREM TypeCorrect == Spec => []TypeOK
BY TypeInit, TypeStep, PTL DEF Spec

-----------------------------------------------------------------------------
(* The index of deleteCard(int).                                           *)

LEMMA IndexStep == TypeOK /\ IndexInRange /\ [Next]_vars => IndexInRange'
<1> SUFFICES ASSUME TypeOK, IndexInRange, [Next]_vars PROVE inRange' = TRUE
  BY DEF IndexInRange
<1>a. cards \in Lists /\ inRange = TRUE
  BY DEF TypeOK, Lists, IndexInRange
<1>1. CASE DeleteAt
  <2>1. PICK index \in Indices : deleteCardAt(index)
    BY <1>1 DEF DeleteAt
  <2>2. CASE Len(cards) <= ToSize(index)
    BY <1>a, <2>1, <2>2 DEF deleteCardAt
  <2>3. CASE ~ (Len(cards) <= ToSize(index))
    <3>1. (index \in 0..(Len(cards) - 1)) = TRUE
      BY <1>a, <2>3, IndexUsed
    <3>2. inRange' = (index \in 0..(Len(cards) - 1))
      BY <2>1, <2>3, Zenon DEF deleteCardAt
    <3> QED
      BY <3>1, <3>2
  <2> QED
    BY <2>2, <2>3
<1>2. CASE \/ Construct \/ Add \/ Edit \/ Delete \/ Update
           \/ StartSaving \/ FinishSaving \/ WriteFails \/ Crash \/ UNCHANGED vars
  BY <1>a, <1>2 DEF Construct, Add, Edit, Delete, Update, StartSaving, FinishSaving, WriteFails,
                    Crash, addCard, editCard, deleteCard, updateCards, vars
<1> QED
  BY <1>1, <1>2 DEF Next

\* The comparison of size_t with int (personalcardmanager.cpp:31) lets no index
\* through that is outside the list: not for any width of size_t that can count the
\* cards besides the negative indices.
THEOREM IndexInRangeHolds == Spec => []IndexInRange
<1>1. Init => IndexInRange
  BY DEF Init, IndexInRange
<1> QED
  BY <1>1, TypeCorrect, IndexStep, PTL DEF Spec

-----------------------------------------------------------------------------
(* The file and the next start.                                            *)

\* While the server that ran is not in the middle of saving, its file can be read.
FileInv ==
  past = "ran" =>
    /\ state # "refused"
    /\ state # "saving" => fileState = "whole" /\ Absent \notin ToSet(entries)

LEMMA FileStep == TypeOK /\ FileInv /\ [Next]_vars => FileInv'
<1> SUFFICES ASSUME TypeOK, FileInv, [Next]_vars PROVE FileInv'
  OBVIOUS
<1>1. CASE Construct
  <2>1. CASE LoadThrows
    <3>1. past # "ran"
      BY <1>1, <2>1 DEF Construct, LoadThrows, FileInv
    <3> QED
      BY <1>1, <2>1, <3>1 DEF Construct, FileInv
  <2>2. CASE ~LoadThrows
    BY <1>1, <2>2 DEF Construct, LoadThrows, FileInv
  <2> QED
    BY <2>1, <2>2
<1>2. CASE Add \/ Edit \/ DeleteAt \/ Delete \/ Update
  <2>1. UNCHANGED rest
    BY <1>2 DEF Add, Edit, DeleteAt, Delete, Update, addCard, editCard, deleteCardAt,
                deleteCard, updateCards
  <2> QED
    BY <2>1 DEF rest, FileInv
<1>3. CASE StartSaving
  BY <1>3 DEF StartSaving, FileInv
<1>4. CASE FinishSaving
  <2>1. cards \in Seq(Card \cup {Blank})
    BY Bounded, MaxCardsNat DEF TypeOK
  <2>2. Absent \notin ToSet(cards)
    BY <2>1, AbsentIsNoCard DEF ToSet
  <2> QED
    BY <1>4, <2>2 DEF FinishSaving, FileInv
<1>5. CASE Crash \/ WriteFails
  BY <1>5 DEF Crash, WriteFails, FileInv
<1>6. CASE UNCHANGED vars
  BY <1>6 DEF vars, FileInv
<1> QED
  BY <1>1, <1>2, <1>3, <1>4, <1>5, <1>6 DEF Next

\* A server that ran is never refused its own file (personalcardmanager.cpp:41-84)
\* unless it was lost, or a write failed, when it last wrote it: blanks are written and
\* read like cards.
THEOREM RefusedHasCauseHolds == Spec => []RefusedHasCause
<1>1. Init => FileInv
  BY DEF Init, FileInv
<1>2. TypeOK /\ FileInv => RefusedHasCause
  BY DEF TypeOK, FileInv, RefusedHasCause
<1> QED
  BY <1>1, <1>2, TypeCorrect, FileStep, PTL DEF Spec

-----------------------------------------------------------------------------
(* Deletion by id.                                                         *)

LEMMA DeletedBy ==
  ASSUME TypeOK, Next, last'.call = "deleted"
  PROVE  cards \in Seq(Card \cup {Blank}) /\ cards' = RemoveIf(cards, last'.card.id)
<1>1. cards \in Seq(Card \cup {Blank})
  BY Bounded, MaxCardsNat DEF TypeOK
<1>2. CASE Delete
  <2>1. PICK id \in Ids : deleteCard(id)
    BY <1>2 DEF Delete
  <2>2. last'.card.id = id
    BY <2>1 DEF deleteCard, Called
  <2> QED
    BY <1>1, <2>1, <2>2 DEF deleteCard
<1>3. CASE \/ Construct \/ Add \/ Edit \/ DeleteAt \/ Update
           \/ StartSaving \/ FinishSaving \/ WriteFails \/ Crash
  <2>1. \E name \in {"loaded", "added", "edited", "deletedAt", "updated", "saving", "saved",
                     "none"} : \E card : Called(name, card)
    BY <1>3 DEF Construct, Add, Edit, DeleteAt, Update, StartSaving, FinishSaving, WriteFails,
                Crash, addCard, editCard, deleteCardAt, updateCards
  <2> QED
    BY <2>1 DEF Called
<1> QED
  BY <1>2, <1>3 DEF Next

\* The places of std::remove_if show what KeepsOthers asks for.
LEMMA RemoveIfOthers ==
  ASSUME NEW list \in Seq(Card \cup {Blank}), NEW id
  PROVE  KeepsOthers(list, RemoveIf(list, id), id)
<1> DEFINE new == RemoveIf(list, id)
           place == [i \in Others(list, id) |-> Place(list, id, i)]
<1>1. /\ Len(new) = Len(list) /\ Len(list) \in Nat
      /\ DOMAIN new = 1..Len(list) /\ DOMAIN list = 1..Len(list)
      /\ \A i \in Staying(list, id) :
           Place(list, id, i) \in 1..i /\ new[Place(list, id, i)] = list[i]
      /\ \A i, j \in Staying(list, id) : i < j => Place(list, id, i) < Place(list, id, j)
      /\ \A k \in 1..Len(list) : \/ \E i \in Staying(list, id) : Place(list, id, i) = k
                                \/ new[k].id = id \/ new[k] = Blank
  BY RemoveIfKeepsOthers
<1> HIDE DEF new
<1>2. \A i \in Others(list, id) : i \in Staying(list, id) /\ i \in 1..Len(list)
  BY <1>1 DEF Others, Staying
<1>3. ASSUME NEW i \in Others(list, id)
      PROVE  Place(list, id, i) \in Others(new, id) /\ new[Place(list, id, i)] = list[i]
  <2>1. Place(list, id, i) \in 1..Len(list) /\ new[Place(list, id, i)] = list[i]
    BY <1>1, <1>2
  <2> QED
    BY <1>1, <2>1 DEF Others
<1>4. ASSUME NEW k \in Others(new, id)
      PROVE  \E i \in Others(list, id) : Place(list, id, i) = k
  <2>1. k \in 1..Len(list) /\ new[k].id \notin {id, "blank"}
    BY <1>1 DEF Others
  <2>2. PICK i \in Staying(list, id) : Place(list, id, i) = k
    BY <1>1, <2>1 DEF Blank
  <2>3. list[i] = new[k] /\ i \in DOMAIN list
    BY <1>1, <2>2 DEF Staying
  <2> QED
    BY <2>1, <2>2, <2>3 DEF Others
<1>5. place \in [Others(list, id) -> Others(new, id)]
  BY <1>3
<1>6. /\ \A i \in Others(list, id) : new[place[i]] = list[i]
      /\ \A i, j \in Others(list, id) : i < j => place[i] < place[j]
      /\ \A k \in Others(new, id) : \E i \in Others(list, id) : place[i] = k
  BY <1>1, <1>2, <1>3, <1>4
<1> HIDE DEF place
<1>7. KeepsOthers(list, new, id)
  BY <1>5, <1>6 DEF KeepsOthers
<1> QED
  BY <1>7 DEF new

\* However often a list is deleted from (personalcardmanager.cpp:36-39), and whatever
\* blanks that has left in it, the cards that a deletion does not name are kept.
THEOREM DeletionKeepsOthersHolds == Spec => DeletionKeepsOthers
<1>1. TypeOK /\ [Next]_vars =>
        [last'.call = "deleted" => KeepsOthers(cards, cards', last'.card.id)]_vars
  BY DeletedBy, RemoveIfOthers
<1> QED
  BY <1>1, TypeCorrect, PTL DEF Spec, DeletionKeepsOthers

\* Whatever a process wrote and however it ended, the next one starts from all of the
\* file or not at all (personalcardmanager.cpp:41-84).
THEOREM LoadedWholeHolds == Spec => LoadedWhole
<1>1. TypeOK /\ [Next]_vars => [state = "down" /\ state' = "up" => cards' = entries]_vars
  <2> SUFFICES ASSUME TypeOK, Next, state = "down", state' = "up" PROVE cards' = entries
    OBVIOUS
  <2>1. CASE Construct
    <3>1. ~LoadThrows /\ cards' = Loaded
      BY <2>1 DEF Construct
    <3>2. entries \in BoundedSeq(Entry, MaxCards + 1)
      <4>1. Entry = Card \cup {Blank, Absent}
        BY DEF Entry
      <4> QED
        BY <4>1 DEF TypeOK
    <3> QED
      BY <3>1, <3>2, LoadedCards, MaxCardsNat DEF LoadThrows
  <2>2. CASE \/ Add \/ Edit \/ DeleteAt \/ Delete \/ Update
             \/ StartSaving \/ FinishSaving \/ WriteFails \/ Crash
    BY <2>2 DEF Add, Edit, DeleteAt, Delete, Update, StartSaving, FinishSaving, WriteFails, Crash
  <2> QED
    BY <2>1, <2>2 DEF Next
<1> QED
  BY <1>1, TypeCorrect, PTL DEF Spec, LoadedWhole
=============================================================================
