------------------------ MODULE PersonalCardManager ------------------------
(***************************************************************************)
(* The list of personal cards and its file: class PersonalCardManager of   *)
(* CentralServer/personalcardmanager.{h,cpp}, from its construction by     *)
(* LFRConnectionsManager on, through every operation of its interface.     *)
(*                                                                         *)
(* The file Cards.json is missing, torn (not JSON: cut off while it was    *)
(* written, say), or whole; an entry of a whole file may lack a key, which *)
(* its id "absent" shows.                                                  *)
(***************************************************************************)
EXTENDS CardList, SequencesExt

CONSTANTS
  Indices,      \* the arguments of deleteCard(int)
  SizeT,        \* number of values of size_t
  MaxCards      \* bound on the cards that a file or an update brings

ASSUME PersonalCardManagerAssumption ==
  /\ "blank" \notin Ids \cup Texts /\ "absent" \notin Ids
  /\ Indices \subseteq Int
  /\ MaxCards \in Nat /\ SizeT \in Nat
  /\ \A index \in Indices : index < SizeT - MaxCards /\ -index < SizeT - MaxCards

VARIABLES
  cards,      \* the vector; while the process is down, what it was when it was lost
  fileState,  \* "missing", "torn" or "whole"
  entries,    \* what a whole file holds
  state,      \* "down", "up", "saving", or "refused": the constructor threw
  past,       \* "new", "ran" once it was up, "cut" since a saving was cut short
  inRange,    \* no iterator outside the vector was used
  last        \* the last call, and its card

vars == <<cards, fileState, entries, state, past, inRange, last>>
rest == <<fileState, entries, state, past>>

Absent == [id |-> "absent", text |-> "blank"]

Init ==
  /\ cards = <<>>
  /\ fileState \in {"missing", "torn", "whole"}
  /\ entries \in BoundedSeq(Card \cup {Absent}, MaxCards)
  /\ fileState # "whole" => entries = <<>>
  /\ state = "down" /\ past = "new" /\ inRange = TRUE
  /\ last = [call |-> "none", card |-> Blank]

Called(name, card) == last' = [call |-> name, card |-> card]

-----------------------------------------------------------------------------
(* The operations on the vector.                                           *)

addCard(card) ==
  /\ cards' = Added(cards, card)
  /\ Called("added", card)
  /\ UNCHANGED <<rest, inRange>>

editCard(card) ==
  /\ cards' = Edited(cards, card)
  /\ Called("edited", card)
  /\ UNCHANGED <<rest, inRange>>

\* (mutant) The size and the index are compared as int.
AsInt(index) == index

\* int to size_t.
ToSize(index) == index % SizeT

deleteCardAt(index) ==
  /\ IF Len(cards) <= ToSize(index)
       THEN UNCHANGED <<cards, inRange>>
       ELSE /\ inRange' = (index \in 0..(Len(cards) - 1))
            /\ cards' = IF inRange' THEN RemoveAt(cards, index + 1) ELSE cards
  /\ Called("deletedAt", Blank)
  /\ UNCHANGED rest

\* The new end that remove_if returns is dropped: nothing is erased.
deleteCard(id) ==
  /\ cards' = RemoveIf(cards, id)
  /\ Called("deleted", [id |-> id, text |-> "blank"])
  /\ UNCHANGED <<rest, inRange>>

updateCards(newCards) ==
  /\ cards' = newCards
  /\ Called("updated", Blank)
  /\ UNCHANGED <<rest, inRange>>

-----------------------------------------------------------------------------
(* The file.                                                               *)

\* (mutant) The loop of loadCards ends at an entry that lacks a key.
ThrowsOnNoJSON == fileState # "whole"

\* loadCards throws on what is not JSON and on an entry that lacks a key.
LoadThrows == fileState # "whole" \/ Absent \in ToSet(entries)

\* (mutant) An entry that lacks a key becomes a card without an id.
LoadedAll == entries

\* The cards read before it throws or returns: the vector is cleared first.
Loaded ==
  SubSeq(entries, 1, SelectInSeq(entries \o <<Absent>>, LAMBDA e : e = Absent) - 1)

\* Nothing catches an exception of loadCards before main() does, which returns.
Construct ==
  /\ state = "down"
  /\ cards' = Loaded
  /\ IF LoadThrows
       THEN state' = "refused" /\ UNCHANGED past
       ELSE state' = "up" /\ past' = (IF past = "new" THEN "ran" ELSE past)
  /\ Called("loaded", Blank)
  /\ UNCHANGED <<fileState, entries, inRange>>

\* saveCards opens the file, which empties it ...
StartSaving ==
  /\ state = "up"
  /\ state' = "saving"
  /\ fileState' = "torn" /\ entries' = <<>>
  /\ Called("saving", Blank)
  /\ UNCHANGED <<cards, past, inRange>>

\* (mutant) One key of the card is not written.
SaveWithoutKey ==
  /\ state = "saving"
  /\ state' = "up"
  /\ fileState' = "whole" /\ entries' = [i \in DOMAIN cards |-> Absent]
  /\ past' = "ran"
  /\ Called("saved", Blank)
  /\ UNCHANGED <<cards, inRange>>

\* ... and the text of the list reaches it when the stream is closed.
FinishSaving ==
  /\ state = "saving"
  /\ state' = "up"
  /\ fileState' = "whole" /\ entries' = cards
  /\ past' = "ran"
  /\ Called("saved", Blank)
  /\ UNCHANGED <<cards, inRange>>

\* The text does not all get there: the disk is full, say.  Nobody looks at the stream.
\* (A file that cannot be opened is left as it is, and nothing else happens.)
WriteFails ==
  /\ state = "saving"
  /\ state' = "up" /\ past' = "cut"
  /\ Called("saved", Blank)
  /\ UNCHANGED <<cards, fileState, entries, inRange>>

\* The process is lost, by any cause, and can be started again.
Crash ==
  /\ state \in {"up", "saving"}
  /\ state' = "down"
  /\ past' = (IF state = "saving" THEN "cut" ELSE past)
  /\ Called("none", Blank)
  /\ UNCHANGED <<cards, fileState, entries, inRange>>

-----------------------------------------------------------------------------

Add == state = "up" /\ \E card \in Card : addCard(card)
Edit == state = "up" /\ \E card \in Card : editCard(card)
DeleteAt == state = "up" /\ \E index \in Indices : deleteCardAt(index)
Delete == state = "up" /\ \E id \in Ids : deleteCard(id)
Update == state = "up" /\ \E list \in BoundedSeq(Card, MaxCards) : updateCards(list)

Next ==
  \/ Construct \/ Add \/ Edit \/ DeleteAt \/ Delete \/ Update
  \/ StartSaving \/ FinishSaving \/ WriteFails \/ Crash

Spec == Init /\ [][Next]_vars

-----------------------------------------------------------------------------
(* Properties.                                                             *)

\* Every variable has its type; the list holds cards and moved-from cards only.
TypeOK ==
  /\ cards \in BoundedSeq(Card \cup {Blank}, MaxCards + 1)
  /\ fileState \in {"missing", "torn", "whole"}
  /\ entries \in BoundedSeq(Card \cup {Blank, Absent}, MaxCards + 1)
  /\ state \in {"down", "up", "saving", "refused"}
  /\ past \in {"new", "ran", "cut"}
  /\ inRange \in BOOLEAN

\* The cards of a list that a deletion of id is not about.
Others(list, id) == {i \in DOMAIN list : list[i].id \notin {id, "blank"}}

\* The other cards are those of the old list, one for one and in their order.
KeepsOthers(old, new, id) ==
  \E place \in [Others(old, id) -> Others(new, id)] :
    /\ \A i \in Others(old, id) : new[place[i]] = old[i]
    /\ \A i, j \in Others(old, id) : i < j => place[i] < place[j]
    /\ \A k \in Others(new, id) : \E i \in Others(old, id) : place[i] = k

\* A deletion by id, of a list that earlier deletions may have left blanks and doubles
\* in, loses no other card, doubles none, brings none back and keeps their order.
DeletionKeepsOthers ==
  [][last'.call = "deleted" => KeepsOthers(cards, cards', last'.card.id)]_vars

\* deleteCard(int) compares the int with a size_t: no index, negative or too
\* large, ever reaches erase.
IndexInRange == inRange

\* A server that ran once can always be started again from its file, whatever its
\* list had become (blanks included), unless its last saving was cut short: by the
\* loss of the process, or by a write that failed and that nobody looked at.
RefusedHasCause ==
  state = "refused" => past \in {"new", "cut"}

\* An exception in the middle of the file leaves a part of the list in the vector,
\* but no server ever runs on it: each start brings back all that the file holds.
LoadedWhole ==
  [][state = "down" /\ state' = "up" => cards' = entries]_vars
=============================================================================
