------------------------------ MODULE CardList ------------------------------
(***************************************************************************)
(* What the operations of PersonalCardManager make of the vector of cards  *)
(* (CentralServer/personalcardmanager.cpp:13-39), as functions of a list.  *)
(*                                                                         *)
(* A card is its id and a text that stands for the other strings; the two  *)
(* correction numbers are left out.  "blank" is the empty string, which    *)
(* std::move leaves behind.                                                *)
(***************************************************************************)
EXTENDS Integers, Sequences, FiniteSets

CONSTANTS Ids, Texts   \* what the ids and the other strings of a card can be

Card == [id : Ids, text : Texts]
Blank == [id |-> "blank", text |-> "blank"]

\* The predicate of the two find_if: the lambda's parameter has the name of the
\* card that is looked for, and hides it.
SameId(card) == card.id = card.id

\* The positions that std::find_if could stop at; it stops at the first.
Found(list) == {i \in 1..Len(list) : SameId(list[i])}
First(positions) == CHOOSE i \in positions : \A j \in positions : i <= j

Added(list, card) ==
  IF Found(list) = {} THEN Append(list, card) ELSE list

Edited(list, card) ==
  IF Found(list) = {} THEN Append(list, card)
  ELSE [list EXCEPT ![First(Found(list))] = card]

\* (mutants) The first card to delete is overwritten by the last one; what
\* remove_if leaves behind is erased.
RemoveSwapping(list, id) ==
  [i \in DOMAIN list |-> IF list[i].id = id THEN list[Len(list)] ELSE list[i]]
RemoveErasing(list, id) == SelectSeq(list, LAMBDA card : card.id # id)

\* The positions of the cards to keep, and the place of the one at j among them.
Staying(list, id) == {i \in DOMAIN list : list[i].id # id}
Place(list, id, j) == Cardinality({i \in Staying(list, id) : i <= j})

\* std::remove_if, with nothing erased after it: the cards to keep are moved to
\* the front; behind them a card to delete stays, and a card moved away is blank.
RemoveIf(list, id) ==
  LET staying == Staying(list, id)
  IN [i \in DOMAIN list |->
        IF i <= Cardinality(staying)
          THEN list[CHOOSE j \in staying : Place(list, id, j) = i]
        ELSE IF list[i].id = id THEN list[i] ELSE Blank]

\* The same as the loop of the library: each card to keep is moved to the first
\* place not yet taken, `end', which empties its strings.
LoopStep(at, n, id) ==
  IF at.list[n].id = id THEN at
  ELSE [end |-> at.end + 1,
        list |-> IF n = at.end THEN at.list
                 ELSE [at.list EXCEPT ![at.end] = at.list[n], ![n] = Blank]]

RemoveIfLoop(list, id) ==
  LET loop[n \in 0..Len(list)] ==
        IF n = 0 THEN [end |-> 1, list |-> list] ELSE LoopStep(loop[n - 1], n, id)
  IN loop[Len(list)].list
=============================================================================
