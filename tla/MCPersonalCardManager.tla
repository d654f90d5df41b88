----------------------- MODULE MCPersonalCardManager -----------------------
(***************************************************************************)
(* PersonalCardManager for the model checker, with what the README says of *)
(* the cards, for the run that refutes it.                                 *)
(***************************************************************************)
EXTENDS PersonalCardManager

\* Negative, inside a list of two, and past the end of every list.
MCIndices == {-1, 0, 1, 9}

\* README.md:2, the application receives and stores personal cards: a card that
\* was added is in the list.
AddedIsListed ==
  last.call = "added" => \E i \in 1..Len(cards) : cards[i].id = last.card.id
=============================================================================
