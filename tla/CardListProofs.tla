--------------------------- MODULE CardListProofs ---------------------------
(***************************************************************************)
(* What the operations on the list of cards do to every list, of any       *)
(* length and of any cards: above all, that RemoveIf is what the loop of   *)
(* std::remove_if computes.                                                *)
(*                                                                         *)
(* The inductions are over a set of numbers (NatInduction), which is what  *)
(* the provers can instantiate: its elements are the numbers for which the *)
(* claim holds.                                                            *)
(***************************************************************************)
EXTENDS CardList, FiniteSetTheorems, SequenceTheorems, WellFoundedInduction, TLAPS

-----------------------------------------------------------------------------
(* Numbers.                                                                *)

LEMMA LeastNat ==
  ASSUME NEW T, T \subseteq Nat, T # {}
  PROVE  \E n \in T : \A m \in T : n <= m
<1> DEFINE R == OpToRel(<, Nat)
<1>1. IsWellFoundedOn(R, Nat)
  BY NatLessThanWellFounded
<1>2. \A m, n \in Nat : <<m, n>> \in R <=> m < n
  BY DEF OpToRel
<1> HIDE DEF R
<1>3. PICK n \in T : \A m \in T : ~ (<<m, n>> \in R)
  BY <1>1, WFMin
<1>4. ASSUME NEW m \in T PROVE n <= m
  <2>1. n \in Nat /\ m \in Nat /\ ~ (m < n)
    BY <1>2, <1>3
  <2> QED
    BY <2>1
<1> QED
  BY <1>3, <1>4

LEMMA NatInduct ==
  ASSUME NEW T, 0 \in T, \A n \in Nat : n \in T => n + 1 \in T
  PROVE  \A n \in Nat : n \in T
<1> SUFFICES ASSUME Nat \ T # {} PROVE FALSE
  OBVIOUS
<1>1. PICK n \in Nat \ T : \A m \in Nat \ T : n <= m
  BY LeastNat
<1>2. n - 1 \in Nat /\ n - 1 \in T
  BY <1>1
<1> QED
  BY <1>1, <1>2

\* The first of some positions is one of them.
LEMMA FirstIsLeast ==
  ASSUME NEW T, T \subseteq Nat, T # {}
  PROVE  First(T) \in T /\ \A n \in T : First(T) <= n
BY LeastNat DEF First

-----------------------------------------------------------------------------
(* The cards to keep, and their places.                                    *)

LEMMA StayingFinite ==
  ASSUME NEW S, NEW list \in Seq(S), NEW id
  PROVE  /\ Staying(list, id) \subseteq 1..Len(list)
         /\ IsFiniteSet(Staying(list, id))
<1>1. Staying(list, id) \subseteq 1..Len(list) /\ Len(list) \in Nat
  BY DEF Staying
<1>2. IsFiniteSet(1..Len(list))
  BY <1>1, FS_Interval
<1> QED
  BY <1>1, <1>2, FS_Subset

\* From one position to the next, the place grows by one if the card stays.
LEMMA PlaceStep ==
  ASSUME NEW S, NEW list \in Seq(S), NEW id
  PROVE  /\ Place(list, id, 0) = 0
         /\ \A n \in Nat : Place(list, id, n) \in Nat
         /\ \A n \in Nat :
              Place(list, id, n + 1) =
                Place(list, id, n) + (IF n + 1 \in Staying(list, id) THEN 1 ELSE 0)
<1> DEFINE U == Staying(list, id)
           V(n) == {i \in U : i <= n}
<1>1. IsFiniteSet(U) /\ \A i \in U : i \in Nat /\ i >= 1
  BY StayingFinite
<1> HIDE DEF U
<1>2. \A n : IsFiniteSet(V(n)) /\ Cardinality(V(n)) \in Nat
  <2> TAKE n
  <2>1. V(n) \subseteq U
    OBVIOUS
  <2> QED
    BY <1>1, <2>1, FS_Subset, FS_CardinalityType
<1>3. V(0) = {}
  BY <1>1
<1>4. ASSUME NEW n \in Nat
      PROVE  Cardinality(V(n + 1)) = Cardinality(V(n)) + (IF n + 1 \in U THEN 1 ELSE 0)
  <2>a. \A i \in U : i <= n + 1 <=> i <= n \/ i = n + 1
    BY <1>1
  <2>1. CASE n + 1 \in U
    <3>1. V(n + 1) = V(n) \cup {n + 1} /\ n + 1 \notin V(n)
      BY <2>a, <2>1
    <3>2. Cardinality(V(n) \cup {n + 1}) = Cardinality(V(n)) + 1
      BY <1>2, <3>1, FS_AddElement, ZenonT(30)
    <3> QED
      BY <2>1, <3>1, <3>2
  <2>2. CASE n + 1 \notin U
    <3>1. V(n + 1) = V(n)
      BY <2>a, <2>2
    <3>2. Cardinality(V(n)) \in Nat
      BY <1>2
    <3> HIDE DEF V
    <3> QED
      BY <2>2, <3>1, <3>2
  <2> QED
    BY <2>1, <2>2
<1> QED
  BY <1>2, <1>3, <1>4, FS_EmptySet DEF Place, U

\* No card has to move to the back, and no two have the same place.
LEMMA PlaceOrder ==
  ASSUME NEW S, NEW list \in Seq(S), NEW id
  PROVE  /\ \A n \in Nat : Place(list, id, n) <= n
         /\ \A n \in Nat : \A m \in 0..n : Place(list, id, m) <= Place(list, id, n)
         /\ \A m, n \in Staying(list, id) :
              m < n => Place(list, id, m) < Place(list, id, n)
<1> DEFINE P(n) == Place(list, id, n)
           U == Staying(list, id)
<1>1. /\ P(0) = 0 /\ \A n \in Nat : P(n) \in Nat
      /\ \A n \in Nat : P(n + 1) = P(n) + (IF n + 1 \in U THEN 1 ELSE 0)
  BY PlaceStep
<1>2. \A i \in U : i \in Nat /\ i >= 1
  BY StayingFinite
<1>a. \A n \in Nat : P(n + 1) = P(n) \/ P(n + 1) = P(n) + 1
  BY <1>1
<1> HIDE DEF P, U
<1>3. \A n \in Nat : P(n) <= n
  <2> DEFINE T == {n \in Nat : P(n) <= n}
  <2>1. 0 \in T
    BY <1>1
  <2>2. ASSUME NEW n \in Nat, n \in T PROVE n + 1 \in T
    <3>1. P(n) \in Nat /\ P(n) <= n /\ (P(n + 1) = P(n) \/ P(n + 1) = P(n) + 1)
      BY <1>1, <1>a, <2>2
    <3>2. P(n + 1) <= n + 1
      BY <3>1
    <3> QED
      BY <3>2
  <2>3. \A n \in Nat : n \in T
    BY <2>1, <2>2, NatInduct
  <2> QED
    BY <2>3
<1>4. \A n \in Nat : \A m \in 0..n : P(m) <= P(n)
  <2> DEFINE T == {n \in Nat : \A m \in 0..n : P(m) <= P(n)}
  <2>1. 0 \in T
    BY <1>1
  <2>2. ASSUME NEW n \in Nat, n \in T PROVE n + 1 \in T
    <3>1. ASSUME NEW m \in 0..(n + 1) PROVE P(m) <= P(n + 1)
      <4>a. m \in Nat /\ n + 1 \in Nat
        OBVIOUS
      <4>b. P(n) \in Nat /\ P(n + 1) \in Nat /\ P(m) \in Nat
        BY <1>1, <4>a
      <4>1. P(n) <= P(n + 1)
        BY <1>a, <4>b
      <4>2. CASE m \in 0..n
        BY <2>2, <4>b, <4>1, <4>2
      <4>3. CASE m = n + 1
        BY <4>b, <4>3
      <4> QED
        BY <4>2, <4>3
    <3> QED
      BY <3>1
  <2> HIDE DEF T
  <2>3. \A n \in Nat : n \in T
    BY <2>1, <2>2, NatInduct
  <2> QED
    BY <2>3 DEF T
<1>5. ASSUME NEW m \in U, NEW n \in U, m < n PROVE P(m) < P(n)
  <2>1. n - 1 \in Nat /\ m \in 0..(n - 1) /\ (n - 1) + 1 = n /\ m \in Nat
    BY <1>2, <1>5
  <2>2. P(n) = P(n - 1) + 1
    BY <1>1, <2>1
  <2>3. P(m) <= P(n - 1) /\ P(m) \in Nat /\ P(n - 1) \in Nat
    BY <1>1, <1>4, <2>1
  <2> QED
    BY <2>2, <2>3
<1> QED
  BY <1>3, <1>4, <1>5 DEF P, U

LEMMA PlaceUnique ==
  ASSUME NEW S, NEW list \in Seq(S), NEW id,
         NEW j \in Staying(list, id), NEW k \in Staying(list, id),
         Place(list, id, j) = Place(list, id, k)
  PROVE  j = k
<1>1. j \in Nat /\ k \in Nat
  BY StayingFinite
<1>2. Place(list, id, j) \in Nat /\ Place(list, id, k) \in Nat
  BY <1>1, PlaceStep
<1>3. ~ (j < k) /\ ~ (k < j)
  BY <1>2, PlaceOrder
<1> QED
  BY <1>1, <1>3

LEMMA PlaceLast ==
  ASSUME NEW S, NEW list \in Seq(S), NEW id
  PROVE  Cardinality(Staying(list, id)) = Place(list, id, Len(list))
<1>1. Staying(list, id) = {i \in Staying(list, id) : i <= Len(list)}
  BY StayingFinite
<1> QED
  BY <1>1 DEF Place

-----------------------------------------------------------------------------
(* The loop of std::remove_if.                                             *)

\* What the loop has made of the list, and where its end is, after n cards.
Loops(loop, last, list, id) ==
  loop = [n \in 0..last |-> IF n = 0 THEN [end |-> 1, list |-> list]
                            ELSE LoopStep(loop[n - 1], n, id)]

LEMMA LoopExists ==
  ASSUME NEW list, NEW id
  PROVE  \A last \in Nat : \E loop : Loops(loop, last, list, id)
<1> DEFINE T == {last \in Nat : \E loop : Loops(loop, last, list, id)}
<1>1. 0 \in T
  <2>1. Loops([n \in 0..0 |-> [end |-> 1, list |-> list]], 0, list, id)
    BY DEF Loops
  <2> QED
    BY <2>1
<1>2. ASSUME NEW last \in Nat, last \in T PROVE last + 1 \in T
  <2>1. PICK loop : Loops(loop, last, list, id)
    BY <1>2
  <2> DEFINE longer == [n \in 0..(last + 1) |->
                          IF n <= last THEN loop[n] ELSE LoopStep(loop[last], n, id)]
             body(n) == IF n = 0 THEN [end |-> 1, list |-> list]
                        ELSE LoopStep(longer[n - 1], n, id)
  <2>2. ASSUME NEW n \in 0..(last + 1) PROVE longer[n] = body(n)
    <3>1. CASE n = 0
      BY <2>1, <3>1 DEF Loops
    <3>2. CASE n # 0 /\ n <= last
      <4>1. n \in 0..last /\ n - 1 \in 0..(last + 1) /\ n - 1 <= last
        BY <3>2
      <4>2. loop[n] = LoopStep(loop[n - 1], n, id)
        BY <2>1, <3>2, <4>1 DEF Loops
      <4>3. longer[n] = loop[n] /\ longer[n - 1] = loop[n - 1]
        BY <3>2, <4>1
      <4> QED
        BY <3>2, <4>2, <4>3
    <3>3. CASE n = last + 1
      <4>1. n # 0 /\ n - 1 = last /\ ~ (n <= last) /\ last \in 0..(last + 1)
        BY <3>3
      <4>2. longer[n] = LoopStep(loop[last], n, id) /\ longer[n - 1] = loop[last]
        BY <4>1
      <4> QED
        BY <4>1, <4>2
    <3> QED
      BY <3>1, <3>2, <3>3
  <2>3. longer = [n \in 0..(last + 1) |-> body(n)]
    BY <2>2
  <2>4. Loops(longer, last + 1, list, id)
    BY <2>3 DEF Loops
  <2> QED
    BY <2>4
<1> HIDE DEF T
<1>3. \A last \in Nat : last \in T
  BY <1>1, <1>2, NatInduct
<1> QED
  BY <1>3 DEF T

LEMMA LoopDefined ==
  ASSUME NEW S, NEW list \in Seq(S), NEW id
  PROVE  \E loop : /\ Loops(loop, Len(list), list, id)
                   /\ RemoveIfLoop(list, id) = loop[Len(list)].list
<1> DEFINE loop == CHOOSE f : Loops(f, Len(list), list, id)
<1>1. Loops(loop, Len(list), list, id)
  BY LoopExists
<1>2. RemoveIfLoop(list, id) = loop[Len(list)].list
  BY DEF RemoveIfLoop, Loops
<1> QED
  BY <1>1, <1>2

\* After n cards: the cards to keep among them are at the front, each at its place;
\* the places behind are of cards moved away or to delete; the rest is untouched.
LoopInv(at, n, S, list, id) ==
  /\ at = [end |-> at.end, list |-> at.list]
  /\ at.end = Place(list, id, n) + 1
  /\ at.list \in [1..Len(list) -> S \cup {Blank}]
  /\ \A i \in 1..Len(list) :
       /\ i < at.end => \E j \in Staying(list, id) :
                          j <= n /\ Place(list, id, j) = i /\ at.list[i] = list[j]
       /\ i >= at.end /\ i <= n =>
            at.list[i] = IF list[i].id = id THEN list[i] ELSE Blank
       /\ i > n => at.list[i] = list[i]

LEMMA LoopInvStep ==
  ASSUME NEW S, NEW list \in Seq(S), NEW id,
         NEW n \in Nat, n < Len(list),
         NEW at, LoopInv(at, n, S, list, id)
  PROVE  LoopInv(LoopStep(at, n + 1, id), n + 1, S, list, id)
<1> DEFINE P(i) == Place(list, id, i)
           U == Staying(list, id)
           new == LoopStep(at, n + 1, id)
           N == Len(list)
<1>1. /\ \A i \in U : i \in 1..N /\ list[i].id # id
      /\ n + 1 \in U <=> list[n + 1].id # id
      /\ N \in Nat /\ list \in [1..N -> S] /\ n + 1 \in 1..N
  BY DEF Staying
<1>2. /\ P(n) \in Nat /\ P(n) <= n
      /\ P(n + 1) = P(n) + (IF n + 1 \in U THEN 1 ELSE 0)
  BY PlaceStep, PlaceOrder
<1>3. /\ at = [end |-> at.end, list |-> at.list] /\ at.end = P(n) + 1
      /\ at.list \in [1..N -> S \cup {Blank}]
  BY DEF LoopInv
<1>4. ASSUME NEW i \in 1..N
      PROVE  /\ i < at.end => \E j \in U : j <= n /\ P(j) = i /\ at.list[i] = list[j]
             /\ i >= at.end /\ i <= n =>
                  at.list[i] = IF list[i].id = id THEN list[i] ELSE Blank
             /\ i > n => at.list[i] = list[i]
  BY DEF LoopInv
<1>5. at.list[n + 1] = list[n + 1]
  BY <1>1, <1>4
<1> HIDE DEF P, U
<1>6. CASE list[n + 1].id = id
  <2>1. new = at
    BY <1>5, <1>6 DEF LoopStep
  <2>2. P(n + 1) = P(n)
    BY <1>1, <1>2, <1>6
  <2> HIDE DEF new, N
  <2>3. ASSUME NEW i \in 1..N
        PROVE  /\ i < new.end => \E j \in U : j <= n + 1 /\ P(j) = i /\ new.list[i] = list[j]
               /\ i >= new.end /\ i <= n + 1 =>
                    new.list[i] = IF list[i].id = id THEN list[i] ELSE Blank
               /\ i > n + 1 => new.list[i] = list[i]
    <3>1. i < new.end => \E j \in U : j <= n + 1 /\ P(j) = i /\ new.list[i] = list[j]
      <4> SUFFICES ASSUME i < new.end
                   PROVE  \E j \in U : j <= n + 1 /\ P(j) = i /\ new.list[i] = list[j]
        OBVIOUS
      <4>1. PICK j \in U : j <= n /\ P(j) = i /\ at.list[i] = list[j]
        BY <1>4, <2>1
      <4>2. j \in Nat
        BY <1>1, <4>1
      <4> QED
        BY <2>1, <4>1, <4>2
    <3>2. i >= new.end /\ i <= n + 1 =>
            new.list[i] = IF list[i].id = id THEN list[i] ELSE Blank
      <4>1. CASE i = n + 1
        BY <1>5, <1>6, <2>1, <4>1
      <4>2. CASE i # n + 1
        <5>1. i <= n + 1 => i <= n
          BY <1>1, <4>2
        <5> QED
          BY <1>4, <2>1, <5>1
      <4> QED
        BY <4>1, <4>2
    <3>3. i > n + 1 => new.list[i] = list[i]
      <4>1. i > n + 1 => i > n
        BY <1>1
      <4> QED
        BY <1>4, <2>1, <4>1
    <3> QED
      BY <3>1, <3>2, <3>3
  <2> QED
    BY <1>3, <2>1, <2>2, <2>3 DEF LoopInv, P, U, N, new
<1>7. CASE list[n + 1].id # id
  <2>1. P(n + 1) = P(n) + 1 /\ n + 1 \in U
    BY <1>1, <1>2, <1>7
  <2>2. /\ new = [end |-> new.end, list |-> new.list]
        /\ new.end = at.end + 1
        /\ new.list = IF n + 1 = at.end THEN at.list
                      ELSE [at.list EXCEPT ![at.end] = at.list[n + 1], ![n + 1] = Blank]
    BY <1>5, <1>7 DEF LoopStep
  <2>3. at.end \in 1..N /\ at.end <= n + 1
    BY <1>1, <1>2, <1>3
  <2> HIDE DEF new, N
  <2>4. new.list \in [1..N -> S \cup {Blank}]
    <3>1. at.list[n + 1] \in S
      BY <1>1, <1>5
    <3> QED
      BY <1>3, <2>2, <3>1
  <2>5. /\ new.list[at.end] = list[n + 1]
        /\ n + 1 # at.end => new.list[n + 1] = Blank
        /\ \A i \in 1..N : i # at.end /\ i # n + 1 => new.list[i] = at.list[i]
    BY <1>1, <1>3, <1>5, <2>2, <2>3
  <2>6. ASSUME NEW i \in 1..N
        PROVE  /\ i < new.end => \E j \in U : j <= n + 1 /\ P(j) = i /\ new.list[i] = list[j]
               /\ i >= new.end /\ i <= n + 1 =>
                    new.list[i] = IF list[i].id = id THEN list[i] ELSE Blank
               /\ i > n + 1 => new.list[i] = list[i]
    <3>a. i \in Nat /\ at.end \in Nat
      BY <1>1, <2>3
    <3>1. CASE i = at.end
      <4>1. new.list[i] = list[n + 1] /\ P(n + 1) = i /\ i < new.end /\ i <= n + 1
        BY <1>2, <1>3, <2>1, <2>2, <2>3, <2>5, <3>1
      <4>2. n + 1 \in Nat /\ new.end \in Nat
        BY <2>2, <3>a
      <4> QED
        BY <2>1, <3>a, <4>1, <4>2
    <3>2. CASE i < at.end
      <4>1. PICK j \in U : j <= n /\ P(j) = i /\ at.list[i] = list[j]
        BY <1>4, <3>2
      <4>2. j \in Nat /\ j <= n + 1
        BY <1>1, <4>1
      <4>3. i # at.end /\ i # n + 1 /\ i < new.end /\ i <= n + 1
        BY <2>2, <2>3, <3>a, <3>2
      <4>4. new.list[i] = list[j]
        BY <2>5, <4>1, <4>3
      <4> QED
        BY <2>2, <3>a, <4>1, <4>2, <4>3, <4>4
    <3>3. CASE i > at.end
      <4>1. ~ (i < new.end)
        BY <2>2, <3>a, <3>3
      <4>2. CASE i = n + 1
        BY <1>7, <2>5, <3>3, <3>a, <4>1, <4>2
      <4>3. CASE i # n + 1
        <5>1. new.list[i] = at.list[i]
          BY <2>5, <3>a, <3>3, <4>3
        <5>2. (i <= n + 1 => i <= n) /\ (i > n + 1 => i > n) /\ i >= at.end
          BY <3>a, <3>3, <4>3
        <5> QED
          BY <1>4, <4>1, <5>1, <5>2
      <4> QED
        BY <4>2, <4>3
    <3> QED
      BY <3>a, <3>1, <3>2, <3>3
  <2> QED
    BY <1>2, <1>3, <2>1, <2>2, <2>4, <2>6 DEF LoopInv, P, U, N, new
<1> QED
  BY <1>6, <1>7

LEMMA LoopEnds ==
  ASSUME NEW S, NEW list \in Seq(S), NEW id
  PROVE  \E at : /\ LoopInv(at, Len(list), S, list, id)
                /\ RemoveIfLoop(list, id) = at.list
<1> DEFINE N == Len(list)
<1>1. PICK loop : /\ Loops(loop, N, list, id)
                  /\ RemoveIfLoop(list, id) = loop[N].list
  BY LoopDefined
<1>2. N \in Nat /\ list \in [1..N -> S] /\ DOMAIN list = 1..N
  OBVIOUS
<1>3. /\ loop[0] = [end |-> 1, list |-> list]
      /\ \A n \in Nat : n < N => loop[n + 1] = LoopStep(loop[n], n + 1, id)
  <2>1. ASSUME NEW n \in Nat, n < N PROVE loop[n + 1] = LoopStep(loop[n], n + 1, id)
    <3>1. n + 1 \in 0..N /\ n + 1 # 0 /\ (n + 1) - 1 = n
      BY <1>2, <2>1
    <3> QED
      BY <1>1, <3>1 DEF Loops
  <2> QED
    BY <1>1, <1>2, <2>1 DEF Loops
<1> HIDE DEF N
<1>4. LoopInv(loop[N], N, S, list, id)
  <2> DEFINE T == {n \in Nat : n <= N => LoopInv(loop[n], n, S, list, id)}
  <2>1. 0 \in T
    <3>1. Place(list, id, 0) = 0
      BY PlaceStep
    <3>2. list \in [1..N -> S \cup {Blank}]
      BY <1>2
    <3> QED
      BY <1>2, <1>3, <3>1, <3>2 DEF LoopInv, N
  <2>2. ASSUME NEW n \in Nat, n \in T PROVE n + 1 \in T
    <3>1. CASE n < N
      <4>1. LoopInv(loop[n], n, S, list, id)
        BY <1>2, <2>2, <3>1
      <4>2. LoopInv(loop[n + 1], n + 1, S, list, id)
        BY <1>3, <3>1, <4>1, LoopInvStep DEF N
      <4> QED
        BY <4>2
    <3>2. CASE ~ (n < N)
      BY <1>2, <3>2
    <3> QED
      BY <3>1, <3>2
  <2> HIDE DEF T
  <2>3. \A n \in Nat : n \in T
    BY <2>1, <2>2, NatInduct
  <2> QED
    BY <1>2, <2>3 DEF T
<1> QED
  BY <1>1, <1>4 DEF N

\* std::remove_if (personalcardmanager.cpp:38) as a loop, and as what it leaves: the
\* same, for every list and every id.
THEOREM RemoveIfIsLoop ==
  ASSUME NEW S, NEW list \in Seq(S), NEW id
  PROVE  RemoveIf(list, id) = RemoveIfLoop(list, id)
<1> DEFINE N == Len(list)
           U == Staying(list, id)
<1>1. PICK at : /\ LoopInv(at, N, S, list, id)
                /\ RemoveIfLoop(list, id) = at.list
  BY LoopEnds
<1>2. N \in Nat /\ list \in [1..N -> S] /\ DOMAIN list = 1..N
  OBVIOUS
<1> HIDE DEF N
<1>3. Cardinality(U) = Place(list, id, N) /\ Place(list, id, N) \in Nat
  BY <1>2, PlaceLast, PlaceStep DEF N
<1> DEFINE new == at.list
<1>4. new \in [1..N -> S \cup {Blank}]
  BY <1>1 DEF LoopInv, N
<1>5. ASSUME NEW i \in 1..N
      PROVE  new[i] = IF i <= Cardinality(U)
                        THEN list[CHOOSE j \in U : Place(list, id, j) = i]
                      ELSE IF list[i].id = id THEN list[i] ELSE Blank
  <2>1. /\ i <= Cardinality(U) <=> i < at.end
        /\ ~ (i <= Cardinality(U)) => i >= at.end
        /\ i <= N
    BY <1>1, <1>2, <1>3 DEF LoopInv
  <2>2. CASE i <= Cardinality(U)
    <3>1. PICK j \in U : Place(list, id, j) = i /\ new[i] = list[j]
      BY <1>1, <2>1, <2>2 DEF LoopInv, N
    <3> DEFINE k == CHOOSE k \in U : Place(list, id, k) = i
    <3>2. k \in U /\ Place(list, id, k) = i
      BY <3>1
    <3> HIDE DEF k
    <3>3. j = k
      BY <3>1, <3>2, PlaceUnique
    <3> QED
      BY <2>2, <3>1, <3>3 DEF k
  <2>3. CASE ~ (i <= Cardinality(U))
    BY <1>1, <2>1, <2>3 DEF LoopInv, N
  <2> QED
    BY <2>2, <2>3
<1>6. new = RemoveIf(list, id)
  BY <1>2, <1>4, <1>5 DEF RemoveIf
<1> QED
  BY <1>1, <1>6

\* A card that is not to be deleted (personalcardmanager.cpp:36-39) is never lost:
\* in a list that is no shorter it comes to its place, which is not behind its old
\* one, and the cards that stay keep their order.  Any other place holds a card to
\* delete, or a blank.
THEOREM RemoveIfKeepsOthers ==
  ASSUME NEW S, NEW list \in Seq(S), NEW id
  PROVE  /\ RemoveIf(list, id) \in Seq(S \cup {Blank})
         /\ Len(RemoveIf(list, id)) = Len(list)
         /\ \A j \in Staying(list, id) :
              /\ Place(list, id, j) \in 1..j
              /\ RemoveIf(list, id)[Place(list, id, j)] = list[j]
         /\ \A j, k \in Staying(list, id) :
              j < k => Place(list, id, j) < Place(list, id, k)
         /\ \A k \in 1..Len(list) :
              \/ \E j \in Staying(list, id) : Place(list, id, j) = k
              \/ RemoveIf(list, id)[k].id = id
              \/ RemoveIf(list, id)[k] = Blank
<1> DEFINE N == Len(list)
           U == Staying(list, id)
           new == RemoveIf(list, id)
<1>1. PICK at : LoopInv(at, N, S, list, id) /\ new = at.list
  BY LoopEnds, RemoveIfIsLoop
<1>2. new \in [1..N -> S \cup {Blank}] /\ N \in Nat
  BY <1>1 DEF LoopInv
<1> HIDE DEF new
<1>3. new \in Seq(S \cup {Blank}) /\ Len(new) = N
  BY <1>2
<1>4. ASSUME NEW j \in U
      PROVE  Place(list, id, j) \in 1..j /\ new[Place(list, id, j)] = list[j]
  <2>1. j \in 1..N /\ j - 1 \in Nat /\ (j - 1) + 1 = j /\ j \in Nat /\ j \in 0..N
    BY StayingFinite
  <2>2. Place(list, id, j) = Place(list, id, j - 1) + 1 /\ Place(list, id, j - 1) \in Nat
    BY <2>1, PlaceStep
  <2>3. Place(list, id, j) <= j /\ Place(list, id, j) <= Place(list, id, N)
    BY <2>1, <1>2, PlaceOrder
  <2>4. Place(list, id, N) \in Nat /\ at.end = Place(list, id, N) + 1
    BY <1>1, <1>2, PlaceStep DEF LoopInv
  <2>5. Place(list, id, j) \in 1..j /\ Place(list, id, j) \in 1..N /\ Place(list, id, j) < at.end
    BY <2>1, <2>2, <2>3, <2>4
  <2>6. PICK k \in U : Place(list, id, k) = Place(list, id, j) /\ new[Place(list, id, j)] = list[k]
    BY <1>1, <2>5 DEF LoopInv
  <2>7. k = j
    BY <2>6, PlaceUnique
  <2> QED
    BY <2>5, <2>6, <2>7
<1>5. ASSUME NEW k \in 1..N
      PROVE  (\E j \in U : Place(list, id, j) = k) \/ new[k].id = id \/ new[k] = Blank
  <2>1. Place(list, id, N) \in Nat /\ at.end = Place(list, id, N) + 1
    BY <1>1, <1>2, PlaceStep DEF LoopInv
  <2>2. k < at.end \/ (k >= at.end /\ k <= N)
    BY <1>2, <2>1
  <2> QED
    BY <1>1, <2>2 DEF LoopInv
<1> QED
  BY <1>3, <1>4, <1>5, PlaceOrder DEF new

-----------------------------------------------------------------------------
(* Adding and editing.  The predicate of find_if is true of every card.    *)

LEMMA FoundAll ==
  ASSUME NEW S, NEW list \in Seq(S)
  PROVE  /\ Found(list) = 1..Len(list)
         /\ Found(list) = {} <=> list = <<>>
         /\ list # <<>> => First(Found(list)) = 1
<1>1. Found(list) = 1..Len(list) /\ Len(list) \in Nat
  BY DEF Found, SameId
<1>2. Found(list) = {} <=> list = <<>>
  <2>1. Found(list) = {} <=> Len(list) = 0
    <3>1. Len(list) # 0 => 1 \in 1..Len(list)
      BY <1>1
    <3> QED
      BY <1>1, <3>1
  <2> QED
    BY <2>1, EmptySeq
<1>3. ASSUME list # <<>> PROVE First(Found(list)) = 1
  <2>1. First(Found(list)) \in 1..Len(list) /\ \A n \in 1..Len(list) : First(Found(list)) <= n
    <3>1. Found(list) \subseteq Nat /\ Found(list) # {}
      BY <1>1, <1>2, <1>3
    <3>2. First(Found(list)) \in Found(list) /\ \A n \in Found(list) : First(Found(list)) <= n
      BY <3>1, FirstIsLeast
    <3> QED
      BY <1>1, <3>2
  <2>2. 1 \in 1..Len(list)
    BY <1>1, <2>1
  <2> QED
    BY <2>1, <2>2
<1> QED
  BY <1>1, <1>2, <1>3

\* What addCard and editCard (personalcardmanager.cpp:13-27) do to any list: a card
\* is added to the empty list only, and in any other the first card is replaced.
THEOREM AddedAndEdited ==
  ASSUME NEW S, NEW list \in Seq(S), NEW card
  PROVE  /\ Added(list, card) = IF list = <<>> THEN <<card>> ELSE list
         /\ Edited(list, card) = IF list = <<>> THEN <<card>>
                                 ELSE [list EXCEPT ![1] = card]
<1>1. CASE list = <<>>
  <2>1. Append(list, card) = <<card>>
    BY <1>1
  <2> QED
    BY <1>1, <2>1, FoundAll DEF Added, Edited
<1>2. CASE list # <<>>
  BY <1>2, FoundAll DEF Added, Edited
<1> QED
  BY <1>1, <1>2

-----------------------------------------------------------------------------
(* Types and lengths.                                                      *)

LEMMA ListOperations ==
  ASSUME NEW S, NEW list \in Seq(S), NEW card \in S, NEW id
  PROVE  /\ Added(list, card) \in Seq(S) /\ Edited(list, card) \in Seq(S)
         /\ RemoveIf(list, id) \in Seq(S \cup {Blank})
         /\ Len(RemoveIf(list, id)) = Len(list)
         /\ \A new \in {Added(list, card), Edited(list, card)} :
              Len(new) = Len(list) \/ (Len(list) = 0 /\ Len(new) = 1)
<1>1. <<card>> \in Seq(S) /\ Len(<<card>>) = 1 /\ Len(<<>>) = 0
  OBVIOUS
<1>2. CASE list = <<>>
  BY <1>1, <1>2, AddedAndEdited, RemoveIfKeepsOthers
<1>3. CASE list # <<>>
  <2> DEFINE new == [list EXCEPT ![1] = card]
  <2>1. list \in [1..Len(list) -> S] /\ Len(list) \in Nat
    OBVIOUS
  <2>2. new \in [1..Len(list) -> S]
    BY <2>1
  <2>3. new \in Seq(S) /\ Len(new) = Len(list)
    BY <2>1, <2>2
  <2>4. Added(list, card) = list /\ Edited(list, card) = new
    BY <1>3, AddedAndEdited
  <2> HIDE DEF new
  <2> QED
    BY <2>3, <2>4, RemoveIfKeepsOthers
<1> QED
  BY <1>2, <1>3
=============================================================================
