------------------------------- MODULE Scans -------------------------------
(* What the loops of the programs rest on.  A scan that keeps the best entry *)
(* so far, as the job list and the cache simulator make it, ends with the   *)
(* smallest or the largest: finite sets of integers have one.  A walk from  *)
(* place to place, as the allocators make it over blocks and lists, is      *)
(* written as a recursive function: the function exists, whether or not the *)
(* walk ends.                                                               *)
EXTENDS Integers, FiniteSets, FiniteSetTheorems, WellFoundedInduction, TLAPS

----------------------------------------------------------------------------
\* Extremes

\* Give every element of a finite set a part of the set: some element's part
\* has no other element's part strictly inside it.
LEMMA MinimalPart ==
    ASSUME NEW S, IsFiniteSet(S), S # {}
    PROVE  \A part \in [S -> SUBSET S] :
               \E x \in S : \A y \in S : part[y] \subseteq part[x] => part[y] = part[x]
<1> TAKE part \in [S -> SUBSET S]
<1> DEFINE T == {part[x] : x \in S}
<1>1. IsWellFoundedOn(StrictSubsetOrdering(S), FiniteSubsetsOf(S))
  BY FS_StrictSubsetOrderingWellFounded
<1>2. FiniteSubsetsOf(S) = SUBSET S
  BY FS_FiniteSubsetsOfFinite
<1>3. T \subseteq SUBSET S /\ T # {}
  OBVIOUS
<1>4. PICK U \in T : \A V \in T : ~ (<<V, U>> \in StrictSubsetOrdering(S))
  <2> DEFINE R == StrictSubsetOrdering(S)
             F == FiniteSubsetsOf(S)
  <2>1. IsWellFoundedOn(R, F) /\ T \subseteq F /\ T # {}
    BY <1>1, <1>2, <1>3
  <2> HIDE DEF T, R, F
  <2>2. \E x \in T : \A y \in T : ~ (<<y, x>> \in R)
    BY <2>1, WFMin
  <2> QED BY <2>2 DEF R
<1>5. PICK x \in S : U = part[x]
  OBVIOUS
<1>6. ASSUME NEW y \in S, part[y] \subseteq part[x], part[y] # part[x]
      PROVE  FALSE
  <2>1. part[y] \in T /\ part[y] \in SUBSET S /\ part[x] \in SUBSET S
    OBVIOUS
  <2>2. <<part[y], part[x]>> \in StrictSubsetOrdering(S)
    BY <2>1, <1>6 DEF StrictSubsetOrdering
  <2> QED BY <2>1, <2>2, <1>4, <1>5
<1> QED BY <1>6

\* A nonempty finite set of integers has a smallest element.
LEMMA SmallestExists ==
    ASSUME NEW S \in SUBSET Int, IsFiniteSet(S), S # {}
    PROVE  \E x \in S : \A y \in S : x <= y
<1> DEFINE below == [x \in S |-> {y \in S : y <= x}]
<1>1. below \in [S -> SUBSET S]
  OBVIOUS
<1>2. PICK x \in S : \A y \in S : below[y] \subseteq below[x] => below[y] = below[x]
  <2> HIDE DEF below
  <2>1. \A part \in [S -> SUBSET S] :
           \E x \in S : \A y \in S : part[y] \subseteq part[x] => part[y] = part[x]
    BY MinimalPart, Zenon
  <2> QED BY <1>1, <2>1, Zenon
<1>3. ASSUME NEW y \in S, y < x PROVE FALSE
  <2>1. x \in Int /\ y \in Int
    OBVIOUS
  <2>2. x \in below[x] /\ x \notin below[y]
    BY <1>3, <2>1
  <2>3. \A z \in S : z <= y => z <= x
    BY <1>3, <2>1
  <2>4. below[y] \subseteq below[x]
    BY <2>3, Zenon
  <2> QED BY <2>2, <2>4, <1>2
<1> QED BY <1>3

\* A nonempty finite set of integers has a largest element.
LEMMA LargestExists ==
    ASSUME NEW S \in SUBSET Int, IsFiniteSet(S), S # {}
    PROVE  \E x \in S : \A y \in S : y <= x
<1> DEFINE above == [x \in S |-> {y \in S : x <= y}]
<1>1. above \in [S -> SUBSET S]
  OBVIOUS
<1>2. PICK x \in S : \A y \in S : above[y] \subseteq above[x] => above[y] = above[x]
  <2> HIDE DEF above
  <2>1. \A part \in [S -> SUBSET S] :
           \E x \in S : \A y \in S : part[y] \subseteq part[x] => part[y] = part[x]
    BY MinimalPart, Zenon
  <2> QED BY <1>1, <2>1, Zenon
<1>3. ASSUME NEW y \in S, x < y PROVE FALSE
  <2>1. x \in Int /\ y \in Int
    OBVIOUS
  <2>2. x \in above[x] /\ x \notin above[y]
    BY <1>3, <2>1
  <2>3. \A z \in S : y <= z => x <= z
    BY <1>3, <2>1
  <2>4. above[y] \subseteq above[x]
    BY <2>3, Zenon
  <2> QED BY <2>2, <2>4, <1>2
<1> QED BY <1>3

----------------------------------------------------------------------------
\* Walks

\* The places that a walk passes: it goes on from those in T, by next, and ends
\* at any other.
IsWalk(walk, D, T, next) == walk = [x \in D |-> IF x \in T THEN {x} \cup walk[next[x]] ELSE {}]

\* There is such a walk.
LEMMA WalkExists ==
    ASSUME NEW D, NEW T \in SUBSET D, NEW next \in [T -> D]
    PROVE  \E walk : IsWalk(walk, D, T, next)
<1> DEFINE Closed(S) == \A z \in S : z \in T => next[z] \in S
           Reach(x) == {y \in T : \A S \in SUBSET D : x \in S /\ Closed(S) => y \in S}
           walk == [x \in D |-> Reach(x)]
<1>1. ASSUME NEW x \in D, x \in T PROVE Reach(x) = {x} \cup Reach(next[x])
  <2>1. next[x] \in D
    BY <1>1
  <2>2. ASSUME NEW y \in Reach(next[x]) PROVE y \in Reach(x)
    BY <1>1, <2>2
  <2>3. x \in Reach(x)
    BY <1>1
  <2>4. ASSUME NEW y \in Reach(x), y # x PROVE y \in Reach(next[x])
    <3>1. ASSUME NEW S \in SUBSET D, next[x] \in S, Closed(S) PROVE y \in S
      <4>1. Closed(S \cup {x})
        BY <3>1
      <4> QED BY <1>1, <2>4, <4>1
    <3> QED BY <2>4, <3>1
  <2> HIDE DEF Reach
  <2> QED BY <2>2, <2>3, <2>4
<1>2. ASSUME NEW x \in D, x \notin T PROVE Reach(x) = {}
  <2>1. Closed({x})
    BY <1>2
  <2>2. \A y \in Reach(x) : y \in {x}
    BY <2>1
  <2> QED BY <1>2, <2>2
<1>3. \A x \in D : x \in T => next[x] \in D
  OBVIOUS
<1>4. walk = [x \in D |-> IF x \in T THEN {x} \cup walk[next[x]] ELSE {}]
  <2>1. ASSUME NEW x \in D PROVE Reach(x) = IF x \in T THEN {x} \cup walk[next[x]] ELSE {}
    <3> HIDE DEF Reach
    <3> QED BY <1>1, <1>2, <1>3
  <2> HIDE DEF Reach
  <2> QED BY <2>1
<1> QED BY <1>4 DEF IsWalk

\* A search: where the walk ends, the place has a value, which is the result.
IsSearch(search, D, T, next, value) ==
    search = [x \in D |-> IF x \in T THEN search[next[x]] ELSE value[x]]

\* There is such a search.
LEMMA SearchExists ==
    ASSUME NEW D, NEW T \in SUBSET D, NEW next \in [T -> D], NEW value
    PROVE  \E search : IsSearch(search, D, T, next, value)
<1> DEFINE Closed(S) == \A z \in S : z \in T => next[z] \in S
           Ends(x) == {y \in D \ T : \A S \in SUBSET D : x \in S /\ Closed(S) => y \in S}
           Result(E) == value[CHOOSE y : y \in E]
           search == [x \in D |-> Result(Ends(x))]
<1>1. ASSUME NEW x \in D, x \in T PROVE Ends(x) = Ends(next[x])
  <2>1. next[x] \in D
    BY <1>1
  <2>2. ASSUME NEW y \in Ends(next[x]) PROVE y \in Ends(x)
    BY <1>1, <2>2
  <2>3. ASSUME NEW y \in Ends(x) PROVE y \in Ends(next[x])
    <3>1. y # x
      BY <1>1, <2>3
    <3>2. ASSUME NEW S \in SUBSET D, next[x] \in S, Closed(S) PROVE y \in S
      <4>1. Closed(S \cup {x})
        BY <3>2
      <4> QED BY <1>1, <2>3, <3>1, <4>1
    <3> QED BY <2>3, <3>2
  <2> HIDE DEF Ends
  <2> QED BY <2>2, <2>3
<1>2. ASSUME NEW x \in D, x \notin T PROVE Ends(x) = {x}
  <2>1. Closed({x})
    BY <1>2
  <2>2. \A y \in Ends(x) : y \in {x}
    BY <2>1
  <2>3. x \in Ends(x)
    BY <1>2
  <2> QED BY <2>2, <2>3
<1>3. \A x \in D : x \in T => next[x] \in D
  OBVIOUS
<1>4. \A x : (CHOOSE y : y \in {x}) = x
  OBVIOUS
<1>5. ASSUME NEW x \in D
      PROVE  Result(Ends(x)) = IF x \in T THEN search[next[x]] ELSE value[x]
  <2>1. CASE x \in T
    <3> HIDE DEF Ends, Result
    <3> QED BY <1>1, <1>3, <2>1
  <2>2. CASE x \notin T
    <3>1. Ends(x) = {x}
      BY <1>2, <2>2
    <3> HIDE DEF Ends
    <3> QED BY <1>4, <3>1, <2>2
  <2> QED BY <2>1, <2>2
<1>6. search = [x \in D |-> IF x \in T THEN search[next[x]] ELSE value[x]]
  <2> HIDE DEF Ends, Result
  <2> QED BY <1>5
<1> QED BY <1>6 DEF IsSearch
=============================================================================
