------------------------------ MODULE LoopProofs ------------------------------
(***************************************************************************)
(* Induction over the rounds of a loop: what holds before it and is kept   *)
(* by every round holds after each round, for every N.                     *)
(*                                                                         *)
(* Good(c, x, ids, n) is what is to hold of a value x after round n of a   *)
(* loop over ids; c is whatever else it depends on.                        *)
(***************************************************************************)
EXTENDS Loop, FiniteSetTheorems, TLAPS

CONSTANT Good(_, _, _, _)

\* From the well-founded order on finite sets of the library.
LEMMA LeastElement ==
    ASSUME NEW B \in SUBSET Nat, B # {}
    PROVE  \E m \in B : \A k \in B : m <= k
  <1> DEFINE T == {0..n : n \in B}
  <1>1. IsWellFoundedOn(StrictSubsetOrdering(Nat), FiniteSubsetsOf(Nat))
    BY FS_StrictSubsetOrderingWellFounded
  <1>2. T \subseteq FiniteSubsetsOf(Nat) /\ T # {}
    <2>1. \A n \in Nat : IsFiniteSet(0..n) /\ 0..n \subseteq Nat
      BY FS_Interval
    <2> QED
      BY <2>1 DEF FiniteSubsetsOf
  <1> HIDE DEF T
  <1>3. PICK x \in T : \A y \in T : <<y, x>> \notin StrictSubsetOrdering(Nat)
    BY <1>1, <1>2, WFMin
  <1>4. PICK m \in B : x = 0..m
    BY <1>3 DEF T
  <1>5. ASSUME NEW k \in B, ~(m <= k) PROVE FALSE
    <2>1. k \in Nat /\ m \in Nat /\ k < m
      BY <1>5
    <2>2. 0..k \subseteq 0..m /\ 0..k # 0..m /\ 0..k \in SUBSET Nat /\ 0..m \in SUBSET Nat
      BY <2>1
    <2>3. <<0..k, 0..m>> \in StrictSubsetOrdering(Nat)
      BY <2>2 DEF StrictSubsetOrdering
    <2>4. 0..k \in T
      BY DEF T
    <2> QED
      BY <1>3, <1>4, <2>3, <2>4
  <1> QED
    BY <1>5

\* A set of numbers with a bound has a largest member.
LEMMA GreatestElement ==
    ASSUME NEW S \in SUBSET Nat, S # {}, NEW n \in Nat, \A k \in S : k <= n
    PROVE  \E m \in S : \A k \in S : k <= m
  <1> DEFINE U == {u \in Nat : \A k \in S : k <= u}
  <1>1. U \in SUBSET Nat /\ U # {}
    OBVIOUS
  <1>2. PICK m \in U : \A u \in U : m <= u
    BY <1>1, LeastElement
  <1>3. ASSUME m \notin S PROVE FALSE
    <2>1. PICK s \in S : TRUE
      OBVIOUS
    <2>2. m \in Nat /\ \A k \in S : k \in Nat /\ k < m
      BY <1>2, <1>3
    <2>3. m - 1 \in Nat
      BY <2>1, <2>2
    <2>4. \A k \in S : k <= m - 1
      BY <2>2, <2>3
    <2>5. m - 1 \in U
      BY <2>3, <2>4
    <2> QED
      BY <1>2, <2>2, <2>5
  <1> QED
    BY <1>2, <1>3

\* Induction as a statement about a set.
LEMMA UpTo ==
    ASSUME NEW m \in Nat, NEW P, 0 \in P, \A n \in 1..m : n - 1 \in P => n \in P
    PROVE  0..m \subseteq P
  <1> DEFINE B == {n \in 0..m : n \notin P}
  <1> SUFFICES ASSUME B # {} PROVE FALSE
    OBVIOUS
  <1>1. B \in SUBSET Nat
    OBVIOUS
  <1>2. PICK n \in B : \A k \in B : n <= k
    BY <1>1, LeastElement
  <1>3. n \in 1..m /\ n \notin P
    BY <1>2
  <1>4. n - 1 \in 0..m /\ ~(n <= n - 1)
    BY <1>3
  <1>5. n - 1 \in P
    BY <1>2, <1>4
  <1> QED
    BY <1>3, <1>5

\* The recursive function of the loop satisfies its equation.
LEMMA AfterUnfolds ==
    ASSUME N \in Nat, NEW x, NEW ids
    PROVE  After(x, ids) =
               [i \in 0..N |->
                   IF i = 0 THEN {x}
                   ELSE IF i \notin ids THEN After(x, ids)[i - 1]
                   ELSE UNION {Step(y, ids, i) : y \in After(x, ids)[i - 1]}]
  <1> DEFINE Body(g, i) == IF i = 0 THEN {x}
                           ELSE IF i \notin ids THEN g[i - 1]
                           ELSE UNION {Step(y, ids, i) : y \in g[i - 1]}
             P == {n \in Nat : \E g : g = [i \in 0..n |-> Body(g, i)]}
  <1>1. 0 \in P
    <2> DEFINE g == [i \in 0..0 |-> {x}]
    <2>1. g = [i \in 0..0 |-> Body(g, i)]
      OBVIOUS
    <2> QED
      BY <2>1
  <1>2. ASSUME NEW m \in 1..N, m - 1 \in P PROVE m \in P
    <2>1. PICK g : g = [i \in 0..(m - 1) |-> Body(g, i)]
      BY <1>2
    <2> DEFINE h == [i \in 0..m |-> IF i = m THEN Body(g, m) ELSE g[i]]
    <2>2. ASSUME NEW i \in 0..m PROVE h[i] = Body(h, i)
      <3>0. i \in Nat /\ m \in Nat /\ 0 # m
        OBVIOUS
      <3>1. CASE i = 0
        <4>1. h[0] = g[0] /\ g[0] = {x}
          BY <2>1, <3>0
        <4> QED
          BY <3>1, <4>1
      <3>2. CASE i # 0
        <4>1. h[i - 1] = g[i - 1]
          BY <3>0, <3>2
        <4>2. Body(h, i) = Body(g, i)
          BY <4>1
        <4>3. CASE i = m
          BY <4>2, <4>3
        <4>4. CASE i # m
          <5>1. h[i] = g[i] /\ i \in 0..(m - 1)
            BY <3>0, <4>4
          <5>2. g[i] = Body(g, i)
            BY <2>1, <5>1
          <5> QED
            BY <4>2, <5>1, <5>2
        <4> QED
          BY <4>3, <4>4
      <3> QED
        BY <3>1, <3>2
    <2>3. h = [i \in 0..m |-> h[i]]
      OBVIOUS
    <2>4. h = [i \in 0..m |-> Body(h, i)]
      BY <2>2, <2>3
    <2>5. m \in Nat
      OBVIOUS
    <2> QED
      BY <2>4, <2>5
  <1> HIDE DEF P
  <1>3. N \in P
    BY <1>1, <1>2, UpTo
  <1>4. \E g : g = [i \in 0..N |-> Body(g, i)]
    BY <1>3 DEF P
  <1> QED
    BY <1>4 DEF After

\* A round is skipped or taken; in both cases it keeps what is to hold.
Kept(c, x, ids, i) ==
    Good(c, x, ids, i - 1) =>
        /\ i \notin ids => Good(c, x, ids, i)
        /\ i \in ids => \A y \in Step(x, ids, i) : Good(c, y, ids, i)

\* The rule for loops: what holds at the start and is kept by every round holds of every
\* value that the loop may have, after any of its rounds.
THEOREM LoopRule ==
    ASSUME N \in Nat, NEW c, NEW x, NEW ids, Good(c, x, ids, 0),
           \A i \in 1..N : \A y : Kept(c, y, ids, i)
    PROVE  \A n \in 0..N : \A y \in After(x, ids)[n] : Good(c, y, ids, n)
  <1> DEFINE P == {n \in 0..N : \A y \in After(x, ids)[n] : Good(c, y, ids, n)}
  <1>1. 0 \in P
    <2>1. After(x, ids)[0] = {x}
      BY AfterUnfolds
    <2> QED
      BY <2>1
  <1>2. ASSUME NEW n \in 1..N, n - 1 \in P PROVE n \in P
    <2>1. After(x, ids)[n] = IF n \notin ids THEN After(x, ids)[n - 1]
                             ELSE UNION {Step(y, ids, n) : y \in After(x, ids)[n - 1]}
      <3>1. n \in 0..N /\ n # 0
        OBVIOUS
      <3>2. PICK A : A = After(x, ids)
        OBVIOUS
      <3>3. A = [i \in 0..N |->
                   IF i = 0 THEN {x}
                   ELSE IF i \notin ids THEN A[i - 1]
                   ELSE UNION {Step(y, ids, i) : y \in A[i - 1]}]
        BY <3>2, AfterUnfolds
      <3> QED
        BY <3>1, <3>2, <3>3
    <2>2. \A y \in After(x, ids)[n - 1] : Good(c, y, ids, n - 1)
      BY <1>2
    <2>3. \A y \in After(x, ids)[n] : Good(c, y, ids, n)
      BY <2>1, <2>2 DEF Kept
    <2> QED
      BY <2>3
  <1> HIDE DEF P
  <1>3. 0..N \subseteq P
    BY <1>1, <1>2, UpTo
  <1> QED
    BY <1>3 DEF P
===============================================================================
